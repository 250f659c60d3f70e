------------------------------ MODULE UploadTask ------------------------------
(***************************************************************************)
(* The stages of an upload, which the window, the walk along the remote    *)
(* path and the transfer each see a part of: the slot works or gives up,   *)
(* or starts the worker; the worker runs, says that it has finished, and   *)
(* leaves run(), and not before may the window receive that and tell of    *)
(* it.  A box stands before every return.  The program may end at any time.*)
(***************************************************************************)
VARIABLE stage

Init == stage = "idle"

From(a, b) == stage = a /\ stage' = b

Click == From("idle", "slot") \/ From("idle", "box")
GiveUp == From("slot", "box")
Start == From("slot", "running")
SayFinished == From("running", "emitted")
LeaveRun == From("emitted", "ended")
Finish == From("ended", "box")
Return == From("box", "idle")
End == stage # "over" /\ stage' = "over"

Next ==
  \/ Click \/ GiveUp \/ Start
  \/ SayFinished \/ LeaveRun \/ Finish
  \/ Return \/ End

Spec == Init /\ [][Next]_stage
=============================================================================
