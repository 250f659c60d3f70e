----------------------------- MODULE ControlGate -----------------------------
(***************************************************************************)
(* What the group of buttons "notes", "check" and "upload" promises: one   *)
(* task at a time, and the buttons enabled exactly when there is none.     *)
(***************************************************************************)
CONSTANTS
  Tasks,     (* what the buttons start                                     *)
  None       (* no task                                                    *)

VARIABLES
  holder,    (* the task in progress, or None                              *)
  enabled    (* the buttons can be clicked                                 *)

Init == holder = None /\ enabled = TRUE

Take(t) ==
  /\ enabled
  /\ holder = None
  /\ holder' = t
  /\ enabled' = FALSE

Give ==
  /\ holder # None
  /\ holder' = None
  /\ enabled' = TRUE

Next == Give \/ \E t \in Tasks : Take(t)

Spec == Init /\ [][Next]_<<holder, enabled>>
=============================================================================
