----------------------------- MODULE SavedConfig -----------------------------
(***************************************************************************)
(* What the two dialogs promise of config.json: it always holds one whole  *)
(* document, and a save replaces the part its dialog edits at once and     *)
(* leaves the other part alone.  Only where something may fail can the     *)
(* document be lost, and then for good: no dialog writes another.          *)
(***************************************************************************)
CONSTANTS
  Valid,       (* the entries the configuration dialog accepts             *)
  SavedPaths,  (* the remote paths the path dialog accepts                 *)
  Lost,        (* what is left of the file when the document is lost       *)
  MayLose      (* whether it may be lost                                   *)

VARIABLE saved

SaveFields ==
  /\ saved \notin Lost
  /\ \E f \in Valid : saved' = [saved EXCEPT !.fields = f]

SavePath ==
  /\ saved \notin Lost
  /\ \E p \in SavedPaths : saved' = [saved EXCEPT !.path = p]

Lose ==
  /\ MayLose
  /\ saved \notin Lost
  /\ saved' \in Lost

Next == SaveFields \/ SavePath \/ Lose

Spec == [][Next]_saved
=============================================================================
