--------------------------- MODULE ConfigFileProofs ---------------------------
(***************************************************************************)
(* Proofs about the configuration file, for every set of entries and paths *)
(* and every set of failures.                                              *)
(*                                                                         *)
(* What makes the properties inductive is what is known inside a save: it  *)
(* belongs to an open dialog with acceptable widgets, has read the         *)
(* document accepted last and merged its own part into it, and the file    *)
(* still is that document, gone or empty as far as the save has come.      *)
(***************************************************************************)
EXTENDS ConfigFile, TLAPS

SaveUnderWay ==
  pc \in Saving =>
    /\ dialog # "none"
    /\ Acceptable
    /\ before = accepted
    /\ jo = Merged(before)

DiskInSave ==
  /\ pc = "remove" => disk = before
  /\ pc = "create" => disk \in {before, Absent}
  /\ pc = "write" => disk = Malformed

IInv == TypeOK /\ SaveUnderWay /\ DiskInSave /\ LostOnlyByFailure /\ LastSaveWins

LEMMA MergedIsDocument ==
  ASSUME TypeOK, NEW d \in Documents
  PROVE  Merged(d) \in Documents
BY DEF TypeOK, Merged, Documents

LEMMA InitIInv == Init => IInv
<1> SUFFICES ASSUME Init PROVE IInv
  OBVIOUS
<1>1. [fields |-> Blank, path |-> << >>] \in Documents
  BY ConfigAssumption DEF Documents
<1>2. Unsaved \in Documents
  BY <1>1 DEF Unsaved
<1> QED
  BY <1>2, ConfigAssumption
  DEF Init, IInv, TypeOK, SaveUnderWay, DiskInSave, LostOnlyByFailure, LastSaveWins, Lost, Saving

LEMMA NextIInv == IInv /\ [Next]_vars => IInv'
<1> SUFFICES ASSUME IInv, [Next]_vars PROVE IInv'
  OBVIOUS
<1> USE ConfigAssumption DEF IInv, TypeOK, SaveUnderWay, DiskInSave, LostOnlyByFailure,
     LastSaveWins, Lost, Saving, widgets
<1>1. CASE OpenConfigDialog
  BY <1>1 DEF OpenConfigDialog, Readable, Documents, Acceptable, Merged
<1>2. CASE on_path_clicked
  BY <1>2 DEF on_path_clicked, Readable, Documents
<1>3. CASE Edit
  BY <1>3 DEF Edit
<1>4. CASE Reject
  BY <1>4 DEF Reject, Close
<1>5. CASE Refuse
  BY <1>5 DEF Refuse
<1>6. CASE CloseBox
  BY <1>6 DEF CloseBox
<1>7. CASE AcceptMalformed
  BY <1>7 DEF AcceptMalformed, Close
<1>8. CASE ReadBack
  BY <1>8, MergedIsDocument DEF ReadBack, Readable, Acceptable, Merged
<1>9. CASE Remove
  BY <1>9 DEF Remove, Acceptable, Merged
<1>10. CASE Create
  BY <1>10 DEF Create, Acceptable, Merged
<1>11. CASE Write
  BY <1>11, MergedIsDocument DEF Write, Close, Merged
<1>12. CASE End
  BY <1>12 DEF End
<1>13. CASE UNCHANGED vars
  BY <1>13 DEF vars, Acceptable, Merged
<1> QED
  BY <1>1, <1>2, <1>3, <1>4, <1>5, <1>6, <1>7, <1>8, <1>9, <1>10, <1>11, <1>12, <1>13 DEF Next

LEMMA Inductive == Spec => []IInv
BY InitIInv, NextIInv, PTL DEF Spec

(* Every reachable state is well typed, and no dialog is gone while one of *)
(* its boxes or saves goes on.                                             *)
THEOREM TypeCorrect == Spec => []TypeOK
<1>1. IInv => TypeOK
  BY DEF IInv
<1> QED
  BY <1>1, Inductive, PTL

(* Outside the few calls between removing and writing, config.json holds a *)
(* document unless a call failed or the process ended among them.          *)
THEOREM KeptWithoutFailure == Spec => []LostOnlyByFailure
<1>1. IInv => LostOnlyByFailure
  BY DEF IInv
<1> QED
  BY <1>1, Inductive, PTL

(* What can be read from config.json is what was accepted last, of either  *)
(* dialog.                                                                 *)
THEOREM LastSaveIsRead == Spec => []LastSaveWins
<1>1. IInv => LastSaveWins
  BY DEF IInv
<1> QED
  BY <1>1, Inductive, PTL
-----------------------------------------------------------------------------
(* The refinement.                                                         *)

(* Every step of the dialogs saves one part, loses the document where it   *)
(* may be lost, or leaves what counts as saved alone.                      *)
LEMMA StepIsSave == IInv /\ [Next]_vars => [Saved!Next]_(IF pc \in Saving THEN before ELSE disk)
<1> SUFFICES ASSUME IInv, [Next]_vars
             PROVE  [Saved!Next]_(IF pc \in Saving THEN before ELSE disk)
  OBVIOUS
<1> USE ConfigAssumption DEF IInv, TypeOK, SaveUnderWay, DiskInSave, Lost, Saving, widgets
<1>1. CASE OpenConfigDialog \/ on_path_clicked \/ Edit \/ Reject \/ Refuse \/ CloseBox
           \/ AcceptMalformed \/ UNCHANGED vars
  BY <1>1 DEF OpenConfigDialog, on_path_clicked, Edit, Reject, Refuse, CloseBox,
              AcceptMalformed, Close, vars
<1>2. CASE ReadBack \/ Remove
  BY <1>2 DEF ReadBack, Remove
<1>3. CASE Create
  BY <1>3 DEF Create, Saved!Next, Saved!Lose
<1>4. CASE Write
  <2>1. CASE disk' = jo
    BY <1>4, <2>1 DEF Write, Close, Acceptable, Merged, Saved!Next, Saved!SaveFields, Saved!SavePath
  <2>2. CASE "write" \in Faults /\ UNCHANGED disk
    BY <1>4, <2>2 DEF Write, Close, Saved!Next, Saved!Lose
  <2> QED
    BY <1>4, <2>1, <2>2 DEF Write
<1>5. CASE End
  BY <1>5 DEF End, Saved!Next, Saved!Lose
<1> QED
  BY <1>1, <1>2, <1>3, <1>4, <1>5 DEF Next

(* The two dialogs implement the configuration they promise.               *)
THEOREM ConfigIsSaved == Spec => ImplementsSavedConfig
BY Inductive, StepIsSave, PTL DEF Spec, ImplementsSavedConfig, Saved!Spec
=============================================================================
