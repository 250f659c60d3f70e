----------------------------- MODULE ConfigFile -----------------------------
(***************************************************************************)
(* config.json and the two dialogs that write it: ConfigDialog, and        *)
(* PathDialog, which is opened from it and saves while it stays open.  A   *)
(* save reads the file again, merges the widgets of its own dialog into    *)
(* what it read, removes the file, creates it and writes it; every one of  *)
(* these calls may fail, and the process may end between any two of them.  *)
(***************************************************************************)
EXTENDS Naturals, Sequences

CONSTANTS
  Fields,      (* what the seven widgets of ConfigDialog may hold          *)
  Valid,       (* those of them on_buttonBox_accepted lets through         *)
  Blank,       (* the widgets when nothing could be read                   *)
  RemotePaths, (* what the list of PathDialog may hold                     *)
  Absent,      (* there is no config.json                                  *)
  Malformed,   (* it holds no object                                       *)
  Faults       (* what may go wrong, out of FaultKinds                     *)

FaultKinds == {"read", "remove", "create", "write", "end"}

Documents == [fields : Fields, path : RemotePaths]

(* What the dialogs cannot repair.                                         *)
Lost == {Absent, Malformed}

ASSUME ConfigAssumption ==
  /\ Valid \subseteq Fields
  /\ Blank \in Fields \ Valid
  /\ << >> \in RemotePaths
  /\ Faults \subseteq FaultKinds
  /\ Absent \notin Documents \cup {Malformed}
  /\ Malformed \notin Documents

VARIABLES
  disk,     (* config.json                                                 *)
  dialog,   (* the dialog in front                                         *)
  pc,       (* where its on_buttonBox_accepted stands                      *)
  fields,   (* the widgets of ConfigDialog                                 *)
  pathlist, (* the list of PathDialog                                      *)
  jo,       (* the object a save is about to write                         *)
  before,   (* history: the document that save has read                    *)
  accepted, (* history: the entries and the path last accepted             *)
  harmed,   (* history: a call of a save failed, or the process ended in it*)
  closed    (* history: how the last dialog was closed                     *)

widgets == <<fields, pathlist>>
vars == <<disk, dialog, pc, widgets, jo, before, accepted, harmed, closed>>

Unsaved == CHOOSE d \in Documents : TRUE

Init ==
  /\ disk \in Documents \cup Lost
  /\ dialog = "none"
  /\ pc = "edit"
  /\ fields = Blank /\ pathlist = << >>
  /\ jo = Unsaved /\ before = Unsaved
  /\ IF disk \in Documents
     THEN accepted = disk /\ harmed = FALSE
     ELSE accepted = Unsaved /\ harmed = TRUE
  /\ closed = "no"
-----------------------------------------------------------------------------
(* The constructors: the widgets show what the file holds, or nothing.     *)

Readable == disk \in Documents

(* A constructor that opens the file in a mode that truncates it. *)
OpenTruncating ==
  /\ dialog = "none"
  /\ dialog' = "config"
  /\ fields' = Blank
  /\ disk' = Malformed
  /\ closed' = "no"
  /\ UNCHANGED <<pc, pathlist, jo, before, accepted, harmed>>

OpenConfigDialog ==
  /\ dialog = "none"
  /\ dialog' = "config"
  /\ \/ Readable /\ fields' = disk.fields
     \/ (~Readable \/ "read" \in Faults) /\ fields' = Blank
  /\ closed' = "no"
  /\ UNCHANGED <<disk, pc, pathlist, jo, before, accepted, harmed>>

on_path_clicked ==
  /\ dialog = "config" /\ pc = "edit"
  /\ dialog' = "path"
  /\ \/ Readable /\ pathlist' = disk.path
     \/ (~Readable \/ "read" \in Faults) /\ pathlist' = << >>
  /\ closed' = "no"
  /\ UNCHANGED <<disk, pc, fields, jo, before, accepted, harmed>>

Edit ==
  /\ pc = "edit"
  /\ \/ dialog = "config" /\ fields' \in Fields /\ UNCHANGED pathlist
     \/ dialog = "path" /\ pathlist' \in RemotePaths /\ UNCHANGED fields
  /\ UNCHANGED <<disk, dialog, pc, jo, before, accepted, harmed, closed>>

(* A dialog that can be closed while it saves. *)
CloseSaving(how) ==
  /\ dialog' = IF dialog = "path" THEN "config" ELSE "none"
  /\ pc' = pc
  /\ closed' = how

(* A dialog closes and the one below it, or the window, is in front.       *)
Close(how) ==
  /\ dialog' = IF dialog = "path" THEN "config" ELSE "none"
  /\ pc' = "edit"
  /\ closed' = how

Reject ==
  /\ dialog # "none" /\ pc = "edit"
  /\ Close("rejected")
  /\ UNCHANGED <<disk, widgets, jo, before, accepted, harmed>>
-----------------------------------------------------------------------------
(* on_buttonBox_accepted of either dialog.                                 *)

Acceptable ==
  \/ dialog = "config" /\ fields \in Valid
  \/ dialog = "path" /\ pathlist # << >>

(* A merge that also saves the path the path dialog last showed.           *)
MergedWithStale(d) == [fields |-> IF dialog = "config" THEN fields ELSE d.fields, path |-> pathlist]

Merged(d) ==
  IF dialog = "config" THEN [d EXCEPT !.fields = fields] ELSE [d EXCEPT !.path = pathlist]

(* The widgets are refused, or the file cannot be read: a box, and the     *)
(* dialog stays.                                                           *)
Refuse ==
  /\ dialog # "none" /\ pc = "edit"
  /\ ~Acceptable \/ disk = Absent \/ "read" \in Faults
  /\ pc' = "box"
  /\ UNCHANGED <<disk, dialog, widgets, jo, before, accepted, harmed, closed>>

CloseBox ==
  /\ pc = "box"
  /\ pc' = "edit"
  /\ UNCHANGED <<disk, dialog, widgets, jo, before, accepted, harmed, closed>>

(* A file that holds no object is left as it is, and the dialog accepted.  *)
AcceptMalformed ==
  /\ dialog # "none" /\ pc = "edit"
  /\ Acceptable
  /\ disk = Malformed
  /\ Close("accepted")
  /\ UNCHANGED <<disk, widgets, jo, before, accepted, harmed>>

ReadBack ==
  /\ dialog # "none" /\ pc = "edit"
  /\ Acceptable
  /\ Readable
  /\ jo' = Merged(disk)
  /\ before' = disk
  /\ pc' = "remove"
  /\ UNCHANGED <<disk, dialog, widgets, accepted, harmed, closed>>

(* The result of remove is ignored.                                        *)
Remove ==
  /\ pc = "remove"
  /\ \/ disk' = Absent
     \/ "remove" \in Faults /\ UNCHANGED disk
  /\ pc' = "create"
  /\ UNCHANGED <<dialog, widgets, jo, before, accepted, harmed, closed>>

(* Opening for writing creates or truncates the file.  If it fails a box   *)
(* tells so, and the dialog stays.                                         *)
Create ==
  /\ pc = "create"
  /\ \/ /\ disk' = Malformed
        /\ pc' = "write"
        /\ UNCHANGED harmed
     \/ /\ "create" \in Faults
        /\ pc' = "box"
        /\ harmed' = TRUE
        /\ UNCHANGED disk
  /\ UNCHANGED <<dialog, widgets, jo, before, accepted, closed>>

(* A save that forgets to put the merged object back into the document. *)
WriteUnmerged ==
  /\ pc = "write"
  /\ \/ disk' = before /\ UNCHANGED harmed
     \/ "write" \in Faults /\ harmed' = TRUE /\ UNCHANGED disk
  /\ accepted' = Merged(accepted)
  /\ Close("accepted")
  /\ UNCHANGED <<widgets, jo, before>>

(* The result of write is ignored: the dialog is accepted.                 *)
Write ==
  /\ pc = "write"
  /\ \/ disk' = jo /\ UNCHANGED harmed
     \/ "write" \in Faults /\ harmed' = TRUE /\ UNCHANGED disk
  /\ accepted' = Merged(accepted)
  /\ Close("accepted")
  /\ UNCHANGED <<widgets, jo, before>>

(* The process ends, wherever it is; the student starts it again.          *)
End ==
  /\ "end" \in Faults
  /\ dialog # "none"
  /\ dialog' = "none" /\ pc' = "edit" /\ closed' = "no"
  /\ harmed' = (harmed \/ pc \in {"create", "write"})
  /\ UNCHANGED <<disk, widgets, jo, before, accepted>>
-----------------------------------------------------------------------------
Next ==
  \/ OpenConfigDialog \/ on_path_clicked \/ Edit \/ Reject
  \/ Refuse \/ CloseBox \/ AcceptMalformed
  \/ ReadBack \/ Remove \/ Create \/ Write
  \/ End

Spec == Init /\ [][Next]_vars
-----------------------------------------------------------------------------
Saving == {"remove", "create", "write"}

TypeOK ==
  /\ disk \in Documents \cup Lost
  /\ dialog \in {"none", "config", "path"}
  /\ pc \in {"edit", "box"} \cup Saving
  /\ dialog = "none" => pc = "edit"
  /\ fields \in Fields /\ pathlist \in RemotePaths
  /\ jo \in Documents /\ before \in Documents /\ accepted \in Documents
  /\ harmed \in BOOLEAN
  /\ closed \in {"no", "rejected", "accepted"}

(* There is a whole document in config.json whenever no save is between    *)
(* removing and writing it, unless a call of an earlier save failed or the *)
(* process ended within one.  (ConfigDialog.cpp:71-106, PathDialog.cpp:    *)
(* 42-77: no other order of opening, saving and cancelling loses it.)      *)
LostOnlyByFailure == disk \in Lost => harmed \/ pc \in {"create", "write"}

(* What can be read from config.json is what was accepted last: the        *)
(* entries of the last accepted configuration dialog with the path of the  *)
(* last accepted path dialog, although the one saves while the other is    *)
(* open and both write the whole file.                                     *)
LastSaveWins == disk \in Documents => disk = accepted

(* Saves take effect at once and do not touch each other's part; the file  *)
(* is lost only if something may fail and never comes back.  Until a save  *)
(* has written, the document it read counts as the one that is saved.      *)
Saved == INSTANCE SavedConfig WITH
  SavedPaths <- RemotePaths \ {<< >>},
  MayLose <- Faults \cap {"create", "write", "end"} # {},
  saved <- IF pc \in Saving THEN before ELSE disk

ImplementsSavedConfig == Saved!Spec

(* A dialog is accepted only when its entries are in the file; where they  *)
(* cannot be written the student is told so (ConfigDialog.cpp:98).         *)
AcceptedIsWritten == closed = "accepted" => disk \in Documents
=============================================================================
