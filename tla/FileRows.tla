------------------------------ MODULE FileRows ------------------------------
(***************************************************************************)
(* The window with the current row of its list of files, and the buttons   *)
(* that remove from it (AutomaticXuanShanLi.cpp:87-152), which module      *)
(* MainWindow leaves out: there "remove" takes any file.  Every slot runs  *)
(* as it does there, nested in others.                                     *)
(***************************************************************************)
EXTENDS MainWindow, ItemList

VARIABLES
  row,         (* the current row                                          *)
  remove,      (* the button "remove" is enabled                           *)
  remove_all   (* the button "remove all" is enabled                       *)

buttons == <<remove, remove_all>>
rows == <<row, buttons>>
allVars == <<vars, rows>>

RowsInit ==
  /\ Init
  /\ row = 0
  /\ remove = FALSE /\ remove_all = FALSE

(* The slot without its test of the row. *)
RowChangedToAny(currentRow, count) ==
  /\ remove_all' = (count > 0)
  /\ remove' = (count > 0)

on_filelist_currentRowChanged(currentRow, count) ==
  /\ remove_all' = (count > 0)
  /\ remove' = (count > 0 /\ currentRow \in 1 .. count)

(* on_add_clicked comes to its end, with files chosen or without.          *)
AddReturns == AddDone \/ (AddChosen /\ Len(frames') < Len(frames))

(* The end of the slot without setCurrentRow. *)
AddForgets == AddReturns /\ UNCHANGED rows

(* setCurrentRow(count - 1), whatever was added, or nothing.               *)
AddEnds ==
  /\ AddReturns
  /\ row' = Len(filelist)
  /\ IF row' = row THEN UNCHANGED buttons ELSE on_filelist_currentRowChanged(row', Len(filelist))

RemoveRow ==
  /\ remove
  /\ row > 0
  /\ on_remove_clicked
  /\ filelist' = RemoveAt(filelist, row)
  /\ \E n \in Neighbours(filelist, row) :
       /\ on_filelist_currentRowChanged(n, Len(filelist))
       /\ row' = Renumbered(n, row)

(* The first row is taken until there is none.  The current row, if there  *)
(* is one, ends on the last that is left, and is told of before it goes.   *)
RemoveAllRows ==
  /\ remove_all
  /\ on_remove_all_clicked
  /\ row' = 0
  /\ IF row = 0 THEN UNCHANGED buttons ELSE on_filelist_currentRowChanged(0, 1)

(* The student makes another row the current one. *)
Select(r) ==
  /\ window = "open"
  /\ frames # << >> => Top.at = "events"
  /\ r # row
  /\ row' = r
  /\ on_filelist_currentRowChanged(r, Len(filelist))
  /\ UNCHANGED vars

(* Every other step: files are added at the end, below the current row.    *)
OtherClicked ==
  \/ on_add_clicked
  \/ \E slot \in Loops : LoopClicked(slot)
  \/ NotesFails
  \/ on_upload_clicked
  \/ OpenDialog
  \/ CloseWindow

OtherAnswered ==
  \/ AddChosen /\ Len(frames') = Len(frames)
  \/ \E slot \in Loops : LoopDone(slot)
  \/ NotesGivesUp
  \/ UploadStarts \/ UploadFails \/ UploadDone
  \/ FinishedDone
  \/ CloseDialog

RowsStay ==
  /\ \/ OtherClicked \/ OtherAnswered
     \/ Returned
     \/ ThreadFinishes \/ ThreadEnds
     \/ on_FTPFinished
     \/ Uncaught
     \/ Destroy
     \/ Ended
  /\ UNCHANGED rows

RowsNext ==
  \/ AddEnds
  \/ RemoveRow \/ RemoveAllRows
  \/ \E r \in 1 .. Len(filelist) : Select(r)
  \/ RowsStay

RowsSpec == RowsInit /\ [][RowsNext]_allVars

RowsFairSpec == RowsSpec /\ Fairness
-----------------------------------------------------------------------------
(* "remove" is enabled exactly when there is a row it would remove, also   *)
(* between the files that nested slots add and after the rows it was told  *)
(* of are gone.                                                            *)
RemoveMatchesRow == remove <=> row \in 1 .. Len(filelist)

(* Files that were added can be removed again: "remove all" is enabled     *)
(* when no slot is adding and there is a file, in whatever order slots     *)
(* were nested, ended and emptied the list.                                *)
RemoveAllReachable == filelist # << >> /\ ~InProgress("add") => remove_all
=============================================================================
