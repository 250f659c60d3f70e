------------------------------ MODULE MainWindow ------------------------------
(***************************************************************************)
(* The window of AutomaticXuanShanLi.cpp as its event loop runs it.        *)
(*                                                                         *)
(* Slots run on one thread, but not one after the other: a slot that calls *)
(* processEvents or opens a modal box lets other slots start before it     *)
(* goes on.  The slots that have started and not returned form a stack of  *)
(* frames.  A frame inside processEvents lets the student use the window;  *)
(* a frame that shows a modal box or dialog lets only signals through.     *)
(*                                                                         *)
(* The UploadThread is seen from the window only: it runs, emits the       *)
(* signal that it has finished, and ends.  Module Navigation describes     *)
(* what the upload slot does before, module Transfer what the worker does. *)
(***************************************************************************)
EXTENDS Naturals, Sequences, SequencesExt

CONSTANTS
  Paths,        (* paths of local files                                    *)
  BaseName,     (* the part of a path after the last "/"                   *)
  Selections,   (* what the student may choose in the file dialog          *)
  Clicks,       (* the buttons the student uses                            *)
  MaxDepth      (* bound on the number of nested slots                     *)

Buttons == {"add", "remove", "remove_all", "notes", "check", "upload", "dialog", "close"}

(* The file dialog returns files of one directory, each once.              *)
ASSUME WindowAssumption ==
  /\ DOMAIN BaseName = Paths
  /\ Selections \subseteq Seq(Paths)
  /\ Clicks \subseteq Buttons
  /\ MaxDepth \in Nat

(* The slots of the buttons in groupBox_3 that loop over the file list,    *)
(* and the slots that belong to an upload.                                 *)
Loops == {"notes", "check"}
UploadSlots == {"upload", "on_FTPFinished"}

VARIABLES
  frames,     (* the slots that have started, the outermost first          *)
  filelist,   (* the paths in the list of files                            *)
  control,    (* groupBox_3 is enabled                                     *)
  tip,        (* what the status bar says                                  *)
  uThread,    (* "null", or the state of the UploadThread                  *)
  finished,   (* its signal waits to be delivered                          *)
  window,     (* "open", "closed", "gone", or "crashed"                    *)
  visited,    (* history: the paths the loop in progress has worked on     *)
  removed     (* history: a path was removed since it started              *)

task == <<visited, removed>>
thread == <<uThread, finished>>
vars == <<frames, filelist, control, tip, thread, window, task>>

(* at: "events" in processEvents, "box" in a last modal box, "dialog" in   *)
(* the dialogs before.  i is the index of the loop, counted from one; sel  *)
(* is what the file dialog returned.                                       *)
Frame == [slot : {"add", "dialog"} \cup Loops \cup UploadSlots,
          at : {"events", "dialog", "box"}, i : Nat \ {0}, sel : Seq(Paths)]

Init ==
  /\ frames = << >>
  /\ filelist = << >>
  /\ control = TRUE
  /\ tip = "ready"
  /\ uThread = "null" /\ finished = FALSE
  /\ window = "open"
  /\ visited = << >> /\ removed = FALSE
-----------------------------------------------------------------------------
(* The stack of slots.                                                     *)

InRun == {"running", "emitted"}

Alive == window \in {"open", "closed"}

Top == frames[Len(frames)]
Running(slot, at) == Alive /\ frames # << >> /\ Top.slot = slot /\ Top.at = at

Push(slot, at) == frames' = Append(frames, [slot |-> slot, at |-> at, i |-> 1, sel |-> << >>])
Replace(f) == frames' = [frames EXCEPT ![Len(frames)] = f]
Pop == frames' = Front(frames)

(* The student can use the window: no modal box is open.                   *)
Interactive(button) ==
  /\ window = "open"
  /\ button \in Clicks
  /\ frames # << >> => Top.at = "events"

Start(button) == Interactive(button) /\ Len(frames) < MaxDepth

(* Whether a loop over n files goes on after the one at i.  A loop that    *)
(* stops one file early, and one that goes one file too far.               *)
GoesOnStale(i, n) == i + 1 < n
GoesOnePast(i, n) == i <= n
GoesOn(i, n) == i < n
-----------------------------------------------------------------------------
(* The list of files.                                                      *)

(* A name that is looked for only among the files added before, of the     *)
(* same directory: a comparison of whole paths.                            *)
SamePathOnly(p) == p \notin Range(filelist)

(* fileCheckF: no file of the list has the same base name.                 *)
fileCheckF(p) == \A q \in Range(filelist) : BaseName[q] # BaseName[p]

on_add_clicked ==
  /\ Start("add")
  /\ Push("add", "dialog")
  /\ tip' = "add"
  /\ UNCHANGED <<filelist, control, thread, window, task>>

(* Without a selection the slot ends, with one it starts its loop.         *)
AddChosen ==
  /\ Running("add", "dialog")
  /\ \/ /\ Pop
        /\ tip' = "ready"
     \/ /\ \E s \in Selections : s # << >> /\ Replace([Top EXCEPT !.at = "events", !.sel = s])
        /\ UNCHANGED tip
  /\ UNCHANGED <<filelist, control, thread, window, task>>

(* processEvents returns; then the next file is checked and added.         *)
AddNext ==
  /\ Running("add", "events")
  /\ LET p == Top.sel[Top.i]
     IN  filelist' = IF fileCheckF(p) THEN Append(filelist, p) ELSE filelist
  /\ IF GoesOn(Top.i, Len(Top.sel))
     THEN Replace([Top EXCEPT !.i = @ + 1]) /\ UNCHANGED tip
     ELSE Replace([Top EXCEPT !.at = "box"]) /\ tip' = "ready"
  /\ UNCHANGED <<control, thread, window, task>>

AddDone ==
  /\ Running("add", "box")
  /\ Pop
  /\ tip' = "ready"
  /\ UNCHANGED <<filelist, control, thread, window, task>>

LoopInProgress == \E j \in 1 .. Len(frames) : frames[j].slot \in Loops

(* The current row may be any, or none.                                    *)
on_remove_clicked ==
  /\ Interactive("remove")
  /\ \E r \in 1 .. Len(filelist) : filelist' = RemoveAt(filelist, r)
  /\ removed' = LoopInProgress
  /\ UNCHANGED <<frames, control, tip, thread, window, visited>>

on_remove_all_clicked ==
  /\ Interactive("remove_all")
  /\ filelist # << >>
  /\ filelist' = << >>
  /\ removed' = LoopInProgress
  /\ UNCHANGED <<frames, control, tip, thread, window, visited>>
-----------------------------------------------------------------------------
(* The loops over the list: on_notes_clicked and on_check_clicked.         *)

Click(slot) ==
  /\ Start(slot)
  /\ control
  /\ control' = FALSE
  /\ UNCHANGED <<filelist, finished, task>>

(* The loop calls processEvents if there is a first file.                  *)
LoopClicked(slot) ==
  /\ Click(slot)
  /\ IF filelist = << >>
     THEN Push(slot, "box") /\ tip' = "ready"
     ELSE Push(slot, "events") /\ tip' = slot
  /\ UNCHANGED <<uThread, window>>

(* config.json cannot be read: a warning, and the end of the slot.         *)
NotesFails ==
  /\ Click("notes")
  /\ Push("notes", "dialog")
  /\ tip' = "notes"
  /\ UNCHANGED <<uThread, window>>

NotesGivesUp ==
  /\ Running("notes", "dialog")
  /\ Pop
  /\ tip' = "ready"
  /\ control' = TRUE
  /\ UNCHANGED <<filelist, thread, window, task>>

(* processEvents returns; then the file at the loop's index is taken from  *)
(* the list, where it may not be any more: item() is a null pointer.       *)
LoopNext(slot) ==
  /\ Running(slot, "events")
  /\ Top.i <= Len(filelist)
  /\ visited' = Append(visited, filelist[Top.i])
  /\ IF GoesOn(Top.i, Len(filelist))
     THEN Replace([Top EXCEPT !.i = @ + 1]) /\ UNCHANGED tip
     ELSE Replace([Top EXCEPT !.at = "box"]) /\ tip' = "ready"
  /\ UNCHANGED <<filelist, control, thread, window, removed>>

LoopNull(slot) ==
  /\ Running(slot, "events")
  /\ Top.i > Len(filelist)
  /\ window' = "crashed"
  /\ UNCHANGED <<frames, filelist, control, tip, thread, task>>

LoopDone(slot) ==
  /\ Running(slot, "box")
  /\ Pop
  /\ control' = TRUE
  /\ visited' = << >> /\ removed' = FALSE
  /\ UNCHANGED <<filelist, tip, thread, window>>
-----------------------------------------------------------------------------
(* The upload.                                                             *)

(* A missing or malformed config.json leads to a box at once.  Otherwise   *)
(* an UploadThread there still is gets deleted, which it does not survive  *)
(* if it runs, and replaced by another.                                    *)
on_upload_clicked ==
  /\ Click("upload")
  /\ tip' = "upload"
  /\ \/ /\ Push("upload", "box")
        /\ UNCHANGED <<uThread, window>>
     \/ /\ Push("upload", "dialog")
        /\ uThread' = "made"
        /\ window' = IF uThread \in InRun THEN "crashed" ELSE window

(* A slot that enables the buttons as soon as the upload has started.      *)
UploadStartsEnabling ==
  /\ Running("upload", "dialog")
  /\ Pop
  /\ uThread' = "running"
  /\ control' = TRUE
  /\ UNCHANGED <<filelist, tip, finished, window, task>>

UploadStarts ==
  /\ Running("upload", "dialog")
  /\ Pop
  /\ uThread' = "running"
  /\ UNCHANGED <<filelist, control, tip, finished, window, task>>

(* One of the many ways out: the UploadThread is deleted.                  *)
UploadFails ==
  /\ Running("upload", "dialog")
  /\ Replace([Top EXCEPT !.at = "box"])
  /\ uThread' = "null"
  /\ UNCHANGED <<filelist, control, tip, finished, window, task>>

(* A box after which the status bar is left as it is. *)
UploadDoneSilent ==
  /\ Running("upload", "box")
  /\ Pop
  /\ control' = TRUE
  /\ UNCHANGED <<filelist, tip, thread, window, task>>

UploadDone ==
  /\ Running("upload", "box")
  /\ Pop
  /\ tip' = "ready"
  /\ control' = TRUE
  /\ UNCHANGED <<filelist, thread, window, task>>

(* A call of the session, in the slot or in the worker, ends with an       *)
(* exception that is no FTPException: nothing catches it.                  *)
Uncaught ==
  /\ Alive
  /\ Running("upload", "dialog") \/ uThread = "running" \/ finished
  /\ window' = "crashed"
  /\ UNCHANGED <<frames, filelist, control, tip, thread, task>>

(* The worker. *)
ThreadFinishes ==
  /\ Alive
  /\ uThread = "running"
  /\ uThread' = "emitted"
  /\ finished' = TRUE
  /\ UNCHANGED <<frames, filelist, control, tip, window, task>>

ThreadEnds ==
  /\ Alive
  /\ uThread = "emitted"
  /\ uThread' = "ended"
  /\ UNCHANGED <<frames, filelist, control, tip, finished, window, task>>

(* Every frame is in an event loop, so the signal is delivered wherever    *)
(* the window's thread is.  Deleting a thread that is still in run() ends  *)
(* the process.                                                            *)
on_FTPFinished ==
  /\ Alive
  /\ finished
  /\ finished' = FALSE
  /\ IF uThread \in {"null", "emitted"}
     THEN /\ window' = "crashed"
          /\ UNCHANGED <<frames, uThread, tip>>
     ELSE /\ Push("on_FTPFinished", "box")
          /\ uThread' = "null"
          /\ tip' = "ready"
          /\ UNCHANGED window
  /\ UNCHANGED <<filelist, control, task>>

(* A box after which the buttons stay disabled. *)
FinishedDoneForgetting ==
  /\ Running("on_FTPFinished", "box")
  /\ Pop
  /\ UNCHANGED <<filelist, control, tip, thread, window, task>>

FinishedDone ==
  /\ Running("on_FTPFinished", "box")
  /\ Pop
  /\ control' = TRUE
  /\ UNCHANGED <<filelist, tip, thread, window, task>>
-----------------------------------------------------------------------------
(* The tool bar, and the end.                                              *)

(* on_config, on_about and on_aboutQt: a modal dialog.                     *)
OpenDialog ==
  /\ Start("dialog")
  /\ Push("dialog", "dialog")
  /\ UNCHANGED <<filelist, control, tip, thread, window, task>>

CloseDialog ==
  /\ Running("dialog", "dialog")
  /\ Pop
  /\ UNCHANGED <<filelist, control, tip, thread, window, task>>

(* The window can be closed whenever no modal box is open, also from       *)
(* within processEvents: the slots on the stack go on without it.          *)
CloseWindow ==
  /\ Interactive("close")
  /\ window' = "closed"
  /\ UNCHANGED <<frames, filelist, control, tip, thread, task>>

(* exec() returns and the window is destroyed, with the UploadThread.      *)
Destroy ==
  /\ window = "closed"
  /\ frames = << >>
  /\ window' = IF uThread \in InRun THEN "crashed" ELSE "gone"
  /\ UNCHANGED <<frames, filelist, control, tip, thread, task>>

Ended == window \in {"gone", "crashed"} /\ UNCHANGED vars
-----------------------------------------------------------------------------
Clicked ==
  \/ on_add_clicked \/ on_remove_clicked \/ on_remove_all_clicked
  \/ \E slot \in Loops : LoopClicked(slot)
  \/ NotesFails
  \/ on_upload_clicked
  \/ OpenDialog
  \/ CloseWindow

(* Boxes and dialogs that are answered, and what follows.                  *)
Answered ==
  \/ AddChosen \/ AddDone
  \/ \E slot \in Loops : LoopDone(slot)
  \/ NotesGivesUp
  \/ UploadStarts \/ UploadFails \/ UploadDone
  \/ FinishedDone
  \/ CloseDialog

(* processEvents returns. *)
Returned == AddNext \/ \E slot \in Loops : LoopNext(slot) \/ LoopNull(slot)

Next ==
  \/ Clicked
  \/ Answered
  \/ Returned
  \/ ThreadFinishes \/ ThreadEnds
  \/ on_FTPFinished
  \/ Uncaught
  \/ Destroy
  \/ Ended

Spec == Init /\ [][Next]_vars

(* Boxes are answered, both threads are scheduled, and a signal that is    *)
(* sent is delivered.  processEvents returns after the events that were    *)
(* there when it was called, so a student who keeps clicking can nest      *)
(* slots but not keep one from ever going on: strong fairness, at every    *)
(* depth of the stack.                                                     *)
Fairness ==
  /\ WF_vars(Answered)
  /\ \A d \in 1 .. MaxDepth : SF_vars(Len(frames) = d /\ Returned)
  /\ WF_vars(ThreadFinishes) /\ WF_vars(ThreadEnds) /\ WF_vars(on_FTPFinished)
  /\ WF_vars(Destroy)
-----------------------------------------------------------------------------
(* The loop of an adding slot is at one of the files that were selected.   *)
InLoop(f) ==
  f.slot = "add" =>
    /\ f.at = "dialog" => f.i = 1
    /\ f.at = "events" => f.i \in 1 .. Len(f.sel)

TypeOK ==
  /\ frames \in Seq(Frame) /\ \A j \in 1 .. Len(frames) : InLoop(frames[j])
  /\ filelist \in Seq(Paths)
  /\ control \in BOOLEAN /\ finished \in BOOLEAN /\ removed \in BOOLEAN
  /\ tip \in {"ready", "add", "notes", "check", "upload"}
  /\ uThread \in {"null", "made", "running", "emitted", "ended"}
  /\ window \in {"open", "closed", "gone", "crashed"}
  /\ visited \in Seq(Paths)

(* No two files of the list have the same base name, however the slots     *)
(* that add and remove files are nested: an upload gives every file a name *)
(* of its own, as far as the name decides.                                 *)
NoDuplicateNames ==
  \A p, q \in 1 .. Len(filelist) : BaseName[filelist[p]] = BaseName[filelist[q]] => p = q

(* The frames of slots that a button of the group has started, and the     *)
(* worker when no frame stands for it.                                     *)
TaskFrames == {j \in 1 .. Len(frames) : frames[j].slot \in Loops \cup UploadSlots}
WorkerAlone == uThread # "null" /\ \A j \in TaskFrames : frames[j].slot \notin UploadSlots

(* One task at a time, also while slots are nested in others and after the *)
(* slot that started the worker has returned; and the buttons are enabled  *)
(* only if there is none.                                                  *)
OneTask ==
  /\ \A j, l \in TaskFrames : j = l
  /\ TaskFrames # {} => ~WorkerAlone
  /\ control => TaskFrames = {} /\ uThread = "null"

(* The slot that receives the worker's signal finds the worker: no way     *)
(* through the nested slots deletes it before.                             *)
FinishedFindsThread == finished => uThread \in {"emitted", "ended"}

(* As long as nothing is removed meanwhile, a loop over the list works on  *)
(* every file exactly once, in order, files added meanwhile included, and  *)
(* its index never leaves the list.                                        *)
LoopFollowsList ==
  ~removed =>
    \A j \in 1 .. Len(frames) :
      frames[j].slot \in Loops =>
        /\ frames[j].at = "events" =>
             /\ frames[j].i <= Len(filelist)
             /\ visited = SubSeq(filelist, 1, frames[j].i - 1)
        /\ frames[j].at = "box" => visited = filelist

(* The program ends by accident in four ways only: an exception nothing     *)
(* catches, a file removed under a loop, the signal delivered before the   *)
(* worker has left run(), and a window closed during an upload.  No click  *)
(* ends it, nor does a loop that is left alone.                            *)
Crashes == window # "crashed" /\ window' = "crashed"

CrashesKnown ==
  [][Crashes =>
       \/ Uncaught
       \/ removed /\ \E slot \in Loops : LoopNull(slot)
       \/ uThread = "emitted" /\ on_FTPFinished
       \/ window = "closed" /\ uThread \in InRun /\ Destroy]_vars

(* The group of buttons as the abstract gate.                              *)
InProgress(slot) == \E j \in 1 .. Len(frames) : frames[j].slot = slot

Holder ==
  IF InProgress("notes") THEN "notes"
  ELSE IF InProgress("check") THEN "check"
  ELSE IF uThread # "null" \/ \E slot \in UploadSlots : InProgress(slot) THEN "upload"
  ELSE "none"

Gate == INSTANCE ControlGate WITH Tasks <- Loops \cup {"upload"}, None <- "none",
                                  holder <- Holder, enabled <- control

(* Every step of the window is a step of the gate or none.                 *)
ImplementsGate == Gate!Spec

(* The stages of an upload as the window sees them.                        *)
At(slot, at) == \E j \in 1 .. Len(frames) : frames[j].slot = slot /\ frames[j].at = at

Stage ==
  IF ~Alive THEN "over"
  ELSE IF At("upload", "dialog") THEN "slot"
  ELSE IF \E slot \in UploadSlots : At(slot, "box") THEN "box"
  ELSE IF uThread = "null" THEN "idle"
  ELSE uThread

Task == INSTANCE UploadTask WITH stage <- Stage

(* Whatever else is clicked meanwhile, the window takes an upload through  *)
(* its stages in their order: the worker's end is received only after it   *)
(* has left run(), and nothing starts between a click and the return.      *)
ImplementsTask == Task!Spec

(* A task that was started ends, and the buttons are enabled again, if the *)
(* program does not end before.                                            *)
TaskEnds == ~control ~> (control \/ window # "open")

(* When all is done, the status bar says so, although every slot sets it   *)
(* on its own, before or after what is nested in it returns, and an upload *)
(* outlives the slot that started it.                                      *)
TipReady == Alive /\ frames = << >> /\ uThread = "null" => tip = "ready"
=============================================================================
