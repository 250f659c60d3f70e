--------------------------- MODULE MainWindowProofs ---------------------------
(***************************************************************************)
(* What modules MainWindow and FileRows check for slots nested three deep, *)
(* for any depth, any files and any buttons.                               *)
(***************************************************************************)
EXTENDS FileRows, SequenceTheorems, TLAPS

(* The list without one of its files. *)
LEMMA RemoveAtType ==
  ASSUME NEW S, NEW s \in Seq(S), NEW r \in 1 .. Len(s)
  PROVE  /\ RemoveAt(s, r) \in Seq(S) /\ Len(RemoveAt(s, r)) = Len(s) - 1
         /\ \A j \in 1 .. Len(s) - 1 : RemoveAt(s, r)[j] = IF j < r THEN s[j] ELSE s[j + 1]
<1> DEFINE a == SubSeq(s, 1, r - 1)
           b == SubSeq(s, r + 1, Len(s))
<1>1. a \in Seq(S) /\ Len(a) = r - 1 /\ \A j \in 1 .. r - 1 : a[j] = s[j]
  OBVIOUS
<1>2. b \in Seq(S) /\ Len(b) = Len(s) - r /\ \A j \in 1 .. Len(s) - r : b[j] = s[r + j]
  OBVIOUS
<1>3. RemoveAt(s, r) = a \o b
  BY DEF RemoveAt
<1> HIDE DEF a, b
<1>4. /\ a \o b \in Seq(S) /\ Len(a \o b) = Len(s) - 1
      /\ \A j \in 1 .. Len(s) - 1 : (a \o b)[j] = IF j <= r - 1 THEN a[j] ELSE b[j - (r - 1)]
  BY <1>1, <1>2, ConcatProperties
<1>5. \A j \in 1 .. Len(s) - 1 : j >= r => b[j - (r - 1)] = s[j + 1]
  BY <1>2
<1> QED
  BY <1>1, <1>2, <1>3, <1>4, <1>5

LEMMA SelectionTypes == Selections \subseteq Seq(Paths)
BY WindowAssumption

-----------------------------------------------------------------------------
(* The stack of slots under each of its three operations.                  *)

StackOK == frames \in Seq(Frame) /\ \A j \in 1 .. Len(frames) : InLoop(frames[j])

SlotNames == {"add", "dialog"} \cup Loops \cup UploadSlots

LEMMA TopType ==
  ASSUME StackOK, frames # << >>
  PROVE  /\ Len(frames) \in Nat \ {0} /\ Len(frames) \in 1 .. Len(frames)
         /\ Top \in Frame /\ InLoop(Top)
BY DEF StackOK, Top

LEMMA PushStack ==
  ASSUME StackOK, NEW slot \in SlotNames, NEW at \in {"events", "dialog", "box"},
         slot = "add" => at # "events", Push(slot, at)
  PROVE  /\ StackOK' /\ Len(frames) \in Nat /\ Len(frames') = Len(frames) + 1
         /\ frames'[Len(frames')].slot = slot /\ frames'[Len(frames')].at = at
         /\ frames'[Len(frames')].i = 1
         /\ \A j \in 1 .. Len(frames) : frames'[j] = frames[j]
<1> DEFINE f == [slot |-> slot, at |-> at, i |-> 1, sel |-> << >>]
<1>1. f \in Frame
  BY DEF Frame, SlotNames
<1>2. InLoop(f)
  BY DEF InLoop
<1>3. frames' = Append(frames, f) /\ frames \in Seq(Frame)
  BY DEF Push, StackOK
<1>4. /\ frames' \in Seq(Frame) /\ Len(frames') = Len(frames) + 1 /\ Len(frames) \in Nat
      /\ frames'[Len(frames')] = f /\ \A j \in 1 .. Len(frames) : frames'[j] = frames[j]
  BY <1>1, <1>3
<1>5. \A j \in 1 .. Len(frames') : InLoop(frames'[j])
  BY <1>2, <1>4 DEF StackOK
<1> QED
  BY <1>4, <1>5 DEF StackOK, InLoop

LEMMA FrontType ==
  ASSUME NEW S, NEW s \in Seq(S), s # << >>
  PROVE  /\ Front(s) \in Seq(S) /\ Len(s) \in Nat \ {0} /\ Len(Front(s)) = Len(s) - 1
         /\ \A j \in 1 .. Len(s) - 1 : Front(s)[j] = s[j]
<1> DEFINE n == Len(s) - 1
<1>1. Len(s) \in Nat \ {0} /\ n \in Nat /\ \A j \in 1 .. n : s[j] \in S
  OBVIOUS
<1>2. Front(s) = SubSeq(s, 1, n)
  BY DEF Front
<1> HIDE DEF n
<1>3. /\ SubSeq(s, 1, n) \in Seq(S)
      /\ Len(SubSeq(s, 1, n)) = IF 1 <= n THEN n - 1 + 1 ELSE 0
      /\ \A j \in 1 .. n - 1 + 1 : SubSeq(s, 1, n)[j] = s[1 + j - 1]
  BY <1>1, SubSeqProperties
<1>4. Len(SubSeq(s, 1, n)) = n
  BY <1>1, <1>3
<1>5. ASSUME NEW j \in 1 .. n PROVE SubSeq(s, 1, n)[j] = s[j]
  <2>1. j \in 1 .. n - 1 + 1 /\ 1 + j - 1 = j
    BY <1>1
  <2> QED
    BY <1>3, <2>1
<1> QED
  BY <1>1, <1>2, <1>3, <1>4, <1>5 DEF n

LEMMA PopStack ==
  ASSUME StackOK, frames # << >>, Pop
  PROVE  /\ StackOK' /\ Len(frames) \in Nat \ {0} /\ Len(frames') = Len(frames) - 1
         /\ \A j \in 1 .. Len(frames') : frames'[j] = frames[j]
<1>1. frames' = Front(frames) /\ frames \in Seq(Frame)
  BY DEF Pop, StackOK
<1>2. /\ frames' \in Seq(Frame) /\ Len(frames) \in Nat \ {0} /\ Len(frames') = Len(frames) - 1
      /\ \A j \in 1 .. Len(frames') : frames'[j] = frames[j]
  BY <1>1, FrontType
<1>3. \A j \in 1 .. Len(frames') : InLoop(frames'[j])
  BY <1>1, <1>2 DEF StackOK
<1> QED
  BY <1>1, <1>2, <1>3 DEF StackOK, InLoop

LEMMA ReplaceStack ==
  ASSUME StackOK, frames # << >>, NEW f \in Frame, InLoop(f), Replace(f)
  PROVE  /\ StackOK' /\ Len(frames) \in Nat \ {0} /\ Len(frames') = Len(frames)
         /\ frames'[Len(frames)] = f
         /\ \A j \in 1 .. Len(frames) - 1 : frames'[j] = frames[j]
<1>1. frames' = [frames EXCEPT ![Len(frames)] = f] /\ frames \in Seq(Frame) /\ Len(frames) \in Nat \ {0}
  BY DEF Replace, StackOK
<1>2. /\ frames' \in Seq(Frame) /\ Len(frames') = Len(frames) /\ frames'[Len(frames)] = f
      /\ \A j \in 1 .. Len(frames) - 1 : frames'[j] = frames[j]
  BY <1>1
<1>3. ASSUME NEW j \in 1 .. Len(frames') PROVE InLoop(frames'[j])
  <2>1. CASE j = Len(frames)
    BY <2>1, <1>2
  <2>2. CASE j # Len(frames)
    <3>1. Len(frames) \in Nat /\ Len(frames') = Len(frames)
      BY <1>1, <1>2
    <3>2. j \in 1 .. Len(frames) /\ j \in 1 .. Len(frames) - 1
      BY <2>2, <3>1
    <3> QED
      BY <3>2, <1>2 DEF StackOK
  <2> QED
    BY <2>1, <2>2
<1> QED
  BY <1>1, <1>2, <1>3 DEF StackOK, InLoop
-----------------------------------------------------------------------------
(* Type correctness.  It is inductive: the index of an adding slot is one  *)
(* of its selection, and a frame's index is never 0.                       *)

LEMMA TypeInit == Init => TypeOK
<1> SUFFICES ASSUME Init PROVE TypeOK
  OBVIOUS
<1>1. frames \in Seq(Frame) /\ 1 .. Len(frames) = {}
  BY DEF Init
<1>2. filelist \in Seq(Paths) /\ visited \in Seq(Paths)
  BY DEF Init
<1> QED
  BY <1>1, <1>2 DEF Init, TypeOK

LEMMA StackIsTyped == TypeOK => StackOK
BY DEF TypeOK, StackOK

(* What is left of TypeOK when the stack is left aside.                    *)
RestOK ==
  /\ filelist \in Seq(Paths)
  /\ control \in BOOLEAN /\ finished \in BOOLEAN /\ removed \in BOOLEAN
  /\ tip \in {"ready", "add", "notes", "check", "upload"}
  /\ uThread \in {"null", "made", "running", "emitted", "ended"}
  /\ window \in {"open", "closed", "gone", "crashed"}
  /\ visited \in Seq(Paths)

LEMMA TypeIsTwo == TypeOK <=> StackOK /\ RestOK
BY DEF TypeOK, StackOK, RestOK

(* The frame of a slot that goes on, after each change it makes to it.     *)
LEMMA TopChanged ==
  ASSUME StackOK, frames # << >>
  PROVE  /\ Top.slot # "add" => [Top EXCEPT !.i = @ + 1] \in Frame /\ InLoop([Top EXCEPT !.i = @ + 1])
         /\ Top.slot = "add" /\ Top.at = "events" /\ GoesOn(Top.i, Len(Top.sel)) =>
              [Top EXCEPT !.i = @ + 1] \in Frame /\ InLoop([Top EXCEPT !.i = @ + 1])
         /\ [Top EXCEPT !.at = "box"] \in Frame /\ InLoop([Top EXCEPT !.at = "box"])
<1>1. Top \in Frame
  BY TopType
<1>2. Top.i \in Nat \ {0} /\ Top.sel \in Seq(Paths)
  BY <1>1 DEF Frame
<1>3. [Top EXCEPT !.i = @ + 1] \in Frame
  BY <1>1, <1>2 DEF Frame
<1>4. [Top EXCEPT !.at = "box"] \in Frame
  BY <1>1 DEF Frame
<1>5. InLoop([Top EXCEPT !.at = "box"])
  BY <1>1 DEF InLoop, Frame
<1>6. Top.slot # "add" => InLoop([Top EXCEPT !.i = @ + 1])
  BY <1>1 DEF InLoop, Frame
<1>7. ASSUME Top.at = "events", GoesOn(Top.i, Len(Top.sel)) PROVE InLoop([Top EXCEPT !.i = @ + 1])
  <2>1. Top.i + 1 \in 1 .. Len(Top.sel)
    BY <1>2, <1>7 DEF GoesOn
  <2>2. [Top EXCEPT !.i = @ + 1].i = Top.i + 1 /\ [Top EXCEPT !.i = @ + 1].sel = Top.sel
        /\ [Top EXCEPT !.i = @ + 1].at = "events"
    BY <1>1, <1>7 DEF Frame
  <2> QED
    BY <2>1, <2>2 DEF InLoop
<1> QED
  BY <1>3, <1>4, <1>5, <1>6, <1>7

LEMMA FirstOfSelection ==
  ASSUME StackOK, frames # << >>, Top.slot = "add", NEW s \in Selections, s # << >>
  PROVE  /\ [Top EXCEPT !.at = "events", !.sel = s] \in Frame
         /\ Top.at = "dialog" => InLoop([Top EXCEPT !.at = "events", !.sel = s])
<1>1. Top \in Frame /\ s \in Seq(Paths)
  BY TopType, SelectionTypes
<1>2. [Top EXCEPT !.at = "events", !.sel = s] \in Frame
  BY <1>1 DEF Frame
<1>3. 1 \in 1 .. Len(s)
  BY <1>1
<1>4. [Top EXCEPT !.at = "events", !.sel = s].i = Top.i /\ [Top EXCEPT !.at = "events", !.sel = s].sel = s
      /\ [Top EXCEPT !.at = "events", !.sel = s].at = "events"
  BY <1>1 DEF Frame
<1>5. Top.at = "dialog" => Top.i = 1
  BY TopType DEF InLoop
<1> QED
  BY <1>2, <1>3, <1>4, <1>5 DEF InLoop

LEMMA StackNext == TypeOK /\ [Next]_vars => StackOK'
<1> SUFFICES ASSUME TypeOK, [Next]_vars PROVE StackOK'
  OBVIOUS
<1>1. StackOK
  BY StackIsTyped
<1> USE DEF task, thread, Loops, UploadSlots, SlotNames
<1>2. CASE UNCHANGED frames
  BY <1>1, <1>2 DEF StackOK, InLoop
<1>3. ASSUME NEW slot \in SlotNames, NEW at \in {"dialog", "box", "events"}, slot = "add" => at # "events",
             Push(slot, at)
      PROVE  StackOK'
  BY <1>1, <1>3, PushStack
<1>4. ASSUME frames # << >>, Pop PROVE StackOK'
  BY <1>1, <1>4, PopStack
<1>5. ASSUME frames # << >>, NEW f \in Frame, InLoop(f), Replace(f) PROVE StackOK'
  BY <1>1, <1>5, ReplaceStack
<1>6. CASE on_add_clicked
  BY <1>3, <1>6 DEF on_add_clicked
<1>7. CASE AddChosen
  <2>1. frames # << >> /\ Top.slot = "add" /\ Top.at = "dialog"
    BY <1>7 DEF AddChosen, Running
  <2>2. CASE Pop
    BY <1>4, <2>1, <2>2
  <2>3. CASE \E s \in Selections : s # << >> /\ Replace([Top EXCEPT !.at = "events", !.sel = s])
    <3>1. PICK s \in Selections : s # << >> /\ Replace([Top EXCEPT !.at = "events", !.sel = s])
      BY <2>3
    <3> QED
      BY <1>1, <1>5, <2>1, <3>1, FirstOfSelection
  <2> QED
    BY <1>7, <2>2, <2>3 DEF AddChosen
<1>8. CASE AddNext
  <2>1. frames # << >> /\ Top.slot = "add" /\ Top.at = "events"
    BY <1>8 DEF AddNext, Running
  <2>2. CASE GoesOn(Top.i, Len(Top.sel)) /\ Replace([Top EXCEPT !.i = @ + 1])
    BY <1>1, <1>5, <2>1, <2>2, TopChanged
  <2>3. CASE Replace([Top EXCEPT !.at = "box"])
    BY <1>1, <1>5, <2>1, <2>3, TopChanged
  <2> QED
    BY <1>8, <2>2, <2>3 DEF AddNext
<1>9. CASE AddDone \/ NotesGivesUp \/ UploadStarts \/ UploadDone \/ FinishedDone \/ CloseDialog
            \/ \E slot \in Loops : LoopDone(slot)
  BY <1>4, <1>9 DEF AddDone, NotesGivesUp, UploadStarts, UploadDone, FinishedDone, CloseDialog,
                    LoopDone, Running
<1>10. CASE \E slot \in Loops : LoopClicked(slot)
  BY <1>3, <1>10 DEF LoopClicked
<1>11. CASE NotesFails \/ on_upload_clicked \/ OpenDialog
  BY <1>3, <1>11 DEF NotesFails, on_upload_clicked, OpenDialog
<1>12. ASSUME NEW slot \in Loops, LoopNext(slot) PROVE StackOK'
  <2>1. frames # << >> /\ Top.slot # "add"
    BY <1>12 DEF LoopNext, Running
  <2>2. Replace([Top EXCEPT !.i = @ + 1]) \/ Replace([Top EXCEPT !.at = "box"])
    BY <1>12 DEF LoopNext
  <2> QED
    BY <1>1, <1>5, <2>1, <2>2, TopChanged
<1>13. CASE UploadFails
  BY <1>1, <1>5, <1>13, TopChanged DEF UploadFails, Running
<1>14. CASE on_FTPFinished
  BY <1>2, <1>3, <1>14 DEF on_FTPFinished
<1>15. CASE on_remove_clicked \/ on_remove_all_clicked \/ CloseWindow \/ ThreadFinishes \/ ThreadEnds
             \/ Uncaught \/ Destroy \/ Ended \/ UNCHANGED vars
             \/ \E slot \in Loops : LoopNull(slot)
  BY <1>2, <1>15 DEF on_remove_clicked, on_remove_all_clicked, CloseWindow, ThreadFinishes,
                     ThreadEnds, Uncaught, Destroy, Ended, LoopNull, vars
<1>16. CASE Clicked
  BY <1>6, <1>10, <1>11, <1>15, <1>16 DEF Clicked
<1>17. CASE Answered \/ Returned
  BY <1>7, <1>8, <1>9, <1>12, <1>13, <1>15, <1>17 DEF Answered, Returned
<1> QED
  BY <1>14, <1>15, <1>16, <1>17 DEF Next

LEMMA RestNext == TypeOK /\ [Next]_vars => RestOK'
<1> SUFFICES ASSUME TypeOK, [Next]_vars PROVE RestOK'
  OBVIOUS
<1>1. StackOK /\ RestOK
  BY TypeIsTwo
<1> USE DEF task, thread, Loops
<1>2. CASE on_add_clicked \/ AddChosen \/ AddDone \/ NotesGivesUp
  <2>1. CASE on_add_clicked
    BY <1>1, <2>1 DEF on_add_clicked, RestOK
  <2>2. CASE AddChosen
    BY <1>1, <2>2 DEF AddChosen, RestOK
  <2>3. CASE AddDone
    BY <1>1, <2>3 DEF AddDone, RestOK
  <2>4. CASE NotesGivesUp
    BY <1>1, <2>4 DEF NotesGivesUp, RestOK
  <2> QED
    BY <1>2, <2>1, <2>2, <2>3, <2>4
<1>3. CASE AddNext
  <2>1. Top \in Frame /\ Top.i \in 1 .. Len(Top.sel)
    BY <1>1, <1>3, TopType DEF AddNext, Running, InLoop
  <2>2. Top.sel[Top.i] \in Paths
    BY <2>1 DEF Frame
  <2>3. filelist' \in Seq(Paths)
    BY <1>1, <1>3, <2>2 DEF AddNext, RestOK
  <2> QED
    BY <1>1, <1>3, <2>3 DEF AddNext, RestOK
<1>4. CASE on_remove_clicked
  <2>1. PICK r \in 1 .. Len(filelist) : filelist' = RemoveAt(filelist, r)
    BY <1>4 DEF on_remove_clicked
  <2>2. filelist' \in Seq(Paths)
    BY <1>1, <2>1, RemoveAtType DEF RestOK
  <2> QED
    BY <1>1, <1>4, <2>2 DEF on_remove_clicked, LoopInProgress, RestOK
<1>5. CASE on_remove_all_clicked
  BY <1>1, <1>5 DEF on_remove_all_clicked, LoopInProgress, RestOK
<1>6. CASE NotesFails \/ on_upload_clicked \/ \E slot \in Loops : LoopClicked(slot)
  BY <1>1, <1>6 DEF NotesFails, on_upload_clicked, LoopClicked, Click, RestOK
<1>7. ASSUME NEW slot \in Loops, LoopNext(slot) PROVE RestOK'
  <2>1. Top \in Frame /\ Top.i \in 1 .. Len(filelist)
    BY <1>1, <1>7, TopType DEF LoopNext, Running, Frame, RestOK
  <2>2. visited' \in Seq(Paths)
    BY <1>1, <1>7, <2>1 DEF LoopNext, RestOK
  <2> QED
    BY <1>1, <1>7, <2>2 DEF LoopNext, RestOK
<1>8. ASSUME NEW slot \in Loops, LoopNull(slot) \/ LoopDone(slot) PROVE RestOK'
  <2>1. CASE LoopNull(slot)
    BY <1>1, <2>1 DEF LoopNull, RestOK
  <2>2. CASE LoopDone(slot)
    <3>1. visited' = << >> /\ removed' = FALSE /\ control' = TRUE
      BY <2>2, Zenon DEF LoopDone
    <3>2. visited' \in Seq(Paths)
      <4>1. << >> \in Seq(Paths)
        OBVIOUS
      <4> QED
        BY <3>1, <4>1, Zenon
    <3>4. removed' \in BOOLEAN /\ control' \in BOOLEAN
      BY <3>1, Zenon
    <3>3. UNCHANGED <<filelist, tip, uThread, finished, window>>
      BY <2>2 DEF LoopDone
    <3> QED
      BY <1>1, <3>2, <3>3, <3>4 DEF RestOK
  <2> QED
    BY <1>8, <2>1, <2>2
<1>9. CASE UploadStarts \/ UploadFails \/ UploadDone \/ FinishedDone \/ CloseDialog
  <2>1. CASE UploadStarts
    BY <1>1, <2>1 DEF UploadStarts, RestOK
  <2>2. CASE UploadFails
    BY <1>1, <2>2 DEF UploadFails, RestOK
  <2>3. CASE UploadDone
    BY <1>1, <2>3 DEF UploadDone, RestOK
  <2>4. CASE FinishedDone
    BY <1>1, <2>4 DEF FinishedDone, RestOK
  <2>5. CASE CloseDialog
    BY <1>1, <2>5 DEF CloseDialog, RestOK
  <2> QED
    BY <1>9, <2>1, <2>2, <2>3, <2>4, <2>5
<1>10. CASE ThreadFinishes \/ ThreadEnds \/ on_FTPFinished \/ Uncaught \/ Destroy
  <2>1. CASE ThreadFinishes
    BY <1>1, <2>1 DEF ThreadFinishes, RestOK
  <2>2. CASE ThreadEnds
    BY <1>1, <2>2 DEF ThreadEnds, RestOK
  <2>3. CASE on_FTPFinished
    BY <1>1, <2>3 DEF on_FTPFinished, RestOK
  <2>4. CASE Uncaught
    BY <1>1, <2>4 DEF Uncaught, RestOK
  <2>5. CASE Destroy
    BY <1>1, <2>5 DEF Destroy, RestOK
  <2> QED
    BY <1>10, <2>1, <2>2, <2>3, <2>4, <2>5
<1>11. CASE OpenDialog \/ CloseWindow \/ Ended \/ UNCHANGED vars
  BY <1>1, <1>11 DEF OpenDialog, CloseWindow, Ended, vars, RestOK
<1>12. CASE Clicked
  BY <1>2, <1>4, <1>5, <1>6, <1>11, <1>12 DEF Clicked
<1>13. CASE Answered \/ Returned
  BY <1>2, <1>3, <1>7, <1>8, <1>9, <1>13 DEF Answered, Returned
<1> QED
  BY <1>10, <1>11, <1>12, <1>13 DEF Next

(* Every reachable state is well typed, however deep the slots are nested: *)
(* no slot's index leaves what it goes over.                               *)
THEOREM TypeCorrect == Spec => []TypeOK
<1>1. TypeOK /\ [Next]_vars => TypeOK'
  <2> SUFFICES ASSUME TypeOK, [Next]_vars PROVE TypeOK'
    OBVIOUS
  <2>1. StackOK' /\ RestOK'
    BY StackNext, RestNext
  <2> QED
    BY <2>1 DEF StackOK, RestOK, TypeOK
<1> QED
  BY <1>1, TypeInit, PTL DEF Spec
-----------------------------------------------------------------------------
(* One task at a time.  OneTask says of a frame that starts an upload that *)
(* no worker is alone; what a step needs is which state the worker has     *)
(* while there is a frame.                                                 *)

TaskSlots == Loops \cup UploadSlots

(* The slot that has made the worker and not yet started it.               *)
Starting(f) == f.slot = "upload" /\ f.at = "dialog"

GateInv ==
  /\ \A j, l \in TaskFrames : j = l
  /\ control => TaskFrames = {} /\ uThread = "null"
  /\ \A j \in TaskFrames : uThread = IF Starting(frames[j]) THEN "made" ELSE "null"
  /\ finished => uThread \in {"emitted", "ended"}

LEMMA InProgressIsTask ==
  ASSUME NEW slot \in TaskSlots
  PROVE  InProgress(slot) <=> \E j \in TaskFrames : frames[j].slot = slot
BY DEF InProgress, TaskFrames, TaskSlots

(* Another slot that starts or returns leaves the task's frame alone.      *)
LEMMA PushOther ==
  ASSUME StackOK, NEW slot \in SlotNames, slot \notin TaskSlots, NEW at \in {"events", "dialog", "box"},
         slot = "add" => at # "events", Push(slot, at)
  PROVE  TaskFrames' = TaskFrames /\ \A j \in TaskFrames : frames'[j] = frames[j]
<1>1. /\ Len(frames) \in Nat /\ Len(frames') = Len(frames) + 1 /\ frames'[Len(frames')].slot = slot
      /\ \A j \in 1 .. Len(frames) : frames'[j] = frames[j]
  BY PushStack
<1>2. 1 .. Len(frames') = (1 .. Len(frames)) \cup {Len(frames')}
  BY <1>1
<1> QED
  BY <1>1, <1>2 DEF TaskFrames, TaskSlots

LEMMA PushTask ==
  ASSUME StackOK, NEW slot \in TaskSlots, NEW at \in {"events", "dialog", "box"},
         TaskFrames = {}, Push(slot, at)
  PROVE  \E j : TaskFrames' = {j} /\ frames'[j].slot = slot /\ frames'[j].at = at
<1>1. slot \in SlotNames /\ slot # "add"
  BY DEF SlotNames, TaskSlots, Loops, UploadSlots
<1>2. /\ Len(frames) \in Nat /\ Len(frames') = Len(frames) + 1
      /\ frames'[Len(frames')].slot = slot /\ frames'[Len(frames')].at = at
      /\ \A j \in 1 .. Len(frames) : frames'[j] = frames[j]
  BY <1>1, PushStack
<1>3. 1 .. Len(frames') = (1 .. Len(frames)) \cup {Len(frames')}
  BY <1>2
<1>4. TaskFrames' = {Len(frames')}
  BY <1>2, <1>3 DEF TaskFrames, TaskSlots
<1> QED
  BY <1>2, <1>4

LEMMA PopOther ==
  ASSUME StackOK, frames # << >>, Top.slot \notin TaskSlots, Pop
  PROVE  TaskFrames' = TaskFrames /\ \A j \in TaskFrames : frames'[j] = frames[j]
<1>1. /\ Len(frames) \in Nat \ {0} /\ Len(frames') = Len(frames) - 1
      /\ \A j \in 1 .. Len(frames') : frames'[j] = frames[j]
  BY PopStack
<1>2. 1 .. Len(frames) = (1 .. Len(frames')) \cup {Len(frames)}
  BY <1>1
<1> QED
  BY <1>1, <1>2 DEF TaskFrames, TaskSlots, Top

LEMMA PopTask ==
  ASSUME StackOK, frames # << >>, Top.slot \in TaskSlots, GateInv, Pop
  PROVE  TaskFrames = {Len(frames)} /\ TaskFrames' = {}
<1>1. /\ Len(frames) \in Nat \ {0} /\ Len(frames') = Len(frames) - 1
      /\ \A j \in 1 .. Len(frames') : frames'[j] = frames[j]
  BY PopStack
<1>2. 1 .. Len(frames) = (1 .. Len(frames')) \cup {Len(frames)} /\ Len(frames) \notin 1 .. Len(frames')
  BY <1>1
<1>3. Len(frames) \in TaskFrames
  BY <1>2 DEF TaskFrames, TaskSlots, Top
<1>4. TaskFrames = {Len(frames)}
  BY <1>3 DEF GateInv
<1>5. ASSUME NEW j \in TaskFrames' PROVE FALSE
  <2>1. j \in 1 .. Len(frames') /\ frames'[j].slot \in Loops \cup UploadSlots
    BY <1>5 DEF TaskFrames
  <2>2. j \in TaskFrames
    BY <1>1, <1>2, <2>1 DEF TaskFrames
  <2> QED
    BY <1>2, <1>4, <2>1, <2>2
<1> QED
  BY <1>4, <1>5

LEMMA ReplaceTop ==
  ASSUME StackOK, frames # << >>, NEW f \in Frame, InLoop(f), f.slot = Top.slot, Replace(f)
  PROVE  /\ TaskFrames' = TaskFrames /\ frames'[Len(frames)] = f
         /\ \A j \in TaskFrames : frames'[j].slot = frames[j].slot
         /\ \A j \in TaskFrames \ {Len(frames)} : frames'[j] = frames[j]
<1>1. /\ Len(frames) \in Nat \ {0} /\ Len(frames') = Len(frames) /\ frames'[Len(frames)] = f
      /\ \A j \in 1 .. Len(frames) - 1 : frames'[j] = frames[j]
  BY ReplaceStack
<1>2. 1 .. Len(frames) = (1 .. Len(frames) - 1) \cup {Len(frames)}
  BY <1>1
<1>3. \A j \in 1 .. Len(frames) : frames'[j].slot = frames[j].slot
  BY <1>1, <1>2 DEF Top
<1>4. TaskFrames' = TaskFrames
  BY <1>1, <1>3 DEF TaskFrames
<1>5. TaskFrames \subseteq 1 .. Len(frames)
  BY DEF TaskFrames
<1> QED
  BY <1>1, <1>2, <1>3, <1>4, <1>5
-----------------------------------------------------------------------------
(* The three kinds of steps: a task starts, it ends, or it stays.          *)

LEMMA HolderNone ==
  /\ TaskFrames = {} /\ uThread = "null" => Holder = "none"
  /\ GateInv /\ Holder = "none" => TaskFrames = {} /\ uThread = "null"
<1>1. \A slot \in TaskSlots : InProgress(slot) <=> \E j \in TaskFrames : frames[j].slot = slot
  BY InProgressIsTask
<1>2. "notes" \in TaskSlots /\ "check" \in TaskSlots /\ UploadSlots \subseteq TaskSlots
  BY DEF TaskSlots, Loops, UploadSlots
<1>3. \A j \in TaskFrames : frames[j].slot \in {"notes", "check"} \cup UploadSlots
  BY DEF TaskFrames, Loops
<1> QED
  BY <1>1, <1>2, <1>3 DEF Holder

LEMMA TaskStays ==
  ASSUME GateInv, UNCHANGED <<control, uThread, finished>>, TaskFrames' = TaskFrames,
         \A j \in TaskFrames : /\ frames'[j].slot = frames[j].slot
                               /\ Starting(frames'[j]) <=> Starting(frames[j])
  PROVE  GateInv' /\ Holder' = Holder
<1>1. \A slot \in TaskSlots : InProgress(slot)' <=> InProgress(slot)
  <2>1. \A slot \in TaskSlots : InProgress(slot) <=> \E j \in TaskFrames : frames[j].slot = slot
    BY InProgressIsTask
  <2>2. \A slot \in TaskSlots : InProgress(slot)' <=> \E j \in TaskFrames' : frames'[j].slot = slot
    BY DEF InProgress, TaskFrames, TaskSlots
  <2> QED
    BY <2>1, <2>2
<1>2. "notes" \in TaskSlots /\ "check" \in TaskSlots /\ UploadSlots \subseteq TaskSlots
  BY DEF TaskSlots, Loops, UploadSlots
<1> QED
  BY <1>1, <1>2 DEF GateInv, Holder, Starting

LEMMA SameStack ==
  ASSUME GateInv, UNCHANGED <<frames, control, uThread, finished>>
  PROVE  GateInv' /\ Holder' = Holder
BY DEF GateInv, Holder, InProgress, TaskFrames, Starting

LEMMA TaskStarts ==
  ASSUME StackOK, GateInv, control, NEW slot \in Loops \cup {"upload"}, NEW at \in {"events", "dialog", "box"},
         Push(slot, at), control' = FALSE, finished' = finished,
         uThread' = IF slot = "upload" /\ at = "dialog" THEN "made" ELSE "null"
  PROVE  GateInv' /\ Holder = "none" /\ Holder' = slot
<1>1. TaskFrames = {} /\ uThread = "null" /\ finished # TRUE
  BY DEF GateInv
<1>2. slot \in TaskSlots
  BY DEF TaskSlots, UploadSlots
<1>3. PICK j : TaskFrames' = {j} /\ frames'[j].slot = slot /\ frames'[j].at = at
  BY <1>1, <1>2, PushTask
<1>4. \A s \in TaskSlots : InProgress(s)' <=> s = slot
  <2>1. \A s \in TaskSlots : InProgress(s)' <=> \E l \in TaskFrames' : frames'[l].slot = s
    BY DEF InProgress, TaskFrames, TaskSlots
  <2> QED
    BY <1>3, <2>1
<1>5. "notes" \in TaskSlots /\ "check" \in TaskSlots /\ UploadSlots \subseteq TaskSlots /\ "upload" \in UploadSlots
  BY DEF TaskSlots, Loops, UploadSlots
<1>6. Holder' = slot
  BY <1>4, <1>5 DEF Holder, Loops
<1>7. GateInv'
  BY <1>1, <1>3 DEF GateInv, Starting
<1> QED
  BY <1>1, <1>6, <1>7, HolderNone

LEMMA TaskReturns ==
  ASSUME StackOK, GateInv, frames # << >>, Top.slot \in TaskSlots, ~Starting(Top), Pop,
         control' = TRUE, UNCHANGED <<uThread, finished>>
  PROVE  GateInv' /\ Holder # "none" /\ Holder' = "none"
<1>1. TaskFrames = {Len(frames)} /\ TaskFrames' = {}
  BY PopTask
<1>2. uThread = "null"
  BY <1>1 DEF GateInv, Top
<1>3. Holder # "none"
  BY <1>1, HolderNone
<1>4. Holder' = "none"
  <2>1. \A slot \in TaskSlots : ~InProgress(slot)'
    BY <1>1 DEF InProgress, TaskFrames, TaskSlots
  <2>2. "notes" \in TaskSlots /\ "check" \in TaskSlots /\ UploadSlots \subseteq TaskSlots
    BY DEF TaskSlots, Loops, UploadSlots
  <2> QED
    BY <1>2, <2>1, <2>2 DEF Holder
<1>5. GateInv'
  BY <1>1, <1>2 DEF GateInv
<1> QED
  BY <1>3, <1>4, <1>5

(* A slot other than a task's starts, goes on or returns.                  *)
LEMMA OtherSlot ==
  ASSUME StackOK, GateInv, UNCHANGED <<control, uThread, finished>>,
         \/ \E slot \in SlotNames \ TaskSlots, at \in {"dialog", "box"} : Push(slot, at)
         \/ frames # << >> /\ Top.slot \notin TaskSlots /\ Pop
         \/ frames # << >> /\ \E f \in Frame : InLoop(f) /\ f.slot = Top.slot /\ Replace(f)
                                               /\ Top.slot # "upload"
  PROVE  GateInv' /\ Holder' = Holder
<1>1. CASE \E slot \in SlotNames \ TaskSlots, at \in {"dialog", "box"} : Push(slot, at)
  BY <1>1, PushOther, TaskStays
<1>2. CASE frames # << >> /\ Top.slot \notin TaskSlots /\ Pop
  BY <1>2, PopOther, TaskStays
<1>3. CASE frames # << >> /\ \E f \in Frame : InLoop(f) /\ f.slot = Top.slot /\ Replace(f)
                                              /\ Top.slot # "upload"
  <2>1. /\ TaskFrames' = TaskFrames
        /\ \A j \in TaskFrames : frames'[j].slot = frames[j].slot
        /\ \A j \in TaskFrames \ {Len(frames)} : frames'[j] = frames[j]
    BY <1>3, ReplaceTop
  <2>2. \A j \in TaskFrames : Starting(frames'[j]) <=> Starting(frames[j])
    BY <1>3, <2>1 DEF Starting, Top
  <2> QED
    BY <2>1, <2>2, TaskStays
<1> QED
  BY <1>1, <1>2, <1>3
-----------------------------------------------------------------------------
(* An upload, from the slot that starts it to the one that ends it.        *)

UploadHolds ==
  GateInv /\ (uThread # "null" \/ \E j \in TaskFrames : frames[j].slot \in UploadSlots) => Holder = "upload"

LEMMA UploadIsHolder == UploadHolds
<1> SUFFICES ASSUME GateInv, uThread # "null" \/ \E j \in TaskFrames : frames[j].slot \in UploadSlots
             PROVE  Holder = "upload"
  BY DEF UploadHolds
<1>1. \A slot \in TaskSlots : InProgress(slot) <=> \E j \in TaskFrames : frames[j].slot = slot
  BY InProgressIsTask
<1>2. "notes" \in TaskSlots /\ "check" \in TaskSlots /\ UploadSlots \subseteq TaskSlots
  BY DEF TaskSlots, Loops, UploadSlots
<1>3. \A j \in TaskFrames : frames[j].slot \in UploadSlots
  BY DEF GateInv, Starting, UploadSlots
<1>4. ~InProgress("notes") /\ ~InProgress("check")
  BY <1>1, <1>2, <1>3 DEF UploadSlots
<1> QED
  BY <1>1, <1>2, <1>4 DEF Holder

LEMMA UploadIsHolderNext == UploadHolds'
BY UploadIsHolder, PTL

LEMMA UploadStep ==
  ASSUME TypeOK, GateInv,
         UploadStarts \/ UploadFails \/ ThreadFinishes \/ ThreadEnds \/ on_FTPFinished
  PROVE  GateInv' /\ Holder' = Holder /\ control' = control
<1>1. StackOK
  BY StackIsTyped
<1> USE DEF thread
<1>2. CASE UploadStarts
  <2>1. frames # << >> /\ Starting(Top) /\ Top.slot \in TaskSlots
    BY <1>2 DEF UploadStarts, Running, Starting, TaskSlots, UploadSlots
  <2>2. TaskFrames = {Len(frames)} /\ TaskFrames' = {}
    BY <1>1, <1>2, <2>1, PopTask DEF UploadStarts
  <2>3. uThread = "made" /\ uThread' = "running" /\ control' = control /\ finished' = finished
    BY <1>2, <2>1, <2>2 DEF GateInv, Top, UploadStarts
  <2>4. GateInv'
    BY <2>2, <2>3 DEF GateInv
  <2> QED
    BY <2>3, <2>4, UploadIsHolder, UploadIsHolderNext DEF UploadHolds
<1>3. CASE UploadFails
  <2> DEFINE f == [Top EXCEPT !.at = "box"]
  <2>1. frames # << >> /\ Starting(Top) /\ Top \in Frame /\ Top.slot \in TaskSlots
    BY <1>1, <1>3, TopType DEF UploadFails, Running, Starting, TaskSlots, UploadSlots
  <2>2. f \in Frame /\ InLoop(f) /\ f.slot = Top.slot /\ ~Starting(f)
    BY <1>1, <2>1, TopChanged DEF Frame, Starting
  <2>3. Replace(f) /\ uThread' = "null" /\ control' = control /\ finished' = finished
    BY <1>3 DEF UploadFails
  <2> HIDE DEF f
  <2>4. /\ TaskFrames' = TaskFrames /\ frames'[Len(frames)] = f
        /\ \A j \in TaskFrames : frames'[j].slot = frames[j].slot
    BY <1>1, <2>1, <2>2, <2>3, ReplaceTop
  <2>5. TaskFrames = {Len(frames)} /\ uThread = "made"
    <3>1. Len(frames) \in TaskFrames
      BY <1>1, <2>1, TopType DEF TaskFrames, TaskSlots, Top
    <3> QED
      BY <2>1, <3>1 DEF GateInv, Top
  <2>6. GateInv'
    BY <2>2, <2>3, <2>4, <2>5 DEF GateInv
  <2>7. frames'[Len(frames)].slot \in UploadSlots
    BY <2>1, <2>2, <2>4 DEF Starting, UploadSlots
  <2> QED
    BY <2>3, <2>4, <2>5, <2>6, <2>7, UploadIsHolder, UploadIsHolderNext DEF UploadHolds
<1>4. CASE ThreadFinishes \/ ThreadEnds
  <2>1. /\ uThread \in {"running", "emitted"} /\ uThread' \in {"emitted", "ended"}
        /\ UNCHANGED <<frames, control>>
    BY <1>4 DEF ThreadFinishes, ThreadEnds
  <2>2. TaskFrames = {} /\ TaskFrames' = {}
    BY <2>1 DEF GateInv, TaskFrames
  <2>3. GateInv'
    BY <2>1, <2>2 DEF GateInv
  <2> QED
    BY <2>1, <2>3, UploadIsHolder, UploadIsHolderNext DEF UploadHolds
<1>5. CASE on_FTPFinished
  <2>1. uThread \in {"emitted", "ended"} /\ finished' = FALSE /\ control' = control
    BY <1>5 DEF GateInv, on_FTPFinished
  <2>2. TaskFrames = {}
    BY <2>1 DEF GateInv
  <2>3. CASE UNCHANGED <<frames, uThread>>
    <3>1. TaskFrames' = {} /\ uThread' \in {"emitted", "ended"}
      BY <2>1, <2>2, <2>3 DEF TaskFrames
    <3>2. GateInv'
      BY <2>1, <2>2, <3>1 DEF GateInv
    <3> QED
      BY <2>1, <3>1, <3>2, UploadIsHolder, UploadIsHolderNext DEF UploadHolds
  <2>4. CASE Push("on_FTPFinished", "box") /\ uThread' = "null"
    <3>1. "on_FTPFinished" \in TaskSlots
      BY DEF TaskSlots, UploadSlots
    <3>2. PICK j : TaskFrames' = {j} /\ frames'[j].slot = "on_FTPFinished"
      BY <1>1, <2>2, <2>4, <3>1, PushTask
    <3>3. ~control'
      BY <2>1 DEF GateInv
    <3>4. GateInv'
      BY <2>1, <2>4, <3>2, <3>3 DEF GateInv, Starting
    <3> QED
      BY <2>1, <3>2, <3>4, UploadIsHolder, UploadIsHolderNext DEF UploadHolds, UploadSlots
  <2> QED
    BY <1>5, <2>3, <2>4 DEF on_FTPFinished
<1> QED
  BY <1>2, <1>3, <1>4, <1>5
-----------------------------------------------------------------------------
(* Every step of the window, seen from the gate.                           *)

(* A slot of another than an upload goes on or returns.                    *)
OtherFrameStep ==
  frames # << >> /\ \/ Top.slot \notin TaskSlots /\ Pop
                    \/ \E f \in Frame : InLoop(f) /\ f.slot = Top.slot /\ Replace(f)
                                        /\ Top.slot \notin UploadSlots

LEMMA OtherFrameSteps ==
  ASSUME StackOK, AddChosen \/ AddNext \/ AddDone \/ CloseDialog \/ \E slot \in Loops : LoopNext(slot)
  PROVE  OtherFrameStep
<1>1. frames # << >> /\ Top.slot \in {"add", "dialog"} \cup Loops
  BY DEF AddChosen, AddNext, AddDone, CloseDialog, LoopNext, Running
<1>2. Top.slot \notin UploadSlots /\ (Top.slot \notin Loops => Top.slot \notin TaskSlots)
  BY <1>1 DEF Loops, TaskSlots, UploadSlots
<1>3. Top \in Frame
  BY <1>1, TopType
<1> SUFFICES \/ Top.slot \notin TaskSlots /\ Pop
             \/ \E f \in Frame : InLoop(f) /\ f.slot = Top.slot /\ Replace(f)
  BY <1>1, <1>2 DEF OtherFrameStep
<1>4. CASE AddChosen
  <2>1. CASE Pop
    BY <1>2, <1>4, <2>1 DEF AddChosen, Running, Loops
  <2>2. CASE \E s \in Selections : s # << >> /\ Replace([Top EXCEPT !.at = "events", !.sel = s])
    <3>1. PICK s \in Selections : s # << >> /\ Replace([Top EXCEPT !.at = "events", !.sel = s])
      BY <2>2
    <3>2. Top.slot = "add" /\ Top.at = "dialog"
      BY <1>4 DEF AddChosen, Running
    <3> QED
      BY <1>1, <1>3, <3>1, <3>2, FirstOfSelection DEF Frame
  <2> QED
    BY <1>4, <2>1, <2>2 DEF AddChosen
<1>5. CASE AddNext \/ \E slot \in Loops : LoopNext(slot)
  <2>1. \/ Replace([Top EXCEPT !.at = "box"])
        \/ /\ Replace([Top EXCEPT !.i = @ + 1])
           /\ Top.slot # "add" \/ (Top.at = "events" /\ GoesOn(Top.i, Len(Top.sel)))
    <3>1. CASE AddNext
      BY <3>1 DEF AddNext, Running
    <3>2. CASE \E slot \in Loops : LoopNext(slot)
      <4>1. PICK slot \in Loops : LoopNext(slot)
        BY <3>2
      <4>2. Replace([Top EXCEPT !.at = "box"]) \/ Replace([Top EXCEPT !.i = @ + 1])
        BY <4>1 DEF LoopNext
      <4>3. Top.slot = slot /\ slot # "add"
        BY <4>1 DEF LoopNext, Running, Loops
      <4> QED
        BY <4>2, <4>3
    <3> QED
      BY <1>5, <3>1, <3>2
  <2>2. [Top EXCEPT !.at = "box"].slot = Top.slot /\ [Top EXCEPT !.i = @ + 1].slot = Top.slot
    BY <1>3 DEF Frame
  <2>3. CASE Replace([Top EXCEPT !.at = "box"])
    BY <1>1, <2>2, <2>3, TopChanged
  <2>4. CASE Replace([Top EXCEPT !.i = @ + 1]) /\ Top.slot # "add"
    BY <1>1, <2>2, <2>4, TopChanged
  <2>5. CASE Replace([Top EXCEPT !.i = @ + 1]) /\ Top.slot = "add"
    BY <1>1, <2>1, <2>2, <2>3, <2>5, TopChanged
  <2> QED
    BY <2>1, <2>3, <2>4, <2>5
<1>6. CASE AddDone \/ CloseDialog
  BY <1>2, <1>6 DEF AddDone, CloseDialog, Running, Loops
<1> QED
  BY <1>4, <1>5, <1>6

GateVars == <<Holder, control>>

LEMMA GateNext ==
  ASSUME TypeOK, GateInv, [Next]_vars
  PROVE  GateInv' /\ [Gate!Next]_GateVars
<1>1. StackOK
  BY StackIsTyped
<1> USE DEF task, thread
<1>2. ASSUME GateInv' /\ Holder' = Holder, control' = control PROVE GateInv' /\ [Gate!Next]_GateVars
  BY <1>2 DEF GateVars
<1>3. ASSUME NEW slot \in Loops \cup {"upload"}, NEW at \in {"events", "dialog", "box"},
             Click(slot), Push(slot, at),
             uThread' = IF slot = "upload" /\ at = "dialog" THEN "made" ELSE uThread
      PROVE  GateInv' /\ [Gate!Next]_GateVars
  <2>1. uThread = "null" /\ control /\ control' = FALSE /\ finished' = finished
    BY <1>3 DEF Click, GateInv
  <2>2. GateInv' /\ Holder = "none" /\ Holder' = slot
    BY <1>1, <1>3, <2>1, TaskStarts
  <2>3. control = TRUE
    BY <2>1 DEF TypeOK
  <2>4. Gate!Take(slot)
    BY <2>1, <2>2, <2>3 DEF Gate!Take
  <2> QED
    BY <2>2, <2>4 DEF Gate!Next
<1>4. ASSUME frames # << >>, Top.slot \in TaskSlots, ~Starting(Top), Pop, control' = TRUE,
             UNCHANGED <<uThread, finished>>
      PROVE  GateInv' /\ [Gate!Next]_GateVars
  <2>1. GateInv' /\ Holder # "none" /\ Holder' = "none"
    BY <1>1, <1>4, TaskReturns
  <2>2. Gate!Give
    BY <1>4, <2>1 DEF Gate!Give
  <2> QED
    BY <2>1, <2>2 DEF Gate!Next
<1>5. CASE \E slot \in Loops : LoopClicked(slot)
  BY <1>3, <1>5 DEF LoopClicked, Loops
<1>6. CASE NotesFails
  BY <1>3, <1>6 DEF NotesFails, Loops
<1>7. CASE on_upload_clicked
  BY <1>3, <1>7 DEF on_upload_clicked
<1>8. CASE \E slot \in Loops : LoopDone(slot)
  BY <1>4, <1>8 DEF LoopDone, Running, Starting, Loops, TaskSlots
<1>9. CASE NotesGivesUp
  BY <1>4, <1>9 DEF NotesGivesUp, Running, Starting, Loops, TaskSlots
<1>10. CASE UploadDone \/ FinishedDone
  BY <1>4, <1>10 DEF UploadDone, FinishedDone, Running, Starting, UploadSlots, TaskSlots
<1>11. CASE on_add_clicked \/ OpenDialog
  <2>1. {"add", "dialog"} \subseteq SlotNames \ TaskSlots
    BY DEF SlotNames, TaskSlots, Loops, UploadSlots
  <2>2. UNCHANGED <<control, uThread, finished>>
        /\ \E slot \in SlotNames \ TaskSlots, at \in {"dialog", "box"} : Push(slot, at)
    BY <1>11, <2>1 DEF on_add_clicked, OpenDialog
  <2> QED
    BY <1>1, <1>2, <2>2, OtherSlot
<1>12. CASE AddChosen \/ AddNext \/ AddDone \/ CloseDialog \/ \E slot \in Loops : LoopNext(slot)
  <2>1. UNCHANGED <<control, uThread, finished>>
    BY <1>12 DEF AddChosen, AddNext, AddDone, CloseDialog, LoopNext
  <2>2. OtherFrameStep
    BY <1>1, <1>12, OtherFrameSteps
  <2> QED
    BY <1>1, <1>2, <2>1, <2>2, OtherSlot DEF OtherFrameStep, UploadSlots
<1>13. CASE on_remove_clicked \/ on_remove_all_clicked \/ CloseWindow \/ Uncaught \/ Destroy \/ Ended
             \/ UNCHANGED vars \/ \E slot \in Loops : LoopNull(slot)
  <2>1. UNCHANGED <<frames, control, uThread, finished>>
    BY <1>13 DEF on_remove_clicked, on_remove_all_clicked, CloseWindow, Uncaught, Destroy, Ended,
                 LoopNull, vars
  <2> QED
    BY <1>2, <2>1, SameStack
<1>14. CASE UploadStarts \/ UploadFails \/ ThreadFinishes \/ ThreadEnds \/ on_FTPFinished
  BY <1>2, <1>14, UploadStep
<1>15. CASE Clicked
  BY <1>5, <1>6, <1>7, <1>11, <1>13, <1>15 DEF Clicked
<1>16. CASE Answered \/ Returned
  BY <1>8, <1>9, <1>10, <1>12, <1>13, <1>14, <1>16 DEF Answered, Returned
<1> QED
  BY <1>13, <1>14, <1>15, <1>16 DEF Next

LEMMA GateInit == Init => GateInv /\ Gate!Init
<1> SUFFICES ASSUME Init PROVE GateInv /\ Gate!Init
  OBVIOUS
<1>1. frames = << >> /\ 1 .. Len(frames) = {}
  BY DEF Init
<1>2. TaskFrames = {} /\ uThread = "null"
  BY <1>1 DEF TaskFrames, Init
<1> QED
  BY <1>2, HolderNone DEF GateInv, Init, Gate!Init

LEMMA GateCorrect == Spec => [](TypeOK /\ GateInv)
<1>1. TypeOK /\ GateInv /\ [Next]_vars => GateInv'
  BY GateNext
<1> QED
  BY <1>1, TypeCorrect, GateInit, PTL DEF Spec

(* Of the loops, the upload and the worker at most one is in progress,     *)
(* through slots nested to any depth, and the buttons are enabled only if  *)
(* none is.                                                                *)
THEOREM OneTaskAtATime == Spec => []OneTask
<1>1. GateInv => OneTask
  BY DEF GateInv, OneTask, WorkerAlone, Starting, UploadSlots
<1> QED
  BY <1>1, GateCorrect, PTL

(* on_FTPFinished always finds the worker whose signal it receives.        *)
THEOREM SignalFindsThread == Spec => []FinishedFindsThread
<1>1. GateInv => FinishedFindsThread
  BY DEF GateInv, FinishedFindsThread
<1> QED
  BY <1>1, GateCorrect, PTL

(* The group of buttons implements the gate: a task is taken only when it  *)
(* is free and the buttons are enabled, and given back only once.          *)
THEOREM GateIsImplemented == Spec => ImplementsGate
<1>1. Init => Gate!Init
  BY GateInit
<1>2. TypeOK /\ GateInv /\ [Next]_vars => [Gate!Next]_<<Holder, control>>
  BY GateNext DEF GateVars
<1> QED
  BY <1>1, <1>2, GateCorrect, PTL DEF Spec, ImplementsGate, Gate!Spec
-----------------------------------------------------------------------------
(* The names in the list of files.                                         *)

LEMMA NamesNext ==
  ASSUME TypeOK, NoDuplicateNames, [Next]_vars
  PROVE  NoDuplicateNames'
<1>1. filelist \in Seq(Paths) /\ Len(filelist) \in Nat
  BY DEF TypeOK
<1> USE DEF task, thread
<1>2. CASE UNCHANGED filelist
  BY <1>2 DEF NoDuplicateNames
<1>3. CASE AddNext
  <2> DEFINE p == Top.sel[Top.i]
  <2>1. CASE fileCheckF(p) /\ filelist' = Append(filelist, p)
    <3>1. p \in Paths
      <4>1. frames # << >> /\ Top.slot = "add" /\ Top.at = "events"
        BY <1>3 DEF AddNext, Running
      <4>2. Top \in Frame /\ InLoop(Top)
        BY <4>1, StackIsTyped, TopType
      <4>3. Top.i \in 1 .. Len(Top.sel) /\ Top.sel \in Seq(Paths)
        BY <4>1, <4>2 DEF InLoop, Frame
      <4> QED
        BY <4>3
    <3> HIDE DEF p
    <3>2. /\ Len(filelist') = Len(filelist) + 1 /\ filelist'[Len(filelist')] = p
          /\ \A j \in 1 .. Len(filelist) : filelist'[j] = filelist[j]
      BY <1>1, <2>1, <3>1
    <3>3. \A j \in 1 .. Len(filelist) : BaseName[filelist[j]] # BaseName[p]
      BY <1>1, <2>1 DEF fileCheckF, Range
    <3>4. 1 .. Len(filelist') = (1 .. Len(filelist)) \cup {Len(filelist')}
      BY <1>1, <3>2
    <3> QED
      BY <3>2, <3>3, <3>4 DEF NoDuplicateNames
  <2> QED
    BY <1>2, <1>3, <2>1 DEF AddNext
<1>4. CASE on_remove_clicked
  <2>1. PICK r \in 1 .. Len(filelist) : filelist' = RemoveAt(filelist, r)
    BY <1>4 DEF on_remove_clicked
  <2>2. /\ Len(filelist') = Len(filelist) - 1
        /\ \A j \in 1 .. Len(filelist) - 1 : filelist'[j] = IF j < r THEN filelist[j] ELSE filelist[j + 1]
    BY <1>1, <2>1, RemoveAtType
  <2>3. ASSUME NEW j \in 1 .. Len(filelist'), NEW l \in 1 .. Len(filelist'),
               BaseName[filelist'[j]] = BaseName[filelist'[l]]
        PROVE  j = l
    <3> DEFINE was(x) == IF x < r THEN x ELSE x + 1
    <3>1. was(j) \in 1 .. Len(filelist) /\ was(l) \in 1 .. Len(filelist)
      BY <1>1, <2>2
    <3>2. filelist'[j] = filelist[was(j)] /\ filelist'[l] = filelist[was(l)]
      BY <2>2
    <3>3. was(j) = was(l) => j = l
      BY <1>1, <2>2
    <3> HIDE DEF was
    <3> QED
      BY <2>3, <3>1, <3>2, <3>3 DEF NoDuplicateNames
  <2> QED
    BY <2>3 DEF NoDuplicateNames
<1>5. CASE on_remove_all_clicked
  <2>1. filelist' = << >>
    BY <1>5 DEF on_remove_all_clicked
  <2>2. 1 .. Len(filelist') = {}
    BY <2>1
  <2> QED
    BY <2>2 DEF NoDuplicateNames
<1>6. CASE Clicked
  BY <1>2, <1>4, <1>5, <1>6 DEF Clicked, on_add_clicked, LoopClicked, NotesFails, on_upload_clicked,
                                Click, OpenDialog, CloseWindow
<1>7. CASE Answered
  BY <1>2, <1>7 DEF Answered, AddChosen, AddDone, LoopDone, NotesGivesUp, UploadStarts, UploadFails,
                    UploadDone, FinishedDone, CloseDialog
<1>8. CASE Returned
  BY <1>2, <1>3, <1>8 DEF Returned, LoopNext, LoopNull
<1>9. CASE ThreadFinishes \/ ThreadEnds \/ on_FTPFinished \/ Uncaught \/ Destroy \/ Ended \/ UNCHANGED vars
  BY <1>2, <1>9 DEF ThreadFinishes, ThreadEnds, on_FTPFinished, Uncaught, Destroy, Ended, vars
<1> QED
  BY <1>6, <1>7, <1>8, <1>9 DEF Next

(* Adding slots nested in one another, and files removed between two files *)
(* of a selection: no two files of the list ever have one name.            *)
THEOREM NamesStayDistinct == Spec => []NoDuplicateNames
<1>1. Init => NoDuplicateNames
  <2> SUFFICES ASSUME Init PROVE NoDuplicateNames
    OBVIOUS
  <2>1. 1 .. Len(filelist) = {}
    BY DEF Init
  <2> QED
    BY <2>1 DEF NoDuplicateNames
<1>2. TypeOK /\ NoDuplicateNames /\ [Next]_vars => NoDuplicateNames'
  BY NamesNext
<1> QED
  BY <1>1, <1>2, TypeCorrect, PTL DEF Spec
-----------------------------------------------------------------------------
(* A loop over the list.  What a step needs besides LoopFollowsList: a     *)
(* task's slot that shows a box is the innermost one, and what the loop    *)
(* has worked on is forgotten when there is no loop.                       *)

Visited(n) == Len(visited) = n /\ \A k \in 1 .. n : visited[k] = filelist[k]

LoopOK(f) ==
  /\ f.at = "dialog" => visited = << >> /\ removed = FALSE
  /\ f.at = "events" /\ removed = FALSE => f.i <= Len(filelist) /\ Visited(f.i - 1)
  /\ f.at = "box" /\ removed = FALSE => Visited(Len(filelist))

LoopInv ==
  /\ \A j \in TaskFrames : frames[j].at # "events" => j = Len(frames)
  /\ (\A j \in TaskFrames : frames[j].slot \notin Loops) => visited = << >> /\ removed = FALSE
  /\ \A j \in TaskFrames : frames[j].slot \in Loops => LoopOK(frames[j])

LEMMA LoopInvFollows == TypeOK /\ LoopInv => LoopFollowsList
<1> SUFFICES ASSUME TypeOK, LoopInv, removed = FALSE, NEW j \in 1 .. Len(frames), frames[j].slot \in Loops
             PROVE  /\ frames[j].at = "events" =>
                         /\ frames[j].i <= Len(filelist)
                         /\ visited = SubSeq(filelist, 1, frames[j].i - 1)
                    /\ frames[j].at = "box" => visited = filelist
  BY DEF LoopFollowsList, TypeOK
<1>1. j \in TaskFrames /\ LoopOK(frames[j])
  BY DEF LoopInv, TaskFrames
<1>2. /\ filelist \in Seq(Paths) /\ visited \in Seq(Paths) /\ Len(filelist) \in Nat
      /\ frames[j].i \in Nat \ {0}
  <2>1. filelist \in Seq(Paths) /\ visited \in Seq(Paths) /\ frames \in Seq(Frame)
    BY DEF TypeOK
  <2>2. frames[j] \in Frame
    BY <2>1
  <2> QED
    BY <2>1, <2>2 DEF Frame
<1>3. ASSUME frames[j].at = "events"
      PROVE  frames[j].i <= Len(filelist) /\ visited = SubSeq(filelist, 1, frames[j].i - 1)
  <2> DEFINE n == frames[j].i - 1
  <2>1. frames[j].i <= Len(filelist) /\ Visited(n)
    BY <1>1, <1>3 DEF LoopOK
  <2>2. n \in Nat /\ n < Len(filelist)
    BY <1>2, <2>1
  <2>3. Len(visited) = n /\ \A k \in 1 .. n : visited[k] = filelist[k]
    BY <2>1 DEF Visited
  <2> HIDE DEF n
  <2>4. 1 \in Int /\ n \in Int /\ \A k \in 1 .. n : filelist[k] \in Paths
    BY <1>2, <2>2
  <2>5. /\ SubSeq(filelist, 1, n) \in Seq(Paths)
        /\ Len(SubSeq(filelist, 1, n)) = IF 1 <= n THEN n - 1 + 1 ELSE 0
        /\ \A k \in 1 .. n - 1 + 1 : SubSeq(filelist, 1, n)[k] = filelist[1 + k - 1]
    BY <2>4, SubSeqProperties
  <2>6. Len(SubSeq(filelist, 1, n)) = n
    BY <2>2, <2>5
  <2>7. ASSUME NEW k \in 1 .. n PROVE SubSeq(filelist, 1, n)[k] = visited[k]
    <3>1. k \in 1 .. n - 1 + 1 /\ 1 + k - 1 = k
      BY <2>2
    <3> QED
      BY <2>3, <2>5, <3>1
  <2>8. visited = SubSeq(filelist, 1, n)
    BY <1>2, <2>3, <2>5, <2>6, <2>7, SeqEqual
  <2> QED
    BY <2>1, <2>8 DEF n
<1>4. ASSUME frames[j].at = "box" PROVE visited = filelist
  <2>1. Visited(Len(filelist))
    BY <1>1, <1>4 DEF LoopOK
  <2> QED
    BY <1>2, <2>1, SeqEqual DEF Visited
<1> QED
  BY <1>3, <1>4

(* Where the student can click, and where the slot that goes on is no      *)
(* task's, every task is inside processEvents.                             *)
LEMMA TasksInEvents ==
  ASSUME LoopInv, frames # << >> => Top.at = "events" \/ Top.slot \notin TaskSlots
  PROVE  \A j \in TaskFrames : frames[j].at = "events"
<1>1. \A j \in TaskFrames : frames # << >> /\ frames[j].slot \in TaskSlots
  BY DEF TaskFrames, TaskSlots
<1> QED
  BY <1>1 DEF LoopInv, Top

(* Files may have been added to the list, but only at its end.             *)
LEMMA LoopWaits ==
  ASSUME TypeOK, LoopInv, UNCHANGED <<visited, removed>>, TaskFrames' = TaskFrames,
         \A j \in TaskFrames : frames'[j] = frames[j] /\ frames[j].at = "events",
         Len(filelist') \in Nat, Len(filelist') >= Len(filelist),
         \A k \in 1 .. Len(filelist) : filelist'[k] = filelist[k]
  PROVE  LoopInv'
<1>1. ASSUME NEW j \in TaskFrames, frames[j].slot \in Loops PROVE LoopOK(frames[j])'
  <2>1. LoopOK(frames[j]) /\ frames[j].at = "events" /\ frames'[j] = frames[j]
    BY <1>1 DEF LoopInv
  <2>2. frames[j].i \in Nat \ {0} /\ Len(filelist) \in Nat
    <3>1. frames \in Seq(Frame) /\ filelist \in Seq(Paths) /\ j \in 1 .. Len(frames)
      BY DEF TypeOK, TaskFrames
    <3>2. frames[j] \in Frame
      BY <3>1
    <3> QED
      BY <3>1, <3>2 DEF Frame
  <2>3. ASSUME removed = FALSE PROVE frames[j].i <= Len(filelist') /\ Visited(frames[j].i - 1)'
    <3>1. frames[j].i <= Len(filelist) /\ Visited(frames[j].i - 1)
      BY <2>1, <2>3 DEF LoopOK
    <3>2. \A k \in 1 .. frames[j].i - 1 : k \in 1 .. Len(filelist)
      BY <2>2, <3>1
    <3>3. frames[j].i <= Len(filelist')
      BY <2>2, <3>1
    <3> QED
      BY <2>1, <3>1, <3>2, <3>3 DEF Visited
  <2>4. frames'[j].at = "events" /\ frames'[j].i = frames[j].i /\ removed' = removed
    BY <2>1
  <2>5. removed' = FALSE => frames'[j].i <= Len(filelist') /\ Visited(frames[j].i - 1)'
    BY <2>3, <2>4
  <2> QED
    BY <2>4, <2>5 DEF LoopOK
<1> QED
  BY <1>1 DEF LoopInv

(* No loop, before and after: nothing has been worked on.                  *)
LEMMA NoLoop ==
  ASSUME LoopInv, \A j \in TaskFrames : frames[j].slot \notin Loops, UNCHANGED <<visited, removed>>,
         \A j \in TaskFrames' : frames'[j].slot \notin Loops /\ j = Len(frames')
  PROVE  LoopInv'
BY DEF LoopInv

(* A task's slot returns: it was the only one, so no loop is left.         *)
LEMMA TaskReturned ==
  ASSUME StackOK, GateInv, frames # << >>, Top.slot \in TaskSlots, Pop,
         visited' = << >>, removed' = FALSE
  PROVE  LoopInv'
<1>1. TaskFrames' = {}
  BY PopTask
<1> QED
  BY <1>1 DEF LoopInv

LEMMA LoopGoesOn ==
  ASSUME TypeOK, GateInv, LoopInv, NEW slot \in Loops, LoopNext(slot)
  PROVE  LoopInv'
<1> DEFINE n == Top.i
<1>1. StackOK /\ filelist \in Seq(Paths) /\ visited \in Seq(Paths)
  BY StackIsTyped DEF TypeOK
<1>2. /\ frames # << >> /\ Top.slot = slot /\ Top.at = "events" /\ n <= Len(filelist)
      /\ visited' = Append(visited, filelist[n]) /\ filelist' = filelist /\ removed' = removed
  BY DEF LoopNext, Running
<1>3. Top \in Frame /\ n \in Nat \ {0} /\ Len(filelist) \in Nat /\ Len(frames) \in 1 .. Len(frames)
  BY <1>1, <1>2, TopType DEF Frame
<1>4. TaskFrames = {Len(frames)}
  <2>1. Len(frames) \in TaskFrames
    BY <1>2, <1>3 DEF TaskFrames, Top
  <2> QED
    BY <2>1 DEF GateInv
<1>5. PICK f \in Frame : /\ InLoop(f) /\ f.slot = slot /\ Replace(f)
                         /\ \/ f.at = "events" /\ f.i = n + 1 /\ n < Len(filelist)
                            \/ f.at = "box" /\ n = Len(filelist)
  <2>1. CASE GoesOn(n, Len(filelist)) /\ Replace([Top EXCEPT !.i = @ + 1])
    <3>1. [Top EXCEPT !.i = @ + 1] \in Frame /\ InLoop([Top EXCEPT !.i = @ + 1])
      BY <1>1, <1>2, TopChanged DEF Loops
    <3> QED
      BY <1>2, <1>3, <2>1, <3>1 DEF Frame, GoesOn
  <2>2. CASE ~GoesOn(n, Len(filelist)) /\ Replace([Top EXCEPT !.at = "box"])
    <3>1. [Top EXCEPT !.at = "box"] \in Frame /\ InLoop([Top EXCEPT !.at = "box"])
      BY <1>1, <1>2, TopChanged
    <3>2. n = Len(filelist)
      BY <1>2, <1>3, <2>2 DEF GoesOn
    <3> QED
      BY <1>2, <1>3, <2>2, <3>1, <3>2 DEF Frame
  <2> QED
    BY <2>1, <2>2 DEF LoopNext
<1>6. TaskFrames' = TaskFrames /\ frames'[Len(frames)] = f /\ Len(frames') = Len(frames)
  BY <1>1, <1>2, <1>5, ReplaceTop, ReplaceStack
<1>7. removed = FALSE => Visited(n - 1)
  BY <1>2, <1>4 DEF LoopInv, LoopOK, Top
<1> HIDE DEF n
<1>8. removed' = FALSE => Len(visited') = n /\ \A k \in 1 .. n : visited'[k] = filelist'[k]
  <2> SUFFICES ASSUME removed = FALSE
               PROVE  Len(visited') = n /\ \A k \in 1 .. n : visited'[k] = filelist[k]
    BY <1>2
  <2>1. Len(visited) = n - 1 /\ \A k \in 1 .. n - 1 : visited[k] = filelist[k]
    BY <1>7 DEF Visited
  <2>2. filelist[n] \in Paths
    BY <1>1, <1>2, <1>3
  <2>3. /\ Len(visited') = Len(visited) + 1 /\ visited'[Len(visited) + 1] = filelist[n]
        /\ \A k \in 1 .. Len(visited) : visited'[k] = visited[k]
    BY <1>1, <1>2, <2>2
  <2>4. Len(visited) + 1 = n /\ 1 .. n = (1 .. n - 1) \cup {n}
    BY <1>3, <2>1
  <2> QED
    BY <2>1, <2>3, <2>4
<1>9. LoopOK(frames[Len(frames)])'
  <2>1. frames'[Len(frames')] = f
    BY <1>6
  <2>2. CASE f.at = "events" /\ f.i = n + 1 /\ n < Len(filelist)
    <3>1. f.i - 1 = n /\ f.i <= Len(filelist')
      BY <1>2, <1>3, <2>2
    <3> QED
      BY <1>8, <2>1, <2>2, <3>1 DEF LoopOK, Visited
  <2>3. CASE f.at = "box" /\ n = Len(filelist)
    <3>1. Len(filelist') = n
      BY <1>2, <2>3
    <3> QED
      BY <1>8, <2>1, <2>3, <3>1 DEF LoopOK, Visited
  <2> QED
    BY <1>5, <2>2, <2>3
<1> QED
  BY <1>4, <1>5, <1>6, <1>9 DEF LoopInv

LEMMA LoopStarts ==
  ASSUME TypeOK, GateInv, LoopInv, NEW slot \in Loops, NEW at \in {"events", "dialog", "box"},
         Click(slot), Push(slot, at),
         at = "events" => filelist # << >>, at = "box" => filelist = << >>
  PROVE  LoopInv'
<1>1. StackOK /\ filelist \in Seq(Paths)
  BY StackIsTyped DEF TypeOK
<1>2. slot \in TaskSlots /\ slot \in SlotNames /\ slot # "add"
  BY DEF TaskSlots, SlotNames, Loops
<1>3. TaskFrames = {} /\ filelist' = filelist /\ visited' = visited /\ removed' = removed
  BY DEF Click, GateInv, task
<1>4. visited = << >> /\ removed = FALSE
  BY <1>3 DEF LoopInv
<1>5. PICK j : TaskFrames' = {j} /\ frames'[j].slot = slot /\ frames'[j].at = at
  BY <1>1, <1>2, <1>3, PushTask
<1>6. frames'[Len(frames')].slot = slot /\ frames'[Len(frames')].i = 1 /\ Len(frames') \in 1 .. Len(frames')
  BY <1>1, <1>2, PushStack
<1>7. j = Len(frames')
  BY <1>2, <1>5, <1>6 DEF TaskFrames, TaskSlots
<1>8. at = "events" => 1 <= Len(filelist)
  BY <1>1
<1>9. at = "box" => Len(filelist) = 0
  OBVIOUS
<1>10. Len(visited') = 0
  BY <1>3, <1>4
<1>11. LoopOK(frames[Len(frames)])'
  BY <1>3, <1>4, <1>5, <1>6, <1>7, <1>8, <1>9, <1>10 DEF LoopOK, Visited
<1> QED
  BY <1>5, <1>7, <1>11 DEF LoopInv

(* Adding slots and dialogs leave the tasks alone, and only add files.     *)
LEMMA LoopUndisturbed ==
  ASSUME TypeOK, LoopInv,
         on_add_clicked \/ AddChosen \/ AddNext \/ AddDone \/ OpenDialog \/ CloseDialog
  PROVE  LoopInv'
<1>1. StackOK /\ filelist \in Seq(Paths)
  BY StackIsTyped DEF TypeOK
<1> USE DEF task
<1>2. {"add", "dialog"} \subseteq SlotNames \ TaskSlots
  BY DEF SlotNames, TaskSlots, Loops, UploadSlots
<1>3. CASE on_add_clicked \/ OpenDialog
  <2>1. (frames # << >> => Top.at = "events") /\ UNCHANGED <<filelist, visited, removed>>
    BY <1>3 DEF on_add_clicked, OpenDialog, Start, Interactive
  <2>2. \E slot \in SlotNames \ TaskSlots : Push(slot, "dialog")
    BY <1>2, <1>3 DEF on_add_clicked, OpenDialog
  <2>3. TaskFrames' = TaskFrames /\ \A j \in TaskFrames : frames'[j] = frames[j]
    BY <1>1, <2>2, PushOther
  <2>4. \A j \in TaskFrames : frames[j].at = "events"
    BY <2>1, TasksInEvents
  <2> QED
    BY <1>1, <2>1, <2>3, <2>4, LoopWaits
<1>4. CASE AddChosen \/ AddNext \/ AddDone \/ CloseDialog
  <2>1. frames # << >> /\ Top.slot \in {"add", "dialog"} /\ UNCHANGED <<visited, removed>>
    BY <1>4 DEF AddChosen, AddNext, AddDone, CloseDialog, Running
  <2>2. Top.slot \notin TaskSlots
    BY <1>2, <2>1
  <2>3. \A j \in TaskFrames : frames[j].at = "events"
    BY <2>2, TasksInEvents
  <2>4. Len(frames) \notin TaskFrames
    BY <2>2 DEF TaskFrames, TaskSlots, Top
  <2>5. TaskFrames' = TaskFrames /\ \A j \in TaskFrames : frames'[j] = frames[j]
    <3>1. CASE Pop
      BY <1>1, <2>1, <2>2, <3>1, PopOther
    <3>2. ASSUME NEW f \in Frame, InLoop(f), f.slot = Top.slot, Replace(f)
          PROVE  TaskFrames' = TaskFrames /\ \A j \in TaskFrames : frames'[j] = frames[j]
      BY <1>1, <2>1, <2>4, <3>2, ReplaceTop
    <3>3. Top \in Frame
      BY <1>1, <2>1, TopType
    <3>4. CASE AddChosen
      <4>1. CASE \E s \in Selections : s # << >> /\ Replace([Top EXCEPT !.at = "events", !.sel = s])
        <5>1. PICK s \in Selections : s # << >> /\ Replace([Top EXCEPT !.at = "events", !.sel = s])
          BY <4>1
        <5>2. Top.slot = "add" /\ Top.at = "dialog"
          BY <3>4 DEF AddChosen, Running
        <5>3. [Top EXCEPT !.at = "events", !.sel = s].slot = Top.slot
          BY <3>3 DEF Frame
        <5> QED
          BY <1>1, <2>1, <3>2, <5>1, <5>2, <5>3, FirstOfSelection
      <4> QED
        BY <3>1, <3>4, <4>1 DEF AddChosen
    <3>5. CASE AddNext
      <4>1. Top.slot = "add" /\ Top.at = "events"
        BY <3>5 DEF AddNext, Running
      <4>2. \/ Replace([Top EXCEPT !.at = "box"])
            \/ Replace([Top EXCEPT !.i = @ + 1]) /\ GoesOn(Top.i, Len(Top.sel))
        BY <3>5 DEF AddNext
      <4>3. [Top EXCEPT !.at = "box"].slot = Top.slot /\ [Top EXCEPT !.i = @ + 1].slot = Top.slot
        BY <3>3 DEF Frame
      <4> QED
        BY <1>1, <2>1, <3>2, <4>1, <4>2, <4>3, TopChanged
    <3>6. CASE AddDone \/ CloseDialog
      BY <3>1, <3>6 DEF AddDone, CloseDialog
    <3> QED
      BY <1>4, <3>4, <3>5, <3>6
  <2>6. /\ Len(filelist') \in Nat /\ Len(filelist') >= Len(filelist)
        /\ \A k \in 1 .. Len(filelist) : filelist'[k] = filelist[k]
    <3>1. CASE filelist' = filelist
      BY <1>1, <3>1
    <3>2. ASSUME NEW p, filelist' = Append(filelist, p)
          PROVE  /\ Len(filelist') \in Nat /\ Len(filelist') >= Len(filelist)
                 /\ \A k \in 1 .. Len(filelist) : filelist'[k] = filelist[k]
      <4>1. filelist \in Seq(Paths \cup {p})
        BY <1>1
      <4> QED
        BY <3>2, <4>1
    <3> QED
      BY <1>4, <3>1, <3>2 DEF AddChosen, AddNext, AddDone, CloseDialog
  <2> QED
    BY <2>1, <2>3, <2>5, <2>6, LoopWaits
<1> QED
  BY <1>3, <1>4

(* An upload takes place only when there is no loop.                       *)
LEMMA LoopAndUpload ==
  ASSUME TypeOK, GateInv, LoopInv,
         on_upload_clicked \/ UploadStarts \/ UploadFails \/ UploadDone \/ on_FTPFinished \/ FinishedDone
  PROVE  LoopInv'
<1>1. StackOK
  BY StackIsTyped
<1> USE DEF task
<1>2. UNCHANGED <<visited, removed>> /\ UploadSlots \subseteq TaskSlots \ Loops /\ UploadSlots \subseteq SlotNames
  BY Zenon DEF on_upload_clicked, Click, UploadStarts, UploadFails, UploadDone, on_FTPFinished, FinishedDone,
         TaskSlots, SlotNames, Loops, UploadSlots
<1>3. ASSUME NEW slot \in UploadSlots, NEW at \in {"events", "dialog", "box"}, Push(slot, at), TaskFrames = {}
      PROVE  LoopInv'
  <2>1. PICK j : TaskFrames' = {j} /\ frames'[j].slot = slot
    BY <1>1, <1>2, <1>3, PushTask
  <2>2. frames'[Len(frames')].slot = slot /\ Len(frames') \in 1 .. Len(frames')
    <3>1. slot \in SlotNames /\ slot # "add"
      BY <1>2, <1>3 DEF UploadSlots
    <3> QED
      BY <1>1, <1>3, <3>1, PushStack
  <2>3. j = Len(frames')
    BY <1>2, <2>1, <2>2 DEF TaskFrames
  <2> QED
    BY <1>2, <1>3, <2>1, <2>3, NoLoop
<1>4. CASE on_upload_clicked
  <2>1. TaskFrames = {}
    BY <1>4 DEF on_upload_clicked, Click, GateInv
  <2> QED
    BY <1>3, <1>4, <2>1 DEF on_upload_clicked, UploadSlots
<1>5. CASE on_FTPFinished
  <2>1. TaskFrames = {}
    BY <1>5 DEF on_FTPFinished, GateInv
  <2>2. CASE UNCHANGED frames
    <3>1. TaskFrames' = {}
      BY <2>1, <2>2 DEF TaskFrames
    <3> QED
      BY <1>2, <2>1, <3>1, NoLoop
  <2>3. CASE Push("on_FTPFinished", "box")
    BY <1>3, <2>1, <2>3 DEF UploadSlots
  <2> QED
    BY <1>5, <2>2, <2>3 DEF on_FTPFinished
<1>6. CASE UploadStarts \/ UploadDone \/ FinishedDone
  <2>1. frames # << >> /\ Pop /\ Top.slot \in UploadSlots
    BY <1>6 DEF UploadStarts, UploadDone, FinishedDone, Running, UploadSlots
  <2>2. TaskFrames = {Len(frames)} /\ TaskFrames' = {}
    BY <1>1, <1>2, <2>1, PopTask
  <2>3. \A j \in TaskFrames : frames[j].slot \notin Loops
    BY <1>2, <2>1, <2>2 DEF Top
  <2> QED
    BY <1>2, <2>2, <2>3, NoLoop
<1>7. CASE UploadFails
  <2> DEFINE f == [Top EXCEPT !.at = "box"]
  <2>1. frames # << >> /\ Replace(f) /\ Top.slot \in UploadSlots /\ Top \in Frame
    BY <1>1, <1>7, TopType DEF UploadFails, Running, UploadSlots
  <2>2. f \in Frame /\ InLoop(f) /\ f.slot = Top.slot
    BY <1>1, <2>1, TopChanged DEF Frame
  <2> HIDE DEF f
  <2>3. TaskFrames' = TaskFrames /\ frames'[Len(frames)] = f /\ Len(frames') = Len(frames)
    BY <1>1, <2>1, <2>2, ReplaceTop, ReplaceStack
  <2>4. TaskFrames = {Len(frames)}
    <3>1. Len(frames) \in 1 .. Len(frames)
      BY <1>1, <2>1, TopType
    <3>2. Len(frames) \in TaskFrames
      BY <1>2, <2>1, <3>1 DEF TaskFrames, TaskSlots, Top
    <3> QED
      BY <3>2 DEF GateInv
  <2>5. \A j \in TaskFrames : frames[j].slot \notin Loops
    BY <1>2, <2>1, <2>4 DEF Top
  <2> QED
    BY <1>2, <2>1, <2>2, <2>3, <2>4, <2>5, NoLoop
<1> QED
  BY <1>4, <1>5, <1>6, <1>7

(* A path is removed.  The student could click, so no loop shows a box.    *)
LEMMA LoopAndRemoval ==
  ASSUME TypeOK, LoopInv, on_remove_clicked \/ on_remove_all_clicked
  PROVE  LoopInv'
<1>1. /\ frames # << >> => Top.at = "events"
      /\ frames' = frames /\ visited' = visited /\ removed' = LoopInProgress
  BY DEF on_remove_clicked, on_remove_all_clicked, Interactive
<1>2. TaskFrames' = TaskFrames /\ \A j \in TaskFrames : frames[j].at = "events"
  BY <1>1, TasksInEvents DEF TaskFrames
<1>3. LoopInProgress <=> \E j \in TaskFrames : frames[j].slot \in Loops
  BY DEF LoopInProgress, TaskFrames
<1>4. removed' \in BOOLEAN
  BY <1>1, Zenon DEF LoopInProgress
<1>5. CASE \E j \in TaskFrames : frames[j].slot \in Loops
  <2>1. removed' # FALSE
    BY <1>1, <1>3, <1>4, <1>5
  <2>2. \A j \in TaskFrames : LoopOK(frames[j])'
    BY <1>1, <1>2, <2>1 DEF LoopOK
  <2> QED
    BY <1>1, <1>2, <1>5, <2>2 DEF LoopInv
<1>6. CASE \A j \in TaskFrames : frames[j].slot \notin Loops
  <2>1. removed' = FALSE
    BY <1>1, <1>3, <1>4, <1>6
  <2> QED
    BY <1>1, <1>2, <1>6, <2>1 DEF LoopInv
<1> QED
  BY <1>5, <1>6

LEMMA LoopNextInv ==
  ASSUME TypeOK, GateInv, LoopInv, [Next]_vars
  PROVE  LoopInv'
<1>1. StackOK
  BY StackIsTyped
<1> USE DEF task
<1>2. CASE UNCHANGED <<frames, filelist, visited, removed>>
  BY <1>2 DEF LoopInv, LoopOK, Visited, TaskFrames
<1>3. CASE CloseWindow \/ Uncaught \/ Destroy \/ Ended \/ UNCHANGED vars \/ ThreadFinishes \/ ThreadEnds
           \/ \E slot \in Loops : LoopNull(slot)
  BY <1>2, <1>3 DEF CloseWindow, Uncaught, Destroy, Ended, LoopNull, ThreadFinishes, ThreadEnds, vars
<1>4. ASSUME NEW slot \in Loops, LoopClicked(slot) PROVE LoopInv'
  BY <1>4, LoopStarts DEF LoopClicked
<1>5. CASE NotesFails
  BY <1>5, LoopStarts DEF NotesFails, Loops
<1>6. ASSUME NEW slot \in Loops, LoopDone(slot) PROVE LoopInv'
  <2>1. frames # << >> /\ Top.slot \in TaskSlots /\ Pop /\ visited' = << >> /\ removed' = FALSE
    BY <1>6, Zenon DEF LoopDone, Running, TaskSlots
  <2> QED
    BY <1>1, <2>1, TaskReturned
<1>7. CASE NotesGivesUp
  <2>1. frames # << >> /\ Top.slot = "notes" /\ Top.at = "dialog" /\ Pop /\ UNCHANGED <<visited, removed>>
    BY <1>7 DEF NotesGivesUp, Running
  <2>2. Top.slot \in TaskSlots /\ Top.slot \in Loops
    BY <2>1 DEF TaskSlots, Loops
  <2>3. Len(frames) \in TaskFrames
    BY <1>1, <2>1, <2>2, PopTask
  <2>4. visited = << >> /\ removed = FALSE
    BY <2>1, <2>2, <2>3 DEF LoopInv, LoopOK, Top
  <2> QED
    BY <1>1, <2>1, <2>2, <2>4, TaskReturned
<1>8. CASE Clicked
  BY <1>3, <1>4, <1>5, <1>8, LoopUndisturbed, LoopAndUpload, LoopAndRemoval DEF Clicked
<1>9. CASE Answered
  BY <1>6, <1>7, <1>9, LoopUndisturbed, LoopAndUpload DEF Answered
<1>10. CASE Returned
  BY <1>3, <1>10, LoopUndisturbed, LoopGoesOn DEF Returned
<1> QED
  BY <1>3, <1>8, <1>9, <1>10, LoopAndUpload DEF Next

(* Whatever slots start inside a loop: as long as no path is removed it    *)
(* works on every path of the list once and in order.                      *)
THEOREM LoopsFollowTheList == Spec => []LoopFollowsList
<1>1. Init => LoopInv
  <2> SUFFICES ASSUME Init PROVE LoopInv
    OBVIOUS
  <2>1. 1 .. Len(frames) = {} /\ visited = << >> /\ removed = FALSE
    BY DEF Init
  <2> QED
    BY <2>1 DEF LoopInv, TaskFrames
<1>2. TypeOK /\ GateInv /\ LoopInv /\ [Next]_vars => LoopInv'
  BY LoopNextInv
<1> QED
  BY <1>1, <1>2, GateCorrect, LoopInvFollows, PTL DEF Spec

(* Whatever is nested in what, the program ends by accident in the four    *)
(* known ways only.  on_upload_clicked deletes no worker that runs, since  *)
(* its button is disabled as long as there is one; a loop finds its file   *)
(* unless one was removed; the signal finds its worker.                    *)
LEMMA CrashesStep ==
  ASSUME TypeOK, GateInv, LoopFollowsList, Next, Crashes
  PROVE  \/ Uncaught
         \/ removed /\ \E slot \in Loops : LoopNull(slot)
         \/ uThread = "emitted" /\ on_FTPFinished
         \/ window = "closed" /\ uThread \in InRun /\ Destroy
<1> USE DEF Crashes
<1>1. CASE Clicked
  <2>1. CASE on_upload_clicked
    BY <2>1, Zenon DEF on_upload_clicked, Click, GateInv, InRun
  <2>2. CASE CloseWindow
    BY <2>2 DEF CloseWindow
  <2>3. window' = window \/ on_upload_clicked \/ CloseWindow
    BY <1>1 DEF Clicked, on_add_clicked, on_remove_clicked, on_remove_all_clicked, LoopClicked,
                NotesFails, OpenDialog, thread
  <2> QED
    BY <2>1, <2>2, <2>3
<1>2. CASE Answered
  BY <1>2 DEF Answered, AddChosen, AddDone, LoopDone, NotesGivesUp, UploadStarts, UploadFails,
              UploadDone, FinishedDone, CloseDialog
<1>3. ASSUME NEW slot \in Loops, LoopNull(slot)
      PROVE  removed
  <2>1. /\ frames # << >> /\ Top.slot \in Loops /\ Top.at = "events"
        /\ Top.i > Len(filelist)
    BY <1>3 DEF LoopNull, Running
  <2>2. StackOK /\ filelist \in Seq(Paths)
    BY StackIsTyped DEF TypeOK
  <2>3. Len(frames) \in 1 .. Len(frames) /\ Top.i \in Nat
    BY <2>1, <2>2, TopType DEF Frame
  <2> QED
    BY <2>1, <2>2, <2>3 DEF LoopFollowsList, Top
<1>4. CASE Returned
  <2>1. CASE AddNext \/ \E slot \in Loops : LoopNext(slot)
    BY <2>1 DEF AddNext, LoopNext
  <2> QED
    BY <1>3, <1>4, <2>1 DEF Returned
<1>5. CASE on_FTPFinished
  BY <1>5, Zenon DEF on_FTPFinished, GateInv
<1>6. CASE Destroy
  BY <1>6, Zenon DEF Destroy
<1>7. CASE ThreadFinishes \/ ThreadEnds \/ Ended
  BY <1>7 DEF ThreadFinishes, ThreadEnds, Ended, vars
<1> QED
  BY <1>1, <1>2, <1>4, <1>5, <1>6, <1>7 DEF Next

THEOREM CrashesAreKnown == Spec => CrashesKnown
<1>1. TypeOK /\ GateInv /\ LoopFollowsList /\ [Next]_vars =>
        [Crashes => \/ Uncaught
                    \/ removed /\ \E slot \in Loops : LoopNull(slot)
                    \/ uThread = "emitted" /\ on_FTPFinished
                    \/ window = "closed" /\ uThread \in InRun /\ Destroy]_vars
  BY CrashesStep
<1> QED
  BY <1>1, GateCorrect, LoopsFollowTheList, PTL DEF Spec, CrashesKnown
-----------------------------------------------------------------------------
(* The stages of an upload.  The frame of the task in progress, if there   *)
(* is one, and the worker determine the stage.                             *)

Phase ==
  IF At("upload", "dialog") THEN "slot"
  ELSE IF \E slot \in UploadSlots : At(slot, "box") THEN "box"
  ELSE IF uThread = "null" THEN "idle"
  ELSE uThread

StageIs(j) ==
  /\ frames[j].slot \in Loops => Phase = "idle"
  /\ Starting(frames[j]) => Phase = "slot"
  /\ frames[j].slot \in UploadSlots /\ frames[j].at = "box" => Phase = "box"

PhaseKnown ==
  GateInv => /\ TaskFrames = {} => Phase = IF uThread = "null" THEN "idle" ELSE uThread
             /\ \A j \in TaskFrames : StageIs(j)

LEMMA AtIsTask ==
  ASSUME NEW slot \in UploadSlots, NEW at
  PROVE  At(slot, at) <=> \E j \in TaskFrames : frames[j].slot = slot /\ frames[j].at = at
BY DEF At, TaskFrames

LEMMA PhaseFromTask == PhaseKnown
<1> SUFFICES ASSUME GateInv
             PROVE  /\ TaskFrames = {} => Phase = IF uThread = "null" THEN "idle" ELSE uThread
                    /\ \A j \in TaskFrames : StageIs(j)
  BY DEF PhaseKnown
<1>1. /\ At("upload", "dialog") <=> \E j \in TaskFrames : Starting(frames[j])
      /\ \A slot \in UploadSlots :
           At(slot, "box") <=> \E j \in TaskFrames : frames[j].slot = slot /\ frames[j].at = "box"
  BY AtIsTask DEF UploadSlots, Starting
<1>2. TaskFrames = {} => Phase = IF uThread = "null" THEN "idle" ELSE uThread
  BY <1>1 DEF Phase
<1>3. ASSUME NEW j \in TaskFrames PROVE StageIs(j)
  <2>1. TaskFrames = {j} /\ uThread = IF Starting(frames[j]) THEN "made" ELSE "null"
    BY <1>3 DEF GateInv
  <2>2. /\ At("upload", "dialog") <=> Starting(frames[j])
        /\ \A slot \in UploadSlots :
             At(slot, "box") <=> frames[j].slot = slot /\ frames[j].at = "box"
    BY <1>1, <2>1
  <2>3. frames[j].slot \in Loops => frames[j].slot \notin UploadSlots /\ ~Starting(frames[j])
    BY DEF Loops, UploadSlots, Starting
  <2>4. frames[j].slot \in Loops => Phase = "idle"
    BY <2>1, <2>2, <2>3 DEF Phase
  <2>5. Starting(frames[j]) => Phase = "slot"
    BY <2>2 DEF Phase
  <2>6. frames[j].slot \in UploadSlots /\ frames[j].at = "box" => Phase = "box"
    BY <2>2 DEF Phase, Starting
  <2> QED
    BY <2>4, <2>5, <2>6 DEF StageIs
<1> QED
  BY <1>2, <1>3

LEMMA PhaseFromTaskNext == PhaseKnown'
BY PhaseFromTask, PTL

(* A step that leaves the frames of an upload and the worker as they are.  *)
LEMMA PhaseStays ==
  ASSUME uThread' = uThread, TaskFrames' = TaskFrames,
         \A j \in TaskFrames : /\ frames'[j].slot = frames[j].slot
                               /\ frames[j].slot \in UploadSlots => frames'[j] = frames[j]
  PROVE  Phase' = Phase
<1>1. ASSUME NEW slot \in UploadSlots, NEW at PROVE At(slot, at)' <=> At(slot, at)
  <2>1. At(slot, at)' <=> \E j \in TaskFrames' : frames'[j].slot = slot /\ frames'[j].at = at
    BY DEF At, TaskFrames
  <2> QED
    BY <2>1, AtIsTask
<1> QED
  BY <1>1 DEF Phase, UploadSlots

(* A slot that is no upload's goes on or returns.                          *)
LEMMA PhaseOtherSlot ==
  ASSUME StackOK, uThread' = uThread,
         \/ \E slot \in SlotNames \ TaskSlots, at \in {"dialog", "box"} : Push(slot, at)
         \/ frames # << >> /\ Top.slot \notin TaskSlots /\ Pop
         \/ frames # << >> /\ \E f \in Frame : InLoop(f) /\ f.slot = Top.slot /\ Replace(f)
                                               /\ Top.slot \notin UploadSlots
  PROVE  Phase' = Phase
<1>1. CASE \E slot \in SlotNames \ TaskSlots, at \in {"dialog", "box"} : Push(slot, at)
  BY <1>1, PushOther, PhaseStays
<1>2. CASE frames # << >> /\ Top.slot \notin TaskSlots /\ Pop
  BY <1>2, PopOther, PhaseStays
<1>3. CASE frames # << >> /\ \E f \in Frame : InLoop(f) /\ f.slot = Top.slot /\ Replace(f)
                                              /\ Top.slot \notin UploadSlots
  <2>1. /\ TaskFrames' = TaskFrames
        /\ \A j \in TaskFrames : frames'[j].slot = frames[j].slot
        /\ \A j \in TaskFrames \ {Len(frames)} : frames'[j] = frames[j]
    BY <1>3, ReplaceTop
  <2>2. \A j \in TaskFrames : frames[j].slot \in UploadSlots => frames'[j] = frames[j]
    BY <1>3, <2>1 DEF Top
  <2> QED
    BY <2>1, <2>2, PhaseStays
<1> QED
  BY <1>1, <1>2, <1>3

(* A loop over the list starts or returns.                                 *)
LEMMA PhaseLoop ==
  ASSUME StackOK, GateInv, GateInv', uThread' = uThread,
         \/ control /\ \E slot \in Loops, at \in {"events", "dialog", "box"} : Push(slot, at)
         \/ frames # << >> /\ Top.slot \in Loops /\ Pop
  PROVE  Phase' = Phase
<1>1. CASE control /\ \E slot \in Loops, at \in {"events", "dialog", "box"} : Push(slot, at)
  <2>1. TaskFrames = {} /\ uThread = "null"
    BY <1>1 DEF GateInv
  <2>2. PICK j : TaskFrames' = {j} /\ frames'[j].slot \in Loops
    BY <1>1, <2>1, PushTask DEF TaskSlots
  <2>3. Phase = "idle" /\ Phase' = "idle"
    BY <2>1, <2>2, PhaseFromTask, PhaseFromTaskNext DEF PhaseKnown, StageIs
  <2> QED
    BY <2>3
<1>2. CASE frames # << >> /\ Top.slot \in Loops /\ Pop
  <2>1. TaskFrames = {Len(frames)} /\ TaskFrames' = {}
    BY <1>2, PopTask DEF TaskSlots
  <2>2. uThread = "null" /\ frames[Len(frames)].slot \in Loops
    BY <1>2, <2>1 DEF GateInv, Top, Starting, Loops
  <2>3. Phase = "idle" /\ Phase' = "idle"
    BY <2>1, <2>2, PhaseFromTask, PhaseFromTaskNext DEF PhaseKnown, StageIs
  <2> QED
    BY <2>3
<1> QED
  BY <1>1, <1>2

(* The steps of an upload take it from one stage to the next.              *)
LEMMA PhaseUpload ==
  ASSUME TypeOK, GateInv, GateInv'
  PROVE  /\ on_upload_clicked => Phase = "idle" /\ Phase' \in {"slot", "box"}
         /\ UploadStarts => Phase = "slot" /\ Phase' = "running"
         /\ UploadFails => Phase = "slot" /\ Phase' = "box"
         /\ UploadDone \/ FinishedDone => Phase = "box" /\ Phase' = "idle"
         /\ ThreadFinishes => Phase = "running" /\ Phase' = "emitted"
         /\ ThreadEnds => Phase = "emitted" /\ Phase' = "ended"
<1> USE DEF thread
<1>1. StackOK /\ PhaseKnown /\ PhaseKnown'
  BY StackIsTyped, PhaseFromTask, PhaseFromTaskNext
<1>2. "upload" \in TaskSlots /\ "on_FTPFinished" \in TaskSlots
  BY DEF TaskSlots, UploadSlots
<1>3. ASSUME frames # << >>, Top.slot \in TaskSlots
      PROVE  Len(frames) \in TaskFrames /\ frames[Len(frames)] = Top
  BY <1>1, <1>3, TopType DEF TaskFrames, TaskSlots, Top
<1>4. ASSUME on_upload_clicked PROVE Phase = "idle" /\ Phase' \in {"slot", "box"}
  <2>1. TaskFrames = {} /\ uThread = "null"
    BY <1>4 DEF on_upload_clicked, Click, GateInv
  <2>2. PICK at \in {"dialog", "box"} : Push("upload", at)
    BY <1>4 DEF on_upload_clicked
  <2>3. PICK j : TaskFrames' = {j} /\ frames'[j].slot = "upload" /\ frames'[j].at = at
    BY <1>1, <1>2, <2>1, <2>2, PushTask
  <2>4. StageIs(j)'
    BY <1>1, <2>3 DEF PhaseKnown
  <2>5. Phase' \in {"slot", "box"}
    BY <2>3, <2>4 DEF StageIs, Starting, UploadSlots
  <2> QED
    BY <1>1, <2>1, <2>5 DEF PhaseKnown
<1>5. ASSUME UploadStarts PROVE Phase = "slot" /\ Phase' = "running"
  <2>1. frames # << >> /\ Starting(Top) /\ Top.slot \in TaskSlots
    BY <1>2, <1>5 DEF UploadStarts, Running, Starting
  <2>2. TaskFrames' = {} /\ uThread' = "running"
    BY <1>1, <1>5, <2>1, PopTask DEF UploadStarts
  <2>3. StageIs(Len(frames))
    BY <1>1, <1>3, <2>1 DEF PhaseKnown
  <2> QED
    BY <1>1, <1>3, <2>1, <2>2, <2>3 DEF PhaseKnown, StageIs
<1>6. ASSUME UploadFails PROVE Phase = "slot" /\ Phase' = "box"
  <2> DEFINE f == [Top EXCEPT !.at = "box"]
  <2>1. frames # << >> /\ Starting(Top) /\ Top \in Frame /\ Top.slot \in TaskSlots
    BY <1>1, <1>2, <1>6, TopType DEF UploadFails, Running, Starting
  <2>2. f \in Frame /\ InLoop(f) /\ f.slot = "upload" /\ f.slot = Top.slot /\ f.at = "box"
    BY <1>1, <2>1, TopChanged DEF Frame, Starting
  <2>3. Replace(f)
    BY <1>6 DEF UploadFails
  <2> HIDE DEF f
  <2>4. TaskFrames' = TaskFrames /\ frames'[Len(frames)] = f
    BY <1>1, <2>1, <2>2, <2>3, ReplaceTop
  <2>5. StageIs(Len(frames)) /\ frames[Len(frames)] = Top
    BY <1>1, <1>3, <2>1 DEF PhaseKnown
  <2>6. Len(frames) \in TaskFrames'
    BY <1>3, <2>1, <2>4
  <2>7. frames'[Len(frames)].slot \in UploadSlots /\ frames'[Len(frames)].at = "box" => Phase' = "box"
    BY <1>1, <2>6 DEF PhaseKnown, StageIs
  <2> QED
    BY <2>1, <2>2, <2>4, <2>5, <2>7 DEF StageIs, UploadSlots
<1>7. ASSUME UploadDone \/ FinishedDone PROVE Phase = "box" /\ Phase' = "idle"
  <2>1. frames # << >> /\ Top.slot \in UploadSlots /\ Top.at = "box" /\ Pop /\ uThread' = uThread
    BY <1>7 DEF UploadDone, FinishedDone, Running, UploadSlots
  <2>2. TaskFrames = {Len(frames)} /\ TaskFrames' = {}
    BY <1>1, <2>1, PopTask DEF TaskSlots
  <2>3. uThread = "null" /\ StageIs(Len(frames)) /\ frames[Len(frames)] = Top
    BY <1>1, <2>1, <2>2 DEF GateInv, PhaseKnown, Starting, Top
  <2> QED
    BY <1>1, <2>1, <2>2, <2>3 DEF PhaseKnown, StageIs
<1>8. ASSUME ThreadFinishes \/ ThreadEnds
      PROVE  TaskFrames = {} /\ TaskFrames' = {}
  <2>1. uThread \in {"running", "emitted"} /\ frames' = frames
    BY <1>8 DEF ThreadFinishes, ThreadEnds
  <2> QED
    BY <2>1 DEF GateInv, TaskFrames
<1>9. ASSUME ThreadFinishes PROVE Phase = "running" /\ Phase' = "emitted"
  BY <1>1, <1>8, <1>9 DEF PhaseKnown, ThreadFinishes
<1>10. ASSUME ThreadEnds PROVE Phase = "emitted" /\ Phase' = "ended"
  BY <1>1, <1>8, <1>10 DEF PhaseKnown, ThreadEnds
<1> QED
  BY <1>4, <1>5, <1>6, <1>7, <1>9, <1>10

(* The signal of a worker that has left run() leads to the last box.       *)
LEMMA PhaseFinished ==
  ASSUME TypeOK, GateInv, GateInv', on_FTPFinished, Alive'
  PROVE  Phase = "ended" /\ Phase' = "box"
<1>1. StackOK /\ PhaseKnown /\ PhaseKnown'
  BY StackIsTyped, PhaseFromTask, PhaseFromTaskNext
<1>2. uThread = "ended" /\ Push("on_FTPFinished", "box")
  BY DEF GateInv, on_FTPFinished, Alive
<1>3. TaskFrames = {} /\ "on_FTPFinished" \in TaskSlots
  BY <1>2 DEF GateInv, TaskSlots, UploadSlots
<1>4. PICK j : TaskFrames' = {j} /\ frames'[j].slot = "on_FTPFinished" /\ frames'[j].at = "box"
  BY <1>1, <1>2, <1>3, PushTask
<1>5. StageIs(j)'
  BY <1>1, <1>4 DEF PhaseKnown
<1> QED
  BY <1>1, <1>2, <1>3, <1>4, <1>5 DEF PhaseKnown, StageIs, UploadSlots

(* Every other step leaves the stage as it is.                             *)
LEMMA PhaseOther ==
  ASSUME TypeOK, GateInv, GateInv', Next, Alive,
         ~(on_upload_clicked \/ UploadStarts \/ UploadFails \/ UploadDone \/ FinishedDone
           \/ ThreadFinishes \/ ThreadEnds \/ on_FTPFinished)
  PROVE  Phase' = Phase
<1>1. StackOK
  BY StackIsTyped
<1> USE DEF task, thread
<1>2. CASE (\E slot \in Loops : LoopClicked(slot)) \/ NotesFails
  BY <1>1, <1>2, PhaseLoop DEF LoopClicked, NotesFails, Click, Loops
<1>3. CASE (\E slot \in Loops : LoopDone(slot)) \/ NotesGivesUp
  BY <1>1, <1>3, PhaseLoop DEF LoopDone, NotesGivesUp, Running, Loops
<1>4. CASE on_add_clicked \/ OpenDialog
  <2>1. {"add", "dialog"} \subseteq SlotNames \ TaskSlots
    BY DEF SlotNames, TaskSlots, Loops, UploadSlots
  <2>2. uThread' = uThread /\ \E slot \in SlotNames \ TaskSlots, at \in {"dialog", "box"} : Push(slot, at)
    BY <1>4, <2>1 DEF on_add_clicked, OpenDialog
  <2> QED
    BY <1>1, <2>2, PhaseOtherSlot
<1>5. CASE AddChosen \/ AddNext \/ AddDone \/ CloseDialog \/ \E slot \in Loops : LoopNext(slot)
  <2>1. uThread' = uThread /\ OtherFrameStep
    BY <1>1, <1>5, OtherFrameSteps DEF AddChosen, AddNext, AddDone, CloseDialog, LoopNext
  <2> QED
    BY <1>1, <2>1, PhaseOtherSlot DEF OtherFrameStep
<1>6. CASE on_remove_clicked \/ on_remove_all_clicked \/ CloseWindow \/ Uncaught \/ Destroy \/ Ended
             \/ \E slot \in Loops : LoopNull(slot)
  <2>1. frames' = frames /\ uThread' = uThread
    BY <1>6 DEF on_remove_clicked, on_remove_all_clicked, CloseWindow, Uncaught, Destroy, Ended,
                LoopNull, vars
  <2> QED
    BY <2>1 DEF Phase, At
<1>7. CASE Clicked
  BY <1>2, <1>4, <1>6, <1>7 DEF Clicked
<1>8. CASE Answered \/ Returned
  BY <1>3, <1>5, <1>6, <1>8 DEF Answered, Returned
<1> QED
  BY <1>6, <1>7, <1>8 DEF Next

(* Nothing happens when the program has ended.                             *)
LEMMA NothingAfterEnd ==
  ASSUME Next, ~Alive
  PROVE  UNCHANGED vars
<1>1. CASE Clicked
  BY <1>1 DEF Clicked, on_add_clicked, on_remove_clicked, on_remove_all_clicked, LoopClicked, NotesFails,
              on_upload_clicked, Click, OpenDialog, CloseWindow, Start, Interactive, Alive
<1>2. CASE Answered \/ Returned
  BY <1>2 DEF Answered, Returned, AddChosen, AddNext, AddDone, LoopNext, LoopNull, LoopDone, NotesGivesUp,
              UploadStarts, UploadFails, UploadDone, FinishedDone, CloseDialog, Running
<1>3. CASE ThreadFinishes \/ ThreadEnds \/ on_FTPFinished \/ Uncaught \/ Destroy
  BY <1>3 DEF ThreadFinishes, ThreadEnds, on_FTPFinished, Uncaught, Destroy, Alive
<1> QED
  BY <1>1, <1>2, <1>3 DEF Next, Ended

(* An upload goes through its stages in their order, in a window whose     *)
(* slots nest to any depth: the end of the worker is received only after   *)
(* it has left run(), or with it the program ends.                         *)
THEOREM TaskIsImplemented == Spec => ImplementsTask
<1>1. Init => Task!Init
  <2> SUFFICES ASSUME Init PROVE Stage = "idle"
    BY DEF Task!Init
  <2>2. 1 .. Len(frames) = {} /\ uThread = "null" /\ Alive
    BY DEF Init, Alive
  <2> QED
    BY <2>2 DEF Stage, At
<1>2. TypeOK /\ GateInv /\ [Next]_vars => [Task!Next]_Stage
  <2> SUFFICES ASSUME TypeOK, GateInv, [Next]_vars PROVE [Task!Next]_Stage
    OBVIOUS
  <2>2. CASE UNCHANGED vars
    BY <2>2 DEF vars, thread, Stage, At, Alive
  <2>3. CASE Next /\ Alive /\ Alive'
    <3>1. Stage = Phase /\ Stage' = Phase'
      BY <2>3 DEF Stage, Phase
    <3>2. GateInv'
      BY GateNext
    <3>3. CASE on_upload_clicked \/ UploadStarts \/ UploadFails \/ UploadDone \/ FinishedDone
               \/ ThreadFinishes \/ ThreadEnds \/ on_FTPFinished
      BY <2>3, <3>1, <3>2, <3>3, PhaseUpload, PhaseFinished
         DEF Task!Next, Task!Click, Task!Start, Task!GiveUp, Task!Return, Task!SayFinished,
             Task!LeaveRun, Task!Finish, Task!From
    <3> QED
      BY <2>3, <3>1, <3>2, <3>3, PhaseOther
  <2>4. CASE Next /\ Alive /\ ~Alive'
    <3>1. Stage # "over" /\ Stage' = "over"
      BY <2>4 DEF Stage, TypeOK
    <3> QED
      BY <3>1 DEF Task!Next, Task!End
  <2>5. CASE Next /\ ~Alive
    BY <2>2, <2>5, NothingAfterEnd
  <2> QED
    BY <2>2, <2>3, <2>4, <2>5
<1> QED
  BY <1>1, <1>2, GateCorrect, PTL DEF Spec, ImplementsTask, Task!Spec
-----------------------------------------------------------------------------
(* The status bar.                                                         *)

(* Nothing starts over a box but a slot that shows one.                    *)
BoxOrder ==
  \A j, l \in 1 .. Len(frames) : j < l /\ frames[j].at = "box" => frames[l].at = "box"

OnlyDialogs == \A j \in 1 .. Len(frames) : frames[j].slot = "dialog"

(* The loops and the signal's slot set the tip before their last box, and  *)
(* not after it: it has to stay until they return.                         *)
TipOK ==
  /\ Alive /\ uThread = "null" /\ OnlyDialogs => tip = "ready"
  /\ \A j \in 1 .. Len(frames) :
       frames[j].at = "box" /\ frames[j].slot \in Loops \cup {"on_FTPFinished"} => tip = "ready"

TipInv == BoxOrder /\ TipOK

Calm == frames # << >> => Top.at = "events"

LEMMA NoBoxes ==
  ASSUME StackOK, BoxOrder, frames # << >> => Top.at # "box"
  PROVE  \A j \in 1 .. Len(frames) : frames[j].at # "box"
<1> SUFFICES ASSUME NEW j \in 1 .. Len(frames), frames[j].at = "box" PROVE FALSE
  OBVIOUS
<1>1. frames # << >> /\ Len(frames) \in 1 .. Len(frames)
  BY DEF StackOK
<1>2. frames[Len(frames)].at = "box"
  BY <1>1 DEF BoxOrder
<1> QED
  BY <1>1, <1>2 DEF Top

(* What a step may do to the stack.                                        *)
StartsCalmly(slot, at) ==
  slot \in SlotNames /\ at \in {"events", "dialog", "box"} /\ (slot = "add" => at # "events")
  /\ Calm /\ Push(slot, at)

GoesOnOpenly(f) == frames # << >> /\ Top.at # "box" /\ f \in Frame /\ InLoop(f) /\ Replace(f)

LEMMA BoxOrderKept ==
  ASSUME StackOK, BoxOrder,
         \/ UNCHANGED frames
         \/ \E slot, at : StartsCalmly(slot, at)
         \/ Push("on_FTPFinished", "box")
         \/ frames # << >> /\ Pop
         \/ \E f : GoesOnOpenly(f)
  PROVE  BoxOrder'
<1>1. CASE UNCHANGED frames
  BY <1>1 DEF BoxOrder
<1>2. ASSUME NEW slot, NEW at, StartsCalmly(slot, at) PROVE BoxOrder'
  <2>1. /\ Len(frames) \in Nat /\ Len(frames') = Len(frames) + 1
        /\ \A j \in 1 .. Len(frames) : frames'[j] = frames[j]
    BY <1>2, PushStack DEF StartsCalmly
  <2>2. \A j \in 1 .. Len(frames) : frames[j].at # "box"
    BY <1>2, NoBoxes DEF StartsCalmly, Calm
  <2> QED
    BY <2>1, <2>2 DEF BoxOrder
<1>3. CASE Push("on_FTPFinished", "box")
  <2>1. "on_FTPFinished" \in SlotNames
    BY DEF SlotNames, UploadSlots
  <2>2. /\ Len(frames) \in Nat /\ Len(frames') = Len(frames) + 1 /\ frames'[Len(frames')].at = "box"
        /\ \A j \in 1 .. Len(frames) : frames'[j] = frames[j]
    BY <1>3, <2>1, PushStack
  <2> QED
    BY <2>2 DEF BoxOrder
<1>4. CASE frames # << >> /\ Pop
  <2>1. Len(frames) \in Nat /\ Len(frames') = Len(frames) - 1
        /\ \A j \in 1 .. Len(frames') : frames'[j] = frames[j]
    BY <1>4, PopStack
  <2> QED
    BY <2>1 DEF BoxOrder
<1>5. ASSUME NEW f, GoesOnOpenly(f) PROVE BoxOrder'
  <2>1. Len(frames) \in Nat \ {0} /\ Len(frames') = Len(frames)
        /\ \A j \in 1 .. Len(frames) - 1 : frames'[j] = frames[j]
    BY <1>5, ReplaceStack DEF GoesOnOpenly
  <2>2. \A j \in 1 .. Len(frames) : frames[j].at # "box"
    BY <1>5, NoBoxes DEF GoesOnOpenly
  <2> QED
    BY <2>1, <2>2 DEF BoxOrder
<1> QED
  BY <1>1, <1>2, <1>3, <1>4, <1>5

(* The tip when a slot starts that sets it, goes on before its end, or     *)
(* returns without setting it.                                             *)
LEMMA TipOfPush ==
  ASSUME StackOK, TipInv, NEW slot \in SlotNames, NEW at \in {"events", "dialog", "box"},
         StartsCalmly(slot, at), slot # "dialog", at # "box" \/ slot = "upload"
  PROVE  TipOK'
<1>1. /\ Len(frames) \in Nat /\ Len(frames') = Len(frames) + 1
      /\ frames'[Len(frames')].slot = slot /\ frames'[Len(frames')].at = at
      /\ \A j \in 1 .. Len(frames) : frames'[j] = frames[j]
  BY PushStack DEF StartsCalmly
<1>2. \A j \in 1 .. Len(frames) : frames[j].at # "box"
  BY NoBoxes DEF StartsCalmly, Calm, TipInv
<1>3. ~OnlyDialogs'
  BY <1>1 DEF OnlyDialogs
<1>4. \A j \in 1 .. Len(frames') : frames'[j].at = "box" => frames'[j].slot = "upload"
  BY <1>1, <1>2
<1> QED
  BY <1>3, <1>4 DEF TipOK, Loops

LEMMA TipOfReplace ==
  ASSUME StackOK, TipInv, NEW f, GoesOnOpenly(f), f.slot # "dialog", f.at # "box" \/ f.slot = "upload"
  PROVE  TipOK'
<1>1. Len(frames) \in Nat \ {0} /\ Len(frames') = Len(frames) /\ frames'[Len(frames)] = f
      /\ \A j \in 1 .. Len(frames) - 1 : frames'[j] = frames[j]
  BY ReplaceStack DEF GoesOnOpenly
<1>2. \A j \in 1 .. Len(frames) : frames[j].at # "box"
  BY NoBoxes DEF GoesOnOpenly, TipInv
<1>3. ~OnlyDialogs'
  BY <1>1 DEF OnlyDialogs
<1>4. \A j \in 1 .. Len(frames') : frames'[j].at = "box" => frames'[j].slot = "upload"
  BY <1>1, <1>2
<1> QED
  BY <1>3, <1>4 DEF TipOK, Loops

LEMMA TipOfPop ==
  ASSUME StackOK, TipInv, frames # << >>, Pop, tip' = tip,
         \/ Alive' /\ uThread' = "null" => Alive /\ uThread = "null" /\ Top.slot = "dialog"
         \/ Top.at = "box" /\ Top.slot \in Loops \cup {"on_FTPFinished"}
  PROVE  TipOK'
<1>1. Len(frames) \in Nat \ {0} /\ Len(frames') = Len(frames) - 1
      /\ \A j \in 1 .. Len(frames') : frames'[j] = frames[j]
  BY PopStack
<1>2. CASE Top.at = "box" /\ Top.slot \in Loops \cup {"on_FTPFinished"}
  <2>1. tip = "ready"
    BY <1>1, <1>2 DEF TipInv, TipOK, Top
  <2> QED
    BY <2>1 DEF TipOK
<1>3. CASE Alive' /\ uThread' = "null" => Alive /\ uThread = "null" /\ Top.slot = "dialog"
  <2>1. OnlyDialogs' /\ Top.slot = "dialog" => OnlyDialogs
    <3> SUFFICES ASSUME OnlyDialogs', Top.slot = "dialog", NEW j \in 1 .. Len(frames)
                 PROVE  frames[j].slot = "dialog"
      BY DEF OnlyDialogs
    <3>1. CASE j = Len(frames)
      BY <3>1 DEF Top
    <3>2. CASE j # Len(frames)
      <4>1. j \in 1 .. Len(frames')
        BY <1>1, <3>2
      <4> QED
        BY <1>1, <4>1 DEF OnlyDialogs
    <3> QED
      BY <3>1, <3>2
  <2>2. \A j \in 1 .. Len(frames') : j \in 1 .. Len(frames)
    BY <1>1
  <2>3. Alive' /\ uThread' = "null" /\ OnlyDialogs' => tip = "ready"
    BY <1>3, <2>1 DEF TipInv, TipOK
  <2>4. \A j \in 1 .. Len(frames') :
          frames'[j].at = "box" /\ frames'[j].slot \in Loops \cup {"on_FTPFinished"} => tip = "ready"
    BY <1>1, <2>2 DEF TipInv, TipOK
  <2> QED
    BY <2>3, <2>4 DEF TipOK
<1> QED
  BY <1>2, <1>3

LEMMA TipNext ==
  ASSUME TypeOK, TipInv, [Next]_vars
  PROVE  TipInv'
<1>0. StackOK
  BY StackIsTyped
<1> DEFINE Kept == UNCHANGED <<frames, tip>>
                   /\ (Alive' /\ uThread' = "null" => Alive /\ uThread = "null")
<1>1. ASSUME Kept PROVE TipInv'
  BY <1>1, <1>0, BoxOrderKept DEF TipInv, TipOK, OnlyDialogs
<1>2. ASSUME NEW slot, NEW at, StartsCalmly(slot, at),
             \/ slot # "dialog" /\ (at # "box" \/ slot = "upload")
             \/ tip' = "ready"
      PROVE  TipInv'
  <2>1. BoxOrder'
    BY <1>0, <1>2, BoxOrderKept DEF TipInv
  <2>2. TipOK'
    <3>1. CASE tip' = "ready"
      BY <3>1 DEF TipOK
    <3>2. CASE slot # "dialog" /\ (at # "box" \/ slot = "upload")
      BY <1>0, <1>2, <3>2, TipOfPush DEF StartsCalmly
    <3> QED
      BY <1>2, <3>1, <3>2
  <2> QED
    BY <2>1, <2>2 DEF TipInv
<1>3. ASSUME NEW f, GoesOnOpenly(f), f.slot # "dialog",
             f.at # "box" \/ f.slot = "upload" \/ tip' = "ready"
      PROVE  TipInv'
  <2>1. BoxOrder'
    BY <1>0, <1>3, BoxOrderKept DEF TipInv
  <2>2. TipOK'
    <3>1. CASE tip' = "ready"
      BY <3>1 DEF TipOK
    <3>2. CASE f.at # "box" \/ f.slot = "upload"
      BY <1>0, <1>3, <3>2, TipOfReplace
    <3> QED
      BY <1>3, <3>1, <3>2
  <2> QED
    BY <2>1, <2>2 DEF TipInv
<1>4. ASSUME frames # << >>, Pop,
             \/ tip' = "ready"
             \/ /\ tip' = tip
                /\ \/ Alive' /\ uThread' = "null" => Alive /\ uThread = "null" /\ Top.slot = "dialog"
                   \/ Top.at = "box" /\ Top.slot \in Loops \cup {"on_FTPFinished"}
      PROVE  TipInv'
  <2>1. BoxOrder'
    BY <1>0, <1>4, BoxOrderKept DEF TipInv
  <2>2. TipOK'
    <3>1. CASE tip' = "ready"
      BY <3>1 DEF TipOK
    <3>2. CASE tip' # "ready"
      BY <1>0, <1>4, <3>2, TipOfPop
    <3> QED
      BY <3>1, <3>2
  <2> QED
    BY <2>1, <2>2 DEF TipInv
<1>5. CASE Clicked
  <2>1. \A slot \in {"add", "notes", "check", "upload", "dialog"} : slot \in SlotNames
    BY DEF SlotNames, Loops, UploadSlots
  <2>2. CASE on_add_clicked
    <3>1. StartsCalmly("add", "dialog")
      BY <2>1, <2>2 DEF on_add_clicked, Start, Interactive, StartsCalmly, Calm
    <3> QED
      BY <1>2, <3>1
  <2>3. ASSUME NEW slot \in Loops, LoopClicked(slot) PROVE TipInv'
    <3>1. slot # "add" /\ slot # "dialog" /\ slot \in SlotNames
      BY <2>1 DEF Loops
    <3>2. CASE Push(slot, "box") /\ tip' = "ready"
      <4>1. StartsCalmly(slot, "box")
        BY <2>3, <3>1, <3>2 DEF LoopClicked, Click, Start, Interactive, StartsCalmly, Calm
      <4> QED
        BY <1>2, <3>2, <4>1
    <3>3. CASE Push(slot, "events")
      <4>1. StartsCalmly(slot, "events")
        BY <2>3, <3>1, <3>3 DEF LoopClicked, Click, Start, Interactive, StartsCalmly, Calm
      <4> QED
        BY <1>2, <3>1, <4>1
    <3> QED
      BY <2>3, <3>2, <3>3 DEF LoopClicked
  <2>4. CASE NotesFails
    <3>1. StartsCalmly("notes", "dialog")
      BY <2>1, <2>4 DEF NotesFails, Click, Start, Interactive, StartsCalmly, Calm
    <3> QED
      BY <1>2, <3>1
  <2>5. CASE on_upload_clicked
    <3>1. StartsCalmly("upload", "dialog") \/ StartsCalmly("upload", "box")
      BY <2>1, <2>5 DEF on_upload_clicked, Click, Start, Interactive, StartsCalmly, Calm
    <3> QED
      BY <1>2, <3>1
  <2>6. CASE OpenDialog
    <3>1. StartsCalmly("dialog", "dialog") /\ UNCHANGED <<tip, uThread, window>>
      BY <2>1, <2>6 DEF OpenDialog, Start, Interactive, StartsCalmly, Calm, thread
    <3>2. /\ Len(frames) \in Nat /\ Len(frames') = Len(frames) + 1
          /\ frames'[Len(frames')].at = "dialog"
          /\ \A j \in 1 .. Len(frames) : frames'[j] = frames[j]
      BY <1>0, <3>1, PushStack DEF StartsCalmly
    <3>3. OnlyDialogs' => OnlyDialogs
      BY <3>2 DEF OnlyDialogs
    <3>4. \A j \in 1 .. Len(frames') : frames'[j].at = "box" => j \in 1 .. Len(frames)
      BY <3>2
    <3>5. TipOK'
      BY <3>1, <3>2, <3>3, <3>4 DEF TipInv, TipOK, Alive
    <3>6. BoxOrder'
      BY <1>0, <3>1, BoxOrderKept DEF TipInv
    <3> QED
      BY <3>5, <3>6 DEF TipInv
  <2>7. CASE CloseWindow
    BY <1>1, <2>7 DEF CloseWindow, Interactive, Alive, thread
  <2>8. CASE on_remove_clicked \/ on_remove_all_clicked
    BY <1>1, <2>8 DEF on_remove_clicked, on_remove_all_clicked, Alive, thread
  <2> QED
    BY <1>5, <2>2, <2>3, <2>4, <2>5, <2>6, <2>7, <2>8 DEF Clicked
<1>6. CASE AddChosen
  <2>1. frames # << >> /\ Top.slot = "add" /\ Top.at = "dialog"
    BY <1>6 DEF AddChosen, Running
  <2>2. CASE Pop /\ tip' = "ready"
    BY <1>4, <2>1, <2>2
  <2>3. ASSUME NEW s \in Selections, s # << >>, Replace([Top EXCEPT !.at = "events", !.sel = s])
        PROVE  TipInv'
    <3> DEFINE f == [Top EXCEPT !.at = "events", !.sel = s]
    <3>1. f \in Frame /\ InLoop(f)
      BY <1>0, <2>1, <2>3, FirstOfSelection
    <3>2. f.slot = "add" /\ f.at = "events"
      BY <1>0, <2>1, TopType DEF Frame
    <3>3. GoesOnOpenly(f)
      BY <2>1, <2>3, <3>1 DEF GoesOnOpenly
    <3> HIDE DEF f
    <3> QED
      BY <1>3, <3>2, <3>3
  <2> QED
    BY <1>6, <2>2, <2>3 DEF AddChosen
<1>7. CASE AddNext \/ \E slot \in Loops : LoopNext(slot)
  <2>1. /\ frames # << >> /\ Top.slot \in {"add"} \cup Loops /\ Top.at = "events"
        /\ \/ Replace([Top EXCEPT !.at = "box"]) /\ tip' = "ready"
           \/ /\ Replace([Top EXCEPT !.i = @ + 1])
              /\ Top.slot # "add" \/ GoesOn(Top.i, Len(Top.sel))
    BY <1>7 DEF AddNext, LoopNext, Running, Loops
  <2>2. Top \in Frame
    BY <1>0, <2>1, TopType
  <2>3. CASE Replace([Top EXCEPT !.at = "box"]) /\ tip' = "ready"
    <3> DEFINE f == [Top EXCEPT !.at = "box"]
    <3>1. f \in Frame /\ InLoop(f) /\ f.slot # "dialog"
      BY <1>0, <2>1, <2>2, TopChanged DEF Frame, Loops
    <3>2. GoesOnOpenly(f)
      BY <2>1, <2>3, <3>1 DEF GoesOnOpenly
    <3> HIDE DEF f
    <3> QED
      BY <1>3, <2>3, <3>1, <3>2
  <2>4. CASE Replace([Top EXCEPT !.i = @ + 1]) /\ (Top.slot # "add" \/ GoesOn(Top.i, Len(Top.sel)))
    <3> DEFINE f == [Top EXCEPT !.i = @ + 1]
    <3>1. f \in Frame /\ InLoop(f)
      BY <1>0, <2>1, <2>4, TopChanged
    <3>2. f.slot # "dialog" /\ f.at # "box"
      BY <2>1, <2>2 DEF Frame, Loops
    <3>3. GoesOnOpenly(f)
      BY <2>1, <2>4, <3>1 DEF GoesOnOpenly
    <3> HIDE DEF f
    <3> QED
      BY <1>3, <3>2, <3>3
  <2> QED
    BY <2>1, <2>3, <2>4
<1>8. CASE UploadFails
  <2>1. frames # << >> /\ Top.slot = "upload" /\ Top.at = "dialog" /\ Replace([Top EXCEPT !.at = "box"])
    BY <1>8 DEF UploadFails, Running
  <2> DEFINE f == [Top EXCEPT !.at = "box"]
  <2>2. f \in Frame /\ InLoop(f) /\ f.slot = "upload"
    BY <1>0, <2>1, TopChanged, TopType DEF Frame
  <2>3. GoesOnOpenly(f)
    BY <2>1, <2>2 DEF GoesOnOpenly
  <2> HIDE DEF f
  <2> QED
    BY <1>3, <2>2, <2>3
<1>9. CASE AddDone \/ NotesGivesUp \/ UploadDone
  BY <1>4, <1>9 DEF AddDone, NotesGivesUp, UploadDone, Running
<1>10. CASE FinishedDone \/ \E slot \in Loops : LoopDone(slot)
  BY <1>4, <1>10 DEF FinishedDone, LoopDone, Running
<1>11. CASE UploadStarts
  BY <1>4, <1>11 DEF UploadStarts, Running
<1>12. CASE CloseDialog
  <2>1. frames # << >> /\ Pop /\ tip' = tip /\ Top.slot = "dialog" /\ Alive /\ uThread' = uThread
    BY <1>12 DEF CloseDialog, Running, thread
  <2> QED
    BY <1>4, <2>1
<1>13. CASE on_FTPFinished
  <2>1. CASE window' = "crashed" /\ UNCHANGED <<frames, uThread, tip>>
    BY <1>1, <2>1 DEF Alive
  <2>2. CASE Push("on_FTPFinished", "box") /\ tip' = "ready"
    <3>1. BoxOrder'
      BY <1>0, <2>2, BoxOrderKept DEF TipInv
    <3> QED
      BY <2>2, <3>1 DEF TipInv, TipOK
  <2> QED
    BY <1>13, <2>1, <2>2 DEF on_FTPFinished
<1>14. CASE \/ \E slot \in Loops : LoopNull(slot)
            \/ Uncaught \/ ThreadFinishes \/ ThreadEnds \/ Destroy \/ Ended \/ UNCHANGED vars
  BY <1>1, <1>14 DEF LoopNull, Uncaught, ThreadFinishes, ThreadEnds, Destroy, Ended, vars, thread, Alive
<1>15. CASE Answered
  BY <1>6, <1>8, <1>9, <1>10, <1>11, <1>12, <1>15 DEF Answered
<1>16. CASE Returned
  BY <1>7, <1>14, <1>16 DEF Returned
<1> QED
  BY <1>5, <1>13, <1>14, <1>15, <1>16 DEF Next

(* When all is done, the status bar says so, at whatever depth slots were  *)
(* nested and wherever the worker's signal was received.                   *)
THEOREM TipIsReady == Spec => []TipReady
<1>1. Init => TipInv
  BY DEF Init, TipInv, TipOK, BoxOrder, OnlyDialogs
<1>2. TypeOK /\ TipInv => TipReady
  <2> SUFFICES ASSUME TipInv, Alive, frames = << >>, uThread = "null" PROVE tip = "ready"
    BY DEF TipReady
  <2>1. OnlyDialogs
    BY DEF OnlyDialogs
  <2> QED
    BY <2>1 DEF TipInv, TipOK
<1>3. TypeOK /\ TipInv /\ [Next]_vars => TipInv'
  BY TipNext
<1>4. Spec => []TypeOK
  BY TypeCorrect
<1> QED
  BY <1>1, <1>2, <1>3, <1>4, PTL DEF Spec

-----------------------------------------------------------------------------
(* The window with its rows.  Every step of it is a step of the window or  *)
(* a change of the current row, so that all of the above holds of it too.  *)
THEOREM RowsImplementWindow == RowsSpec => Spec
<1>1. RowsInit => Init
  BY DEF RowsInit
<1>2. [RowsNext]_allVars => [Next]_vars
  <2> SUFFICES ASSUME [RowsNext]_allVars PROVE [Next]_vars
    OBVIOUS
  <2>1. CASE AddEnds
    BY <2>1 DEF AddEnds, AddReturns, Next, Answered
  <2>2. CASE RemoveRow \/ RemoveAllRows
    BY <2>2 DEF RemoveRow, RemoveAllRows, Next, Clicked
  <2>3. CASE \E r \in 1 .. Len(filelist) : Select(r)
    BY <2>3 DEF Select
  <2>4. CASE RowsStay
    BY <2>4 DEF RowsStay, OtherClicked, OtherAnswered, Next, Clicked, Answered
  <2>5. CASE UNCHANGED allVars
    BY <2>5 DEF allVars
  <2> QED
    BY <2>1, <2>2, <2>3, <2>4, <2>5 DEF RowsNext
<1> QED
  BY <1>1, <1>2, PTL DEF RowsSpec, Spec

(* What the two properties need: the current row is in the list or there   *)
(* is none, and where there is one "remove all" is enabled.                *)
RowsInv ==
  /\ row \in 0 .. Len(filelist)
  /\ row > 0 => remove_all
  /\ RemoveMatchesRow
  /\ RemoveAllReachable

(* A slot that adds stays on the stack as long as it is not the one that   *)
(* returns.                                                                *)
LEMMA AddingKept ==
  ASSUME StackOK, InProgress("add"),
         \/ UNCHANGED frames
         \/ \E slot \in SlotNames, at \in {"events", "dialog", "box"} : slot # "add" /\ Push(slot, at)
         \/ frames # << >> /\ Top.slot # "add" /\ Pop
         \/ frames # << >> /\ \E f \in Frame : InLoop(f) /\ f.slot = Top.slot /\ Replace(f)
  PROVE  InProgress("add")'
<1>1. PICK j \in 1 .. Len(frames) : frames[j].slot = "add"
  BY DEF InProgress
<1>2. CASE UNCHANGED frames
  BY <1>2 DEF InProgress
<1>3. CASE \E slot \in SlotNames, at \in {"events", "dialog", "box"} : slot # "add" /\ Push(slot, at)
  <2>1. Len(frames) \in Nat /\ Len(frames') = Len(frames) + 1 /\ frames'[j] = frames[j]
    BY <1>3, PushStack
  <2> QED
    BY <1>1, <2>1 DEF InProgress
<1>4. CASE frames # << >> /\ Top.slot # "add" /\ Pop
  <2>1. Len(frames) \in Nat /\ Len(frames') = Len(frames) - 1
        /\ \A k \in 1 .. Len(frames') : frames'[k] = frames[k]
    BY <1>4, PopStack
  <2>2. j \in 1 .. Len(frames')
    BY <1>1, <1>4, <2>1 DEF Top
  <2> QED
    BY <1>1, <2>1, <2>2 DEF InProgress
<1>5. ASSUME frames # << >>, NEW f \in Frame, InLoop(f), f.slot = Top.slot, Replace(f)
      PROVE  InProgress("add")'
  <2>1. Len(frames) \in Nat \ {0} /\ Len(frames') = Len(frames) /\ frames'[Len(frames)] = f
        /\ \A k \in 1 .. Len(frames) - 1 : frames'[k] = frames[k]
    BY <1>5, ReplaceStack
  <2>2. frames'[j].slot = "add"
    BY <1>1, <1>5, <2>1 DEF Top
  <2> QED
    BY <2>1, <2>2 DEF InProgress
<1> QED
  BY <1>2, <1>3, <1>4, <1>5

LEMMA AddGoesOn ==
  ASSUME TypeOK, AddNext
  PROVE  InProgress("add")'
<1>1. StackOK /\ frames # << >> /\ Top.slot = "add"
  BY StackIsTyped DEF AddNext, Running
<1>2. InProgress("add")
  BY <1>1, TopType DEF InProgress, Top
<1>3. OtherFrameStep
  BY <1>1, OtherFrameSteps
<1>4. ~Pop
  <2>1. Len(frames') = Len(frames)
    BY <1>1, TopType DEF AddNext, Replace, StackOK
  <2>2. Pop => Len(frames') = Len(frames) - 1 /\ Len(frames) \in Nat
    BY <1>1, PopStack
  <2> QED
    BY <1>1, <2>1, <2>2
<1>5. \E f \in Frame : InLoop(f) /\ f.slot = Top.slot /\ Replace(f)
  BY <1>3, <1>4 DEF OtherFrameStep
<1> QED
  BY <1>1, <1>2, <1>5, AddingKept

(* Every other step leaves the list alone, and every slot that adds.       *)
LEMMA ListStays ==
  ASSUME TypeOK, RowsStay, ~AddNext
  PROVE  /\ UNCHANGED filelist
         /\ InProgress("add") => InProgress("add")'
<1> DEFINE Kept ==
             \/ UNCHANGED frames
             \/ \E slot \in SlotNames, at \in {"events", "dialog", "box"} : slot # "add" /\ Push(slot, at)
             \/ frames # << >> /\ Top.slot # "add" /\ Pop
             \/ frames # << >> /\ \E f \in Frame : InLoop(f) /\ f.slot = Top.slot /\ Replace(f)
<1>0. StackOK
  BY StackIsTyped
<1> SUFFICES UNCHANGED filelist /\ (Kept \/ InProgress("add")')
  BY <1>0, AddingKept
<1>1. CASE on_add_clicked
  <2>1. StackOK' /\ Len(frames') = Len(frames) + 1 /\ Len(frames) \in Nat
        /\ frames'[Len(frames')].slot = "add"
    BY <1>0, <1>1, PushStack DEF on_add_clicked, SlotNames
  <2>2. Len(frames') \in 1 .. Len(frames')
    BY <2>1
  <2> QED
    BY <1>1, <2>1, <2>2 DEF on_add_clicked, InProgress
<1>2. CASE OtherClicked /\ ~on_add_clicked
  <2>1. \A slot \in {"notes", "check", "upload", "dialog"} : slot \in SlotNames /\ slot # "add"
    BY DEF SlotNames, Loops, UploadSlots
  <2>2. CASE \E slot \in Loops : LoopClicked(slot)
    BY <2>1, <2>2 DEF LoopClicked, Click, Loops
  <2>3. CASE NotesFails
    BY <2>1, <2>3 DEF NotesFails, Click
  <2>4. CASE on_upload_clicked
    BY <2>1, <2>4 DEF on_upload_clicked, Click
  <2>5. CASE OpenDialog
    BY <2>1, <2>5 DEF OpenDialog
  <2>6. CASE CloseWindow
    BY <2>6 DEF CloseWindow
  <2> QED
    BY <1>2, <2>2, <2>3, <2>4, <2>5, <2>6 DEF OtherClicked
<1>3. CASE AddChosen /\ Len(frames') = Len(frames)
  <2>1. frames # << >> /\ UNCHANGED filelist
    BY <1>3 DEF AddChosen, Running
  <2>2. ~Pop
    <3>1. Pop => Len(frames') = Len(frames) - 1 /\ Len(frames) \in Nat
      BY <1>0, <2>1, PopStack
    <3> QED
      BY <1>3, <3>1
  <2>3. OtherFrameStep
    BY <1>0, <1>3, OtherFrameSteps
  <2> QED
    BY <2>1, <2>2, <2>3 DEF OtherFrameStep
<1>4. CASE (\E slot \in Loops : LoopDone(slot)) \/ NotesGivesUp \/ UploadStarts \/ UploadFails
           \/ UploadDone \/ FinishedDone \/ CloseDialog
  <2>1. CASE UploadFails
    <3>1. frames # << >> /\ UNCHANGED filelist /\ Replace([Top EXCEPT !.at = "box"])
      BY <2>1 DEF UploadFails, Running
    <3>2. [Top EXCEPT !.at = "box"] \in Frame /\ InLoop([Top EXCEPT !.at = "box"])
          /\ [Top EXCEPT !.at = "box"].slot = Top.slot
      BY <1>0, <3>1, TopChanged, TopType DEF Frame
    <3> QED
      BY <3>1, <3>2
  <2>2. CASE ~UploadFails
    BY <1>4, <2>2 DEF LoopDone, NotesGivesUp, UploadStarts, UploadDone, FinishedDone, CloseDialog,
                      Running, Loops
  <2> QED
    BY <2>1, <2>2
<1>5. CASE \E slot \in Loops : LoopNext(slot)
  <2>1. frames # << >> /\ Top.slot # "add" /\ UNCHANGED filelist
    BY <1>5 DEF LoopNext, Running, Loops
  <2>2. OtherFrameStep
    BY <1>0, <1>5, OtherFrameSteps
  <2> QED
    BY <2>1, <2>2 DEF OtherFrameStep
<1>6. CASE on_FTPFinished
  <2>1. "on_FTPFinished" \in SlotNames
    BY DEF SlotNames, UploadSlots
  <2> QED
    BY <1>6, <2>1 DEF on_FTPFinished
<1>7. CASE \/ \E slot \in Loops : LoopNull(slot)
           \/ ThreadFinishes \/ ThreadEnds \/ Uncaught \/ Destroy \/ Ended
  BY <1>7 DEF LoopNull, ThreadFinishes, ThreadEnds, Uncaught, Destroy, Ended, vars
<1>8. CASE OtherAnswered
  BY <1>3, <1>4, <1>8 DEF OtherAnswered
<1>9. CASE Returned
  BY <1>5, <1>7, <1>9 DEF Returned
<1> QED
  BY <1>1, <1>2, <1>6, <1>7, <1>8, <1>9 DEF RowsStay

LEMMA RowsNextInv ==
  ASSUME TypeOK, RowsInv, [RowsNext]_allVars
  PROVE  RowsInv'
<1>0. filelist \in Seq(Paths) /\ Len(filelist) \in Nat /\ row \in 0 .. Len(filelist)
      /\ (filelist = << >> <=> Len(filelist) = 0)
  BY DEF TypeOK, RowsInv
<1>1. CASE AddEnds
  <2>1. UNCHANGED filelist /\ row' = Len(filelist)
    BY <1>1 DEF AddEnds, AddReturns, AddDone, AddChosen
  <2>2. CASE row' = row /\ UNCHANGED buttons
    <3>1. UNCHANGED <<row, remove, remove_all>>
      BY <2>2 DEF buttons
    <3>2. filelist # << >> => remove_all
      BY <1>0, <2>1, <2>2 DEF RowsInv
    <3>3. RemoveMatchesRow'
      BY <2>1, <3>1 DEF RowsInv, RemoveMatchesRow
    <3>4. RemoveAllReachable'
      BY <2>1, <3>1, <3>2 DEF RemoveAllReachable
    <3>5. row' \in 0 .. Len(filelist') /\ (row' > 0 => remove_all')
      BY <2>1, <3>1 DEF RowsInv
    <3> QED
      BY <3>3, <3>4, <3>5 DEF RowsInv
  <2>3. CASE on_filelist_currentRowChanged(row', Len(filelist))
    <3>1. /\ remove_all' = (Len(filelist) > 0)
          /\ remove' = (Len(filelist) > 0 /\ row' \in 1 .. Len(filelist))
      BY <2>3 DEF on_filelist_currentRowChanged
    <3>2. row' \in 1 .. Len(filelist') => Len(filelist) > 0
      BY <1>0, <2>1
    <3>3. RemoveMatchesRow'
      BY <2>1, <3>1, <3>2, Zenon DEF RemoveMatchesRow
    <3>4. filelist' # << >> => Len(filelist) > 0
      BY <1>0, <2>1
    <3>5. RemoveAllReachable'
      BY <3>1, <3>4, Zenon DEF RemoveAllReachable
    <3>6. row' \in 0 .. Len(filelist') /\ (row' > 0 => Len(filelist) > 0)
      BY <1>0, <2>1
    <3>7. row' > 0 => remove_all'
      BY <3>1, <3>6, Zenon
    <3> QED
      BY <3>3, <3>5, <3>6, <3>7 DEF RowsInv
  <2> QED
    BY <1>1, <2>2, <2>3 DEF AddEnds
<1>2. CASE RemoveRow
  <2>1. /\ row > 0 /\ filelist' = RemoveAt(filelist, row)
        /\ \E n \in Neighbours(filelist, row) :
             on_filelist_currentRowChanged(n, Len(filelist)) /\ row' = Renumbered(n, row)
    BY <1>2 DEF RemoveRow
  <2>2. PICK n \in Neighbours(filelist, row) :
             on_filelist_currentRowChanged(n, Len(filelist)) /\ row' = Renumbered(n, row)
    BY <2>1
  <2>3. row \in 1 .. Len(filelist)
    BY <1>0, <2>1
  <2>4. Len(filelist') = Len(filelist) - 1
    BY <1>0, <2>1, <2>3, RemoveAtType
  <2>5. /\ row' \in 0 .. Len(filelist')
        /\ n \in 1 .. Len(filelist) <=> row' \in 1 .. Len(filelist')
        /\ Len(filelist) > 0
    <3>1. CASE Len(filelist) = 1
      <4>1. n = 0 /\ row' = 0
        BY <2>2, <2>3, <3>1 DEF Neighbours, Renumbered
      <4> QED
        BY <2>4, <3>1, <4>1
    <3>2. CASE Len(filelist) # 1
      <4>1. n \in {row - 1, row + 1} /\ n \in 1 .. Len(filelist)
        BY <2>2, <3>2 DEF Neighbours
      <4>2. row' = IF n > row THEN n - 1 ELSE n
        BY <2>2 DEF Renumbered
      <4> QED
        BY <1>0, <2>3, <2>4, <4>1, <4>2
    <3> QED
      BY <3>1, <3>2
  <2>6. /\ remove_all' = (Len(filelist) > 0)
        /\ remove' = (Len(filelist) > 0 /\ n \in 1 .. Len(filelist))
    BY <2>2 DEF on_filelist_currentRowChanged
  <2>7. RemoveMatchesRow'
    BY <2>5, <2>6, Zenon DEF RemoveMatchesRow
  <2>8. remove_all'
    BY <2>5, <2>6, Zenon
  <2> QED
    BY <2>5, <2>7, <2>8 DEF RowsInv, RemoveAllReachable
<1>3. CASE RemoveAllRows
  <2>1. filelist' = << >> /\ row' = 0
    BY <1>3 DEF RemoveAllRows, on_remove_all_clicked
  <2>2. ~remove'
    <3>1. 0 \notin 1 .. Len(filelist) /\ 0 \notin 1 .. 1
      BY <1>0
    <3>2. CASE row = 0 /\ UNCHANGED buttons
      <4>1. remove' = remove /\ row = 0
        BY <3>2 DEF buttons
      <4> QED
        BY <3>1, <4>1, Zenon DEF RowsInv, RemoveMatchesRow
    <3>3. CASE on_filelist_currentRowChanged(0, 1)
      BY <3>1, <3>3, Zenon DEF on_filelist_currentRowChanged
    <3> QED
      BY <1>3, <3>2, <3>3 DEF RemoveAllRows
  <2>3. row' \notin 1 .. Len(filelist') /\ row' \in 0 .. Len(filelist') /\ ~(row' > 0)
    BY <2>1
  <2>4. RemoveMatchesRow'
    BY <2>2, <2>3 DEF RemoveMatchesRow
  <2> QED
    BY <2>1, <2>3, <2>4 DEF RowsInv, RemoveAllReachable
<1>4. ASSUME NEW r \in 1 .. Len(filelist), Select(r) PROVE RowsInv'
  <2>1. /\ UNCHANGED filelist /\ row' = r
        /\ remove_all' = (Len(filelist) > 0)
        /\ remove' = (Len(filelist) > 0 /\ r \in 1 .. Len(filelist))
    BY <1>4 DEF Select, on_filelist_currentRowChanged, vars
  <2>2. Len(filelist) > 0 /\ row' \in 1 .. Len(filelist') /\ row' \in 0 .. Len(filelist')
    BY <1>0, <1>4, <2>1
  <2>3. remove_all' /\ remove'
    BY <1>4, <2>1, <2>2, Zenon
  <2> QED
    BY <2>2, <2>3 DEF RowsInv, RemoveMatchesRow, RemoveAllReachable
<1>5. CASE RowsStay
  <2>0. UNCHANGED <<row, remove, remove_all>>
    BY <1>5 DEF RowsStay, rows, buttons
  <2>1. CASE AddNext
    <3>1. InProgress("add")'
      BY <2>1, AddGoesOn
    <3>2. filelist' = filelist \/ \E p : filelist' = Append(filelist, p)
      BY <2>1 DEF AddNext
    <3>3. Len(filelist') \in {Len(filelist), Len(filelist) + 1}
      BY <1>0, <3>2
    <3>4. row \in 1 .. Len(filelist') <=> row \in 1 .. Len(filelist)
      BY <1>0, <3>3
    <3>5. row' \in 0 .. Len(filelist') /\ (row' > 0 => remove_all')
      BY <1>0, <2>0, <3>3 DEF RowsInv
    <3>6. RemoveMatchesRow'
      BY <2>0, <3>4 DEF RowsInv, RemoveMatchesRow
    <3> QED
      BY <3>1, <3>5, <3>6 DEF RowsInv, RemoveAllReachable
  <2>2. CASE ~AddNext
    <3>1. UNCHANGED filelist /\ (InProgress("add") => InProgress("add")')
      BY <1>5, <2>2, ListStays
    <3> QED
      BY <2>0, <3>1 DEF RowsInv, RemoveMatchesRow, RemoveAllReachable
  <2> QED
    BY <2>1, <2>2
<1>6. CASE UNCHANGED allVars
  <2>1. UNCHANGED <<frames, filelist, row, remove, remove_all>>
    BY <1>6 DEF allVars, vars, rows, buttons
  <2> QED
    BY <2>1 DEF RowsInv, RemoveMatchesRow, RemoveAllReachable, InProgress
<1> QED
  BY <1>1, <1>2, <1>3, <1>4, <1>5, <1>6 DEF RowsNext

LEMMA RowsInvariant == RowsSpec => []RowsInv
<1>1. RowsInit => RowsInv
  <2> SUFFICES ASSUME RowsInit PROVE RowsInv
    OBVIOUS
  <2>1. row = 0 /\ remove = FALSE /\ filelist = << >> /\ Len(filelist) = 0
    BY DEF RowsInit, Init
  <2>2. row \in 0 .. Len(filelist) /\ ~(row > 0) /\ row \notin 1 .. Len(filelist)
    BY <2>1
  <2>3. RemoveMatchesRow
    BY <2>1, <2>2 DEF RemoveMatchesRow
  <2> QED
    BY <2>1, <2>2, <2>3 DEF RowsInv, RemoveAllReachable
<1>2. RowsSpec => []TypeOK
  BY RowsImplementWindow, TypeCorrect, PTL
<1>3. TypeOK /\ RowsInv /\ [RowsNext]_allVars => RowsInv'
  BY RowsNextInv
<1> QED
  BY <1>1, <1>2, <1>3, PTL DEF RowsSpec

(* However slots that add are nested, "remove" is enabled exactly when     *)
(* there is a row to remove.                                               *)
THEOREM RemoveFitsRow == RowsSpec => []RemoveMatchesRow
<1>1. RowsInv => RemoveMatchesRow
  BY DEF RowsInv
<1> QED
  BY <1>1, RowsInvariant, PTL

(* What was added can be removed: "remove all" is enabled when no slot     *)
(* adds and there is a file.                                               *)
THEOREM RemoveAllIsReachable == RowsSpec => []RemoveAllReachable
<1>1. RowsInv => RemoveAllReachable
  BY DEF RowsInv
<1> QED
  BY <1>1, RowsInvariant, PTL
===============================================================================
