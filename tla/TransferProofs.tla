---------------------------- MODULE TransferProofs ----------------------------
(***************************************************************************)
(* What module Transfer checks on a few files, for any files, lists, sizes *)
(* and numbers of uploads, and for every interleaving of the window, the   *)
(* worker and other clients.                                               *)
(***************************************************************************)
EXTENDS Transfer, TLAPS

LEMMA ListTypes == Lists \subseteq Seq(Files) /\ Size \in [Files -> Nat] /\ MaxSessions \in Nat
BY TransferAssumption

LEMMA RemoteType == ASSUME NEW f \in Files PROVE Remote[f] \in Names
BY DEF Names

LEMMA WholeType == ASSUME NEW f \in Files PROVE Whole(f) \in Content
BY ListTypes DEF Whole, Content

LEMMA PutType ==
  ASSUME TypeOK, NEW n \in Names, NEW c \in Content, Put(n, c)
  PROVE  store' \in [Names -> Content \cup {Absent}] /\ silent' \subseteq Names
BY DEF TypeOK, Put

LEMMA EmitType ==
  ASSUME TypeOK, i <= Len(fileUpList), NEW v \in Verdicts, Emit(v)
  PROVE  posted' \in Seq(Report \cup {Finished})
<1>1. fileUpList[i] \in Files
  BY DEF TypeOK
<1>2. [file |-> fileUpList[i], verdict |-> v] \in Report
  BY <1>1 DEF Report
<1> QED
  BY <1>2 DEF Emit, TypeOK

(* The steps.  In a whole upload (module Upload) the transfer begins in    *)
(* whatever directory the walk has led to, with whatever that holds.  What *)
(* follows holds there as well.                                            *)
EnterDirectory == TakeOver /\ store' \in [Names -> Content \cup {Absent}]

Step == Next \/ EnterDirectory

LEMMA NextIsStep == [Next]_vars => [Step]_vars
BY DEF Step

LEMMA EnterIsEnter == TypeOK /\ EnterTransfer => EnterDirectory
BY DEF TypeOK, EnterTransfer, EnterDirectory

(* Type correctness, with the fact that makes fileUpList[i] a file and the *)
(* one that makes every other index in range.                              *)
TypeInv == TypeOK /\ (worker \in {"store", "size"} => i <= Len(fileUpList))

LEMMA TypeInit == Init => TypeInv
<1> SUFFICES ASSUME Init PROVE TypeInv
  OBVIOUS
<1>1. store \in [Names -> Content \cup {Absent}]
  BY TransferAssumption DEF Init, Content
<1>2. filelist \in Seq(Files) /\ fileUpList \in Seq(Files) /\ k \in 1 .. Len(filelist) + 1 /\ i \in 1 .. Len(fileUpList) + 1
  BY DEF Init
<1>3. posted \in Seq(Report \cup {Finished}) /\ output \in Seq(Report)
  BY DEF Init
<1>4. sessions \in 0 .. MaxSessions
  BY ListTypes DEF Init
<1> QED
  BY <1>1, <1>2, <1>3, <1>4 DEF Init, TypeInv, TypeOK

(* The steps of the loop that decides what to upload. *)
LEMMA LoopType ==
  ASSUME TypeOK, Asking, Take \/ Skip
  PROVE  fileUpList' \in Seq(Files) /\ k' \in 1 .. Len(filelist) + 1
         /\ Remote[filelist[k]] \in Names /\ Len(fileUpList') >= Len(fileUpList)
<1>1. filelist[k] \in Files
  BY DEF TypeOK, Asking
<1>2. CASE Take
  BY <1>1, <1>2, RemoteType DEF TypeOK, Asking, Take
<1>3. CASE Skip
  BY <1>1, <1>3, RemoteType DEF TypeOK, Asking, Skip
<1> QED
  BY <1>2, <1>3

LEMMA TypeNext == TypeInv /\ [Step]_vars => TypeInv'
<1> SUFFICES ASSUME TypeInv, [Step]_vars PROVE TypeInv'
  OBVIOUS
<1> USE DEF TypeInv, asking, working, consent, history
<1>1. CASE EnterDirectory
  <2>1. filelist' \in Seq(Files) /\ k' \in 1 .. Len(filelist') + 1
    BY <1>1, ListTypes DEF EnterDirectory, TakeOver
  <2>2. fileUpList' \in Seq(Files) /\ i' \in 1 .. Len(fileUpList') + 1
    BY <1>1 DEF EnterDirectory, TakeOver
  <2>3. posted' \in Seq(Report \cup {Finished}) /\ output' \in Seq(Report)
    BY <1>1 DEF EnterDirectory, TakeOver
  <2>4. sessions' \in 0 .. MaxSessions
    BY <1>1, ListTypes DEF EnterDirectory, TakeOver, TypeOK
  <2> QED
    BY <1>1, <2>1, <2>2, <2>3, <2>4 DEF EnterDirectory, TakeOver, TypeOK
<1>2. CASE GetFiles
  <2>1. fileExists' \subseteq Names
    BY <1>2 DEF GetFiles, Present
  <2>2. UNCHANGED <<store, filelist, k, AllYesFlag, fileUpList, working, output, sessions, agreed, silent, cleared>>
        /\ gui' = "ask" /\ raced' = {}
    BY <1>2 DEF GetFiles
  <2>3. whole' \in BOOLEAN /\ spaced' \in BOOLEAN
    BY <1>2, Zenon DEF GetFiles
  <2> QED
    BY <2>1, <2>2, <2>3 DEF TypeOK
<1>3. CASE TakeNew \/ FollowFlag \/ \E all \in BOOLEAN : AnswerYes(all) \/ AnswerNo(all)
  <2>1. /\ Asking /\ (Take \/ Skip)
        /\ UNCHANGED <<store, gui, filelist, fileExists, working, output, sessions, whole, spaced, raced, silent, cleared>>
    BY <1>3 DEF TakeNew, FollowFlag, AnswerYes, AnswerNo, LookUp
  <2>2. agreed' \in {agreed, agreed \cup {Remote[filelist[k]]}} /\ AllYesFlag' \in {-1, 0, 1}
    BY <1>3 DEF TakeNew, FollowFlag, AnswerYes, AnswerNo, TypeOK
  <2>3. /\ fileUpList' \in Seq(Files) /\ k' \in 1 .. Len(filelist) + 1
        /\ Remote[filelist[k]] \in Names /\ Len(fileUpList') >= Len(fileUpList)
    BY <2>1, LoopType
  <2>4. i' \in 1 .. Len(fileUpList') + 1 /\ (worker' \in {"store", "size"} => i' <= Len(fileUpList'))
    BY <2>1, <2>3 DEF TypeOK
  <2> QED
    BY <2>1, <2>2, <2>3, <2>4 DEF TypeOK
<1>4. CASE AnswerCancel \/ CloseBox \/ Uncaught \/ LeaveRun
  <2>1. gui' \in {gui, "cancelled", "idle", "dead"} /\ worker' \in {worker, "ended"}
        /\ UNCHANGED <<store, asking, i, posted, output, sessions, history>>
    BY <1>4 DEF AnswerCancel, CloseBox, Uncaught, LeaveRun
  <2> QED
    BY <2>1 DEF TypeOK
<1>5. CASE Start
  BY <1>5 DEF Start, TypeOK
<1>6. CASE OpenFile
  <2>1. i <= Len(fileUpList) /\ i' \in {i, i + 1} /\ worker' \in {"open", "store"}
    BY <1>6 DEF OpenFile, NextFile
  <2>2. worker' = "store" => i' = i
    BY <1>6 DEF OpenFile
  <2>3. posted' \in Seq(Report \cup {Finished})
    <3>1. posted' = posted \/ Emit("unreadable")
      BY <1>6 DEF OpenFile
    <3> QED
      BY <2>1, <3>1, EmitType DEF Verdicts, TypeInv, TypeOK
  <2>4. UNCHANGED <<store, gui, asking, output, sessions, history>>
    BY <1>6 DEF OpenFile
  <2> QED
    BY <2>1, <2>2, <2>3, <2>4 DEF TypeOK
<1>7. CASE StoreFile
  <2> DEFINE f == fileUpList[i]
  <2>1. i <= Len(fileUpList) /\ f \in Files /\ Size[f] \in Nat /\ Remote[f] \in Names
    BY <1>7, ListTypes, RemoteType DEF StoreFile, TypeOK
  <2>2. \A s \in 0 .. Size[f] : [of |-> f, size |-> s] \in Content
    BY <2>1 DEF Content
  <2>3. UNCHANGED <<store, silent>> \/ \E c \in Content : Put(Remote[f], c)
    <3>1. \/ UNCHANGED <<store, silent>>
          \/ Put(Remote[f], Whole(f))
          \/ \E s \in 0 .. Size[f] - 1 : Put(Remote[f], [of |-> f, size |-> s])
          \/ \E s \in 0 .. Size[f] : Put(Remote[f], [of |-> f, size |-> s])
      BY <1>7 DEF StoreFile
    <3>2. \A s \in 0 .. Size[f] - 1 : s \in 0 .. Size[f]
      BY <2>1
    <3>3. CASE Put(Remote[f], Whole(f))
      BY <2>1, <3>3, WholeType
    <3> QED
      BY <2>2, <3>1, <3>2, <3>3
  <2>4. store' \in [Names -> Content \cup {Absent}] /\ silent' \subseteq Names
    BY <2>1, <2>3, PutType DEF TypeOK
  <2>5. \/ worker' = "size" /\ UNCHANGED <<i, posted>>
        \/ worker' = "open" /\ i' = i + 1 /\ Emit("error")
    BY <1>7 DEF StoreFile, NextFile
  <2>6. posted' \in Seq(Report \cup {Finished})
    BY <2>1, <2>5, EmitType DEF Verdicts, TypeOK
  <2>7. UNCHANGED <<gui, asking, output, sessions, consent, raced, cleared>>
    BY <1>7 DEF StoreFile
  <2>8. i' \in 1 .. Len(fileUpList) + 1 /\ worker' \in {"size", "open"}
        /\ (worker' = "size" => i' <= Len(fileUpList))
    BY <2>1, <2>5 DEF TypeOK
  <2> QED
    BY <2>4, <2>6, <2>7, <2>8 DEF TypeOK
<1>8. CASE CompareSize
  <2>1. i <= Len(fileUpList) /\ i' = i + 1 /\ worker' = "open"
    BY <1>8 DEF CompareSize, NextFile
  <2>2. Emit("uploaded") \/ Emit("mismatch")
    BY <1>8 DEF CompareSize
  <2>3. posted' \in Seq(Report \cup {Finished})
    BY <2>1, <2>2, EmitType DEF Verdicts
  <2>4. UNCHANGED <<store, gui, asking, output, sessions, history>>
    BY <1>8 DEF CompareSize
  <2> QED
    BY <2>1, <2>3, <2>4 DEF TypeOK
<1>9. CASE EmitFinished
  BY <1>9 DEF EmitFinished, TypeOK
<1>10. CASE on_FTPMessage
  <2>1. Head(posted) \in Report /\ Tail(posted) \in Seq(Report \cup {Finished})
    BY <1>10 DEF on_FTPMessage, TypeOK
  <2> QED
    BY <1>10, <2>1 DEF on_FTPMessage, TypeOK
<1>11. CASE on_FTPFinished
  BY <1>11 DEF on_FTPFinished, TypeOK
<1>12. CASE ClickAdd
  BY <1>12 DEF ClickAdd, TypeOK
<1>13. CASE \E n \in OtherNames, s \in OtherSizes : OtherPut(n, s)
  <2>1. PICK n \in OtherNames, s \in OtherSizes : OtherPut(n, s)
    BY <1>13
  <2>2. n \in Names /\ [of |-> Other, size |-> s] \in Content
    BY TransferAssumption DEF Names, Content
  <2> QED
    BY <2>1, <2>2 DEF OtherPut, TypeOK
<1>14. CASE UNCHANGED vars
  BY <1>14 DEF vars, TypeOK
<1> QED
  BY <1>1, <1>2, <1>3, <1>4, <1>5, <1>6, <1>7, <1>8, <1>9, <1>10, <1>11, <1>12, <1>13, <1>14, EnterIsEnter
     DEF Step, Next, Window, Worker, TypeInv

(* The invariant every other proof uses. *)
LEMMA TypeInvariant == Spec => []TypeInv
BY TypeInit, TypeNext, NextIsStep, PTL DEF Spec

(* Every state of every upload is well typed. *)
THEOREM TypeCorrect == Spec => []TypeOK
<1>1. TypeInv => TypeOK
  BY DEF TypeInv
<1> QED
  BY <1>1, TypeInvariant, PTL
-----------------------------------------------------------------------------
(* Reports.  Where the worker is determines how many reports it has        *)
(* emitted; those received and those that wait are that many, in the order *)
(* of fileUpList, and the signal that it has finished is the last to wait. *)
Phases ==
  /\ gui \in {"list", "ask"} => worker = "none" /\ i = 1 /\ posted = << >> /\ output = << >>
  /\ gui = "waiting" => worker # "none"
  /\ worker \in {"open", "store", "size"} => gui \in {"waiting", "dead"}
  /\ worker \in {"emitted", "ended"} => i = Len(fileUpList) + 1

FinishedLast ==
  /\ \A j \in 1 .. Len(posted) :
       posted[j] = Finished => j = Len(posted) /\ worker \in {"emitted", "ended"}
  /\ gui = "waiting" /\ worker \in {"emitted", "ended"} =>
       posted # << >> /\ posted[Len(posted)] = Finished

Counted ==
  /\ gui = "waiting" =>
       Len(output) + Len(posted) = IF worker \in {"emitted", "ended"} THEN i ELSE i - 1
  /\ gui = "box" => i = Len(fileUpList) + 1 /\ Len(output) = i - 1

InOrder ==
  /\ \A j \in 1 .. Len(output) : output[j].file = fileUpList[j]
  /\ \A j \in 1 .. Len(posted) :
       posted[j] # Finished => posted[j].file = fileUpList[Len(output) + j]

ReportInv ==
  /\ Phases
  /\ FinishedLast
  /\ ~cleared /\ gui \in {"ask", "waiting", "box"} => Counted /\ InOrder

LEMMA ReportInit == Init => ReportInv
BY DEF Init, ReportInv, Phases, FinishedLast

LEMMA Lengths == ASSUME TypeInv PROVE Len(output) \in Nat /\ Len(fileUpList) \in Nat
BY DEF TypeInv, TypeOK

(* A step that emits the report on the file at i. *)
LEMMA ReportEmit ==
  ASSUME TypeInv, ReportInv, worker \in {"open", "store", "size"}, i <= Len(fileUpList),
         NEW v \in Verdicts, Emit(v), i' = i + 1, worker' = "open", gui # "dead",
         UNCHANGED <<gui, fileUpList, output, cleared>>
  PROVE  ReportInv'
<1> DEFINE r == [file |-> fileUpList[i], verdict |-> v]
<1>1. gui = "waiting"
  BY DEF ReportInv, Phases
<1>2. r # Finished /\ r.file = fileUpList[i]
  BY TransferAssumption DEF Finished, TypeInv, TypeOK
<1>3. posted \in Seq(Report \cup {Finished}) /\ output \in Seq(Report) /\ i \in Nat
  BY DEF TypeInv, TypeOK
<1>4. posted' = Append(posted, r)
  BY DEF Emit
<1>5. Len(posted') = Len(posted) + 1 /\ posted'[Len(posted) + 1] = r
      /\ \A j \in 1 .. Len(posted) : posted'[j] = posted[j]
  BY <1>3, <1>4
<1>6. Phases'
  BY <1>1 DEF ReportInv, Phases
<1>7. \A j \in 1 .. Len(posted) : posted[j] # Finished
  BY DEF ReportInv, FinishedLast
<1>8. \A j \in 1 .. Len(posted') : posted'[j] # Finished
  BY <1>2, <1>3, <1>5, <1>7
<1>9. FinishedLast'
  BY <1>8 DEF FinishedLast
<1>10. ~cleared => Counted' /\ InOrder'
  <2> SUFFICES ASSUME ~cleared PROVE Counted' /\ InOrder'
    OBVIOUS
  <2>1. Len(output) + Len(posted) = i - 1
    BY <1>1 DEF ReportInv, Counted
  <2>2. Counted'
    BY <1>1, <1>3, <1>5, <2>1 DEF Counted
  <2>3. InOrder'
    BY <1>1, <1>2, <1>3, <1>5, <1>7, <2>1 DEF ReportInv, InOrder
  <2> QED
    BY <2>2, <2>3
<1> QED
  BY <1>6, <1>9, <1>10 DEF ReportInv

LEMMA ReportKept ==
  ASSUME ReportInv, UNCHANGED <<worker, i, posted, output, fileUpList, cleared>>,
         gui' = gui \/ gui' \in {"dead", "cancelled", "idle"},
         worker \in {"open", "store", "size"} => gui' \in {"waiting", "dead"}
  PROVE  ReportInv'
BY DEF ReportInv, Phases, FinishedLast, Counted, InOrder

LEMMA ReportNext == TypeInv /\ ReportInv /\ [Step]_vars => ReportInv'
<1> SUFFICES ASSUME TypeInv, ReportInv, [Step]_vars PROVE ReportInv'
  OBVIOUS
<1> USE DEF asking, working, consent, history
<1>1. CASE EnterDirectory
  BY <1>1 DEF EnterDirectory, TakeOver, ReportInv, Phases, FinishedLast
<1>2. CASE GetFiles
  BY <1>2 DEF GetFiles, ReportInv, Phases, FinishedLast, Counted, InOrder
<1>3. CASE TakeNew \/ FollowFlag \/ \E all \in BOOLEAN : AnswerYes(all) \/ AnswerNo(all)
  <2>1. Asking /\ UNCHANGED <<gui, worker, i, posted, output, cleared>>
    BY <1>3 DEF TakeNew, FollowFlag, AnswerYes, AnswerNo, LookUp
  <2> QED
    BY <2>1 DEF Asking, ReportInv, Phases, FinishedLast, Counted, InOrder
<1>4. CASE AnswerCancel \/ CloseBox \/ Uncaught
  BY <1>4, ReportKept DEF AnswerCancel, CloseBox, Uncaught, Asking, ReportInv, Phases
<1>5. CASE Start
  BY <1>5 DEF Start, ReportInv, Phases, FinishedLast, Counted, InOrder
<1>6. CASE OpenFile
  <2>1. CASE worker' = "store" /\ UNCHANGED <<i, posted>>
    BY <1>6, <2>1 DEF OpenFile, ReportInv, Phases, FinishedLast, Counted, InOrder
  <2>2. CASE Emit("unreadable") /\ i' = i + 1 /\ worker' = "open"
    BY <1>6, <2>2, ReportEmit DEF OpenFile, Verdicts, Alive
  <2> QED
    BY <1>6, <2>1, <2>2 DEF OpenFile, NextFile
<1>7. CASE StoreFile
  <2>1. CASE worker' = "size" /\ UNCHANGED <<i, posted>>
    BY <1>7, <2>1 DEF StoreFile, ReportInv, Phases, FinishedLast, Counted, InOrder
  <2>2. CASE Emit("error") /\ i' = i + 1 /\ worker' = "open"
    BY <1>7, <2>2, ReportEmit DEF StoreFile, Verdicts, TypeInv, Alive
  <2> QED
    BY <1>7, <2>1, <2>2 DEF StoreFile, NextFile
<1>8. CASE CompareSize
  <2>1. Emit("uploaded") \/ Emit("mismatch")
    BY <1>8 DEF CompareSize
  <2> QED
    BY <1>8, <2>1, ReportEmit DEF CompareSize, NextFile, Verdicts, TypeInv, Alive
<1>9. CASE EmitFinished
  <2>1. /\ posted \in Seq(Report \cup {Finished}) /\ output \in Seq(Report)
        /\ i \in 1 .. Len(fileUpList) + 1 /\ fileUpList \in Seq(Files)
    BY DEF TypeInv, TypeOK
  <2>2. /\ worker = "open" /\ worker' = "emitted" /\ i > Len(fileUpList)
        /\ UNCHANGED <<gui, i, output, fileUpList, cleared>>
    BY <1>9 DEF EmitFinished
  <2>3. Len(posted') = Len(posted) + 1 /\ posted'[Len(posted) + 1] = Finished
        /\ \A j \in 1 .. Len(posted) : posted'[j] = posted[j]
    BY <1>9, <2>1 DEF EmitFinished
  <2>4. \A j \in 1 .. Len(posted) : posted[j] # Finished
    BY <2>2 DEF ReportInv, FinishedLast
  <2>5. Phases'
    BY <2>1, <2>2 DEF ReportInv, Phases
  <2>6. FinishedLast'
    <3>1. \A j \in 1 .. Len(posted') : posted'[j] = Finished => j = Len(posted')
      BY <2>1, <2>3, <2>4
    <3>2. posted' # << >> /\ posted'[Len(posted')] = Finished
      BY <2>1, <2>3
    <3> QED
      BY <2>2, <3>1, <3>2 DEF FinishedLast
  <2>7. gui \in {"waiting", "dead"}
    BY <2>2 DEF ReportInv, Phases
  <2>8. ~cleared /\ gui = "waiting" => Counted'
    BY <2>1, <2>2, <2>3 DEF ReportInv, Counted
  <2>9. ~cleared /\ gui = "waiting" => InOrder'
    <3> SUFFICES ASSUME ~cleared, gui = "waiting", NEW j \in 1 .. Len(posted'), posted'[j] # Finished
                 PROVE  posted'[j].file = fileUpList[Len(output) + j]
      BY <2>2 DEF ReportInv, InOrder
    <3>1. j \in 1 .. Len(posted)
      BY <2>1, <2>3
    <3> QED
      BY <2>3, <3>1 DEF ReportInv, InOrder
  <2> QED
    BY <2>2, <2>5, <2>6, <2>7, <2>8, <2>9 DEF ReportInv
<1>10. CASE LeaveRun
  BY <1>10 DEF LeaveRun, ReportInv, Phases, FinishedLast, Counted, InOrder
<1>11. CASE on_FTPMessage
  <2>1. /\ posted \in Seq(Report \cup {Finished}) /\ posted # << >> /\ output \in Seq(Report)
        /\ posted[1] # Finished /\ output' = Append(output, posted[1]) /\ posted' = Tail(posted)
        /\ gui = "waiting" /\ UNCHANGED <<gui, worker, i, fileUpList, cleared>>
    BY <1>11 DEF on_FTPMessage, TypeInv, TypeOK
  <2>2. /\ Len(posted') = Len(posted) - 1 /\ \A j \in 1 .. Len(posted') : posted'[j] = posted[j + 1]
        /\ Len(output') = Len(output) + 1 /\ output'[Len(output) + 1] = posted[1]
        /\ \A j \in 1 .. Len(output) : output'[j] = output[j]
    BY <2>1
  <2>3. Phases'
    BY <2>1 DEF ReportInv, Phases
  <2>4. FinishedLast'
    <3>1. ASSUME NEW j \in 1 .. Len(posted'), posted'[j] = Finished
          PROVE  j = Len(posted') /\ worker' \in {"emitted", "ended"}
      <4>1. Len(posted) \in Nat /\ j + 1 \in 1 .. Len(posted) /\ posted[j + 1] = Finished
        BY <2>1, <2>2, <3>1
      <4>2. j + 1 = Len(posted) /\ worker \in {"emitted", "ended"}
        BY <4>1 DEF ReportInv, FinishedLast
      <4>3. j \in Nat /\ Len(posted') = Len(posted) - 1
        BY <2>1, <2>2
      <4>4. j = Len(posted')
        BY <4>1, <4>2, <4>3
      <4>5. worker' = worker
        BY <2>1
      <4> QED
        BY <4>2, <4>4, <4>5
    <3>2. ASSUME worker' \in {"emitted", "ended"} PROVE posted' # << >> /\ posted'[Len(posted')] = Finished
      <4>1. Len(posted) \in Nat /\ posted[Len(posted)] = Finished
        BY <2>1, <3>2 DEF ReportInv, FinishedLast
      <4>2. Len(posted) > 1
        BY <2>1, <4>1
      <4> QED
        BY <2>1, <2>2, <4>1, <4>2
    <3> QED
      BY <3>1, <3>2 DEF FinishedLast
  <2>5. ~cleared => Counted'
    BY <2>1, <2>2 DEF ReportInv, Counted
  <2>6. ~cleared => InOrder'
    <3> SUFFICES ASSUME InOrder PROVE InOrder'
      BY <2>1 DEF ReportInv
    <3>1. Len(output) \in Nat /\ Len(posted) \in Nat /\ Len(posted) >= 1
      BY <2>1
    <3>2. posted[1].file = fileUpList[Len(output) + 1]
      BY <2>1, <3>1 DEF InOrder
    <3>3. ASSUME NEW j \in 1 .. Len(output') PROVE output'[j].file = fileUpList[j]
      <4>1. j \in 1 .. Len(output) \/ j = Len(output) + 1
        BY <2>2, <3>1
      <4> QED
        BY <2>2, <3>2, <4>1 DEF InOrder
    <3>4. ASSUME NEW j \in 1 .. Len(posted'), posted'[j] # Finished
          PROVE  posted'[j].file = fileUpList[Len(output') + j]
      <4>1. j + 1 \in 1 .. Len(posted) /\ Len(output) + (j + 1) = Len(output') + j
        BY <2>2, <3>1
      <4>2. posted[j + 1].file = fileUpList[Len(output) + (j + 1)]
        BY <2>2, <3>4, <4>1 DEF InOrder
      <4> QED
        BY <2>2, <4>1, <4>2
    <3> QED
      BY <2>1, <3>3, <3>4 DEF InOrder
  <2> QED
    BY <2>1, <2>3, <2>4, <2>5, <2>6 DEF ReportInv
<1>12. CASE on_FTPFinished
  <2>1. /\ posted \in Seq(Report \cup {Finished}) /\ posted # << >> /\ output \in Seq(Report)
        /\ posted[1] = Finished /\ posted' = Tail(posted) /\ gui = "waiting" /\ gui' \in {"dead", "box"}
        /\ UNCHANGED <<worker, i, output, fileUpList, cleared>>
    BY <1>12 DEF on_FTPFinished, TypeInv, TypeOK
  <2>2. worker \in {"emitted", "ended"} /\ Len(posted) = 1 /\ i = Len(fileUpList) + 1
    <3>1. 1 \in 1 .. Len(posted)
      BY <2>1
    <3>2. worker \in {"emitted", "ended"} /\ 1 = Len(posted)
      BY <2>1, <3>1 DEF ReportInv, FinishedLast
    <3> QED
      BY <3>2 DEF ReportInv, Phases
  <2>3. posted' = << >> /\ Len(posted') = 0
    BY <2>1, <2>2
  <2>4. Phases' /\ FinishedLast'
    <3>1. 1 .. Len(posted') = {}
      BY <2>3
    <3>2. FinishedLast'
      BY <2>1, <3>1 DEF FinishedLast
    <3>3. Phases'
      BY <2>1, <2>2 DEF Phases
    <3> QED
      BY <3>2, <3>3
  <2>5. ~cleared => Counted' /\ InOrder'
    <3> SUFFICES ASSUME ~cleared PROVE Counted' /\ InOrder'
      OBVIOUS
    <3>1. Counted /\ InOrder
      BY <2>1 DEF ReportInv
    <3>2. Len(output) + 1 = i
      BY <2>1, <2>2, <3>1 DEF Counted
    <3>3. Len(output) = i - 1
      BY <2>2, <3>2, Lengths
    <3>4. Counted'
      BY <2>1, <2>2, <3>3 DEF Counted
    <3>5. 1 .. Len(posted') = {}
      BY <2>3
    <3>6. InOrder'
      BY <2>1, <3>1, <3>5 DEF InOrder
    <3> QED
      BY <3>4, <3>6
  <2> QED
    BY <2>1, <2>4, <2>5 DEF ReportInv
<1>13. CASE ClickAdd
  BY <1>13 DEF ClickAdd, ReportInv, Phases, FinishedLast
<1>14. CASE (\E n \in OtherNames, s \in OtherSizes : OtherPut(n, s)) \/ UNCHANGED vars
  BY <1>14, ReportKept DEF OtherPut, ReportInv, Phases, vars
<1> QED
  <2>1. CASE EnterTransfer \/ EnterDirectory \/ Window
    BY <2>1, EnterIsEnter, <1>1, <1>2, <1>3, <1>4, <1>5, <1>11, <1>12 DEF Window, TypeInv
  <2>2. CASE Worker
    BY <2>2, <1>6, <1>7, <1>8, <1>9, <1>10 DEF Worker
  <2> QED
    BY <2>1, <2>2, <1>4, <1>13, <1>14 DEF Step, Next

(* Where the box is shown, as many reports have come as there are files. *)
LEMMA ReportsReceived == TypeInv /\ ReportInv => ReportsComplete
<1> SUFFICES ASSUME TypeInv, ReportInv, gui = "box", ~cleared
             PROVE  [j \in 1 .. Len(output) |-> output[j].file] = fileUpList
  BY DEF ReportsComplete
<1>1. fileUpList \in Seq(Files) /\ fileUpList = [j \in 1 .. Len(fileUpList) |-> fileUpList[j]]
  BY DEF TypeInv, TypeOK
<1>2. Counted /\ InOrder
  BY DEF ReportInv
<1>3. Len(output) = Len(fileUpList)
  BY <1>1, <1>2 DEF Counted
<1>4. \A j \in 1 .. Len(output) : output[j].file = fileUpList[j]
  BY <1>2 DEF InOrder
<1> QED
  BY <1>1, <1>3, <1>4

(* The box that says the upload is complete follows a report on every file *)
(* of the list, in its order, unless the student cleared the output.       *)
THEOREM ReportsAreComplete == Spec => []ReportsComplete
BY ReportsReceived, TypeInvariant, ReportInit, ReportNext, NextIsStep, PTL DEF Spec
-----------------------------------------------------------------------------
(* Overwriting.  While the student is asked nothing is overwritten, and    *)
(* the names that are left to overwrite without an answer are those that   *)
(* the listing did not show.                                               *)

(* The worker is past file j of fileUpList. *)
Passed(j) == j < i \/ (j = i /\ worker = "size")

(* Every name in use was listed, or came after the listing. *)
Known ==
  \A n \in Present :
    n \in fileExists \cup raced \/ \E j \in 1 .. Len(fileUpList) : Passed(j) /\ Remote[fileUpList[j]] = n

SilentInv ==
  /\ NoSilentOverwrite
  /\ gui \in {"list", "ask"} => silent = {} /\ worker = "none" /\ i = 1
  /\ gui = "list" => fileUpList = << >>
  /\ worker \in {"open", "store", "size"} => gui \in {"waiting", "dead"}
  /\ gui \in {"ask", "waiting"} =>
       \A j \in 1 .. Len(fileUpList) :
         Remote[fileUpList[j]] \in fileExists => Remote[fileUpList[j]] \in agreed
  /\ gui \in {"ask", "waiting"} /\ whole /\ ~spaced => Known

LEMMA SilentInit == Init => SilentInv
BY DEF Init, SilentInv, NoSilentOverwrite

LEMMA SilentLoop ==
  ASSUME TypeInv, SilentInv, LookUp,
         \/ Skip /\ agreed' = agreed
         \/ Take /\ (Remote[filelist[k]] \in fileExists => agreed' = agreed \cup {Remote[filelist[k]]})
                 /\ agreed \subseteq agreed'
  PROVE  SilentInv'
<1> USE DEF working
<1>1. /\ gui = "ask" /\ silent = {} /\ worker = "none" /\ i = 1
      /\ UNCHANGED <<store, gui, fileExists, worker, i, silent, raced, whole, spaced>>
  BY DEF LookUp, Asking, SilentInv
<1>2. \A j \in 1 .. Len(fileUpList') :
        Remote[fileUpList'[j]] \in fileExists => Remote[fileUpList'[j]] \in agreed'
  <2>1. filelist[k] \in Files /\ fileUpList \in Seq(Files)
    BY DEF LookUp, Asking, TypeInv, TypeOK
  <2>2. CASE Skip /\ agreed' = agreed
    BY <1>1, <2>2 DEF SilentInv, Skip
  <2>3. CASE /\ Take /\ (Remote[filelist[k]] \in fileExists => agreed' = agreed \cup {Remote[filelist[k]]})
             /\ agreed \subseteq agreed'
    <3>1. /\ Len(fileUpList') = Len(fileUpList) + 1 /\ fileUpList'[Len(fileUpList) + 1] = filelist[k]
          /\ \A j \in 1 .. Len(fileUpList) : fileUpList'[j] = fileUpList[j]
      BY <2>1, <2>3 DEF Take
    <3> QED
      BY <1>1, <2>1, <2>3, <3>1 DEF SilentInv
  <2> QED
    BY <2>2, <2>3
<1>3. whole /\ ~spaced => Known'
  <2>1. ASSUME whole, ~spaced, NEW n \in Present' PROVE n \in fileExists \cup raced
    BY <1>1, <2>1 DEF SilentInv, Known, Passed, Present
  <2> QED
    BY <1>1, <2>1 DEF Known
<1>4. NoSilentOverwrite'
  BY <1>1 DEF NoSilentOverwrite
<1> QED
  BY <1>1, <1>2, <1>3, <1>4 DEF SilentInv

(* A step that leaves the store alone and moves the worker only forward. *)
LEMMA SilentKept ==
  ASSUME TypeInv, SilentInv,
         UNCHANGED <<store, fileExists, fileUpList, silent, raced, agreed, whole, spaced>>,
         gui' = gui \/ gui' \notin {"list", "ask", "waiting"},
         \A j \in 1 .. Len(fileUpList) : Passed(j) => Passed(j)',
         gui \in {"list", "ask"} => UNCHANGED <<worker, i>>,
         worker' \in {"open", "store", "size"} => gui' \in {"waiting", "dead"}
  PROVE  SilentInv'
<1>1. NoSilentOverwrite'
  BY DEF SilentInv, NoSilentOverwrite, Shared
<1>2. Known => Known'
  BY DEF Known, Present
<1> QED
  BY <1>1, <1>2 DEF SilentInv

(* The step that matters: STOR of the file at i. *)
LEMMA SilentPut ==
  ASSUME TypeInv, SilentInv, worker = "store", gui = "waiting",
         NEW c, Put(Remote[fileUpList[i]], c),
         UNCHANGED <<gui, fileExists, fileUpList, raced, agreed, whole, spaced>>,
         \/ worker' = "size" /\ i' = i
         \/ worker' = "open" /\ i' = i + 1
  PROVE  SilentInv'
<1> DEFINE n == Remote[fileUpList[i]]
<1>1. i \in 1 .. Len(fileUpList) /\ fileUpList[i] \in Files /\ n \in Names
  BY RemoteType DEF TypeInv, TypeOK
<1>2. \A j \in 1 .. Len(fileUpList) : Passed(j) \/ j = i => Passed(j)'
  BY <1>1 DEF Passed
<1>3. Present' \subseteq Present \cup {n}
  BY DEF Present, Put, TypeInv, TypeOK
<1>4. whole /\ ~spaced => Known'
  BY <1>1, <1>2, <1>3 DEF SilentInv, Known
<1>5. store[n] # Absent /\ n \notin agreed => ~whole \/ spaced \/ n \in raced \/ Shared(n)
  <2> SUFFICES ASSUME store[n] # Absent, n \notin agreed, whole, ~spaced, n \notin raced
               PROVE  Shared(n)
    OBVIOUS
  <2>1. n \notin fileExists
    BY <1>1 DEF SilentInv
  <2>2. PICK j \in 1 .. Len(fileUpList) : Passed(j) /\ Remote[fileUpList[j]] = n
    BY <1>1, <2>1 DEF SilentInv, Known, Present
  <2>3. j # i
    BY <2>2 DEF Passed, TypeInv, TypeOK
  <2> QED
    BY <1>1, <2>2, <2>3 DEF Shared
<1>6. \A m \in silent' : ~whole \/ spaced \/ m \in raced \/ Shared(m)
  BY <1>5 DEF SilentInv, NoSilentOverwrite, Put
<1>7. NoSilentOverwrite'
  BY <1>6 DEF NoSilentOverwrite, Shared
<1> QED
  BY <1>4, <1>7 DEF SilentInv

LEMMA SilentNext == TypeInv /\ ReportInv /\ SilentInv /\ [Step]_vars => SilentInv'
<1> SUFFICES ASSUME TypeInv, ReportInv, SilentInv, [Step]_vars PROVE SilentInv'
  OBVIOUS
<1> USE DEF asking, working, consent, history
<1>1. CASE EnterDirectory
  BY <1>1 DEF EnterDirectory, TakeOver, SilentInv, NoSilentOverwrite
<1>2. CASE GetFiles
  <2>1. /\ UNCHANGED <<store, fileUpList, worker, i, silent, agreed>> /\ gui = "list" /\ gui' = "ask"
        /\ whole' /\ ~spaced' => fileExists' = Present
    BY <1>2 DEF GetFiles
  <2>2. silent = {} /\ fileUpList = << >> /\ worker = "none" /\ i = 1
    BY <2>1 DEF SilentInv
  <2>3. whole' /\ ~spaced' => Known'
    BY <2>1 DEF Known, Present
  <2>4. NoSilentOverwrite'
    BY <2>1, <2>2 DEF NoSilentOverwrite
  <2> QED
    BY <2>1, <2>2, <2>3, <2>4 DEF SilentInv
<1>3. CASE TakeNew \/ FollowFlag \/ \E all \in BOOLEAN : AnswerYes(all) \/ AnswerNo(all)
  <2>1. LookUp
    BY <1>3 DEF TakeNew, FollowFlag, AnswerYes, AnswerNo
  <2>2. \/ Skip /\ agreed' = agreed
        \/ Take /\ (Remote[filelist[k]] \in fileExists => agreed' = agreed \cup {Remote[filelist[k]]})
                /\ agreed \subseteq agreed'
    BY <1>3 DEF TakeNew, FollowFlag, AnswerYes, AnswerNo
  <2> QED
    BY <2>1, <2>2, SilentLoop
<1>4. CASE AnswerCancel \/ CloseBox
  BY <1>4, SilentKept DEF AnswerCancel, CloseBox, Asking, SilentInv, Passed
<1>5. CASE Start
  <2>1. /\ UNCHANGED <<store, fileExists, fileUpList, silent, raced, agreed, whole, spaced, i>>
        /\ gui = "ask" /\ gui' = "waiting" /\ worker' = "open"
    BY <1>5 DEF Start
  <2>2. Known => Known'
    BY <2>1 DEF Known, Present, Passed, SilentInv
  <2>3. NoSilentOverwrite'
    BY <2>1 DEF SilentInv, NoSilentOverwrite
  <2> QED
    BY <2>1, <2>2, <2>3 DEF SilentInv
<1>6. CASE Uncaught \/ ClickAdd
  BY <1>6, SilentKept DEF Uncaught, ClickAdd, SilentInv, Passed
<1>7. CASE OpenFile
  BY <1>7, SilentKept DEF OpenFile, NextFile, SilentInv, Passed, TypeInv, TypeOK, Alive
<1>8. CASE StoreFile
  <2>1. /\ worker = "store" /\ gui = "waiting"
        /\ UNCHANGED <<gui, fileExists, fileUpList, raced, agreed, whole, spaced>>
        /\ \/ worker' = "size" /\ i' = i
           \/ worker' = "open" /\ i' = i + 1
    BY <1>8 DEF StoreFile, NextFile, Alive, SilentInv
  <2>2. CASE UNCHANGED <<store, silent>>
    BY <2>1, <2>2, SilentKept DEF Passed, TypeInv, TypeOK
  <2>3. CASE \E c : Put(Remote[fileUpList[i]], c)
    BY <2>1, <2>3, SilentPut
  <2> QED
    BY <1>8, <2>2, <2>3 DEF StoreFile
<1>9. CASE CompareSize
  BY <1>9, SilentKept DEF CompareSize, NextFile, SilentInv, Passed, TypeInv, TypeOK, Alive
<1>10. CASE EmitFinished \/ LeaveRun
  BY <1>10, SilentKept DEF EmitFinished, LeaveRun, SilentInv, Passed, TypeInv, TypeOK, Alive
<1>11. CASE on_FTPMessage
  BY <1>11, SilentKept DEF on_FTPMessage, SilentInv, Passed
<1>12. CASE on_FTPFinished
  <2>1. worker \notin {"open", "store", "size"}
    BY <1>12 DEF on_FTPFinished, ReportInv, FinishedLast, TypeInv, TypeOK
  <2> QED
    BY <1>12, <2>1, SilentKept DEF on_FTPFinished, SilentInv, Passed
<1>13. CASE \E n \in OtherNames, s \in OtherSizes : OtherPut(n, s)
  <2>1. PICK n \in OtherNames, s \in OtherSizes : OtherPut(n, s)
    BY <1>13
  <2>2. /\ UNCHANGED <<gui, fileExists, fileUpList, worker, i, silent, agreed, whole, spaced>>
        /\ raced' = raced \cup {n} /\ Present' \subseteq Present \cup {n}
    BY <2>1 DEF OtherPut, Present, TypeInv, TypeOK
  <2>3. Known => Known'
    BY <2>2 DEF Known, Passed
  <2>4. NoSilentOverwrite'
    BY <2>2 DEF SilentInv, NoSilentOverwrite, Shared
  <2> QED
    BY <2>2, <2>3, <2>4 DEF SilentInv
<1>14. CASE UNCHANGED vars
  BY <1>14, SilentKept DEF vars, SilentInv, Passed
<1> QED
  BY <1>1, <1>2, <1>3, <1>4, <1>5, <1>6, <1>7, <1>8, <1>9, <1>10, <1>11, <1>12, <1>13, <1>14, EnterIsEnter
     DEF Step, Next, Window, Worker, TypeInv

(* Only a listing cut short, a blank in a listed name, another client or   *)
(* another file of the same upload can make the program overwrite a file   *)
(* without asking.                                                         *)
THEOREM NothingOverwrittenSilently == Spec => []NoSilentOverwrite
<1>1. SilentInv => NoSilentOverwrite
  BY DEF SilentInv
<1> QED
  BY <1>1, TypeInvariant, ReportInit, ReportNext, SilentInit, SilentNext, NextIsStep, PTL DEF Spec
-----------------------------------------------------------------------------
(* Truth of the report "uploaded".  It is given only on a file the worker  *)
(* has just stored, and the worker touches a name once unless two files    *)
(* share it.                                                               *)
UploadInv ==
  /\ UploadedIsThere
  /\ \A f \in Reported("uploaded") : \E j \in 1 .. Len(fileUpList) : j < i /\ fileUpList[j] = f
  /\ worker = "size" =>
       LET f == fileUpList[i]
       IN  Remote[f] \in raced \/ \E s \in 0 .. Size[f] : store[Remote[f]] = [of |-> f, size |-> s]

(* A name with a blank is in the directory, and stays there. *)
Spoilt == Present \cap Spaced # {}

LEMMA UploadInit == Init => UploadInv
BY DEF Init, UploadInv, UploadedIsThere, Reported

LEMMA ReportedEmit ==
  ASSUME TypeInv, NEW v \in Verdicts, Emit(v), output' = output, NEW f \in Reported("uploaded")'
  PROVE  f \in Reported("uploaded") \/ (v = "uploaded" /\ f = fileUpList[i])
<1>1. posted \in Seq(Report \cup {Finished}) /\ posted' = Append(posted, [file |-> fileUpList[i], verdict |-> v])
  BY DEF TypeInv, TypeOK, Emit
<1> DEFINE r == [file |-> f, verdict |-> "uploaded"]
<1>2. CASE \E j \in 1 .. Len(output) : output[j] = r
  BY <1>2 DEF Reported
<1>3. CASE \E j \in 1 .. Len(posted') : posted'[j] = r
  <2>1. PICK j \in 1 .. Len(posted') : posted'[j] = r
    BY <1>3
  <2>2. CASE j \in 1 .. Len(posted)
    BY <1>1, <2>1, <2>2 DEF Reported
  <2>3. CASE j = Len(posted) + 1
    BY <1>1, <2>1, <2>3
  <2> QED
    BY <1>1, <2>1, <2>2, <2>3
<1> QED
  BY <1>2, <1>3 DEF Reported

(* No report is added by a step that takes reports from the queue into the *)
(* output, or drops them.                                                  *)
LEMMA ReportedMove ==
  ASSUME TypeInv, posted # << >>, output' = Append(output, Head(posted)), posted' = Tail(posted),
         NEW f \in Reported("uploaded")'
  PROVE  f \in Reported("uploaded")
<1> DEFINE r == [file |-> f, verdict |-> "uploaded"]
<1>1. posted \in Seq(Report \cup {Finished}) /\ output \in Seq(Report)
  BY DEF TypeInv, TypeOK
<1>2. /\ Len(posted') = Len(posted) - 1 /\ \A j \in 1 .. Len(posted') : posted'[j] = posted[j + 1]
      /\ Len(output') = Len(output) + 1 /\ output'[Len(output) + 1] = posted[1]
      /\ \A j \in 1 .. Len(output) : output'[j] = output[j]
  BY <1>1
<1>3. CASE \E j \in 1 .. Len(output') : output'[j] = r
  <2>1. PICK j \in 1 .. Len(output') : output'[j] = r
    BY <1>3
  <2>2. CASE j \in 1 .. Len(output)
    BY <1>2, <2>1, <2>2 DEF Reported
  <2>3. CASE j = Len(output) + 1
    <3>1. posted[1] = r /\ 1 \in 1 .. Len(posted)
      BY <1>1, <1>2, <2>1, <2>3
    <3> QED
      BY <3>1 DEF Reported
  <2> QED
    BY <1>1, <1>2, <2>1, <2>2, <2>3
<1>4. CASE \E j \in 1 .. Len(posted') : posted'[j] = r
  <2>1. PICK j \in 1 .. Len(posted') : posted'[j] = r
    BY <1>4
  <2>2. j + 1 \in 1 .. Len(posted) /\ posted[j + 1] = r
    BY <1>1, <1>2, <2>1
  <2> QED
    BY <2>2 DEF Reported
<1> QED
  BY <1>3, <1>4 DEF Reported

(* A step that neither stores anything nor adds a report. *)
LEMMA UploadKept ==
  ASSUME UploadInv, UNCHANGED <<store, fileUpList, i, raced>>,
         Reported("uploaded")' \subseteq Reported("uploaded"),
         worker' = "size" => worker = "size"
  PROVE  UploadInv'
<1>1. UploadedIsThere'
  BY DEF UploadInv, UploadedIsThere, Shared, Present
<1> QED
  BY <1>1 DEF UploadInv

(* A step of the worker that gives a verdict, which is true if it is       *)
(* "uploaded", and leaves the other names alone.                           *)
LEMMA UploadEmit ==
  ASSUME TypeInv, UploadInv, worker \in {"open", "store", "size"}, i <= Len(fileUpList),
         NEW v \in Verdicts, Emit(v), i' = i + 1, worker' = "open",
         UNCHANGED <<output, fileUpList, raced>>,
         \A n \in Names : n # Remote[fileUpList[i]] => store'[n] = store[n],
         worker # "store" => store' = store,
         Present \subseteq Present',
         v = "uploaded" => worker = "size" /\ (\/ Remote[fileUpList[i]] \in raced \/ Spoilt
                                            \/ store[Remote[fileUpList[i]]] = Whole(fileUpList[i]))
  PROVE  UploadInv'
<1>1. i \in 1 .. Len(fileUpList) /\ fileUpList[i] \in Files
  BY DEF TypeInv, TypeOK
<1>2. ASSUME NEW f \in Reported("uploaded")'
      PROVE  \E j \in 1 .. Len(fileUpList) : j < i + 1 /\ fileUpList[j] = f
  BY <1>1, <1>2, ReportedEmit DEF UploadInv
<1>3. ASSUME NEW f \in Reported("uploaded")'
      PROVE  store'[Remote[f]] = Whole(f) \/ Remote[f] \in raced \/ Shared(Remote[f]) \/ Spoilt'
  <2>0. Spoilt => Spoilt'
    BY DEF Spoilt
  <2>1. CASE v = "uploaded" /\ f = fileUpList[i]
    BY <2>0, <2>1
  <2>2. CASE f \in Reported("uploaded")
    <3>1. f \in Files /\ Remote[f] \in Names
      BY <2>2, RemoteType DEF Reported
    <3>2. store[Remote[f]] = Whole(f) \/ Remote[f] \in raced \/ Shared(Remote[f]) \/ Spoilt
      BY <2>2 DEF UploadInv, UploadedIsThere, Spoilt
    <3>3. CASE Remote[f] = Remote[fileUpList[i]]
      <4>1. PICK j \in 1 .. Len(fileUpList) : j < i /\ fileUpList[j] = f
        BY <2>2 DEF UploadInv
      <4> QED
        BY <1>1, <3>3, <4>1 DEF Shared
    <3> QED
      BY <2>0, <3>1, <3>2, <3>3
  <2> QED
    BY <2>1, <2>2, ReportedEmit
<1>4. UploadedIsThere'
  BY <1>3 DEF UploadedIsThere, Shared, Spoilt
<1> QED
  BY <1>2, <1>4 DEF UploadInv

LEMMA UploadNext == TypeInv /\ ReportInv /\ UploadInv /\ [Step]_vars => UploadInv'
<1> SUFFICES ASSUME TypeInv, ReportInv, UploadInv, [Step]_vars PROVE UploadInv'
  OBVIOUS
<1> USE DEF asking, working, consent, history
<1>1. CASE EnterDirectory
  BY <1>1 DEF EnterDirectory, TakeOver, UploadInv, UploadedIsThere, Reported
<1>2. CASE GetFiles \/ TakeNew \/ FollowFlag \/ \E all \in BOOLEAN : AnswerYes(all) \/ AnswerNo(all)
  <2>1. gui \in {"list", "ask"} /\ UNCHANGED <<worker, posted, output>>
    BY <1>2 DEF GetFiles, TakeNew, FollowFlag, AnswerYes, AnswerNo, LookUp, Asking
  <2>2. worker = "none" /\ posted = << >> /\ output = << >>
    BY <2>1 DEF ReportInv, Phases
  <2>3. Reported("uploaded")' = {}
    BY <2>1, <2>2 DEF Reported
  <2> QED
    BY <2>1, <2>2, <2>3 DEF UploadInv, UploadedIsThere
<1>3. CASE AnswerCancel \/ CloseBox \/ Uncaught \/ Start \/ LeaveRun
  BY <1>3, UploadKept DEF AnswerCancel, CloseBox, Uncaught, Start, LeaveRun, Reported
<1>4. CASE OpenFile
  <2>1. CASE worker' = "store" /\ UNCHANGED <<i, posted>>
    BY <1>4, <2>1, UploadKept DEF OpenFile, Reported
  <2>2. CASE Emit("unreadable") /\ i' = i + 1 /\ worker' = "open"
    BY <1>4, <2>2, UploadEmit DEF OpenFile, Verdicts, Present
  <2> QED
    BY <1>4, <2>1, <2>2 DEF OpenFile, NextFile
<1>5. CASE StoreFile
  <2> DEFINE f == fileUpList[i]
  <2>1. /\ worker = "store" /\ i \in 1 .. Len(fileUpList) /\ f \in Files /\ Remote[f] \in Names
        /\ Size[f] \in Nat /\ UNCHANGED <<output, fileUpList, raced>>
    BY <1>5, RemoteType, ListTypes DEF StoreFile, TypeInv, TypeOK
  <2>2. \A n \in Names : n # Remote[f] => store'[n] = store[n]
    <3>1. store' = store \/ \E c : Put(Remote[f], c)
      BY <1>5 DEF StoreFile
    <3> QED
      BY <3>1 DEF Put, TypeInv, TypeOK
  <2>5. Present \subseteq Present'
    <3>1. \A s \in 0 .. Size[f] : [of |-> f, size |-> s] \in Content
      BY <2>1 DEF Content
    <3>2. store' = store \/ \E c \in Content : Put(Remote[f], c)
      <4>1. \/ store' = store
            \/ Put(Remote[f], Whole(f))
            \/ \E s \in 0 .. Size[f] - 1 : Put(Remote[f], [of |-> f, size |-> s])
            \/ \E s \in 0 .. Size[f] : Put(Remote[f], [of |-> f, size |-> s])
        BY <1>5 DEF StoreFile
      <4>2. \A s \in 0 .. Size[f] - 1 : s \in 0 .. Size[f]
        BY <2>1
      <4>3. CASE Put(Remote[f], Whole(f))
        BY <2>1, <4>3, WholeType
      <4> QED
        BY <3>1, <4>1, <4>2, <4>3
    <3> QED
      BY <3>2, TransferAssumption DEF Put, Present, TypeInv, TypeOK
  <2>3. CASE Emit("error") /\ i' = i + 1 /\ worker' = "open"
    BY <2>1, <2>2, <2>3, <2>5, UploadEmit DEF Verdicts
  <2>4. CASE worker' = "size" /\ UNCHANGED <<i, posted>>
    <3>1. \E s \in 0 .. Size[f] : store'[Remote[f]] = [of |-> f, size |-> s]
      <4>1. \/ Put(Remote[f], Whole(f))
            \/ \E s \in 0 .. Size[f] - 1 : Put(Remote[f], [of |-> f, size |-> s])
        BY <1>5, <2>4 DEF StoreFile
      <4>2. \E s \in 0 .. Size[f] : Put(Remote[f], [of |-> f, size |-> s])
        <5>1. Size[f] \in 0 .. Size[f] /\ \A s \in 0 .. Size[f] - 1 : s \in 0 .. Size[f]
          BY <2>1
        <5>2. CASE Put(Remote[f], Whole(f))
          BY <5>1, <5>2 DEF Whole
        <5> QED
          BY <4>1, <5>1, <5>2
      <4> QED
        BY <2>1, <4>2 DEF Put, TypeInv, TypeOK
    <3>2. Reported("uploaded")' = Reported("uploaded")
      BY <2>1, <2>4 DEF Reported
    <3>3. ASSUME NEW g \in Reported("uploaded")
          PROVE  store'[Remote[g]] = Whole(g) \/ Remote[g] \in raced \/ Shared(Remote[g]) \/ Spoilt'
      <4>1. PICK j \in 1 .. Len(fileUpList) : j < i /\ fileUpList[j] = g
        BY DEF UploadInv
      <4>2. CASE Remote[g] = Remote[f]
        BY <2>1, <4>1, <4>2 DEF Shared
      <4>3. CASE Remote[g] # Remote[f]
        <5>1. Remote[g] \in Names
          BY RemoteType DEF Reported
        <5> QED
          BY <2>2, <2>5, <4>3, <5>1 DEF UploadInv, UploadedIsThere, Spoilt
      <4> QED
        BY <4>2, <4>3
    <3>4. UploadedIsThere'
      BY <2>1, <3>2, <3>3 DEF UploadedIsThere, Shared, Spoilt
    <3> QED
      BY <2>1, <2>4, <3>1, <3>2, <3>4 DEF UploadInv
  <2> QED
    BY <1>5, <2>3, <2>4 DEF StoreFile, NextFile
<1>6. CASE CompareSize
  <2> DEFINE f == fileUpList[i]
  <2>1. /\ worker = "size" /\ i \in 1 .. Len(fileUpList) /\ f \in Files /\ Size[f] \in Nat /\ i' = i + 1
        /\ worker' = "open" /\ UNCHANGED <<store, output, fileUpList, raced>>
    BY <1>6, ListTypes DEF CompareSize, NextFile, TypeInv, TypeOK
  <2>2. PICK size \in FileSizes(f) : Emit(IF SameSize(size, f) THEN "uploaded" ELSE "mismatch")
    BY <1>6 DEF CompareSize
  <2>5. Present \subseteq Present'
    BY <2>1 DEF Present
  <2>3. CASE size = Size[f]
    <3>1. Remote[f] \in raced \/ \E s \in 0 .. Size[f] : store[Remote[f]] = [of |-> f, size |-> s]
      BY <2>1 DEF UploadInv
    <3>2. ASSUME NEW s \in 0 .. Size[f], store[Remote[f]] = [of |-> f, size |-> s]
          PROVE  Spoilt \/ store[Remote[f]] = Whole(f)
      <4> SUFFICES ASSUME ~Spoilt PROVE store[Remote[f]] = Whole(f)
        OBVIOUS
      <4>1. [of |-> f, size |-> s] \in Content
        BY <2>1 DEF Content
      <4>2. store[Remote[f]] # Absent /\ store[Remote[f]].size = s
        BY <3>2, <4>1, TransferAssumption
      <4>3. size \in {s, 0}
        BY <2>2, <4>2 DEF FileSizes, Spoilt
      <4>4. s = Size[f]
        BY <2>1, <2>3, <4>3
      <4> QED
        BY <3>2, <4>4 DEF Whole
    <3>3. Emit("uploaded")
      BY <2>2, <2>3 DEF SameSize
    <3>4. Remote[f] \in raced \/ Spoilt \/ store[Remote[f]] = Whole(f)
      BY <3>1, <3>2
    <3>5. i <= Len(fileUpList) /\ "uploaded" \in Verdicts
      BY <2>1 DEF Verdicts
    <3> QED
      BY <2>1, <2>5, <3>3, <3>4, <3>5, UploadEmit
  <2>4. CASE size # Size[f]
    <3>1. Emit("mismatch")
      BY <2>2, <2>4 DEF SameSize
    <3> QED
      BY <2>1, <2>5, <3>1, UploadEmit DEF Verdicts
  <2> QED
    BY <2>3, <2>4
<1>7. CASE EmitFinished
  <2>1. posted \in Seq(Report \cup {Finished}) /\ posted' = Append(posted, Finished) /\ output' = output
    BY <1>7 DEF EmitFinished, TypeInv, TypeOK
  <2>2. ASSUME NEW f \in Reported("uploaded")' PROVE f \in Reported("uploaded")
    <3> DEFINE r == [file |-> f, verdict |-> "uploaded"]
    <3>1. Finished # r
      BY DEF Finished
    <3>2. \A j \in 1 .. Len(posted') : posted'[j] = r => j \in 1 .. Len(posted) /\ posted[j] = r
      BY <2>1, <3>1
    <3> QED
      BY <2>1, <3>2 DEF Reported
  <2> QED
    BY <1>7, <2>2, UploadKept DEF EmitFinished
<1>8. CASE on_FTPMessage
  BY <1>8, ReportedMove, UploadKept DEF on_FTPMessage
<1>9. CASE on_FTPFinished
  <2>1. posted \in Seq(Report \cup {Finished}) /\ posted # << >> /\ posted' = Tail(posted) /\ output' = output
    BY <1>9 DEF on_FTPFinished, TypeInv, TypeOK
  <2>2. \A j \in 1 .. Len(posted') : j + 1 \in 1 .. Len(posted) /\ posted'[j] = posted[j + 1]
    BY <2>1
  <2>3. Reported("uploaded")' \subseteq Reported("uploaded")
    BY <2>1, <2>2 DEF Reported
  <2> QED
    BY <1>9, <2>3, UploadKept DEF on_FTPFinished
<1>10. CASE ClickAdd
  BY <1>10, UploadKept DEF ClickAdd, Reported
<1>11. CASE \E n \in OtherNames, s \in OtherSizes : OtherPut(n, s)
  <2>1. PICK n \in OtherNames, s \in OtherSizes : OtherPut(n, s)
    BY <1>11
  <2>2. /\ UNCHANGED <<fileUpList, i, worker, posted, output>> /\ raced' = raced \cup {n}
        /\ \A m \in Names : m # n => store'[m] = store[m]
    BY <2>1 DEF OtherPut, TypeInv, TypeOK
  <2>3. Reported("uploaded")' = Reported("uploaded") /\ \A f \in Reported("uploaded") : Remote[f] \in Names
    BY <2>2, RemoteType DEF Reported
  <2>6. Present \subseteq Present'
    <3>1. [of |-> Other, size |-> s] \in Content
      BY TransferAssumption DEF Content
    <3> QED
      BY <2>1, <3>1, TransferAssumption DEF OtherPut, Present, TypeInv, TypeOK
  <2>4. UploadedIsThere'
    BY <2>2, <2>3, <2>6 DEF UploadInv, UploadedIsThere, Shared
  <2>5. worker = "size" => Remote[fileUpList[i]] \in Names
    BY RemoteType DEF TypeInv, TypeOK
  <2> QED
    BY <2>2, <2>3, <2>4, <2>5 DEF UploadInv
<1>12. CASE UNCHANGED vars
  BY <1>12, UploadKept DEF vars, Reported
<1> QED
  BY <1>1, <1>2, <1>3, <1>4, <1>5, <1>6, <1>7, <1>8, <1>9, <1>10, <1>11, <1>12, EnterIsEnter
     DEF Step, Next, Window, Worker, TypeInv

(* Whatever fails or is listed wrongly: the program says "uploaded" only   *)
(* of a file that is on the server, whole, unless another client or        *)
(* another file of the same name has written there, or a name with a blank *)
(* spoils the listings.                                                    *)
THEOREM UploadedFilesAreThere == Spec => []UploadedIsThere
<1>1. UploadInv => UploadedIsThere
  BY DEF UploadInv
<1> QED
  BY <1>1, TypeInvariant, ReportInit, ReportNext, UploadInit, UploadNext, NextIsStep, PTL DEF Spec
=============================================================================
