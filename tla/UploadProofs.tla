---------------------------- MODULE UploadProofs ----------------------------
(***************************************************************************)
(* Whole uploads, for any paths, files, servers and numbers of clicks.     *)
(* The invariants of the two halves are those of modules NavigationProofs  *)
(* and TransferProofs: every step of an upload is a step, or none, of      *)
(* each half, so they hold here too.  What module Upload says follows from *)
(* them and from how the halves take turns.                                *)
(***************************************************************************)
EXTENDS Upload, TLAPS

NavP == INSTANCE NavigationProofs WITH Faults <- Faults \cap {"config", "ftp", "net"}

TransP == INSTANCE TransferProofs WITH
  Faults <- Faults \ {"config", "clear"}, sessions <- uploads, agreed <- consented
-----------------------------------------------------------------------------
(* The assumptions of the halves. *)

LEMMA NavAssumed ==
  /\ PathArrays \subseteq Seq(NavP!Segment)
  /\ \A p \in PathArrays : \A j \in 1 .. Len(p) : p[j].name[2] = 0
  /\ NavP!Dots \subseteq NavP!DirNames
  /\ InitialDirs \subseteq SUBSET NavP!Paths
  /\ OtherDirs \subseteq NavP!Paths
  /\ \A p \in OtherDirs \cup UNION InitialDirs : NavP!Proper(p)
  /\ Faults \cap {"config", "ftp", "net"} \subseteq NavP!FaultKinds
  /\ MaxSessions \in Nat
<1> USE UploadAssumption DEF Nav!NavigationAssumption, Nav!DirNames, NavP!DirNames
<1>1. PathArrays \subseteq Seq(NavP!Segment)
  BY DEF Nav!Segment, NavP!Segment
<1>2. \A p \in PathArrays : \A j \in 1 .. Len(p) : p[j].name[2] = 0
  OBVIOUS
<1>3. NavP!Dots \subseteq NavP!DirNames
  BY DEF Nav!Dots, NavP!Dots, Nav!Dot, NavP!Dot, Nav!DotDot, NavP!DotDot
<1>4. InitialDirs \subseteq SUBSET NavP!Paths /\ OtherDirs \subseteq NavP!Paths
  BY DEF Nav!Paths, NavP!Paths
<1>5. \A p \in OtherDirs \cup UNION InitialDirs : NavP!Proper(p)
  BY DEF Nav!Proper, NavP!Proper, Nav!Dots, NavP!Dots, Nav!Dot, NavP!Dot, Nav!DotDot, NavP!DotDot
<1>6. Faults \cap {"config", "ftp", "net"} \subseteq NavP!FaultKinds /\ MaxSessions \in Nat
  BY DEF NavP!FaultKinds
<1> QED
  BY <1>1, <1>2, <1>3, <1>4, <1>5, <1>6

LEMMA TransAssumed ==
  /\ Size \in [Files -> Nat]
  /\ DOMAIN Remote = Files
  /\ Lists \subseteq Seq(Files)
  /\ Absent \notin TransP!Content
  /\ Other \notin Files
  /\ OtherSizes \subseteq Nat
  /\ Spaced \subseteq OtherNames /\ \A f \in Files : Remote[f] \notin Spaced
  /\ Faults \ {"config", "clear"} \subseteq TransP!FaultKinds
  /\ MaxSessions \in Nat
BY UploadAssumption
   DEF Trans!TransferAssumption, Trans!Content, TransP!Content, Trans!FaultKinds, TransP!FaultKinds
-----------------------------------------------------------------------------
(* The steps of the halves. *)

LEMMA SameWalk ==
  /\ Nav!Init => NavP!Init
  /\ Nav!ClickUpload => NavP!ClickUpload
  /\ Nav!Uncaught => NavP!Uncaught
  /\ Nav!CloseBox => NavP!CloseBox
  /\ Nav!TransferEnds => NavP!TransferEnds
  /\ \A p \in OtherDirs : Nav!OtherMkdir(p) => NavP!OtherMkdir(p)
BY Zenon DEF Nav!Init, NavP!Init, Nav!ClickUpload, NavP!ClickUpload, Nav!Uncaught, NavP!Uncaught,
  Nav!CloseBox, NavP!CloseBox, Nav!TransferEnds, NavP!TransferEnds, Nav!GiveUp, NavP!GiveUp,
  Nav!OtherMkdir, NavP!OtherMkdir, Nav!Parent, NavP!Parent, Nav!Dot, NavP!Dot,
  Nav!Working, NavP!Working, Nav!server, NavP!server, Nav!gui, NavP!gui, Nav!history, NavP!history

LEMMA SameLists ==
  /\ Nav!Listings = NavP!Listings
  /\ Nav!Dots = NavP!Dots
  /\ \A p, d : Nav!Enter(p, d) = NavP!Enter(p, d)
  /\ \A own, l, n : Nav!IsSupplement(own, l, n) <=> NavP!IsSupplement(own, l, n)
  /\ \A S : Nav!Cardinality(S) = NavP!Cardinality(S)
BY Zenon DEF Nav!Listings, NavP!Listings, Nav!SubDirs, NavP!SubDirs, Nav!Parent, NavP!Parent,
  Nav!Enter, NavP!Enter, Nav!Dot, NavP!Dot, Nav!DotDot, NavP!DotDot, Nav!Dots, NavP!Dots,
  Nav!IsSupplement, NavP!IsSupplement, Nav!Cardinality, NavP!Cardinality

LEMMA SameProgress == Nav!Progress => NavP!Progress
<1> USE SameLists DEF Nav!Goto, NavP!Goto, Nav!GiveUp, NavP!GiveUp, Nav!Mkdir, NavP!Mkdir,
      Nav!server, NavP!server, Nav!history, NavP!history
<1>1. Nav!CloseBox \/ Nav!Open \/ Nav!Login \/ Nav!PathEnds \/ Nav!TransferEnds => NavP!Progress
  BY Zenon DEF Nav!CloseBox, NavP!CloseBox, Nav!Open, NavP!Open, Nav!Login, NavP!Login,
       Nav!PathEnds, NavP!PathEnds, Nav!TransferEnds, NavP!TransferEnds, NavP!Progress
<1>2. Nav!OfferDirectories \/ Nav!Pick \/ Nav!TakePlain => NavP!Progress
  BY Zenon DEF Nav!OfferDirectories, NavP!OfferDirectories, Nav!Pick, NavP!Pick,
       Nav!TakePlain, NavP!TakePlain, NavP!Progress
<1>3. Nav!LookForOwn => NavP!Progress
  BY Zenon DEF Nav!LookForOwn, NavP!LookForOwn, NavP!Progress
<1>4. Nav!AnswerYes \/ Nav!AnswerNo \/ Nav!AnswerCancel => NavP!Progress
  BY Zenon DEF Nav!AnswerYes, NavP!AnswerYes, Nav!AnswerNo, NavP!AnswerNo,
       Nav!AnswerCancel, NavP!AnswerCancel, NavP!Progress
<1>5. Nav!AddDirectoryList \/ Nav!AddDirectory => NavP!Progress
  BY Zenon DEF Nav!AddDirectoryList, NavP!AddDirectoryList, Nav!AddDirectory, NavP!AddDirectory,
       NavP!Progress
<1>6. Nav!SetDirectoryList \/ Nav!SetDirectory => NavP!Progress
  BY Zenon DEF Nav!SetDirectoryList, NavP!SetDirectoryList, Nav!SetDirectory, NavP!SetDirectory,
       Nav!NextSegment, NavP!NextSegment, NavP!Progress
<1> QED
  BY <1>1, <1>2, <1>3, <1>4, <1>5, <1>6, Zenon DEF Nav!Progress

LEMMA SameTransfer ==
  /\ Trans!Init => TransP!Init
  /\ Trans!TakeOver => TransP!TakeOver
  /\ Trans!Uncaught => TransP!Uncaught
  /\ Trans!CloseBox => TransP!CloseBox
  /\ Trans!AnswerCancel => TransP!AnswerCancel
  /\ Trans!on_FTPFinished => TransP!on_FTPFinished
  /\ \A n \in OtherNames, s \in OtherSizes : Trans!OtherPut(n, s) => TransP!OtherPut(n, s)
BY Zenon DEF Trans!Init, TransP!Init, Trans!TakeOver, TransP!TakeOver, Trans!Uncaught, TransP!Uncaught,
  Trans!CloseBox, TransP!CloseBox, Trans!AnswerCancel, TransP!AnswerCancel,
  Trans!on_FTPFinished, TransP!on_FTPFinished, Trans!OtherPut, TransP!OtherPut,
  Trans!Asking, TransP!Asking, Trans!Alive, TransP!Alive, Trans!Finished, TransP!Finished,
  Trans!Names, TransP!Names, Trans!asking, TransP!asking, Trans!working, TransP!working,
  Trans!consent, TransP!consent, Trans!history, TransP!history

LEMMA SameWindow == Trans!Window => TransP!Window
BY Zenon DEF Trans!Window, TransP!Window, Trans!GetFiles, TransP!GetFiles, Trans!LookUp, TransP!LookUp,
  Trans!TakeNew, TransP!TakeNew, Trans!FollowFlag, TransP!FollowFlag, Trans!AnswerYes, TransP!AnswerYes,
  Trans!AnswerNo, TransP!AnswerNo, Trans!AnswerCancel, TransP!AnswerCancel, Trans!Start, TransP!Start,
  Trans!on_FTPMessage, TransP!on_FTPMessage, Trans!on_FTPFinished, TransP!on_FTPFinished,
  Trans!CloseBox, TransP!CloseBox, Trans!Take, TransP!Take, Trans!Skip, TransP!Skip,
  Trans!Asking, TransP!Asking, Trans!Present, TransP!Present, Trans!Names, TransP!Names,
  Trans!Finished, TransP!Finished, Trans!asking, TransP!asking, Trans!working, TransP!working,
  Trans!consent, TransP!consent, Trans!history, TransP!history

LEMMA SameWorker == Trans!Worker => TransP!Worker
BY Zenon DEF Trans!Worker, TransP!Worker, Trans!OpenFile, TransP!OpenFile, Trans!StoreFile, TransP!StoreFile,
  Trans!CompareSize, TransP!CompareSize, Trans!EmitFinished, TransP!EmitFinished,
  Trans!LeaveRun, TransP!LeaveRun, Trans!Emit, TransP!Emit, Trans!NextFile, TransP!NextFile,
  Trans!Put, TransP!Put, Trans!FileSizes, TransP!FileSizes, Trans!SameSize, TransP!SameSize,
  Trans!Whole, TransP!Whole, Trans!Alive, TransP!Alive, Trans!Finished, TransP!Finished,
  Trans!Present, TransP!Present, Trans!Names, TransP!Names, Trans!asking, TransP!asking, Trans!consent, TransP!consent, Trans!history, TransP!history

(* The walk.  What the worker or its end changes is nothing of the walk's, *)
(* unless it ends the transfer or the process.                             *)
LEMMA WalkStep == [Next]_vars => [NavP!Step]_(NavP!vars)
<1> SUFFICES ASSUME [Next]_vars PROVE [NavP!Step]_(NavP!vars)
  OBVIOUS
<1> USE SameWalk DEF NavP!Step, NavP!Next
<1>1. CASE ClickUpload \/ WalkUncaught
  BY <1>1 DEF ClickUpload, WalkUncaught
<1>2. CASE Walk
  BY <1>2, SameProgress DEF Walk
<1>3. CASE OtherMkdir
  BY <1>3 DEF OtherMkdir
<1>4. CASE Ends
  BY <1>4 DEF Ends, NavP!Progress
<1>5. CASE DeletedInRun \/ TransferUncaught
  BY <1>5 DEF DeletedInRun, TransferUncaught, Dies, NavP!End, NavP!server, NavP!history
<1>6. CASE CloseBox
  BY <1>6 DEF CloseBox, NavP!Progress
<1>7. CASE TakeOver \/ Window \/ Worker \/ OtherPut \/ UNCHANGED vars
  BY <1>7 DEF TakeOver, Window, Worker, OtherPut, vars, walk, NavP!vars, NavP!server, NavP!gui, NavP!history
<1> QED
  BY <1>1, <1>2, <1>3, <1>4, <1>5, <1>6, <1>7 DEF Next, WindowThread

(* The transfer, which begins with what the directory holds. *)
Kept == \A d \in DOMAIN files : files[d] \in [TransP!Names -> TransP!Content \cup {Absent}]

LEMMA TransferStep == Kept /\ [Next]_vars => [TransP!Step]_(TransP!vars)
<1> SUFFICES ASSUME Kept, [Next]_vars PROVE [TransP!Step]_(TransP!vars)
  OBVIOUS
<1> USE SameTransfer DEF TransP!Step, TransP!Next
<1>1. CASE TakeOver
  <2>1. Nothing \in [TransP!Names -> TransP!Content \cup {Absent}]
    BY DEF Nothing, Trans!Names, TransP!Names
  <2>2. Theirs \subseteq [TransP!Names -> TransP!Content \cup {Absent}]
    BY TransAssumed DEF Theirs, Trans!Names, TransP!Names, TransP!Content
  <2>3. store' \in [TransP!Names -> TransP!Content \cup {Absent}]
    BY <1>1, <2>1, <2>2 DEF TakeOver, Kept
  <2> QED
    BY <1>1, <2>3 DEF TakeOver, TransP!EnterDirectory
<1>2. CASE Window
  BY <1>2, SameWindow DEF Window
<1>3. CASE Worker
  BY <1>3, SameWorker DEF Worker
<1>4. CASE OtherPut
  BY <1>4 DEF OtherPut
<1>5. CASE Ends
  BY <1>5 DEF Ends, TransP!Window
<1>6. CASE DeletedInRun \/ TransferUncaught
  BY <1>6 DEF DeletedInRun, TransferUncaught, TransP!Window
<1>7. CASE UNCHANGED transfer
  BY <1>7 DEF transfer, TransP!vars, TransP!asking, TransP!working, TransP!consent, TransP!history
<1>8. CASE CloseBox /\ gui # "idle"
  BY <1>8 DEF CloseBox, TransP!Window
<1> QED
  BY <1>1, <1>2, <1>3, <1>4, <1>5, <1>6, <1>7, <1>8
     DEF Next, WindowThread, ClickUpload, Walk, WalkUncaught, OtherMkdir, CloseBox, vars
-----------------------------------------------------------------------------
(* The invariants of the halves. *)
WalkInv ==
  /\ NavP!TypeInv /\ NavP!SessionInv /\ NavP!ClaimInv /\ NavP!SupplementInv
  /\ NavP!LeftOverInv /\ NavP!PathInv /\ NavP!WayInv /\ NavP!EndInv

LEMMA WalkInit == Nav!Init => WalkInv
BY NavAssumed, SameWalk, NavP!TypeInit, NavP!SessionInit, NavP!ClaimInit, NavP!SupplementInit,
   NavP!LeftOverInit, NavP!PathInit, NavP!WayInit, NavP!EndInit DEF WalkInv

LEMMA WalkNext == WalkInv /\ [Next]_vars => WalkInv'
BY NavAssumed, WalkStep, NavP!TypeNext, NavP!SessionNext, NavP!ClaimNext, NavP!SupplementNext,
   NavP!LeftOverNext, NavP!PathNext, NavP!WayNext, NavP!EndNext DEF WalkInv

TransferInv == TransP!TypeInv /\ TransP!ReportInv /\ TransP!SilentInv /\ TransP!UploadInv

LEMMA TransferInit == Trans!Init => TransferInv
BY TransAssumed, SameTransfer, TransP!TypeInit, TransP!ReportInit, TransP!SilentInit, TransP!UploadInit
   DEF TransferInv

LEMMA TransferNext == TransferInv /\ Kept /\ [Next]_vars => TransferInv'
BY TransAssumed, TransferStep, TransP!TypeNext, TransP!ReportNext, TransP!SilentNext, TransP!UploadNext
   DEF TransferInv
-----------------------------------------------------------------------------
(* How the halves take turns: the transfer goes on only where the walk has *)
(* ended, both show the same box, and end with the same process.           *)
Together ==
  /\ gui \in {"list", "ask", "waiting"} => pc = "ready"
  /\ gui \in {"box", "cancelled"} => pc = "box"
  /\ gui = "dead" => pc = "dead"

LEMMA TogetherInit == Init => Together
BY DEF Init, Trans!Init, Together

(* A step of the walk before its end. *)
LEMMA WalkWorks ==
  Nav!Progress /\ pc \notin {"box", "ready"} =>
    pc \in NavP!Working \ {"ready"} /\ pc' \in NavP!Working \cup {"box", "dead"}
<1> USE DEF NavP!Working, Nav!Goto, Nav!GiveUp
<1>1. Nav!CloseBox \/ Nav!TransferEnds => pc \in {"box", "ready"}
  BY DEF Nav!CloseBox, Nav!TransferEnds
<1>2. Nav!Open \/ Nav!Login \/ Nav!PathEnds \/ Nav!OfferDirectories \/ Nav!Pick =>
        pc \in NavP!Working \ {"ready"} /\ pc' \in NavP!Working \cup {"box", "dead"}
  BY DEF Nav!Open, Nav!Login, Nav!PathEnds, Nav!OfferDirectories, Nav!Pick
<1>3. Nav!LookForOwn \/ Nav!TakePlain =>
        pc \in NavP!Working \ {"ready"} /\ pc' \in NavP!Working \cup {"box", "dead"}
  BY DEF Nav!LookForOwn, Nav!TakePlain
<1>4. Nav!AnswerYes \/ Nav!AnswerNo \/ Nav!AnswerCancel =>
        pc \in NavP!Working \ {"ready"} /\ pc' \in NavP!Working \cup {"box", "dead"}
  BY DEF Nav!AnswerYes, Nav!AnswerNo, Nav!AnswerCancel
<1>5. Nav!AddDirectoryList \/ Nav!AddDirectory \/ Nav!SetDirectoryList \/ Nav!SetDirectory =>
        pc \in NavP!Working \ {"ready"} /\ pc' \in NavP!Working \cup {"box", "dead"}
  BY DEF Nav!AddDirectoryList, Nav!AddDirectory, Nav!SetDirectoryList, Nav!SetDirectory
<1> QED
  BY <1>1, <1>2, <1>3, <1>4, <1>5 DEF Nav!Progress

(* The end of the transfer in a box. *)
LEMMA EndsInBox ==
  Ends => pc = "ready" /\ pc' = "box"
          /\ \/ gui = "ask" /\ gui' = "cancelled"
             \/ gui = "waiting" /\ gui' = "box" /\ worker # "emitted"
                /\ posted # << >> /\ Head(posted) = TransP!Finished
BY DEF Ends, Nav!TransferEnds, Nav!GiveUp, Trans!AnswerCancel, Trans!Asking, Trans!on_FTPFinished,
   Trans!Finished, TransP!Finished

(* The buttons are disabled during the transfer: a click finds no worker.  *)
LEMMA ClickWhenIdle == WalkInv /\ ClickUpload => pc = "idle"
BY DEF WalkInv, NavP!SessionInv, NavP!SessionHeld, ClickUpload, Nav!ClickUpload

LEMMA TogetherNext == WalkInv /\ TransP!TypeInv /\ Together /\ [Next]_vars => Together'
<1> SUFFICES ASSUME WalkInv, TransP!TypeInv, Together, [Next]_vars PROVE Together'
  OBVIOUS
<1>0. gui \in {"idle", "list", "ask", "cancelled", "waiting", "box", "dead"}
  BY DEF TransP!TypeInv, TransP!TypeOK
<1>1. CASE ClickUpload
  BY <1>0, <1>1, ClickWhenIdle DEF Together, ClickUpload, Nav!ClickUpload, transfer
<1>2. CASE Walk
  BY <1>0, <1>2, WalkWorks DEF Together, Walk, NavP!Working, transfer
<1>3. CASE WalkUncaught
  BY <1>0, <1>3 DEF Together, WalkUncaught, Nav!Uncaught, Nav!Working, transfer
<1>4. CASE OtherMkdir
  BY <1>4 DEF Together, OtherMkdir, Nav!OtherMkdir, Nav!gui, transfer
<1>5. CASE TakeOver
  BY <1>5 DEF Together, TakeOver, Trans!TakeOver, walk
<1>6. CASE Window
  BY <1>6 DEF Together, Window, walk
<1>7. CASE Worker
  BY <1>7 DEF Together, Worker, Trans!Worker, Trans!OpenFile, Trans!StoreFile, Trans!CompareSize,
     Trans!EmitFinished, Trans!LeaveRun, walk
<1>8. CASE OtherPut
  BY <1>8 DEF Together, OtherPut, Trans!OtherPut, walk
<1>9. CASE Ends
  BY <1>9, EndsInBox DEF Together
<1>10. CASE DeletedInRun \/ TransferUncaught
  BY <1>10 DEF Together, DeletedInRun, TransferUncaught, Dies
<1>11. CASE CloseBox
  BY <1>0, <1>11 DEF Together, CloseBox, Nav!CloseBox, Trans!CloseBox, transfer
<1>12. CASE UNCHANGED vars
  BY <1>12 DEF Together, vars, walk, transfer
<1> QED
  BY <1>1, <1>2, <1>3, <1>4, <1>5, <1>6, <1>7, <1>8, <1>9, <1>10, <1>11, <1>12 DEF Next, WindowThread
-----------------------------------------------------------------------------
(* The directories used.  What a session has made or was told to reuse is  *)
(* remembered, and it is in such a directory that a walk along a path to   *)
(* an own directory ends.                                                  *)
AllOwn == \A p \in PathArrays : EndsInOwn(p)

Claims ==
  /\ Kept
  /\ made \cup agreed \subseteq claimed
  /\ AllOwn => DOMAIN files \subseteq claimed

LEMMA ClaimsInit == Init => Claims
BY DEF Init, Nav!Init, Claims, Kept

LEMMA ReadyClaimed ==
  ASSUME WalkInv, made \cup agreed \subseteq claimed, AllOwn, pc = "ready"
  PROVE  cwd \in claimed
<1>1. path \in PathArrays
  BY DEF WalkInv, NavP!EndInv, NavP!Working
<1>2. path # << >> /\ path[Len(path)].kind = "own"
  BY <1>1 DEF AllOwn, EndsInOwn
<1>3. path \in Seq(NavP!Segment)
  BY <1>1, NavAssumed
<1>4. Len(path) \in Nat \ {0}
  BY <1>2, <1>3
<1>5. cwd \in owned
  BY <1>2, <1>4, NavAssumed, NavP!OwnIsEntered DEF WalkInv
<1>6. owned \subseteq made \cup agreed
  BY DEF WalkInv, NavP!ClaimInv, NavP!OwnDirectoryClaimed
<1> QED
  BY <1>5, <1>6

LEMMA ClaimsNext == WalkInv /\ TransferInv /\ Claims /\ [Next]_vars => Claims'
<1> SUFFICES ASSUME WalkInv, TransferInv, Claims, [Next]_vars PROVE Claims'
  OBVIOUS
<1> USE DEF Claims, Kept
<1>1. CASE ClickUpload
  BY <1>1 DEF ClickUpload, Nav!ClickUpload
<1>2. CASE Walk
  BY <1>2 DEF Walk
<1>3. CASE WalkUncaught
  BY <1>3 DEF WalkUncaught, Nav!Uncaught, Nav!history
<1>4. CASE OtherMkdir
  BY <1>4 DEF OtherMkdir, Nav!OtherMkdir, Nav!history
<1>5. CASE Ends
  <2>1. DOMAIN files' = {cwd} \cup DOMAIN files /\ files'[cwd] = store
        /\ \A d \in DOMAIN files : d # cwd => files'[d] = files[d]
    BY <1>5 DEF Ends, LeaveDirectory
  <2>2. store \in [TransP!Names -> TransP!Content \cup {Absent}]
    BY DEF TransferInv, TransP!TypeInv, TransP!TypeOK
  <2>3. Kept'
    BY <2>1, <2>2
  <2>4. UNCHANGED <<made, agreed, claimed>>
    BY <1>5 DEF Ends, Nav!TransferEnds, Nav!history
  <2>5. AllOwn => DOMAIN files' \subseteq claimed'
    BY <1>5, <2>1, <2>4, ReadyClaimed DEF Ends
  <2> QED
    BY <2>3, <2>4, <2>5 DEF AllOwn, EndsInOwn
<1>6. CASE DeletedInRun \/ TransferUncaught
  BY <1>6 DEF DeletedInRun, TransferUncaught, Dies
<1>7. CASE CloseBox
  BY <1>7 DEF CloseBox, Nav!CloseBox, Nav!history
<1>8. CASE TakeOver \/ Window \/ Worker \/ OtherPut \/ UNCHANGED vars
  BY <1>8 DEF TakeOver, Window, Worker, OtherPut, vars, walk
<1> QED
  BY <1>1, <1>2, <1>3, <1>4, <1>5, <1>6, <1>7, <1>8 DEF Next, WindowThread
-----------------------------------------------------------------------------
(* The inductive invariant of the whole upload. *)
Inv == WalkInv /\ TransferInv /\ Together /\ Claims

LEMMA Invariant == Spec => []Inv
<1>1. Init => Inv
  BY WalkInit, TransferInit, TogetherInit, ClaimsInit DEF Init, Inv
<1>2. Inv /\ [Next]_vars => Inv'
  BY WalkNext, TransferNext, TogetherNext, ClaimsNext DEF Inv, TransferInv, Claims
<1> QED
  BY <1>1, <1>2, PTL DEF Spec

(* As long as the worker stores files it has its UploadThread and a session*)
(* that is logged in, at the end of the path: on any path, and however the *)
(* walk, the worker, the window and the student's clicks take turns.       *)
THEOREM SessionLastsForWorker == Spec => []WorkerHasSession
<1>1. Inv => WorkerHasSession
  <2> SUFFICES ASSUME Inv, Running PROVE WorkerHasSession
    BY DEF WorkerHasSession
  <2>1. gui = "waiting"
    BY DEF Running, Inv, TransferInv, TransP!ReportInv, TransP!Phases
  <2>2. pc = "ready"
    BY <2>1 DEF Inv, Together
  <2>3. session = "loggedIn" /\ uThread
    BY <2>2 DEF Inv, WalkInv, NavP!SessionInv, NavP!SessionHeld, NavP!Navigating, NavP!Working
  <2>4. seg = Len(path) + 1
    BY <2>2 DEF Inv, WalkInv, NavP!EndInv
  <2> QED
    BY <2>3, <2>4 DEF WorkerHasSession
<1> QED
  BY <1>1, Invariant, PTL

(* Where every path leads to a directory of the student's own, this        *)
(* program stores files only in directories that it made or was told to    *)
(* reuse, whatever other clients create and however often it is used.      *)
THEOREM OnlyOwnIsWritten == Spec => []OnlyOwnWritten
<1>1. Inv => OnlyOwnWritten
  BY ReadyClaimed DEF Inv, Claims, AllOwn, OnlyOwnWritten
<1> QED
  BY <1>1, Invariant, PTL

(* The properties of the walk hold of it in whole uploads, too: before,    *)
(* while and after files are transferred.                                  *)
THEOREM WalkStaysSafe ==
  Spec => []( /\ Nav!SessionHeld /\ Nav!OwnDirectoryClaimed /\ Nav!SupplementsInOrder
              /\ Nav!LeftOnTheWay /\ Nav!CwdFollowsPath )
<1> DEFINE Safe == /\ Nav!SessionHeld /\ Nav!OwnDirectoryClaimed /\ Nav!SupplementsInOrder
                   /\ Nav!LeftOnTheWay /\ Nav!CwdFollowsPath
<1>1. NavP!SessionHeld => Nav!SessionHeld
  BY DEF NavP!SessionHeld, Nav!SessionHeld, NavP!Navigating, Nav!Navigating, NavP!Working, Nav!Working
<1>2. NavP!OwnDirectoryClaimed => Nav!OwnDirectoryClaimed
  BY DEF NavP!OwnDirectoryClaimed, Nav!OwnDirectoryClaimed
<1>3. NavP!SupplementsInOrder => Nav!SupplementsInOrder
  BY Zenon DEF NavP!SupplementsInOrder, Nav!SupplementsInOrder, NavP!Parent, Nav!Parent
<1>4. NavP!LeftOnTheWay => Nav!LeftOnTheWay
  BY Zenon DEF NavP!LeftOnTheWay, Nav!LeftOnTheWay, NavP!Within, Nav!Within, NavP!HasDots, Nav!HasDots,
     NavP!Dots, Nav!Dots, NavP!Dot, Nav!Dot, NavP!DotDot, Nav!DotDot
<1>5. NavP!CwdFollowsPath => Nav!CwdFollowsPath
  BY Zenon DEF NavP!CwdFollowsPath, Nav!CwdFollowsPath, NavP!Navigating, Nav!Navigating, NavP!Working,
     Nav!Working, NavP!HasDots, Nav!HasDots, NavP!Follows, Nav!Follows, NavP!Dots, Nav!Dots,
     NavP!Dot, Nav!Dot, NavP!DotDot, Nav!DotDot
<1>6. WalkInv => NavP!LeftOnTheWay
  BY NavAssumed, NavP!LeftBehind DEF WalkInv
<1>7. Inv => Safe
  BY <1>1, <1>2, <1>3, <1>4, <1>5, <1>6
     DEF Inv, WalkInv, NavP!SessionInv, NavP!ClaimInv, NavP!SupplementInv, NavP!PathInv
<1> QED
  BY <1>7, Invariant, PTL

(* And those of the transfer hold in every directory a walk leads to,      *)
(* whatever is there, an earlier upload's files included.                  *)
THEOREM TransferStaysSafe ==
  Spec => [](Trans!NoSilentOverwrite /\ Trans!UploadedIsThere /\ Trans!ReportsComplete)
<1> DEFINE Safe == Trans!NoSilentOverwrite /\ Trans!UploadedIsThere /\ Trans!ReportsComplete
<1>1. TransP!NoSilentOverwrite => Trans!NoSilentOverwrite
  BY Zenon DEF TransP!NoSilentOverwrite, Trans!NoSilentOverwrite, TransP!Shared, Trans!Shared
<1>2. TransP!UploadedIsThere => Trans!UploadedIsThere
  BY Zenon DEF TransP!UploadedIsThere, Trans!UploadedIsThere, TransP!Reported, Trans!Reported,
     TransP!Whole, Trans!Whole, TransP!Shared, Trans!Shared, TransP!Present, Trans!Present,
     TransP!Names, Trans!Names
<1>3. TransP!TypeInv /\ TransP!ReportInv => Trans!ReportsComplete
  BY TransAssumed, TransP!ReportsReceived DEF TransP!ReportsComplete, Trans!ReportsComplete
<1>4. Inv => Safe
  BY <1>1, <1>2, <1>3 DEF Inv, TransferInv, TransP!SilentInv, TransP!UploadInv
<1> QED
  BY <1>4, Invariant, PTL
-----------------------------------------------------------------------------
(* The refinement.  The one step that needs an invariant is the end of the *)
(* transfer: the signal is the worker's, which has said that it finished.  *)
LEMMA FinishedIsLast ==
  ASSUME TransferInv, gui = "waiting", worker # "emitted", posted # << >>, Head(posted) = TransP!Finished
  PROVE  worker = "ended"
<1>1. posted[1] = TransP!Finished /\ Len(posted) \in Nat \ {0}
  BY DEF TransferInv, TransP!TypeInv, TransP!TypeOK
<1> QED
  BY <1>1 DEF TransferInv, TransP!ReportInv, TransP!FinishedLast

LEMMA TaskInit == Init => Task!Init
BY DEF Init, Nav!Init, Task!Init, Stage

LEMMA TaskNext == Inv /\ [Next]_vars => [Task!Next]_Stage
<1> SUFFICES ASSUME Inv, [Next]_vars PROVE [Task!Next]_Stage
  OBVIOUS
<1> USE DEF Stage, Running
<1>0. /\ gui \in {"list", "ask", "waiting"} => pc = "ready"
      /\ gui \in {"box", "cancelled"} => pc = "box"
      /\ gui = "dead" => pc = "dead"
      /\ gui \in {"idle", "list", "ask", "cancelled", "waiting", "box", "dead"}
      /\ worker \in {"none", "open", "store", "size", "emitted", "ended"}
  BY DEF Inv, Together, TransferInv, TransP!TypeInv, TransP!TypeOK
<1>1. CASE ClickUpload
  <2>1. pc = "idle" /\ pc' \in {"box", "open"} /\ UNCHANGED gui
    BY <1>1, ClickWhenIdle DEF Inv, ClickUpload, Nav!ClickUpload, transfer
  <2> QED
    BY <1>0, <2>1 DEF Task!Next, Task!Click, Task!From
<1>2. CASE Walk \/ WalkUncaught
  <2>1. pc \in NavP!Working \ {"ready"} /\ pc' \in NavP!Working \cup {"box", "dead"} /\ UNCHANGED gui
    BY <1>2, WalkWorks DEF Walk, WalkUncaught, Nav!Uncaught, Nav!Working, NavP!Working, transfer
  <2> QED
    BY <1>0, <2>1 DEF Task!Next, Task!GiveUp, Task!End, Task!From, NavP!Working
<1>3. CASE TakeOver
  BY <1>0, <1>3 DEF TakeOver, Trans!TakeOver, walk
<1>4. CASE Window
  <2>1. pc = "ready" /\ UNCHANGED pc /\ gui' \in {"list", "ask", "waiting"}
    BY <1>4 DEF Window, walk
  <2>2. \/ gui \in {"list", "ask"} /\ gui' # "waiting"
        \/ gui = "ask" /\ gui' = "waiting" /\ worker' = "open"
        \/ UNCHANGED <<gui, worker>>
    BY <1>4, <2>1 DEF Window, Trans!Window, Trans!GetFiles, Trans!TakeNew, Trans!FollowFlag, Trans!AnswerYes,
       Trans!AnswerNo, Trans!LookUp, Trans!Asking, Trans!AnswerCancel, Trans!Start, Trans!on_FTPMessage,
       Trans!on_FTPFinished, Trans!CloseBox, Trans!working, Trans!asking
  <2> QED
    BY <1>0, <2>1, <2>2 DEF Task!Next, Task!Start, Task!From
<1>5. CASE Worker
  <2>1. pc = "ready" /\ UNCHANGED <<pc, gui>> /\ gui # "dead"
    BY <1>5 DEF Worker, Trans!Worker, Trans!OpenFile, Trans!StoreFile, Trans!CompareSize,
       Trans!EmitFinished, Trans!LeaveRun, Trans!Alive, walk
  <2>2. \/ worker \in {"open", "store", "size"} /\ worker' \in {"open", "store", "size", "emitted"}
        \/ worker = "emitted" /\ worker' = "ended"
    BY <1>5 DEF Worker, Trans!Worker, Trans!OpenFile, Trans!StoreFile, Trans!CompareSize,
       Trans!EmitFinished, Trans!LeaveRun
  <2> QED
    BY <1>0, <2>1, <2>2 DEF Task!Next, Task!SayFinished, Task!LeaveRun, Task!From
<1>6. CASE Ends
  <2>1. gui = "waiting" => worker = "ended"
    BY <1>6, EndsInBox, FinishedIsLast DEF Inv
  <2> QED
    BY <1>0, <1>6, <2>1, EndsInBox DEF Task!Next, Task!GiveUp, Task!Finish, Task!From
<1>7. CASE DeletedInRun \/ TransferUncaught
  <2>1. pc = "ready" /\ pc' = "dead"
    BY <1>7 DEF DeletedInRun, TransferUncaught, Dies
  <2> QED
    BY <1>0, <2>1 DEF Task!Next, Task!End
<1>8. CASE CloseBox
  <2>1. pc = "box" /\ pc' = "idle"
    BY <1>8 DEF CloseBox, Nav!CloseBox
  <2> QED
    BY <2>1 DEF Task!Next, Task!Return, Task!From
<1>9. CASE OtherMkdir \/ OtherPut \/ UNCHANGED vars
  BY <1>9 DEF OtherMkdir, Nav!OtherMkdir, Nav!gui, OtherPut, Trans!OtherPut, Trans!working, walk, transfer, vars
<1> QED
  BY <1>1, <1>2, <1>3, <1>4, <1>5, <1>6, <1>7, <1>8, <1>9 DEF Next, WindowThread

(* Walk, window and worker together go through the stages of UploadTask,   *)
(* in its order: in particular the end of an upload is told only after the *)
(* worker has left run().                                                  *)
THEOREM UploadImplementsTask == Spec => ImplementsTask
BY Invariant, TaskInit, TaskNext, PTL DEF Spec, ImplementsTask, Task!Spec
=============================================================================
