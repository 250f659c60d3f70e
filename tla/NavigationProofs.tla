--------------------------- MODULE NavigationProofs ---------------------------
(***************************************************************************)
(* What module Navigation checks on a small server, for every server,      *)
(* every path and any number of clients and sessions.                      *)
(***************************************************************************)
EXTENDS Navigation, SequenceTheorems, TLAPS

(* The last directory of a path and the rest of it. *)
LEMMA LastAndParent ==
  ASSUME NEW p \in Paths, p # << >>
  PROVE  /\ Parent(p) \in Paths
         /\ p[Len(p)] \in DirNames
         /\ p = Append(Parent(p), p[Len(p)])
BY DEF Paths, Parent

LEMMA ParentOfAppend ==
  ASSUME NEW c \in Paths, NEW d \in DirNames
  PROVE  /\ Append(c, d) \in Paths
         /\ Append(c, d) # << >>
         /\ Parent(Append(c, d)) = c
         /\ Append(c, d)[Len(Append(c, d))] = d
BY DEF Paths, Parent

(* What is listed is there, and is never "." or "..". *)
LEMMA ListingsExist ==
  ASSUME dirs \subseteq Paths, \A p \in dirs : Proper(p), cwd \in Paths,
         NEW l \in Listings, NEW d \in l
  PROVE  /\ d \in DirNames
         /\ d \notin Dots
         /\ Append(cwd, d) \in dirs
<1>1. d \in SubDirs(cwd)
  BY DEF Listings
<1>2. PICK q \in dirs : Parent(q) = cwd /\ d = q[Len(q)]
  BY <1>1 DEF SubDirs
<1>3. q \in Paths /\ q # << >> /\ q[Len(q)] \notin Dots
  BY <1>2 DEF Proper
<1>4. q = Append(cwd, d) /\ d \in DirNames
  BY <1>2, <1>3, LastAndParent
<1> QED
  BY <1>2, <1>3, <1>4

LEMMA EnterType ==
  ASSUME NEW c \in Paths, NEW d \in DirNames
  PROVE  Enter(c, d) \in Paths
<1>1. CASE c = << >>
  BY <1>1, ParentOfAppend DEF Enter
<1>2. CASE c # << >>
  BY <1>2, ParentOfAppend, LastAndParent DEF Enter
<1> QED
  BY <1>1, <1>2
-----------------------------------------------------------------------------
(* The steps.  In a whole upload (module Upload) the process may also end  *)
(* while the transfer goes on, with no exception from the network.  What   *)
(* follows holds there as well.                                            *)
End ==
  /\ pc = "ready"
  /\ pc' = "dead"
  /\ UNCHANGED <<server, history, control, uThread, session, path, seg, cwd, listing, sub, sessions>>

Step == Next \/ End

LEMMA NextIsStep == [Next]_vars => [Step]_vars
BY DEF Step
-----------------------------------------------------------------------------
(* Type correctness, together with the facts it rests on: the loop body    *)
(* runs only for a segment of the path, "." and ".." are never created,    *)
(* and no directory has such a name.                                       *)
InBody == Working \ {"open", "login", "segment", "ready"}

TypeInv ==
  /\ TypeOK
  /\ pc \in InBody => seg <= Len(path)
  /\ pc = "add" => sub \notin Dots
  /\ \A p \in dirs : Proper(p)

LEMMA TypeInit == Init => TypeInv
<1> SUFFICES ASSUME Init PROVE TypeInv
  OBVIOUS
<1>1. dirs \subseteq Paths /\ \A p \in dirs : Proper(p)
  BY NavigationAssumption DEF Init
<1>2. sub \in DirNames
  BY NavigationAssumption DEF Init, Dots
<1>3. path = << >> /\ seg \in 1 .. Len(path) + 1 /\ cwd \in Paths
  BY DEF Init, Paths
<1>4. sessions \in 0 .. MaxSessions
  BY NavigationAssumption DEF Init
<1>5. control \in BOOLEAN /\ uThread \in BOOLEAN
  BY DEF Init
<1>6. pc = "idle" /\ session = "closed" /\ listing = {}
  BY DEF Init
<1>7. made = {} /\ agreed = {} /\ owned = {}
  BY DEF Init
<1> QED
  BY <1>1, <1>2, <1>3, <1>4, <1>5, <1>6, <1>7 DEF TypeInv, TypeOK, PCs, InBody, Working

LEMMA OwnNameType ==
  ASSUME TypeOK, seg <= Len(path)
  PROVE  /\ path \in PathArrays
         /\ path[seg] \in Segment
         /\ path[seg].name \in DirNames
         /\ path[seg].name[2] = 0
<1>1. path # << >>
  BY DEF TypeOK
<1>2. path \in PathArrays /\ path \in Seq(Segment)
  BY <1>1, NavigationAssumption DEF TypeOK
<1>3. seg \in 1 .. Len(path)
  BY <1>2 DEF TypeOK
<1> QED
  <2>1. path[seg] \in Segment
    BY <1>2, <1>3
  <2>2. path[seg].name \in DirNames
    BY <2>1 DEF Segment
  <2>3. path[seg].name[2] = 0
    BY <1>2, <1>3, NavigationAssumption
  <2> QED
    BY <1>2, <2>1, <2>2, <2>3

LEMMA MkdirType ==
  ASSUME TypeInv, sub \notin Dots, Mkdir(Append(cwd, sub))
  PROVE  /\ dirs' \subseteq Paths /\ made' \subseteq dirs'
         /\ \A p \in dirs' : Proper(p)
<1>1. Append(cwd, sub) \in Paths /\ Proper(Append(cwd, sub))
  BY ParentOfAppend DEF TypeInv, TypeOK, Proper
<1> QED
  BY <1>1 DEF TypeInv, TypeOK, Mkdir
-----------------------------------------------------------------------------
(* One step per action. *)
LEMMA TypeNext == TypeInv /\ [Step]_vars => TypeInv'
<1> SUFFICES ASSUME TypeInv, [Step]_vars PROVE TypeInv'
  OBVIOUS
<1> USE DEF TypeInv, TypeOK, PCs, InBody, Working, server, gui, history
<1>1. CASE ClickUpload
  <2>1. Dot \in DirNames /\ << >> \in Paths /\ path' \in PathArrays \cup {<< >>}
    BY <1>1, NavigationAssumption DEF ClickUpload, Dots, Paths
  <2>2. Len(path') \in Nat
    BY <2>1, NavigationAssumption
  <2>3. sessions' \in 0 .. MaxSessions
    BY <1>1, NavigationAssumption DEF ClickUpload
  <2>4. seg' \in 1 .. Len(path') + 1
    BY <1>1, <2>2 DEF ClickUpload
  <2>5. pc' \in {"box", "open"} /\ uThread' \in BOOLEAN /\ session' \in {"closed", "open", "loggedIn"}
    BY <1>1 DEF ClickUpload
  <2> QED
    BY <1>1, <2>1, <2>3, <2>4, <2>5 DEF ClickUpload
<1>2. CASE CloseBox \/ Open \/ Login \/ TransferEnds \/ Uncaught \/ End
  BY <1>2 DEF CloseBox, Open, Login, TransferEnds, Uncaught, End, GiveUp
<1>3. CASE PathEnds \/ AnswerYes \/ AnswerCancel
  BY <1>3 DEF PathEnds, AnswerYes, AnswerCancel, Goto, GiveUp
<1>4. CASE OfferDirectories
  <2>1. listing' \subseteq DirNames
    BY <1>4, ListingsExist DEF OfferDirectories
  <2> QED
    BY <1>4, <2>1 DEF OfferDirectories, Goto
<1>5. CASE Pick
  BY <1>5 DEF Pick, Goto, GiveUp
<1>6. CASE LookForOwn
  <2>1. listing' \subseteq DirNames
    BY <1>6, ListingsExist DEF LookForOwn
  <2>2. seg <= Len(path) /\ UNCHANGED <<server, control, uThread, session, path, seg, cwd, sessions, history>>
    BY <1>6 DEF LookForOwn, Goto
  <2>3. path[seg].name \in DirNames
    BY <2>2, OwnNameType
  <2>4. sub' \in DirNames /\ pc' \in {"ask", "addList"}
    <3>1. CASE path[seg].name \in listing'
      <4>1. PICK k \in 1 .. Cardinality(listing') + 1 : sub' = <<path[seg].name[1], k>>
        BY <1>6, <3>1 DEF LookForOwn
      <4> QED
        BY <1>6, <2>3, <3>1, <4>1 DEF LookForOwn, Goto, DirNames
    <3>2. CASE path[seg].name \notin listing'
      BY <1>6, <2>3, <3>2 DEF LookForOwn, Goto
    <3> QED
      BY <3>1, <3>2
  <2> QED
    BY <2>1, <2>2, <2>4
<1>7. CASE AnswerNo
  <2>1. path[seg].name \in DirNames
    BY <1>7, OwnNameType DEF AnswerNo
  <2> QED
    BY <1>7, <2>1, ParentOfAppend DEF AnswerNo, Goto
<1>8. CASE TakePlain
  <2>1. path[seg].name \in DirNames
    BY <1>8, OwnNameType DEF TakePlain
  <2> QED
    BY <1>8, <2>1 DEF TakePlain, Goto
<1>9. CASE AddDirectoryList \/ SetDirectoryList
  BY <1>9 DEF AddDirectoryList, SetDirectoryList, Goto, GiveUp
<1>10. CASE AddDirectory
  <2>1. UNCHANGED <<control, path, seg, cwd, listing, sub, sessions, agreed, owned>> /\ seg <= Len(path)
    BY <1>10 DEF AddDirectory, GiveUp
  <2>2. pc' \in {"setList", "box", "dead"} /\ session' \in {session, "closed"} /\ uThread' \in {uThread, FALSE}
    BY <1>10 DEF AddDirectory, GiveUp
  <2>3. UNCHANGED <<dirs, made>> \/ Mkdir(Append(cwd, sub))
    BY <1>10 DEF AddDirectory
  <2>4. sub \notin Dots
    BY <1>10 DEF AddDirectory
  <2>5. dirs' \subseteq Paths /\ made' \subseteq dirs' /\ \A p \in dirs' : Proper(p)
    BY <2>3, <2>4, MkdirType
  <2> QED
    BY <2>1, <2>2, <2>5
<1>11. CASE SetDirectory
  <2>1. Enter(cwd, sub) \in Paths
    BY EnterType
  <2>2. path # << >> /\ Len(path) \in Nat
    BY <1>11, NavigationAssumption DEF SetDirectory
  <2> QED
    <3>1. UNCHANGED <<dirs, control, path, listing, sub, sessions, made, agreed>>
      BY <1>11 DEF SetDirectory, GiveUp
    <3>2. cwd' \in Paths /\ owned' \subseteq Paths
      BY <1>11, <2>1 DEF SetDirectory, GiveUp
    <3>3. seg' \in 1 .. Len(path') + 1
      BY <1>11, <2>2, <3>1 DEF SetDirectory, NextSegment, GiveUp
    <3>4. pc' \in {"segment", "box"} /\ session' \in {session, "closed"} /\ uThread' \in {uThread, FALSE}
      BY <1>11 DEF SetDirectory, GiveUp
    <3> QED
      BY <3>1, <3>2, <3>3, <3>4
<1>12. CASE \E p \in OtherDirs : OtherMkdir(p)
  BY <1>12, NavigationAssumption DEF OtherMkdir
<1>13. CASE UNCHANGED vars
  BY <1>13 DEF vars
<1> QED
  BY <1>1, <1>2, <1>3, <1>4, <1>5, <1>6, <1>7, <1>8, <1>9, <1>10, <1>11, <1>12, <1>13
     DEF Step, Next, Progress

(* The invariant every other proof uses. *)
LEMMA TypeInvariant == Spec => []TypeInv
<1>1. Init => TypeInv
  BY TypeInit
<1>2. TypeInv /\ [Step]_vars => TypeInv'
  BY TypeNext
<1> QED
  BY <1>1, <1>2, NextIsStep, PTL DEF Spec

(* Every state of every session is well typed. *)
THEOREM TypeCorrect == Spec => []TypeOK
<1>1. TypeInv => TypeOK
  BY DEF TypeInv
<1> QED
  BY <1>1, TypeInvariant, PTL
-----------------------------------------------------------------------------
(* The session: SessionHeld needs to know in addition that the buttons are *)
(* disabled while the slot works, that it works on an UploadThread from    *)
(* the start and that a warning comes after the end of the session.        *)
SessionInv ==
  /\ SessionHeld
  /\ pc \in {"open", "login"} => uThread
  /\ pc = "box" => session = "closed" /\ ~uThread
  /\ pc \in Working \cup {"box", "dead"} => ~control

LEMMA SessionInit == Init => SessionInv
BY DEF Init, SessionInv, SessionHeld, Navigating, Working

LEMMA SessionNext == SessionInv /\ [Step]_vars => SessionInv'
<1> SUFFICES ASSUME SessionInv, [Step]_vars PROVE SessionInv'
  OBVIOUS
<1> USE DEF SessionInv, SessionHeld, Navigating, Working, server, gui, history
<1>1. CASE ClickUpload \/ CloseBox \/ Open \/ Login
  BY <1>1 DEF ClickUpload, CloseBox, Open, Login, GiveUp
<1>2. CASE PathEnds \/ OfferDirectories \/ Pick
  BY <1>2 DEF PathEnds, OfferDirectories, Pick, Goto, GiveUp
<1>3. CASE LookForOwn \/ TakePlain
  BY <1>3 DEF LookForOwn, TakePlain, Goto
<1>4. CASE AnswerYes \/ AnswerNo \/ AnswerCancel
  BY <1>4 DEF AnswerYes, AnswerNo, AnswerCancel, Goto, GiveUp
<1>5. CASE AddDirectoryList \/ AddDirectory
  BY <1>5 DEF AddDirectoryList, AddDirectory, Goto, GiveUp
<1>6. CASE SetDirectoryList \/ SetDirectory
  BY <1>6 DEF SetDirectoryList, SetDirectory, Goto, GiveUp
<1>7. CASE TransferEnds \/ Uncaught \/ End \/ UNCHANGED vars
  BY <1>7 DEF TransferEnds, Uncaught, End, GiveUp, vars
<1>8. CASE \E p \in OtherDirs : OtherMkdir(p)
  BY <1>8 DEF OtherMkdir
<1> QED
  BY <1>1, <1>2, <1>3, <1>4, <1>5, <1>6, <1>7, <1>8 DEF Step, Next, Progress

(* On none of the ways out of on_upload_clicked a session is left behind,  *)
(* and no directory is listed, made or entered without a login.            *)
THEOREM SessionIsHeld == Spec => []SessionHeld
<1>1. SessionInv => SessionHeld
  BY DEF SessionInv
<1> QED
  BY <1>1, SessionInit, SessionNext, NextIsStep, PTL DEF Spec
-----------------------------------------------------------------------------
(* The student's own directory.  From the creation of the directory, or    *)
(* the answer that reuses it, until it is entered, sub names it.           *)
ClaimInv ==
  /\ OwnDirectoryClaimed
  /\ pc \in {"ask", "addList", "add"} => path[seg].kind = "own"
  /\ pc = "pick" => path[seg].kind = "pick"
  /\ pc = "ask" => path[seg].name \notin Dots
  /\ pc \in {"setList", "set"} /\ path[seg].kind = "own" =>
       sub \notin Dots /\ Append(cwd, sub) \in made \cup agreed

LEMMA ClaimInit == Init => ClaimInv
BY DEF Init, ClaimInv, OwnDirectoryClaimed

LEMMA ClaimNext == TypeInv /\ ClaimInv /\ [Step]_vars => ClaimInv'
<1> SUFFICES ASSUME TypeInv, ClaimInv, [Step]_vars PROVE ClaimInv'
  OBVIOUS
<1> USE DEF ClaimInv, OwnDirectoryClaimed, server, gui, history
<1>1. CASE ClickUpload \/ CloseBox \/ Open \/ Login
  BY <1>1 DEF ClickUpload, CloseBox, Open, Login, GiveUp
<1>2. CASE PathEnds \/ OfferDirectories
  BY <1>2 DEF PathEnds, OfferDirectories, Goto
<1>3. CASE Pick
  BY <1>3 DEF Pick, Goto, GiveUp
<1>4. CASE LookForOwn
  <2>1. path[seg].name \in listing' => path[seg].name \notin Dots
    BY <1>4, ListingsExist DEF LookForOwn, TypeInv, TypeOK
  <2> QED
    BY <1>4, <2>1 DEF LookForOwn, Goto
<1>5. CASE TakePlain
  BY <1>5 DEF TakePlain, Goto
<1>6. CASE AnswerYes \/ AnswerNo \/ AnswerCancel
  BY <1>6 DEF AnswerYes, AnswerNo, AnswerCancel, Goto, GiveUp
<1>7. CASE AddDirectoryList
  BY <1>7 DEF AddDirectoryList, Goto, GiveUp
<1>8. CASE AddDirectory
  BY <1>8 DEF AddDirectory, Mkdir, GiveUp, TypeInv
<1>9. CASE SetDirectoryList
  BY <1>9 DEF SetDirectoryList, Goto, GiveUp
<1>10. CASE SetDirectory
  <2>1. path[seg].kind = "own" => Enter(cwd, sub) \in made \cup agreed
    BY <1>10 DEF SetDirectory, Enter, Dots
  <2> QED
    BY <1>10, <2>1 DEF SetDirectory, GiveUp
<1>11. CASE TransferEnds \/ Uncaught \/ End \/ UNCHANGED vars
  BY <1>11 DEF TransferEnds, Uncaught, End, GiveUp, vars
<1>12. CASE \E p \in OtherDirs : OtherMkdir(p)
  BY <1>12 DEF OtherMkdir
<1> QED
  BY <1>1, <1>2, <1>3, <1>4, <1>5, <1>6, <1>7, <1>8, <1>9, <1>10, <1>11, <1>12
     DEF Step, Next, Progress

(* No session works in a directory that was there before it without the    *)
(* student's consent, for any path, any races and any faults.              *)
THEOREM OwnDirectoryIsClaimed == Spec => []OwnDirectoryClaimed
<1>1. ClaimInv => OwnDirectoryClaimed
  BY DEF ClaimInv
<1> QED
  BY <1>1, TypeInvariant, ClaimInit, ClaimNext, NextIsStep, PTL DEF Spec
-----------------------------------------------------------------------------
(* Supplements.  Between the choice of a number and MKD the directories    *)
(* below the number stay: nobody removes directories.                      *)
Complete(c, d) == \A j \in 0 .. d[2] - 1 : Append(c, <<d[1], j>>) \in dirs

SupplementInv ==
  /\ SupplementsInOrder
  /\ pc \in {"ask", "addList", "add"} => Complete(cwd, sub)

LEMMA SupplementInit == Init => SupplementInv
BY DEF Init, SupplementInv, SupplementsInOrder

(* Directories only come: what was in order stays in order. *)
LEMMA OrderKept ==
  ASSUME SupplementsInOrder, dirs \subseteq dirs', made' = made
  PROVE  SupplementsInOrder'
BY DEF SupplementsInOrder, Parent

LEMMA CompleteKept ==
  ASSUME Complete(cwd, sub), dirs \subseteq dirs', UNCHANGED <<cwd, sub>>
  PROVE  Complete(cwd, sub)'
BY DEF Complete

LEMMA SupplementNext == TypeInv /\ SupplementInv /\ [Step]_vars => SupplementInv'
<1> SUFFICES ASSUME TypeInv, SupplementInv, [Step]_vars PROVE SupplementInv'
  OBVIOUS
<1> USE DEF server, gui, history
<1>1. CASE ClickUpload
  BY <1>1 DEF ClickUpload, SupplementInv, SupplementsInOrder
<1>2. CASE CloseBox \/ Open \/ Login \/ TransferEnds \/ Uncaught \/ End
  <2>1. UNCHANGED <<dirs, made>> /\ pc' \notin {"ask", "addList", "add"}
    BY <1>2 DEF CloseBox, Open, Login, TransferEnds, Uncaught, End, GiveUp
  <2> QED
    BY <2>1, OrderKept DEF SupplementInv
<1>3. CASE PathEnds \/ OfferDirectories \/ Pick \/ TakePlain \/ SetDirectoryList \/ SetDirectory
  <2>1. UNCHANGED <<dirs, made>> /\ pc' \notin {"ask", "addList", "add"}
    BY <1>3 DEF PathEnds, OfferDirectories, Pick, TakePlain, SetDirectoryList, SetDirectory, Goto, GiveUp
  <2> QED
    BY <2>1, OrderKept DEF SupplementInv
<1>4. CASE LookForOwn
  <2>1. UNCHANGED <<dirs, made, cwd>> /\ seg <= Len(path)
    BY <1>4 DEF LookForOwn, Goto
  <2>2. path[seg].name \in DirNames /\ path[seg].name[2] = 0
    BY <2>1, OwnNameType DEF TypeInv
  <2>3. Complete(cwd, sub')
    <3>1. CASE path[seg].name \notin listing'
      BY <1>4, <2>2, <3>1 DEF LookForOwn, Complete
    <3>2. CASE path[seg].name \in listing'
      <4> DEFINE own == path[seg].name
      <4>1. PICK k \in 1 .. Cardinality(listing') + 1 :
              IsSupplement(own, listing', k) /\ sub' = <<own[1], k>>
        BY <1>4, <3>2 DEF LookForOwn
      <4>2. own = <<own[1], 0>>
        BY <2>2 DEF DirNames
      <4>3. ASSUME NEW j \in 0 .. k - 1 PROVE <<own[1], j>> \in listing'
        BY <3>2, <4>1, <4>2 DEF IsSupplement
      <4>4. ASSUME NEW j \in 0 .. k - 1 PROVE Append(cwd, <<own[1], j>>) \in dirs
        BY <1>4, <4>3, ListingsExist DEF LookForOwn, TypeInv, TypeOK
      <4> QED
        BY <4>1, <4>4 DEF Complete
    <3> QED
      BY <3>1, <3>2
  <2>4. Complete(cwd, sub)'
    BY <2>1, <2>3 DEF Complete
  <2> QED
    BY <2>1, <2>4, OrderKept DEF SupplementInv
<1>5. CASE AnswerYes \/ AddDirectoryList
  <2>1. UNCHANGED <<dirs, made, cwd, sub>> /\ pc \in {"ask", "addList", "add"}
    BY <1>5 DEF AnswerYes, AddDirectoryList, Goto, GiveUp
  <2> QED
    BY <2>1, OrderKept, CompleteKept DEF SupplementInv
<1>6. CASE AnswerNo \/ AnswerCancel
  <2>1. UNCHANGED <<dirs, made>> /\ pc' \notin {"ask", "addList", "add"}
    BY <1>6 DEF AnswerNo, AnswerCancel, Goto, GiveUp
  <2> QED
    BY <2>1, OrderKept DEF SupplementInv
<1>7. CASE AddDirectory
  <2>1. pc = "add" /\ pc' \notin {"ask", "addList", "add"}
    BY <1>7 DEF AddDirectory, GiveUp
  <2>2. CASE UNCHANGED <<dirs, made>>
    BY <2>1, <2>2, OrderKept DEF SupplementInv
  <2>3. CASE Mkdir(Append(cwd, sub))
    <3>1. Complete(cwd, sub) /\ dirs \subseteq dirs'
      BY <2>1, <2>3 DEF SupplementInv, Mkdir
    <3>2. /\ Parent(Append(cwd, sub)) = cwd
          /\ Append(cwd, sub)[Len(Append(cwd, sub))] = sub
      BY ParentOfAppend DEF TypeInv, TypeOK
    <3>3. ASSUME NEW p \in made'
          PROVE  \A j \in 0 .. p[Len(p)][2] - 1 : Append(Parent(p), <<p[Len(p)][1], j>>) \in dirs'
      <4>1. CASE p \in made
        BY <3>1, <4>1 DEF SupplementInv, SupplementsInOrder
      <4>2. CASE p = Append(cwd, sub)
        BY <3>1, <3>2, <4>2 DEF Complete
      <4> QED
        BY <2>3, <4>1, <4>2 DEF Mkdir
    <3>4. SupplementsInOrder'
      BY <3>3 DEF SupplementsInOrder, Parent
    <3> QED
      BY <2>1, <3>4 DEF SupplementInv
  <2> QED
    BY <1>7, <2>2, <2>3 DEF AddDirectory
<1>8. CASE \E p \in OtherDirs : OtherMkdir(p)
  <2>1. dirs \subseteq dirs' /\ UNCHANGED <<made, cwd, sub, pc>>
    BY <1>8 DEF OtherMkdir
  <2> QED
    BY <2>1, OrderKept, CompleteKept DEF SupplementInv
<1>9. CASE UNCHANGED vars
  <2>1. dirs \subseteq dirs' /\ UNCHANGED <<made, cwd, sub, pc>>
    BY <1>9 DEF vars
  <2> QED
    BY <2>1, OrderKept, CompleteKept DEF SupplementInv
<1> QED
  BY <1>1, <1>2, <1>3, <1>4, <1>5, <1>6, <1>7, <1>8, <1>9 DEF Step, Next, Progress

(* Supplementary directories are numbered without gaps, even where others  *)
(* create directories of the same numbering at the same time.              *)
THEOREM SupplementsAreInOrder == Spec => []SupplementsInOrder
<1>1. SupplementInv => SupplementsInOrder
  BY DEF SupplementInv
<1> QED
  BY <1>1, TypeInvariant, SupplementInit, SupplementNext, NextIsStep, PTL DEF Spec
-----------------------------------------------------------------------------
(* What is left over.  Every directory made so far was entered, unless it  *)
(* is the one the loop is about to enter.                                  *)
LeftOverInv ==
  /\ made \ owned \subseteq {Append(cwd, sub)}
  /\ pc \in {"open", "login", "segment", "pick", "ask", "addList", "add"} => made \subseteq owned
  /\ pc \in {"setList", "set"} /\ path[seg].kind # "own" => made \subseteq owned

LEMMA LeftOverInit == Init => LeftOverInv
BY DEF Init, LeftOverInv

LEMMA LeftOverNext == TypeInv /\ ClaimInv /\ LeftOverInv /\ [Step]_vars => LeftOverInv'
<1> SUFFICES ASSUME TypeInv, ClaimInv, LeftOverInv, [Step]_vars PROVE LeftOverInv'
  OBVIOUS
<1> USE DEF LeftOverInv, server, gui, history
<1>1. CASE ClickUpload \/ CloseBox \/ Open \/ Login
  BY <1>1 DEF ClickUpload, CloseBox, Open, Login, GiveUp
<1>2. CASE PathEnds \/ OfferDirectories \/ Pick
  BY <1>2, Zenon DEF PathEnds, OfferDirectories, Pick, Goto, GiveUp
<1>3. CASE LookForOwn
  <2>1. UNCHANGED <<made, owned>> /\ made \subseteq owned /\ pc' \notin {"setList", "set"}
    BY <1>3 DEF LookForOwn, Goto
  <2> QED
    BY <2>1
<1>4. CASE TakePlain \/ AnswerYes \/ AnswerNo \/ AnswerCancel
  BY <1>4 DEF TakePlain, AnswerYes, AnswerNo, AnswerCancel, Goto, GiveUp
<1>5. CASE AddDirectoryList \/ SetDirectoryList
  BY <1>5 DEF AddDirectoryList, SetDirectoryList, Goto, GiveUp
<1>6. CASE AddDirectory
  <2>1. /\ made' \subseteq made \cup {Append(cwd, sub)} /\ UNCHANGED <<cwd, sub, owned, path, seg>>
        /\ pc' \in {"setList", "box", "dead"}
    BY <1>6 DEF AddDirectory, Mkdir, GiveUp
  <2>2. made \subseteq owned /\ path[seg].kind = "own"
    BY <1>6 DEF AddDirectory, ClaimInv
  <2> QED
    BY <2>1, <2>2
<1>7. CASE SetDirectory
  <2>1. CASE GiveUp /\ UNCHANGED owned
    BY <1>7, <2>1 DEF SetDirectory, GiveUp
  <2>2. CASE path[seg].kind = "own" /\ owned' = owned \cup {Enter(cwd, sub)}
    <3>1. Enter(cwd, sub) = Append(cwd, sub)
      BY <1>7, <2>2 DEF SetDirectory, ClaimInv, Enter, Dots
    <3> QED
      BY <1>7, <2>2, <3>1 DEF SetDirectory, GiveUp
  <2>3. CASE path[seg].kind # "own" /\ UNCHANGED owned
    BY <1>7, <2>3 DEF SetDirectory, GiveUp
  <2> QED
    BY <1>7, <2>1, <2>2, <2>3 DEF SetDirectory
<1>8. CASE TransferEnds \/ Uncaught \/ End \/ UNCHANGED vars
  BY <1>8 DEF TransferEnds, Uncaught, End, GiveUp, vars
<1>9. CASE \E p \in OtherDirs : OtherMkdir(p)
  BY <1>9 DEF OtherMkdir
<1> QED
  BY <1>1, <1>2, <1>3, <1>4, <1>5, <1>6, <1>7, <1>8, <1>9 DEF Step, Next, Progress
-----------------------------------------------------------------------------
(* The working directory.  While the loop is busy with a segment, sub fits *)
(* it; and what is entered is never "." or "..", unless the path says so.  *)
Fits(s, d) ==
  \/ s.kind = "pick"
  \/ s.kind = "own" /\ d[1] = s.name[1]
  \/ s.kind = "plain" /\ d = s.name

LEMMA FollowsOn ==
  ASSUME NEW c \in Paths, NEW d \in DirNames, NEW p \in Seq(Segment), NEW k \in 1 .. Len(p),
         Follows(c, SubSeq(p, 1, k - 1)), Fits(p[k], d)
  PROVE  Follows(Append(c, d), SubSeq(p, 1, k))
<1>1. /\ Len(SubSeq(p, 1, k - 1)) = k - 1 /\ Len(SubSeq(p, 1, k)) = k
      /\ \A i \in 1 .. k - 1 : SubSeq(p, 1, k - 1)[i] = p[i]
      /\ \A i \in 1 .. k : SubSeq(p, 1, k)[i] = p[i]
  BY SubSeqProperties
<1>2. Len(c) = k - 1
  BY <1>1 DEF Follows
<1>3. /\ Len(Append(c, d)) = k /\ Append(c, d)[k] = d
      /\ \A i \in 1 .. k - 1 : Append(c, d)[i] = c[i]
  BY <1>2 DEF Paths
<1>4. ASSUME NEW i \in 1 .. k
      PROVE  Fits(SubSeq(p, 1, k)[i], Append(c, d)[i])
  <2>1. CASE i = k
    BY <1>1, <1>3, <2>1
  <2>2. CASE i # k
    <3>1. i \in 1 .. k - 1
      BY <2>2
    <3>2. Fits(SubSeq(p, 1, k - 1)[i], c[i])
      BY <1>1, <3>1 DEF Follows, Fits
    <3> QED
      BY <1>1, <1>3, <3>1, <3>2
  <2> QED
    BY <2>1, <2>2
<1> QED
  BY <1>1, <1>3, <1>4 DEF Follows, Fits

PathInv ==
  /\ CwdFollowsPath
  /\ pc \in {"open", "login"} => seg = 1 /\ cwd = << >>
  /\ pc = "pick" => listing \cap Dots = {}
  /\ pc \in {"ask", "addList", "add"} => sub[1] = path[seg].name[1]
  /\ pc \in {"setList", "set"} =>
       Fits(path[seg], sub) /\ (path[seg].kind = "pick" => sub \notin Dots)

LEMMA PathInit == Init => PathInv
BY DEF Init, PathInv, CwdFollowsPath, Navigating, Working

(* A step that leaves the loop where it is, or leaves the loop. *)
LEMMA CwdKept ==
  ASSUME CwdFollowsPath, UNCHANGED <<path, seg, cwd>>, pc' \in Navigating => pc \in Navigating
  PROVE  CwdFollowsPath'
BY DEF CwdFollowsPath, Follows, HasDots, Dots, Dot, DotDot, Navigating, Working

(* What else the invariant says of a step that keeps CwdFollowsPath. *)
LEMMA PathStep ==
  ASSUME CwdFollowsPath',
         \/ pc' \notin {"open", "login", "pick", "ask", "addList", "add", "setList", "set"}
         \/ pc' = "pick" /\ listing' \cap Dots = {}
         \/ pc' \in {"ask", "addList", "add"} /\ sub'[1] = path'[seg'].name[1]
         \/ /\ pc' \in {"setList", "set"}
            /\ Fits(path'[seg'], sub')
            /\ path'[seg'].kind = "pick" => sub' \notin Dots
  PROVE  PathInv'
BY DEF PathInv, Fits, Dots, Dot, DotDot

(* On a path without dots a directory that is entered is one below.        *)
LEMMA EntersBelow ==
  ASSUME TypeInv, ClaimInv, PathInv, SetDirectory, pc' = "segment", ~HasDots(path)
  PROVE  cwd' = Append(cwd, sub) /\ seg' = seg + 1
<1>1. pc = "set" /\ seg <= Len(path)
  BY DEF SetDirectory, TypeInv, InBody, Working
<1>2. path \in Seq(Segment) /\ seg \in 1 .. Len(path)
  BY <1>1, NavigationAssumption, OwnNameType DEF TypeInv, TypeOK
<1>3. cwd' = Enter(cwd, sub) /\ seg' = seg + 1
  BY DEF SetDirectory, NextSegment, GiveUp
<1>4. path[seg].name \notin Dots
  BY <1>2 DEF HasDots
<1>5. sub \notin Dots
  BY <1>1, <1>4 DEF Fits, PathInv, ClaimInv
<1> QED
  BY <1>3, <1>5 DEF Enter, Dots

LEMMA PathNext == TypeInv /\ ClaimInv /\ PathInv /\ [Step]_vars => PathInv'
<1> SUFFICES ASSUME TypeInv, ClaimInv, PathInv, [Step]_vars PROVE PathInv'
  OBVIOUS
<1> USE DEF server, gui, history
<1>1. CASE ClickUpload
  BY <1>1 DEF ClickUpload, PathInv, CwdFollowsPath, Navigating, Working
<1>2. CASE Open
  BY <1>2 DEF Open, GiveUp, PathInv, CwdFollowsPath, Navigating, Working
<1>3. CASE Login
  <2>1. path \in Seq(Segment)
    <3>1. << >> \in Seq(Segment)
      OBVIOUS
    <3>2. path \in PathArrays \/ path = << >>
      BY Zenon DEF TypeInv, TypeOK
    <3> QED
      BY <3>1, <3>2, NavigationAssumption
  <2>2. Len(SubSeq(path, 1, 0)) = 0
    BY <2>1
  <2>3. Follows(<< >>, SubSeq(path, 1, 0))
    BY <2>2 DEF Follows
  <2>4. UNCHANGED <<path, seg, cwd>> /\ seg = 1 /\ cwd = << >> /\ pc' \in {"segment", "box"}
    BY <1>3 DEF Login, GiveUp, PathInv
  <2>5. CwdFollowsPath'
    BY <2>3, <2>4 DEF CwdFollowsPath
  <2> QED
    BY <2>4, <2>5, PathStep
<1>4. CASE CloseBox \/ TransferEnds \/ Uncaught \/ End \/ PathEnds
  <2>1. /\ UNCHANGED <<path, seg, cwd>> /\ pc' \in {"idle", "box", "dead", "ready"}
        /\ pc' \in Navigating => pc \in Navigating
    BY <1>4 DEF CloseBox, TransferEnds, Uncaught, End, PathEnds, Goto, GiveUp, Navigating, Working
  <2> QED
    BY <2>1, CwdKept, PathStep DEF PathInv
<1>5. CASE OfferDirectories
  <2>1. UNCHANGED <<path, seg, cwd>> /\ pc' = "pick" /\ pc \in Navigating /\ listing' \cap Dots = {}
    BY <1>5, ListingsExist DEF OfferDirectories, Goto, Navigating, Working, TypeInv, TypeOK
  <2> QED
    BY <2>1, CwdKept, PathStep DEF PathInv
<1>6. CASE Pick
  <2>1. UNCHANGED <<path, seg, cwd>> /\ pc \in Navigating /\ path[seg].kind = "pick"
    BY <1>6 DEF Pick, Goto, GiveUp, Navigating, Working, ClaimInv
  <2>2. pc' = "box" \/ (pc' = "setList" /\ sub' \notin Dots)
    BY <1>6 DEF Pick, Goto, GiveUp, PathInv
  <2> QED
    BY <2>1, <2>2, CwdKept, PathStep DEF PathInv, Fits
<1>7. CASE LookForOwn
  <2>1. UNCHANGED <<path, seg, cwd>> /\ pc \in Navigating /\ pc' \in {"ask", "addList"}
    BY <1>7 DEF LookForOwn, Goto, Navigating, Working
  <2>2. sub'[1] = path[seg].name[1]
    BY <1>7 DEF LookForOwn
  <2> QED
    BY <2>1, <2>2, CwdKept, PathStep DEF PathInv
<1>8. CASE AnswerYes \/ AddDirectoryList
  <2>1. /\ UNCHANGED <<path, seg, cwd, sub>> /\ pc' \in {"addList", "add", "box"}
        /\ pc \in Navigating /\ sub[1] = path[seg].name[1]
    BY <1>8 DEF AnswerYes, AddDirectoryList, Goto, GiveUp, Navigating, Working, PathInv
  <2> QED
    BY <2>1, CwdKept, PathStep DEF PathInv
<1>9. CASE AnswerNo
  <2>1. /\ UNCHANGED <<path, seg, cwd>> /\ pc' = "setList" /\ sub' = path[seg].name
        /\ pc \in Navigating /\ path[seg].kind = "own"
    BY <1>9 DEF AnswerNo, Goto, Navigating, Working, ClaimInv
  <2> QED
    BY <2>1, CwdKept, PathStep DEF PathInv, Fits
<1>10. CASE AnswerCancel
  <2>1. UNCHANGED <<path, seg, cwd>> /\ pc' = "box" /\ pc \in Navigating
    BY <1>10 DEF AnswerCancel, GiveUp, Navigating, Working
  <2> QED
    BY <2>1, CwdKept, PathStep DEF PathInv
<1>11. CASE TakePlain
  <2>1. /\ UNCHANGED <<path, seg, cwd>> /\ pc' = "setList" /\ sub' = path[seg].name
        /\ pc \in Navigating /\ path[seg].kind = "plain"
    BY <1>11 DEF TakePlain, Goto, Navigating, Working
  <2> QED
    BY <2>1, CwdKept, PathStep DEF PathInv, Fits
<1>12. CASE AddDirectory
  <2>1. /\ UNCHANGED <<path, seg, cwd, sub>> /\ pc' \in {"setList", "box", "dead"}
        /\ pc \in Navigating /\ sub[1] = path[seg].name[1] /\ path[seg].kind = "own"
    BY <1>12 DEF AddDirectory, GiveUp, Navigating, Working, PathInv, ClaimInv
  <2> QED
    BY <2>1, CwdKept, PathStep DEF PathInv, Fits
<1>13. CASE SetDirectoryList
  <2>1. /\ UNCHANGED <<path, seg, cwd, sub>> /\ pc' \in {"set", "box"} /\ pc \in Navigating
        /\ Fits(path[seg], sub) /\ (path[seg].kind = "pick" => sub \notin Dots)
    BY <1>13 DEF SetDirectoryList, Goto, GiveUp, Navigating, Working, PathInv
  <2> QED
    BY <2>1, CwdKept, PathStep DEF PathInv
<1>14. CASE SetDirectory
  <2>1. pc = "set" /\ UNCHANGED path /\ pc' \in {"segment", "box"} /\ seg <= Len(path)
    BY <1>14 DEF SetDirectory, GiveUp, TypeInv, InBody, Working
  <2>2. path \in Seq(Segment) /\ seg \in 1 .. Len(path) /\ cwd \in Paths /\ sub \in DirNames
    BY <2>1, NavigationAssumption, OwnNameType DEF TypeInv, TypeOK
  <2>3. CASE pc' = "box"
    BY <2>3, PathStep DEF CwdFollowsPath, Navigating, Working
  <2>4. CASE pc' = "segment" /\ HasDots(path)
    <3>1. HasDots(path)'
      BY <2>1, <2>4 DEF HasDots, Dots, Dot, DotDot
    <3> QED
      BY <2>4, <3>1, PathStep DEF CwdFollowsPath
  <2>5. CASE pc' = "segment" /\ ~HasDots(path)
    <3>1. cwd' = Append(cwd, sub) /\ seg' = seg + 1
      BY <1>14, <2>5, EntersBelow
    <3>2. Fits(path[seg], sub) /\ Follows(cwd, SubSeq(path, 1, seg - 1))
      BY <2>1, <2>5 DEF PathInv, CwdFollowsPath, Navigating, Working
    <3>3. Follows(Append(cwd, sub), SubSeq(path, 1, seg))
      BY <2>2, <3>2, FollowsOn
    <3>4. Follows(cwd, SubSeq(path, 1, seg - 1))'
      <4>1. seg' - 1 = seg
        BY <2>2, <3>1
      <4> QED
        BY <2>1, <3>1, <3>3, <4>1
    <3>5. CwdFollowsPath'
      BY <3>4 DEF CwdFollowsPath
    <3> QED
      BY <2>5, <3>5, PathStep
  <2> QED
    BY <2>1, <2>3, <2>4, <2>5
<1>15. CASE (\E p \in OtherDirs : OtherMkdir(p)) \/ UNCHANGED vars
  <2>1. UNCHANGED <<path, seg, cwd, sub, pc, listing>>
    BY <1>15 DEF OtherMkdir, vars
  <2>2. CwdFollowsPath'
    BY <2>1, CwdKept DEF PathInv
  <2> QED
    BY <2>1, <2>2 DEF PathInv, Fits, Dots, Dot, DotDot
<1> QED
  BY <1>1, <1>2, <1>3, <1>4, <1>5, <1>6, <1>7, <1>8, <1>9, <1>10, <1>11, <1>12, <1>13, <1>14, <1>15
     DEF Step, Next, Progress

(* Every segment of the configured path is entered once and in order, with *)
(* the configured name or the own one and a supplement, for every path.    *)
THEOREM PathIsFollowed == Spec => []CwdFollowsPath
<1>1. PathInv => CwdFollowsPath
  BY DEF PathInv
<1> QED
  BY <1>1, TypeInvariant, ClaimInit, ClaimNext, PathInit, PathNext, NextIsStep, PTL DEF Spec
-----------------------------------------------------------------------------
(* The way.  The directories made lie on the way to the one the session    *)
(* works in, or, where one has been made but not entered, to that one.     *)
InWay(p, q) == Within(p, q) /\ Len(p) <= Len(path) /\ path[Len(p)].kind = "own"

AllEntered ==
  \/ pc \in {"open", "login", "segment", "pick", "ask", "addList", "add"}
  \/ pc \in {"setList", "set"} /\ path[seg].kind # "own"

WayInv ==
  /\ pc \in {"open", "login"} => made = {}
  /\ ~HasDots(path) =>
       \A p \in made : InWay(p, Append(cwd, sub)) /\ (AllEntered => Within(p, cwd))

LEMMA WayInit == Init => WayInv
BY DEF Init, WayInv

LEMMA WithinLonger ==
  ASSUME NEW p \in Paths, NEW c \in Paths, NEW d \in DirNames, Within(p, c)
  PROVE  Within(p, Append(c, d))
BY DEF Within, Paths

LEMMA WithinItself ==
  ASSUME NEW p \in Paths
  PROVE  Within(p, p)
BY DEF Within, Paths

LEMMA MadeArePaths == TypeOK => made \subseteq Paths
BY DEF TypeOK

(* A step that makes and enters nothing. *)
LEMMA WayStep ==
  ASSUME TypeInv, WayInv, sub' \in DirNames, UNCHANGED <<made, path, cwd>>,
         UNCHANGED sub \/ AllEntered,
         AllEntered' => AllEntered,
         pc' \in {"open", "login"} => pc \in {"open", "login"}
  PROVE  WayInv'
<1>1. HasDots(path)' <=> HasDots(path)
  BY DEF HasDots, Dots, Dot, DotDot
<1>2. ASSUME ~HasDots(path), NEW p \in made
      PROVE  InWay(p, Append(cwd, sub))' /\ (AllEntered' => Within(p, cwd)')
  <2>1. InWay(p, Append(cwd, sub)) /\ (AllEntered => Within(p, cwd))
    BY <1>2 DEF WayInv
  <2>2. p \in Paths /\ cwd \in Paths
    BY <1>2, MadeArePaths DEF TypeInv, TypeOK
  <2>3. Within(p, Append(cwd, sub'))
    BY <2>1, <2>2, WithinLonger DEF InWay
  <2> QED
    BY <2>1, <2>3 DEF InWay, Within
<1> QED
  BY <1>1, <1>2 DEF WayInv

LEMMA WayNext == TypeInv /\ ClaimInv /\ PathInv /\ WayInv /\ [Step]_vars => WayInv'
<1> SUFFICES ASSUME TypeInv, ClaimInv, PathInv, WayInv, [Step]_vars PROVE WayInv'
  OBVIOUS
<1>0. TypeOK'
  BY TypeNext DEF TypeInv
<1> USE DEF server, gui, history
<1>1. CASE ClickUpload
  BY <1>1 DEF ClickUpload, WayInv
<1>2. CASE Open \/ Login \/ CloseBox \/ TransferEnds \/ Uncaught \/ End \/ PathEnds
  <2>1. /\ UNCHANGED <<made, path, cwd, sub>>
        /\ pc' \notin {"setList", "set"} /\ (AllEntered' => AllEntered)
        /\ pc' \in {"open", "login"} => pc \in {"open", "login"}
    BY <1>2 DEF Open, Login, CloseBox, TransferEnds, Uncaught, End, PathEnds, Goto, GiveUp, AllEntered
  <2> QED
    BY <1>0, <2>1, WayStep DEF TypeOK
<1>3. CASE OfferDirectories \/ Pick \/ LookForOwn \/ AnswerYes \/ AnswerNo \/ AnswerCancel \/ TakePlain
  <2>1. UNCHANGED <<made, path, cwd>> /\ AllEntered /\ pc' \notin {"open", "login"}
    BY <1>3, Zenon DEF OfferDirectories, Pick, LookForOwn, AnswerYes, AnswerNo, AnswerCancel, TakePlain,
       Goto, GiveUp, AllEntered
  <2> QED
    BY <1>0, <2>1, WayStep DEF TypeOK
<1>4. CASE AddDirectoryList \/ SetDirectoryList
  <2>1. /\ UNCHANGED <<made, path, cwd, sub>> /\ (AllEntered' => AllEntered)
        /\ pc' \notin {"open", "login"}
    BY <1>4 DEF AddDirectoryList, SetDirectoryList, Goto, GiveUp, AllEntered
  <2> QED
    BY <1>0, <2>1, WayStep DEF TypeOK
<1>5. CASE AddDirectory
  <2>1. /\ made' \subseteq made \cup {Append(cwd, sub)} /\ UNCHANGED <<cwd, sub, path, seg>>
        /\ pc = "add" /\ pc' \in {"setList", "box", "dead"}
    BY <1>5 DEF AddDirectory, Mkdir, GiveUp
  <2>2. path[seg].kind = "own" /\ ~AllEntered' /\ seg <= Len(path)
    BY <2>1 DEF ClaimInv, AllEntered, TypeInv, InBody, Working
  <2>3. HasDots(path)' <=> HasDots(path)
    BY <2>1 DEF HasDots, Dots, Dot, DotDot
  <2>4. ASSUME ~HasDots(path)
        PROVE  InWay(Append(cwd, sub), Append(cwd, sub))
    <3>1. cwd \in Paths /\ sub \in DirNames /\ path \in Seq(Segment) /\ seg \in 1 .. Len(path)
      BY <2>2, NavigationAssumption, OwnNameType DEF TypeInv, TypeOK
    <3>2. Len(cwd) = Len(SubSeq(path, 1, seg - 1))
      BY <2>1, <2>4 DEF PathInv, CwdFollowsPath, Navigating, Working, Follows
    <3>3. Len(SubSeq(path, 1, seg - 1)) = seg - 1
      BY <3>1, SubSeqProperties
    <3>4. Append(cwd, sub) \in Paths /\ Len(Append(cwd, sub)) = seg
      BY <3>1, <3>2, <3>3 DEF Paths
    <3> QED
      BY <2>2, <3>4, WithinItself DEF InWay
  <2>5. ASSUME ~HasDots(path), NEW p \in made'
        PROVE  InWay(p, Append(cwd, sub))
    BY <2>1, <2>4, <2>5 DEF WayInv
  <2> QED
    BY <2>1, <2>2, <2>3, <2>5 DEF WayInv, InWay
<1>6. CASE SetDirectory
  <2>1. UNCHANGED <<made, path, sub>> /\ pc = "set" /\ pc' \in {"segment", "box"}
    BY <1>6 DEF SetDirectory, GiveUp
  <2>2. CASE pc' = "box"
    <3>1. UNCHANGED cwd /\ ~AllEntered'
      BY <1>6, <2>2 DEF SetDirectory, GiveUp, AllEntered
    <3> QED
      BY <1>0, <2>1, <2>2, <3>1, WayStep DEF TypeOK
  <2>3. CASE pc' = "segment"
    <3>1. HasDots(path)' <=> HasDots(path)
      BY <2>1 DEF HasDots, Dots, Dot, DotDot
    <3>2. ASSUME ~HasDots(path), NEW p \in made
          PROVE  InWay(p, Append(cwd, sub))' /\ Within(p, cwd)'
      <4>1. cwd' = Append(cwd, sub)
        BY <1>6, <2>3, <3>2, EntersBelow
      <4>2. InWay(p, Append(cwd, sub))
        BY <3>2 DEF WayInv
      <4>3. p \in Paths /\ cwd' \in Paths /\ sub' \in DirNames
        BY <1>0, <3>2, MadeArePaths DEF TypeInv, TypeOK
      <4>4. Within(p, cwd') /\ Within(p, Append(cwd', sub'))
        BY <4>1, <4>2, <4>3, WithinLonger DEF InWay
      <4> QED
        BY <2>1, <4>2, <4>4 DEF InWay, Within
    <3> QED
      BY <2>1, <2>3, <3>1, <3>2 DEF WayInv
  <2> QED
    BY <2>1, <2>2, <2>3
<1>7. CASE (\E p \in OtherDirs : OtherMkdir(p)) \/ UNCHANGED vars
  <2>1. UNCHANGED <<made, path, cwd, sub, pc, seg>>
    BY <1>7 DEF OtherMkdir, vars
  <2> QED
    BY <1>0, <2>1, WayStep DEF TypeOK, AllEntered
<1> QED
  BY <1>1, <1>2, <1>3, <1>4, <1>5, <1>6, <1>7 DEF Step, Next, Progress

LEMMA LeftBehind == LeftOverInv /\ WayInv => LeftOnTheWay
BY DEF LeftOverInv, WayInv, InWay, LeftOnTheWay

(* However an upload ends, the directories it created are own ones of its  *)
(* path, each within the one before, and all but the last were entered:    *)
(* for every path, server and number of clients.                           *)
THEOREM LeftoversAreOnTheWay == Spec => []LeftOnTheWay
BY LeftBehind, TypeInvariant, ClaimInit, ClaimNext, LeftOverInit, LeftOverNext, PathInit, PathNext,
   WayInit, WayNext, NextIsStep, PTL DEF Spec
-----------------------------------------------------------------------------
(* The end of the loop: all of the path has been walked, and the directory *)
(* of an "own" segment just walked is one of those entered for it.         *)
EndInv ==
  /\ pc \in Working => path \in PathArrays
  /\ pc \in {"open", "login"} => seg = 1
  /\ pc = "ready" => seg = Len(path) + 1
  /\ pc \in Navigating /\ seg > 1 /\ path[seg - 1].kind = "own" => cwd \in owned

LEMMA EndInit == Init => EndInv
BY DEF Init, EndInv, Navigating, Working

LEMMA EndNext == TypeInv /\ EndInv /\ [Step]_vars => EndInv'
<1> SUFFICES ASSUME TypeInv, EndInv, [Step]_vars PROVE EndInv'
  OBVIOUS
<1> USE DEF EndInv, Navigating, Working, server, gui, history
<1>1. CASE ClickUpload \/ CloseBox \/ Open \/ Login
  BY <1>1 DEF ClickUpload, CloseBox, Open, Login, GiveUp
<1>2. CASE PathEnds
  <2>1. Len(path) \in Nat /\ seg \in 1 .. Len(path) + 1
    BY NavigationAssumption DEF TypeInv, TypeOK
  <2>2. seg = Len(path) + 1
    BY <1>2, <2>1 DEF PathEnds
  <2> QED
    BY <1>2, <2>2 DEF PathEnds, Goto
<1>3. CASE OfferDirectories \/ Pick \/ LookForOwn \/ TakePlain
  <2>1. UNCHANGED <<path, seg, cwd, owned>> /\ pc \in Navigating /\ pc' \notin {"open", "login", "ready"}
    BY <1>3 DEF OfferDirectories, Pick, LookForOwn, TakePlain, Goto, GiveUp
  <2> QED
    BY <2>1
<1>4. CASE AnswerYes \/ AnswerNo \/ AnswerCancel
  BY <1>4 DEF AnswerYes, AnswerNo, AnswerCancel, Goto, GiveUp
<1>5. CASE AddDirectoryList \/ AddDirectory \/ SetDirectoryList
  <2>1. UNCHANGED <<path, seg, cwd, owned>> /\ pc \in Navigating /\ pc' \notin {"open", "login", "ready"}
    BY <1>5 DEF AddDirectoryList, AddDirectory, SetDirectoryList, Goto, GiveUp
  <2> QED
    BY <2>1
<1>6. CASE SetDirectory
  <2>1. CASE pc' = "box"
    BY <2>1
  <2>2. CASE /\ cwd' = Enter(cwd, sub) /\ seg' = seg + 1 /\ pc' = "segment" /\ path' = path
             /\ owned' = IF path[seg].kind = "own" THEN owned \cup {Enter(cwd, sub)} ELSE owned
    <3>1. seg \in Nat /\ seg' - 1 = seg /\ pc = "set"
      BY <1>6, <2>2 DEF TypeInv, TypeOK, SetDirectory
    <3> QED
      BY <2>2, <3>1
  <2> QED
    BY <1>6, <2>1, <2>2 DEF SetDirectory, NextSegment, GiveUp
<1>7. CASE TransferEnds \/ Uncaught \/ End \/ UNCHANGED vars
  BY <1>7 DEF TransferEnds, Uncaught, End, GiveUp, vars
<1>8. CASE \E p \in OtherDirs : OtherMkdir(p)
  BY <1>8 DEF OtherMkdir
<1> QED
  BY <1>1, <1>2, <1>3, <1>4, <1>5, <1>6, <1>7, <1>8 DEF Step, Next, Progress

(* A path that ends in a directory of the student's own ends there.        *)
LEMMA OwnIsEntered ==
  ASSUME EndInv, pc = "ready", path # << >>, path[Len(path)].kind = "own", Len(path) \in Nat \ {0}
  PROVE  cwd \in owned
BY DEF EndInv, Navigating, Working
=============================================================================
