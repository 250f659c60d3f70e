------------------------------ MODULE Navigation ------------------------------
(***************************************************************************)
(* The first half of AutomaticXuanShanLi::on_upload_clicked: read the      *)
(* configuration, open the FTP session, log in and walk the configured     *)
(* remote path, creating the student's own directory on the way            *)
(* (AutomaticXuanShanLi.cpp:334-689 with UploadThread.cpp:18-98,232-243).  *)
(*                                                                         *)
(* Every call of the session is one step, so what other clients do to the  *)
(* server falls between any two of them.  A call ends normally, with an    *)
(* FTPException, which the wrappers of UploadThread catch, or with another *)
(* exception, which nothing catches.                                       *)
(***************************************************************************)
EXTENDS Naturals, Sequences, FiniteSets

CONSTANTS
  Bases,        (* the names the student, the teacher and the server use   *)
  PathArrays,   (* the remote paths the configuration may hold             *)
  InitialDirs,  (* the directories the server may hold at the start        *)
  OtherDirs,    (* the directories other clients may create                *)
  Faults,       (* what may go wrong, out of FaultKinds                    *)
  MaxSessions   (* bound on the number of clicks on "upload"               *)

(* A directory name is a base and the number of its supplement: <<b, 0>>   *)
(* is b, <<b, 1>> is bM and <<b, k + 1>> is bMk.  No base is taken to end  *)
(* the way a supplement does.                                              *)
DirNames == Bases \X Nat

Paths == Seq(DirNames)

(* "pick" stands for $ORDER and $CLASS, "own" for $ID and $NAME with the   *)
(* student's id or name, "plain" for any other entry of the array.         *)
Segment == [kind : {"pick", "own", "plain"}, name : DirNames]

FaultKinds == {"config", "ftp", "net"}

Dot == <<".", 0>>
DotDot == <<"..", 0>>
Dots == {Dot, DotDot}

(* A directory below the root.  "." and ".." are no directories of it.     *)
Proper(p) == p # << >> /\ p[Len(p)] \notin Dots

ASSUME NavigationAssumption ==
  /\ PathArrays \subseteq Seq(Segment)
  /\ \A p \in PathArrays : \A i \in 1 .. Len(p) : p[i].name[2] = 0
  /\ Dots \subseteq DirNames
  /\ InitialDirs \subseteq SUBSET Paths
  /\ OtherDirs \subseteq Paths
  /\ \A p \in OtherDirs \cup UNION InitialDirs : Proper(p)
  /\ Faults \subseteq FaultKinds
  /\ MaxSessions \in Nat

VARIABLES
  dirs,      (* the directories of the server                              *)
  control,   (* groupBox_3, which holds the upload button, is enabled      *)
  uThread,   (* this->uThread is not null                                  *)
  session,   (* state of the FTP session                                   *)
  pc,        (* where on_upload_clicked stands                             *)
  path,      (* pathArray                                                  *)
  seg,       (* index of the segment the loop is at                        *)
  cwd,       (* working directory of the session                           *)
  listing,   (* subPathL or dirList: the directories last listed           *)
  sub,       (* dirname, subName or path_str                               *)
  sessions,  (* number of clicks so far                                    *)
  made,      (* history: the directories this session created              *)
  agreed,    (* history: the directories the student agreed to reuse       *)
  owned      (* history: the directories entered for an "own" segment      *)

server == dirs
gui == <<control, uThread, session, pc, path, seg, cwd, listing, sub, sessions>>
history == <<made, agreed, owned>>
vars == <<server, gui, history>>

Init ==
  /\ dirs \in InitialDirs
  /\ control = TRUE
  /\ uThread = FALSE
  /\ session = "closed"
  /\ pc = "idle"
  /\ path = << >>
  /\ seg = 1
  /\ cwd = << >>
  /\ listing = {}
  /\ sub = Dot
  /\ sessions = 0
  /\ made = {} /\ agreed = {} /\ owned = {}
-----------------------------------------------------------------------------
(* The server.                                                             *)

Parent(p) == SubSeq(p, 1, Len(p) - 1)

SubDirs(p) == {q[Len(q)] : q \in {d \in dirs : Parent(d) = p}}

(* FTP_GetDirectories: the subdirectories, or those of them that were read *)
(* before an FTPException.  A name with a blank makes it miss others, too  *)
(* (module Listing); that it may also list what is no directory is left    *)
(* out here.                                                               *)
Listings ==
  IF "ftp" \in Faults THEN SUBSET SubDirs(cwd) ELSE {SubDirs(cwd)}

Enter(p, d) ==
  IF d = Dot THEN p
  ELSE IF d = DotDot THEN (IF p = << >> THEN p ELSE Parent(p))
  ELSE Append(p, d)

OtherMkdir(p) ==
  /\ p \notin dirs
  /\ Parent(p) \in dirs \cup {<< >>}
  /\ dirs' = dirs \cup {p}
  /\ UNCHANGED <<gui, history>>
-----------------------------------------------------------------------------
(* The ways out.                                                           *)

(* A way out that forgets to end the session before it warns.              *)
GiveUpKeepingSession ==
  /\ pc' = "box"
  /\ UNCHANGED <<control, uThread, session, path, seg, cwd, listing, sessions>>

(* FTP_Close, disconnect, delete uThread, set it to null and warn: the     *)
(* same lines on every failing path (where the session did not even open,  *)
(* there is no FTP_Close).  The warning is a modal box.                    *)
GiveUp ==
  /\ session' = "closed"
  /\ uThread' = FALSE
  /\ pc' = "box"
  /\ UNCHANGED <<control, path, seg, cwd, listing, sessions>>

(* A return that leaves the buttons disabled. *)
CloseBoxForgetting ==
  /\ pc = "box"
  /\ pc' = "idle"
  /\ UNCHANGED <<server, history, control, uThread, session, path, seg, cwd, listing, sub, sessions>>

(* The box is closed: the slot enables the buttons again and returns.      *)
CloseBox ==
  /\ pc = "box"
  /\ control' = TRUE
  /\ pc' = "idle"
  /\ UNCHANGED <<server, history, uThread, session, path, seg, cwd, listing, sub, sessions>>

Working == {"open", "login", "segment", "pick", "ask", "addList", "add",
            "setList", "set", "ready"}

(* A call of the session ends with an exception that is no FTPException:   *)
(* no handler of the program takes it and the process ends.                *)
Uncaught ==
  /\ "net" \in Faults
  /\ pc \in Working
  /\ pc' = "dead"
  /\ UNCHANGED <<server, history, control, uThread, session, path, seg, cwd, listing, sub, sessions>>
-----------------------------------------------------------------------------
(* Connecting.                                                             *)

(* The button can be clicked while it is enabled and the event loop runs:  *)
(* between two uploads, and during the transfer.  The slot disables it,    *)
(* reads config.json and, if it can, deletes the UploadThread there may be,*)
(* and its session with it, and creates another.                           *)
ClickUpload ==
  /\ pc \in {"idle", "ready"}
  /\ control
  /\ sessions < MaxSessions
  /\ sessions' = sessions + 1
  /\ control' = FALSE
  /\ seg' = 1 /\ cwd' = << >> /\ listing' = {} /\ sub' = Dot
  /\ made' = {} /\ agreed' = {} /\ owned' = {}
  /\ UNCHANGED server
  /\ \/ /\ "config" \in Faults
        /\ pc' = "box"
        /\ UNCHANGED <<uThread, session, path>>
     \/ /\ path' \in PathArrays
        /\ uThread' = TRUE
        /\ session' = "closed"
        /\ pc' = "open"

(* FTP_Open answers isOpen(), whatever was thrown on the way.              *)
Open ==
  /\ pc = "open"
  /\ \/ /\ session' = "open"
        /\ pc' = "login"
        /\ UNCHANGED <<control, uThread, path, seg, cwd, listing, sessions>>
     \/ /\ "ftp" \in Faults
        /\ GiveUp
  /\ UNCHANGED <<server, history, sub>>

Login ==
  /\ pc = "login"
  /\ \/ /\ session' = "loggedIn"
        /\ pc' = "segment"
        /\ UNCHANGED <<control, uThread, path, seg, cwd, listing, sessions>>
     \/ /\ "ftp" \in Faults
        /\ GiveUp
  /\ UNCHANGED <<server, history, sub>>
-----------------------------------------------------------------------------
(* The loop over the path.                                                 *)

Goto(l) ==
  /\ pc' = l
  /\ UNCHANGED <<server, control, uThread, session, path, seg, cwd, sessions>>

PathEnds ==
  /\ pc = "segment"
  /\ seg > Len(path)
  /\ Goto("ready")
  /\ UNCHANGED <<listing, sub, history>>

(* $ORDER and $CLASS: list the directories and let the student pick one.   *)
OfferDirectories ==
  /\ pc = "segment"
  /\ seg <= Len(path)
  /\ path[seg].kind = "pick"
  /\ listing' \in Listings
  /\ Goto("pick")
  /\ UNCHANGED <<sub, history>>

Pick ==
  /\ pc = "pick"
  /\ \/ /\ sub' \in listing
        /\ Goto("setList")
        /\ UNCHANGED listing
     \/ /\ GiveUp
        /\ UNCHANGED <<server, sub>>
  /\ UNCHANGED history

(* A supplement number that skips the check of the listing.                *)
SupplementAlwaysTwo(own, l, k) == k = 2

(* k numbers the first of ownM, ownM1, ownM2, ... that is not listed.      *)
IsSupplement(own, l, k) ==
  /\ <<own[1], k>> \notin l
  /\ \A j \in 1 .. k - 1 : <<own[1], j>> \in l

(* $ID and $NAME: a new directory of that name or, if there is one already,*)
(* a question about a supplementary one.                                   *)
LookForOwn ==
  /\ pc = "segment"
  /\ seg <= Len(path)
  /\ path[seg].kind = "own"
  /\ listing' \in Listings
  /\ LET own == path[seg].name
     IN  IF own \in listing'
         THEN /\ \E k \in 1 .. Cardinality(listing') + 1 :
                   /\ IsSupplement(own, listing', k)
                   /\ sub' = <<own[1], k>>
              /\ Goto("ask")
         ELSE /\ sub' = own
              /\ Goto("addList")
  /\ UNCHANGED history

AnswerYes ==
  /\ pc = "ask"
  /\ Goto("addList")
  /\ UNCHANGED <<listing, sub, history>>

AnswerNo ==
  /\ pc = "ask"
  /\ sub' = path[seg].name
  /\ agreed' = agreed \cup {Append(cwd, path[seg].name)}
  /\ Goto("setList")
  /\ UNCHANGED <<listing, made, owned>>

AnswerCancel ==
  /\ pc = "ask"
  /\ GiveUp
  /\ UNCHANGED <<server, sub, history>>

TakePlain ==
  /\ pc = "segment"
  /\ seg <= Len(path)
  /\ path[seg].kind = "plain"
  /\ sub' = path[seg].name
  /\ Goto("setList")
  /\ UNCHANGED <<listing, history>>

(* FTP_AddDirectory, first call: a name that is listed is refused.         *)
AddDirectoryList ==
  /\ pc = "addList"
  /\ \/ /\ sub \notin Dots
        /\ \E l \in Listings : sub \notin l
        /\ Goto("add")
        /\ UNCHANGED listing
     \/ /\ sub \in Dots \/ \E l \in Listings : sub \in l
        /\ GiveUp
        /\ UNCHANGED server
  /\ UNCHANGED <<sub, history>>

(* The server creates a directory only where there is none.                *)
Mkdir(p) ==
  /\ p \notin dirs
  /\ dirs' = dirs \cup {p}
  /\ made' = made \cup {p}

(* An FTP_AddDirectory that takes a refusal of the server for success.     *)
AddDirectoryTrusting ==
  /\ pc = "add"
  /\ \/ Mkdir(Append(cwd, sub))
     \/ Append(cwd, sub) \in dirs /\ UNCHANGED <<server, made>>
  /\ pc' = "setList"
  /\ UNCHANGED <<control, uThread, session, path, seg, cwd, listing, sessions, sub, agreed, owned>>

(* A new directory that is not entered. *)
AddDirectoryStaying ==
  /\ pc = "add"
  /\ Mkdir(Append(cwd, sub))
  /\ pc' = "segment"
  /\ seg' = seg + 1
  /\ UNCHANGED <<control, uThread, session, path, cwd, listing, sessions, sub, agreed, owned>>

(* FTP_AddDirectory, second call.  An exception may come before or after   *)
(* the server has done what it was asked.                                  *)
AddDirectory ==
  /\ pc = "add"
  /\ \/ /\ Mkdir(Append(cwd, sub))
        /\ pc' = "setList"
        /\ UNCHANGED <<control, uThread, session, path, seg, cwd, listing, sessions>>
     \/ /\ Append(cwd, sub) \in dirs \/ "ftp" \in Faults
        /\ GiveUp
        /\ UNCHANGED <<server, made>>
     \/ /\ "ftp" \in Faults
        /\ Mkdir(Append(cwd, sub))
        /\ GiveUp
     \/ /\ "net" \in Faults
        /\ Mkdir(Append(cwd, sub))
        /\ pc' = "dead"
        /\ UNCHANGED <<control, uThread, session, path, seg, cwd, listing, sessions>>
  /\ UNCHANGED <<sub, agreed, owned>>

(* FTP_SetDirectory, first call: only a name that is listed is entered.    *)
SetDirectoryList ==
  /\ pc = "setList"
  /\ \/ /\ sub \in Dots \/ \E l \in Listings : sub \in l
        /\ Goto("set")
        /\ UNCHANGED listing
     \/ /\ sub \notin Dots
        /\ \E l \in Listings : sub \notin l
        /\ GiveUp
        /\ UNCHANGED server
  /\ UNCHANGED <<sub, history>>

(* The index of the next segment, a slip that stays at the same one and    *)
(* one that leaves a segment out.                                          *)
SameSegment(i) == i
SegmentAfterNext(i) == i + 2
NextSegment(i) == i + 1

(* FTP_SetDirectory, second call, and the end of the loop body.            *)
SetDirectory ==
  /\ pc = "set"
  /\ \/ /\ cwd' = Enter(cwd, sub)
        /\ owned' = IF path[seg].kind = "own" THEN owned \cup {Enter(cwd, sub)} ELSE owned
        /\ seg' = NextSegment(seg)
        /\ pc' = "segment"
        /\ UNCHANGED <<control, uThread, session, path, listing, sessions>>
     \/ /\ "ftp" \in Faults
        /\ GiveUp
        /\ UNCHANGED owned
  /\ UNCHANGED <<server, sub, made, agreed>>

(* Everything after the loop, which module Transfer describes: in the end  *)
(* the session is closed and a box tells so.                               *)
TransferEnds ==
  /\ pc = "ready"
  /\ GiveUp
  /\ UNCHANGED <<server, sub, history>>
-----------------------------------------------------------------------------
Progress ==
  \/ CloseBox \/ Open \/ Login
  \/ PathEnds \/ OfferDirectories \/ Pick \/ LookForOwn
  \/ AnswerYes \/ AnswerNo \/ AnswerCancel \/ TakePlain
  \/ AddDirectoryList \/ AddDirectory \/ SetDirectoryList \/ SetDirectory
  \/ TransferEnds

Next ==
  \/ Progress
  \/ ClickUpload
  \/ Uncaught
  \/ \E p \in OtherDirs : OtherMkdir(p)

Spec == Init /\ [][Next]_vars

(* Calls of the session return or time out and open boxes are answered.    *)
(* Nobody has to click, and other clients have to do nothing.              *)
FairSpec == Spec /\ WF_vars(Progress)
-----------------------------------------------------------------------------
PCs == Working \cup {"idle", "box", "dead"}

TypeOK ==
  /\ dirs \subseteq Paths
  /\ control \in BOOLEAN /\ uThread \in BOOLEAN
  /\ session \in {"closed", "open", "loggedIn"}
  /\ pc \in PCs
  /\ path \in PathArrays \cup {<< >>}
  /\ seg \in 1 .. Len(path) + 1
  /\ cwd \in Paths
  /\ listing \subseteq DirNames
  /\ sub \in DirNames
  /\ sessions \in 0 .. MaxSessions
  /\ made \subseteq dirs /\ agreed \subseteq Paths /\ owned \subseteq Paths

Navigating == Working \ {"open", "login"}

(* The buttons are enabled only when nothing of an upload is left: no      *)
(* UploadThread and no session, on none of the many ways out of the slot.  *)
(* And no command is sent before the login has succeeded, as the session's *)
(* documentation demands (FTPClientSession.h:104).                         *)
SessionHeld ==
  /\ control => pc = "idle" /\ session = "closed" /\ ~uThread
  /\ pc \in Navigating => uThread /\ session = "loggedIn"

(* The session never works in a directory for an id or a name that was     *)
(* there before it, unless the student agreed to reuse it: whatever other  *)
(* clients create and however little of a listing is read.                 *)
OwnDirectoryClaimed == owned \subseteq made \cup agreed

(* bMk is created only where b, bM, bM1, ... up to the one before exist    *)
(* already: supplements are numbered without gaps and never instead of the *)
(* directory they supplement.                                              *)
SupplementsInOrder ==
  \A p \in made :
    \A j \in 0 .. p[Len(p)][2] - 1 : Append(Parent(p), <<p[Len(p)][1], j>>) \in dirs

(* The working directory follows the configured path: a segment of the     *)
(* path for every directory of it, with the configured name, or the own    *)
(* name and some supplement, in its place.                                 *)
Follows(c, p) ==
  /\ Len(c) = Len(p)
  /\ \A i \in 1 .. Len(p) :
       \/ p[i].kind = "pick"
       \/ p[i].kind = "own" /\ c[i][1] = p[i].name[1]
       \/ p[i].kind = "plain" /\ c[i] = p[i].name

HasDots(p) == \E i \in 1 .. Len(p) : p[i].name \in Dots

Within(p, q) == Len(p) <= Len(q) /\ \A i \in 1 .. Len(p) : p[i] = q[i]

(* What a failed or cancelled upload leaves behind on the server lies on   *)
(* its way: new directories for own segments of the path only, each within *)
(* the one before, and at most one, the last it asked for, that it did not *)
(* enter.                                                                  *)
LeftOnTheWay ==
  /\ made \ owned \subseteq {Append(cwd, sub)}
  /\ ~HasDots(path) =>
       \A p \in made :
         /\ Within(p, Append(cwd, sub))
         /\ Len(p) <= Len(path) /\ path[Len(p)].kind = "own"

CwdFollowsPath ==
  pc \in Navigating /\ ~HasDots(path) => Follows(cwd, SubSeq(path, 1, seg - 1))

(* Every click on "upload" ends with the buttons enabled again, or with    *)
(* the end of the process.                                                 *)
UploadEnds == ~control ~> (control \/ pc = "dead")

(* A connection that cannot be opened is answered with the warning of      *)
(* AutomaticXuanShanLi.cpp:406-408: no failure of the network ends the     *)
(* process.                                                                *)
FailureWarned == pc # "dead"
=============================================================================
