------------------------------- MODULE Transfer -------------------------------
(***************************************************************************)
(* The second half of an upload: on_upload_clicked lists the files of the  *)
(* directory, asks before it overwrites one and starts the UploadThread,   *)
(* whose run() stores the files and posts its reports to the window        *)
(* (AutomaticXuanShanLi.cpp:691-784 with UploadThread.cpp:100-120,155-230).*)
(*                                                                         *)
(* The window's thread, the worker, the server and its other clients take  *)
(* steps in any order.  Signals the worker emits wait in a queue until the *)
(* event loop of the window delivers them.                                 *)
(***************************************************************************)
EXTENDS Integers, Sequences

CONSTANTS
  Files,        (* local files                                             *)
  Size,         (* number of bytes of each                                 *)
  Remote,       (* base name with a dash for every blank: the name on the  *)
                (* server                                                  *)
  Lists,        (* what the file list of the window may hold               *)
  Other,        (* whoever stores the files this program did not store     *)
  Absent,       (* no file of that name                                    *)
  OtherSizes,   (* sizes of the files other clients store                  *)
  OtherNames,   (* names other clients store files under                   *)
  Spaced,       (* those of them with a blank                              *)
  Faults,       (* what may go wrong, out of FaultKinds                    *)
  MaxSessions   (* bound on the number of uploads                          *)

(* "read": a local file cannot be opened; "ftp" and "net": an FTPException *)
(* or another exception ends a call of the session; "short": the server    *)
(* keeps only a part of a file and reports success; "dword": a word that   *)
(* getFileSize takes for a mode starts with "d" (module Listing); "clear": *)
(* the student clicks "add" during the upload, which clears the output.    *)
FaultKinds == {"read", "ftp", "net", "short", "dword", "clear"}

Names == {Remote[f] : f \in Files} \cup OtherNames

Content == [of : Files \cup {Other}, size : Nat]

Whole(f) == [of |-> f, size |-> Size[f]]

ASSUME TransferAssumption ==
  /\ Size \in [Files -> Nat]
  /\ DOMAIN Remote = Files
  /\ Lists \subseteq Seq(Files)
  /\ Absent \notin Content
  /\ Other \notin Files
  /\ OtherSizes \subseteq Nat
  /\ Spaced \subseteq OtherNames /\ \A f \in Files : Remote[f] \notin Spaced
  /\ Faults \subseteq FaultKinds
  /\ MaxSessions \in Nat

VARIABLES
  store,        (* the files of the server's directory                     *)
  gui,          (* where the window's thread stands                        *)
  filelist,     (* the snapshot of the window's file list                  *)
  k,            (* index of the file of filelist that is looked at         *)
  fileExists,   (* the names listed before the upload                      *)
  AllYesFlag,   (* 1 after "yes to all", -1 after "no to all"              *)
  fileUpList,   (* the files to upload, which the worker goes through      *)
  worker,       (* where the worker stands                                 *)
  i,            (* index of the file of fileUpList that is uploaded        *)
  posted,       (* signals of the worker the window has not received       *)
  output,       (* reports in the output of the window                     *)
  sessions,     (* number of uploads so far                                *)
  whole,        (* history: the listing of fileExists was not cut short    *)
  spaced,       (* history: there was a name with a blank in it            *)
  raced,        (* history: names others stored since the listing          *)
  agreed,       (* history: names the student agreed to overwrite          *)
  silent,       (* history: names overwritten without being asked for      *)
  cleared       (* history: the output was cleared during the upload       *)

asking == <<filelist, k, fileExists, AllYesFlag, fileUpList>>
working == <<worker, i, posted>>
consent == <<whole, spaced, agreed>>
history == <<consent, raced, silent, cleared>>
vars == <<store, gui, asking, working, output, sessions, history>>

Verdicts == {"uploaded", "mismatch", "error", "unreadable"}
Report == [file : Files, verdict : Verdicts]
Finished == [file |-> Other, verdict |-> "finished"]

Present == {n \in Names : store[n] # Absent}

Init ==
  /\ store \in [Names -> {Absent} \cup [of : {Other}, size : OtherSizes]]
  /\ gui = "idle"
  /\ filelist = << >> /\ k = 1 /\ fileExists = {} /\ AllYesFlag = 0
  /\ fileUpList = << >>
  /\ worker = "none" /\ i = 1 /\ posted = << >>
  /\ output = << >>
  /\ sessions = 0
  /\ whole = TRUE /\ spaced = FALSE
  /\ raced = {} /\ agreed = {} /\ silent = {} /\ cleared = FALSE

Alive == gui # "dead"
-----------------------------------------------------------------------------
(* Other clients, and exceptions nothing catches.                          *)

OtherPut(n, s) ==
  /\ Alive
  /\ store' = [store EXCEPT ![n] = [of |-> Other, size |-> s]]
  /\ raced' = raced \cup {n}
  /\ UNCHANGED <<gui, asking, working, output, sessions, consent, silent, cleared>>

Uncaught ==
  /\ "net" \in Faults
  /\ \/ gui \in {"list", "ask"} \/ worker \in {"store", "size"}
     \/ gui = "waiting" /\ posted # << >> /\ Head(posted) = Finished
  /\ Alive
  /\ gui' = "dead"
  /\ UNCHANGED <<store, asking, working, output, sessions, history>>
-----------------------------------------------------------------------------
(* The window's thread up to the start of the worker.                      *)

(* The slot has reached the directory (module Navigation), the output was  *)
(* cleared when it started, and the file list is copied.  The worker is a  *)
(* new UploadThread, so nothing of an earlier one is in the queue.         *)
TakeOver ==
  /\ gui = "idle"
  /\ sessions < MaxSessions
  /\ sessions' = sessions + 1
  /\ filelist' \in Lists
  /\ gui' = "list"
  /\ k' = 1 /\ fileExists' = {} /\ AllYesFlag' = 0 /\ fileUpList' = << >>
  /\ worker' = "none" /\ i' = 1 /\ posted' = << >> /\ output' = << >>
  /\ whole' = TRUE /\ spaced' = FALSE
  /\ raced' = {} /\ agreed' = {} /\ silent' = {} /\ cleared' = FALSE

(* Every upload of this module works in the same directory.                *)
EnterTransfer == TakeOver /\ UNCHANGED store

(* FTP_GetFiles: what was read before an FTPException is taken for all.    *)
(* parseFiles cuts the words of the listing in nines.  Where a name has a  *)
(* blank the lines after it are cut in the wrong places, and any of their  *)
(* words may be taken for a name, or none.                                 *)
GetFiles ==
  /\ gui = "list"
  /\ whole' \in {TRUE} \cup {w \in {FALSE} : "ftp" \in Faults}
  /\ spaced' = (Present \cap Spaced # {})
  /\ fileExists' \in IF spaced' THEN SUBSET Names
                    ELSE IF whole' THEN {Present} ELSE SUBSET Present
  /\ raced' = {}
  /\ gui' = "ask"
  /\ UNCHANGED <<store, filelist, k, AllYesFlag, fileUpList, working, output, sessions,
                 agreed, silent, cleared>>

(* The file at k is taken or not, and the loop goes on. *)
Take ==
  /\ fileUpList' = Append(fileUpList, filelist[k])
  /\ k' = k + 1

Skip ==
  /\ k' = k + 1
  /\ UNCHANGED fileUpList

Asking == gui = "ask" /\ k <= Len(filelist)

LookUp ==
  /\ Asking
  /\ UNCHANGED <<store, gui, filelist, fileExists, working, output, sessions, whole, spaced,
                 raced, silent, cleared>>

TakeNew ==
  /\ LookUp
  /\ Remote[filelist[k]] \notin fileExists
  /\ Take
  /\ UNCHANGED <<AllYesFlag, agreed>>

(* "No to all" that is remembered the wrong way round. *)
FollowFlagSwapped ==
  /\ LookUp
  /\ Remote[filelist[k]] \in fileExists
  /\ AllYesFlag # 0
  /\ IF AllYesFlag < 0 THEN Take /\ UNCHANGED agreed
     ELSE Skip /\ agreed' = agreed \cup {Remote[filelist[k]]}
  /\ UNCHANGED AllYesFlag

(* A file that exists after "yes to all" or "no to all". *)
FollowFlag ==
  /\ LookUp
  /\ Remote[filelist[k]] \in fileExists
  /\ AllYesFlag # 0
  /\ IF AllYesFlag > 0 THEN Take /\ agreed' = agreed \cup {Remote[filelist[k]]}
     ELSE Skip /\ UNCHANGED agreed
  /\ UNCHANGED AllYesFlag

(* The question whether the file may be overwritten. *)
AnswerYes(all) ==
  /\ LookUp
  /\ Remote[filelist[k]] \in fileExists
  /\ AllYesFlag = 0
  /\ Take
  /\ agreed' = agreed \cup {Remote[filelist[k]]}
  /\ AllYesFlag' = IF all THEN 1 ELSE 0

AnswerNo(all) ==
  /\ LookUp
  /\ Remote[filelist[k]] \in fileExists
  /\ AllYesFlag = 0
  /\ Skip
  /\ AllYesFlag' = IF all THEN -1 ELSE 0
  /\ UNCHANGED agreed

AnswerCancel ==
  /\ Asking
  /\ Remote[filelist[k]] \in fileExists
  /\ AllYesFlag = 0
  /\ gui' = "cancelled"
  /\ UNCHANGED <<store, asking, working, output, sessions, history>>

Start ==
  /\ gui = "ask"
  /\ k > Len(filelist)
  /\ gui' = "waiting"
  /\ worker' = "open"
  /\ UNCHANGED <<store, asking, i, posted, output, sessions, history>>
-----------------------------------------------------------------------------
(* The worker: UploadThread::run.                                          *)

Emit(verdict) ==
  posted' = Append(posted, [file |-> fileUpList[i], verdict |-> verdict])

(* The index of the next file, and a slip that leaves one out. *)
SkippingOne(j) == j + 2
NextFile(j) == j + 1

(* The next file is opened, or reported and passed over. *)
OpenFile ==
  /\ Alive
  /\ worker = "open"
  /\ i <= Len(fileUpList)
  /\ \/ /\ worker' = "store"
        /\ UNCHANGED <<i, posted>>
     \/ /\ "read" \in Faults
        /\ Emit("unreadable")
        /\ i' = NextFile(i)
        /\ UNCHANGED worker
  /\ UNCHANGED <<store, gui, asking, output, sessions, history>>

Put(n, c) ==
  /\ store' = [store EXCEPT ![n] = c]
  /\ silent' = IF store[n] # Absent /\ n \notin agreed THEN silent \cup {n} ELSE silent

(* Everything from STOR to the server's answer.  The file may also be      *)
(* stored short, with or without an exception.                             *)
StoreFile ==
  /\ Alive
  /\ worker = "store"
  /\ LET f == fileUpList[i]
         n == Remote[f]
     IN  \/ /\ \/ Put(n, Whole(f))
               \/ /\ "short" \in Faults
                  /\ \E s \in 0 .. Size[f] - 1 : Put(n, [of |-> f, size |-> s])
            /\ worker' = "size"
            /\ UNCHANGED <<i, posted>>
         \/ /\ "ftp" \in Faults
            /\ \/ UNCHANGED <<store, silent>>
               \/ \E s \in 0 .. Size[f] : Put(n, [of |-> f, size |-> s])
            /\ Emit("error")
            /\ i' = NextFile(i)
            /\ worker' = "open"
  /\ UNCHANGED <<gui, asking, output, sessions, consent, raced, cleared>>

(* What getFileSize may return: a listing that misses a file makes its     *)
(* size 0, and one with a blank in a name gives a right or a wrong number. *)
FileSizes(f) ==
  {IF store[Remote[f]] = Absent THEN 0 ELSE store[Remote[f]].size}
    \cup (IF Faults \cap {"ftp", "dword"} # {} THEN {0} ELSE {})
    \cup (IF Present \cap Spaced # {} THEN {0, Size[f], Size[f] + 1} ELSE {})

(* A comparison that takes a missing size for a right one. *)
SameSizeOrMissing(size, f) == size \in {0, Size[f]}

SameSize(size, f) == size = Size[f]

(* getFileSize, twice: the first result is not used. *)
CompareSize ==
  /\ Alive
  /\ worker = "size"
  /\ LET f == fileUpList[i]
     IN  \E size \in FileSizes(f) :
           Emit(IF SameSize(size, f) THEN "uploaded" ELSE "mismatch")
  /\ i' = NextFile(i)
  /\ worker' = "open"
  /\ UNCHANGED <<store, gui, asking, output, sessions, history>>

EmitFinished ==
  /\ Alive
  /\ worker = "open"
  /\ i > Len(fileUpList)
  /\ posted' = Append(posted, Finished)
  /\ worker' = "emitted"
  /\ UNCHANGED <<store, gui, asking, i, output, sessions, history>>

(* run() returns and the thread ends. *)
LeaveRun ==
  /\ Alive
  /\ worker = "emitted"
  /\ worker' = "ended"
  /\ UNCHANGED <<store, gui, asking, i, posted, output, sessions, history>>
-----------------------------------------------------------------------------
(* The window's thread while the worker runs and after it.                 *)

on_FTPMessage ==
  /\ gui = "waiting"
  /\ posted # << >>
  /\ Head(posted) # Finished
  /\ output' = Append(output, Head(posted))
  /\ posted' = Tail(posted)
  /\ UNCHANGED <<store, gui, asking, worker, i, sessions, history>>

(* A slot that is called as soon as the signal is emitted. *)
FinishedAtOnce ==
  /\ gui = "waiting"
  /\ \E j \in 1 .. Len(posted) : posted[j] = Finished
  /\ gui' = IF worker = "emitted" THEN "dead" ELSE "box"
  /\ UNCHANGED <<store, asking, working, output, sessions, history>>

(* FTP_Close and delete uThread.  The destructor of a QThread that is still*)
(* in run() ends the process; the signal was emitted from there.           *)
on_FTPFinished ==
  /\ gui = "waiting"
  /\ posted # << >>
  /\ Head(posted) = Finished
  /\ posted' = Tail(posted)
  /\ gui' = IF worker = "emitted" THEN "dead" ELSE "box"
  /\ UNCHANGED <<store, asking, worker, i, output, sessions, history>>

CloseBox ==
  /\ gui \in {"box", "cancelled"}
  /\ gui' = "idle"
  /\ UNCHANGED <<store, asking, working, output, sessions, history>>

(* on_add_clicked clears the output whatever is going on. *)
ClickAdd ==
  /\ "clear" \in Faults
  /\ gui = "waiting"
  /\ output' = << >>
  /\ cleared' = TRUE
  /\ UNCHANGED <<store, gui, asking, working, sessions, consent, raced, silent>>
-----------------------------------------------------------------------------
Window ==
  \/ GetFiles
  \/ TakeNew \/ FollowFlag
  \/ \E all \in BOOLEAN : AnswerYes(all) \/ AnswerNo(all)
  \/ AnswerCancel
  \/ Start
  \/ on_FTPMessage \/ on_FTPFinished
  \/ CloseBox

Worker == OpenFile \/ StoreFile \/ CompareSize \/ EmitFinished \/ LeaveRun

Next ==
  \/ EnterTransfer
  \/ Window
  \/ Worker
  \/ ClickAdd
  \/ Uncaught
  \/ \E n \in OtherNames, s \in OtherSizes : OtherPut(n, s)

Spec == Init /\ [][Next]_vars

-----------------------------------------------------------------------------
TypeOK ==
  /\ store \in [Names -> Content \cup {Absent}]
  /\ gui \in {"idle", "list", "ask", "cancelled", "waiting", "box", "dead"}
  /\ filelist \in Seq(Files) /\ k \in 1 .. Len(filelist) + 1
  /\ fileExists \subseteq Names /\ AllYesFlag \in {-1, 0, 1}
  /\ fileUpList \in Seq(Files)
  /\ worker \in {"none", "open", "store", "size", "emitted", "ended"}
  /\ i \in 1 .. Len(fileUpList) + 1
  /\ posted \in Seq(Report \cup {Finished})
  /\ output \in Seq(Report)
  /\ sessions \in 0 .. MaxSessions
  /\ whole \in BOOLEAN /\ spaced \in BOOLEAN /\ cleared \in BOOLEAN
  /\ raced \subseteq Names /\ agreed \subseteq Names /\ silent \subseteq Names

(* Two files of the upload have the same name on the server.               *)
Shared(n) ==
  \E a, b \in 1 .. Len(fileUpList) :
    a # b /\ Remote[fileUpList[a]] = n /\ Remote[fileUpList[b]] = n

(* A file of the server is overwritten only if the student agreed to it.   *)
(* Four things can make the program miss that it is there: a listing that  *)
(* was cut short, a blank in a listed name (UploadThread.cpp:122-133), a   *)
(* client that stored it after the listing, and another file of the same   *)
(* upload that has its name on the server.                                 *)
NoSilentOverwrite ==
  \A n \in silent : ~whole \/ spaced \/ n \in raced \/ Shared(n)

(* The files a verdict was given on, in reports received or still waiting. *)
Reported(verdict) ==
  {f \in Files :
     LET r == [file |-> f, verdict |-> verdict]
     IN  \/ \E j \in 1 .. Len(output) : output[j] = r
         \/ \E j \in 1 .. Len(posted) : posted[j] = r}

(* "uploaded" is true of every file it is said of, for as long as nobody   *)
(* but this upload stores a file of that name, and no name with a blank    *)
(* spoils the listings the sizes are taken from: the whole file is there.  *)
UploadedIsThere ==
  \A f \in Reported("uploaded") :
    \/ store[Remote[f]] = Whole(f)
    \/ Remote[f] \in raced \/ Shared(Remote[f])
    \/ Present \cap Spaced # {}

(* The box that says the upload is complete comes after a report on every  *)
(* file, in the order of the list, however the two threads interleave.     *)
ReportsComplete ==
  gui = "box" /\ ~cleared => [j \in 1 .. Len(output) |-> output[j].file] = fileUpList

(* After the signal the student reads that the upload is complete          *)
(* (AutomaticXuanShanLi.cpp:768-770): deleting the worker is no way to end *)
(* the process.                                                            *)
CompletionTold == gui # "dead"
=============================================================================
