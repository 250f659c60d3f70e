-------------------------------- MODULE Upload --------------------------------
(***************************************************************************)
(* A whole upload: AutomaticXuanShanLi::on_upload_clicked up to the end of *)
(* its loop over the path (module Navigation), the rest of it and the      *)
(* worker (module Transfer), on one server, click after click.  What a     *)
(* directory holds when the transfer begins depends on how the walk got    *)
(* there; how the transfer ends decides over session, worker and buttons.  *)
(***************************************************************************)
EXTENDS Integers, Sequences, FiniteSets

CONSTANTS
  Bases, PathArrays, InitialDirs, OtherDirs,                  (* Navigation *)
  Files, Size, Remote, Lists, Other, Absent, OtherSizes, OtherNames, Spaced,
                                                              (* Transfer   *)
  Faults, MaxSessions                                         (* both       *)

VARIABLES
  dirs, control, uThread, session, pc, path, seg, cwd, listing, sub, sessions,
  made, agreed, owned,                                        (* Navigation *)
  store, gui, filelist, k, fileExists, AllYesFlag, fileUpList, worker, i, posted,
  output, uploads, whole, spaced, raced, consented, silent, cleared,
                                                              (* Transfer   *)
  files,     (* what the directories held when an upload last left them    *)
  claimed    (* history: the directories some session has made or was      *)
             (* told to reuse                                              *)

Nav == INSTANCE Navigation WITH Faults <- Faults \cap {"config", "ftp", "net"}

Trans == INSTANCE Transfer WITH
  Faults <- Faults \ {"config", "clear"}, sessions <- uploads, agreed <- consented

ASSUME UploadAssumption == Nav!NavigationAssumption /\ Trans!TransferAssumption

walk == <<dirs, control, uThread, session, pc, path, seg, cwd, listing, sub, sessions,
          made, agreed, owned>>
transfer == <<store, gui, filelist, k, fileExists, AllYesFlag, fileUpList, worker, i, posted,
              output, uploads, whole, spaced, raced, consented, silent, cleared>>
vars == <<walk, transfer, files, claimed>>

Nothing == [n \in Trans!Names |-> Absent]

(* The directories of others may hold files of theirs.                     *)
Theirs == [Trans!Names -> {Absent} \cup [of : {Other}, size : OtherSizes]]

Init ==
  /\ Nav!Init
  /\ Trans!Init /\ store = Nothing
  /\ files = << >>
  /\ claimed = {}
-----------------------------------------------------------------------------
(* The slot as far as the end of the loop over the path, and a process     *)
(* that ends on the way.                                                   *)

(* The event loop is free between two uploads and while a worker runs.     *)
ClickUpload ==
  /\ pc = "ready" => gui = "waiting"
  /\ Nav!ClickUpload
  /\ UNCHANGED <<transfer, files, claimed>>

Walk ==
  /\ pc \notin {"box", "ready"}
  /\ Nav!Progress
  /\ claimed' = claimed \cup made' \cup agreed'
  /\ UNCHANGED <<transfer, files>>

WalkUncaught ==
  /\ pc # "ready"
  /\ Nav!Uncaught
  /\ UNCHANGED <<transfer, files, claimed>>

OtherMkdir ==
  /\ \E p \in OtherDirs : Nav!OtherMkdir(p)
  /\ UNCHANGED <<transfer, files, claimed>>
-----------------------------------------------------------------------------
(* The rest of the slot, and the worker, in the directory the walk ended   *)
(* in: a new one is empty.                                                 *)

TakeOver ==
  /\ pc = "ready"
  /\ Trans!TakeOver
  /\ store' \in IF cwd \in DOMAIN files THEN {files[cwd]}
                ELSE IF cwd \in made THEN {Nothing}
                ELSE Theirs
  /\ UNCHANGED <<walk, files, claimed>>

(* A slot that enables the buttons as soon as the worker is started.       *)
WindowEnabling ==
  /\ pc = "ready"
  /\ Trans!Window
  /\ gui' \in {"list", "ask", "waiting"}
  /\ control' = (gui' = "waiting")
  /\ UNCHANGED <<dirs, uThread, session, pc, path, seg, cwd, listing, sub, sessions,
                 made, agreed, owned, files, claimed>>

Window ==
  /\ pc = "ready"
  /\ Trans!Window
  /\ gui' \in {"list", "ask", "waiting"}
  /\ UNCHANGED <<walk, files, claimed>>

Worker ==
  /\ pc = "ready"
  /\ Trans!Worker
  /\ UNCHANGED <<walk, files, claimed>>

OtherPut ==
  /\ pc = "ready" /\ gui # "idle"
  /\ \E n \in OtherNames, s \in OtherSizes : Trans!OtherPut(n, s)
  /\ UNCHANGED <<walk, files, claimed>>

(* The transfer is over, and what it stored stays. *)
LeaveDirectory ==
  files' = [d \in {cwd} \cup DOMAIN files |-> IF d = cwd THEN store ELSE files[d]]

(* A cancelled transfer that returns without a box.                        *)
EndsUnwarned ==
  /\ pc = "ready"
  /\ Trans!AnswerCancel \/ Trans!on_FTPFinished
  /\ gui' # "dead"
  /\ session' = "closed" /\ uThread' = FALSE /\ control' = TRUE
  /\ pc' = "idle"
  /\ LeaveDirectory
  /\ UNCHANGED <<dirs, path, seg, cwd, listing, sub, sessions, made, agreed, owned, claimed>>

(* The transfer is cancelled, or its completion received: the session is   *)
(* closed, the worker deleted, and a box tells so.                         *)
Ends ==
  /\ pc = "ready"
  /\ Trans!AnswerCancel \/ Trans!on_FTPFinished
  /\ gui' # "dead"
  /\ Nav!TransferEnds
  /\ LeaveDirectory
  /\ UNCHANGED claimed

(* The process ends: the worker is deleted within run(), or an exception   *)
(* is not caught.                                                          *)
Dies ==
  /\ pc = "ready"
  /\ gui' = "dead" /\ pc' = "dead"
  /\ UNCHANGED <<dirs, control, uThread, session, path, seg, cwd, listing, sub, sessions,
                 made, agreed, owned, files, claimed>>

DeletedInRun == Dies /\ Trans!on_FTPFinished

TransferUncaught == Dies /\ Trans!Uncaught

(* The box of either half. *)
CloseBox ==
  /\ Nav!CloseBox
  /\ IF gui = "idle" THEN UNCHANGED transfer ELSE Trans!CloseBox
  /\ UNCHANGED <<files, claimed>>
-----------------------------------------------------------------------------
WindowThread ==
  Walk \/ TakeOver \/ Window \/ Ends \/ DeletedInRun \/ CloseBox

Next ==
  \/ ClickUpload
  \/ WindowThread
  \/ Worker
  \/ WalkUncaught \/ TransferUncaught
  \/ OtherMkdir \/ OtherPut

Spec == Init /\ [][Next]_vars

(* As for the two halves: calls return, boxes are answered, both threads   *)
(* are scheduled.                                                          *)
FairSpec == Spec /\ WF_vars(WindowThread) /\ WF_vars(Worker)
-----------------------------------------------------------------------------
Running == worker \in {"open", "store", "size"} /\ gui # "dead"

(* As long as the worker stores files it has what it works with: its       *)
(* UploadThread, and in it a session that is logged in and stands at the   *)
(* end of the path.  Nothing but the disabled buttons keeps a click during *)
(* the transfer from deleting both (AutomaticXuanShanLi.cpp:392-396).      *)
WorkerHasSession ==
  Running => /\ session = "loggedIn" /\ uThread
             /\ seg = Len(path) + 1

(* Where every path leads to a directory of the student's own, whatever    *)
(* this program ever stored, in any session, is in a directory it has      *)
(* created or was told to reuse, whoever else created directories there.   *)
EndsInOwn(p) == p # << >> /\ p[Len(p)].kind = "own"

Stored(s) == \E n \in Trans!Names : s[n] # Absent /\ s[n].of # Other

OnlyOwnWritten ==
  (\A p \in PathArrays : EndsInOwn(p)) =>
    /\ \A d \in DOMAIN files : Stored(files[d]) => d \in claimed
    /\ pc = "ready" /\ gui # "idle" /\ Stored(store) => cwd \in claimed

(* Both halves together go through the stages of an upload.                *)
Stage ==
  IF pc = "dead" THEN "over"
  ELSE IF pc \in {"idle", "box"} THEN pc
  ELSE IF gui # "waiting" THEN "slot"
  ELSE IF Running THEN "running"
  ELSE worker

Task == INSTANCE UploadTask WITH stage <- Stage

ImplementsTask == Task!Spec

(* A click on "upload" leads to enabled buttons, through the walk and the  *)
(* transfer, unless the process ends.                                      *)
UploadEnds == ~control ~> (control \/ pc = "dead")
=============================================================================
