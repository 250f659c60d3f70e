------------------------------ MODULE HeadNotes ------------------------------
(***************************************************************************)
(* What AutomaticXuanShanLi::on_notes_clicked does to the files of the     *)
(* list (AutomaticXuanShanLi.cpp:154-272): read a code file, truncate it,  *)
(* write it back with a header before its text, converted to UTF-8.        *)
(* Meanwhile the student may change the list whenever the loop processes   *)
(* events and save a file from an editor at any time; opening and writing  *)
(* may fail, and the process may end at any point.  How the slot nests     *)
(* with others is the subject of module MainWindow.                        *)
(***************************************************************************)
EXTENDS Naturals, Sequences, SequencesExt

CONSTANTS
  Files,      (* the files of the student's computer                       *)
  CodeFiles,  (* those whose names end in .c, .cpp, .h or .hpp             *)
  NoFile,     (* there is no file of that name                             *)
  Initially,  (* what a file may hold at the start                         *)
  Edited,     (* the files an editor saves                                 *)
  Faults,     (* what may go wrong, out of FaultKinds                      *)
  MaxSaves,   (* bound on the versions of a file's text                    *)
  MaxStays,   (* bound on the times a file is in the list since the click  *)
  MaxClicks   (* bound on the number of clicks on "notes"                  *)

FaultKinds == {"config", "read", "truncate", "write", "end"}

(* "other" is any encoding that insertAuto takes for one it is not, as     *)
(* UTF-16 or GBK whose bytes are valid UTF-8, or text with a NUL in it.    *)
Encodings == {"utf8", "gbk", "other"}

(* The version of the student's text, 0 for one that is cut or garbled,    *)
(* and the number of headers before it.                                    *)
Contents == [text : 0 .. MaxSaves, enc : Encodings, heads : Nat]

Empty == [text |-> 0, enc |-> "utf8", heads |-> 0]

ASSUME NotesAssumption ==
  /\ CodeFiles \subseteq Files
  /\ NoFile \notin Contents
  /\ Initially \subseteq {NoFile} \cup [text : {1}, enc : Encodings, heads : Nat]
  /\ Edited \subseteq Files
  /\ Faults \subseteq FaultKinds
  /\ MaxSaves \in Nat \ {0} /\ MaxStays \in Nat \ {0} /\ MaxClicks \in Nat

VARIABLES
  content,  (* the files                                                   *)
  list,     (* the file list of the window                                 *)
  pc,       (* where on_notes_clicked stands                               *)
  i,        (* its index                                                   *)
  data,     (* fileData                                                    *)
  told,     (* the files the output has spoken of since the click          *)
  headed,   (* how often it has said that a file got a header              *)
  clicks,   (* number of clicks so far                                     *)
  saved,    (* history: the version the student saved last                 *)
  start,    (* history: the headers of the files at the click              *)
  stays,    (* history: how often a file was in the list since the click   *)
  removed,  (* history: a path was removed from the list since the click   *)
  harmed    (* history: files to which one of these happened: the write    *)
            (* failed, the process ended before it, an editor saved it     *)
            (* after it was read, its encoding was mistaken                *)

output == <<told, headed>>
slot == <<pc, i, data, output, clicks, start>>
vars == <<content, list, slot, saved, stays, removed, harmed>>

HeadsOf(f) == IF content[f] = NoFile THEN 0 ELSE content[f].heads

(* A file may have a header from an earlier use of the program. *)
Init ==
  /\ content \in [Files -> Initially]
  /\ list = << >>
  /\ pc = "idle"
  /\ i = 1
  /\ data = Empty
  /\ told = {} /\ headed = [f \in Files |-> 0]
  /\ clicks = 0
  /\ saved = [f \in Files |-> 1]
  /\ start = [f \in Files |-> 0] /\ stays = [f \in Files |-> 0]
  /\ removed = FALSE
  /\ harmed = {}
-----------------------------------------------------------------------------
(* The student, where the event loop runs, and the editor, anywhere.       *)

Interactive == pc \in {"idle", "events", "box"}

AddFile(f) ==
  /\ Interactive
  /\ f \notin Range(list)
  /\ list' = Append(list, f)
  /\ IF pc = "idle" THEN UNCHANGED stays
     ELSE stays[f] < MaxStays /\ stays' = [stays EXCEPT ![f] = @ + 1]
  /\ UNCHANGED <<content, slot, saved, removed, harmed>>

RemoveFile(k) ==
  /\ Interactive
  /\ list' = RemoveAt(list, k)
  /\ removed' = TRUE
  /\ UNCHANGED <<content, slot, saved, stays, harmed>>

(* The file the loop has read and not yet written back.                    *)
InHand(f) == pc \in {"truncate", "write"} /\ f = list[i]

EditorSaves(f) ==
  /\ saved[f] < MaxSaves
  /\ saved' = [saved EXCEPT ![f] = @ + 1]
  /\ \E e \in Encodings :
       content' = [content EXCEPT ![f] = [text |-> saved[f] + 1, enc |-> e, heads |-> HeadsOf(f)]]
  /\ harmed' = IF InHand(f) THEN harmed \cup {f}
               ELSE IF pc = "idle" THEN harmed \ {f} ELSE harmed
  /\ UNCHANGED <<list, slot, stays, removed>>
-----------------------------------------------------------------------------
(* The slot.                                                               *)

(* Without a usable configuration a box tells so and nothing is done.      *)
on_notes_clicked ==
  /\ pc = "idle"
  /\ clicks < MaxClicks
  /\ clicks' = clicks + 1
  /\ told' = {} /\ headed' = [f \in Files |-> 0]
  /\ start' = [f \in Files |-> HeadsOf(f)]
  /\ stays' = [f \in Files |-> IF f \in Range(list) THEN 1 ELSE 0]
  /\ removed' = FALSE
  /\ i' = 1
  /\ pc' \in {"loop"} \cup {p \in {"box"} : "config" \in Faults}
  /\ UNCHANGED <<content, list, data, saved, harmed>>

Goto(l) == pc' = l /\ UNCHANGED <<list, clicks, saved, start, stays, removed>>

(* The loop's test, and its body as far as processEvents.                  *)
LoopTest ==
  /\ pc = "loop"
  /\ Goto(IF i <= Len(list) THEN "events" ELSE "box")
  /\ UNCHANGED <<content, i, data, output, harmed>>

(* The process ends and is started again, with an empty list.              *)
Restart ==
  /\ pc' = "idle"
  /\ list' = << >>
  /\ i' = 1 /\ data' = Empty
  /\ removed' = TRUE
  /\ UNCHANGED <<content, output, clicks, saved, start, stays>>

(* item(i) may have been removed meanwhile: a null pointer.                *)
NullItem ==
  /\ pc = "events"
  /\ i > Len(list)
  /\ Restart
  /\ UNCHANGED harmed

SkipOther ==
  /\ pc = "events"
  /\ i <= Len(list)
  /\ list[i] \notin CodeFiles
  /\ i' = i + 1
  /\ Goto("loop")
  /\ UNCHANGED <<content, data, output, harmed>>

(* A body of the loop that advances the index once more. *)
TellTwice(f) ==
  /\ told' = told \cup {f}
  /\ i' = i + 2
  /\ data' = Empty
  /\ Goto("loop")

(* A file is done with, for better or worse: the output says so.           *)
Tell(f) ==
  /\ told' = told \cup {f}
  /\ i' = i + 1
  /\ data' = Empty
  /\ Goto("loop")

Read ==
  /\ pc = "events"
  /\ i <= Len(list)
  /\ list[i] \in CodeFiles
  /\ LET f == list[i]
     IN  \/ /\ content[f] # NoFile
            /\ data' = content[f]
            /\ harmed' = IF content[f].enc = "other" THEN harmed \cup {f} ELSE harmed
            /\ Goto("truncate")
            /\ UNCHANGED <<i, output>>
         \/ /\ content[f] = NoFile
            /\ Tell(f)
            /\ UNCHANGED <<headed, harmed>>
         \/ /\ content[f] # NoFile /\ "read" \in Faults
            /\ Tell(f)
            /\ UNCHANGED <<headed, harmed>>
  /\ UNCHANGED content

Truncate ==
  /\ pc = "truncate"
  /\ \/ /\ content' = [content EXCEPT ![list[i]] = Empty]
        /\ Goto("write")
        /\ UNCHANGED <<i, data, output>>
     \/ /\ "truncate" \in Faults
        /\ Tell(list[i])
        /\ UNCHANGED <<content, headed>>
  /\ UNCHANGED harmed

(* insertAuto without the test for characters that are no UTF-8. *)
InsertAsUtf8(d) ==
  [text |-> IF d.enc = "utf8" THEN d.text ELSE 0, enc |-> "utf8", heads |-> d.heads + 1]

(* insertAuto that forgets the note. *)
InsertOnlyText(d) ==
  [text |-> IF d.enc \in {"utf8", "gbk"} THEN d.text ELSE 0, enc |-> "utf8", heads |-> d.heads]

(* insertAuto decodes UTF-8 or, where that fails, GBK.                     *)
insertAuto(d) ==
  [text |-> IF d.enc \in {"utf8", "gbk"} THEN d.text ELSE 0, enc |-> "utf8", heads |-> d.heads + 1]

(* The result of write is ignored: the output calls the header added.      *)
Write ==
  /\ pc = "write"
  /\ \/ /\ content' = [content EXCEPT ![list[i]] = insertAuto(data)]
        /\ UNCHANGED harmed
     \/ /\ "write" \in Faults
        /\ content' = [content EXCEPT ![list[i]] = Empty]
        /\ harmed' = harmed \cup {list[i]}
  /\ Tell(list[i])
  /\ headed' = [headed EXCEPT ![list[i]] = @ + 1]

CloseBox ==
  /\ pc = "box"
  /\ Goto("idle")
  /\ i' = 1
  /\ UNCHANGED <<content, data, output, harmed>>

End ==
  /\ "end" \in Faults
  /\ Restart
  /\ harmed' = IF pc = "write" THEN harmed \cup {list[i]} ELSE harmed
-----------------------------------------------------------------------------
Next ==
  \/ \E f \in Files : AddFile(f)
  \/ \E f \in Edited : EditorSaves(f)
  \/ \E k \in 1 .. Len(list) : RemoveFile(k)
  \/ on_notes_clicked \/ LoopTest \/ NullItem \/ SkipOther
  \/ Read \/ Truncate \/ Write
  \/ CloseBox \/ End

Spec == Init /\ [][Next]_vars
-----------------------------------------------------------------------------
TypeOK ==
  /\ content \in [Files -> {NoFile} \cup Contents]
  /\ list \in Seq(Files)
  /\ \A j, k \in 1 .. Len(list) : list[j] = list[k] => j = k
  /\ pc \in {"idle", "loop", "events", "truncate", "write", "box"}
  /\ i \in Nat \ {0}
  /\ pc = "loop" => i <= Len(list) + 1
  /\ pc \in {"truncate", "write"} => i <= Len(list) /\ list[i] \in CodeFiles
  /\ data \in Contents
  /\ told \subseteq Files /\ headed \in [Files -> Nat]
  /\ clicks \in 0 .. MaxClicks
  /\ saved \in [Files -> 1 .. MaxSaves]
  /\ start \in [Files -> Nat] /\ stays \in [Files -> 0 .. MaxStays]
  /\ removed \in BOOLEAN
  /\ harmed \subseteq Files

(* The student's text survives: whatever is clicked, edited and converted, *)
(* a file holds the text saved last, except while it is truncated and for  *)
(* the four mishaps of harmed.  (The file is truncated before it is        *)
(* written, AutomaticXuanShanLi.cpp:225-226.)                              *)
TextKept ==
  \A f \in Files \ harmed :
    content[f] # NoFile /\ content[f].text # saved[f] => pc = "write" /\ InHand(f)

(* A code file has as many headers more than at the click as the output    *)
(* says, and no other file has any; it gets no more of them than the times *)
(* it has been in the list: one, unless the student takes it out and adds  *)
(* it again while the loop runs.  And while nothing is taken out, every    *)
(* code file the loop has passed is spoken of.                             *)
NotesAddedOnce ==
  pc \in {"loop", "events", "box"} =>
    /\ \A f \in Files \ harmed : HeadsOf(f) = start[f] + headed[f]
    /\ \A f \in Files : headed[f] <= IF f \in CodeFiles THEN stays[f] ELSE 0
    /\ ~removed => \A k \in 1 .. i - 1 : list[k] \in CodeFiles => list[k] \in told
=============================================================================
