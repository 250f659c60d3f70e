--------------------------- MODULE HeadNotesProofs ---------------------------
(***************************************************************************)
(* Proofs about the two slots that go through the file list: the head      *)
(* notes, for every number of files, clicks and versions and every set of  *)
(* failures, and the check of the names, for every path.                   *)
(*                                                                         *)
(* What has to be known of the notes beside the properties: a file the     *)
(* loop has in hand and nothing happened to holds, in fileData, the text   *)
(* saved last, in an encoding that is recognised, and the headers it had   *)
(* at the click with those added since; and a file at the loop's place or  *)
(* behind it has had fewer headers than stays in the list.                 *)
(*                                                                         *)
(* Of the names: a path ends in at most one extension, and in the same one *)
(* as its name, since no extension holds a slash.                          *)
(***************************************************************************)
EXTENDS HeadNotes, FileNames, SequenceTheorems, WellFoundedInduction, TLAPS

(* The list without one of its files. *)
LEMMA RemoveAtType ==
  ASSUME NEW S, NEW s \in Seq(S), NEW r \in 1 .. Len(s)
  PROVE  /\ RemoveAt(s, r) \in Seq(S) /\ Len(RemoveAt(s, r)) = Len(s) - 1
         /\ \A j \in 1 .. Len(s) - 1 : RemoveAt(s, r)[j] = IF j < r THEN s[j] ELSE s[j + 1]
<1> DEFINE a == SubSeq(s, 1, r - 1)
           b == SubSeq(s, r + 1, Len(s))
<1>1. a \in Seq(S) /\ Len(a) = r - 1 /\ \A j \in 1 .. r - 1 : a[j] = s[j]
  OBVIOUS
<1>2. b \in Seq(S) /\ Len(b) = Len(s) - r /\ \A j \in 1 .. Len(s) - r : b[j] = s[r + j]
  OBVIOUS
<1>3. RemoveAt(s, r) = a \o b
  BY DEF RemoveAt
<1> HIDE DEF a, b
<1>4. /\ a \o b \in Seq(S) /\ Len(a \o b) = Len(s) - 1
      /\ \A j \in 1 .. Len(s) - 1 : (a \o b)[j] = IF j <= r - 1 THEN a[j] ELSE b[j - (r - 1)]
  <2>1. a \in Seq(S) /\ b \in Seq(S) /\ Len(a) = r - 1 /\ Len(a) + Len(b) = Len(s) - 1
    BY <1>1, <1>2
  <2> QED
    BY <2>1, ConcatProperties, SMTT(30)
<1>5. \A j \in 1 .. Len(s) - 1 : j >= r => b[j - (r - 1)] = s[j + 1]
  BY <1>2
<1> QED
  BY <1>1, <1>2, <1>3, <1>4, <1>5

(* A sequence without repetitions stays one when an element goes, or a new *)
(* one is appended.                                                        *)
Distinct(s) == \A j, k \in 1 .. Len(s) : s[j] = s[k] => j = k

LEMMA RemoveAtDistinct ==
  ASSUME NEW S, NEW s \in Seq(S), NEW r \in 1 .. Len(s), Distinct(s)
  PROVE  Distinct(RemoveAt(s, r))
<1> DEFINE t == RemoveAt(s, r)
           was(x) == IF x < r THEN x ELSE x + 1
<1>1. Len(t) = Len(s) - 1 /\ \A j \in 1 .. Len(s) - 1 : t[j] = IF j < r THEN s[j] ELSE s[j + 1]
  BY RemoveAtType
<1> HIDE DEF t
<1>2. ASSUME NEW j \in 1 .. Len(t), NEW k \in 1 .. Len(t), t[j] = t[k]
      PROVE  j = k
  <2>1. was(j) \in 1 .. Len(s) /\ was(k) \in 1 .. Len(s)
    BY <1>1
  <2>2. t[j] = s[was(j)] /\ t[k] = s[was(k)]
    BY <1>1
  <2>3. was(j) = was(k) => j = k
    OBVIOUS
  <2> HIDE DEF was
  <2> QED
    BY <1>2, <2>1, <2>2, <2>3 DEF Distinct
<1> QED
  BY <1>2 DEF Distinct, t

LEMMA AppendDistinct ==
  ASSUME NEW S, NEW s \in Seq(S), NEW e \in S, e \notin Range(s), Distinct(s)
  PROVE  Distinct(Append(s, e))
<1>1. \A j \in 1 .. Len(s) : s[j] # e
  BY DEF Range
<1>2. /\ Len(Append(s, e)) = Len(s) + 1 /\ Append(s, e)[Len(s) + 1] = e
      /\ \A j \in 1 .. Len(s) : Append(s, e)[j] = s[j]
  OBVIOUS
<1>3. 1 .. Len(Append(s, e)) = (1 .. Len(s)) \cup {Len(s) + 1}
  BY <1>2
<1> QED
  BY <1>1, <1>2, <1>3 DEF Distinct
-----------------------------------------------------------------------------
InHandIsSaved ==
  pc \in {"truncate", "write"} /\ list[i] \notin harmed =>
    data.text = saved[list[i]] /\ data.enc # "other"

InHandIsCounted ==
  pc \in {"truncate", "write"} /\ list[i] \notin harmed =>
    data.heads = start[list[i]] + headed[list[i]]

HeadsCounted ==
  pc # "idle" =>
    \A f \in Files \ harmed : (pc = "write" /\ f = list[i]) \/ HeadsOf(f) = start[f] + headed[f]

HeadsWithinStays ==
  pc # "idle" => \A f \in Files : headed[f] <= IF f \in CodeFiles THEN stays[f] ELSE 0

StaysAhead ==
  pc # "idle" => \A k \in i .. Len(list) : headed[list[k]] < stays[list[k]]

PassedIsTold ==
  pc # "idle" /\ ~removed => \A k \in 1 .. i - 1 : list[k] \in CodeFiles => list[k] \in told

IndexInList == pc # "idle" /\ ~removed => i <= Len(list) + 1

KInv == TextKept /\ InHandIsSaved

NInv ==
  /\ IndexInList /\ PassedIsTold
  /\ InHandIsCounted /\ HeadsCounted
  /\ HeadsWithinStays /\ StaysAhead
-----------------------------------------------------------------------------
(* Types.                                                                  *)

LEMMA EmptyType == Empty \in Contents
BY NotesAssumption DEF Empty, Contents, Encodings

LEMMA HeadsType ==
  ASSUME TypeOK, NEW f \in Files
  PROVE  HeadsOf(f) \in Nat
BY DEF TypeOK, HeadsOf, Contents

LEMMA InsertType ==
  ASSUME NEW d \in Contents
  PROVE  insertAuto(d) \in Contents
BY NotesAssumption DEF insertAuto, Contents, Encodings

LEMMA InitType == Init => TypeOK
<1> SUFFICES ASSUME Init PROVE TypeOK
  OBVIOUS
<1>1. content \in [Files -> {NoFile} \cup Contents]
  <2>1. [text : {1}, enc : Encodings, heads : Nat] \subseteq Contents
    BY NotesAssumption DEF Contents
  <2> QED
    BY <2>1, NotesAssumption DEF Init
<1>2. list \in Seq(Files) /\ \A j, k \in 1 .. Len(list) : list[j] = list[k] => j = k
  BY DEF Init
<1>3. /\ saved \in [Files -> 1 .. MaxSaves] /\ start \in [Files -> Nat] /\ headed \in [Files -> Nat]
      /\ stays \in [Files -> 0 .. MaxStays]
  BY NotesAssumption DEF Init
<1>4. removed \in BOOLEAN
  BY Zenon DEF Init
<1>5. told \subseteq Files /\ harmed \subseteq Files
  BY DEF Init
<1>6. pc = "idle" /\ i = 1 /\ data \in Contents /\ clicks \in 0 .. MaxClicks
  <2>1. 0 \in 0 .. MaxClicks
    BY NotesAssumption
  <2> QED
    BY <2>1, EmptyType DEF Init
<1>7. /\ pc \in {"idle", "loop", "events", "truncate", "write", "box"} /\ i \in Nat \ {0}
      /\ pc \notin {"loop", "truncate", "write"}
  BY <1>6
<1> QED
  BY <1>1, <1>2, <1>3, <1>4, <1>5, <1>6, <1>7, Zenon DEF TypeOK

LEMMA ToldType ==
  ASSUME TypeOK, i <= Len(list), list[i] \in Files, Tell(list[i]), UNCHANGED <<content, headed, harmed>>
  PROVE  TypeOK'
<1>1. /\ told' \subseteq Files /\ i' = i + 1 /\ pc' = "loop" /\ data' = Empty
      /\ UNCHANGED <<list, clicks, saved, start, stays, removed>>
  BY DEF Tell, Goto, TypeOK
<1>2. i' \in Nat \ {0} /\ i' <= Len(list) + 1 /\ data' \in Contents
  BY <1>1, EmptyType DEF TypeOK
<1> QED
  BY <1>1, <1>2 DEF TypeOK

LEMMA TypeNext == TypeOK /\ [Next]_vars => TypeOK'
<1> SUFFICES ASSUME TypeOK, [Next]_vars PROVE TypeOK'
  OBVIOUS
<1> USE NotesAssumption, EmptyType DEF slot, output
<1>0. list \in Seq(Files) /\ i \in Nat \ {0} /\ Len(list) \in Nat
  BY DEF TypeOK
<1>1. ASSUME NEW f \in Files, AddFile(f) PROVE TypeOK'
  <2>1. Distinct(list) /\ f \notin Range(list) /\ list' = Append(list, f)
    BY <1>1 DEF AddFile, TypeOK, Distinct
  <2>2. Distinct(list') /\ list' \in Seq(Files)
    BY <1>0, <2>1, AppendDistinct
  <2>3. stays' \in [Files -> 0 .. MaxStays]
    <3>1. CASE UNCHANGED stays
      BY <3>1 DEF TypeOK
    <3>2. CASE stays[f] < MaxStays /\ stays' = [stays EXCEPT ![f] = @ + 1]
      <4>1. stays[f] \in 0 .. MaxStays /\ stays[f] + 1 \in 0 .. MaxStays
        BY <3>2 DEF TypeOK
      <4> QED
        BY <3>2, <4>1 DEF TypeOK
    <3> QED
      BY <1>1, <3>1, <3>2 DEF AddFile
  <2>4. UNCHANGED <<content, slot, saved, removed, harmed>> /\ Interactive
    BY <1>1 DEF AddFile
  <2> QED
    BY <2>2, <2>3, <2>4 DEF Interactive, TypeOK, Distinct
<1>2. ASSUME NEW f \in Files, EditorSaves(f) PROVE TypeOK'
  <2>1. PICK e \in Encodings :
          content' = [content EXCEPT ![f] = [text |-> saved[f] + 1, enc |-> e, heads |-> HeadsOf(f)]]
    BY <1>2 DEF EditorSaves
  <2>2. saved[f] \in 1 .. MaxSaves /\ saved[f] < MaxSaves
    BY <1>2 DEF EditorSaves, TypeOK
  <2>3. [text |-> saved[f] + 1, enc |-> e, heads |-> HeadsOf(f)] \in Contents
    BY <2>2, HeadsType DEF Contents
  <2>4. content' \in [Files -> {NoFile} \cup Contents]
    BY <2>1, <2>3 DEF TypeOK
  <2>5. saved' \in [Files -> 1 .. MaxSaves] /\ harmed' \subseteq Files
    BY <1>2, <2>2 DEF EditorSaves, TypeOK
  <2> QED
    BY <1>2, <2>4, <2>5 DEF EditorSaves, TypeOK
<1>3. ASSUME NEW k \in 1 .. Len(list), RemoveFile(k) PROVE TypeOK'
  <2>1. Distinct(list) /\ list' = RemoveAt(list, k)
    BY <1>3 DEF RemoveFile, TypeOK, Distinct
  <2>2. Distinct(list') /\ list' \in Seq(Files)
    BY <1>0, <2>1, RemoveAtDistinct, RemoveAtType
  <2> QED
    BY <1>3, <2>2 DEF RemoveFile, Interactive, TypeOK, Distinct
<1>4. CASE on_notes_clicked
  <2>1. /\ start' \in [Files -> Nat] /\ headed' \in [Files -> Nat] /\ told' = {}
        /\ stays' \in [Files -> 0 .. MaxStays]
    BY <1>4, HeadsType DEF on_notes_clicked
  <2>2. pc' \in {"loop", "box"} /\ clicks' \in 0 .. MaxClicks /\ i' = 1
    BY <1>4 DEF on_notes_clicked, TypeOK
  <2>4. removed' \in BOOLEAN
    BY <1>4, Zenon DEF on_notes_clicked
  <2>3. UNCHANGED <<content, list, data, saved, harmed>>
    BY <1>4 DEF on_notes_clicked
  <2> QED
    BY <1>0, <2>1, <2>2, <2>3, <2>4 DEF TypeOK
<1>5. CASE LoopTest
  BY <1>5 DEF LoopTest, Goto, TypeOK
<1>6. CASE NullItem
  BY <1>6 DEF NullItem, Restart, TypeOK
<1>7. CASE SkipOther
  <2>1. i' = i + 1 /\ i <= Len(list) /\ pc' = "loop"
        /\ UNCHANGED <<content, list, data, told, headed, clicks, saved, start, stays, removed, harmed>>
    BY <1>7 DEF SkipOther, Goto
  <2>2. i' \in Nat \ {0} /\ i' <= Len(list) + 1
    BY <1>0, <2>1
  <2> QED
    BY <2>1, <2>2 DEF TypeOK
<1>8. CASE Read
  <2>1. list[i] \in Files /\ i <= Len(list) /\ list[i] \in CodeFiles
    BY <1>0, <1>8 DEF Read
  <2> DEFINE f == list[i]
  <2>2. CASE content[f] # NoFile /\ data' = content[f] /\ Goto("truncate") /\ UNCHANGED <<i, output>>
             /\ (harmed' = IF content[f].enc = "other" THEN harmed \cup {f} ELSE harmed)
    <3>1. data' \in Contents /\ harmed' \subseteq Files
      BY <2>1, <2>2 DEF TypeOK
    <3>2. /\ pc' = "truncate"
          /\ UNCHANGED <<content, i, told, headed, list, clicks, saved, start, stays, removed>>
      BY <1>8, <2>2 DEF Read, Goto
    <3> QED
      BY <2>1, <3>1, <3>2 DEF TypeOK
  <2>3. CASE Tell(f) /\ UNCHANGED <<headed, harmed>>
    BY <1>8, <2>1, <2>3, ToldType DEF Read
  <2> QED
    BY <1>8, <2>2, <2>3 DEF Read
<1>9. CASE Truncate
  <2>1. list[i] \in Files /\ i <= Len(list) /\ list[i] \in CodeFiles
    BY <1>9 DEF Truncate, TypeOK
  <2>2. CASE content' = [content EXCEPT ![list[i]] = Empty] /\ Goto("write") /\ UNCHANGED <<i, data, output>>
    <3>1. content' \in [Files -> {NoFile} \cup Contents]
      BY <2>1, <2>2 DEF TypeOK
    <3>2. pc' = "write" /\ UNCHANGED <<i, data, told, headed, list, clicks, saved, start, stays, removed, harmed>>
      BY <1>9, <2>2 DEF Truncate, Goto
    <3> QED
      BY <2>1, <3>1, <3>2 DEF TypeOK
  <2>3. CASE Tell(list[i]) /\ UNCHANGED <<content, headed>>
    BY <1>9, <2>1, <2>3, ToldType DEF Truncate
  <2> QED
    BY <1>9, <2>2, <2>3 DEF Truncate
<1>10. CASE Write
  <2>1. list[i] \in Files /\ i <= Len(list) /\ insertAuto(data) \in Contents
    BY <1>0, <1>10, InsertType DEF Write, TypeOK
  <2>2. content' \in [Files -> {NoFile} \cup Contents] /\ harmed' \subseteq Files
    <3>1. CASE content' = [content EXCEPT ![list[i]] = insertAuto(data)] /\ UNCHANGED harmed
      BY <2>1, <3>1 DEF TypeOK
    <3>2. CASE content' = [content EXCEPT ![list[i]] = Empty] /\ harmed' = harmed \cup {list[i]}
      BY <2>1, <3>2 DEF TypeOK
    <3> QED
      BY <1>10, <3>1, <3>2 DEF Write
  <2>3. /\ told' = told \cup {list[i]} /\ i' = i + 1 /\ data' = Empty /\ pc' = "loop"
        /\ UNCHANGED <<list, clicks, saved, start, stays, removed>>
    BY <1>10 DEF Write, Tell, Goto
  <2>4. told' \subseteq Files
    BY <2>1, <2>3 DEF TypeOK
  <2>5. headed' \in [Files -> Nat]
    <3>1. headed' = [headed EXCEPT ![list[i]] = @ + 1] /\ headed \in [Files -> Nat]
      BY <1>10 DEF Write, TypeOK
    <3> HIDE DEF TypeOK
    <3> QED
      BY <2>1, <3>1
  <2> QED
    <3>1. UNCHANGED <<list, clicks, saved, start, stays, removed>> /\ data' \in Contents
          /\ i' \in Nat \ {0} /\ i' <= Len(list) + 1 /\ pc' = "loop"
      BY <1>0, <2>1, <2>3
    <3> QED
      BY <2>2, <2>4, <2>5, <3>1 DEF TypeOK
<1>11. CASE CloseBox
  BY <1>11 DEF CloseBox, Goto, TypeOK
<1>12. CASE End
  <2>1. pc = "write" => list[i] \in Files
    BY <1>0 DEF TypeOK
  <2>2. /\ pc' = "idle" /\ list' = << >> /\ i' = 1 /\ data' = Empty /\ removed' = TRUE
        /\ UNCHANGED <<content, output, clicks, saved, start, stays>>
    BY <1>12 DEF End, Restart
  <2>3. harmed' \subseteq Files
    BY <1>12, <2>1 DEF End, TypeOK
  <2>4. list' \in Seq(Files) /\ \A j, k \in 1 .. Len(list') : list'[j] = list'[k] => j = k
    BY <2>2
  <2>5. data' \in Contents
    BY <2>2, EmptyType
  <2> QED
    BY <2>2, <2>3, <2>4, <2>5 DEF TypeOK
<1>13. CASE UNCHANGED vars
  BY <1>13 DEF vars, TypeOK
<1> QED
  BY <1>1, <1>2, <1>3, <1>4, <1>5, <1>6, <1>7, <1>8, <1>9, <1>10, <1>11, <1>12, <1>13, NotesAssumption DEF Next

(* Every reachable state is well typed: the list holds no path twice, and  *)
(* a file in hand is a code file of the list.                              *)
THEOREM TypeCorrect == Spec => []TypeOK
BY InitType, TypeNext, PTL DEF Spec
-----------------------------------------------------------------------------
(* The student's text.                                                     *)

LEMMA KeptNext == TypeOK /\ KInv /\ [Next]_vars => KInv'
<1> SUFFICES ASSUME TypeOK, KInv, [Next]_vars PROVE KInv'
  OBVIOUS
<1> USE DEF KInv, slot
<1>0. /\ content \in [Files -> {NoFile} \cup Contents] /\ saved \in [Files -> 1 .. MaxSaves]
      /\ list \in Seq(Files) /\ i \in Nat \ {0} /\ Len(list) \in Nat /\ NoFile \notin Contents
  BY NotesAssumption DEF TypeOK
<1>1. pc \in {"truncate", "write"} => list[i] \in Files
  BY <1>0 DEF TypeOK
<1>2. ASSUME pc \notin {"truncate", "write"}, pc' \notin {"truncate", "write"},
             UNCHANGED <<content, saved, harmed>>
      PROVE  KInv'
  BY <1>2 DEF TextKept, InHandIsSaved, InHand
<1>3. ASSUME NEW f \in Files, AddFile(f) PROVE KInv'
  BY <1>2, <1>3 DEF AddFile, Interactive
<1>4. ASSUME NEW k \in 1 .. Len(list), RemoveFile(k) PROVE KInv'
  BY <1>2, <1>4 DEF RemoveFile, Interactive
<1>5. ASSUME NEW f \in Files, EditorSaves(f) PROVE KInv'
  <2>1. PICK e \in Encodings :
          content' = [content EXCEPT ![f] = [text |-> saved[f] + 1, enc |-> e, heads |-> HeadsOf(f)]]
    BY <1>5 DEF EditorSaves
  <2>2. content'[f].text = saved'[f] /\ saved' = [saved EXCEPT ![f] = saved[f] + 1]
    BY <1>0, <1>5, <2>1 DEF EditorSaves
  <2>3. \A g \in Files \ {f} : content'[g] = content[g] /\ saved'[g] = saved[g]
    BY <1>0, <2>1, <2>2
  <2>4. UNCHANGED <<pc, list, i, data>> /\ harmed \ {f} \subseteq harmed'
        /\ (InHand(f) => f \in harmed') /\ harmed' \subseteq harmed \cup {f}
        /\ (pc # "idle" => harmed \subseteq harmed')
    BY <1>5 DEF EditorSaves
  <2>5. TextKept'
    BY <2>2, <2>3, <2>4 DEF TextKept, InHand
  <2>6. InHandIsSaved'
    BY <1>1, <2>3, <2>4 DEF InHandIsSaved, InHand
  <2> QED
    BY <2>5, <2>6
<1>6. CASE on_notes_clicked
  BY <1>2, <1>6 DEF on_notes_clicked
<1>7. CASE LoopTest
  BY <1>2, <1>7 DEF LoopTest, Goto
<1>8. CASE NullItem
  BY <1>2, <1>8 DEF NullItem, Restart
<1>9. CASE SkipOther
  BY <1>2, <1>9 DEF SkipOther, Goto
<1>10. CASE Read
  <2> DEFINE f == list[i]
  <2>1. f \in Files
    BY <1>0, <1>10 DEF Read
  <2>2. CASE content[f] # NoFile /\ data' = content[f] /\ Goto("truncate") /\ UNCHANGED <<i, output>>
             /\ (harmed' = IF content[f].enc = "other" THEN harmed \cup {f} ELSE harmed)
    <3>1. UNCHANGED <<content, saved, list, i>> /\ pc = "events" /\ pc' = "truncate"
      BY <1>10, <2>2 DEF Read, Goto
    <3>2. harmed \subseteq harmed'
      BY <2>2
    <3>3. TextKept'
      BY <3>1, <3>2 DEF TextKept
    <3>4. f \notin harmed' => data'.text = saved[f] /\ data'.enc # "other"
      BY <2>1, <2>2, <3>1, <3>2 DEF TextKept
    <3>5. InHandIsSaved'
      BY <3>1, <3>4 DEF InHandIsSaved
    <3> QED
      BY <3>3, <3>5
  <2>3. CASE Tell(f) /\ UNCHANGED <<headed, harmed>>
    BY <1>2, <1>10, <2>3 DEF Read, Tell, Goto
  <2> QED
    BY <1>10, <2>2, <2>3 DEF Read
<1>11. CASE Truncate
  <2>1. CASE content' = [content EXCEPT ![list[i]] = Empty] /\ Goto("write") /\ UNCHANGED <<i, data, output>>
    <3>1. \A g \in Files \ {list[i]} : content'[g] = content[g]
      BY <1>0, <2>1
    <3>2. UNCHANGED <<saved, harmed, list, i, data>> /\ pc = "truncate" /\ pc' = "write"
      BY <1>11, <2>1 DEF Truncate, Goto
    <3> QED
      BY <3>1, <3>2 DEF TextKept, InHandIsSaved, InHand
  <2>2. CASE Tell(list[i]) /\ UNCHANGED <<content, headed>>
    <3>1. UNCHANGED <<saved, harmed, content>> /\ pc = "truncate" /\ pc' = "loop"
      BY <1>11, <2>2 DEF Truncate, Tell, Goto
    <3> QED
      BY <3>1 DEF TextKept, InHandIsSaved, InHand
  <2> QED
    BY <1>11, <2>1, <2>2 DEF Truncate
<1>12. CASE Write
  <2>1. UNCHANGED saved /\ pc = "write" /\ pc' = "loop"
    BY <1>12 DEF Write, Tell, Goto
  <2>2. \A g \in Files \ {list[i]} : content'[g] = content[g]
    BY <1>0, <1>12 DEF Write
  <2>3. CASE content' = [content EXCEPT ![list[i]] = insertAuto(data)] /\ UNCHANGED harmed
    <3>1. content'[list[i]] = insertAuto(data)
      BY <1>0, <1>1, <2>1, <2>3
    <3>2. list[i] \notin harmed => insertAuto(data).text = saved[list[i]]
      <4>1. data.enc \in Encodings
        BY DEF TypeOK, Contents
      <4> QED
        BY <2>1, <4>1 DEF InHandIsSaved, insertAuto, Encodings
    <3> QED
      BY <2>1, <2>2, <2>3, <3>1, <3>2 DEF TextKept, InHandIsSaved, InHand
  <2>4. CASE harmed' = harmed \cup {list[i]}
    BY <2>1, <2>2, <2>4 DEF TextKept, InHandIsSaved, InHand
  <2> QED
    BY <1>12, <2>3, <2>4 DEF Write
<1>13. CASE CloseBox
  BY <1>2, <1>13 DEF CloseBox, Goto
<1>14. CASE End
  BY <1>14 DEF End, Restart, TextKept, InHandIsSaved, InHand
<1>15. CASE UNCHANGED vars
  BY <1>15 DEF vars, TextKept, InHandIsSaved, InHand
<1> QED
  BY <1>3, <1>4, <1>5, <1>6, <1>7, <1>8, <1>9, <1>10, <1>11, <1>12, <1>13, <1>14, <1>15, NotesAssumption DEF Next

(* The text the student saved last survives every nesting of clicks, edits *)
(* and conversions, but for the mishaps that harmed names.                 *)
THEOREM TextIsKept == Spec => []TextKept
<1>1. Init => KInv
  BY NotesAssumption DEF Init, KInv, TextKept, InHandIsSaved
<1>2. KInv => TextKept
  BY DEF KInv
<1> QED
  BY <1>1, <1>2, InitType, TypeNext, KeptNext, PTL DEF Spec
-----------------------------------------------------------------------------
(* The headers.                                                            *)

(* What every body of the loop ends with, but for what was read and        *)
(* written.                                                                *)
LEMMA TellStep ==
  ASSUME TypeOK, NInv, pc # "idle", i <= Len(list), Tell(list[i])
  PROVE  IndexInList' /\ PassedIsTold'
<1>1. /\ i \in 1 .. Len(list) /\ Len(list) \in Nat /\ list \in Seq(Files)
      /\ i' = i + 1 /\ UNCHANGED <<list, removed>> /\ told' = told \cup {list[i]}
  BY DEF Tell, Goto, TypeOK
<1>2. IndexInList'
  BY <1>1 DEF IndexInList
<1>3. PassedIsTold'
  <2> SUFFICES ASSUME ~removed, NEW k \in 1 .. i' - 1, list[k] \in CodeFiles
               PROVE  list[k] \in told'
    BY <1>1 DEF PassedIsTold
  <2>1. CASE k = i
    BY <1>1, <2>1
  <2>2. CASE k # i
    <3>1. k \in 1 .. i - 1
      BY <1>1, <2>2
    <3> QED
      BY <1>1, <3>1 DEF NInv, PassedIsTold
  <2> QED
    BY <2>1, <2>2
<1> QED
  BY <1>2, <1>3

(* A body that adds no header: the index goes on.                          *)
LEMMA NoHeaderStep ==
  ASSUME TypeOK, NInv, pc # "idle", i' = i + 1, pc' = "loop",
         UNCHANGED <<list, start, stays, headed, harmed>>,
         \A f \in Files \ harmed : pc # "write" /\ HeadsOf(f)' = HeadsOf(f)
  PROVE  InHandIsCounted' /\ HeadsCounted' /\ HeadsWithinStays' /\ StaysAhead'
<1>1. InHandIsCounted'
  BY DEF InHandIsCounted
<1>2. HeadsCounted'
  BY DEF NInv, HeadsCounted
<1>3. HeadsWithinStays'
  BY DEF NInv, HeadsWithinStays
<1>4. StaysAhead'
  <2>1. i \in Nat /\ \A k \in i' .. Len(list) : k \in i .. Len(list)
    BY DEF TypeOK
  <2> QED
    BY <2>1 DEF NInv, StaysAhead
<1> QED
  BY <1>1, <1>2, <1>3, <1>4

LEMMA CountNext == TypeOK /\ NInv /\ [Next]_vars => NInv'
<1> SUFFICES ASSUME TypeOK, NInv, [Next]_vars PROVE NInv'
  OBVIOUS
<1> USE DEF slot, output
<1>0. /\ content \in [Files -> {NoFile} \cup Contents]
      /\ list \in Seq(Files) /\ i \in Nat \ {0} /\ Len(list) \in Nat /\ NoFile \notin Contents
      /\ headed \in [Files -> Nat] /\ stays \in [Files -> 0 .. MaxStays] /\ start \in [Files -> Nat]
  BY NotesAssumption DEF TypeOK
<1>1. ASSUME pc' = "idle" PROVE NInv'
  BY <1>1 DEF NInv, IndexInList, PassedIsTold, InHandIsCounted, HeadsCounted, HeadsWithinStays, StaysAhead
<1>2. ASSUME NEW f \in Files, AddFile(f) PROVE NInv'
  <2>1. CASE pc = "idle"
    BY <1>1, <1>2, <2>1 DEF AddFile
  <2>2. CASE pc # "idle"
    <3>1. /\ list' = Append(list, f) /\ stays' = [stays EXCEPT ![f] = @ + 1] /\ pc \in {"events", "box"}
          /\ UNCHANGED <<content, pc, i, data, told, headed, start, removed, harmed>>
      BY <1>2, <2>2 DEF AddFile, Interactive
    <3>2. /\ Len(list') = Len(list) + 1 /\ \A k \in 1 .. Len(list) : list'[k] = list[k]
          /\ list'[Len(list) + 1] = f /\ 1 .. Len(list') = (1 .. Len(list)) \cup {Len(list) + 1}
      BY <1>0, <3>1
    <3>3. \A g \in Files : stays[g] <= stays'[g] /\ stays[f] < stays'[f]
                           /\ stays[g] \in Nat /\ stays'[g] \in Nat /\ headed[g] \in Nat
      BY <1>0, <3>1
    <3>4. IndexInList' /\ PassedIsTold'
      <4>1. IndexInList'
        BY <1>0, <3>1, <3>2 DEF NInv, IndexInList
      <4>2. PassedIsTold'
        <5> SUFFICES ASSUME ~removed, NEW k \in 1 .. i - 1, list'[k] \in CodeFiles
                     PROVE  list'[k] \in told
          BY <3>1 DEF PassedIsTold
        <5>0. i \in Nat \ {0} /\ Len(list) \in Nat /\ i <= Len(list) + 1
          BY <1>0, <2>2 DEF NInv, IndexInList
        <5>1. k \in 1 .. Len(list) /\ list'[k] = list[k]
          BY <3>2, <5>0
        <5> QED
          BY <2>2, <5>1 DEF NInv, PassedIsTold
      <4> QED
        BY <4>1, <4>2
    <3>5. InHandIsCounted' /\ HeadsCounted'
      BY <2>2, <3>1 DEF NInv, InHandIsCounted, HeadsCounted, HeadsOf
    <3>6. HeadsWithinStays'
      <4> SUFFICES ASSUME NEW g \in Files PROVE headed[g] <= IF g \in CodeFiles THEN stays'[g] ELSE 0
        BY <3>1 DEF HeadsWithinStays
      <4>1. headed[g] <= IF g \in CodeFiles THEN stays[g] ELSE 0
        BY <2>2 DEF NInv, HeadsWithinStays
      <4> QED
        BY <3>3, <4>1
    <3>7. StaysAhead'
      <4> SUFFICES ASSUME NEW k \in i .. Len(list') PROVE headed[list'[k]] < stays'[list'[k]]
        BY <3>1 DEF StaysAhead
      <4>1. CASE k = Len(list) + 1
        <5>1. headed[f] <= stays[f]
          BY <2>2, <3>3 DEF NInv, HeadsWithinStays
        <5> QED
          BY <3>2, <3>3, <4>1, <5>1
      <4>2. CASE k # Len(list) + 1
        <5>0. i \in Nat \ {0} /\ Len(list) \in Nat /\ Len(list') = Len(list) + 1
          BY <1>0, <3>2
        <5>1. k \in i .. Len(list) /\ k \in 1 .. Len(list)
          BY <4>2, <5>0
        <5>3. list'[k] = list[k]
          BY <3>2, <5>1
        <5>4. list[k] \in Files
          BY <1>0, <5>1
        <5>2. headed[list[k]] < stays[list[k]]
          BY <2>2, <5>1 DEF NInv, StaysAhead
        <5> QED
          BY <3>3, <5>2, <5>3, <5>4
      <4> QED
        BY <4>1, <4>2
    <3> QED
      BY <3>4, <3>5, <3>6, <3>7 DEF NInv
  <2> QED
    BY <2>1, <2>2
<1>3. ASSUME NEW r \in 1 .. Len(list), RemoveFile(r) PROVE NInv'
  <2>1. CASE pc = "idle"
    BY <1>1, <1>3, <2>1 DEF RemoveFile
  <2>2. CASE pc # "idle"
    <3>1. /\ list' = RemoveAt(list, r) /\ pc \in {"events", "box"} /\ removed'
          /\ UNCHANGED <<content, pc, i, data, told, headed, start, stays, harmed>>
      BY <1>3, <2>2 DEF RemoveFile, Interactive
    <3>2. /\ Len(list') = Len(list) - 1
          /\ \A k \in 1 .. Len(list) - 1 : list'[k] = IF k < r THEN list[k] ELSE list[k + 1]
      BY <1>0, <3>1, RemoveAtType
    <3>3. IndexInList' /\ PassedIsTold'
      BY <3>1 DEF IndexInList, PassedIsTold
    <3>4. InHandIsCounted' /\ HeadsCounted' /\ HeadsWithinStays'
      BY <2>2, <3>1 DEF NInv, InHandIsCounted, HeadsCounted, HeadsWithinStays, HeadsOf
    <3>5. StaysAhead'
      <4> SUFFICES ASSUME NEW k \in i .. Len(list') PROVE headed[list'[k]] < stays[list'[k]]
        BY <3>1 DEF StaysAhead
      <4>1. k \in i .. Len(list) /\ k + 1 \in i .. Len(list) /\ k \in 1 .. Len(list) - 1
        <5>1. i \in Nat \ {0} /\ Len(list) \in Nat
          BY <1>0
        <5>2. k \in i .. Len(list) - 1
          BY <3>2
        <5> QED
          BY <5>1, <5>2
      <4>2. list'[k] = list[k] \/ list'[k] = list[k + 1]
        BY <3>2, <4>1
      <4> QED
        BY <2>2, <4>1, <4>2 DEF NInv, StaysAhead
    <3> QED
      BY <3>3, <3>4, <3>5 DEF NInv
  <2> QED
    BY <2>1, <2>2
<1>4. ASSUME NEW f \in Files, EditorSaves(f) PROVE NInv'
  <2>1. CASE pc = "idle"
    BY <1>1, <1>4, <2>1 DEF EditorSaves
  <2>2. CASE pc # "idle"
    <3>1. PICK e \in Encodings :
            content' = [content EXCEPT ![f] = [text |-> saved[f] + 1, enc |-> e, heads |-> HeadsOf(f)]]
      BY <1>4 DEF EditorSaves
    <3>2. [text |-> saved[f] + 1, enc |-> e, heads |-> HeadsOf(f)] \in Contents
      <4>1. saved[f] \in 1 .. MaxSaves /\ saved[f] < MaxSaves
        BY <1>4 DEF EditorSaves, TypeOK
      <4> QED
        BY <4>1, NotesAssumption, HeadsType DEF Contents
    <3>3. \A g \in Files : HeadsOf(g)' = HeadsOf(g)
      BY <1>0, <3>1, <3>2 DEF HeadsOf
    <3>4. UNCHANGED <<list, pc, i, data, told, headed, start, stays, removed>> /\ harmed \subseteq harmed'
      BY <1>4, <2>2 DEF EditorSaves
    <3>5. HeadsCounted'
      BY <2>2, <3>3, <3>4 DEF NInv, HeadsCounted
    <3>6. IndexInList' /\ PassedIsTold' /\ InHandIsCounted' /\ HeadsWithinStays' /\ StaysAhead'
      BY <3>4 DEF NInv, IndexInList, PassedIsTold, InHandIsCounted, HeadsWithinStays, StaysAhead
    <3> QED
      BY <3>5, <3>6 DEF NInv
  <2> QED
    BY <2>1, <2>2
<1>5. CASE on_notes_clicked
  <2>1. /\ told' = {} /\ headed' = [g \in Files |-> 0] /\ start' = [g \in Files |-> HeadsOf(g)]
        /\ stays' = [g \in Files |-> IF g \in Range(list) THEN 1 ELSE 0] /\ i' = 1
        /\ pc' \in {"loop", "box"} /\ UNCHANGED <<content, list, harmed>>
    BY <1>5 DEF on_notes_clicked
  <2>2. HeadsCounted'
    <3>1. \A g \in Files : HeadsOf(g) \in Nat /\ HeadsOf(g)' = HeadsOf(g) /\ start'[g] = HeadsOf(g) /\ headed'[g] = 0
      BY <2>1, HeadsType DEF HeadsOf
    <3> QED
      BY <2>1, <3>1 DEF HeadsCounted
  <2>3. IndexInList' /\ PassedIsTold' /\ InHandIsCounted' /\ HeadsWithinStays'
    BY <1>0, <2>1 DEF IndexInList, PassedIsTold, InHandIsCounted, HeadsWithinStays
  <2>4. StaysAhead'
    <3> SUFFICES ASSUME NEW k \in 1 .. Len(list) PROVE headed'[list[k]] < stays'[list[k]]
      BY <2>1 DEF StaysAhead
    <3>1. list[k] \in Range(list) /\ list[k] \in Files
      BY <1>0 DEF Range
    <3> QED
      BY <2>1, <3>1
  <2> QED
    BY <2>2, <2>3, <2>4 DEF NInv
<1>6. CASE LoopTest
  <2>1. /\ pc = "loop" /\ pc' \in {"events", "box"}
        /\ UNCHANGED <<content, list, i, data, told, headed, start, stays, removed, harmed>>
    BY <1>6 DEF LoopTest, Goto
  <2> QED
    BY <2>1 DEF NInv, IndexInList, PassedIsTold, InHandIsCounted, HeadsCounted, HeadsWithinStays, StaysAhead,
                HeadsOf
<1>7. CASE NullItem
  BY <1>1, <1>7 DEF NullItem, Restart
<1>8. CASE SkipOther
  <2>1. /\ pc = "events" /\ pc' = "loop" /\ i' = i + 1 /\ i <= Len(list) /\ list[i] \notin CodeFiles
        /\ UNCHANGED <<content, list, data, told, headed, start, stays, removed, harmed>>
    BY <1>8 DEF SkipOther, Goto
  <2>2. InHandIsCounted' /\ HeadsCounted' /\ HeadsWithinStays' /\ StaysAhead'
    BY <2>1, NoHeaderStep DEF HeadsOf
  <2>3. IndexInList'
    BY <1>0, <2>1 DEF IndexInList
  <2>4. PassedIsTold'
    <3> SUFFICES ASSUME ~removed, NEW k \in 1 .. i' - 1, list[k] \in CodeFiles
                 PROVE  list[k] \in told
      BY <2>1 DEF PassedIsTold
    <3>1. k \in 1 .. i - 1
      BY <1>0, <2>1
    <3> QED
      BY <2>1, <3>1 DEF NInv, PassedIsTold
  <2> QED
    BY <2>2, <2>3, <2>4 DEF NInv
<1>9. CASE Read
  <2> DEFINE f == list[i]
  <2>1. /\ f \in Files /\ i <= Len(list) /\ f \in CodeFiles /\ pc = "events" /\ UNCHANGED content
    BY <1>0, <1>9 DEF Read
  <2>2. CASE content[f] # NoFile /\ data' = content[f] /\ Goto("truncate") /\ UNCHANGED <<i, output>>
             /\ (harmed' = IF content[f].enc = "other" THEN harmed \cup {f} ELSE harmed)
    <3>1. /\ pc' = "truncate" /\ harmed \subseteq harmed'
          /\ UNCHANGED <<list, start, stays, removed, i, told, headed>>
      BY <2>2 DEF Goto
    <3>2. HeadsCounted'
      BY <2>1, <3>1 DEF NInv, HeadsCounted, HeadsOf
    <3>3. InHandIsCounted'
      <4> SUFFICES ASSUME f \notin harmed' PROVE data'.heads = start[f] + headed[f]
        BY <3>1 DEF InHandIsCounted
      <4>1. HeadsOf(f) = start[f] + headed[f]
        BY <2>1, <3>1 DEF NInv, HeadsCounted
      <4> QED
        BY <2>2, <4>1 DEF HeadsOf
    <3>4. IndexInList' /\ PassedIsTold' /\ HeadsWithinStays' /\ StaysAhead'
      BY <2>1, <3>1 DEF NInv, IndexInList, PassedIsTold, HeadsWithinStays, StaysAhead
    <3> QED
      BY <3>2, <3>3, <3>4 DEF NInv
  <2>3. CASE Tell(f) /\ UNCHANGED <<headed, harmed>>
    <3>1. IndexInList' /\ PassedIsTold'
      BY <2>1, <2>3, TellStep
    <3>2. i' = i + 1 /\ pc' = "loop" /\ UNCHANGED <<list, start, stays, headed, harmed>>
      BY <2>3 DEF Tell, Goto
    <3>3. InHandIsCounted' /\ HeadsCounted' /\ HeadsWithinStays' /\ StaysAhead'
      BY <2>1, <3>2, NoHeaderStep DEF HeadsOf
    <3> QED
      BY <3>1, <3>3 DEF NInv
  <2> QED
    BY <1>9, <2>2, <2>3 DEF Read
<1>10. CASE Truncate
  <2> DEFINE f == list[i]
  <2>1. f \in Files /\ i <= Len(list) /\ pc = "truncate" /\ UNCHANGED harmed
    BY <1>0, <1>10 DEF Truncate, TypeOK
  <2>2. CASE content' = [content EXCEPT ![f] = Empty] /\ Goto("write") /\ UNCHANGED <<i, data, output>>
    <3>1. pc' = "write" /\ UNCHANGED <<list, start, stays, removed, i, told, headed, data>>
      BY <2>2 DEF Goto
    <3>2. \A g \in Files \ {f} : HeadsOf(g)' = HeadsOf(g)
      BY <1>0, <2>2 DEF HeadsOf
    <3>3. HeadsCounted'
      BY <2>1, <3>1, <3>2 DEF NInv, HeadsCounted
    <3>4. IndexInList' /\ PassedIsTold' /\ InHandIsCounted' /\ HeadsWithinStays' /\ StaysAhead'
      BY <2>1, <3>1 DEF NInv, IndexInList, PassedIsTold, InHandIsCounted, HeadsWithinStays, StaysAhead
    <3> QED
      BY <3>3, <3>4 DEF NInv
  <2>3. CASE Tell(f) /\ UNCHANGED <<content, headed>>
    <3>1. IndexInList' /\ PassedIsTold'
      BY <2>1, <2>3, TellStep
    <3>2. i' = i + 1 /\ pc' = "loop" /\ UNCHANGED <<list, start, stays, headed, harmed>>
      BY <2>1, <2>3 DEF Tell, Goto
    <3>3. InHandIsCounted' /\ HeadsCounted' /\ HeadsWithinStays' /\ StaysAhead'
      BY <2>1, <2>3, <3>2, NoHeaderStep DEF HeadsOf
    <3> QED
      BY <3>1, <3>3 DEF NInv
  <2> QED
    BY <1>10, <2>2, <2>3 DEF Truncate
<1>11. CASE Write
  <2>10. pc = "write" /\ i \in 1 .. Len(list) /\ list[i] \in CodeFiles
    BY <1>0, <1>11 DEF Write, TypeOK
  <2>0. PICK f \in Files : f = list[i]
    BY <1>0, <2>10
  <2>1. f = list[i] /\ i <= Len(list) /\ f \in CodeFiles /\ pc = "write"
    BY <1>0, <2>0, <2>10
  <2>2. IndexInList' /\ PassedIsTold'
    BY <1>11, <2>1, TellStep DEF Write
  <2>3. /\ UNCHANGED <<list, start, stays>> /\ i' = i + 1 /\ pc' = "loop" /\ harmed \subseteq harmed'
        /\ headed' = [headed EXCEPT ![f] = @ + 1]
    BY <1>11, <2>1 DEF Write, Tell, Goto
  <2>4. headed'[f] = headed[f] + 1 /\ \A g \in Files \ {f} : HeadsOf(g)' = HeadsOf(g) /\ headed'[g] = headed[g]
    BY <1>0, <1>11, <2>1, <2>3 DEF Write, HeadsOf
  <2>5. ASSUME f \notin harmed' PROVE HeadsOf(f)' = start[f] + headed'[f]
    <3>1. content' = [content EXCEPT ![f] = insertAuto(data)] /\ f \notin harmed
      BY <1>11, <2>1, <2>5 DEF Write
    <3>2. content'[f] = insertAuto(data) /\ insertAuto(data) # NoFile
      <4>1. insertAuto(data) \in Contents
        BY InsertType DEF TypeOK
      <4> QED
        BY <1>0, <2>1, <3>1, <4>1
    <3>3. data.heads = start[f] + headed[f]
      BY <2>1, <3>1 DEF NInv, InHandIsCounted
    <3>4. HeadsOf(f)' = (start[f] + headed[f]) + 1
      BY <3>2, <3>3 DEF HeadsOf, insertAuto
    <3> QED
      BY <1>0, <2>4, <3>4
  <2>6. HeadsCounted' /\ InHandIsCounted'
    BY <2>1, <2>3, <2>4, <2>5 DEF NInv, HeadsCounted, InHandIsCounted
  <2>7. headed[f] < stays[f]
    <3>1. i \in i .. Len(list)
      BY <1>0, <2>1
    <3> QED
      BY <2>1, <3>1 DEF NInv, StaysAhead
  <2>8. HeadsWithinStays'
    <3> SUFFICES ASSUME NEW g \in Files PROVE headed'[g] <= IF g \in CodeFiles THEN stays[g] ELSE 0
      BY <2>3 DEF HeadsWithinStays
    <3>1. CASE g = f
      BY <1>0, <2>1, <2>4, <2>7, <3>1
    <3>2. CASE g # f
      BY <2>1, <2>4, <3>2 DEF NInv, HeadsWithinStays
    <3> QED
      BY <3>1, <3>2
  <2>9. StaysAhead'
    <3> SUFFICES ASSUME NEW k \in i + 1 .. Len(list) PROVE headed'[list[k]] < stays[list[k]]
      BY <2>3 DEF StaysAhead
    <3>1. k \in i .. Len(list) /\ list[k] \in Files /\ list[k] # f
      BY <1>0, <2>1 DEF TypeOK
    <3> QED
      BY <2>1, <2>4, <3>1 DEF NInv, StaysAhead
  <2> QED
    BY <2>2, <2>6, <2>8, <2>9 DEF NInv
<1>12. CASE CloseBox
  BY <1>1, <1>12 DEF CloseBox, Goto
<1>13. CASE End
  BY <1>1, <1>13 DEF End, Restart
<1>14. CASE UNCHANGED vars
  <2>1. UNCHANGED <<content, list, pc, i, data, told, headed, start, stays, removed, harmed>>
    BY <1>14 DEF vars
  <2> QED
    BY <2>1 DEF NInv, IndexInList, PassedIsTold, InHandIsCounted, HeadsCounted, HeadsWithinStays, StaysAhead,
                HeadsOf
<1> QED
  BY <1>2, <1>3, <1>4, <1>5, <1>6, <1>7, <1>8, <1>9, <1>10, <1>11, <1>12, <1>13, <1>14, NotesAssumption DEF Next

(* Every header is told of, no file gets more of them than stays in the    *)
(* list, and no other file any: for every way of adding and taking out     *)
(* paths while the loop runs.                                              *)
THEOREM OneHeaderPerClick == Spec => []NotesAddedOnce
<1>1. Init => NInv
  BY DEF Init, NInv, IndexInList, PassedIsTold, InHandIsCounted, HeadsCounted, HeadsWithinStays, StaysAhead
<1>2. TypeOK /\ NInv => NotesAddedOnce
  BY DEF NInv, NotesAddedOnce, HeadsCounted, HeadsWithinStays, PassedIsTold
<1> QED
  BY <1>1, <1>2, InitType, TypeNext, CountNext, PTL DEF Spec
-----------------------------------------------------------------------------
(* The names the check goes through.                                       *)

Chars == Characters \cup {".", "c", "h", "p", "e", "x"}
Extensions == {c, cpp, h, hpp, exe}

(* The end of a path, character by character. *)
LEMMA EndsWith ==
  ASSUME NEW p \in Seq(Chars), NEW e \in Seq(Chars)
  PROVE  endsWith(p, e) <=> /\ Len(e) <= Len(p)
                            /\ \A j \in 1 .. Len(e) : p[Len(p) - Len(e) + j] = e[j]
<1> DEFINE a == Reverse(e)
           b == Reverse(p)
<1>1. a \in Seq(Chars) /\ Len(a) = Len(e) /\ \A j \in 1 .. Len(e) : a[j] = e[Len(e) - j + 1]
  BY DEF Reverse
<1>2. b \in Seq(Chars) /\ Len(b) = Len(p) /\ \A j \in 1 .. Len(p) : b[j] = p[Len(p) - j + 1]
  BY DEF Reverse
<1>3. endsWith(p, e) <=> IsPrefix(a, b)
  BY DEF endsWith, IsSuffix
<1> HIDE DEF a, b
<1>4. IsPrefix(a, b) <=> Len(a) <= Len(b) /\ \A j \in 1 .. Len(a) : a[j] = b[j]
  BY <1>1, <1>2 DEF IsPrefix
<1>5. ASSUME Len(e) <= Len(p), NEW j \in 1 .. Len(e), \A k \in 1 .. Len(a) : a[k] = b[k]
      PROVE  p[Len(p) - Len(e) + j] = e[j]
  <2> DEFINE k == Len(e) - j + 1
  <2>1. k \in 1 .. Len(e) /\ k \in 1 .. Len(p) /\ Len(e) - k + 1 = j /\ Len(p) - k + 1 = Len(p) - Len(e) + j
    BY <1>5
  <2> HIDE DEF k
  <2> QED
    BY <1>1, <1>2, <1>5, <2>1
<1>6. ASSUME Len(e) <= Len(p), NEW k \in 1 .. Len(a), \A j \in 1 .. Len(e) : p[Len(p) - Len(e) + j] = e[j]
      PROVE  a[k] = b[k]
  <2> DEFINE j == Len(e) - k + 1
  <2>1. j \in 1 .. Len(e) /\ k \in 1 .. Len(p) /\ Len(e) - k + 1 = j /\ Len(p) - k + 1 = Len(p) - Len(e) + j
    BY <1>1, <1>6
  <2> HIDE DEF j
  <2> QED
    BY <1>1, <1>2, <1>6, <2>1
<1> QED
  BY <1>1, <1>2, <1>3, <1>4, <1>5, <1>6

(* The last slash is the last. *)
LEMMA LastSlash ==
  ASSUME NEW p \in Seq(Chars)
  PROVE  /\ lastSlash(p) \in 0 .. Len(p)
         /\ \A l \in lastSlash(p) + 1 .. Len(p) : p[l] # "/"
         /\ lastSlash(p) > 0 => p[lastSlash(p)] = "/"
<1> DEFINE slashes == {l \in 1 .. Len(p) : p[l] = "/"}
<1>1. CASE slashes = {}
  BY <1>1 DEF lastSlash
<1>2. CASE slashes # {}
  <2> DEFINE T == {Len(p) - l : l \in slashes}
  <2>1. T \subseteq Nat /\ T # {}
    BY <1>2
  <2>2. PICK x \in T : \A y \in T : ~(<<y, x>> \in OpToRel(<, Nat))
    BY <2>1, NatLessThanWellFounded, WFMin, Zenon
  <2>3. PICK last \in slashes : x = Len(p) - last
    BY <2>2
  <2>4. ASSUME NEW l \in slashes PROVE l <= last
    <3>1. ~(Len(p) - l < Len(p) - last)
      BY <2>1, <2>2, <2>3 DEF OpToRel
    <3> QED
      BY <3>1
  <2>5. lastSlash(p) \in slashes /\ \A l \in slashes : l <= lastSlash(p)
    BY <1>2, <2>4 DEF lastSlash
  <2> QED
    BY <2>5
<1> QED
  BY <1>1, <1>2

(* The extensions, character by character.  The last one tells how long    *)
(* the extension is, and none is a slash.                                  *)
LEMMA ExtensionChars ==
  ASSUME NEW e \in Extensions
  PROVE  /\ e \in Seq(Chars)
         /\ \A j \in 1 .. Len(e) : e[j] # "/"
         /\ Len(e) = IF e \in {c, h} THEN 2 ELSE 4
         /\ e[Len(e)] \in {"c", "h"} <=> e \in {c, h}
<1>1. \A w, x, y, z \in Chars : <<w, x>> \in Seq(Chars) /\ <<w, x, y, z>> \in Seq(Chars)
  OBVIOUS
<1>2. e \in Seq(Chars)
  BY <1>1 DEF Extensions, Chars, c, h, cpp, hpp, exe
<1>3. Len(c) = 2 /\ Len(h) = 2 /\ Len(cpp) = 4 /\ Len(hpp) = 4 /\ Len(exe) = 4
  BY DEF c, h, cpp, hpp, exe
<1>4. c[1] = "." /\ c[2] = "c" /\ h[1] = "." /\ h[2] = "h"
  BY DEF c, h
<1>5. /\ cpp[1] = "." /\ cpp[2] = "c" /\ cpp[3] = "p" /\ cpp[4] = "p"
      /\ hpp[1] = "." /\ hpp[2] = "h" /\ hpp[3] = "p" /\ hpp[4] = "p"
      /\ exe[1] = "." /\ exe[2] = "e" /\ exe[3] = "x" /\ exe[4] = "e"
  BY DEF cpp, hpp, exe
<1>6. c # cpp /\ c # hpp /\ c # exe /\ h # cpp /\ h # hpp /\ h # exe
  BY <1>3
<1> HIDE DEF c, h, cpp, hpp, exe
<1>7. CASE e \in {c, h}
  <2>1. Len(e) = 2 /\ e[1] = "." /\ e[2] \in {"c", "h"}
    BY <1>3, <1>4, <1>7
  <2>2. \A j \in 1 .. 2 : j = 1 \/ j = 2
    OBVIOUS
  <2> QED
    BY <1>2, <1>7, <2>1, <2>2
<1>8. CASE e \in {cpp, hpp, exe}
  <2>1. /\ Len(e) = 4 /\ e \notin {c, h}
        /\ e[1] = "." /\ e[2] \in {"c", "h", "e"} /\ e[3] \in {"p", "x"} /\ e[4] \in {"p", "e"}
    BY <1>3, <1>5, <1>6, <1>8
  <2>2. \A j \in 1 .. 4 : j = 1 \/ j = 2 \/ j = 3 \/ j = 4
    OBVIOUS
  <2> QED
    BY <1>2, <2>1, <2>2
<1> QED
  BY <1>7, <1>8 DEF Extensions

LEMMA OneLength ==
  ASSUME NEW p \in Seq(Chars), NEW e \in Extensions, NEW f \in Extensions,
         endsWith(p, e), endsWith(p, f)
  PROVE  Len(e) = Len(f)
<1>1. p[Len(p) - Len(e) + Len(e)] = e[Len(e)]
  <2>1. e \in Seq(Chars) /\ Len(e) \in {2, 4}
    BY ExtensionChars
  <2>2. \A m \in {2, 4} : m \in 1 .. m
    OBVIOUS
  <2> QED
    BY <2>1, <2>2, EndsWith
<1>2. p[Len(p) - Len(f) + Len(f)] = f[Len(f)]
  <2>1. f \in Seq(Chars) /\ Len(f) \in {2, 4}
    BY ExtensionChars
  <2>2. \A m \in {2, 4} : m \in 1 .. m
    OBVIOUS
  <2> QED
    BY <2>1, <2>2, EndsWith
<1>3. Len(p) - Len(e) + Len(e) = Len(p) /\ Len(p) - Len(f) + Len(f) = Len(p)
  BY ExtensionChars
<1> QED
  BY <1>1, <1>2, <1>3, ExtensionChars

(* The name of a path ends as the path does. *)
LEMMA NameEnds ==
  ASSUME NEW p \in Seq(Chars), NEW e \in Extensions
  PROVE  /\ fileName(p) \in Seq(Chars)
         /\ endsWith(p, e) <=> endsWith(fileName(p), e)
<1> DEFINE s == lastSlash(p)
           n == fileName(p)
<1>1. /\ s \in 0 .. Len(p) /\ (s > 0 => p[s] = "/")
  BY LastSlash
<1> HIDE DEF s
<1>2. n \in Seq(Chars) /\ Len(n) = Len(p) - s /\ \A j \in 1 .. Len(p) - s : n[j] = p[s + j]
  <2>1. n = SubSeq(p, s + 1, Len(p))
    BY DEF fileName, s
  <2> HIDE DEF n
  <2> QED
    BY <1>1, <2>1
<1> HIDE DEF n
<1>3. /\ e \in Seq(Chars) /\ Len(e) \in {2, 4} /\ \A j \in 1 .. Len(e) : e[j] # "/"
  BY ExtensionChars
<1>4. ASSUME Len(e) <= Len(p), \A j \in 1 .. Len(e) : p[Len(p) - Len(e) + j] = e[j]
      PROVE  Len(e) <= Len(n)
  <2>1. CASE s > Len(p) - Len(e)
    <3> DEFINE j == s - (Len(p) - Len(e))
    <3>1. j \in 1 .. Len(e) /\ Len(p) - Len(e) + j = s
      BY <1>1, <1>3, <1>4, <2>1
    <3> HIDE DEF j
    <3> QED
      BY <1>1, <1>3, <1>4, <3>1
  <2> QED
    BY <1>1, <1>2, <1>3, <2>1
<1>5. ASSUME Len(e) <= Len(n), NEW j \in 1 .. Len(e)
      PROVE  n[Len(n) - Len(e) + j] = p[Len(p) - Len(e) + j]
  <2>1. Len(n) - Len(e) + j \in 1 .. Len(p) - s /\ s + (Len(n) - Len(e) + j) = Len(p) - Len(e) + j
    BY <1>1, <1>2, <1>3, <1>5
  <2> QED
    BY <1>2, <2>1
<1>6. Len(e) <= Len(n) => Len(e) <= Len(p)
  BY <1>1, <1>2, <1>3
<1>7. endsWith(p, e) <=> endsWith(n, e)
  <2>1. endsWith(p, e) <=> Len(e) <= Len(p) /\ \A j \in 1 .. Len(e) : p[Len(p) - Len(e) + j] = e[j]
    BY <1>3, EndsWith
  <2>2. endsWith(n, e) <=> Len(e) <= Len(n) /\ \A j \in 1 .. Len(e) : n[Len(n) - Len(e) + j] = e[j]
    BY <1>2, <1>3, EndsWith
  <2> QED
    BY <1>4, <1>5, <1>6, <2>1, <2>2
<1> QED
  BY <1>2, <1>7 DEF n

(* What is left of a name without its extension. *)
LEMMA StemOf ==
  ASSUME NEW n \in Seq(Chars), NEW e \in Extensions, endsWith(n, e)
  PROVE  /\ Len(stem(n)) = Len(n) - Len(e)
         /\ \A j \in 1 .. Len(n) - Len(e) : stem(n)[j] = n[j]
<1>1. Len(e) <= Len(n) /\ Len(e) = IF e \in {c, h} THEN 2 ELSE 4
  BY ExtensionChars, EndsWith
<1>2. \A f \in Extensions : endsWith(n, f) => Len(f) = Len(e)
  BY OneLength
<1>3. Len(c) = 2 /\ Len(h) = 2 /\ Len(cpp) = 4 /\ Len(hpp) = 4 /\ Len(exe) = 4
  BY DEF c, h, cpp, hpp, exe
<1>4. stem(n) = SubSeq(n, 1, Len(n) - Len(e))
  <2>1. CASE e \in {c, h}
    BY <1>1, <2>1 DEF stem, left
  <2>2. CASE e \notin {c, h}
    <3>1. ~endsWith(n, c) /\ ~endsWith(n, h) /\ e \in {cpp, hpp, exe} /\ Len(e) = 4
      BY <1>1, <1>2, <1>3, <2>2 DEF Extensions
    <3> QED
      BY <3>1 DEF stem, left
  <2> QED
    BY <2>1, <2>2
<1>5. Len(n) - Len(e) \in 0 .. Len(n)
  BY <1>1
<1> QED
  BY <1>4, <1>5

(* The type of what is typed. *)
LEMMA TypedIsPath == TypedPath => [](path \in Seq(Chars))
<1>1. NothingTyped => path \in Seq(Chars)
  BY DEF NothingTyped
<1>2. path \in Seq(Chars) /\ [TypeOn]_<<path, typed>> => (path \in Seq(Chars))'
  <2> SUFFICES ASSUME path \in Seq(Chars), TypeOn PROVE path' \in Seq(Chars)
    OBVIOUS
  <2>1. PICK s \in {<<x>> : x \in Characters} \cup Extensions : path' = path \o s
    BY DEF TypeOn, Type, Extensions
  <2>2. s \in Seq(Chars)
    <3>1. CASE s \in Extensions
      BY <3>1, ExtensionChars
    <3>2. CASE s \in {<<x>> : x \in Characters}
      <4>1. PICK x \in Characters : s = <<x>>
        BY <3>2
      <4>2. x \in Chars
        BY DEF Chars
      <4> QED
        BY <4>1, <4>2
    <3> QED
      BY <2>1, <3>1, <3>2
  <2> QED
    BY <2>1, <2>2
<1> QED
  BY <1>1, <1>2, PTL DEF TypedPath

LEMMA CheckIsExact == path \in Seq(Chars) => CheckExact
<1> SUFFICES ASSUME path \in Seq(Chars), isCode(path) \/ endsWith(path, exe)
             PROVE  check(path) = "nothing" <=> FourDigits(fileName(path))
  BY DEF CheckExact
<1> DEFINE n == fileName(path)
<1>1. PICK e \in Extensions : endsWith(path, e)
  BY DEF isCode, Extensions
<1>2. n \in Seq(Chars) /\ endsWith(n, e)
  BY <1>1, NameEnds
<1> HIDE DEF n
<1>3. Len(e) \in Nat /\ Len(n) \in Nat /\ Len(e) <= Len(n)
  BY <1>2, ExtensionChars, EndsWith
<1>4. Len(stem(n)) = Len(n) - Len(e) /\ \A j \in 1 .. Len(n) - Len(e) : stem(n)[j] = n[j]
  BY <1>2, StemOf
<1>5. check(path) = "nothing" <=> Len(stem(n)) = 4 /\ \A j \in 1 .. 4 : stem(n)[j] \in Digits
  BY DEF check, n
<1>9. Len(stem(n)) = 4 <=> Len(n) = 4 + Len(e)
  BY <1>3, <1>4
<1>10. Len(n) = 4 + Len(e) => \A j \in 1 .. 4 : stem(n)[j] = n[j]
  BY <1>3, <1>4
<1>6. check(path) = "nothing" <=> Len(n) = 4 + Len(e) /\ \A j \in 1 .. 4 : n[j] \in Digits
  BY <1>5, <1>9, <1>10
<1>7. \A f \in Extensions : endsWith(n, f) => Len(f) = Len(e)
  BY <1>2, OneLength
<1>8. FourDigits(n) <=> Len(n) = 4 + Len(e) /\ \A j \in 1 .. 4 : n[j] \in Digits
  BY <1>2, <1>7, Zenon DEF FourDigits, Extensions
<1> QED
  BY <1>6, <1>8 DEF n

(* The name check complains of every name but four digits and an           *)
(* extension, for paths of any length and any characters.                  *)
THEOREM NamesAreChecked == TypedPath => []CheckExact
BY TypedIsPath, CheckIsExact, PTL
===============================================================================
