---------------------------- MODULE ListingProofs ----------------------------
(***************************************************************************)
(* What the readers of Listing return for every listing that really has    *)
(* nine words a line, of any length and over any words.                    *)
(***************************************************************************)
EXTENDS RemoteDirectory, SequenceTheorems, WellFoundedInduction, TLAPS

(* Every set of numbers has a least one: induction, said of a set.         *)
LEMMA Least ==
  ASSUME NEW T, T \subseteq Nat, T # {}
  PROVE  \E x \in T : \A y \in T : ~(y < x)
<1>1. PICK x \in T : \A y \in T : ~(<<y, x>> \in OpToRel(<, Nat))
  BY NatLessThanWellFounded, WFMin, Zenon
<1>2. ASSUME NEW y \in T PROVE ~(y < x)
  BY <1>1, <1>2 DEF OpToRel
<1> QED
  BY <1>2

(* A line of nine words. *)
NineWords == [1 .. Columns -> Words]

(* The list of words is the lines, one after the other. *)
LaidOut(list, lines) ==
  /\ list \in Seq(Words)
  /\ lines \in Seq(NineWords)
  /\ Len(list) = Columns * Len(lines)
  /\ \A r \in 1 .. Len(lines), c \in 1 .. Columns :
       list[Columns * (r - 1) + c] = lines[r][c]

IsDirLine(line) == line[1] \in StartsWithD

(* The loops visit every line once, each line has a name, and the words     *)
(* they look at are the first and the ninth of it.                          *)
LEMMA LineAccess ==
  ASSUME NEW list, NEW lines, LaidOut(list, lines)
  PROVE  /\ LinesOf(list) = 0 .. Len(lines) - 1
         /\ \A i \in 0 .. Len(lines) - 1 :
              /\ HasName(list, i)
              /\ Name(list, i) = lines[i + 1][9]
              /\ IsDir(list, i) <=> IsDirLine(lines[i + 1])
              /\ SizeColumn(list, i) = NumberOf[lines[i + 1][5]]
<1> DEFINE n == Len(lines)
<1>1. /\ n \in Nat
      /\ Len(list) = 9 * n
  BY DEF LaidOut, Columns
<1>2. LinesOf(list) = 0 .. n - 1
  BY <1>1 DEF LinesOf, Columns
<1>3. ASSUME NEW i \in 0 .. n - 1
      PROVE  /\ HasName(list, i)
             /\ Name(list, i) = lines[i + 1][9]
             /\ IsDir(list, i) <=> IsDirLine(lines[i + 1])
             /\ SizeColumn(list, i) = NumberOf[lines[i + 1][5]]
  <2>1. HasName(list, i)
    BY <1>1 DEF HasName, Columns
  <2>2. i + 1 \in 1 .. n /\ (i + 1) - 1 = i
    BY <1>1
  <2>3. \A c \in 1 .. 9 : list[9 * i + c] = lines[i + 1][c]
    BY <2>2 DEF LaidOut, Columns
  <2>4. /\ list[9 * i + 9] = lines[i + 1][9]
        /\ list[9 * i + 1] = lines[i + 1][1]
        /\ list[9 * i + 5] = lines[i + 1][5]
    BY <2>3
  <2>5. /\ (i * 9 + 8) + 1 = 9 * i + 9
        /\ (i * 9) + 1 = 9 * i + 1
        /\ (i * 9 + 4) + 1 = 9 * i + 5
    BY <1>1
  <2>6. QED
    BY <2>1, <2>4, <2>5 DEF Name, IsDir, IsDirLine, SizeColumn, At, Columns
<1>4. QED
  BY <1>2, <1>3

(* FTP_GetDirectories: parseDirs yields exactly the names of the directory *)
(* lines other than "." and "..", for a listing of any length.             *)
THEOREM ParseDirsExact ==
  ASSUME NEW list, NEW lines, LaidOut(list, lines)
  PROVE  parseDirs(list) =
           {lines[r][9] : r \in {k \in 1 .. Len(lines) :
                                   IsDirLine(lines[k]) /\ lines[k][9] \notin Dots}}
<1> DEFINE n == Len(lines)
           picked == {k \in 1 .. n : IsDirLine(lines[k]) /\ lines[k][9] \notin Dots}
<1>1. n \in Nat
  BY DEF LaidOut
<1>2. parseDirs(list) =
        {Name(list, i) : i \in {j \in 0 .. n - 1 :
            IsDirLine(lines[j + 1]) /\ lines[j + 1][9] \notin Dots}}
  BY LineAccess DEF parseDirs
<1>3. ASSUME NEW x \in parseDirs(list)
      PROVE  x \in {lines[r][9] : r \in picked}
  <2>1. PICK i \in 0 .. n - 1 : /\ IsDirLine(lines[i + 1])
                                /\ lines[i + 1][9] \notin Dots
                                /\ x = Name(list, i)
    BY <1>2, <1>3
  <2>2. x = lines[i + 1][9]
    BY <2>1, LineAccess
  <2>3. i + 1 \in picked
    BY <1>1, <2>1
  <2>4. QED
    BY <2>2, <2>3
<1>4. ASSUME NEW r \in picked
      PROVE  lines[r][9] \in parseDirs(list)
  <2>1. r - 1 \in 0 .. n - 1 /\ (r - 1) + 1 = r
    BY <1>1, <1>4
  <2>2. Name(list, r - 1) = lines[r][9]
    BY <2>1, LineAccess
  <2>3. QED
    BY <1>2, <1>4, <2>1, <2>2
<1>5. QED
  BY <1>3, <1>4

(* FTP_GetFiles: parseFiles yields exactly the names of the other lines.   *)
THEOREM ParseFilesExact ==
  ASSUME NEW list, NEW lines, LaidOut(list, lines)
  PROVE  parseFiles(list) =
           {lines[r][9] : r \in {k \in 1 .. Len(lines) : ~IsDirLine(lines[k])}}
<1> DEFINE n == Len(lines)
           picked == {k \in 1 .. n : ~IsDirLine(lines[k])}
<1>1. n \in Nat
  BY DEF LaidOut
<1>2. parseFiles(list) =
        {Name(list, i) : i \in {j \in 0 .. n - 1 : ~IsDirLine(lines[j + 1])}}
  BY LineAccess DEF parseFiles
<1>3. ASSUME NEW x \in parseFiles(list)
      PROVE  x \in {lines[r][9] : r \in picked}
  <2>1. PICK i \in 0 .. n - 1 : ~IsDirLine(lines[i + 1]) /\ x = Name(list, i)
    BY <1>2, <1>3
  <2>2. x = lines[i + 1][9]
    BY <2>1, LineAccess
  <2>3. i + 1 \in picked
    BY <1>1, <2>1
  <2>4. QED
    BY <2>2, <2>3
<1>4. ASSUME NEW r \in picked
      PROVE  lines[r][9] \in parseFiles(list)
  <2>1. r - 1 \in 0 .. n - 1 /\ (r - 1) + 1 = r
    BY <1>1, <1>4
  <2>2. Name(list, r - 1) = lines[r][9]
    BY <2>1, LineAccess
  <2>3. QED
    BY <1>2, <1>4, <2>1, <2>2
<1>5. QED
  BY <1>3, <1>4

(* getFileSize: where no word the directory test reads starts with "d",    *)
(* and no other line has the name, the answer is the size column of the    *)
(* line that has it.                                                       *)
THEOREM FileSizeExact ==
  ASSUME NEW list, NEW lines, LaidOut(list, lines),
         \A k \in 1 .. Len(lines) : list[k] \notin StartsWithD,
         NEW r \in 1 .. Len(lines),
         \A k \in 1 .. Len(lines) : lines[k][9] = lines[r][9] => k = r
  PROVE  getFileSize(list, lines[r][9]) = NumberOf[lines[r][5]]
<1> DEFINE n == Len(lines)
           file == lines[r][9]
           hits == {i \in LinesOf(list) : SizeMatch(list, file, i)}
<1>1. n \in Nat
  BY DEF LaidOut
<1>2. r - 1 \in 0 .. n - 1 /\ (r - 1) + 1 = r
  BY <1>1
<1>3. \A i \in 0 .. n - 1 : SizeMatch(list, file, i) <=> i = r - 1
  <2>1. SUFFICES ASSUME NEW i \in 0 .. n - 1
                 PROVE  SizeMatch(list, file, i) <=> i = r - 1
    OBVIOUS
  <2>2. i + 1 \in 1 .. n
    BY <1>1
  <2>3. At(list, i) \notin StartsWithD
    BY <2>2 DEF At
  <2>4. HasName(list, i) /\ Name(list, i) = lines[i + 1][9]
    BY LineAccess
  <2>5. lines[i + 1][9] = file <=> i + 1 = r
    BY <2>2
  <2>6. i + 1 = r <=> i = r - 1
    BY <1>1
  <2>7. QED
    BY <2>3, <2>4, <2>5, <2>6 DEF SizeMatch
<1>4. hits = {r - 1}
  BY <1>2, <1>3, LineAccess
<1>5. (CHOOSE i \in hits : \A j \in hits : i <= j) = r - 1
  BY <1>1, <1>2, <1>4
<1>6. SizeColumn(list, r - 1) = NumberOf[lines[r][5]]
  BY <1>2, LineAccess
<1>7. QED
  BY <1>4, <1>5, <1>6 DEF getFileSize
-----------------------------------------------------------------------------
(* The words of a directory.  FlattenSeq is defined by recursion; for      *)
(* lines of nine words its result can be written down, and the two agree   *)
(* because there is no first line from which on they differ.               *)

(* One line after the other, up to line i. *)
UpTo(s, i) == [k \in 1 .. 9 * i |-> s[1 + (k - 1) \div 9][k - 9 * ((k - 1) \div 9)]]

LEMMA UpToSeq ==
  ASSUME NEW s \in Seq(Seq(Words)), \A i \in 1 .. Len(s) : Len(s[i]) = 9,
         NEW i \in 0 .. Len(s)
  PROVE  /\ UpTo(s, i) \in Seq(Words) /\ Len(UpTo(s, i)) = 9 * i
         /\ \A k \in 1 .. 9 * i : UpTo(s, i)[k] = s[1 + (k - 1) \div 9][k - 9 * ((k - 1) \div 9)]
<1>1. ASSUME NEW k \in 1 .. 9 * i
      PROVE  s[1 + (k - 1) \div 9][k - 9 * ((k - 1) \div 9)] \in Words
  <2>1. 1 + (k - 1) \div 9 \in 1 .. i /\ k - 9 * ((k - 1) \div 9) \in 1 .. 9
    OBVIOUS
  <2>2. 1 + (k - 1) \div 9 \in 1 .. Len(s)
    BY <2>1
  <2>3. s[1 + (k - 1) \div 9] \in Seq(Words) /\ Len(s[1 + (k - 1) \div 9]) = 9
    BY <2>2
  <2> QED
    BY <2>1, <2>3, ElementOfSeq
<1>2. UpTo(s, i) \in [1 .. 9 * i -> Words]
  BY <1>1 DEF UpTo
<1>3. 9 * i \in Nat
  OBVIOUS
<1> QED
  BY <1>2, <1>3 DEF UpTo

LEMMA UpToStep ==
  ASSUME NEW s \in Seq(Seq(Words)), \A i \in 1 .. Len(s) : Len(s[i]) = 9,
         NEW i \in 1 .. Len(s)
  PROVE  UpTo(s, i) = IF i = 1 THEN s[i] ELSE UpTo(s, i - 1) \o s[i]
<1>1. s[i] \in Seq(Words) /\ Len(s[i]) = 9
  OBVIOUS
<1>2. /\ UpTo(s, i) \in Seq(Words) /\ Len(UpTo(s, i)) = 9 * i
      /\ \A k \in 1 .. 9 * i : UpTo(s, i)[k] = s[1 + (k - 1) \div 9][k - 9 * ((k - 1) \div 9)]
  <2>1. i \in 0 .. Len(s)
    OBVIOUS
  <2> QED
    BY <2>1, UpToSeq, Zenon
<1>3. CASE i = 1
  <2>1. ASSUME NEW k \in 1 .. 9
        PROVE  UpTo(s, i)[k] = s[i][k]
    <3>1. 1 + (k - 1) \div 9 = 1 /\ k - 9 * ((k - 1) \div 9) = k /\ k \in 1 .. 9 * i
      BY <1>3
    <3>2. UpTo(s, i)[k] = s[1 + (k - 1) \div 9][k - 9 * ((k - 1) \div 9)]
      BY <1>2, <3>1
    <3> QED
      BY <1>3, <3>1, <3>2
  <2>2. Len(UpTo(s, i)) = 9
    BY <1>2, <1>3
  <2>3. UpTo(s, i) = s[i]
    <3>1. Len(UpTo(s, i)) = Len(s[i]) /\ \A k \in 1 .. Len(UpTo(s, i)) : UpTo(s, i)[k] = s[i][k]
      BY <1>1, <2>1, <2>2
    <3> QED
      BY <1>1, <1>2, <3>1, SeqEqual, Zenon
  <2> QED
    BY <1>3, <2>3
<1>4. CASE i # 1
  <2> DEFINE a == UpTo(s, i - 1)
  <2>1. /\ a \in Seq(Words) /\ Len(a) = 9 * (i - 1)
        /\ \A k \in 1 .. 9 * (i - 1) : a[k] = s[1 + (k - 1) \div 9][k - 9 * ((k - 1) \div 9)]
    <3>1. i - 1 \in 0 .. Len(s)
      BY <1>4
    <3> QED
      BY <3>1, UpToSeq
  <2> HIDE DEF a
  <2>2. a \o s[i] \in Seq(Words) /\ Len(a \o s[i]) = 9 * i
    <3>1. a \o s[i] \in Seq(Words) /\ Len(a \o s[i]) = Len(a) + Len(s[i])
      BY <1>1, <2>1, ConcatProperties
    <3>2. 9 * (i - 1) + 9 = 9 * i
      OBVIOUS
    <3> QED
      BY <1>1, <2>1, <3>1, <3>2
  <2>3. ASSUME NEW k \in 1 .. 9 * i
        PROVE  UpTo(s, i)[k] = (a \o s[i])[k]
    <3>0. /\ k \in 1 .. Len(a) + Len(s[i])
          /\ (a \o s[i])[k] = IF k <= Len(a) THEN a[k] ELSE s[i][k - Len(a)]
      <4>1. k \in 1 .. Len(a) + Len(s[i])
        BY <1>1, <2>1
      <4> QED
        BY <1>1, <2>1, <4>1, ConcatProperties
    <3>1. CASE k <= 9 * (i - 1)
      <4>1. k \in 1 .. 9 * (i - 1)
        BY <3>1
      <4> QED
        BY <1>2, <2>1, <3>0, <3>1, <4>1
    <3>2. CASE ~(k <= 9 * (i - 1))
      <4>1. 1 + (k - 1) \div 9 = i /\ k - 9 * ((k - 1) \div 9) = k - 9 * (i - 1)
        BY <3>2
      <4>2. (a \o s[i])[k] = s[i][k - 9 * (i - 1)]
        BY <2>1, <3>0, <3>2
      <4> QED
        BY <1>2, <4>1, <4>2
    <3> QED
      BY <3>1, <3>2
  <2>4. UpTo(s, i) = a \o s[i]
    BY <1>2, <2>2, <2>3, SeqEqual
  <2> QED
    BY <1>4, <2>4 DEF a
<1> QED
  BY <1>3, <1>4

LEMMA FlattenNine ==
  ASSUME NEW s \in Seq(Seq(Words)), \A i \in 1 .. Len(s) : Len(s[i]) = 9, s # << >>
  PROVE  FlattenSeq(s) = UpTo(s, Len(s))
<1> DEFINE P(f) == f = [i \in 1 .. Len(s) |-> IF i = 1 THEN s[i] ELSE f[i - 1] \o s[i]]
           g == CHOOSE f : P(f)
           f0 == [i \in 1 .. Len(s) |-> UpTo(s, i)]
<1>0. Len(s) \in Nat \ {0}
  OBVIOUS
<1>1. P(f0)
  <2>1. ASSUME NEW i \in 1 .. Len(s)
        PROVE  f0[i] = IF i = 1 THEN s[i] ELSE f0[i - 1] \o s[i]
    <3>1. i # 1 => i - 1 \in 1 .. Len(s)
      BY <1>0
    <3> QED
      BY <3>1, UpToStep
  <2> QED
    BY <2>1
<1>2. P(g)
  <2> HIDE DEF P
  <2> QED
    BY <1>1
<1>3. FlattenSeq(s) = g[Len(s)]
  BY <1>0, Zenon DEF FlattenSeq
<1> HIDE DEF g
<1>4. \A i \in 1 .. Len(s) : g[i] = UpTo(s, i)
  <2> DEFINE Bad == {i \in 1 .. Len(s) : g[i] # UpTo(s, i)}
  <2>1. SUFFICES ASSUME Bad # {} PROVE FALSE
    OBVIOUS
  <2>2. PICK i \in Bad : \A j \in Bad : ~(j < i)
    <3>1. Bad \subseteq Nat
      OBVIOUS
    <3> HIDE DEF Bad
    <3> QED
      BY <2>1, <3>1, Least
  <2>3. i \in 1 .. Len(s) /\ g[i] # UpTo(s, i)
    OBVIOUS
  <2>4. g[i] = IF i = 1 THEN s[i] ELSE g[i - 1] \o s[i]
    BY <1>2, <2>3
  <2>5. i # 1 => g[i - 1] = UpTo(s, i - 1)
    <3>1. i # 1 => i - 1 \in 1 .. Len(s) /\ i - 1 < i
      BY <1>0, <2>3
    <3> QED
      BY <2>2, <3>1
  <2>6. UpTo(s, i) = IF i = 1 THEN s[i] ELSE UpTo(s, i - 1) \o s[i]
    BY <2>3, UpToStep
  <2> QED
    BY <2>3, <2>4, <2>5, <2>6
<1> QED
  BY <1>0, <1>3, <1>4

(* A line with a name of one word has nine words. *)
LEMMA LineOfNine ==
  ASSUME NEW e \in Entry, Len(e.name) = 1
  PROVE  /\ Line(e) \in Seq(Words) /\ Len(Line(e)) = 9 /\ Line(e) \in NineWords
         /\ Line(e)[1] = e.mode /\ Line(e)[5] = e.size /\ Line(e)[9] = e.name[1]
<1> DEFINE front == <<e.mode, Other, e.owner, Group, e.size, Other, Other, Other>>
<1>1. e.name \in Seq(Words) /\ e.mode \in Words /\ e.owner \in Words /\ e.size \in Words
  BY DirectoryAssumption DEF Entry
<1>2. Other \in Words /\ Group \in Words
  BY DirectoryAssumption
<1>3. front \in Seq(Words) /\ Len(front) = 8 /\ front[1] = e.mode /\ front[5] = e.size
  BY <1>1, <1>2
<1>4. Line(e) = front \o e.name
  BY DEF Line
<1> HIDE DEF front
<1>5. /\ front \o e.name \in Seq(Words) /\ Len(front \o e.name) = Len(front) + Len(e.name)
      /\ \A i \in 1 .. Len(front) + Len(e.name) :
           (front \o e.name)[i] = IF i <= Len(front) THEN front[i] ELSE e.name[i - Len(front)]
  BY <1>1, <1>3, ConcatProperties, Zenon
<1>6. /\ Line(e) \in Seq(Words) /\ Len(Line(e)) = Len(front) + Len(e.name)
      /\ \A i \in 1 .. Len(front) + Len(e.name) :
           Line(e)[i] = IF i <= Len(front) THEN front[i] ELSE e.name[i - Len(front)]
  BY <1>4, <1>5, Zenon
<1>7. Len(Line(e)) = 9
  BY <1>3, <1>6
<1>8. Line(e)[1] = e.mode /\ Line(e)[5] = e.size /\ Line(e)[9] = e.name[1]
  BY <1>3, <1>6
<1>9. Line(e) \in NineWords
  <2>1. Line(e) \in [1 .. Len(Line(e)) -> Words]
    BY <1>6, LenProperties
  <2> QED
    BY <1>7, <2>1 DEF NineWords, Columns
<1> QED
  BY <1>6, <1>7, <1>8, <1>9

LinesNow == [i \in 1 .. Len(entries) |-> Line(entries[i])]

LEMMA TokensLaidOut ==
  ASSUME entries \in Seq(Entry), SingleWords
  PROVE  /\ LaidOut(Tokens(entries), LinesNow) /\ Len(LinesNow) = Len(entries)
         /\ \A i \in 1 .. Len(entries) :
              /\ LinesNow[i][1] = entries[i].mode
              /\ LinesNow[i][5] = entries[i].size
              /\ LinesNow[i][9] = entries[i].name[1]
<1> DEFINE n == Len(entries)
<1>1. n \in Nat /\ DOMAIN entries = 1 .. n
  OBVIOUS
<1>2. ASSUME NEW i \in 1 .. n
      PROVE  /\ Line(entries[i]) \in Seq(Words) /\ Len(Line(entries[i])) = 9
             /\ Line(entries[i]) \in NineWords
             /\ Line(entries[i])[1] = entries[i].mode /\ Line(entries[i])[5] = entries[i].size
             /\ Line(entries[i])[9] = entries[i].name[1]
  BY <1>1, LineOfNine DEF SingleWords
<1>3. Tokens(entries) = FlattenSeq(LinesNow)
  BY <1>1 DEF Tokens, LinesNow
<1>4. /\ LinesNow \in Seq(NineWords) /\ LinesNow \in Seq(Seq(Words)) /\ Len(LinesNow) = n
      /\ \A i \in 1 .. n : LinesNow[i] = Line(entries[i])
  <2>1. LinesNow \in [1 .. n -> NineWords] /\ LinesNow \in [1 .. n -> Seq(Words)]
    BY <1>2 DEF LinesNow
  <2> QED
    BY <1>1, <2>1 DEF LinesNow
<1>5. \A i \in 1 .. Len(LinesNow) : Len(LinesNow[i]) = 9
  BY <1>2, <1>4
<1>6. /\ Tokens(entries) \in Seq(Words) /\ Len(Tokens(entries)) = 9 * n
      /\ \A k \in 1 .. 9 * n :
           Tokens(entries)[k] = LinesNow[1 + (k - 1) \div 9][k - 9 * ((k - 1) \div 9)]
  <2>1. CASE LinesNow = << >>
    <3>1. n = 0
      BY <1>4, <2>1
    <3>2. FlattenSeq(LinesNow) = << >>
      BY <2>1 DEF FlattenSeq
    <3> QED
      BY <1>3, <3>1, <3>2
  <2>2. CASE LinesNow # << >>
    <3>1. FlattenSeq(LinesNow) = UpTo(LinesNow, n)
      BY <1>4, <1>5, <2>2, FlattenNine
    <3>2. n \in 0 .. Len(LinesNow)
      BY <1>1, <1>4
    <3>3. /\ UpTo(LinesNow, n) \in Seq(Words) /\ Len(UpTo(LinesNow, n)) = 9 * n
          /\ \A k \in 1 .. 9 * n :
               UpTo(LinesNow, n)[k] = LinesNow[1 + (k - 1) \div 9][k - 9 * ((k - 1) \div 9)]
      BY <1>4, <1>5, <3>2, UpToSeq, Zenon
    <3> QED
      BY <1>3, <3>1, <3>3, Zenon
  <2> QED
    BY <2>1, <2>2
<1>7. ASSUME NEW r \in 1 .. n, NEW c \in 1 .. 9
      PROVE  Tokens(entries)[9 * (r - 1) + c] = LinesNow[r][c]
  <2> DEFINE k == 9 * (r - 1) + c
  <2>1. k \in 1 .. 9 * n /\ 1 + (k - 1) \div 9 = r /\ k - 9 * ((k - 1) \div 9) = c
    BY <1>1
  <2> HIDE DEF k
  <2>2. Tokens(entries)[k] = LinesNow[r][c]
    BY <1>6, <2>1
  <2> QED
    BY <2>2 DEF k
<1>8. LaidOut(Tokens(entries), LinesNow)
  BY <1>4, <1>6, <1>7 DEF LaidOut, Columns
<1> QED
  BY <1>2, <1>4, <1>8
-----------------------------------------------------------------------------
(* A directory that other clients fill.  No name is there twice.           *)
DirectoryInv ==
  /\ entries \in Seq(Entry)
  /\ \A j, k \in 1 .. Len(entries) : entries[j].name = entries[k].name => j = k

LEMMA DirectoryInit == Init => DirectoryInv
BY DEF Init, DirectoryInv

(* A listing with one entry more. *)
LEMMA InsertAtType ==
  ASSUME NEW S, NEW s \in Seq(S), NEW e \in S, NEW k \in 0 .. Len(s)
  PROVE  /\ InsertAt(s, k + 1, e) \in Seq(S) /\ Len(InsertAt(s, k + 1, e)) = Len(s) + 1
         /\ \A j \in 1 .. k : InsertAt(s, k + 1, e)[j] = s[j]
         /\ InsertAt(s, k + 1, e)[k + 1] = e
         /\ \A j \in k + 2 .. Len(s) + 1 : InsertAt(s, k + 1, e)[j] = s[j - 1]
<1> DEFINE a == SubSeq(s, 1, k)
           b == SubSeq(s, k + 1, Len(s))
<1>1. a \in Seq(S) /\ Len(a) = k /\ \A j \in 1 .. k : a[j] = s[j]
  OBVIOUS
<1>2. b \in Seq(S) /\ Len(b) = Len(s) - k /\ \A j \in 1 .. Len(s) - k : b[j] = s[k + j]
  OBVIOUS
<1>3. InsertAt(s, k + 1, e) = a \o <<e>> \o b
  <2>1. (k + 1) - 1 = k
    OBVIOUS
  <2> QED
    BY <2>1 DEF InsertAt
<1> HIDE DEF a, b
<1> DEFINE c == a \o <<e>>
<1>4. c \in Seq(S) /\ Len(c) = k + 1 /\ c[k + 1] = e /\ \A j \in 1 .. k : c[j] = s[j]
  BY <1>1
<1> HIDE DEF c
<1>5. /\ c \o b \in Seq(S) /\ Len(c \o b) = Len(s) + 1
      /\ (c \o b)[k + 1] = e /\ \A j \in 1 .. k : (c \o b)[j] = s[j]
      /\ \A j \in k + 2 .. Len(s) + 1 : (c \o b)[j] = b[j - (k + 1)]
  BY <1>2, <1>4
<1>6. ASSUME NEW j \in k + 2 .. Len(s) + 1 PROVE b[j - (k + 1)] = s[j - 1]
  BY <1>2, j - (k + 1) \in 1 .. Len(s) - k, k + (j - (k + 1)) = j - 1
<1>7. InsertAt(s, k + 1, e) = c \o b
  BY <1>3 DEF c
<1> QED
  BY <1>5, <1>6, <1>7

LEMMA EntryAdded ==
  ASSUME entries \in Seq(Entry), NEW e \in Entry, AddEntry(e)
  PROVE  \E k \in 0 .. Len(entries) :
           /\ entries' \in Seq(Entry) /\ Len(entries') = Len(entries) + 1
           /\ \A j \in 1 .. k : entries'[j] = entries[j]
           /\ entries'[k + 1] = e
           /\ \A j \in k + 2 .. Len(entries) + 1 : entries'[j] = entries[j - 1]
<1>1. PICK k \in 0 .. Len(entries) : entries' = InsertAt(entries, k + 1, e)
  BY DEF AddEntry
<1>0. InsertAt(entries, k + 1, e) \in Seq(Entry) /\ Len(InsertAt(entries, k + 1, e)) = Len(entries) + 1
  BY InsertAtType
<1>2. entries' \in Seq(Entry)
  BY <1>0, <1>1, Zenon
<1>3. Len(entries') = Len(entries) + 1
  BY <1>0, <1>1, Zenon
<1> DEFINE t == InsertAt(entries, k + 1, e)
<1>4. \A j \in 1 .. k : t[j] = entries[j]
  BY <1>1, InsertAtType
<1>5. t[k + 1] = e
  BY <1>1, InsertAtType
<1>6. \A j \in k + 2 .. Len(entries) + 1 : t[j] = entries[j - 1]
  BY <1>1, InsertAtType
<1>7. entries' = t
  BY <1>1
<1> HIDE DEF t
<1> QED
  BY <1>1, <1>2, <1>3, <1>4, <1>5, <1>6, <1>7

LEMMA DirectoryNext == DirectoryInv /\ [Next]_entries => DirectoryInv'
<1> SUFFICES ASSUME DirectoryInv, [Next]_entries PROVE DirectoryInv'
  OBVIOUS
<1> USE DEF DirectoryInv
<1>1. ASSUME NEW e \in Entry, AddEntry(e) PROVE DirectoryInv'
  <2>1. entries \in Seq(Entry)
    BY DEF DirectoryInv
  <2>2. PICK k \in 0 .. Len(entries) :
          /\ entries' \in Seq(Entry) /\ Len(entries') = Len(entries) + 1
          /\ \A j \in 1 .. k : entries'[j] = entries[j]
          /\ entries'[k + 1] = e
          /\ \A j \in k + 2 .. Len(entries) + 1 : entries'[j] = entries[j - 1]
    BY <1>1, <2>1, EntryAdded
  <2>3. \A j \in 1 .. Len(entries) : entries[j].name # e.name
    BY <1>1 DEF AddEntry, Names
  <2>4. ASSUME NEW i \in 1 .. Len(entries')
        PROVE  i = k + 1 \/ \E x \in 1 .. Len(entries) :
                                /\ i = IF x <= k THEN x ELSE x + 1
                                /\ entries'[i] = entries[x]
    <3>1. CASE i <= k
      <4>1. i \in 1 .. k /\ i \in 1 .. Len(entries) /\ entries'[i] = entries[i]
        BY <2>2, <3>1
      <4> QED
        BY <3>1, <4>1
    <3>2. CASE i > k + 1
      <4>1. /\ i \in k + 2 .. Len(entries) + 1
            /\ (i - 1) + 1 = i /\ ~(i - 1 <= k) /\ i - 1 \in 1 .. Len(entries)
        BY <2>2, <3>2
      <4>2. entries'[i] = entries[i - 1]
        BY <2>2, <4>1
      <4> QED
        BY <4>1, <4>2
    <3> QED
      BY <2>2, <3>1, <3>2
  <2>5. ASSUME NEW i \in 1 .. Len(entries'), NEW j \in 1 .. Len(entries'),
               entries'[i].name = entries'[j].name
        PROVE  i = j
    <3>1. CASE i = k + 1 /\ j # k + 1
      <4>1. PICK y \in 1 .. Len(entries) : entries'[j] = entries[y]
        BY <2>4, <3>1
      <4> QED
        BY <2>2, <2>3, <2>5, <3>1, <4>1
    <3>3. CASE i # k + 1 /\ j = k + 1
      <4>1. PICK x \in 1 .. Len(entries) : entries'[i] = entries[x]
        BY <2>4, <3>3
      <4> QED
        BY <2>2, <2>3, <2>5, <3>3, <4>1
    <3>2. CASE i # k + 1 /\ j # k + 1
      <4>1. PICK x \in 1 .. Len(entries) : i = (IF x <= k THEN x ELSE x + 1) /\ entries'[i] = entries[x]
        BY <2>4, <3>2
      <4>2. PICK y \in 1 .. Len(entries) : j = (IF y <= k THEN y ELSE y + 1) /\ entries'[j] = entries[y]
        BY <2>4, <3>2
      <4>3. x = y
        BY <2>5, <4>1, <4>2
      <4> QED
        BY <4>1, <4>2, <4>3
    <3> QED
      BY <3>1, <3>2, <3>3
  <2> QED
    BY <2>2, <2>5
<1>2. ASSUME NEW i \in DOMAIN entries, NEW size \in Sizes, ReplaceFile(i, size) PROVE DirectoryInv'
  <2>1. i \in 1 .. Len(entries) /\ entries[i] \in Entry
    OBVIOUS
  <2>2. entries' = [entries EXCEPT ![i] = [entries[i] EXCEPT !.size = size]]
    BY <1>2 DEF ReplaceFile
  <2>3. [entries[i] EXCEPT !.size = size] \in Entry /\ [entries[i] EXCEPT !.size = size].name = entries[i].name
    BY <2>1 DEF Entry
  <2>4. /\ entries' \in Seq(Entry) /\ Len(entries') = Len(entries)
        /\ \A j \in 1 .. Len(entries) : entries'[j].name = entries[j].name
    BY <2>1, <2>2, <2>3
  <2> QED
    BY <2>4
<1> QED
  BY <1>1, <1>2 DEF Next

LEMMA DirectoryInvariant == Spec => []DirectoryInv
BY DirectoryInit, DirectoryNext, PTL DEF Spec

LEMMA ModeIsDir ==
  ASSUME entries \in Seq(Entry), SingleWords, NEW i \in 1 .. Len(entries)
  PROVE  /\ IsDirLine(LinesNow[i]) <=> entries[i].mode = DirMode
         /\ ~IsDirLine(LinesNow[i]) <=> entries[i].mode = FileMode
<1>1. entries[i].mode \in {DirMode, FileMode}
  BY DEF Entry
<1>2. LinesNow[i][1] = entries[i].mode
  BY TokensLaidOut
<1> QED
  BY <1>1, <1>2, DirectoryAssumption DEF IsDirLine

(* FTP_GetDirectories offers exactly the subdirectories, whatever other    *)
(* clients put into a directory, as long as names are single words.        *)
THEOREM DirectoriesAreExact == Spec => []DirectoriesExact
<1>1. DirectoryInv => DirectoriesExact
  <2> SUFFICES ASSUME DirectoryInv, SingleWords
               PROVE  parseDirs(Tokens(entries)) = NamesOf(DirMode) \ Dots
    BY DEF DirectoriesExact
  <2>1. entries \in Seq(Entry) /\ DOMAIN entries = 1 .. Len(entries)
    BY DEF DirectoryInv
  <2>2. parseDirs(Tokens(entries)) =
          {LinesNow[r][9] : r \in {k \in 1 .. Len(entries) :
                                     IsDirLine(LinesNow[k]) /\ LinesNow[k][9] \notin Dots}}
    BY <2>1, TokensLaidOut, ParseDirsExact
  <2>3. \A k \in 1 .. Len(entries) : LinesNow[k][9] = entries[k].name[1]
    BY <2>1, TokensLaidOut
  <2>4. \A k \in 1 .. Len(entries) : IsDirLine(LinesNow[k]) <=> entries[k].mode = DirMode
    BY <2>1, ModeIsDir
  <2>5. NamesOf(DirMode) = {entries[i].name[1] : i \in {j \in 1 .. Len(entries) : entries[j].mode = DirMode}}
    BY <2>1 DEF NamesOf
  <2> QED
    BY <2>2, <2>3, <2>4, <2>5
<1> QED
  BY <1>1, DirectoryInvariant, PTL

(* FTP_GetFiles finds exactly the files of such a directory.               *)
THEOREM FilesAreExact == Spec => []FilesExact
<1>1. DirectoryInv => FilesExact
  <2> SUFFICES ASSUME DirectoryInv, SingleWords
               PROVE  parseFiles(Tokens(entries)) = NamesOf(FileMode)
    BY DEF FilesExact
  <2>1. entries \in Seq(Entry) /\ DOMAIN entries = 1 .. Len(entries)
    BY DEF DirectoryInv
  <2>2. parseFiles(Tokens(entries)) =
          {LinesNow[r][9] : r \in {k \in 1 .. Len(entries) : ~IsDirLine(LinesNow[k])}}
    BY <2>1, TokensLaidOut, ParseFilesExact
  <2>3. \A k \in 1 .. Len(entries) : LinesNow[k][9] = entries[k].name[1]
    BY <2>1, TokensLaidOut
  <2>4. \A k \in 1 .. Len(entries) : ~IsDirLine(LinesNow[k]) <=> entries[k].mode = FileMode
    BY <2>1, ModeIsDir
  <2>5. NamesOf(FileMode) = {entries[i].name[1] : i \in {j \in 1 .. Len(entries) : entries[j].mode = FileMode}}
    BY <2>1 DEF NamesOf
  <2> QED
    BY <2>2, <2>3, <2>4, <2>5
<1> QED
  BY <1>1, DirectoryInvariant, PTL

(* FTP_GetDirectories and FTP_GetFiles find what is there, both from the   *)
(* same words of one listing.                                              *)
THEOREM EntriesAreExact == Spec => []EntriesExact
<1>1. DirectoriesExact /\ FilesExact => EntriesExact
  BY DEF EntriesExact
<1> QED
  BY <1>1, DirectoriesAreExact, FilesAreExact, PTL

(* getFileSize finds the size of every file of such a directory, unless a  *)
(* word that its directory test reads by mistake starts with "d".          *)
THEOREM SizesAreExact == Spec => []SizeExactWhenReachable
<1>1. DirectoryInv => SizeExactWhenReachable
  <2> SUFFICES ASSUME DirectoryInv, SingleWords,
                      \A i \in LinesOf(Tokens(entries)) : At(Tokens(entries), i) \notin StartsWithD,
                      NEW r \in DOMAIN entries
               PROVE  getFileSize(Tokens(entries), entries[r].name[1]) = NumberOf[entries[r].size]
    BY DEF SizeExactWhenReachable
  <2>1. /\ entries \in Seq(Entry) /\ Len(entries) \in Nat /\ DOMAIN entries = 1 .. Len(entries)
        /\ r \in 1 .. Len(entries)
    BY DEF DirectoryInv
  <2>2. /\ LaidOut(Tokens(entries), LinesNow) /\ Len(LinesNow) = Len(entries)
        /\ \A k \in 1 .. Len(entries) : LinesNow[k][9] = entries[k].name[1]
        /\ LinesNow[r][5] = entries[r].size
    BY <2>1, TokensLaidOut
  <2>3. ASSUME NEW k \in 1 .. Len(LinesNow) PROVE Tokens(entries)[k] \notin StartsWithD
    <3>1. k - 1 \in LinesOf(Tokens(entries)) /\ (k - 1) + 1 = k
      <4>1. LinesOf(Tokens(entries)) = 0 .. Len(LinesNow) - 1
        BY <2>2, LineAccess
      <4> QED
        BY <2>1, <2>2, <4>1
    <3> QED
      BY <3>1 DEF At
  <2>4. ASSUME NEW k \in 1 .. Len(LinesNow), LinesNow[k][9] = LinesNow[r][9] PROVE k = r
    <3>1. k \in 1 .. Len(entries) /\ entries[k].name[1] = entries[r].name[1]
      BY <2>1, <2>2, <2>4
    <3>2. /\ entries[k].name \in Seq(Words) /\ entries[r].name \in Seq(Words)
          /\ Len(entries[k].name) = 1 /\ Len(entries[r].name) = 1
      <4>1. entries[k] \in Entry /\ entries[r] \in Entry
        BY <2>1, <3>1
      <4>2. Len(entries[k].name) = 1 /\ Len(entries[r].name) = 1
        BY <2>1, <3>1 DEF SingleWords
      <4>3. entries[k].name \in EntryNames /\ entries[r].name \in EntryNames
        BY <4>1 DEF Entry
      <4> QED
        BY <4>2, <4>3, DirectoryAssumption
    <3>3. \A i \in 1 .. Len(entries[k].name) : entries[k].name[i] = entries[r].name[i]
      BY <3>1, <3>2
    <3>4. entries[k].name = entries[r].name
      BY <3>2, <3>3, SeqEqual
    <3> QED
      BY <2>1, <3>1, <3>4 DEF DirectoryInv
  <2>5. r \in 1 .. Len(LinesNow)
    BY <2>1, <2>2
  <2>6. getFileSize(Tokens(entries), LinesNow[r][9]) = NumberOf[LinesNow[r][5]]
    BY <2>2, <2>3, <2>4, <2>5, FileSizeExact
  <2> QED
    BY <2>1, <2>2, <2>6
<1> QED
  BY <1>1, DirectoryInvariant, PTL
=============================================================================
