---------------------------- MODULE PathRowsProofs ----------------------------
(***************************************************************************)
(* The list of directories of PathDialog, for any names, any configured    *)
(* path and any number of rows.                                            *)
(***************************************************************************)
EXTENDS PathRows, SequenceTheorems, TLAPS

(* The buttons and the order rest on where the rows of typed are: right    *)
(* up to the current one.                                                  *)
RowInv ==
  /\ pathlist \in Seq(Directories)
  /\ above \in Seq(Directories) /\ typed \in Seq(Directories) /\ below \in Seq(Directories)
  /\ row = Len(above) + Len(typed)
  /\ TypedInOrder
  /\ RemoveMatchesRow

(* The parts of two sequences one after the other. *)
LEMMA PartsOfConcat ==
  ASSUME NEW S, NEW x \in Seq(S), NEW y \in Seq(S)
  PROVE  /\ SubSeq(x \o y, 1, Len(x)) = x
         /\ SubSeq(x \o y, Len(x) + 1, Len(x \o y)) = y
<1>0. Len(x) \in Nat /\ Len(y) \in Nat /\ Len(x \o y) = Len(x) + Len(y)
  BY ConcatProperties, LenProperties
<1>1. SubSeq(x \o y, 1, Len(x)) = x
  <2>1. CASE Len(x) = 0
    <3>1. x = << >> /\ SubSeq(x \o y, 1, 0) = << >>
      BY <2>1, EmptySeq, SubSeqEmpty
    <3> QED
      BY <2>1, <3>1
  <2>2. CASE Len(x) # 0
    <3>1. 1 \in 1 .. Len(x) /\ Len(x) \in 1 .. Len(x)
      BY <1>0, <2>2
    <3>2. SubSeq(x \o y, 1, Len(x)) = SubSeq(x, 1, Len(x))
      BY <3>1, SubSeqOfConcat1, Zenon
    <3> QED
      BY <3>2, SubSeqFull
  <2> QED
    BY <2>1, <2>2
<1>2. SubSeq(x \o y, Len(x) + 1, Len(x \o y)) = y
  <2> DEFINE z == x \o y
             m == Len(x)
             n == Len(z)
  <2>1. z \in Seq(S) /\ m \in Nat /\ n \in Nat /\ n = m + Len(y)
    BY <1>0, ConcatProperties
  <2>2. \A i \in 1 .. m + Len(y) : z[i] = IF i <= m THEN x[i] ELSE y[i - m]
    BY ConcatProperties
  <2> HIDE DEF z, m, n
  <2>3. \A i \in m + 1 .. n : z[i] \in S
    <3>1. ASSUME NEW i \in m + 1 .. n PROVE z[i] \in S
      <4>1. i \in 1 .. Len(z)
        BY <2>1, <3>1 DEF n
      <4> QED
        BY <2>1, <4>1
    <3> QED
      BY <3>1
  <2> DEFINE u == SubSeq(z, m + 1, n)
  <2>4. /\ u \in Seq(S) /\ Len(u) = IF m + 1 <= n THEN n - (m + 1) + 1 ELSE 0
        /\ \A i \in 1 .. n - (m + 1) + 1 : u[i] = z[(m + 1) + i - 1]
    <3>1. m + 1 \in Int /\ n \in Int
      BY <2>1
    <3> QED
      BY <2>3, <3>1, SubSeqProperties
  <2> HIDE DEF u
  <2>5. Len(u) = Len(y)
    BY <1>0, <2>1, <2>4
  <2>6. ASSUME NEW i \in 1 .. Len(u) PROVE u[i] = y[i]
    <3>1. u[i] = z[(m + 1) + i - 1] /\ (m + 1) + i - 1 = m + i
      BY <1>0, <2>1, <2>4, <2>5
    <3>2. m + i \in 1 .. m + Len(y) /\ ~(m + i <= m) /\ (m + i) - m = i
      BY <1>0, <2>1, <2>5
    <3> QED
      BY <2>2, <3>1, <3>2
  <2>7. u = y
    BY <2>4, <2>5, <2>6, SeqEqual
  <2> QED
    BY <2>7 DEF u, z, m, n
<1> QED
  BY <1>1, <1>2

(* A sequence with one element more is one longer, and one shorter with    *)
(* one element less.                                                       *)
LEMMA OneMore ==
  ASSUME NEW S, NEW s \in Seq(S), NEW e \in S, NEW i \in 1 .. Len(s) + 1
  PROVE  InsertAt(s, i, e) \in Seq(S) /\ Len(InsertAt(s, i, e)) = Len(s) + 1
<1> DEFINE a == SubSeq(s, 1, i - 1)
           b == SubSeq(s, i, Len(s))
<1>1. a \in Seq(S) /\ Len(a) = i - 1 /\ b \in Seq(S) /\ Len(b) = Len(s) - (i - 1)
  OBVIOUS
<1>2. InsertAt(s, i, e) = a \o <<e>> \o b
  BY DEF InsertAt
<1> HIDE DEF a, b
<1>3. a \o <<e>> \o b \in Seq(S) /\ Len(a \o <<e>> \o b) = Len(s) + 1
  BY <1>1
<1> QED
  BY <1>2, <1>3

LEMMA OneLess ==
  ASSUME NEW S, NEW s \in Seq(S), NEW r \in 1 .. Len(s)
  PROVE  RemoveAt(s, r) \in Seq(S) /\ Len(RemoveAt(s, r)) = Len(s) - 1
<1> DEFINE a == SubSeq(s, 1, r - 1)
           b == SubSeq(s, r + 1, Len(s))
<1>1. a \in Seq(S) /\ Len(a) = r - 1 /\ b \in Seq(S) /\ Len(b) = Len(s) - r
  OBVIOUS
<1>2. RemoveAt(s, r) = a \o b
  BY DEF RemoveAt
<1> HIDE DEF a, b
<1> QED
  BY <1>1, <1>2

(* A sequence cut in two. *)
LEMMA CutInTwo ==
  ASSUME NEW S, NEW s \in Seq(S), NEW k \in 0 .. Len(s)
  PROVE  /\ SubSeq(s, 1, k) \in Seq(S) /\ Len(SubSeq(s, 1, k)) = k
         /\ SubSeq(s, k + 1, Len(s)) \in Seq(S)
         /\ SubSeq(s, 1, k) \o << >> \o SubSeq(s, k + 1, Len(s)) = s
<1>1. SubSeq(s, 1, k) \in Seq(S) /\ Len(SubSeq(s, 1, k)) = k /\ SubSeq(s, k + 1, Len(s)) \in Seq(S)
  OBVIOUS
<1>2. SubSeq(s, 1, k) \o SubSeq(s, k + 1, Len(s)) = SubSeq(s, 1, Len(s))
  <2>1. /\ 1 \in 1 .. Len(s) + 1 /\ k \in 1 - 1 .. Len(s) /\ Len(s) \in k .. Len(s)
    OBVIOUS
  <2> QED
    BY <2>1, ConcatAdjacentSubSeq, Zenon
<1>3. SubSeq(s, 1, k) \o << >> = SubSeq(s, 1, k)
  BY <1>1, ConcatEmptySeq, Zenon
<1>4. SubSeq(s, 1, Len(s)) = s
  BY SubSeqFull
<1> QED
  BY <1>1, <1>2, <1>3, <1>4
-----------------------------------------------------------------------------
(* A step after which the row the next directory goes below is the current *)
(* one.                                                                    *)
LEMMA StartsAgain ==
  ASSUME pathlist' \in Seq(Directories), row' \in 0 .. Len(pathlist'), StartAgain
  PROVE  /\ above' \in Seq(Directories) /\ typed' \in Seq(Directories) /\ below' \in Seq(Directories)
         /\ row' = Len(above') + Len(typed')
         /\ TypedInOrder'
<1>1. above' = SubSeq(pathlist', 1, row') /\ typed' = << >> /\ below' = SubSeq(pathlist', row' + 1, Len(pathlist'))
  BY DEF StartAgain
<1>2. /\ above' \in Seq(Directories) /\ Len(above') = row' /\ below' \in Seq(Directories)
      /\ above' \o << >> \o below' = pathlist'
  BY <1>1, CutInTwo
<1>3. typed' \in Seq(Directories) /\ Len(typed') = 0
  BY <1>1
<1>4. TypedInOrder'
  BY <1>1, <1>2 DEF TypedInOrder
<1>5. row' = Len(above') + Len(typed')
  <2>1. Len(above') \in Nat /\ Len(above') = row'
    BY <1>2
  <2>2. Len(typed') = 0
    BY <1>3
  <2>3. \A n \in Nat : n = n + 0
    OBVIOUS
  <2> QED
    BY <2>1, <2>2, <2>3, Zenon
<1> QED
  BY <1>2, <1>3, <1>4, <1>5, Zenon

LEMMA RowInit == Init => RowInv
<1> SUFFICES ASSUME Init PROVE RowInv
  OBVIOUS
<1>1. pathlist \in Seq(Directories) /\ row = Len(pathlist) /\ above = pathlist /\ typed = << >> /\ below = << >>
  BY PathAssumption DEF Init
<1>2. << >> \in Seq(Directories) /\ Len(<< >>) = 0
  OBVIOUS
<1>3. TypedInOrder
  BY <1>1, <1>2, ConcatEmptySeq DEF TypedInOrder
<1>4. RemoveMatchesRow
  <2>1. remove = EnabledFor(row, Len(pathlist))
    BY DEF Init
  <2>2. row \in 1 .. Len(pathlist) <=> EnabledFor(row, Len(pathlist))
    BY <1>1 DEF EnabledFor
  <2> QED
    BY <2>1, <2>2, Zenon DEF RemoveMatchesRow
<1> QED
  BY <1>1, <1>2, <1>3, <1>4 DEF RowInv

LEMMA RowType == RowInv => row \in 0 .. Len(pathlist)
<1> SUFFICES ASSUME RowInv PROVE row \in 0 .. Len(pathlist)
  OBVIOUS
<1>1. above \o typed \in Seq(Directories) /\ Len(above \o typed) = Len(above) + Len(typed)
  BY ConcatProperties DEF RowInv
<1>2. Len(above \o typed \o below) = Len(above \o typed) + Len(below)
  BY <1>1, ConcatProperties DEF RowInv
<1>3. Len(above) \in Nat /\ Len(typed) \in Nat /\ Len(below) \in Nat
  BY DEF RowInv
<1> QED
  BY <1>1, <1>2, <1>3 DEF RowInv, TypedInOrder

LEMMA AddStep ==
  ASSUME RowInv, NEW d \in Directories, Add(d)
  PROVE  RowInv'
<1>1. /\ pathlist' = InsertAt(pathlist, row + 1, d) /\ row' = row + 1
      /\ remove' = EnabledFor(row + 1, Len(pathlist) + 1)
      /\ typed' = Append(typed, d) /\ UNCHANGED <<above, below>>
  BY DEF Add, RowBelow
<1>2. /\ pathlist \in Seq(Directories) /\ row \in 0 .. Len(pathlist) /\ row = Len(above) + Len(typed)
      /\ above \in Seq(Directories) /\ typed \in Seq(Directories) /\ below \in Seq(Directories)
      /\ pathlist = above \o typed \o below
  BY RowType DEF RowInv, TypedInOrder
<1>3. pathlist' \in Seq(Directories) /\ Len(pathlist') = Len(pathlist) + 1
  <2>1. pathlist \in Seq(Directories) /\ row + 1 \in 1 .. Len(pathlist) + 1
    BY <1>2
  <2>2. /\ InsertAt(pathlist, row + 1, d) \in Seq(Directories)
        /\ Len(InsertAt(pathlist, row + 1, d)) = Len(pathlist) + 1
    BY <2>1, OneMore
  <2> QED
    BY <1>1, <2>2, Zenon
<1>4. typed' \in Seq(Directories) /\ Len(typed') = Len(typed) + 1
  BY <1>1, <1>2
<1>5. row' = Len(above') + Len(typed')
  BY <1>1, <1>2, <1>4
<1>6. TypedInOrder'
  <2> DEFINE ab == above \o typed
             n == row + 1
  <2>1. ab \in Seq(Directories) /\ Len(ab) = Len(above) + Len(typed)
    BY <1>2, ConcatProperties
  <2>2. ab \o <<d>> = above \o typed'
    <3>1. typed' = typed \o <<d>>
      BY <1>1, <1>2, AppendIsConcat
    <3>2. <<d>> \in Seq(Directories)
      OBVIOUS
    <3>3. (above \o typed) \o <<d>> = above \o (typed \o <<d>>)
      BY <1>2, <3>2, ConcatAssociative
    <3> QED
      BY <3>1, <3>3, Zenon
  <2>3. pathlist = ab \o below
    BY <1>2
  <2>4. n - 1 = Len(ab) /\ n = Len(ab) + 1
    BY <1>2, <2>1
  <2> HIDE DEF ab, n
  <2>5. SubSeq(pathlist, 1, n - 1) = ab /\ SubSeq(pathlist, n, Len(pathlist)) = below
    <3>1. /\ SubSeq(ab \o below, 1, Len(ab)) = ab
          /\ SubSeq(ab \o below, Len(ab) + 1, Len(ab \o below)) = below
      BY <1>2, <2>1, PartsOfConcat
    <3> QED
      BY <2>3, <2>4, <3>1, Zenon
  <2>6. InsertAt(pathlist, n, d) = SubSeq(pathlist, 1, n - 1) \o <<d>> \o SubSeq(pathlist, n, Len(pathlist))
    BY DEF InsertAt
  <2>7. pathlist' = ab \o <<d>> \o below
    BY <1>1, <2>5, <2>6, Zenon DEF n
  <2> QED
    BY <1>1, <2>2, <2>7, Zenon DEF TypedInOrder
<1>7. RemoveMatchesRow'
  <2>1. EnabledFor(row + 1, Len(pathlist) + 1) /\ row' \in 1 .. Len(pathlist')
    BY <1>1, <1>2, <1>3 DEF EnabledFor
  <2> QED
    BY <1>1, <2>1, Zenon DEF RemoveMatchesRow
<1> QED
  BY <1>1, <1>2, <1>3, <1>4, <1>5, <1>6, <1>7 DEF RowInv

LEMMA RemoveStep ==
  ASSUME RowInv, on_remove_clicked
  PROVE  RowInv'
<1>1. pathlist \in Seq(Directories) /\ row \in 1 .. Len(pathlist) /\ Len(pathlist) \in Nat
  BY RowType DEF RowInv, on_remove_clicked
<1>2. PICK n \in Neighbours(pathlist, row) : remove' = EnabledFor(n, Len(pathlist)) /\ row' = Renumbered(n, row)
  BY DEF on_remove_clicked
<1>3. pathlist' = RemoveAt(pathlist, row) /\ StartAgain
  BY DEF on_remove_clicked
<1>4. pathlist' \in Seq(Directories) /\ Len(pathlist') = Len(pathlist) - 1
  BY <1>1, <1>3, OneLess
<1>5. /\ row' \in 0 .. Len(pathlist')
      /\ EnabledFor(n, Len(pathlist)) <=> row' \in 1 .. Len(pathlist')
  <2>1. CASE Len(pathlist) = 1
    <3>1. n = 0 /\ row' = 0
      BY <1>1, <1>2, <2>1 DEF Neighbours, Renumbered
    <3> QED
      BY <1>4, <2>1, <3>1 DEF EnabledFor
  <2>2. CASE Len(pathlist) # 1
    <3>1. n \in {row - 1, row + 1} /\ n \in 1 .. Len(pathlist)
      BY <1>2, <2>2 DEF Neighbours
    <3>2. row' = IF n > row THEN n - 1 ELSE n
      BY <1>2 DEF Renumbered
    <3>3. row' \in 1 .. Len(pathlist')
      BY <1>1, <1>4, <3>1, <3>2
    <3> QED
      BY <1>1, <1>4, <3>1, <3>3 DEF EnabledFor
  <2> QED
    BY <2>1, <2>2
<1>6. RemoveMatchesRow'
  BY <1>2, <1>5, Zenon DEF RemoveMatchesRow
<1> QED
  BY <1>3, <1>4, <1>5, <1>6, StartsAgain DEF RowInv

LEMMA SelectStep ==
  ASSUME RowInv, NEW r \in 1 .. Len(pathlist), Select(r)
  PROVE  RowInv'
<1>1. /\ pathlist' = pathlist /\ row' = r /\ remove' = EnabledFor(r, Len(pathlist)) /\ StartAgain
  BY DEF Select
<1>2. pathlist' \in Seq(Directories) /\ row' \in 0 .. Len(pathlist') /\ row' \in 1 .. Len(pathlist')
  BY <1>1 DEF RowInv
<1>3. EnabledFor(r, Len(pathlist))
  BY <1>1, <1>2 DEF EnabledFor
<1>4. RemoveMatchesRow'
  BY <1>1, <1>2, <1>3, Zenon DEF RemoveMatchesRow
<1> QED
  BY <1>1, <1>2, <1>4, StartsAgain DEF RowInv

LEMMA DragStep ==
  ASSUME RowInv, NEW from \in 1 .. Len(pathlist), NEW to \in 1 .. Len(pathlist), Drag(from, to)
  PROVE  RowInv'
<1>1. /\ from # to /\ pathlist' = Move(pathlist, from, to) /\ row' = Moved(row, from, to)
      /\ remove' = remove /\ StartAgain
  BY DEF Drag
<1>2. pathlist \in Seq(Directories) /\ row \in 0 .. Len(pathlist) /\ Len(pathlist) \in Nat
  BY RowType DEF RowInv
<1>3. pathlist' \in Seq(Directories) /\ Len(pathlist') = Len(pathlist)
  <2> DEFINE rest == RemoveAt(pathlist, from)
             e == pathlist[from]
  <2>1. rest \in Seq(Directories) /\ Len(rest) = Len(pathlist) - 1 /\ e \in Directories
    BY <1>2, OneLess
  <2>2. pathlist' = InsertAt(rest, to, e)
    BY <1>1, Zenon DEF Move
  <2> HIDE DEF rest, e
  <2>3. to \in 1 .. Len(rest) + 1 /\ Len(rest) + 1 = Len(pathlist)
    BY <1>2, <2>1
  <2>4. InsertAt(rest, to, e) \in Seq(Directories) /\ Len(InsertAt(rest, to, e)) = Len(rest) + 1
    BY <2>1, <2>3, OneMore
  <2> QED
    BY <2>2, <2>3, <2>4, Zenon
<1>4. row' \in 0 .. Len(pathlist') /\ (row' \in 1 .. Len(pathlist') <=> row \in 1 .. Len(pathlist))
  BY <1>1, <1>2, <1>3 DEF Moved
<1>5. RemoveMatchesRow'
  BY <1>1, <1>4, Zenon DEF RemoveMatchesRow, RowInv
<1> QED
  BY <1>1, <1>3, <1>4, <1>5, StartsAgain DEF RowInv

LEMMA RowNext == RowInv /\ [Next]_vars => RowInv'
<1> SUFFICES ASSUME RowInv, [Next]_vars PROVE RowInv'
  OBVIOUS
<1>1. CASE UNCHANGED vars
  BY <1>1 DEF vars, history, RowInv, TypedInOrder, RemoveMatchesRow
<1> QED
  BY <1>1, AddStep, RemoveStep, SelectStep, DragStep DEF Next

LEMMA RowInvariant == Spec => []RowInv
BY RowInit, RowNext, PTL DEF Spec

(* For any list and any clicks, selections and drags, "remove" is enabled  *)
(* exactly when there is a current row to remove.                          *)
THEOREM RemoveFitsRow == Spec => []RemoveMatchesRow
<1>1. RowInv => RemoveMatchesRow
  BY DEF RowInv
<1> QED
  BY <1>1, RowInvariant, PTL

(* Directories added one after the other stay together and in order.       *)
THEOREM TypedStaysInOrder == Spec => []TypedInOrder
<1>1. RowInv => TypedInOrder
  BY DEF RowInv
<1> QED
  BY <1>1, RowInvariant, PTL
===============================================================================
