------------------------------- MODULE ItemList -------------------------------
(***************************************************************************)
(* The list widget of Qt, as far as the program uses it: rows and a        *)
(* current row, counted from one, zero for none.  What changes the current *)
(* row tells currentRowChanged so, with the number of rows at that moment. *)
(* A row is taken after the current one has moved off it: the slot still   *)
(* counts it.                                                              *)
(***************************************************************************)
EXTENDS Naturals, Sequences, SequencesExt

(* Where the current row may go when row r is taken: to a neighbour.       *)
Neighbours(rows, r) ==
  IF Len(rows) = 1 THEN {0} ELSE {r - 1, r + 1} \cap (1 .. Len(rows))

(* The number a row has after row r is taken.                              *)
Renumbered(row, r) == IF row > r THEN row - 1 ELSE row

(* The number a row has after the row at from is moved to the place to.    *)
Moved(row, from, to) ==
  IF row = from THEN to
  ELSE IF from < row /\ row <= to THEN row - 1
  ELSE IF to <= row /\ row < from THEN row + 1
  ELSE row

Move(rows, from, to) == InsertAt(RemoveAt(rows, from), to, rows[from])
=============================================================================
