------------------------------ MODULE PathRows ------------------------------
(***************************************************************************)
(* The list of directories in PathDialog and its buttons (PathDialog.cpp:  *)
(* 8-29, 86-137).  Between two clicks the student may make another row     *)
(* the current one, or drag a row to another place.                        *)
(***************************************************************************)
EXTENDS ItemList

CONSTANTS
  Directories,  (* the names and macros the student adds                   *)
  Configured,   (* the remote paths the configuration may hold             *)
  MaxRows       (* bound on the number of rows                             *)

ASSUME PathAssumption ==
  /\ Configured \subseteq Seq(Directories)
  /\ MaxRows \in Nat

VARIABLES
  pathlist,  (* the rows                                                   *)
  row,       (* the current one                                            *)
  remove,    (* the button "remove" is enabled                             *)
  above,     (* history: the rows above those of typed                     *)
  typed,     (* history: what was added since the list was last touched    *)
             (* otherwise                                                  *)
  below      (* history: the rows below                                    *)

history == <<above, typed, below>>
vars == <<pathlist, row, remove, history>>

(* The slot without its test of the row. *)
EnabledIfAny(currentRow, count) == count > 0

(* on_pathlist_currentRowChanged.                                          *)
EnabledFor(currentRow, count) == count > 0 /\ currentRow \in 1 .. count

(* Nothing has been added since: the next row comes below the current one. *)
StartAgain ==
  /\ above' = SubSeq(pathlist', 1, row')
  /\ typed' = << >>
  /\ below' = SubSeq(pathlist', row' + 1, Len(pathlist'))

(* The constructor fills the list and makes the last row the current one.  *)
Init ==
  /\ pathlist \in Configured
  /\ row = Len(pathlist)
  /\ remove = EnabledFor(row, Len(pathlist))
  /\ above = pathlist /\ typed = << >> /\ below = << >>

(* A row that is inserted above the current one. *)
RowAbove(current) == IF current = 0 THEN 1 ELSE current

RowBelow(current) == current + 1

(* on_add_clicked, on_addmacro_clicked.  Blanks in what is typed become    *)
(* dashes before; an empty answer adds nothing.                            *)
Add(d) ==
  /\ Len(pathlist) < MaxRows
  /\ pathlist' = InsertAt(pathlist, RowBelow(row), d)
  /\ row' = row + 1
  /\ remove' = EnabledFor(row + 1, Len(pathlist) + 1)
  /\ typed' = Append(typed, d)
  /\ UNCHANGED <<above, below>>

(* The current row moves to a neighbour before the row is taken.           *)
on_remove_clicked ==
  /\ remove
  /\ row > 0
  /\ \E n \in Neighbours(pathlist, row) :
       /\ remove' = EnabledFor(n, Len(pathlist))
       /\ row' = Renumbered(n, row)
  /\ pathlist' = RemoveAt(pathlist, row)
  /\ StartAgain

Select(r) ==
  /\ r # row
  /\ row' = r
  /\ remove' = EnabledFor(r, Len(pathlist))
  /\ UNCHANGED pathlist
  /\ StartAgain

Drag(from, to) ==
  /\ from # to
  /\ pathlist' = Move(pathlist, from, to)
  /\ row' = Moved(row, from, to)
  /\ UNCHANGED remove
  /\ StartAgain

Next ==
  \/ \E d \in Directories : Add(d)
  \/ on_remove_clicked
  \/ \E r \in 1 .. Len(pathlist) : Select(r)
  \/ \E from, to \in 1 .. Len(pathlist) : Drag(from, to)

Spec == Init /\ [][Next]_vars
-----------------------------------------------------------------------------
(* The button is enabled exactly when there is a row it would remove,      *)
(* although the slot that enables it is told of a row before the list has  *)
(* shrunk, and not at all when rows move.                                  *)
RemoveMatchesRow == remove <=> row \in 1 .. Len(pathlist)

(* Directories added one after the other form a path in the order in which *)
(* they were typed, below the row that was current, wherever that was.     *)
TypedInOrder == pathlist = above \o typed \o below
=============================================================================
