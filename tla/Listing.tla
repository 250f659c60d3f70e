------------------------------- MODULE Listing -------------------------------
(***************************************************************************)
(* How UploadThread reads a directory listing (UploadThread.cpp:78-184).   *)
(* The session's extended listing is read with operator>>, so it reaches   *)
(* the program as one flat list of words; a line of the server is taken to *)
(* be nine words, the first of which starts with "d" for a directory, the  *)
(* fifth is the size and the ninth the name.                               *)
(*                                                                         *)
(* The three readers below return sets: the program only asks the result   *)
(* whether it contains a name, and shows it in a selection box.            *)
(***************************************************************************)
EXTENDS Naturals, Sequences

CONSTANTS
  Words,        (* the words a listing is made of                          *)
  StartsWithD,  (* the words for which startsWith("d") holds               *)
  Dots,         (* the words "." and ".."                                  *)
  NumberOf      (* QString::toUInt: 0 for a word that is not a number      *)

ASSUME ListingAssumption ==
  /\ StartsWithD \subseteq Words
  /\ Dots \subseteq Words
  /\ NumberOf \in [Words -> Nat]

Columns == 9

(* QStringList::at, which counts from zero. *)
At(list, k) == list[k + 1]

(* The values the loop index i takes: the loops run while i * 9 < size().  *)
LinesOf(list) == {i \in 0 .. Len(list) : i * Columns < Len(list)}

(* The second test of every loop body: the ninth word of line i exists.    *)
HasName(list, i) == i * Columns + 8 < Len(list)

Name(list, i) == At(list, i * Columns + 8)

IsDir(list, i) == At(list, i * Columns) \in StartsWithD

parseFiles(list) ==
  {Name(list, i) :
     i \in {j \in LinesOf(list) : ~IsDir(list, j) /\ HasName(list, j)}}

(* A slip that forgets that "." and ".." are no choices. *)
parseDirsWithDots(list) ==
  {Name(list, i) :
     i \in {j \in LinesOf(list) : IsDir(list, j) /\ HasName(list, j)}}

parseDirs(list) ==
  {Name(list, i) :
     i \in {j \in LinesOf(list) :
              IsDir(list, j) /\ HasName(list, j) /\ Name(list, j) \notin Dots}}

(* A slip in the column of the size: the group is read in its place. *)
SizeColumnOff(list, i) == NumberOf[At(list, i * Columns + 3)]

SizeColumn(list, i) == NumberOf[At(list, i * Columns + 4)]

(* Line i is the one getFileSize returns the size of, if no earlier one is.*)
(* The directory test looks at word i of the whole listing, not at the     *)
(* first word of line i (UploadThread.cpp:175).                            *)
SizeMatch(list, filename, i) ==
  /\ At(list, i) \notin StartsWithD
  /\ HasName(list, i)
  /\ Name(list, i) = filename

getFileSize(list, filename) ==
  LET hits == {i \in LinesOf(list) : SizeMatch(list, filename, i)}
  IN  IF hits = {} THEN 0
      ELSE SizeColumn(list, CHOOSE i \in hits : \A j \in hits : i <= j)
=============================================================================
