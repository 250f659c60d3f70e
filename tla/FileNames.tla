------------------------------ MODULE FileNames ------------------------------
(***************************************************************************)
(* What the loop of AutomaticXuanShanLi::on_check_clicked says of a path   *)
(* (AutomaticXuanShanLi.cpp:288-326), and how the program takes the name   *)
(* and the extension of a path.  A path is a sequence of characters; the   *)
(* comparison of extensions ignores case, so letters are lower case here.  *)
(***************************************************************************)
EXTENDS Naturals, Sequences, SequencesExt

Digits == {"0", "1", "2", "3", "4", "5", "6", "7", "8", "9"}

c == <<".", "c">>
cpp == <<".", "c", "p", "p">>
h == <<".", "h">>
hpp == <<".", "h", "p", "p">>
exe == <<".", "e", "x", "e">>

endsWith(path, extension) == IsSuffix(extension, path)

isCode(path) == \E e \in {c, cpp, h, hpp} : endsWith(path, e)

(* lastIndexOf("/"), counted from one: zero where there is none.           *)
lastSlash(path) ==
  LET slashes == {k \in 1 .. Len(path) : path[k] = "/"}
  IN  IF slashes = {} THEN 0 ELSE CHOOSE k \in slashes : \A l \in slashes : l <= k

(* right(length - lastIndexOf("/") - 1).                                   *)
fileName(path) == SubSeq(path, lastSlash(path) + 1, Len(path))

left(name, n) == SubSeq(name, 1, n)

(* A slip: the same two characters for every extension. *)
stemOfTwo(name) == left(name, Len(name) - 2)

stem(name) ==
  IF endsWith(name, c) \/ endsWith(name, h) THEN left(name, Len(name) - 2)
  ELSE IF \E e \in {cpp, hpp, exe} : endsWith(name, e) THEN left(name, Len(name) - 4)
  ELSE name

(* What the output says: nothing, or the one complaint.                    *)
check(path) ==
  LET filename == stem(fileName(path))
  IN  IF ~isCode(path) /\ ~endsWith(path, exe) THEN "nothing"
      ELSE IF Len(filename) # 4 THEN "length"
      ELSE IF \E j \in 1 .. 4 : filename[j] \notin Digits THEN "character"
      ELSE "nothing"
-----------------------------------------------------------------------------
CONSTANTS
  Characters,  (* the characters typed                                     *)
  MaxTyped     (* bound on what is put together: characters and extensions *)

VARIABLES
  path,   (* the path in the list                                          *)
  typed   (* how much of it there is                                       *)

(* Paths are put together of characters and extensions.                    *)
NothingTyped == path = << >> /\ typed = 0

Type(s) ==
  /\ typed < MaxTyped
  /\ path' = path \o s
  /\ typed' = typed + 1

TypeOn == \E s \in {<<x>> : x \in Characters} \cup {c, cpp, h, hpp, exe} : Type(s)

TypedPath == NothingTyped /\ [][TypeOn]_<<path, typed>>
-----------------------------------------------------------------------------
FourDigits(name) ==
  \E e \in {c, cpp, h, hpp, exe} :
    Len(name) = 4 + Len(e) /\ endsWith(name, e) /\ \A j \in 1 .. 4 : name[j] \in Digits

(* There is no complaint about a name of four digits and an extension, in  *)
(* whatever directory, and one about every other path of that extension:   *)
(* taking the name apart never counts a character too many or too few.     *)
CheckExact ==
  isCode(path) \/ endsWith(path, exe) =>
    (check(path) = "nothing" <=> FourDigits(fileName(path)))
=============================================================================
