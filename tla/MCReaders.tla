------------------------------ MODULE MCReaders ------------------------------
(* The two texts the program takes apart: the listing of a directory that  *)
(* fills up, and a path that is put together of a digit, another character,*)
(* the slash and the extensions.  They have nothing to do with each other, *)
(* so there is one of them at a time.  Words are strings here; the sizes   *)
(* are numerals.                                                           *)
EXTENDS RemoteDirectory, FileNames

MCEntryNames == {<<"a">>, <<"demo">>, <<".">>, <<"a", "demo">>}
MCSizes == {"10", "20"}
MCStartsWithD == {"drwx", "dan", "demo"}
MCDots == {".", ".."}
MCWords == {"drwx", "-rw-", "1", "grp", "ann", "dan", "..", "a", "demo", "."} \cup MCSizes
MCNumberOf == [w \in MCWords |-> IF w = "10" THEN 10
                                 ELSE IF w = "20" THEN 20
                                 ELSE IF w = "1" THEN 1 ELSE 0]

MCCharacters == {"1", "x", "/"}

ListingOrPath ==
  \/ path = << >> /\ Next /\ UNCHANGED <<path, typed>>
  \/ entries = << >> /\ TypeOn /\ UNCHANGED entries

MCInit == entries = << >> /\ NothingTyped

MCSpec == MCInit /\ [][ListingOrPath]_<<entries, path, typed>>
=============================================================================
