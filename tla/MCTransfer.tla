------------------------------ MODULE MCTransfer ------------------------------
(* "b" has a name of its own on the server; "x y" and "x-y" share one.  The *)
(* empty file "b" has the size a failed listing reports.                    *)
EXTENDS Transfer

MCFiles == {"b", "x y", "x-y"}
MCSize == [f \in MCFiles |-> IF f = "b" THEN 0 ELSE 1]
MCRemote == [f \in MCFiles |-> IF f = "x y" THEN "x-y" ELSE f]

AllLists == {<<"x y", "x-y", "b">>, <<"b", "x-y">>, << >>}
OneFile == {<<"x-y">>}
=============================================================================
