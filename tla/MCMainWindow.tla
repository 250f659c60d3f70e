----------------------------- MODULE MCMainWindow -----------------------------
(* Two directories with a file of the same name.                            *)
EXTENDS FileRows

MCBaseName == [p \in {"p/a", "q/a", "q/b"} |-> IF p = "q/b" THEN "b" ELSE "a"]
MCSelections == {<<"p/a">>, <<"q/b", "q/a">>}
=============================================================================
