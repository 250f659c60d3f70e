------------------------------- MODULE MCUpload -------------------------------
(* A server with homework "h", with the student's directory or without,   *)
(* another client that may create it, and one file, or none.               *)
EXTENDS Upload

MCBases == {"h", "i", ".", ".."}
h == <<"h", 0>>
MCPathArrays == {<<[kind |-> "pick", name |-> h], [kind |-> "own", name |-> <<"i", 0>>]>>}
MCInitialDirs == {{<<h>>}, {<<h>>, <<h, <<"i", 0>>>>}}
MCOtherDirs == {<<h, <<"i", 0>>>>}

MCFiles == {"a"}
MCSize == [f \in MCFiles |-> 1]
MCRemote == [f \in MCFiles |-> f]
MCLists == {<<"a">>, << >>}
=============================================================================
