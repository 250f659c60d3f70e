---------------------------- MODULE MCConfigFile ----------------------------
(* The entries a student may type, those the dialog accepts, and paths of  *)
(* at most two segments.                                                   *)
EXTENDS CheckedConfig

typed(n, i, a) == [name |-> n, id |-> i, address |-> a]

ten == <<"2", "0", "2", "1", "0", "1", "2", "3", "4", "5">>
quad == <<10, 0, 0, 255>>

MCBlank == typed("", << >>, <<Nothing>>)

MCFields ==
  { MCBlank,
    typed("Li", ten, quad),
    typed("Li", Tail(ten), quad),
    typed("Li", [ten EXCEPT ![3] = "x"], quad),
    typed("", ten, quad),
    typed("Li", ten, <<10, 0, 0, 256>>),
    typed("Li", ten, <<10, 0, 255>>),
    typed("Wu", ten, <<10, NoNumber, 0, 255>>),
    typed("Wu", ten, <<10, Nothing, 0, 0, 255, Nothing>>) }

MCValid == {f \in MCFields : EntriesAccepted(f)}

MCRemotePaths == {<< >>, <<"$ID">>, <<"$ORDER", "$ID">>}
=============================================================================
