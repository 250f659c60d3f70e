----------------------------- MODULE MCNavigation -----------------------------
(* A server with the homework "h" and the student's id "i", clients that    *)
(* race for the student's directory and its supplements, and paths with     *)
(* every kind of segment.                                                   *)
EXTENDS Navigation

MCBases == {"h", "i", "n", ".", ".."}

seg_(k, b) == [kind |-> k, name |-> <<b, 0>>]

MCPathArrays ==
  { <<seg_("pick", "h"), seg_("own", "i")>>,
    <<seg_("plain", "h"), seg_("own", "i"), seg_("own", "n")>>,
    <<seg_("plain", "h"), seg_("plain", ".."), seg_("own", "i"), seg_("plain", ".")>>,
    <<seg_("own", ".")>> }

h == <<"h", 0>>
i(k) == <<"i", k>>

MCInitialDirs ==
  { {<<h>>},
    {<<h>>, <<h, i(0)>>, <<h, i(2)>>},
    {<<h>>, <<i(0)>>, <<i(1)>>, <<i(2)>>} }

MCOtherDirs == {<<h, i(0)>>, <<h, i(1)>>, <<i(1)>>}
=============================================================================
