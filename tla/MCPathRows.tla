----------------------------- MODULE MCPathRows -----------------------------
(* Paths of at most five rows over two directories.                        *)
EXTENDS PathRows

CONSTANTS order, id

MCDirectories == {order, id}
MCConfigured == {<< >>, <<order>>, <<order, id>>}
=============================================================================
