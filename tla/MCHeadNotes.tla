---------------------------- MODULE MCHeadNotes -----------------------------
(* Two code files, and another file an editor leaves alone.  The encodings  *)
(* and the header from an earlier use each occur at the start.              *)
EXTENDS HeadNotes, TLC

CONSTANTS c1, c2, doc

MCFiles == {c1, c2, doc}
MCCodeFiles == {c1, c2}
Symmetry == Permutations(MCCodeFiles)

MCInitially ==
  { NoFile,
    [text |-> 1, enc |-> "gbk", heads |-> 0],
    [text |-> 1, enc |-> "utf8", heads |-> 1] }
=============================================================================
