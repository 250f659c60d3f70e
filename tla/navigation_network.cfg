\* What becomes of a failure of the network.
CONSTANTS
  Bases <- MCBases
  PathArrays <- MCPathArrays
  InitialDirs <- MCInitialDirs
  OtherDirs <- MCOtherDirs
  Faults = {"net"}
  MaxSessions = 1
SPECIFICATION Spec
INVARIANT FailureWarned
CHECK_DEADLOCK FALSE
