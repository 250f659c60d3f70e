\* Every segment kind, two sessions, racing clients, failing calls.
CONSTANTS
  Bases <- MCBases
  PathArrays <- MCPathArrays
  InitialDirs <- MCInitialDirs
  OtherDirs <- MCOtherDirs
  Faults = {"config", "ftp", "net"}
  MaxSessions = 2
SPECIFICATION FairSpec
INVARIANTS TypeOK SessionHeld OwnDirectoryClaimed SupplementsInOrder LeftOnTheWay CwdFollowsPath
PROPERTY UploadEnds
\* Clicks are bounded: after the last one nothing need happen.
CHECK_DEADLOCK FALSE
