\* Two uploads, each through the walk and the transfer, another client.
CONSTANTS
  Bases <- MCBases
  PathArrays <- MCPathArrays
  InitialDirs <- MCInitialDirs
  OtherDirs <- MCOtherDirs
  Files <- MCFiles
  Size <- MCSize
  Remote <- MCRemote
  Lists <- MCLists
  Other = Other
  Absent = Absent
  OtherSizes = {1}
  OtherNames = {"a"}
  Spaced = {}
  Faults = {"config", "read", "ftp", "net"}
  MaxSessions = 2
SPECIFICATION FairSpec
INVARIANTS WorkerHasSession OnlyOwnWritten
PROPERTIES ImplementsTask UploadEnds
\* Clicks are bounded: after the last one nothing need happen.
CHECK_DEADLOCK FALSE
