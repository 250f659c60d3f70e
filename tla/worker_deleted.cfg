\* An upload in which nothing fails.
CONSTANTS
  Files <- MCFiles
  Size <- MCSize
  Remote <- MCRemote
  Other = Other
  Absent = Absent
  OtherSizes = {1}
  Lists <- OneFile
  OtherNames = {}
  Spaced = {}
  Faults = {}
  MaxSessions = 1
SPECIFICATION Spec
INVARIANT CompletionTold
\* Uploads are bounded: after the last one nothing need happen.
CHECK_DEADLOCK FALSE
