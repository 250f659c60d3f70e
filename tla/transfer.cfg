\* Files that share a name, other clients, a name with a blank, a cleared output and every fault.
CONSTANTS
  Files <- MCFiles
  Size <- MCSize
  Remote <- MCRemote
  Other = Other
  Absent = Absent
  OtherSizes = {1}
  Lists <- AllLists
  OtherNames = {"x-y", "b c"}
  Spaced = {"b c"}
  Faults = {"read", "ftp", "net", "short", "dword", "clear"}
  MaxSessions = 1
SPECIFICATION Spec
INVARIANTS TypeOK NoSilentOverwrite UploadedIsThere ReportsComplete
\* Uploads are bounded: after the last one nothing need happen.
CHECK_DEADLOCK FALSE
