SPECIFICATION Spec
CONSTANTS
  NoNumber = NoNumber
  Nothing = Nothing
  Absent = Absent
  Malformed = Malformed
  Fields <- MCFields
  Valid <- MCValid
  Blank <- MCBlank
  RemotePaths <- MCRemotePaths
  Faults = {}
INVARIANT AcceptedIsWritten
