\* An editor, a crash and every failure.
CONSTANTS
  c1 = c1
  c2 = c2
  doc = doc
  Files <- MCFiles
  CodeFiles <- MCCodeFiles
  NoFile = NoFile
  Initially <- MCInitially
  Edited <- MCCodeFiles
  Faults = {"config", "read", "truncate", "write", "end"}
  MaxSaves = 2
  MaxStays = 2
  MaxClicks = 1
SPECIFICATION Spec
SYMMETRY Symmetry
INVARIANTS TypeOK NotesAddedOnce TextKept
