\* Listings of up to three entries, with blanks in names, owners and names that
\* start with "d", and "." as a listed name; paths of up to six parts.
CONSTANTS
  Words <- MCWords
  StartsWithD <- MCStartsWithD
  Dots <- MCDots
  NumberOf <- MCNumberOf
  DirMode = "drwx"
  FileMode = "-rw-"
  Group = "grp"
  Other = "1"
  Owners = {"ann", "dan"}
  Sizes <- MCSizes
  EntryNames <- MCEntryNames
  MaxEntries = 3
  Characters <- MCCharacters
  MaxTyped = 6
SPECIFICATION MCSpec
INVARIANTS EntriesExact SizeExactWhenReachable CheckExact
CHECK_DEADLOCK FALSE
