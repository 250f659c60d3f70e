\* Every button under fairness, slots nested three deep.
CONSTANTS
  Paths = {"p/a", "q/a", "q/b"}
  BaseName <- MCBaseName
  Selections <- MCSelections
  Clicks = {"add", "remove", "remove_all", "notes", "check", "upload", "dialog", "close"}
  MaxDepth = 3
SPECIFICATION RowsFairSpec
INVARIANTS TypeOK NoDuplicateNames OneTask FinishedFindsThread LoopFollowsList TipReady RemoveMatchesRow RemoveAllReachable
PROPERTIES ImplementsGate ImplementsTask CrashesKnown TaskEnds
