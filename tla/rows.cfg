SPECIFICATION Spec
CONSTANTS
  order = order
  id = id
  Directories <- MCDirectories
  Configured <- MCConfigured
  MaxRows = 5
INVARIANTS RemoveMatchesRow TypedInOrder
