SPECIFICATION MemorySpec
CHECK_DEADLOCK FALSE
CONSTANTS
  Documents <- MCDocuments
  Edits <- MCEdits
  Target = 5
  Section = 2
  Overlap = 3
  NoIndex = NoIndex
  Rewrites = 1
  MaxRebuilds = 2
INVARIANTS EnsureBuilds
