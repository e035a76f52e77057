CONSTANTS
  a = a
  b = b
  d = d
  Files = {a, b, d}
  Order <- ThreeFiles
  Deps = {d}
  Imports <- Tree
  BatchSize = 1
  RootSets <- MoreRoots
  Jobs = {j1, j2}
  MaxVersion = 1
  Moves = {"edit", "config", "folders"}
SPECIFICATION FairSpec
INVARIANTS TypeOK SweepsShareFiles
PROPERTY EveryFileIndexed
CHECK_DEADLOCK FALSE
