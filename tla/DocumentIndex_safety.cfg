CONSTANTS
  a = a
  b = b
  d = d
  Files = {a, d}
  Order <- TwoFiles
  Deps = {d}
  Imports <- Tree
  BatchSize = 1
  RootSets <- AllRoots
  Jobs = {j1, j2}
  MaxVersion = 2
  Moves = {"edit", "write", "delete", "config"}
SPECIFICATION Spec
INVARIANT QuietMeansFresh
SYMMETRY JobSymmetry
CHECK_DEADLOCK FALSE
