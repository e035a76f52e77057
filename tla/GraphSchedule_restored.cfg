CONSTANTS
  a = a
  b = b
  c = c
  Files = {a, b, c}
  Order <- InOrder
  Deps = {}
  Imports <- Chain
  BatchSize = 1
  Missing = {}
  Queries = {}
  Modes <- AutoOnly
  Moves = {"edit"}
  Start = "restored"
  MaxChanges = 1
SPECIFICATION Spec
INVARIANT CompleteIsTrue
CHECK_DEADLOCK FALSE
