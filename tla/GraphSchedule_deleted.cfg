CONSTANTS
  a = a
  b = b
  c = c
  Files = {a, b, c}
  Order <- InOrder
  Deps = {}
  Imports <- Chain
  BatchSize = 1
  Missing = {}
  Queries = {}
  Modes <- AutoOnly
  Moves = {"delete"}
  Start = "steady"
  MaxChanges = 1
SPECIFICATION FairSpec
PROPERTY BackgroundEnds
CHECK_DEADLOCK FALSE
