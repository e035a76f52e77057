CONSTANTS
  a = a
  b = b
  c = c
  Files = {a, b, c}
  Order <- InOrder
  Deps = {c}
  Imports <- Triangle
  BatchSize = 2
  Missing = {}
  Queries = {q1, q2}
  Modes <- AllModes
  Moves = {"edit", "create", "delete", "config", "reload", "rebuild"}
  Start = "steady"
  MaxChanges = 3
SPECIFICATION RunsSpec
INVARIANTS GraphIsCurrent QueueIsDriven
PROPERTY BackgroundAndDrainsEnd
CHECK_DEADLOCK FALSE
