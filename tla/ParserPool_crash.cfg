CONSTANTS
  Size = 2
  Calls = {c1, c2, c3}
  MaxCrashes = 1
  MayTerminate = FALSE
SPECIFICATION FairSpec
PROPERTY EveryParseSettles
CHECK_DEADLOCK FALSE
