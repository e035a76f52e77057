CONSTANTS
  Size = 2
  Calls = {c1, c2, c3, c4}
  MaxCrashes = 1
  MayTerminate = TRUE
SPECIFICATION FairSpec
INVARIANTS TypeOK WorkersServeOneCall
PROPERTIES ImplementsSlots ParsesSettle
CHECK_DEADLOCK FALSE
