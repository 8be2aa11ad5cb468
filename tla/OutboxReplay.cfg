CONSTANTS
  Cap = 2
  MaxAttempts = 2
  MaxMessages = 3
  MaxCrashes = 1
SPECIFICATION FairSpec
INVARIANTS TypeOK LostOnlyAfterOverflow InOrder
PROPERTIES EveryMessageLeaves
CHECK_DEADLOCK FALSE
