CONSTANTS
  Keys = {"k1"}
  MaxLimits = 2
  MaxPids = 3
  MaxCrashes = 1
SPECIFICATION FairSpec
INVARIANTS TypeOK LostOnlyIfOvertaken NoTwin
PROPERTIES DeferredWorkResumes
CHECK_DEADLOCK FALSE
