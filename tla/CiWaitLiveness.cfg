CONSTANTS
  Sweeps = {s1}
  Callers = {c1}
  Editors = {}
  Stamps = {1, 2, 3, 4}
  AlertAfter = 1
  MaxReg = 1
  MaxFails = 2
  MaxAlerts = 1
  MaxResumes = 1
  MaxCrashes = 2
CHECK_DEADLOCK FALSE
SPECIFICATION FairSpec
PROPERTIES WaitEnds
