CONSTANTS
  Sweeps = {s1, s2}
  Callers = {c1}
  Editors = {}
  Stamps = {1, 2, 3, 4}
  AlertAfter = 1
  MaxReg = 2
  MaxFails = 1
  MaxAlerts = 1
  MaxResumes = 2
  MaxCrashes = 1
CHECK_DEADLOCK FALSE
SYMMETRY SweepSymmetry
SPECIFICATION Spec
INVARIANTS DeliveredAtMostOnce OneFate AlertedIsPosted
PROPERTIES ClearedByItsOwnDelivery ImplementsExactlyOnce
