CONSTANTS
  Tickets = {a, b, c}
  Jobs = {j1}
SYMMETRY Symmetric
SPECIFICATION Spec
INVARIANTS TypeOK NoneStranded BlockedIsParked Acyclic ResumedIsFree
CHECK_DEADLOCK FALSE
