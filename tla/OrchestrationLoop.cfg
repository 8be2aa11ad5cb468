CONSTANTS
  Steps <- GateSteps
  Order <- GateOrder
  Edges <- GateEdges
  Assignee <- GateAssignee
  AnyJoin = {"deploy"}
  Gates = {"gate"}
  Manual = {"deploy"}
  Verdicts = {"pass", "fail"}
  Workers = {"w1", "w2"}
  NoWorker = "nobody"
  MaxParallel = 2
  Budget = 3
  MaxAttempts = 2
  MaxVisits = 2
  MaxPlans = 1
  NudgeLimit = 1
  MaxEdits = 1
  MaxCrashes = 1
SPECIFICATION Spec
INVARIANTS TypeOK Capacity OrdersAreCounted ResultOfThisPass EndedMeansIdle
PROPERTIES BudgetKept Fenced ManualRunsOnce
CHECK_DEADLOCK FALSE
