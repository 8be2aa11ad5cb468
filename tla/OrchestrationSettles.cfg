CONSTANTS
  Steps <- GateSteps
  Order <- GateOrder
  Edges <- GateEdges
  Assignee <- GateAssignee
  AnyJoin = {"deploy"}
  Gates = {"gate"}
  Manual = {"deploy"}
  Verdicts = {"pass", "fail"}
  Workers = {"w1"}
  NoWorker = "nobody"
  MaxParallel = 2
  Budget = 3
  MaxAttempts = 2
  MaxVisits = 2
  MaxPlans = 1
  NudgeLimit = 1
  MaxEdits = 0
  MaxCrashes = 1
SPECIFICATION FairSpec
PROPERTIES MissionSettles
CHECK_DEADLOCK FALSE
