CONSTANTS
  Tickets = {1, 2}
  Agents = {a, b}
  NoAgent = NoAgent
  Pumps = {p1}
  Callers = {}
  Cap = 1
  Take = 2
SPECIFICATION FairSpec
INVARIANTS TypeOK Capacity
PROPERTIES QueueDrains
CHECK_DEADLOCK FALSE
