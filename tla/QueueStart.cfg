CONSTANTS
  Tickets = {1}
  Agents = {a, b}
  NoAgent = NoAgent
  Pumps = {p1, p2}
  Callers = {c}
  Cap = 1
  Take = 2
SYMMETRY Symmetric
SPECIFICATION SpecBypass
INVARIANTS StartedOnce
CHECK_DEADLOCK FALSE
