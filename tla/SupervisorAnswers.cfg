CONSTANTS
  Sweeps = {s1}
  Callers = {c}
  MaxRedispatches = 1
  Stale = 1
  Resend = 1
  Probe = 1
  AckTtl = 1
  Quiet = 2
  NackWait = 1
  Transit = 6
  Env = {"ack", "replay", "user", "nack", "progress"}
SPECIFICATION Spec
INVARIANTS TypeOK
PROPERTIES StaleAckNeverRenews ParkRespectsProgress
CHECK_DEADLOCK FALSE
