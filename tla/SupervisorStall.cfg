CONSTANTS
  Sweeps = {s1}
  Callers = {}
  MaxRedispatches = 1
  Stale = 2
  Resend = 1
  Probe = 1
  AckTtl = 2
  Quiet = 2
  NackWait = 1
  Transit = 1
  Env = {"ack", "nack", "output", "strand", "pause", "offline"}
SPECIFICATION FairSpec
PROPERTIES StalledReachesHuman
CHECK_DEADLOCK FALSE
