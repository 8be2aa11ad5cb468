CONSTANTS
  Slots = {d1, d2, d3}
  NoSlot = NoSlot
  Valve = 3
SPECIFICATION FairSpec
INVARIANTS TypeOK SoleWorker SeatIsOwned
PROPERTIES CapturedIsReplayed
