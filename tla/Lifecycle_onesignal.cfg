SPECIFICATION FairSpec
CONSTANTS
  MaxSignals = 1
  r1 = r1
  r2 = r2
  Requests = {r1, r2}
  MaxUpdates = 2
  Faults = {}
PROPERTY SignalStops
CHECK_DEADLOCK FALSE
