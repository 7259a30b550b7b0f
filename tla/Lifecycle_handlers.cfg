SPECIFICATION FairSpec
CONSTANTS
  MaxSignals = 2
  r1 = r1
  r2 = r2
  Requests = {r1, r2}
  MaxUpdates = 2
  Faults = {}
INVARIANT HandlersFinish
CHECK_DEADLOCK FALSE
