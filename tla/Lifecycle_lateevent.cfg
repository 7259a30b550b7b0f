SPECIFICATION FairSpec
CONSTANTS
  MaxSignals = 2
  r1 = r1
  Requests = {r1}
  MaxUpdates = 2
  Faults = {"late_event"}
INVARIANT LastStepsSucceed
CHECK_DEADLOCK FALSE
