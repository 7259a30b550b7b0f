SPECIFICATION ServiceSpec
CONSTANTS
  ann = ann
  r1 = r1
  r2 = r2
  Users = {ann}
  Requests = {r1}
  Kinds <- UpgradeKinds
  NoKind = NoKind
  MaxSignals = 2
  MaxUpdates = 1
  Faults = {}
INVARIANT PanicIsAnError
CHECK_DEADLOCK FALSE
