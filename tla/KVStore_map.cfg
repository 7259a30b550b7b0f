SPECIFICATION Spec
CONSTANTS
  Keys = {k1}
  NoKey = NoKey
  Values = {v1, v2}
  None = None
  Callers = {c1, c2, c3}
  PendingLimit = 3
INVARIANT TypeOK
INVARIANT CachedWasStored
PROPERTY ImplementsMap
