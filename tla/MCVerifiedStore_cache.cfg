SPECIFICATION FairSpec
CONSTANTS
  ann = ann
  c1 = c1
  c2 = c2
  c3 = c3
  Users = {ann}
  Callers = {c1, c2, c3}
  NoUser = NoUser
  Calls <- Methods
  PendingLimit = 2
INVARIANT TypeOK
INVARIANT CacheInv
INVARIANT Exclusive
PROPERTY FalseYesIsForgotten
