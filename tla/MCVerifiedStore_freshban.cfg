SPECIFICATION Spec
CONSTANTS
  ann = ann
  c1 = c1
  c2 = c2
  Users = {ann}
  Callers = {c1, c2}
  NoUser = NoUser
  Calls <- Methods
  PendingLimit = 2
PROPERTY ActiveBanStands
