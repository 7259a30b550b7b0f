SPECIFICATION Spec
CONSTANTS
  ann = ann
  c1 = c1
  Users = {ann}
  Callers = {c1}
  NoUser = NoUser
  Calls <- Methods
  PendingLimit = 2
INVARIANT BannedIsNotRecognised
