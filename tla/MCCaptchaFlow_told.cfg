SPECIFICATION Spec
CONSTANTS
  ann = ann
  h1 = h1
  Users = {ann}
  Handlers = {h1}
  NoUser = NoUser
  Length = 1
  Buttons <- NoRefresh
  Faults = {"write"}
  MaxGenerated = 2
INVARIANT ToldIsVerified
