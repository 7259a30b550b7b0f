SPECIFICATION Spec
CONSTANTS
  ann = ann
  bob = bob
  h1 = h1
  Users = {ann, bob}
  Handlers = {h1}
  NoUser = NoUser
  Length = 1
  Buttons <- NoRefresh
  Faults = {}
  MaxGenerated = 2
INVARIANT DropsItsOwn
