SPECIFICATION Spec
CONSTANTS
  ann = ann
  h1 = h1
  h2 = h2
  Users = {ann}
  Handlers = {h1, h2}
  NoUser = NoUser
  Length = 1
  Buttons <- NoRefresh
  Faults = {}
  MaxGenerated = 2
INVARIANT OneLiveCaptcha
