SPECIFICATION Spec
CONSTANTS
  ann = ann
  h1 = h1
  h2 = h2
  Users = {ann}
  Handlers = {h1, h2}
  NoUser = NoUser
  Length = 2
  Buttons <- AllButtons
  Faults = {}
  MaxGenerated = 2
INVARIANT PhotoShowsStoredCode
