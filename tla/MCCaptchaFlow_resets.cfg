SPECIFICATION Spec
CONSTANTS
  ann = ann
  h1 = h1
  Users = {ann}
  Handlers = {h1}
  NoUser = NoUser
  Length = 2
  Buttons <- NoRefresh
  Faults = {}
  MaxGenerated = 1
PROPERTY PressResetsExpiration
