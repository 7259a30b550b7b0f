SPECIFICATION Spec
CONSTANTS
  m1 = m1
  m2 = m2
  m3 = m3
  ann = ann
  bob = bob
  Messages = {m1}
  Users = {ann, bob}
  NoUser = NoUser
  Admins = {ann}
  Whitelist = {}
  Blacklist = {}
  Kinds = {"message"}
  Faults = {}
  Others = {"api"}
  IgnoreVia = FALSE
  BufferLimit = 2
PROPERTY KickedIsBanned
CHECK_DEADLOCK FALSE
