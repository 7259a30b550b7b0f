SPECIFICATION Spec
CONSTANTS
  m1 = m1
  m2 = m2
  m3 = m3
  ann = ann
  bob = bob
  Messages = {m1}
  Users = {ann, bob}
  NoUser = NoUser
  Admins = {ann}
  Whitelist = {}
  Blacklist = {}
  Kinds = {"message"}
  Faults = {}
  Others = {}
  IgnoreVia = FALSE
  BufferLimit = 2
INVARIANT StrangersAreSilenced
SYMMETRY Symmetry
CHECK_DEADLOCK FALSE
