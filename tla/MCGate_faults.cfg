SPECIFICATION Spec
CONSTANTS
  m1 = m1
  m2 = m2
  m3 = m3
  ann = ann
  bob = bob
  cat = cat
  Messages = {m1, m2}
  Users = {ann, bob, cat}
  NoUser = NoUser
  Admins = {ann}
  Whitelist = {}
  Blacklist = {cat}
  Kinds <- AllKinds
  Faults <- AllFaults
  Others = {"api", "time"}
  IgnoreVia = TRUE
  BufferLimit = 1
INVARIANT TypeOK
INVARIANT StoredIsTrusted
INVARIANT AskedIsNotBanned
INVARIANT HandledIsSilenced
SYMMETRY Symmetry
CHECK_DEADLOCK FALSE
