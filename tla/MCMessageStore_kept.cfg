SPECIFICATION Spec
CONSTANTS
  room = room
  hall = hall
  ann = ann
  bob = bob
  w1 = w1
  w2 = w2
  Chats = {room, hall}
  Users = {ann}
  NoOne = NoOne
  Workers = {w1, w2}
  Mentions = {"none"}
  Renamed = {hall}
  MaxSent = 2
  Brief = {hall}
  MaxEdits = 1
  Faults = {"write", "crash"}
  PendingLimit = 1
  Prompt = FALSE
INVARIANT TypeOK
INVARIANT StoredIsKept
INVARIANT ReferencesAreStored
PROPERTY CommitsItsOwn
SYMMETRY Symmetry
CHECK_DEADLOCK FALSE
