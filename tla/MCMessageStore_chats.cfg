SPECIFICATION Spec
CONSTANTS
  room = room
  hall = hall
  ann = ann
  bob = bob
  w1 = w1
  w2 = w2
  Chats = {room, hall}
  Users = {ann}
  NoOne = NoOne
  Workers = {w1}
  Mentions = {"none"}
  Renamed = {}
  MaxSent = 1
  Brief = {}
  MaxEdits = 0
  Faults = {}
  PendingLimit = 2
  Prompt = TRUE
INVARIANT StoredStaysOwn
CHECK_DEADLOCK FALSE
