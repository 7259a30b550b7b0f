SPECIFICATION Spec
CONSTANTS
  room = room
  hall = hall
  ann = ann
  bob = bob
  w1 = w1
  w2 = w2
  Chats = {room}
  Users = {ann}
  NoOne = NoOne
  Workers = {w1}
  Mentions = {"none"}
  Renamed = {room}
  MaxSent = 2
  Brief = {}
  MaxEdits = 0
  Faults = {"write"}
  PendingLimit = 2
  Prompt = TRUE
INVARIANT CacheIsStored
CHECK_DEADLOCK FALSE
