SPECIFICATION Spec
CONSTANTS
  room = room
  hall = hall
  ann = ann
  bob = bob
  w1 = w1
  w2 = w2
  Chats = {room}
  Users = {ann}
  NoOne = NoOne
  Workers = {w1, w2}
  Mentions = {"none"}
  Renamed = {}
  MaxSent = 1
  Brief = {}
  MaxEdits = 1
  Faults = {}
  PendingLimit = 2
  Prompt = TRUE
INVARIANT LastEditIsStored
CHECK_DEADLOCK FALSE
