SPECIFICATION Spec
CONSTANTS
  room = room
  hall = hall
  ann = ann
  bob = bob
  w1 = w1
  w2 = w2
  Chats = {room}
  Users = {ann}
  NoOne = NoOne
  Workers = {w1}
  Mentions = {"none", "self"}
  Renamed = {}
  MaxSent = 2
  Brief = {}
  MaxEdits = 0
  Faults = {}
  PendingLimit = 2
  Prompt = TRUE
PROPERTY SeenStaysSeen
CHECK_DEADLOCK FALSE
