SPECIFICATION LiveSpec
CONSTANTS
  Nicks = {a, b, c}
  NoNick = NoNick
  AccountNick = a
  BookmarkNick = b
  MaxPings = 1
  MaxEvents = 3
INVARIANTS
  RoomIsKnown
PROPERTIES
  DropIsNoticed
CHECK_DEADLOCK FALSE
