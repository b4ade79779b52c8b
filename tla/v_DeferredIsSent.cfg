SPECIFICATION Spec
CONSTANTS
  MaxStanzas = 3
  MaxInbound = 0
  MaxConnects = 3
  MaxWire = 2
  MaxEnds = 0
  Advertises = {TRUE}
  Replies = {"resumable","plain","failed"}
  ServerFaults = {"expire"}
CHECK_DEADLOCK FALSE
PROPERTIES DeferredIsSent
