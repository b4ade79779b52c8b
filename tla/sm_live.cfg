SPECIFICATION LiveSpec
CONSTANTS
  MaxStanzas = 2
  MaxInbound = 0
  MaxConnects = 3
  MaxWire = 2
  MaxEnds = 0
  Advertises = {TRUE,FALSE}
  Replies = {"resumable","plain","failed"}
  ServerFaults = {"expire","forget","overack"}
CHECK_DEADLOCK FALSE
PROPERTIES EveryStanzaArrives SetupRuns
