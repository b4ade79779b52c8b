SPECIFICATION Spec
CONSTANTS
  MaxStanzas = 4
  MaxInbound = 1
  MaxConnects = 3
  MaxWire = 2
  MaxEnds = 1
  Advertises = {TRUE,FALSE}
  Replies = {"resumable","plain","failed"}
  ServerFaults = {"expire"}
CHECK_DEADLOCK FALSE
INVARIANTS Inductive HandledOnce
PROPERTIES SessionPromise
