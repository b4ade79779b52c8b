SPECIFICATION Spec
CONSTANTS
  MaxArchive = 3
  MaxEvents = 3
  Delay = 2
  OriginIds = TRUE
  MarkableEdits = FALSE
INVARIANTS
  
  
  MarkedOnce
PROPERTIES
  ReadMeansSeen
CHECK_DEADLOCK FALSE
