SPECIFICATION TalkSpec
CONSTANTS
  Others = {"a", "b"}
  MaxSaid = 3
  MaxVisits = 2
  OriginIds = TRUE
  OccupantIds = TRUE
  Kinds = {"PM", "MUC"}
  Peers = {"d1", "d2"}
  MaxTexts = 2
INVARIANTS
  
  TextIsOnce
  
  StatesAreTrue
PROPERTIES
  ReadIsReceived
CHECK_DEADLOCK FALSE
