SPECIFICATION OmemoSpec
CONSTANTS
  Devices = {d1}
  EchoesErrors = TRUE
  OwnBundle = TRUE
  MaxKey = 2
  MaxQueue = 1
  MaxEvents = 3
  Peers = {p, q}
  Count = 2
  MinCount = 1
  MaxId = 20
  MaxCrashes = 1
  MaxConnects = 4
INVARIANTS
  
  SessionIsOfIdentity
  RecoveryFollows
  PublishedIsHeld
PROPERTIES
  UsedIsReplaced
CHECK_DEADLOCK FALSE
