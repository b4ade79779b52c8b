SPECIFICATION StreamsSpec
CONSTANTS
  BaseDelay = 5
  MaxDelay = 120
  SyncFailures = TRUE
  CSI = {TRUE, FALSE}
  Kinds = {"fresh", "resumed"}
  MaxWire = 3
  TypesOffline = TRUE
  Wrap = 7
  MaxSent = 12
  MaxInFlight = 3
  MaxAcks = 2
  MaxResumes = 1
  Ext = {"sm", "csi"}
  MaxConnects = 4
  MaxElements = 2
  Volunteers = {"r", "inactive", "lost"}
INVARIANTS StaysDown Attended CSIAgrees
PROPERTIES LossIsRetried KeyEndsIdle AckTrimsHandled OneStreamPerExtension
CHECK_DEADLOCK FALSE
