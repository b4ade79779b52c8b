SPECIFICATION LiveSpec
CONSTANTS
  PMs = {"p"}
  Rooms = {"r"}
  MaxConcurrent = 1
  MaxArchive = 2
  MaxEvents = 2
INVARIANTS FetchesAreTracked
PROPERTIES NothingIsPassed NothingOvertakes CatchupEnds
CHECK_DEADLOCK FALSE
