SPECIFICATION UploadsSpec
CONSTANTS
  Feeds = {"f", "p"}
  Pep = {"p"}
  Start = {1, 2}
  Old = {1}
  Page = 1
  Quiet = {"p"}
  MaxItems = 3
  MaxPending = 1
  MaxPushes = 1
  Embeds = 2
  MaxJobs = 2
  MaxEvents = 3
INVARIANTS JobsEndOnce PostsAreWhole
PROPERTIES MainReturns
CHECK_DEADLOCK FALSE
