SPECIFICATION FormsSpec
CONSTANTS
  Modes = {"m"}
  Sessions = {"s"}
  Stages = 2
  Passwords = {"p", "q"}
  MaxPending = 2
  MaxTries = 3
INVARIANTS FormIsCurrent AccountIsRegistered 
CHECK_DEADLOCK FALSE
