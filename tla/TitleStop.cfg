CONSTANTS
  Threads = {}
  Main = Main
  kMaxBoots = 2
  MaxSuspend = 1
  MaxSessions = 1
  JoinCompletes = TRUE
  LateCreation = FALSE
SPECIFICATION FairSpec
PROPERTY StopReturns
CHECK_DEADLOCK FALSE
