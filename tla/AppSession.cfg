SPECIFICATION Spec
CONSTANTS
  Windows = {w1, w2}
  NoWindow = NoWindow
  NoThread = NoThread
  Threads <- MCThreads
  MaxEvents = 7
  LossDuringBoot = FALSE
INVARIANTS SessionIsWhole 
PROPERTIES  BackendPromise
CHECK_DEADLOCK FALSE
