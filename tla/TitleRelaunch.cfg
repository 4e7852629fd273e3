CONSTANTS
  Threads = {t1, t2}
  Main = Main
  kMaxBoots = 2
  MaxSuspend = 2
  MaxSessions = 1
  JoinCompletes = TRUE
  LateCreation = FALSE
SPECIFICATION Spec
INVARIANTS NoStrayThread NoJoinableDestroyed GuestThreadIdsDistinct  RelaunchOnlyIfAsked
SYMMETRY ThreadSymmetry
CHECK_DEADLOCK FALSE
