CONSTANTS
  t1 = t1  t2 = t2
  autoEv = autoEv  sem = sem  mut = mut  tm = tm  autoTm = autoTm
  Threads = {t1, t2}
  Events = {}
  SyncEvents = {autoEv}
  NtObjects = {autoEv}
  MaxTime = 1
  Semaphores = {sem}
  Mutants = {mut}
  Timers = {}
  SyncTimers = {autoTm}
  WaitArrays <- RaceArrays
  MaxCount = 2
SPECIFICATION Spec
INVARIANTS  NoSleeperMissesSignal
 
CHECK_DEADLOCK FALSE
SYMMETRY ThreadSymmetry
