CONSTANTS
  t1 = t1  t2 = t2
  autoEv = autoEv  sem = sem  mut = mut  tm = tm  autoTm = autoTm
  Threads = {t1, t2}
  Events = {}
  SyncEvents = {autoEv}
  NtObjects = {autoEv}
  MaxTime = 1
  Semaphores = {}
  Mutants = {}
  Timers = {tm}
  SyncTimers = {}
  WaitArrays <- LivenessArrays
  MaxCount = 1
SPECIFICATION FairSpec
PROPERTIES TimedWaitReturns StopReachesSleepers SignalIsTaken
CHECK_DEADLOCK FALSE
