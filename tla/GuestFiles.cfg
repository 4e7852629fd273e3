SPECIFICATION Spec
CONSTANTS
  Threads = {t1, t2}
  Names <- MCNames
  Game <- MCGame
  Virtual = {"xex"}
  Content <- MCContent
  Image <- MCImage
  Directory <- MCDirectory
  Root = 0
  Device = "hdd"
  Volume = "volume"
  MaxLen = 2
  MaxFd = 4
  MaxCalls = 4
  MaxFaults = 1
  MaxRestarts = 1
SYMMETRY Symmetry
INVARIANTS TypeOK FdsAreOwned  DeviceReadsBack
CHECK_DEADLOCK FALSE
