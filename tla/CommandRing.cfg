SPECIFICATION Spec
CONSTANTS
  RingDwords = 16
  RingBase = 16
  WriteBackAt = 56
  Image <- MCImage
  Headers <- MCHeaders
  Packets <- RingPackets
  GuestStores <- MCStores
  FrontBuffers <- MCFrontBuffers
  UpdateEvery = 2
  MaxSpins = 1
  MaxPackets <- RingBounds
  ClearsPointer = TRUE
  ResetWhileBusy = FALSE
INVARIANTS TypeOK PacketsOnceInOrder ReportedIsExecuted SwapMatchesItsFetch
PROPERTIES PublishedIsExecuted 
CHECK_DEADLOCK FALSE
