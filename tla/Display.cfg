SPECIFICATION DisplaySpec
CONSTANTS
  Windows = {w1}
  NoWindow = NoWindow
  NoSize = NoSize
  Clear = Clear
  Sizes <- MCSizes
  Images <- MCImages
  Fronts <- MCFronts
  MaxFailures = 1
  MaxPending = 2
INVARIANTS  NoFenceIsStuck OneFramePerSlot
PROPERTIES BackendPromise
