SPECIFICATION Spec
CONSTANTS
  HeapBase = 1
  HeapSize = 4
  Threads = {t1, t2}
  Modules <- MCModules
  Preferred <- MCPreferred
  Span <- MCSpan
  RegionBase = 5
  RegionSize = 3
  Sizes = {1, 2}
  Aligns = {1, 2}
  MaxBoots = 2
INVARIANTS PoolIsExclusive FreeRangesAreMaximal FoundIsWhole OldImagesAreZeroed
SYMMETRY Symmetry
