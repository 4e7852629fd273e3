CONSTANTS
  Size = 9
  Sizes = {1, 2, 4}
  Aligns = {1, 4}
  FixedAboveCursor = FALSE
SPECIFICATION Spec
INVARIANTS PagesAccounted FixedRequestsAreExact RegionsAreTrue
PROPERTY EveryGrantIsExclusive
