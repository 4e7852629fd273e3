CONSTANTS
  Size = 4
  Sizes = {1, 2}
  Aligns = {1}
  FixedAboveCursor = TRUE
SPECIFICATION Spec
INVARIANT NoPageTwice
