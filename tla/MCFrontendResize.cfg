SPECIFICATION Spec
CHECK_DEADLOCK FALSE
CONSTANTS
  Sizes = {small, large}
  small = small
  large = large
  OutputLimit = 2
  MaxGeneration = 3
  MaxTyped = 0
  MaxResizes = 3
  MaxFrames = 0
  None = None
INVARIANT
  LatestSizeIsSent
