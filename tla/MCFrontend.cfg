SPECIFICATION FairSpec
CHECK_DEADLOCK FALSE
CONSTANTS
  Sizes = {small, large}
  small = small
  large = large
  OutputLimit = 2
  MaxGeneration = 5
  MaxTyped = 1
  MaxResizes = 2
  MaxFrames = 4
  None = None
INVARIANTS
  OneConnectionAtATime
  PageMatchesConnection
PROPERTIES
  AttemptsEnd
