SPECIFICATION FairSpec
CHECK_DEADLOCK FALSE
CONSTANTS
  BridgeReasons = {}
  OutputCapacity = 1
  InputCapacity = 1
  EventCapacity = 3
  AdmissionTimeout = 1
  IdleTimeout = 1
  AbsoluteTimeout = 1
  PtyBuffer = 1
  MaxOutput = 2
  None = None
PROPERTIES
  CallerIsAnswered
  EverySessionEnds
