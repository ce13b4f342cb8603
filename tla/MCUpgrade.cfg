SPECIFICATION UpgradeSpec
CHECK_DEADLOCK FALSE
CONSTANTS
  QueueCapacity = 1
  OutputCapacity = 1
  InputCapacity = 1
  Faults = {"ProtocolViolation"}
  MaxOutput = 2
  MaxMessages = 2
  None = None
  Texts <- MCTexts
  Sizes <- MCSizes
  HANDSHAKE_DEADLINE = 2
INVARIANTS
  SentInOrder
  BridgeOutlivesSession
  SilentClientGetsEverything
  RefusalsAreRecorded
  TextsMeanOneThing
PROPERTY
  ConnectionEnds
