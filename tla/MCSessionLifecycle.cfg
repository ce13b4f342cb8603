SPECIFICATION Spec
CHECK_DEADLOCK FALSE
CONSTANTS
  BridgeReasons = {Explicit}
  OutputCapacity = 1
  InputCapacity = 1
  EventCapacity = 3
  AdmissionTimeout = 1
  IdleTimeout = 1
  AbsoluteTimeout = 2
  PtyBuffer = 1
  MaxOutput = 2
  None = None
INVARIANTS
  SlotOutlivesSession
  RecordsBracketTheSession
PROPERTIES
  ReasonsAreTrue
  KeepsToAdmission
