SPECIFICATION Spec
CHECK_DEADLOCK FALSE
SYMMETRY Symmetry
CONSTANTS
  Requests = {r1, r2, r3}
  Peers = {p1, p2}
  Trusted = {p1}
  p2 = p2
  Identities = {i1}
  r1 = r1
  r2 = r2
  r3 = r3
  p1 = p1
  i1 = i1
  FailureLimit = 1
  SessionLimit = 1
  MaxSessions = 2
  MaxTokens = 3
  MaxWindows = 1
  Unknown = Unknown
  Twice = Twice
  None = None
INVARIANTS
  AnswersAreRecorded
  SlotsAreAccounted
  TornRecordIsLast
PROPERTY
  NoAuthorityAfterFailure
