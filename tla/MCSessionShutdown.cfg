CONSTANTS
  Identities = {u1, u2}
  Requests = {r1}
  Connections = {c1, c2}
  MaxSessions = 2
  MaxSessionsPerUser = 1
  TicketCapacity = 1
  TTL = 1
  MaxTime = 1
  None = None
SPECIFICATION FairSpec
CHECK_DEADLOCK FALSE
PROPERTIES
  ImplementsSlots
  ShutdownReturns
  CallersAreAnswered
