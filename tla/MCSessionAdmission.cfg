CONSTANTS
  Identities = {u1, u2}
  Requests = {r1, r2}
  Connections = {c1, c2}
  MaxSessions = 2
  MaxSessionsPerUser = 1
  TicketCapacity = 1
  TTL = 1
  MaxTime = 2
  None = None
SPECIFICATION Spec
SYMMETRY Symmetry
CHECK_DEADLOCK FALSE
INVARIANTS
  ProcessesWithinLimits
  ReservationOwnedOnce
  LeasesAreAccounted
  TicketGrantsOneOwner
  ShutdownLeavesNothing
PROPERTIES
  LimitRefusalJustified
