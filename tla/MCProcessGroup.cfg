SPECIFICATION FairSpec
CHECK_DEADLOCK FALSE
CONSTANTS
  Leader = leader
  Others = {p, q, r}
  Setuid = {leader, q}
  MaxReuse = 2
INVARIANTS
  StrangersAreSafe
  FinalSignalIsEnough
  ProvenMeansGone
PROPERTIES
  CleanupFinishes
