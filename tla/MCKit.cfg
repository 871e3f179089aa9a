SPECIFICATION Spec
CHECK_DEADLOCK FALSE
CONSTANTS
  None = None
  Procs = {p, q}
  Numbers = {0, 1}
  Lease = 2
  TTL = 2
  Timeouts = {3}
  Unit = 2
  PerUnit = 2
  MaxTime = 3
  MaxRestarts = 1
  MaxIDs = 2
  MaxCalls = 2
CONSTRAINT Apart
INVARIANTS
  ClaimsExclusive
  IDsUnique
  ActionsExclusive
  NilMeansReleased
PROPERTIES
  KeepsLeaseLock
  HelperReturns
