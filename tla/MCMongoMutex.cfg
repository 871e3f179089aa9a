SPECIFICATION Spec
CONSTANTS
  m1 = m1
  m2 = m2
  A = A
  NoIdentity = NoIdentity
  NoOwner = NoOwner
  Mutexes = {m1, m2}
  Identities = {A}
  TTLs = {2}
  Skew <- MCSkew
  MaxSkew = 1
  Ahead = {m2}
  Grace = 0
  MaxTime = 4
  Settings <- MCSettings
INVARIANT TypeOK
INVARIANT MutualExclusion
INVARIANT LeaseBacked
PROPERTY UnlockRemovesOwn
PROPERTY ImplementsLeaseLock
