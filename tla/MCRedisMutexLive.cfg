SPECIFICATION FairSpec
CONSTANTS
  m1 = m1
  m2 = m2
  t1 = t1
  t2 = t2
  t3 = t3
  NoValue = NoValue
  Mutexes = {m1, m2}
  Tokens = {t1, t2, t3}
  Identities = {}
  TTLs = {1}
  MaxLate = 0
  Coincide = FALSE
PROPERTY LockReturns
