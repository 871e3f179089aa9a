SPECIFICATION Spec
CONSTANTS
  m1 = m1
  m2 = m2
  t1 = t1
  t2 = t2
  t3 = t3
  t4 = t4
  A = A
  NoValue = NoValue
  Mutexes = {m1, m2}
  Tokens = {t1, t2, t3, t4}
  Identities = {A}
  TTLs = {2}
  MaxLate = 1
  Coincide = FALSE
SYMMETRY Symmetry
INVARIANT TypeOK
INVARIANT MutualExclusion
INVARIANT LeaseBacked
PROPERTY ImplementsLeaseLock
