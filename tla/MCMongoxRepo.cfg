SPECIFICATION Spec
CONSTANTS
  c1 = c1
  c2 = c2
  A = A
  B = B
  None = None
  NoDoc = NoDoc
  Callers = {c1, c2}
  Names = {A, B}
  IDs = {1, 2}
  PageSize = 1
  PerInstant = 1
  MaxOps = 4
  Owners = {A}
  Repos <- MCRepos

INVARIANT FeedComplete
PROPERTY NoLostUpdate
PROPERTY OutOfReach
