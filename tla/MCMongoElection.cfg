SPECIFICATION Spec
CONSTANTS
  n1 = n1
  n2 = n2
  k1 = k1
  k2 = k2
  d1 = d1
  d2 = d2
  NoKey = NoKey
  NoDomain = NoDomain
  Nodes = {n1, n2}
  Keys = {k1, k2}
  Domains = {d1, d2}
  Ahead = {n2}
  Second = {n2}
  Skew <- MCSkew
  MaxSkew = 1
  LateTime = 1
  UnhealthyTime = 5
  RoundTime = 1
  Settings <- MCSettings
INVARIANT LeaderBacked
INVARIANT RunningIsAlive
PROPERTY CloseDeregisters
PROPERTY ClosedStaysOut
