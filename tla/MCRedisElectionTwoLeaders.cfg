SPECIFICATION Spec
CONSTANTS
  n1 = n1
  n2 = n2
  NoNode = NoNode
  Nodes = {n1, n2}
  UnhealthyTime = 4
  RoundTime = 1
  Settings <- MCFaultySettings
INVARIANT AtMostOneLeader
