SPECIFICATION Spec
CONSTANTS
  FileTrees <- MCFileTrees
  Assignments <- MCAssignments
  Sensitive <- MCSensitive
  Required <- MCRequired
INVARIANT LastSourceWins
INVARIANT SecretsContained
INVARIANT TypeKept
CHECK_DEADLOCK FALSE
