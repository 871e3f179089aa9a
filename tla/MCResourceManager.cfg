SPECIFICATION Spec
CHECK_DEADLOCK FALSE
CONSTANTS
  None = None
  caller = caller
  downloader = downloader
  here = here
  there = there
  Callers = {caller, downloader}
  Downloaders = {downloader}
  Jobs <- MCJobs
  Instances <- MCInstances
  Ms = 2
  Width = 3
  DefaultQuota = 4
  DefaultAttempts = 3
  HopDefault = 6
  HopMax = 7
  MaxTime = 4
  Sizes = {0, 2, 3}
  Registered = {"http"}
  Buffer = 2
  MaxBytes = 2
  DataMaxBytes = 3
CONSTRAINT Apart
INVARIANTS
  SentAtMost
  BudgetPassedOn
  NothingLeaked
  SuccessIsFresh
  PickIsCallable
  AllOrNothing
PROPERTIES
  EverythingReturns
