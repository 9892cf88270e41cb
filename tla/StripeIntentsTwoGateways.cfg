SPECIFICATION Spec
CONSTANTS
  Amounts = {1}
  Rounds = 1
  Legacy = FALSE
  Async = FALSE
  OtherGateway = TRUE
  Edits = FALSE
  LockDrops = FALSE
  Outages = FALSE
  SearchFails = FALSE
  JobCrashes = FALSE
  MaxTries = 1
  Actors = {"mint", "pull"}
INVARIANTS
  CaptureRecorded
CHECK_DEADLOCK FALSE
