SPECIFICATION AllSpec
CONSTANTS
  Amounts = {1}
  Rounds = 1
  Legacy = FALSE
  Async = FALSE
  OtherGateway = FALSE
  Edits = FALSE
  LockDrops = FALSE
  Outages = TRUE
  SearchFails = FALSE
  JobCrashes = FALSE
  MaxTries = 2
  Actors = {"mint", "sweep"}
INVARIANT NoMoneyAfterRelease
PROPERTIES EventuallySettled MoneySurfaces StaleOrderResolved WorkGetsDone ChangesArePublished
CHECK_DEADLOCK FALSE
