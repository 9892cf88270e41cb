SPECIFICATION Spec
CONSTANTS
  Ops = {o1}
  LocalKinds = {"license_issue", "loyalty_earn"}
  ExternalKinds = {}
  w1 = w1
  w2 = w2
  Workers = {w1, w2}
  Registered <- MCRegistered
  MaxAttempts = 2
  BatchLimit = 2
  MaxNotReady = 0
  MaxFaults = 0
INVARIANTS
  RankedInEveryMode
CHECK_DEADLOCK FALSE
