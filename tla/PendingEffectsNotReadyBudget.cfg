SPECIFICATION Spec
CONSTANTS
  Ops = {o1}
  LocalKinds = {"license_extend", "loyalty_earn"}
  ExternalKinds = {}
  w1 = w1
  w2 = w2
  Workers = {w1, w2}
  Registered <- MCRegistered
  MaxAttempts = 2
  BatchLimit = 2
  MaxNotReady = 2
  MaxFaults = 0
INVARIANTS
  NotReadyKeepsBudget
CHECK_DEADLOCK FALSE
