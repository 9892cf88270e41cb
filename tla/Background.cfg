SPECIFICATION AllSpec
CONSTANTS
  Procs = {"p1", "p2"}
  Jobs = {"emails", "feeds", "reports"}
  Critical = {"emails"}
  Slots = 1
  MaxTokens = 3
  MaxFaults = 2
  Publishers = {"p", "q", "x"}
  StoreOf <- MCStoreOf
  MaxGen = 4
  MaxLoss = 2
  MaxReads = 1
  LeaseLoss = TRUE
  Orders = {"o1", "o2"}
  NUnits = 2
  Price = 1
  Refunds = {"r1", "r2"}
  Keys = {"k1"}
  Issued = 3
  Amounts = {2}
  Failures = 1
INVARIANTS CurrentIsComplete CreditCovered UnitsGivenBackOnce
PROPERTIES LeasesFence AdmissionIsOrderly ChangesAreKept
CHECK_DEADLOCK FALSE
