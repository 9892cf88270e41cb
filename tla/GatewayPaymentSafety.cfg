SPECIFICATION KindSpec
CONSTANTS
  Attempts = {a1, a2}
  Methods = {"nmi", "sezzle"}
  Reservable = FALSE
  Total = 1
  MaxTries = 1
  MaxEventTries = 1
  MaxFaults = 1
SYMMETRY AttemptSymmetry
CHECK_DEADLOCK FALSE
INVARIANTS
  TypeOK
  MoneyAccounted
  AttemptMatchesLedger
  NoStrayCharge
  PaidHasGoods
  ReleaseIsSafe
PROPERTIES
  SettledSticks
  DecisionFinal
