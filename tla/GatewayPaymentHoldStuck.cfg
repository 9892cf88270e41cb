SPECIFICATION FairSpec
CONSTANTS
  Attempts = {a1}
  Methods = {"nmi", "sezzle"}
  Reservable = TRUE
  Total = 1
  MaxTries = 2
  MaxEventTries = 2
  MaxFaults = 1
CHECK_DEADLOCK FALSE
PROPERTIES
  HoldGivenBack
