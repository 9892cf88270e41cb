SPECIFICATION AllSpec
CONSTANTS
  Emails = {"e1", "e2"}
  Webhooks = {"w1"}
  Pushes = {"p1"}
  Scheduled = {"s1", "s2"}
  Wakers = {"k1"}
  BatchLimit = 2
  MaxAttempts = 2
  MaxCrashes = 1
  MaxSlow = 1
CONSTRAINT Young
PROPERTIES RefundsBalance CapturesAccounted ClaimsDecide
CHECK_DEADLOCK FALSE
