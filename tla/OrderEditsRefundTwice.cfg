CONSTANTS
    Admins = {a1, a2}
    Keys = {k1, k2}
    Deltas = {0, 2}
    Shift = 1
    Total0 = 4
    MaxRetries = 2
    Drops = TRUE
SPECIFICATION EditSpec
INVARIANT EditRefundsAreOwed
CHECK_DEADLOCK FALSE
