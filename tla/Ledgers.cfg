SPECIFICATION AllSpec
CONSTANTS
  Admins = {a1, a2}
  Keys = {k1, k2}
  Deltas = {0, 2}
  Shift = 1
  Total0 = 3
  MaxRetries = 1
  Drops = TRUE
  Licences = {1}
  Orders = {2, 3}
  Reservations = {4}
  Tx = {"t1", "t2", "t3"}
  MustCommit = {"t1"}
  Bare = {"t3"}
  MaxRestarts = 1
  InTx = FALSE
  NoTx = "none"
SYMMETRY EditSymmetry
INVARIANTS PointsBalance EditsSettleExactly WaitsUpward
PROPERTY SetsHold
CHECK_DEADLOCK FALSE
