SPECIFICATION AllSpec
CONSTANTS
  Carts = {x1, x2}
  Orders = {o1, o2}
  Clients = {c1, c2}
  Keys = {k1, k2}
  MaxUnits = 2
  MaxRev = 3
SYMMETRY RowSymmetry
CONSTRAINT Bounded
INVARIANTS UnitsAddUp CartsAndOrdersAgree
PROPERTIES ConvertedCartIsFrozen SeatsFollowAdmissions KeysFollowMoney
CHECK_DEADLOCK FALSE
