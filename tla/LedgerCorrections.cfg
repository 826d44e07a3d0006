SPECIFICATION Spec
CONSTANTS
  Sessions = {s1, s2}
  s1 = s1
  s2 = s2
  Operations = {"post", "edit", "delete", "restore", "reverse", "exact", "sync", "remove", "close"}
  Clients = {c1}
  c1 = c1
  Documents = {k1}
  k1 = k1
  Dates = {1}
  Amounts = {1, 2}
  MaxVouchers = 3
SYMMETRY SessionSymmetry
INVARIANT TypeOK
INVARIANT NumbersGapless
INVARIANT PostedOnce
INVARIANT ReversalMirrors
CHECK_DEADLOCK FALSE
PROPERTY ImplementsSerialBooks
