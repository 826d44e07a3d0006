SPECIFICATION Spec
CONSTANTS
  Sessions = {s1, s2}
  s1 = s1
  s2 = s2
  Operations = {"post", "edit", "delete", "restore", "close", "reopen"}
  Clients = {c1}
  c1 = c1
  Documents = {}
  Dates = {1, 2}
  Amounts = {1}
  MaxVouchers = 3
SYMMETRY SessionSymmetry
INVARIANT BooksClosedAtZero
PROPERTY ClosedBooksFrozen
CHECK_DEADLOCK FALSE
