SPECIFICATION Spec
CONSTANTS
  c1 = c1
  c2 = c2
  Users = {u1, u2}
  Ids = {t1, t2}
  Calls = {c1, c2}
  Amounts <- MCAmounts
  MaxLog = 4
  NoRow = NoRow
  Idle = Idle
SYMMETRY CallSymmetry
INVARIANTS TypeOK DecidedOnce
PROPERTY ImplementsLedger
CHECK_DEADLOCK FALSE
