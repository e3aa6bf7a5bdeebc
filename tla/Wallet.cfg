SPECIFICATION AuditSpec
CONSTANTS
  u1 = u1
  p1 = p1
  p2 = p2
  f1 = f1
  f2 = f2
  r1 = r1
  r2 = r2
  Users = {u1}
  Packages = {p1,p2}
  Owner <- MCOwner
  Requests = {r1,r2}
  FeeIds = {f1,f2}
  Days <- MCDays
  FirstDays <- Mornings
  Prices <- MCPrices
  FeeAmounts <- MCAmounts
  Deposits <- MCDeposits
  Cancellable <- MCCancellable
  MaxMoney = 2
  MaxLog = 3
  NoBill = NoBill
  NoRow = NoRow
  Idle = Idle
SYMMETRY RowSymmetry
INVARIANTS TypeOK BillMatchesPayments BillMatchesRows DebtTimeTracksDebt
PROPERTY ImplementsLedger
CHECK_DEADLOCK FALSE
