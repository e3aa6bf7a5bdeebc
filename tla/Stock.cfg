SPECIFICATION Spec
CONSTANTS
  Products = {1}
  Packages = {1, 2}
  Calls = {c1, c2}
  Deliveries = {1}
  Counts = {0}
  Quantities = {1}
  Limit = 0
  MaxStock = 2
  MaxFaults = 1
  MaxHarm = 0
  Barcodes = {2}
  NoRow = NoRow
  Idle = Idle
SYMMETRY CallSymmetry
INVARIANTS TypeOK NeverOversold LogAccounts GoodsFollowPackages QuotaCounts
CHECK_DEADLOCK FALSE
