SPECIFICATION FairSpec
CONSTANTS
  c1 = c1
  c2 = c2
  Packages = {1, 2}
  Worlds <- MCWorlds
  Calls = {c1, c2}
  MaxFees = 1
  MaxRows = 2
  MaxFaults = 1
  Idle = Idle
INVARIANTS TypeOK NotOverRefunded CancelledSettled PriceKept
PROPERTY RefundsPaid
CHECK_DEADLOCK FALSE
