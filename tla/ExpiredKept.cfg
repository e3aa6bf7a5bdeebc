SPECIFICATION Spec
CONSTANTS
  c1 = c1
  c2 = c2
  Packages = {1}
  Worlds <- OneTiktok
  Calls = {c1, c2}
  MaxFees = 0
  MaxRows = 1
  MaxFaults = 0
  Idle = Idle
INVARIANT ExpiredRefunded
CHECK_DEADLOCK FALSE
