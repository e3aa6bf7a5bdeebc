SPECIFICATION FairSpec
CONSTANTS
  Packages = {1, 2}
  Worlds <- NoFaults
  Requests = {r1, r2}
  Kinds <- CustomerKinds
  DebtMax = 1
  NoCode = NoCode
  Idle = Idle
PROPERTY MarksGo
CHECK_DEADLOCK FALSE
