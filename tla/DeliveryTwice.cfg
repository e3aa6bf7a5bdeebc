SPECIFICATION Spec
CONSTANTS
  Packages = {1}
  Worlds <- RichTiktok
  Requests = {r1, r2}
  Kinds <- OnlyDeliver
  DebtMax = 0
  NoCode = NoCode
  Idle = Idle
SYMMETRY RequestSymmetry
INVARIANT DeliveredOnce
CHECK_DEADLOCK FALSE
