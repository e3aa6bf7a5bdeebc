SPECIFICATION Spec
CONSTANTS
  Packages = {1, 2}
  Worlds <- MCWorlds
  Requests = {r1, r2}
  Kinds <- AllKinds
  DebtMax = 1
  NoCode = NoCode
  Idle = Idle
SYMMETRY RequestSymmetry
INVARIANTS TypeOK ChargedOnce NoOverdraft NoneLocked
PROPERTY LabelledOnce
CHECK_DEADLOCK FALSE
