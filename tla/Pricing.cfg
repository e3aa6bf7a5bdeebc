SPECIFICATION Spec
CONSTANTS
  Promotions = {1, 2}
  Users = {u1, u2}
  Calls = {c1, c2}
  Forms <- MCForms
  Choices = {"Active", "Draft"}
  Hidden = {u2}
  MaxVersion <- MCVersions
  MaxFaults = 1
  MaxHarm = 0
  List = List
  Torn = Torn
  Idle = Idle
SYMMETRY CallSymmetry
INVARIANTS TypeOK OnePromotion QuotedRight
CHECK_DEADLOCK FALSE
