SPECIFICATION Spec
CONSTANTS
  Packages = {p1}
  Containers = {k1, k2}
  Shipments = {s1}
  Calls = {c1, c2}
  Carried = {k1}
  NoShipment = NoShipment
  MaxQuantity = 2
  MaxLabels = 2
  MaxFaults = 1
  MaxAdrift = 0
SYMMETRY CallSymmetry
INVARIANTS TypeOK StatusFollowsFreight OneContainer QuantityCounts LabelsAccounted MarksOwned DeliveryKept
CHECK_DEADLOCK FALSE
