SPECIFICATION Spec
CONSTANTS
  Packages = {p1, p2}
  Containers = {k1}
  Shipments = {s1}
  Calls = {c1}
  Carried = {k1}
  NoShipment = NoShipment
  MaxQuantity = 1
  MaxLabels = 1
  MaxFaults = 0
  MaxAdrift = 0
INVARIANT InContainerHasItem
CHECK_DEADLOCK FALSE
