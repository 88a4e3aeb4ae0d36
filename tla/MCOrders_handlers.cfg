SPECIFICATION Spec
CONSTANTS
  Handlers = {h1, h2}
  Parts = {p1}
  OrderIds = {o1, o2, o3}
  MaxQty = 1
  Quantities = {0, 1}
  Goals = {"CONFIRMED", "IN_PROGRESS", "COMPLETED", "CANCELLED"}
  None = None
SYMMETRY Symmetry
INVARIANTS
  DecisionHolds
  Conservation
  OversellBounded
PROPERTY
  StatusFollowsMachine
