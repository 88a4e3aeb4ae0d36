SPECIFICATION Spec
CONSTANTS
  Handlers = {h1, h2}
  Parts = {p1}
  OrderIds = {o1, o2}
  MaxQty = 1
  Quantities = {1}
  Goals = {"CANCELLED"}
  None = None
INVARIANT
  NoOversell
