SPECIFICATION FairSpec
CONSTANTS
  Handlers = {h1, h2}
  Parts = {p1, p2}
  OrderIds = {o1, o2}
  MaxQty = 1
  Quantities = {1}
  Goals = {"CANCELLED"}
  None = None
INVARIANTS
  IInv
PROPERTIES
  EveryRequestAnswered
  ImplementsLedger
