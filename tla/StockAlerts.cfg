SPECIFICATION FairAlertsSpec
CONSTANTS
  Handlers = {h1, h2}
  Parts = {p1}
  OrderIds = {o1, o2}
  MaxQty = 2
  Quantities = {2}
  Goals = {"CANCELLED"}
  Threshold = 1
  None = None
PROPERTY
  LowStockAlerted
INVARIANTS
  AlertsTypeOK
  LowStockHasCheck
  ChecksBounded
