SPECIFICATION MCSpec
CONSTANTS
  Handlers = {h1, h2}
  user = user
  acme = acme
  d1 = d1
  d2 = d2
  Owners = {user, acme}
  Fleets = {acme}
  Plates = {p1, p2}
  Barcodes = {b1}
  Limit <- MCLimit
  Drivers = {d1, d2}
  DriverOrg <- MCDriverOrg
  Odometers = {0, 25}
  Times = {2, 3}
  Days = {1, 2}
  Asked <- MCAsked
  MaxLogs = 2
  None = None
SYMMETRY Symmetry
INVARIANTS
  PlacesBounded
  ScansExact
  FiguresBracketed
  ReportsAgree
  PeriodsAddUp
  RatedByDistance
  PagesMissNothing
