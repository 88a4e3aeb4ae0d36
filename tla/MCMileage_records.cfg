SPECIFICATION Spec
CONSTANTS
  Handlers = {h1, h2}
  Cars = {c1}
  Readings = {1, 2, 3}
  MaxLogs = 2
  Never = Never
  None = None
PROPERTY
  RecordsOnlyRaise
