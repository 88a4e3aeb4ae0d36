SPECIFICATION FairChecksSpec
CONSTANTS
  Handlers = {h1}
  Cars = {c1, c2}
  Readings = {1000, 2000}
  MaxLogs = 0
  Never = Never
  None = None
  Interval = 1000
  ChunkSize = 1
  MaxChecks = 1
  RuleKms = {0, 500, 1000, 1999}
  RuleMonths = {0, 1}
  Dates <- MCDates
PROPERTIES
  OverdueCarReported
  RemovedFadesOut
  StatusOnlyWorsens
INVARIANTS
  AlertsMatchReport
