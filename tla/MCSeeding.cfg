SPECIFICATION MCSpec
CONSTANTS
  Handlers = {h1}
  Readers = {r1}
  Ids = {i1, i2}
  Names = {n1, n2}
  Active = {TRUE}
  Omitted = Omitted
  Miss = Miss
  Keys = {TRUE}
  brand = brand
  model = model
  seeded = n1
  SeedNames <- MCSeedNames
  SeedRows <- MCSeedRows
  SeedRules <- MCSeedRules
  Kms = {10, 20}
  Clerks = {c1}
INVARIANTS
  SeedTypeOK
  NamesUnique
  SeedResumes
  SeedComplete
PROPERTIES
  OwnNameNotRefused
  ListsCatchUp
