SPECIFICATION ListsSpec
CONSTANTS
  Handlers = {h1}
  Readers = {r1}
  Ids = {i1}
  Names = {n1, n2}
  Active = {TRUE}
  Omitted = Omitted
  Miss = Miss
  Keys = {TRUE, FALSE}
PROPERTIES
  ListsInvalidated
