SPECIFICATION FairSpec
CONSTANTS
  Handlers = {h1, h2}
  Brands = {b1, b2}
  Names = {n1}
  All = All
  Miss = Miss
PROPERTY
  ModelsGetShown
INVARIANT
  CacheInv
