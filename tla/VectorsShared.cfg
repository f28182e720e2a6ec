SPECIFICATION Spec
SYMMETRY Symmetric
CONSTANTS
  Handles = {h1, h2}
  Indexes = {docs, notes}
  Keys = {k1}
  Values = {v1, v2}
  Models = {m1, m2}
  Dimensions = {2, 3}
  MaxTables = 3
  MaxBatch = 1
  Fails = TRUE
  Misreads = FALSE
  Overlaps = {}
  None = None
INVARIANTS
  TypeOK
  Homogeneous
  SearchSound
PROPERTIES
  OthersUntouched
  ReindexExact
  AnswersHold
