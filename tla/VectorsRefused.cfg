SPECIFICATION Spec
SYMMETRY Symmetric
CONSTANTS
  Handles = {h1}
  Indexes = {docs}
  Keys = {k1}
  Values = {v1}
  Models = {m1}
  Dimensions = {2, 3}
  MaxTables = 3
  MaxBatch = 1
  Fails = FALSE
  Misreads = FALSE
  Overlaps = {}
  None = None
PROPERTIES
  RefusalChangesNothing
