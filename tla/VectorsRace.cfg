SPECIFICATION Spec
SYMMETRY Symmetric
CONSTANTS
  Handles = {h1, h2}
  Indexes = {docs, notes}
  Keys = {k1}
  Values = {v1}
  Models = {m1, m2}
  Dimensions = {2}
  MaxTables = 3
  MaxBatch = 1
  Fails = FALSE
  Misreads = FALSE
  Overlaps = {"indexes"}
  None = None
INVARIANTS
  Homogeneous
