SPECIFICATION Spec
CONSTANTS
  Stores = {docs}
  Keys = {k1}
  Values = {v1}
  NoValue = NoValue
  Indexes = {index1}
  Models = {m1}
  Dimensions = {2, 3}
  Labels = {l1}
  ScopeNames = {n1, n2}
  MaxScopes = 2
  MaxBatch = 1
  ScopedSchema = TRUE
  None = None
INVARIANTS
  CommittedFindable
