SPECIFICATION Spec
CONSTANTS
  Stores = {docs}
  Keys = {k1}
  Values = {v1}
  NoValue = NoValue
  Indexes = {index1}
  Models = {m1, m2}
  Dimensions = {2, 3}
  Labels = {l1}
  ScopeNames = {n1, n2}
  MaxScopes = 2
  MaxBatch = 2
  ScopedSchema = FALSE
  None = None
INVARIANTS
  CachesTrue
  DeclaredRows
  CommittedFindable
