SPECIFICATION Spec
CONSTANTS
  Handles = {h1, h2}
  Readonly = {}
  Inodes = {i1, i2}
  None = None
  Hollow = Hollow
  Torn = Torn
  Stores = {docs}
  Keys = {k1}
  Values = {v1}
  NoValue = NoValue
  Labels = {l1}
  ScopeNames = {n1}
  MaxScopes = 2
  Faults = {"crash"}
  SoleRestore = TRUE
  ScopedSnapshots = FALSE
INVARIANTS
  DeclaredRows
  NoLostUpdate
  HandlesOnBase
  BackupKept
PROPERTIES
  RestoreExact
  ImplementsDataPlane
  CallsReturn
