SPECIFICATION Spec
CONSTANTS
  Handles = {h1, h2}
  Readonly = {}
  Inodes = {i1, i2}
  None = None
  Hollow = Hollow
  Torn = Torn
  Stores = {docs}
  Keys = {k1}
  Values = {v1}
  NoValue = NoValue
  Labels = {l1}
  ScopeNames = {n1}
  MaxScopes = 1
  Faults = {"crash_in_file_call"}
  SoleRestore = TRUE
  ScopedSnapshots = FALSE
PROPERTY
  RestoreExact
