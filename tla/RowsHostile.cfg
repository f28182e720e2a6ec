SPECIFICATION Spec
CONSTANTS
  Handles = {h1, r1}
  Readonly = {r1}
  Inodes = {i1, i2}
  None = None
  Hollow = Hollow
  Torn = Torn
  Stores = {docs}
  Keys = {k1}
  Values = {v1}
  NoValue = NoValue
  Labels = {l1}
  ScopeNames = {n1}
  MaxScopes = 1
  Faults = {"crash", "crash_in_file_call", "disk_full"}
  SoleRestore = FALSE
  ScopedSnapshots = TRUE
INVARIANTS
  TypeOK
PROPERTIES
  CallsReturn
