SPECIFICATION Spec
CONSTANTS
  Threads = {t1, t2}
  Stores = {s1, s2}
  Reasons = {r1, r2}
  SerialHandles = TRUE
  SerialOpens = TRUE
  Exhausted = Exhausted
  Torn = Torn
  Unsaid = Unsaid
  None = None
INVARIANTS
  ToldOwnReason
  HandlesOwned
