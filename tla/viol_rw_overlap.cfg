CONSTANTS
  Sessions = {s1, s2}
  Profiles = {p1}
  Workers = {w1}
  Grants = {}
  MaxConcurrent = 2
  Requests = {}
  Faults = {}
  OverlapCreates = TRUE
  None = None
SPECIFICATION Spec
SYMMETRY Symm
INVARIANTS ExclusiveReadWrite
CHECK_DEADLOCK FALSE
