CONSTANTS
  Sessions = {s1}
  Profiles = {p1}
  Workers = {w1}
  Grants = {}
  MaxConcurrent = 1
  Requests = {"action"}
  Faults = {"secondstart"}
  OverlapCreates = FALSE
  None = None
SPECIFICATION Spec
SYMMETRY Symm
INVARIANTS FailedIsOver
CHECK_DEADLOCK FALSE
