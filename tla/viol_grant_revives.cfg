CONSTANTS
  Sessions = {s1}
  Profiles = {p1}
  Workers = {w1}
  Grants = {g1}
  MaxConcurrent = 1
  Requests = {"close", "grant"}
  Faults = {}
  OverlapCreates = FALSE
  None = None
SPECIFICATION Spec
SYMMETRY Symm
PROPERTIES ClosedStaysClosed
CHECK_DEADLOCK FALSE
