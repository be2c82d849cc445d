CONSTANTS
  Sessions = {s1, s2}
  Profiles = {p1}
  Workers = {w1}
  Grants = {}
  MaxConcurrent = 2
  Requests = {"close"}
  Faults = {"dbfail"}
  OverlapCreates = TRUE
  None = None
SPECIFICATION FairSpec
PROPERTIES CloseEnds CreateEnds
CHECK_DEADLOCK FALSE
