CONSTANTS
  Sessions = {s1}
  Profiles = {p1}
  Workers = {w1, w2}
  Grants = {g1, g2}
  MaxConcurrent = 2
  Requests = {"close", "action", "grant", "delete"}
  Faults = {"disconnect", "insertfail", "dbfail", "restart", "childexit", "hang"}
  OverlapCreates = TRUE
  None = None
SPECIFICATION Spec
SYMMETRY Symm
INVARIANTS TypeOK OneOwner LockOwner GrantSingleUse
PROPERTIES ImplementsOwnership RestartFailedStaysDown
CHECK_DEADLOCK FALSE
