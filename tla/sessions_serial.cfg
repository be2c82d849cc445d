CONSTANTS
  Sessions = {s1, s2, s3}
  Profiles = {p1}
  Workers = {w1}
  Grants = {}
  MaxConcurrent = 2
  Requests = {"close"}
  Faults = {"insertfail", "childexit", "secondstart"}
  OverlapCreates = FALSE
  None = None
SPECIFICATION Spec
SYMMETRY Symm
INVARIANTS NoOrphan ActiveOwned FailedCreateInert ExclusiveReadWrite WithinQuota
CHECK_DEADLOCK FALSE
