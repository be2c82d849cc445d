CONSTANTS
  Commands = {c1, c2, c3}
  Keys = {k1, k2}
  Names = {n1}
  k1 = k1
  k2 = k2
  n1 = n1
  Direct = Direct
  Initials <- FirstFiles
  Absent = Absent
  Empty = Empty
  Torn = Torn
  None = None
  Faults = {"kill"}
SPECIFICATION Spec
SYMMETRY Symm
INVARIANTS TypeOK KeyGiven DanglingOnlyBySet
PROPERTIES AloneTakesEffect
CHECK_DEADLOCK FALSE
