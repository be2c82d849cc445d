CONSTANTS
  Handlers = {h1, h2}
  Sessions = {s1, s2}
  Jars = {j1}
  NoJar = NoJar
  Absent = Absent
  Empty = Empty
  Torn = Torn
  Descriptions = {d1}
  Blank = Blank
  Faults = {"crash", "storage", "disconnect"}
SPECIFICATION Spec
SYMMETRY Symm
INVARIANTS TypeOK OneWriteBack ConsistentAtRest JarSurvives
CHECK_DEADLOCK FALSE
