CONSTANTS
  Pieces <- PiecesMC
  Jars <- JarsMC
  HostNames <- HostNamesMC
  Numbers <- NumbersMC
  None = None
SPECIFICATION Spec
INVARIANTS CookiesKept
PROPERTIES RefusedForCause JarInjectable
CHECK_DEADLOCK FALSE
