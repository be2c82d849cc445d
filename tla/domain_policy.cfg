CONSTANTS
  Parts <- PartsMC
  Numerals <- NumeralsMC
  Domains <- DomainsMC
  Policies <- PoliciesMC
  Requests <- RequestsMC
  Hosts <- HostsMC
  NoHost = NoHost
  None = None
SPECIFICATION Spec
INVARIANTS PolicyHolds NoOverblocking
CHECK_DEADLOCK FALSE
