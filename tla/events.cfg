CONSTANTS
  MaxCalls = 3
  Streams = {"u1"}
  Capacity = 2
  Faults = {"dbfail", "injectfail", "restart"}
  MaxFaults = 1
SPECIFICATION FairSpec
INVARIANTS TypeOK StreamFaithful TableTells
PROPERTY AnsweredIsSeen
CHECK_DEADLOCK FALSE
