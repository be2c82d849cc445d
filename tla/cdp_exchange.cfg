CONSTANTS
  MaxCalls = 2
  Kinds = {"navigate", "evaluate", "inject", "fetch"}
  Pages = {p1}
  Blank = Blank
  None = None
  Patience = 1
  Default <- DefaultMC
  Options <- OptionsMC
  StealthAsked <- StealthMC
  DefaultStealth = TRUE
  Faults = {"event", "exit", "refuse", "loadfail", "foreign", "overlap", "update"}
  MaxMishaps = 1
SPECIFICATION FairSpec
INVARIANTS TypeOK
PROPERTIES FetchTellsTruth LaunchSettles NavigationTellsTruth FaceBeforePage LaunchEnds CallsEnd
CHECK_DEADLOCK FALSE
