SPECIFICATION FairSpec
CONSTANTS
  Ready = {r1, r2}
  Mode = "all"
  JSON = TRUE
INVARIANTS
  TypeOK
  ExitTellsOutcome
  CancelledBySignal
  FirstSignalDecides
PROPERTIES
  SignalEndsProcess
