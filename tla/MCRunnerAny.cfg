SPECIFICATION FairSpec
CONSTANTS
  r1 = r1  r2 = r2  g1 = g1
  x = x  y = y  z = z
  Conds = {r1, r2, g1}
  Guards = {g1}
  Gates = {x, y, z}
  GateOf <- OwnGates
  Mode = "any"
  RequiredSuccesses = 2
  StableFor = TRUE
  AttemptTimeout = FALSE
  HasCallback = FALSE
  MaxAttempts = 2
INVARIANTS
  ReportMatchesCause
PROPERTIES
  ImplementsContract
