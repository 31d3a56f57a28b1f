SPECIFICATION UntimedSpec
CONSTANTS
  r1 = r1  r2 = r2  g1 = g1
  x = x  y = y  z = z
  Conds = {r1, r2, g1}
  Guards = {g1}
  Gates = {x, y, z}
  GateOf <- SharedGates
  Mode = "all"
  RequiredSuccesses = 1
  StableFor = FALSE
  AttemptTimeout = TRUE
  HasCallback = FALSE
  MaxAttempts = 2
PROPERTIES
  CompletedRunReturns
  DecidedRunReturns
  GateIsServed
