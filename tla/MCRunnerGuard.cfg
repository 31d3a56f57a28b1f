SPECIFICATION Spec
CONSTANTS
  r1 = r1  r2 = r2  g1 = g1
  x = x  y = y  z = z
  Conds = {r1, r2, g1}
  Guards = {g1}
  Gates = {x, y, z}
  GateOf <- OwnGates
  Mode = "all"
  RequiredSuccesses = 1
  StableFor = FALSE
  AttemptTimeout = FALSE
  HasCallback = FALSE
  MaxAttempts = 1
PROPERTIES
  NoFatalAfterReadiness
