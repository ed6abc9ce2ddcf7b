\* Two applies, a foreign principal.  Liveness: no symmetry.
CONSTANTS
  w1 = w1
  w2 = w2
  i1 = i1
  i2 = i2
  caller = caller
  other = other
  Workspaces = {w1, w2}
  Issuance = {i1, i2}
  Principals = {caller, other}
  CallerPrincipalID = caller
  NoRegistration = NoRegistration
  NoState = NoState
  MaxForeign = 1
  MaxRetries = 1
  MaxApplies = 2
  Plans <- RetainPlans
SPECIFICATION Spec
INVARIANTS OrphansAreReported
PROPERTIES EveryApplyReturns
CHECK_DEADLOCK FALSE
