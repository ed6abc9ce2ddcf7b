\* Three applies: a conflict and its aftermath, a delete and a create in between.
CONSTANTS
  w1 = w1
  w2 = w2
  i1 = i1
  i2 = i2
  caller = caller
  other = other
  Workspaces = {w1, w2}
  Issuance = {i1, i2}
  Principals = {caller}
  CallerPrincipalID = caller
  NoRegistration = NoRegistration
  NoState = NoState
  MaxForeign = 0
  MaxRetries = 1
  MaxApplies = 3
  Plans <- WaitingPlans
SPECIFICATION Spec
SYMMETRY WorkspaceSymmetry
INVARIANTS TypeOK OrphansAreReported RevisionIdentifiesSpec
PROPERTIES RetainedIsNotDeleted RegisterSpec RefreshedUpdateIsNotLost GoneBeforeForgotten
CHECK_DEADLOCK FALSE
