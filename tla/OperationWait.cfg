CONSTANTS
  Deadline = 12
  RequestTime = 1
  Drift = 1
  RetryAfters = {1, 5}
  Gone = Gone
  NoSnapshot = NoSnapshot
SPECIFICATION Spec
INVARIANTS TypeOK NeverGivesUpEarly OverrunIsBounded
PROPERTIES ContractSpec PublishedIsNotTimedOut DecommissionAsksItsOperation WaitEnds
CHECK_DEADLOCK FALSE
