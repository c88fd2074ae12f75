CONSTANTS
  MaxCalls = 2
  MaxAttempts = 2
  Turned = {"AUTH_FAILED", "SERVER_ERROR"}
SPECIFICATION OrdersSpec
INVARIANTS
  RefusalMeansUntouched
  SuccessMeansDone
PROPERTIES
  ImplementsOrderPromise
  CallSettles
CHECK_DEADLOCK FALSE
