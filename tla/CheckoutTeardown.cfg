CONSTANTS
  Patterns = {"polled"}
  MaxInits = 1
  MaxPolls = 2
SPECIFICATION Spec
INVARIANT NoPollingAfterTeardown
