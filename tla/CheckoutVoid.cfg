CONSTANTS
  Patterns = {"hero"}
  MaxInits = 1
  MaxPolls = 2
SPECIFICATION Spec
INVARIANT CompletedStaysPaid
