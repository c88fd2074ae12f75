CONSTANTS
  Patterns <- AllPatterns
  MaxInits = 2
  MaxPolls = 2
SPECIFICATION FairSpec
INVARIANTS
  EventsMatchState
  OncePerSubscription
  CompletedOnlyIfApproved
  AuthorizedBeforeCompleted
  AuthorizeSettles
PROPERTIES
  ImplementsPromise
  CompletionIsTold
  PollingStops
