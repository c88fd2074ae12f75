CONSTANTS
  Requests = {"sandbox"}
  MaxProcs = 2
  MaxBoots = 2
  Calls = {"a", "b"}
  EnvToken = 1
  MaxGrants = 3
  MaxFaults = 1
SPECIFICATION V1Spec
INVARIANT StoredTokenGood
PROPERTIES
  StartingEnds
  DeathReported
  CallsAnswered
CHECK_DEADLOCK FALSE
