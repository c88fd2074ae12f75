CONSTANTS
  Calls = {c1, c2, c3}
  Threshold = 2
  Window = 2
  OpenDuration = 2
  MaxAttempts = 2
SPECIFICATION FairSpec
INVARIANTS
  ClosedMeansBelowThreshold
PROPERTIES
  OpensOnStreakOnly
  CooldownEnds
