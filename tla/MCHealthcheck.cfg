SPECIFICATION HealthFairSpec
CONSTANTS
  Cadences = {0, 2}
  Timeout = 6
  UpGrace = 3
  MaxRTT = 1
  MaxBlock = 1
INVARIANT DownOnSilence
PROPERTIES UpEarned NoFalseDown Recovers
