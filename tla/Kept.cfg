SPECIFICATION FairSpec
CONSTANTS
  Sensors = {s1, s2}
  Probe = probe
  KeptMax = 2
  MaxActive = 2
  MaxNoise = 3
INVARIANTS
  KeptShape
  EndsFailSafe
  WetIsKept
PROPERTIES
  WetLostOnlyWhenFull
  ClearIsDry
  WetIsJudged
