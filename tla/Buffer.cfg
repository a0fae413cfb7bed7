SPECIFICATION HubSpec
CONSTANTS
    Max = 3
    MaxEvents = 8
    TornWrites = FALSE
    Duration = 3
    Valid = 20
    MaxTime = 8
    Valves = {v1}
    LoraIds = {l1}
    LeakMacs = {b1}
    NoId = NoId
    MaxLora = 2
    MaxLeak = 1
    MaxNvsFaults = 1
    BleValves = {w1, w2}
    HealthSensors = {s1}
    NoBleValve = NoBleValve
    HealthDepth = 2
    AlertDepth = 1
    MaxHealthEvents = 3
    MaxAttempts = 2
    MaxEpoch = 2
    MaxDpsFaults = 3
INVARIANTS
  DatesTrue
  RingWhole
  NeverLonger
  StampsTrue
  BootMatches
  NoDuplicates
  StateAgrees
  ToldIsTrue
  DropIsKnown
  OwnAnswer
  CacheOfEpoch
PROPERTIES
  ImplementsLog
  NeverShorter
SYMMETRY IdSymmetry
