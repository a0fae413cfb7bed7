SPECIFICATION FairSpec
CONSTANTS
  Valves = {v1}
  NoValve = NoValve
  CmdDepth = 6
  UpdDepth = 3
  AirDepth = 2
  Flaky = FALSE
  Sensors = {s1}
  Probe = probe
  MaxActive = 2
  Prompt = TRUE
  Kinds = {"water", "flood", "power", "reboot", "press"}
  MaxEvents = 3
INVARIANTS
  LockAgrees
PROPERTIES
  LeakCloses
  DryReleases
