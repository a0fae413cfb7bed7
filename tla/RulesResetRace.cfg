SPECIFICATION FairSpec
CONSTANTS
  Valves = {v1}
  NoValve = NoValve
  CmdDepth = 6
  UpdDepth = 2
  AirDepth = 2
  Flaky = FALSE
  Sensors = {s1}
  Probe = probe
  MaxActive = 2
  Prompt = TRUE
  Kinds = {"water", "reset"}
  MaxEvents = 3
PROPERTIES
  ResetLifts
