SPECIFICATION Spec
CONSTANTS
  Valves = {v1}
  NoValve = NoValve
  CmdDepth = 10
  UpdDepth = 3
  AirDepth = 2
  Flaky = FALSE
  Sensors = {s1}
  Probe = probe
  MaxActive = 2
  Prompt = TRUE
  Kinds = {"water", "press", "reset"}
  MaxEvents = 4
PROPERTIES
  NoFalsePress
