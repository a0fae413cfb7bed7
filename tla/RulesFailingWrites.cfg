SPECIFICATION Spec
CONSTANTS
  Valves = {v1}
  NoValve = NoValve
  CmdDepth = 3
  UpdDepth = 1
  AirDepth = 1
  Flaky = TRUE
  Sensors = {s1}
  Probe = probe
  MaxActive = 2
  Prompt = TRUE
  Kinds = {"water", "drop"}
  MaxEvents = 2
INVARIANTS
  LeakGuarded
