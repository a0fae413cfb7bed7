SPECIFICATION Spec
CONSTANTS
  Valves = {v1}
  NoValve = NoValve
  CmdDepth = 10
  UpdDepth = 3
  AirDepth = 2
  Flaky = FALSE
  Sensors = {s1}
  Probe = probe
  MaxActive = 2
  Prompt = TRUE
  Kinds = {"water", "press", "drop", "reset", "close", "rules", "cancel"}
  MaxEvents = 3
INVARIANTS
  TypeOK
  LeakGuarded
PROPERTIES
  PressIsReal
