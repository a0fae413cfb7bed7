SPECIFICATION Spec
CONSTANTS
  Valves = {v1, v2}
  NoValve = NoValve
  CmdDepth = 6
  UpdDepth = 1
  AirDepth = 2
  Flaky = FALSE
  Sensors = {s1}
  Probe = probe
  MaxActive = 2
  Prompt = TRUE
  Kinds = {"water", "swap", "sensor", "busy"}
  MaxEvents = 3
SYMMETRY ValveSymmetry
INVARIANTS
  NothingOfThePast
PROPERTIES
  PressIsReal
