\* Three callers, two of whom share a key, two stations, one fault and one reset.
SPECIFICATION SimulatorSpec
CONSTANTS
  c1 = c1
  c2 = c2
  c3 = c3
  s1 = s1
  s2 = s2
  k1 = k1
  Client = {c1, c2, c3}
  Station = {s1, s2}
  SlotsOf <- MCSlotsOf
  Key = {k1}
  KeyOf <- MCKeyOf
  CommandsOf <- MCCommandsOf
  StartScenario = "city_idle"
  NextScenario = {"charging"}
  Target = {"reserve", "cancel"}
  Mode = {"delay", "timeout", "http_503"}
  AttemptsOf <- MCAttemptsOf
  MaxResets = 1
  MaxFaults = 1
  None = None
INVARIANTS
  SimulatorTypeOK
  StateAddsUp
  RetriesAreSafe
CHECK_DEADLOCK FALSE
