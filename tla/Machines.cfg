SPECIFICATION Spec
CONSTANTS
  Machines = {m1, m2}
  Dirs = {d1, d2}
  DefaultDir = d1
  None = None
  Releases = {35, 36}
  AirGaps <- AlwaysAirGapped
  Overlap = FALSE
  MaxCommands = 4
  MaxFaults = 1
INVARIANTS
  LeftoversFound
  MetricsAreTrue
  LastController
\* no command is left to be started
CHECK_DEADLOCK FALSE
