SPECIFICATION HostSpec
CONSTANTS
  d1 = d1
  d2 = d2
  n1 = n1
  n2 = n2
  n3 = n3
  n4 = n4
  proxy = proxy
  Configs <- TwoConfigs
  DefaultDir = d1
  Keys = {"instances"}
  Modules = {"overlay"}
  Ports = {"6443/tcp"}
  Hosts <- ThreeHosts
  None = None
  MaxCommands = 3
  MaxFaults = 2
  MaxReboots = 1
  MaxRaises = 1
INVARIANTS
  SetupHolds
  UndoneByReset
\* no command is left to be started
CHECK_DEADLOCK FALSE
