SPECIFICATION FairSpec
CONSTANTS
  Nodes = {n1, n2}
  Members = {n1}
  LastRelease = 2
  K0sOf <- AlwaysChange
  AddonCount = 1
  ChartCount = 2
  AirGap = FALSE
  BackoffLimit = 1
  MaxErrors = 0
  MaxKills = 0
  MaxCommands = 2
  MaxBadPlans = 1
PROPERTIES
  JobIsDecided
\* commands, jobs and plans are bounded: the system comes to rest
CHECK_DEADLOCK FALSE
