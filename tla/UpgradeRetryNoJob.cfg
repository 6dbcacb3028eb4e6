SPECIFICATION Spec
CONSTANTS
  Nodes = {n1}
  Members = {n1}
  LastRelease = 1
  K0sOf <- AlwaysChange
  AddonCount = 1
  ChartCount = 2
  AirGap = FALSE
  BackoffLimit = 1
  MaxErrors = 1
  MaxKills = 0
  MaxCommands = 2
  MaxBadPlans = 0
INVARIANTS
  SuccessMeansJob
\* commands, jobs and plans are bounded: the system comes to rest
CHECK_DEADLOCK FALSE
