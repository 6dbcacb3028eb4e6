SPECIFICATION Spec
CONSTANTS
  Nodes = {n1, n2, n3}
  Members = {n1, n2}
  LastRelease = 2
  K0sOf <- ChangeThenSame
  AddonCount = 2
  ChartCount = 3
  AirGap = TRUE
  BackoffLimit = 1
  MaxErrors = 1
  MaxKills = 1
  MaxCommands = 4
  MaxBadPlans = 1
INVARIANTS
  TypeOK
  FailedIsFinal
  StatusIsTruthful
  DeletesOwnPlan
PROPERTIES
  ImplementsClusterUpgrade
\* commands, jobs and plans are bounded: the system comes to rest
CHECK_DEADLOCK FALSE
