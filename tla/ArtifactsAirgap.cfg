SPECIFICATION FairSpec
CONSTANTS
  Nodes = {n1, n2}
  Initial = {n1}
  LongNames = {}
  LastInstallation = 2
  AirGap = TRUE
  BackoffLimit = 1
  MaxCommands = 3
  MaxErrors = 1
  MaxKills = 1
  MaxPodFails = 3
INVARIANTS
  TypeOK
  CopiesAreSafe
  SuccessMeansPlaced
PROPERTIES
  EveryCommandEnds
\* commands and errors are bounded: the cluster comes to rest
CHECK_DEADLOCK FALSE
