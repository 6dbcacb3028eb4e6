SPECIFICATION FairSpec
CONSTANTS
  Nodes = {n1, n2}
  LastInstallation = 2
  MaxNodeEvents = 2
  MaxErrors = 1
INVARIANTS
  TypeOK
  NodesAreNoticed
PROPERTIES
  StateIsKept
  StatusConverges
