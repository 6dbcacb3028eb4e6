SPECIFICATION FairSpec
CONSTANTS
  LastRelease = 3
  Extensions = {"e1", "e2", "e3"}
  ConfigOf <- Config
  Recovery = {1, 2}
  AirGap = TRUE
  FixedAt = 1
  DefaultVendorChartOrder = 10
  None = None
  BackoffLimit = 1
  MaxFaults = 2
  MaxKills = 1
INVARIANTS
  ChartsAreCurrent
PROPERTIES
  RetriesAreCareful
  UpgradesEnd
  ImplementsRollout
CHECK_DEADLOCK FALSE
