SPECIFICATION FairSpec
CONSTANTS
  BackupCount = 3
  Restorable <- OneAndThree
  HighAvailability <- OnlyThree
  AirGap = TRUE
  ImprovedDR = TRUE
  MaxControllers = 3
  MaxInterrupts = 3
  MaxFailures = 1
INVARIANTS
  TypeOK
  OneBackup
  RestoreIsWhole
  NoHADuringRestore
PROPERTIES
  RestoreCompletes
\* the restored cluster has nothing left to do
CHECK_DEADLOCK FALSE
