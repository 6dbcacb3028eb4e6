SPECIFICATION MigrationFairSpec
CONSTANTS
  Charts = {c1, c2, c3}
  Delays = {FALSE, TRUE}
  BackoffLimit = 2
  MaxErrors = 4
  MaxWrites = 3
INVARIANTS
  MigrationTypeOK
  MigrationIsSafe
PROPERTIES
  JobEnds
\* the Job has ended and nothing is left to do
CHECK_DEADLOCK FALSE
