SPECIFICATION FairSpec
CONSTANTS
  Commands = {c1, c2, c3}
  Images = {i1, i2}
  AirGap = TRUE
  Overlap = FALSE
  MaxErrors = 1
  MaxKills = 1
  MaxPodFails = 1
INVARIANTS
  TypeOK
  NoImageLeftBehind
  HAIsComplete
PROPERTIES
  RegistryComesBack
\* the commands are given; when they have ended nothing is left to do
CHECK_DEADLOCK FALSE
