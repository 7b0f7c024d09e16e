SPECIFICATION FairSpec
CONSTANTS
  MAX_PROBES = 2
  NPackets = 2
  MaxRounds = 1
  MaxCopies = 1
  CanLose = TRUE
  SiblingSeqs = {}
  Routes = {}
  MaxForeign = 0
  RestartSyscalls = TRUE
  FlagAnyReordering = FALSE
PROPERTIES
  RoundEnds
CHECK_DEADLOCK FALSE
