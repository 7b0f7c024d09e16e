SPECIFICATION Spec
CONSTANTS
  MAX_PROBES = 2
  NPackets = 2
  MaxRounds = 1
  MaxCopies = 1
  CanLose = FALSE
  SiblingSeqs = {0, 1}
  Routes = {}
  MaxForeign = 1
  RestartSyscalls = TRUE
  FlagAnyReordering = FALSE
INVARIANTS
  NoIntermingling
