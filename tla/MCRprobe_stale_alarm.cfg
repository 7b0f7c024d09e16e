SPECIFICATION Spec
CONSTANTS
  MAX_PROBES = 2
  NPackets = 2
  MaxRounds = 2
  MaxCopies = 1
  CanLose = FALSE
  SiblingSeqs = {}
  Routes = {}
  MaxForeign = 0
  RestartSyscalls = TRUE
  FlagAnyReordering = FALSE
INVARIANTS
  TimeoutIsOwn
