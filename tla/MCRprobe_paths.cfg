SPECIFICATION Spec
CONSTANTS
  MAX_PROBES = 1
  NPackets = 1
  MaxRounds = 2
  MaxCopies = 1
  CanLose = FALSE
  SiblingSeqs = {0}
  Routes = {"r1"}
  MaxForeign = 2
  RestartSyscalls = FALSE
  FlagAnyReordering = FALSE
INVARIANTS
  PathsTaken
