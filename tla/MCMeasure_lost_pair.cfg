SPECIFICATION Spec
CONSTANTS
  MAX_PROBES = 4
  NPackets = 4
  MaxRounds = 2
  MaxCopies = 1
  CanLose = TRUE
  SiblingSeqs = {}
  Routes = {}
  MaxForeign = 0
  RestartSyscalls = FALSE
  FlagAnyReordering = FALSE
  ULongMax = 255
  IntModulus = 64
  Epoch = 230
INVARIANT LostPacketKeptOut
CHECK_DEADLOCK FALSE
