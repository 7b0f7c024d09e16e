SPECIFICATION Spec
CONSTANTS
  ByteModulus = 4
  NPackets = 2
  DataLens = {4, 5}
  ProcessIds = {3, 4}
  Starts = {14}
  MaxRounds = 2
  MaxTime = 3
INVARIANTS
  TypeOK
  SentPacketsVerify
  TimesTrue
