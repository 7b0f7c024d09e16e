SPECIFICATION Spec
CONSTANTS
  ULongMax = 255
  IntModulus = 64
  MAX_PROBES = 5
  PacketCount = 4
  FirstSize = 600
  LastSize = 700
  MCTimes = {1, 2, 4, 7}
  JunkTimes = {0, 9}
  Outcomes <- MCOutcomes
INVARIANTS
  TypeOK
  GapsSorted
  LossOnlyAtEnd
  CompleteReadingInOrder
  ReadingOfOwnGaps
  AveragesCleanRounds
