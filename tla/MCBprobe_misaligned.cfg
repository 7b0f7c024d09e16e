SPECIFICATION Spec
CONSTANTS
  ULongMax = 1023
  IntModulus = 256
  NUM_ROUNDS = 4
  PacketCount = 6
  FirstSize = 124
  SizeLimit = 300
  MaxOccupied = 4
  MinPeakSize = 5
  MinNumSets = 2
  MCEqualGaps = FALSE
  Outcomes <- MCOutcomes
INVARIANT OfferedLoadIsOwn
