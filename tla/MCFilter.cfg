SPECIFICATION Spec
CONSTANTS
  FuzzRounds = 6
  Unknown = Unknown
  MinPeakSize = 3
  MinNumSets = 2
  MCReadings = {1, 5, 11, 12}
  MCRowLength = 3
  MCTotal = 6
  Matrices <- MCMatrices
INVARIANTS
  TypeOK
  MergedCountsExact
  InputsRestored
  UnionIsComponents
  NeverAddsAtEnd
  EstimateAmongReadings
  EnoughDataSuffices
  CountsRecoverable
  NothingLeaks
PROPERTIES
  ImplementsClusters
  Ends
