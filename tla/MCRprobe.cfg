SPECIFICATION FairSpec
CONSTANTS
  MAX_PROBES = 3
  NPackets = 3
  MaxRounds = 2
  MaxCopies = 1
  CanLose = FALSE
  SiblingSeqs = {1}
  Routes = {"r1"}
  MaxForeign = 2
  RestartSyscalls = FALSE
  FlagAnyReordering = TRUE
INVARIANTS
  TypeOK
  OutstandingExact
  CompleteUnlessTimedOut
  DuplicateFlagExact
  OrderedPairAdjacent
  StaleTimeoutEmptiesRound
  PathsWereNew
  InOrderMeansPrefix
  LateReplyOnlyAfterTimeout
PROPERTIES
  FirstArrivalKept
  ImplementsProbeRound
  RoundEnds
