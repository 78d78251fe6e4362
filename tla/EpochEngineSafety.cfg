\* Three epochs, two bets, one restart, a cache of two trees, and the abstract ledger.
SPECIFICATION Spec
CONSTANTS
  c1 = c1
  c2 = c2
  k1 = k1
  Null = Null
  ClientSeeds = {c1, c2}
  Keys = {k1}
  EpochSeconds = 1
  CacheCap = 2
  MaxEpochs = 3
  MaxReceipts = 3
  MaxClock = 1
  MaxCrashes = 1
SYMMETRY Symmetry
CHECK_DEADLOCK FALSE
INVARIANTS
  TypeOK
  OneOpenEpoch
  SequentialBets
  SequentialNonces
  ClosedReceiptsProvable
  CacheServesCommittedTree
  RetriedBetNotDoubled
  CacheHoldsLatestProven
PROPERTIES
  ClosedEpochsNeverChange
  NoPlayUnderPublishedSeed
  ImplementsLedger
