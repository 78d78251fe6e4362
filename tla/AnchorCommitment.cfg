\* The script commits to an epoch it has just seen the seed of.
SPECIFICATION AloneSpec
CONSTANTS
  c1 = c1
  k1 = k1
  Null = Null
  ClientSeeds = {c1}
  Keys = {k1}
  TeeId = k1
  EpochSeconds = 1
  CacheCap = 1
  MaxEpochs = 3
  MaxReceipts = 1
  MaxClock = 2
  MaxCrashes = 1
  MaxFailures = 1
CHECK_DEADLOCK FALSE
PROPERTIES
  CommittedBeforeReveal
