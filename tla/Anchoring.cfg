\* Three epochs, one crash, the script and its rivals; the fairness of the scheduler, the supervisor and cron.
SPECIFICATION AnchoringFairSpec
CONSTANTS
  c1 = c1
  k1 = k1
  Null = Null
  ClientSeeds = {c1}
  Keys = {k1}
  TeeId = k1
  EpochSeconds = 1
  CacheCap = 1
  MaxEpochs = 3
  MaxReceipts = 1
  MaxClock = 1
  MaxCrashes = 1
  MaxFailures = 1
CHECK_DEADLOCK FALSE
INVARIANTS
  AnchorIsTheClose
PROPERTIES
  ExpiredEpochCloses
  AnotherEpochOpens
  ClosedEpochIsAnchored
