\* A late answer for the wallet that was connected before.
SPECIFICATION DashboardSpec
CONSTANTS
  w1 = w1
  w2 = w2
  k1 = k1
  k2 = k2
  Null = Null
  Wallets = {w1, w2}
  NonceTtl = 1
  TokenTtl = 0
  MapCap = 2
  MaxDraws = 4
  MaxClock = 1
  MaxBoots = 2
  SignIns = {k1, k2}
  MaxServices = 1
CHECK_DEADLOCK FALSE
INVARIANTS
  ConnectedIsNeverStranded
