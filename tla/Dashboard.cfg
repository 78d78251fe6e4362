\* Two wallets in one tab, two sign-ins in flight, one restart, tokens that expire.
SPECIFICATION DashboardFairSpec
CONSTANTS
  w1 = w1
  w2 = w2
  k1 = k1
  k2 = k2
  Null = Null
  Wallets = {w1, w2}
  NonceTtl = 1
  TokenTtl = 0
  MapCap = 2
  MaxDraws = 3
  MaxClock = 1
  MaxBoots = 2
  SignIns = {k1, k2}
  MaxServices = 1
CHECK_DEADLOCK FALSE
INVARIANTS
  LoadedIsOwn
PROPERTIES
  NoPromptWithLiveToken
  SigningEnds
