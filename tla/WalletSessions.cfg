\* Two wallets, a cap of two entries, one restart, tokens that outlive nonces.
SPECIFICATION SessionsSpec
CONSTANTS
  w1 = w1
  w2 = w2
  Null = Null
  Wallets = {w1, w2}
  NonceTtl = 1
  TokenTtl = 2
  MapCap = 2
  MaxDraws = 8
  MaxClock = 3
  MaxBoots = 2
SYMMETRY Symmetry
CHECK_DEADLOCK FALSE
INVARIANTS
  SessionsTypeOK
  ToldTokenIsGood
  NonceLogsInOnce
PROPERTIES
  MapsStayBounded
