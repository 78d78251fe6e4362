\* Two wallets, two services, one transaction, two overlapping topups, two restarts under another price.
SPECIFICATION Spec
CONSTANTS
  w1 = w1
  w2 = w2
  t1 = t1
  k1 = k1
  k2 = k2
  n1 = n1
  Null = Null
  Wallets = {w1, w2}
  TxHashes = {t1}
  Amounts = {0, 3}
  Prices = {1, 3}
  CustomNames = {n1}
  Calls = {k1, k2}
  MaxServices = 2
  MaxOperators = 2
  MaxPlays = 2
  MaxRestarts = 2
SYMMETRY Symmetry
CHECK_DEADLOCK FALSE
INVARIANTS
  TypeOK
  EachDepositIsItsPayment
  PrepaidNeverOverdrawn
  SpendingIsPaidFor
PROPERTIES
  ChargesNeverRepriced
