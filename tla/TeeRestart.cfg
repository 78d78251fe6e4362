\* One machine that restarts in the middle of an epoch.
SPECIFICATION TeeSpec
CONSTANTS
  m1 = m1
  m2 = m2
  c1 = c1
  c2 = c2
  k1 = k1
  k2 = k2
  Null = Null
  Machines = {m1}
  ClientSeeds = {c1, c2}
  KeyOf <- OneKey
  MaxSeeds = 2
  MaxBets = 2
  MaxRestarts <- FirstRestarts
CHECK_DEADLOCK FALSE
INVARIANTS
  NonceOncePerEpoch
