\* Two machines with their own keys, one restart between them; the first one never restarts.
SPECIFICATION TeeSpec
CONSTANTS
  m1 = m1
  m2 = m2
  c1 = c1
  c2 = c2
  k1 = k1
  k2 = k2
  Null = Null
  Machines = {m1, m2}
  ClientSeeds = {c1, c2}
  KeyOf <- DistinctKeys
  MaxSeeds = 3
  MaxBets = 3
  MaxRestarts <- SecondRestarts
CHECK_DEADLOCK FALSE
INVARIANTS
  TeeTypeOK
  SequentialUnderSeed
  CloseCoversReceipts
PROPERTIES
  ImplementsLedger
