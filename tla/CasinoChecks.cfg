\* A proof whose last reads are refused for the rate.
SPECIFICATION CasinoSpec
CONSTANTS
  Null = Null
  casino = casino
  stranger = stranger
  Addresses = {casino, stranger}
  Backend = casino
  me = me
  others = others
  Me = me
  Others = others
  red = red
  Bets = {red}
  ReadLimit = 3
  PlayLimit = 1
  MaxAddresses = 0
  PageLimit = 1
  StartChips = 1
  MaxEpochs = 2
  MaxOthers = 1
  MaxSpins = 2
  MaxClicks = 2
  MaxPanels = 1
  MaxCredit = 1
  MaxFaults = 1
CHECK_DEADLOCK FALSE
INVARIANTS
  RevealHasAllChecks
