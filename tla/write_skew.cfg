\* Two requests of one seller both count to the last free place.
SPECIFICATION Spec
CONSTANTS
  g1 = g1  g2 = g2  g3 = g3
  i1 = i1  i2 = i2
  a1 = a1  a2 = a2
  p1 = p1  p2 = p2
  Guilds = {g1, g2, g3}
  NoGuild = NoGuild
  Items = {i1, i2}
  Legendary = {i1, i2}
  FirstOwner <- OneSeller
  Auctions = {a1, a2}
  Procs = {p1, p2}
  Workers = {w1}
  StartPrices = {20}
  Durations = {2}
  BidAmounts = {20, 21, 23}
  DepositAmounts = {}
  InitialGold = 22
  DailyLimit = 30
  MaxActive = 1
  Window = 1
  DayLength = 2
  Faults = {"abort"}
  ChecksProposedRow = TRUE
  MaxTime = 4
  MaxGold = 50
SYMMETRY ProcSymmetry
INVARIANTS AtMostMaxActive
