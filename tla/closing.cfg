\* Two workers close the auctions of one seller, with failed closings and
\* restarts of the app, while bids move deadlines and two requests count the
\* seller's auctions together and guilds deposit gold.
SPECIFICATION Spec
CONSTANTS
  g1 = g1  g2 = g2  g3 = g3
  i1 = i1  i2 = i2
  a1 = a1  a2 = a2
  p1 = p1  p2 = p2
  Guilds = {g1, g2}
  NoGuild = NoGuild
  Items = {i1, i2, i3}
  Legendary = {i1, i2, i3}
  FirstOwner <- OneSeller
  Auctions = {a1, a2, a3}
  Procs = {p1, p2}
  Workers = {w1, w2}
  StartPrices = {1}
  Durations = {1}
  BidAmounts = {1}
  DepositAmounts = {1}
  InitialGold = 2
  DailyLimit = 30
  MaxActive = 1
  Window = 1
  DayLength = 2
  Faults = {"crash", "finalize"}
  ChecksProposedRow = FALSE
  MaxTime = 2
  MaxGold = 3
SYMMETRY OneSellerSymmetry
PROPERTIES UnsoldClosedOnTime
INVARIANTS OverrunBounded
