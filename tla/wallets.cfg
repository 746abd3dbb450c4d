\* One guild bids on the auctions of two others: its wallet and its quota are
\* shared by transactions that lock different auction rows.  Requests may die at
\* any point.
SPECIFICATION Spec
CONSTANTS
  g1 = g1  g2 = g2  g3 = g3
  i1 = i1  i2 = i2
  a1 = a1  a2 = a2
  p1 = p1  p2 = p2
  Guilds = {g1, g2, g3}
  NoGuild = NoGuild
  Items = {i1, i2}
  Legendary = {i1, i2}
  FirstOwner <- TwoSellers
  Auctions = {a1, a2}
  Procs = {p1, p2}
  Workers = {w1}
  StartPrices = {2}
  Durations = {1}
  BidAmounts = {2, 3}
  DepositAmounts = {}
  InitialGold = 4
  DailyLimit = 4
  MaxActive = 1
  Window = 0
  DayLength = 2
  Faults = {"abort"}
  ChecksProposedRow = FALSE
  MaxTime = 2
  MaxGold = 9
SYMMETRY SellerSymmetry
INVARIANTS TypeOK LeaderHoldsBid Solvent OnlyProceedsUnlogged QuotaMatchesReservations
PROPERTIES EscrowKept ClosedIsFinal
