\* Two requests, two items that may have a price and a legendary one.  3 gold
\* pays for an item at 2 or for bids of 1, never for both twice; who sells may
\* have more gold than the quota of 4.
SPECIFICATION Spec
CONSTANTS
  Guilds = {g1, g2, g3}
  Items = {i1, i2, i3}
  Legendary = {i3}
  Procs = {p1, p2}
  Prices = {2}
  Stakes = {1}
  InitialGold = 3
  DailyLimit = 4
SYMMETRY Interchangeable
INVARIANTS TypeOK Solvent WithinQuota LedgerExplains GoldConserved
PROPERTIES SoldOnce LegendaryOnlyAuctioned
