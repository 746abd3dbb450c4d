\* Bids, settlements, purchases and the rest on two auctions and three guilds,
\* with the quota constraint judged on the result and one item that has a price.
SPECIFICATION Spec
CONSTANTS
  g1 = g1  g2 = g2  g3 = g3
  Guilds = {g1, g2, g3}
  NoGuild = NoGuild
  Auctions = {a1, a2}
  Items = {i1, i2, i3}
  Legendary = {i1, i2}
  Priced = {i3}
  FirstOwner <- OneSeller
  Txs = {t1, t2, t3}
  Kinds = {"bid", "settle", "start", "buy", "list", "deposit", "mint"}
  ChecksProposedRow = FALSE
SYMMETRY Interchangeable
INVARIANTS TypeOK WalletsSerialised SettlementNeverDeadlocks
