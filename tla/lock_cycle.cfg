\* Two leaders outbid each other; nothing on sale has a price.
SPECIFICATION Spec
CONSTANTS
  g1 = g1  g2 = g2  g3 = g3
  Guilds = {g1, g2, g3}
  NoGuild = NoGuild
  Auctions = {a1, a2}
  Items = {i1, i2, i3}
  Legendary = {i1, i2}
  Priced = {}
  FirstOwner <- OneSeller
  Txs = {t1, t2, t3}
  Kinds = {"bid", "settle", "start", "buy", "list", "deposit", "mint"}
  ChecksProposedRow = TRUE
SYMMETRY Interchangeable
INVARIANTS NoDeadlock
