------------------------------- MODULE Market -------------------------------
(***************************************************************************)
(* What the marketplace promises about its tables, with no statements,     *)
(* transactions, locks or failures: they only ever change by the whole     *)
(* effect of one request, and what is asked of the tables below is so at   *)
(* that moment.  The running program implements this (EffectsAreWhole).    *)
(* Three checks it makes too early to promise them at the commit, so they  *)
(* are not asked here: the owner in Offer and Open, a seller's number of   *)
(* auctions in Open, and the deadline of a bid.                            *)
(***************************************************************************)
EXTENDS Tables

CONSTANTS Asks, Openings

VARIABLE db

\* Two sets of rows written together
Both(w, v) == Write(w, v)

\* What guild g may spend today, in free gold and within its quota
MaySpend(g, n) ==
    /\ Guild(g) \in DOMAIN db
    /\ Reserved(db, g) + n <= db[Guild(g)].gold
    /\ GetDailySpent(db, g) + n <= db[Guild(g)].limit

FoundGuild(k) ==
    /\ k.limit > 0 /\ Guild(k.id) \notin DOMAIN db
    /\ \A g \in Keys(db, "guild") : db[Guild(g)].name # k.name
    /\ db' = Write(db, CreateGuild(k.id, k.name, k.limit))

\* A deposit is gold and an entry.
DepositGold(k) ==
    /\ k.amount > 0
    /\ Guild(k.guild) \in DOMAIN db
    /\ Log(<<k.id, 1>>) \notin DOMAIN db
    /\ db' = Write(db, Both(UpdateGuildBalance(db, k.guild, k.amount),
                            LogWalletTransaction(<<k.id, 1>>, k.guild, "deposit", k.amount)))

\* A legendary item is the only one of its name.
Mint(k) ==
    /\ Guild(k.guild) \in DOMAIN db /\ Item(k.id) \notin DOMAIN db
    /\ k.kind = "legendary" =>
         \A i \in OfKind(db, "legendary") : db[Item(i)].name # k.name
    /\ db' = Write(db, CreateItem(k.id, k.name, k.kind, k.guild))

\* Only what lies in an inventory is exposed, by then perhaps another guild's.
Offer(k) ==
    /\ Item(k.item) \in DOMAIN db /\ db[Item(k.item)].status = "sold"
    /\ db[Item(k.item)].kind # "legendary"
    /\ db' = Write(db, UpdateItemStatus(db, k.item, "available"))

\* A sale is gold, the item, the quota and an entry for each side.
Sell(k) ==
    LET row == db[Item(k.item)] IN
    /\ Item(k.item) \in DOMAIN db
    /\ row.status = "available" /\ row.price # 0 /\ row.owner # k.guild
    /\ MaySpend(k.guild, row.price)
    /\ Log(<<k.id, 1>>) \notin DOMAIN db /\ Log(<<k.id, 2>>) \notin DOMAIN db
    /\ db' = Write(db,
         Both(Both(Both(UpdateGuildBalance(db, k.guild, -row.price),
                        UpdateGuildBalance(db, row.owner, row.price)),
                   Both(TransferItemOwnership(db, k.item, k.guild, "sold"),
                        UpsertDailyPurchase(db, k.guild, row.price))),
              Both(LogWalletTransaction(<<k.id, 1>>, k.guild, "purchase", -row.price),
                   LogWalletTransaction(<<k.id, 2>>, row.owner, "refund", row.price))))

\* Only legendary items are auctioned, each once at a time; k.guild may have lost
\* the item meanwhile, or have more auctions than it is allowed.
Open(k) ==
    /\ k.amount > 0 /\ Auction(k.id) \notin DOMAIN db
    /\ Item(k.item) \in DOMAIN db /\ db[Item(k.item)].kind = "legendary"
    /\ ~OnSale(db, k.item)
    /\ db' = Write(db, CreateAuction(k.id, k.item, k.guild, k.amount))

\* A bid gives the one it replaces back: its reservation, its quota, an entry.
Release(k, row) ==
    LET b == CHOOSE x \in GetActiveBidByBidder(db, k.auction, row.winner) : TRUE IN
    IF row.winner = Nobody THEN NoRows
    ELSE Both(DeactivateBid(db, b),
              Both(LogWalletTransaction(<<k.id, 2>>, row.winner, "release", row.high),
                   UpsertDailyPurchase(db, row.winner, -row.high)))

\* It is itself a reservation, the standing of the auction, quota and an entry, and
\* it reaches the minimum: the start price, or 5% more than the bid it replaces.
Stake(k) ==
    LET row == db[Auction(k.auction)] IN
    /\ Auction(k.auction) \in DOMAIN db
    /\ row.status = "active" /\ row.seller # k.guild /\ row.winner # k.guild
    /\ k.amount > row.high /\ k.amount >= MinBid(row) /\ MaySpend(k.guild, k.amount)
    /\ Bid(k.id) \notin DOMAIN db /\ Log(<<k.id, 1>>) \notin DOMAIN db
    /\ db' = Write(db, Both(Release(k, row),
         Both(Both(CreateBid(k.id, k.auction, k.guild, k.amount),
                   UpdateAuctionBid(db, k.auction, k.guild, k.amount)),
              Both(LogWalletTransaction(<<k.id, 1>>, k.guild, "reserve", -k.amount),
                   UpsertDailyPurchase(db, k.guild, k.amount)))))

\* A closing gives the item and the gold away, or the item back, once.
Close(k) ==
    LET row == db[Auction(k.auction)] IN
    /\ Auction(k.auction) \in DOMAIN db /\ row.status = "active"
    /\ db' = Write(db,
         IF row.high = 0
           THEN Both(UpdateItemStatus(db, row.item, "available"),
                     CloseAuction(db, k.auction, "cancelled", Nobody))
           ELSE Both(Both(TransferItemOwnership(db, row.item, row.winner, "sold"),
                          UpdateGuildBalance(db, row.seller, row.high)),
                     CloseAuction(db, k.auction, "ended", row.winner)))

Effect(k) ==
    \/ k.op = "createGuild" /\ FoundGuild(k)
    \/ k.op = "deposit" /\ DepositGold(k)
    \/ k.op = "createItem" /\ Mint(k)
    \/ k.op = "list" /\ Offer(k)
    \/ k.op = "buy" /\ Sell(k)
    \/ k.op = "start" /\ Open(k)
    \/ k.op = "bid" /\ Stake(k)
    \/ k.op = "close" /\ Close(k)

Next == db' # db /\ \E k \in Asks : Effect(k)

Spec == db \in Openings /\ [][Next]_db
=============================================================================
