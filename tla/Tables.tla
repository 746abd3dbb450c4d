------------------------------- MODULE Tables -------------------------------
(***************************************************************************)
(* The tables of the marketplace and the queries of internal/db/sqlc.      *)
(*                                                                         *)
(* A state t of the tables maps the names of the rows that exist to their  *)
(* values.  A query that reads is an operator on t; a query that writes is *)
(* the set of rows it writes, again a function from names to values, which *)
(* Write lays over t.  Rows lack the columns nothing depends on:           *)
(* timestamps, base prices, descriptions.  All of it happens within one    *)
(* calendar day, so a guild has one row of daily_purchases.                *)
(***************************************************************************)
EXTENDS Integers, FiniteSets, Functions

CONSTANT Nobody  \* a NULL winner_id

Guild(g) == <<"guild", g>>      \* [name, gold, limit]
Item(i) == <<"item", i>>        \* [name, kind, owner, status, price]; price 0 is NULL
Auction(a) == <<"auction", a>>  \* [status, item, seller, start, high, winner]; high 0 is NULL
Bid(b) == <<"bid", b>>          \* [auction, bidder, amount, active]
Daily(g) == <<"daily", g>>      \* daily_purchases.total_spent
Log(k) == <<"log", k>>          \* wallet_transactions: [guild, type, amount]

\* Entries of the unique indexes, which exist only to be waited for: of two
\* transactions that insert the same entry, the second waits for the first.
ActiveEntry(i) == <<"idx_one_active_auction_per_item", i>>
BidEntry(a, g) == <<"idx_one_active_bid_per_bidder", a, g>>

NoRows == [r \in {} |-> 0]
OneRow(r, v) == [x \in {r} |-> v]
Write(t, w) == [r \in DOMAIN t \cup DOMAIN w |-> IF r \in DOMAIN w THEN w[r] ELSE t[r]]

\* PRIMARY KEY: the ids uuidv7() gives are new.
IsNew(t, r) == r \notin DOMAIN t

\* The rows of a table, by key
Keys(t, table) == {r[2] : r \in {x \in DOMAIN t : x[1] = table}}

-----------------------------------------------------------------------------
(* guilds, daily_purchases                                                 *)

CountGuilds(t) == Cardinality(Keys(t, "guild"))
ListGuilds(t) == Keys(t, "guild")
GetGuildByID(t, g) == t[Guild(g)]

\* Mutant: no UNIQUE on the name.
NeverTaken(t, n) == FALSE

NameTaken(t, n) == \E g \in Keys(t, "guild") : t[Guild(g)].name = n
CreateGuild(g, n, limit) == OneRow(Guild(g), [name |-> n, gold |-> 0, limit |-> limit])

GetDailySpent(t, g) == IF Daily(g) \in DOMAIN t THEN t[Daily(g)] ELSE 0

\* Every active bid reserves its amount, whatever became of its auction.
ActiveBids(t, g) ==
    {b \in Keys(t, "bid") : t[Bid(b)].bidder = g /\ t[Bid(b)].active}
Reserved(t, g) ==
    SumFunctionOnSet([b \in ActiveBids(t, g) |-> t[Bid(b)].amount], ActiveBids(t, g))
GetWalletSummary(t, g) ==
    [total |-> t[Guild(g)].gold, reserved |-> Reserved(t, g),
     available |-> t[Guild(g)].gold - Reserved(t, g)]

\* No row is returned when the balance would become negative.
BalanceSuffices(t, g, x) == t[Guild(g)].gold + x >= 0
UpdateGuildBalance(t, g, x) == OneRow(Guild(g), [t[Guild(g)] EXCEPT !.gold = @ + x])

\* CHECK (total_spent >= 0) is judged on the row proposed, before ON CONFLICT.
UpsertRefused(x) == x < 0
UpsertDailyPurchase(t, g, x) == OneRow(Daily(g), GetDailySpent(t, g) + x)

LogWalletTransaction(k, g, type, x) ==
    OneRow(Log(k), [guild |-> g, type |-> type, amount |-> x])

-----------------------------------------------------------------------------
(* items                                                                   *)

Available(t) == {i \in Keys(t, "item") : t[Item(i)].status = "available"}
OfKind(t, kind) == {i \in Keys(t, "item") : t[Item(i)].kind = kind}

\* Mutant: the total counts every item.
CountItems(t) == Cardinality(Keys(t, "item"))

CountAvailableItems(t) == Cardinality(Available(t))
ListAvailableItems(t) == Available(t)
CountAvailableItemsByType(t, kind) == Cardinality(Available(t) \cap OfKind(t, kind))
ListAvailableItemsByType(t, kind) == Available(t) \cap OfKind(t, kind)
GetItemsByOwner(t, g) == {i \in Keys(t, "item") : t[Item(i)].owner = g}
GetItemByID(t, i) == t[Item(i)]

LegendTaken(t, n) == \E i \in OfKind(t, "legendary") : t[Item(i)].name = n
CreateItem(i, n, kind, g) ==
    OneRow(Item(i), [name |-> n, kind |-> kind, owner |-> g, status |-> "sold", price |-> 0])

TransferItemOwnership(t, i, g, status) ==
    OneRow(Item(i), [t[Item(i)] EXCEPT !.owner = g, !.status = status])
UpdateItemStatus(t, i, status) == OneRow(Item(i), [t[Item(i)] EXCEPT !.status = status])

-----------------------------------------------------------------------------
(* auctions, bids                                                          *)

ActiveAuctions(t) == {a \in Keys(t, "auction") : t[Auction(a)].status = "active"}
CountActiveAuctions(t) == Cardinality(ActiveAuctions(t))
ListActiveAuctions(t) == ActiveAuctions(t)
CountActiveAuctionsBySeller(t, g) ==
    Cardinality({a \in ActiveAuctions(t) : t[Auction(a)].seller = g})
GetAuction(t, a) == t[Auction(a)]

\* ceil(high * 1.05)
MinBid(row) == IF row.high = 0 THEN row.start ELSE (21 * row.high + 19) \div 20

OnSale(t, i) == \E a \in ActiveAuctions(t) : t[Auction(a)].item = i
CreateAuction(a, i, g, start) ==
    OneRow(Auction(a), [status |-> "active", item |-> i, seller |-> g, start |-> start,
                        high |-> 0, winner |-> Nobody])

UpdateAuctionBid(t, a, g, n) ==
    OneRow(Auction(a), [t[Auction(a)] EXCEPT !.high = n, !.winner = g])
CloseAuction(t, a, status, winner) ==
    OneRow(Auction(a), [t[Auction(a)] EXCEPT !.status = status, !.winner = winner])

\* At most one, by the unique index
GetActiveBidByBidder(t, a, g) == {b \in ActiveBids(t, g) : t[Bid(b)].auction = a}
CreateBid(b, a, g, n) ==
    OneRow(Bid(b), [auction |-> a, bidder |-> g, amount |-> n, active |-> TRUE])
DeactivateBid(t, b) == OneRow(Bid(b), [t[Bid(b)] EXCEPT !.active = FALSE])

-----------------------------------------------------------------------------
(* Tables as they should be.                                               *)

\* The columns of a row
GuildColumns(v) == v \in [name : {v.name}, gold : Nat, limit : Int]
ItemColumns(v) ==
    v \in [name : {v.name}, kind : {v.kind}, owner : {v.owner}, status : {v.status}, price : Nat]
AuctionColumns(v) ==
    v \in [status : {v.status}, item : {v.item}, seller : {v.seller}, start : Int, high : Nat,
          winner : {v.winner}]
BidColumns(v) ==
    v \in [auction : {v.auction}, bidder : {v.bidder}, amount : Nat \ {0}, active : BOOLEAN]

LogColumns(v) == v \in [guild : {v.guild}, type : {v.type}, amount : Int]

Typed(t) ==
    /\ t = [r \in DOMAIN t |-> t[r]] /\ IsFiniteSet(DOMAIN t)
    /\ \A r \in DOMAIN t :
         /\ r = <<r[1], r[2]>>
         /\ r[1] = "guild" => GuildColumns(t[r])
         /\ r[1] = "item" => ItemColumns(t[r])
         /\ r[1] = "auction" => AuctionColumns(t[r])
         /\ r[1] = "bid" => BidColumns(t[r])
         /\ r[1] = "daily" => t[r] \in Nat
         /\ r[1] = "log" => LogColumns(t[r])

\* The foreign keys
Referential(t) ==
    /\ \A i \in Keys(t, "item") : Guild(t[Item(i)].owner) \in DOMAIN t
    /\ \A a \in Keys(t, "auction") :
         LET row == t[Auction(a)] IN
         /\ Item(row.item) \in DOMAIN t /\ Guild(row.seller) \in DOMAIN t
         /\ row.winner # Nobody => Guild(row.winner) \in DOMAIN t
    /\ \A b \in Keys(t, "bid") :
         Auction(t[Bid(b)].auction) \in DOMAIN t /\ Guild(t[Bid(b)].bidder) \in DOMAIN t
    /\ \A g \in Keys(t, "daily") : Guild(g) \in DOMAIN t
    /\ \A k \in Keys(t, "log") : Guild(t[Log(k)].guild) \in DOMAIN t

\* The standing of an auction is an active bid of its leader.  It stays active once
\* the auction has ended: that is how the winner goes on paying.
Led(t) ==
    \A a \in Keys(t, "auction") :
      LET row == t[Auction(a)] IN
      IF row.winner = Nobody THEN row.high = 0
      ELSE \E b \in GetActiveBidByBidder(t, a, row.winner) : t[Bid(b)].amount = row.high

Sound(t) == Typed(t) /\ Referential(t) /\ Led(t)

\* No guild has promised more gold, or used more quota, than it has.
WithinMeans(t) ==
    \A g \in Keys(t, "guild") :
      /\ Reserved(t, g) <= t[Guild(g)].gold
      /\ GetDailySpent(t, g) <= t[Guild(g)].limit

-----------------------------------------------------------------------------
(* The books.                                                              *)

\* What the wallet transactions of guild g add up to
Entries(t, g) == {k \in Keys(t, "log") : t[Log(k)].guild = g}
Logged(t, g) == SumFunctionOnSet([k \in Entries(t, g) |-> t[Log(k)].amount], Entries(t, g))

\* What guild g has been paid for what it auctioned, which no entry records
SoldBy(t, g) ==
    {a \in Keys(t, "auction") : t[Auction(a)].seller = g /\ t[Auction(a)].status = "ended"}
Proceeds(t, g) ==
    SumFunctionOnSet([a \in SoldBy(t, g) |-> t[Auction(a)].high], SoldBy(t, g))

\* What of a guild's free gold its books do not explain
Unexplained(t, g) ==
    GetWalletSummary(t, g).available - Logged(t, g) - Proceeds(t, g)
=============================================================================
