-------------------------- MODULE ImplementationProofs --------------------------
(***************************************************************************)
(* The running program implements Market: every step of every goroutine is *)
(* a step of Market or leaves the tables alone.  What the statements of a  *)
(* transaction have read and written is told by its draft (EffectsProofs); *)
(* here the draft at its commit is shown to be the effect Market promises. *)
(* From that: answers are true, and only one seeding leaves anything.      *)
(***************************************************************************)
EXTENDS EffectsProofs

-----------------------------------------------------------------------------
(* The queries of Promise are those of Tables.                             *)

LEMMA PromiseBalance == \A t, g, x : Promise!UpdateGuildBalance(t, g, x) = UpdateGuildBalance(t, g, x)
BY PromiseNames, PromiseRows DEF UpdateGuildBalance, Promise!UpdateGuildBalance

LEMMA PromiseLog ==
    \A k, g, type, x : Promise!LogWalletTransaction(k, g, type, x) = LogWalletTransaction(k, g, type, x)
BY PromiseNames, PromiseRows DEF LogWalletTransaction, Promise!LogWalletTransaction

LEMMA PromiseQuota == \A t, g, x : Promise!UpsertDailyPurchase(t, g, x) = UpsertDailyPurchase(t, g, x)
BY PromiseNames, PromiseRows, PromiseDaily DEF UpsertDailyPurchase, Promise!UpsertDailyPurchase

LEMMA PromiseGuild == \A g, n, limit : Promise!CreateGuild(g, n, limit) = CreateGuild(g, n, limit)
BY PromiseNames, PromiseRows DEF CreateGuild, Promise!CreateGuild

LEMMA PromiseItem == \A i, n, kind, g : Promise!CreateItem(i, n, kind, g) = CreateItem(i, n, kind, g)
BY PromiseNames, PromiseRows DEF CreateItem, Promise!CreateItem

LEMMA PromiseStatus == \A t, i, status : Promise!UpdateItemStatus(t, i, status) = UpdateItemStatus(t, i, status)
BY PromiseNames, PromiseRows DEF UpdateItemStatus, Promise!UpdateItemStatus

LEMMA PromiseTransfer ==
    \A t, i, g, status : Promise!TransferItemOwnership(t, i, g, status) = TransferItemOwnership(t, i, g, status)
BY PromiseNames, PromiseRows DEF TransferItemOwnership, Promise!TransferItemOwnership

LEMMA PromiseAuction ==
    \A a, i, g, start : Promise!CreateAuction(a, i, g, start) = CreateAuction(a, i, g, start)
BY PromiseNames, PromiseRows DEF CreateAuction, Promise!CreateAuction

LEMMA PromiseStanding ==
    \A t, a, g, n : Promise!UpdateAuctionBid(t, a, g, n) = UpdateAuctionBid(t, a, g, n)
BY PromiseNames, PromiseRows DEF UpdateAuctionBid, Promise!UpdateAuctionBid

LEMMA PromiseClosing ==
    \A t, a, status, winner : Promise!CloseAuction(t, a, status, winner) = CloseAuction(t, a, status, winner)
BY PromiseNames, PromiseRows DEF CloseAuction, Promise!CloseAuction

LEMMA PromiseBid == \A b, a, g, n : Promise!CreateBid(b, a, g, n) = CreateBid(b, a, g, n)
BY PromiseNames, PromiseRows DEF CreateBid, Promise!CreateBid

LEMMA PromiseKind == \A t, kind : Promise!OfKind(t, kind) = OfKind(t, kind)
BY PromiseNames, PromiseRows DEF OfKind, Promise!OfKind

LEMMA PromiseSale == \A t, i : Promise!OnSale(t, i) <=> OnSale(t, i)
BY PromiseNames, PromiseRows DEF OnSale, ActiveAuctions, Promise!OnSale, Promise!ActiveAuctions

LEMMA PromiseMinimum == \A row : row.high = 0 => Promise!MinBid(row) = row.start
BY DEF Promise!MinBid

-----------------------------------------------------------------------------
(* Drafts that commit are the effects Market promises.                     *)

LEMMA FoundEffect ==
    ASSUME NEW k, k.limit > 0, Guild(k.id) \notin DOMAIN db, ~NameTaken(db, k.name), db' = Write(db, CreateGuild(k.id, k.name, k.limit))
    PROVE  Promise!FoundGuild(k)
BY PromiseNames, PromiseRows, PromiseGuild DEF NameTaken, Promise!FoundGuild

LEMMA MintEffect ==
    ASSUME NEW k, Guild(k.guild) \in DOMAIN db, Item(k.id) \notin DOMAIN db,
           k.kind = "legendary" => ~LegendTaken(db, k.name),
           db' = Write(db, CreateItem(k.id, k.name, k.kind, k.guild))
    PROVE  Promise!Mint(k)
BY PromiseNames, PromiseRows, PromiseItem, PromiseKind DEF LegendTaken, Promise!Mint

LEMMA DepositEffect ==
    ASSUME NEW k, k.amount > 0, Guild(k.guild) \in DOMAIN db, Log(<<k.id, 1>>) \notin DOMAIN db,
           db' = Write(db, Deposited(db, k))
    PROVE  Promise!DepositGold(k)
BY PromiseNames, PromiseRows, PromiseBalance, PromiseLog DEF Deposited, Credited, Promise!DepositGold

LEMMA ListEffect ==
    ASSUME NEW k, Item(k.item) \in DOMAIN db, db[Item(k.item)].status = "sold",
           db[Item(k.item)].kind # "legendary", db' = Write(db, Exposed(db, k))
    PROVE  Promise!Offer(k)
BY PromiseNames, PromiseRows, PromiseStatus DEF Exposed, Promise!Offer

LEMMA BuyEffect ==
    ASSUME NEW k, NEW o, Item(k.item) \in DOMAIN db, db[Item(k.item)] = o,
           o.status = "available", o.price # 0, o.owner # k.guild,
           CanPay(db, k.guild, o.price), Log(<<k.id, 1>>) \notin DOMAIN db,
           Log(<<k.id, 2>>) \notin DOMAIN db, db' = Write(db, Bought(db, k, o))
    PROVE  Promise!Sell(k)
<1> DEFINE c == UpdateGuildBalance(db, k.guild, -o.price)
           s == UpdateGuildBalance(db, o.owner, o.price)
           i == TransferItemOwnership(db, k.item, k.guild, "sold")
           d == UpsertDailyPurchase(db, k.guild, o.price)
           l == LogWalletTransaction(<<k.id, 1>>, k.guild, "purchase", -o.price)
           m == LogWalletTransaction(<<k.id, 2>>, o.owner, "refund", o.price)
<1>1. Bought(db, k, o) = Write(Write(Write(Write(Write(c, s), i), d), l), m)
  BY DEF Bought, Noted, Counted, Moved, Paid, Charged
<1>2. /\ c = Promise!UpdateGuildBalance(db, k.guild, -o.price)
      /\ s = Promise!UpdateGuildBalance(db, o.owner, o.price)
      /\ i = Promise!TransferItemOwnership(db, k.item, k.guild, "sold")
      /\ d = Promise!UpsertDailyPurchase(db, k.guild, o.price)
      /\ l = Promise!LogWalletTransaction(<<k.id, 1>>, k.guild, "purchase", -o.price)
      /\ m = Promise!LogWalletTransaction(<<k.id, 2>>, o.owner, "refund", o.price)
  BY PromiseBalance, PromiseTransfer, PromiseQuota, PromiseLog
<1> HIDE DEF c, s, i, d, l, m
<1>3. Write(Write(Write(c, s), i), d) = Write(Write(c, s), Write(i, d))
  BY WriteAssociates
<1>4. Write(Write(Write(Write(c, s), Write(i, d)), l), m)
        = Write(Write(Write(c, s), Write(i, d)), Write(l, m))
  BY WriteAssociates
<1>5. db' = Write(db, Write(Write(Write(c, s), Write(i, d)), Write(l, m)))
  BY <1>1, <1>3, <1>4
<1>6. db' = Promise!Write(db, Promise!Both(Promise!Both(Promise!Both(c, s), Promise!Both(i, d)),
                                           Promise!Both(l, m)))
  BY <1>5, PromiseRows
<1>7. Promise!MaySpend(k.guild, o.price)
  BY MaySpendMeans
<1>8. Promise!Item(k.item) \in DOMAIN db /\ db[Promise!Item(k.item)] = o
      /\ Promise!Log(<<k.id, 1>>) \notin DOMAIN db /\ Promise!Log(<<k.id, 2>>) \notin DOMAIN db
  BY PromiseNames
<1>9. QED
  BY <1>2, <1>6, <1>7, <1>8 DEF Promise!Sell

LEMMA StartEffect ==
    ASSUME NEW k, k.amount > 0, Auction(k.id) \notin DOMAIN db, Item(k.item) \in DOMAIN db, db[Item(k.item)].kind = "legendary",
           ~OnSale(db, k.item), db' = Write(db, CreateAuction(k.id, k.item, k.guild, k.amount))
    PROVE  Promise!Open(k)
BY PromiseNames, PromiseRows, PromiseAuction, PromiseSale DEF Promise!Open

\* Bid k reaches the start price of its auction, as long as there is no bid.
Reaches(t, k) ==
    /\ Auction(k.auction) \in DOMAIN t
    /\ t[Auction(k.auction)].high = 0 => k.amount >= t[Auction(k.auction)].start

\* The first bid of an auction; what Market says of later ones the code never does.
LEMMA BidEffect ==
    ASSUME NEW k, Sound(db), Auction(k.auction) \in DOMAIN db,
           db[Auction(k.auction)].status = "active", db[Auction(k.auction)].seller # k.guild,
           db[Auction(k.auction)].winner # k.guild, db[Auction(k.auction)].winner = Nobody,
           Reaches(db, k), k.amount \in Nat \ {0}, CanPay(db, k.guild, k.amount), Bid(k.id) \notin DOMAIN db,
           Log(<<k.id, 1>>) \notin DOMAIN db, db' = Write(db, Placed(db, k))
    PROVE  Promise!Stake(k)
<1> DEFINE row == db[Auction(k.auction)]
           b == CreateBid(k.id, k.auction, k.guild, k.amount)
           u == UpdateAuctionBid(db, k.auction, k.guild, k.amount)
           l == LogWalletTransaction(<<k.id, 1>>, k.guild, "reserve", -k.amount)
           d == UpsertDailyPurchase(db, k.guild, k.amount)
<1>1. row.high = 0
  <2>1. k.auction \in Keys(db, "auction")
    BY KeysAreNames DEF Sound
  <2>2. QED
    BY <2>1 DEF Sound, Led
<1>2. Placed(db, k) = Write(Write(Write(b, u), l), d)
  BY DEF Placed, Staked, Leading, Recorded
<1>3. /\ b = Promise!CreateBid(k.id, k.auction, k.guild, k.amount)
      /\ u = Promise!UpdateAuctionBid(db, k.auction, k.guild, k.amount)
      /\ l = Promise!LogWalletTransaction(<<k.id, 1>>, k.guild, "reserve", -k.amount)
      /\ d = Promise!UpsertDailyPurchase(db, k.guild, k.amount)
  BY PromiseBid, PromiseStanding, PromiseLog, PromiseQuota
<1>4. /\ Promise!Auction(k.auction) \in DOMAIN db /\ db[Promise!Auction(k.auction)] = row
      /\ Promise!Bid(k.id) \notin DOMAIN db /\ Promise!Log(<<k.id, 1>>) \notin DOMAIN db
  BY PromiseNames
<1>5. Promise!MaySpend(k.guild, k.amount)
  BY MaySpendMeans
<1>6. Promise!Release(k, row) = NoRows
  BY PromiseRows DEF Promise!Release
<1> HIDE DEF b, u, l, d
<1>7. Placed(db, k) = Write(Write(b, u), Write(l, d))
  BY <1>2, WriteAssociates
<1>8. Write(NoRows, Write(Write(b, u), Write(l, d))) = Write(Write(b, u), Write(l, d))
  BY WriteOverNothing, PutTable
<1>9. db' = Promise!Write(db, Promise!Both(Promise!Release(k, row),
                                 Promise!Both(Promise!Both(b, u), Promise!Both(l, d))))
  BY <1>6, <1>7, <1>8, PromiseRows
<1>10. k.amount > row.high /\ k.amount >= Promise!MinBid(row)
  BY <1>1, PromiseMinimum DEF Reaches
<1> HIDE DEF row
<1>11. row.status = "active" /\ row.seller # k.guild /\ row.winner # k.guild
  BY DEF row
<1>12. QED
  BY <1>3, <1>4, <1>5, <1>9, <1>10, <1>11 DEF Promise!Stake

LEMMA UnsoldEffect ==
    ASSUME NEW k, NEW o, Auction(k.auction) \in DOMAIN db, db[Auction(k.auction)] = o,
           o.status = "active", o.high = 0, db' = Write(db, Unsold(db, k, o))
    PROVE  Promise!Close(k)
BY PromiseNames, PromiseRows, PromiseStatus, PromiseClosing DEF Unsold, Restored, Promise!Close

LEMMA SoldEffect ==
    ASSUME NEW k, NEW o, Auction(k.auction) \in DOMAIN db, db[Auction(k.auction)] = o,
           o.status = "active", o.high # 0, db' = Write(db, Sold(db, k, o))
    PROVE  Promise!Close(k)
BY PromiseNames, PromiseRows, PromiseTransfer, PromiseBalance, PromiseClosing
DEF Sold, Settled, HandedOver, Promise!Close

-----------------------------------------------------------------------------
(* The seeder's calls skip the checks of the services: their items are the *)
(* ones it has created itself.                                             *)

\* The calls of the plan, one by one
LEMMA Seed1 ==
    ASSUME NEW x, NEW k
    PROVE  /\ SeedAsk(x, k, 1).id = SeedId(x, k, 1)
           /\ SeedAsk(x, k, 1).op = "createGuild"
           /\ SeedAsk(x, k, 1).name = "Dragon Slayers Order"
<1> DEFINE s == SeedAsk(x, k, 1)
           most == 50000
<1>1. s = [id |-> SeedId(x, k, 1), op |-> "createGuild", name |-> "Dragon Slayers Order", limit |-> most]
  BY DEF SeedAsk, SeedPlan
<1> HIDE DEF s, most
<1>2. s.id = SeedId(x, k, 1) /\ s.op = "createGuild" /\ s.name = "Dragon Slayers Order"
  BY <1>1
<1>3. QED
  BY <1>2 DEF s
LEMMA Seed2 ==
    ASSUME NEW x, NEW k
    PROVE  /\ SeedAsk(x, k, 2).id = SeedId(x, k, 2)
           /\ SeedAsk(x, k, 2).op = "deposit"
           /\ SeedAsk(x, k, 2).amount > 0
<1> DEFINE s == SeedAsk(x, k, 2)
           most == 100000
<1>0. most > 0
  OBVIOUS
<1>1. s = [id |-> SeedId(x, k, 2), op |-> "deposit", guild |-> SeedId(x, k, 1), amount |-> most]
  BY DEF SeedAsk, SeedPlan
<1> HIDE DEF s, most
<1>2. s.id = SeedId(x, k, 2) /\ s.op = "deposit" /\ s.amount > 0
  BY <1>0, <1>1
<1>3. QED
  BY <1>2 DEF s
LEMMA Seed3 ==
    ASSUME NEW x, NEW k
    PROVE  /\ SeedAsk(x, k, 3).id = SeedId(x, k, 3)
           /\ SeedAsk(x, k, 3).op = "createGuild"
<1> DEFINE s == SeedAsk(x, k, 3)
           most == 30000
<1>1. s = [id |-> SeedId(x, k, 3), op |-> "createGuild", name |-> "Shadow Whispers Syndicate",
           limit |-> most]
  BY DEF SeedAsk, SeedPlan
<1> HIDE DEF s, most
<1>2. s.id = SeedId(x, k, 3) /\ s.op = "createGuild"
  BY <1>1
<1>3. QED
  BY <1>2 DEF s
LEMMA Seed4 ==
    ASSUME NEW x, NEW k
    PROVE  /\ SeedAsk(x, k, 4).id = SeedId(x, k, 4)
           /\ SeedAsk(x, k, 4).op = "deposit"
           /\ SeedAsk(x, k, 4).amount > 0
<1> DEFINE s == SeedAsk(x, k, 4)
           most == 75000
<1>0. most > 0
  OBVIOUS
<1>1. s = [id |-> SeedId(x, k, 4), op |-> "deposit", guild |-> SeedId(x, k, 3), amount |-> most]
  BY DEF SeedAsk, SeedPlan
<1> HIDE DEF s, most
<1>2. s.id = SeedId(x, k, 4) /\ s.op = "deposit" /\ s.amount > 0
  BY <1>0, <1>1
<1>3. QED
  BY <1>2 DEF s
LEMMA Seed5 ==
    ASSUME NEW x, NEW k
    PROVE  /\ SeedAsk(x, k, 5).id = SeedId(x, k, 5)
           /\ SeedAsk(x, k, 5).op = "createItem"
           /\ SeedAsk(x, k, 5).kind = "common"
<1> DEFINE s == SeedAsk(x, k, 5)
<1>1. s = [id |-> SeedId(x, k, 5), op |-> "createItem", guild |-> SeedId(x, k, 1),
           name |-> "Iron Broadsword", kind |-> "common"]
  BY DEF SeedAsk, SeedPlan
<1> HIDE DEF s
<1>2. s.id = SeedId(x, k, 5) /\ s.op = "createItem" /\ s.kind = "common"
  BY <1>1
<1>3. QED
  BY <1>2 DEF s
LEMMA Seed6 ==
    ASSUME NEW x, NEW k
    PROVE  /\ SeedAsk(x, k, 6).id = SeedId(x, k, 6)
           /\ SeedAsk(x, k, 6).op = "list"
           /\ SeedAsk(x, k, 6).item = SeedId(x, k, 5)
<1> DEFINE s == SeedAsk(x, k, 6)
<1>1. s = [id |-> SeedId(x, k, 6), op |-> "list", item |-> SeedId(x, k, 5),
           guild |-> SeedId(x, k, 1), amount |-> 150]
  BY DEF SeedAsk, SeedPlan
<1> HIDE DEF s
<1>2. s.id = SeedId(x, k, 6) /\ s.op = "list" /\ s.item = SeedId(x, k, 5)
  BY <1>1
<1>3. QED
  BY <1>2 DEF s
LEMMA Seed7 ==
    ASSUME NEW x, NEW k
    PROVE  /\ SeedAsk(x, k, 7).id = SeedId(x, k, 7)
           /\ SeedAsk(x, k, 7).op = "createItem"
           /\ SeedAsk(x, k, 7).kind = "rare"
<1> DEFINE s == SeedAsk(x, k, 7)
<1>1. s = [id |-> SeedId(x, k, 7), op |-> "createItem", guild |-> SeedId(x, k, 3),
           name |-> "Mana Infused Chestplate", kind |-> "rare"]
  BY DEF SeedAsk, SeedPlan
<1> HIDE DEF s
<1>2. s.id = SeedId(x, k, 7) /\ s.op = "createItem" /\ s.kind = "rare"
  BY <1>1
<1>3. QED
  BY <1>2 DEF s
LEMMA Seed8 ==
    ASSUME NEW x, NEW k
    PROVE  /\ SeedAsk(x, k, 8).id = SeedId(x, k, 8)
           /\ SeedAsk(x, k, 8).op = "list"
           /\ SeedAsk(x, k, 8).item = SeedId(x, k, 7)
<1> DEFINE s == SeedAsk(x, k, 8)
<1>1. s = [id |-> SeedId(x, k, 8), op |-> "list", item |-> SeedId(x, k, 7),
           guild |-> SeedId(x, k, 3), amount |-> 1200]
  BY DEF SeedAsk, SeedPlan
<1> HIDE DEF s
<1>2. s.id = SeedId(x, k, 8) /\ s.op = "list" /\ s.item = SeedId(x, k, 7)
  BY <1>1
<1>3. QED
  BY <1>2 DEF s
LEMMA Seed9 ==
    ASSUME NEW x, NEW k
    PROVE  /\ SeedAsk(x, k, 9).id = SeedId(x, k, 9)
           /\ SeedAsk(x, k, 9).op = "createItem"
           /\ SeedAsk(x, k, 9).kind = "legendary"
<1> DEFINE s == SeedAsk(x, k, 9)
<1>1. s = [id |-> SeedId(x, k, 9), op |-> "createItem", guild |-> SeedId(x, k, 1),
           name |-> "Vorynthax Frostmaw Staff", kind |-> "legendary"]
  BY DEF SeedAsk, SeedPlan
<1> HIDE DEF s
<1>2. s.id = SeedId(x, k, 9) /\ s.op = "createItem" /\ s.kind = "legendary"
  BY <1>1
<1>3. QED
  BY <1>2 DEF s
LEMMA Seed10 ==
    ASSUME NEW x, NEW k
    PROVE  /\ SeedAsk(x, k, 10).id = SeedId(x, k, 10)
           /\ SeedAsk(x, k, 10).op = "start"
           /\ SeedAsk(x, k, 10).item = SeedId(x, k, 9)
           /\ SeedAsk(x, k, 10).amount > 0
<1> DEFINE s == SeedAsk(x, k, 10)
           most == 6500
<1>0. most > 0
  OBVIOUS
<1>1. s = [id |-> SeedId(x, k, 10), op |-> "start", item |-> SeedId(x, k, 9),
           guild |-> SeedId(x, k, 1), amount |-> most]
  BY DEF SeedAsk, SeedPlan
<1> HIDE DEF s, most
<1>2. s.id = SeedId(x, k, 10) /\ s.op = "start" /\ s.item = SeedId(x, k, 9) /\ s.amount > 0
  BY <1>0, <1>1
<1>3. QED
  BY <1>2 DEF s

LEMMA SeedOps ==
    ASSUME NEW x, NEW k
    PROVE  /\ SeedAsk(x, k, 1).op = "createGuild" /\ SeedAsk(x, k, 2).op = "deposit"
           /\ SeedAsk(x, k, 3).op = "createGuild" /\ SeedAsk(x, k, 4).op = "deposit"
           /\ SeedAsk(x, k, 5).op = "createItem" /\ SeedAsk(x, k, 6).op = "list"
           /\ SeedAsk(x, k, 7).op = "createItem" /\ SeedAsk(x, k, 8).op = "list"
           /\ SeedAsk(x, k, 9).op = "createItem" /\ SeedAsk(x, k, 10).op = "start"
BY Seed1, Seed2, Seed3, Seed4, Seed5, Seed6, Seed7, Seed8, Seed9, Seed10

\* What a seeder lists, it has created, and it is not legendary; what it puts up
\* for auction is.
LEMMA SeedItems ==
    ASSUME NEW s \in SeedAsks, s.op \in {"list", "start"}
    PROVE  \E m \in SeedAsks : /\ m.op = "createItem" /\ m.id = s.item
                               /\ m.kind = "legendary" <=> s.op = "start"
<1>1. PICK x \in Apps, k \in 1..MaxStarts, n \in 1..10 : s = SeedAsk(x, k, n)
  BY DEF SeedAsks
<1>2. n \in {6, 8, 10}
  BY <1>1, SeedOps
<1>3. CASE n = 6
  <2>1. s.item = SeedAsk(x, k, 5).id /\ s.op = "list" /\ SeedAsk(x, k, 5).kind = "common"
    BY <1>1, <1>3, Seed5, Seed6
  <2>2. SeedAsk(x, k, 5) \in SeedAsks /\ SeedAsk(x, k, 5).op = "createItem"
    BY Seed5 DEF SeedAsks
  <2>3. QED
    BY <2>1, <2>2
<1>4. CASE n = 8
  <2>1. s.item = SeedAsk(x, k, 7).id /\ s.op = "list" /\ SeedAsk(x, k, 7).kind = "rare"
    BY <1>1, <1>4, Seed7, Seed8
  <2>2. SeedAsk(x, k, 7) \in SeedAsks /\ SeedAsk(x, k, 7).op = "createItem"
    BY Seed7 DEF SeedAsks
  <2>3. QED
    BY <2>1, <2>2
<1>5. CASE n = 10
  <2>1. s.item = SeedAsk(x, k, 9).id /\ s.op = "start" /\ SeedAsk(x, k, 9).kind = "legendary"
    BY <1>1, <1>5, Seed9, Seed10
  <2>2. SeedAsk(x, k, 9) \in SeedAsks /\ SeedAsk(x, k, 9).op = "createItem"
    BY Seed9 DEF SeedAsks
  <2>3. QED
    BY <2>1, <2>2
<1>6. QED
  BY <1>2, <1>3, <1>4, <1>5

\* Items a seeder has created are of the kind it gave them.
SeedKinds(t) ==
    \A s \in SeedAsks : (s.op = "createItem" /\ Item(s.id) \in DOMAIN t) => t[Item(s.id)].kind = s.kind

\* What is put into a wallet, or asked for as a first bid, is not nothing.
Positive(k) == k.op \in {"deposit", "start"} => k.amount > 0

LEMMA SeedPositive == ASSUME NEW s \in SeedAsks PROVE Positive(s)
<1>1. PICK x \in Apps, k \in 1..MaxStarts, n \in 1..10 : s = SeedAsk(x, k, n)
  BY DEF SeedAsks
<1>2. s.op \in {"deposit", "start"} => n \in {2, 4, 10}
  BY <1>1, SeedOps
<1>3. QED
  BY <1>1, <1>2, Seed2, Seed4, Seed10 DEF Positive

LEMMA SeedsBidNothing == ASSUME NEW s \in SeedAsks PROVE s.op # "bid"
BY SeedOps DEF SeedAsks

LEMMA ValidPositive == ASSUME NEW k \in Asks, ~Invalid(k) PROVE Positive(k)
BY AsksAssumption DEF Invalid, Positive

\* What is listed is not legendary, and what is put up for auction is; a bid that
\* the service has let through reaches the start price.
Suits(t, k) == Item(k.item) \in DOMAIN t => (t[Item(k.item)].kind = "legendary" <=> k.op = "start")
Suited ==
    \A p \in Procs :
      LET k == req[p].ask IN
      (Running(p) /\ req[p].at # "service") =>
         /\ Positive(k)
         /\ k.op \in {"list", "start"} =>
              k \in SeedAsks \/ (Item(k.item) \in DOMAIN db /\ Suits(db, k))
         /\ k.op = "bid" => Reaches(db, k)

LEMMA SeedSuits ==
    ASSUME NEW t, SeedKinds(t), NEW s \in SeedAsks, s.op \in {"list", "start"}
    PROVE  Suits(t, s)
<1>1. PICK m \in SeedAsks : /\ m.op = "createItem" /\ m.id = s.item
                            /\ m.kind = "legendary" <=> s.op = "start"
  BY SeedItems
<1>2. QED
  BY <1>1 DEF SeedKinds, Suits

LEMMA RunningSuits ==
    ASSUME SeedKinds(db), Suited, NEW p \in Procs, Running(p), req[p].at # "service",
           req[p].ask.op \in {"list", "start"}
    PROVE  Suits(db, req[p].ask)
BY SeedSuits DEF Suited

-----------------------------------------------------------------------------
(* Commits.                                                                *)

\* Rows w that request k may write over t: of guilds and items only those there
\* are, and no guild gets a new name.
Own(t, w, k) ==
    /\ \A g : Guild(g) \in DOMAIN w => Guild(g) \in DOMAIN t /\ w[Guild(g)].name = t[Guild(g)].name
    /\ \A r \in DOMAIN w : \/ r \in DOMAIN t
                           \/ r[1] \in {"bid", "daily"}
                           \/ r \in {Auction(k.id), Log(<<k.id, 1>>), Log(<<k.id, 2>>)}

LEMMA OwnLaid == \A t, v, w, k : Own(t, v, k) /\ Own(t, w, k) => Own(t, Write(v, w), k)
<1> SUFFICES ASSUME NEW t, NEW v, NEW w, NEW k, Own(t, v, k), Own(t, w, k)
             PROVE  Own(t, Write(v, w), k)
  OBVIOUS
<1>1. DOMAIN Write(v, w) = DOMAIN v \cup DOMAIN w
  BY LaidDomain
<1>2. ASSUME NEW g, Guild(g) \in DOMAIN Write(v, w)
      PROVE  Guild(g) \in DOMAIN t /\ Write(v, w)[Guild(g)].name = t[Guild(g)].name
  <2>1. CASE Guild(g) \in DOMAIN w
    <3>1. Write(v, w)[Guild(g)] = w[Guild(g)]
      BY <2>1, LaidRow
    <3>2. QED
      BY <2>1, <3>1 DEF Own
  <2>2. CASE Guild(g) \notin DOMAIN w
    <3>1. Guild(g) \in DOMAIN v
      BY <1>1, <1>2, <2>2
    <3>2. Write(v, w)[Guild(g)] = v[Guild(g)]
      BY <2>2, <3>1, LaidUnder
    <3>3. QED
      BY <3>1, <3>2 DEF Own
  <2>3. QED
    BY <2>1, <2>2
<1>3. QED
  BY <1>1, <1>2 DEF Own

LEMMA OwnRow ==
    ASSUME NEW t, NEW r, NEW v, NEW k, r[1] # "guild",
           \/ r \in DOMAIN t
           \/ r[1] \in {"bid", "daily"}
           \/ r \in {Auction(k.id), Log(<<k.id, 1>>), Log(<<k.id, 2>>)}
    PROVE  Own(t, OneRow(r, v), k)
<1>1. DOMAIN OneRow(r, v) = {r}
  BY OneRowDomain
<1>2. \A g : Guild(g) \notin DOMAIN OneRow(r, v)
  BY <1>1, Names
<1>3. QED
  BY <1>1, <1>2 DEF Own

LEMMA OwnBalance ==
    ASSUME NEW t, Sound(t), NEW g, Guild(g) \in DOMAIN t, NEW n, NEW k
    PROVE  Own(t, UpdateGuildBalance(t, g, n), k)
<1> DEFINE v == [t[Guild(g)] EXCEPT !.gold = @ + n]
<1>1. v.name = t[Guild(g)].name
  BY GuildRow DEF GuildColumns
<1>2. UpdateGuildBalance(t, g, n) = OneRow(Guild(g), v)
  BY DEF UpdateGuildBalance
<1> HIDE DEF v
<1>3. DOMAIN OneRow(Guild(g), v) = {Guild(g)} /\ OneRow(Guild(g), v)[Guild(g)] = v
  BY OneRowDomain, OneRowValue
<1>4. QED
  BY <1>1, <1>2, <1>3 DEF Own

LEMMA OwnQuota == \A t, g, n, k : Own(t, UpsertDailyPurchase(t, g, n), k)
BY OwnRow, Names DEF UpsertDailyPurchase

LEMMA OwnLog ==
    \A t, g, type, n, k : /\ Own(t, LogWalletTransaction(<<k.id, 1>>, g, type, n), k)
                          /\ Own(t, LogWalletTransaction(<<k.id, 2>>, g, type, n), k)
BY OwnRow, Names DEF LogWalletTransaction

LEMMA OwnItem ==
    \A t, i, g, status, k : Item(i) \in DOMAIN t =>
      Own(t, TransferItemOwnership(t, i, g, status), k) /\ Own(t, UpdateItemStatus(t, i, status), k)
BY OwnRow, Names DEF TransferItemOwnership, UpdateItemStatus

LEMMA OwnAuction ==
    \A t, i, g, n, k : Own(t, CreateAuction(k.id, i, g, n), k) /\ Own(t, CreateBid(k.id, i, g, n), k)
BY OwnRow, Names DEF CreateAuction, CreateBid

LEMMA OwnStanding ==
    \A t, a, g, n, status, k : Auction(a) \in DOMAIN t =>
      Own(t, UpdateAuctionBid(t, a, g, n), k) /\ Own(t, CloseAuction(t, a, status, g), k)
BY OwnRow, Names DEF UpdateAuctionBid, CloseAuction

LEMMA OwnDeposit ==
    ASSUME NEW t, Sound(t), NEW k, Guild(k.guild) \in DOMAIN t
    PROVE  Own(t, Deposited(t, k), k)
BY OwnBalance, OwnLog, OwnLaid DEF Deposited, Credited

LEMMA OwnPurchase ==
    ASSUME NEW t, Sound(t), NEW k, NEW o, Item(k.item) \in DOMAIN t, t[Item(k.item)] = o,
           Guild(k.guild) \in DOMAIN t
    PROVE  Own(t, Bought(t, k, o), k)
<1>0. Guild(o.owner) \in DOMAIN t
  BY SoundOwner
<1>1. Own(t, Paid(t, k, o), k)
  BY <1>0, OwnBalance, OwnLaid DEF Paid, Charged
<1>2. Own(t, Moved(t, k, o), k)
  BY <1>1, OwnItem, OwnLaid DEF Moved
<1>3. Own(t, Noted(t, k, o), k)
  BY <1>2, OwnQuota, OwnLog, OwnLaid DEF Noted, Counted
<1>4. QED
  BY <1>3, OwnLog, OwnLaid DEF Bought

LEMMA OwnBid ==
    ASSUME NEW t, NEW k, Auction(k.auction) \in DOMAIN t
    PROVE  Own(t, Placed(t, k), k)
<1>1. Own(t, Leading(t, k), k)
  BY OwnAuction, OwnStanding, OwnLaid DEF Leading, Recorded
<1>2. QED
  BY <1>1, OwnQuota, OwnLog, OwnLaid DEF Placed, Staked

LEMMA OwnClosing ==
    ASSUME NEW t, Sound(t), NEW k, NEW o, Auction(k.auction) \in DOMAIN t, t[Auction(k.auction)] = o
    PROVE  Own(t, Unsold(t, k, o), k) /\ Own(t, Sold(t, k, o), k)
<1>0. Item(o.item) \in DOMAIN t /\ Guild(o.seller) \in DOMAIN t
  BY SoundAuction
<1>1. Own(t, Restored(t, o), k) /\ Own(t, HandedOver(t, o), k)
  BY <1>0, OwnItem DEF Restored, HandedOver
<1>2. Own(t, Settled(t, o), k)
  BY <1>0, <1>1, OwnBalance, OwnLaid DEF Settled
<1>3. QED
  BY <1>1, <1>2, OwnStanding, OwnLaid DEF Unsold, Sold

\* A bid is the first of its auction: one that outbids a leader never commits.
FirstBid(t, k) == k.op = "bid" => t[Auction(k.auction)].winner = Nobody

\* What a transaction commits is the whole effect of its request, at that moment.
LEMMA CommitEffect ==
    ASSUME NEW p \in Procs, Drafted, SeedKinds(db), Suited, req[p].at = "commit", ~tx[p].failed,
           db' = Write(db, tx[p].wrote)
    PROVE  /\ Promise!Effect(req[p].ask) /\ Own(db, tx[p].wrote, req[p].ask)
           /\ FirstBid(db, req[p].ask)
<1> DEFINE k == req[p].ask
           o == req[p].saw
<1>1. tx[p].open
  BY DEF Drafted, Guarded, Positions, Outside
<1>2. Running(p) /\ k \in Asks /\ Sound(db) /\ Positive(k)
  BY DEF Drafted, Known, Running, Suited
<1>3. CASE k.op = "deposit"
  <2>1. /\ Guild(k.guild) \in DOMAIN db /\ tx[p].wrote = Deposited(db, k)
        /\ Log(<<k.id, 1>>) \notin DOMAIN db
    BY <1>1, <1>3 DEF Drafted, Draft, DepositDraft, After, HeldRow
  <2>2. k.amount > 0 /\ FirstBid(db, k)
    BY <1>2, <1>3 DEF Positive, FirstBid
  <2>3. QED
    BY <1>2, <1>3, <2>1, <2>2, DepositEffect, OwnDeposit DEF Promise!Effect
<1>4. CASE k.op = "list"
  <2>1. /\ Item(k.item) \in DOMAIN db /\ tx[p].wrote = Exposed(db, k)
        /\ db[Item(k.item)].status = "sold"
    BY <1>1, <1>4 DEF Drafted, Draft, ListDraft, After, HeldRow
  <2>2. db[Item(k.item)].kind # "legendary"
    BY <1>2, <1>4, <2>1, RunningSuits DEF Suits
  <2>3. Own(db, tx[p].wrote, k)
    BY <2>1, OwnItem DEF Exposed
  <2>4. QED
    BY <1>4, <2>1, <2>2, <2>3, ListEffect DEF Promise!Effect, FirstBid
<1>5. CASE k.op = "buy"
  <2>1. /\ Item(k.item) \in DOMAIN db /\ db[Item(k.item)] = o
        /\ o.status = "available" /\ o.price # 0 /\ o.owner # k.guild
        /\ CanPay(db, k.guild, o.price) /\ Log(<<k.id, 1>>) \notin DOMAIN db
        /\ Log(<<k.id, 2>>) \notin DOMAIN db /\ tx[p].wrote = Bought(db, k, o)
    BY <1>1, <1>5 DEF Drafted, Draft, BuyDraft, After, HeldRow
  <2>2. QED
    BY <1>2, <1>5, <2>1, BuyEffect, OwnPurchase DEF Promise!Effect, CanPay, FirstBid
<1>6. CASE k.op = "start"
  <2>1. /\ Item(k.item) \in DOMAIN db /\ ~OnSale(db, k.item) /\ Auction(k.id) \notin DOMAIN db
        /\ tx[p].wrote = CreateAuction(k.id, k.item, k.guild, k.amount)
    BY <1>1, <1>6 DEF Drafted, Draft, StartDraft, After
  <2>2. db[Item(k.item)].kind = "legendary"
    BY <1>2, <1>6, <2>1, RunningSuits DEF Suits
  <2>3. k.amount > 0 /\ FirstBid(db, k)
    BY <1>2, <1>6 DEF Positive, FirstBid
  <2>4. QED
    BY <1>6, <2>1, <2>2, <2>3, StartEffect, OwnAuction DEF Promise!Effect
<1>7. CASE k.op = "bid"
  <2>1. BidDraft(db, req[p], tx[p])
    BY DEF Drafted, Draft
  <2>2. /\ Auction(k.auction) \in DOMAIN db /\ db[Auction(k.auction)].status = "active"
        /\ db[Auction(k.auction)].seller # k.guild /\ db[Auction(k.auction)].winner # k.guild
        /\ CanPay(db, k.guild, k.amount)
    BY <1>1, <1>7, <2>1, BidKnown DEF HeldRow
  <2>3. /\ db[Auction(k.auction)].winner = Nobody /\ tx[p].wrote = Placed(db, k)
        /\ Bid(k.id) \notin DOMAIN db /\ Log(<<k.id, 1>>) \notin DOMAIN db
    BY <1>1, <1>7, <2>1, BidWrote
  <2>4. k.amount \in Nat \ {0}
    BY <1>2, <1>7, AsksAssumption DEF Drafted, Known
  <2>6. Reaches(db, k)
    BY <1>2, <1>7 DEF Suited
  <2>5. QED
    BY <1>2, <1>7, <2>2, <2>3, <2>4, <2>6, BidEffect, OwnBid DEF Promise!Effect, FirstBid
<1>8. CASE k.op = "close"
  <2>1. /\ Auction(k.auction) \in DOMAIN db /\ db[Auction(k.auction)] = o /\ o.status = "active"
        /\ \/ o.high = 0 /\ tx[p].wrote = Unsold(db, k, o)
           \/ o.high # 0 /\ tx[p].wrote = Sold(db, k, o)
    BY <1>1, <1>8 DEF Drafted, Draft, CloseDraft, After, HeldRow
  <2>2. Item(o.item) \in DOMAIN db
    BY <1>2, <2>1, SoundAuction
  <2>3. QED
    BY <1>2, <1>8, <2>1, <2>2, UnsoldEffect, SoldEffect, OwnClosing DEF Promise!Effect, FirstBid
<1>9. QED
  BY <1>1, <1>3, <1>4, <1>5, <1>6, <1>7, <1>8 DEF Drafted, Draft

-----------------------------------------------------------------------------
(* The kinds of items.                                                     *)

\* Items there are stay what they are; one that is new is what p has asked for.
KeepsItems(t, u) ==
    \A i : Item(i) \in DOMAIN t => Item(i) \in DOMAIN u /\ u[Item(i)].kind = t[Item(i)].kind
AddsItem(p) ==
    \A i : Item(i) \in DOMAIN db' /\ Item(i) \notin DOMAIN db =>
       req[p].ask \in Asks /\ req[p].ask.id = i /\ db'[Item(i)].kind = req[p].ask.kind

LEMMA ChangesKeepItems == ASSUME NEW p, Changes(p) PROVE KeepsItems(db, db')
<1>1. CASE db' = db
  BY <1>1 DEF KeepsItems
<1>2. ASSUME NEW w, db' = Write(db, w), Lawful(db, w, tx[p].held) PROVE KeepsItems(db, db')
  <2> SUFFICES ASSUME NEW i, Item(i) \in DOMAIN db
               PROVE  Item(i) \in DOMAIN db' /\ db'[Item(i)].kind = db[Item(i)].kind
    BY DEF KeepsItems
  <2>1. Item(i) \in DOMAIN db'
    BY <1>2, LaidDomain
  <2>2. CASE Item(i) \in DOMAIN w
    <3>1. db'[Item(i)] = w[Item(i)]
      BY <1>2, <2>2, LaidRow
    <3>2. w[Item(i)].kind = db[Item(i)].kind
      BY <1>2, <2>2 DEF Lawful
    <3>3. QED
      BY <2>1, <3>1, <3>2
  <2>3. CASE Item(i) \notin DOMAIN w
    <3>1. db'[Item(i)] = db[Item(i)]
      BY <1>2, <2>3, LaidUnder
    <3>2. QED
      BY <2>1, <3>1
  <2>4. QED
    BY <2>1, <2>2, <2>3
<1>3. QED
  BY <1>1, <1>2 DEF Changes

\* Auctions keep their start price, and a bid that has come is not taken back.
KeepsAuctions(t, u) ==
    \A a : Auction(a) \in DOMAIN t => Auction(a) \in DOMAIN u /\ GoesOn(t[Auction(a)], u[Auction(a)])

LEMMA ChangesKeepAuctions == ASSUME NEW p, Changes(p) PROVE KeepsAuctions(db, db')
<1>1. CASE db' = db
  BY <1>1 DEF KeepsAuctions, GoesOn
<1>2. ASSUME NEW w, db' = Write(db, w), Lawful(db, w, tx[p].held) PROVE KeepsAuctions(db, db')
  <2> SUFFICES ASSUME NEW a, Auction(a) \in DOMAIN db
               PROVE  Auction(a) \in DOMAIN db' /\ GoesOn(db[Auction(a)], db'[Auction(a)])
    BY DEF KeepsAuctions
  <2>1. Auction(a) \in DOMAIN db'
    BY <1>2, LaidDomain
  <2>2. CASE Auction(a) \in DOMAIN w
    <3>1. db'[Auction(a)] = w[Auction(a)]
      BY <1>2, <2>2, LaidRow
    <3>2. GoesOn(db[Auction(a)], w[Auction(a)])
      BY <1>2, <2>2 DEF Lawful
    <3>3. QED
      BY <2>1, <3>1, <3>2
  <2>3. CASE Auction(a) \notin DOMAIN w
    <3>1. db'[Auction(a)] = db[Auction(a)]
      BY <1>2, <2>3, LaidUnder
    <3>2. QED
      BY <2>1, <3>1 DEF GoesOn
  <2>4. QED
    BY <2>1, <2>2, <2>3
<1>3. QED
  BY <1>1, <1>2 DEF Changes

LEMMA ReachesStays ==
    ASSUME NEW t, NEW u, NEW k, KeepsAuctions(t, u), Reaches(t, k)
    PROVE  Reaches(u, k)
BY DEF KeepsAuctions, GoesOn, Reaches

LEMMA SeedKindsStay ==
    ASSUME NEW p, SeedKinds(db), KeepsItems(db, db'), AddsItem(p)
    PROVE  SeedKinds(db')
<1> SUFFICES ASSUME NEW s \in SeedAsks, s.op = "createItem", Item(s.id) \in DOMAIN db'
             PROVE  db'[Item(s.id)].kind = s.kind
  BY DEF SeedKinds
<1>1. CASE Item(s.id) \in DOMAIN db
  BY <1>1 DEF KeepsItems, SeedKinds
<1>2. CASE Item(s.id) \notin DOMAIN db
  <2>1. req[p].ask \in Asks /\ req[p].ask.id = s.id /\ db'[Item(s.id)].kind = req[p].ask.kind
    BY <1>2 DEF AddsItem
  <2>2. req[p].ask = s
    BY <2>1, SeedAssumption
  <2>3. QED
    BY <2>1, <2>2
<1>3. QED
  BY <1>1, <1>2

LEMMA SuitsStay ==
    ASSUME NEW t, NEW u, NEW k, KeepsItems(t, u), Item(k.item) \in DOMAIN t, Suits(t, k)
    PROVE  Item(k.item) \in DOMAIN u /\ Suits(u, k)
BY DEF KeepsItems, Suits

\* Of a request to list, to start an auction or to bid the service lets through
\* what it has looked at.
LEMMA ServiceSuits ==
    ASSUME NEW p \in Procs, Drafted, req[p].at = "service", req[p].ask.op \in {"list", "start", "bid"},
           Step(p) \/ Fail(p) \/ CommitUnconfirmed(p), Running(p)'
    PROVE  IF req[p].ask.op = "bid" THEN Reaches(db, req[p].ask)
           ELSE Item(req[p].ask.item) \in DOMAIN db /\ Suits(db, req[p].ask)
<1>0. Shapes /\ Sound(db)
  BY DEF Drafted, Guarded
<1>1. ASSUME NEW err, Return(p, err) PROVE FALSE
  <2>1. req'[p] = [req[p] EXCEPT !.at = "done", !.err = err, !.kept = FALSE]
    BY <1>0, <1>1 DEF Return, End, Shapes
  <2>2. req'[p].at = "done"
    BY <1>0, <2>1 DEF Shapes, ReqRecord
  <2>3. QED
    BY <2>2 DEF Running
<1>2. CASE RefuseInput(p) \/ Fail(p)
  BY <1>1, <1>2 DEF RefuseInput, Fail
<1>3. CASE ReadForListing(p)
  BY <1>1, <1>3 DEF ReadForListing, Service, At, GetItemByID, Suits
<1>4. CASE ReadToAuction(p)
  BY <1>1, <1>4 DEF ReadToAuction, Service, At, GetItemByID, Suits
<1>5. CASE Begin(p) \/ Commit(p) \/ CommitUnconfirmed(p)
  BY <1>5 DEF Begin, Unchecked, Commit, CommitUnconfirmed
<1>6. CASE Reading(p)
  <2>1. \A op, n : CountRows(p, op, n) \/ ReadPage(p, op, n) => req[p].ask.op = op
    BY DEF CountRows, ReadPage, Service, At
  <2>2. QED
    BY <1>6, <2>1
    DEF Reading, GetWallet, ValidateGuild, GetByOwner, LookUpItem, LookUpAuction, ListGuildsPage,
        ListActivePage, ListAvailablePage, Service, At
<1>7. CASE Minting(p) \/ Depositing(p)
  BY <1>7 DEF Minting, CreateGuildRow, AskPrice, GotPrice, InsertItem, Service, At, Depositing,
              LockForDeposit, CreditDeposit, LogDeposit
<1>8. CASE LockForListing(p) \/ Expose(p) \/ CountOwn(p) \/ InsertAuction(p)
  BY <1>8 DEF LockForListing, Expose, CountOwn, InsertAuction, At
<1>9. CASE Buying(p)
  BY <1>9 DEF Buying, LockToBuy, LockBuyer, CheckBuyer, ChargeBuyer, PaySeller, TransferBought,
              CountPurchase, LogPurchase, LogProceeds, At
<1>13. CASE ReadForBid(p)
  <2> DEFINE k == req[p].ask
             row == db[Auction(k.auction)]
  <2>1. k.op = "bid" /\ Auction(k.auction) \in DOMAIN db /\ ~(k.amount < MinBid(row))
    BY <1>1, <1>13 DEF ReadForBid, Service, At, GetAuction
  <2>2. k.amount \in Int
    <3>1. k \in Asks
      BY DEF Drafted, Known, Running
    <3>2. QED
      BY <2>1, <3>1, AsksAssumption
  <2>3. row.start \in Int
    BY <1>0, <2>1, SoundAuction DEF AuctionColumns
  <2>4. row.high = 0 => MinBid(row) = row.start
    BY DEF MinBid
  <2> HIDE DEF k, row
  <2>5. row.high = 0 => k.amount >= row.start
    BY <2>1, <2>2, <2>3, <2>4
  <2>6. QED
    BY <2>1, <2>5 DEF k, row, Reaches
<1>10. CASE Bidding(p) /\ ~ReadForBid(p)
  BY <1>10 DEF Bidding, LockToBid, LockBidder, CheckBidder, FreeLeader, LogRelease,
               ReturnQuota, ReleaseFails, RecordBid, UpdateStanding, LogReserve, CountBid, Service, At
<1>11. CASE Closing(p)
  BY <1>11 DEF Closing, LockToClose, RestoreItem, HandOver, PayProceeds, CancelUnsold, EndSold,
               CloseRow, At
<1>12. QED
  BY <1>2, <1>3, <1>4, <1>5, <1>6, <1>7, <1>8, <1>9, <1>10, <1>11, <1>13
  DEF Step, Listing, Starting

-----------------------------------------------------------------------------
(* Every step is an effect.                                                *)

\* What p does to the tables: nothing, or the whole effect of its request.
Effects(p) ==
    \/ db' = db
    \/ req[p].ask \in Asks /\ Promise!Effect(req[p].ask) /\ FirstBid(db, req[p].ask)

LEMMA MintingEffects ==
    ASSUME NEW p \in Procs, Drafted, Minting(p)
    PROVE  Effects(p) /\ AddsItem(p)
<1> DEFINE k == req[p].ask
<1>1. CASE db' = db
  BY <1>1 DEF Effects, AddsItem
<1>2. CASE CreateGuildRow(p) /\ db' # db
  <2>1. /\ ~NameTaken(db, k.name) /\ db' = Write(db, CreateGuild(k.id, k.name, k.limit))
        /\ Guild(k.id) \notin DOMAIN db /\ ~Invalid(k)
    BY <1>2 DEF CreateGuildRow, Autocommit, Return, IsNew
  <2>2. k \in Asks /\ k.op = "createGuild"
    BY <1>2 DEF CreateGuildRow, At, Drafted, Known, Running
  <2>5. k.limit > 0
    BY <2>1, <2>2, AsksAssumption DEF Invalid
  <2>3. \A i : Item(i) \in DOMAIN db' => Item(i) \in DOMAIN db
    BY <2>1, PutHas, Names DEF CreateGuild
  <2>4. QED
    BY <2>1, <2>2, <2>3, <2>5, FoundEffect DEF Effects, AddsItem, Promise!Effect, FirstBid
<1>3. CASE InsertItem(p) /\ db' # db
  <2>1. /\ Guild(k.guild) \in DOMAIN db
        /\ k.kind = "legendary" => ~LegendTaken(db, k.name)
        /\ db' = Write(db, CreateItem(k.id, k.name, k.kind, k.guild)) /\ Item(k.id) \notin DOMAIN db
    BY <1>3, OwnerFound DEF InsertItem, Autocommit, Return, IsNew
  <2>2. k \in Asks /\ k.op = "createItem"
    BY <1>3 DEF InsertItem, At, Drafted, Known, Running
  <2>3. ASSUME NEW i, Item(i) \in DOMAIN db', Item(i) \notin DOMAIN db
        PROVE  k.id = i /\ db'[Item(i)].kind = k.kind
    <3>1. Item(i) = Item(k.id)
      BY <2>1, <2>3, PutHas DEF CreateItem
    <3>2. k.id = i
      BY <3>1, Names
    <3>3. db'[Item(i)] = [name |-> k.name, kind |-> k.kind, owner |-> k.guild, status |-> "sold", price |-> 0]
      BY <2>1, <3>1, PutRow DEF CreateItem
    <3>4. QED
      BY <3>2, <3>3
  <2>4. QED
    <3>1. Promise!Effect(k)
      BY <2>1, <2>2, MintEffect DEF Promise!Effect
    <3>2. AddsItem(p)
      BY <2>2, <2>3 DEF AddsItem
    <3>3. QED
      BY <2>2, <3>1, <3>2 DEF Effects, FirstBid
<1>4. CASE AskPrice(p) \/ GotPrice(p)
  BY <1>1, <1>4 DEF AskPrice, GotPrice, Goto
<1>5. QED
  BY <1>1, <1>2, <1>3, <1>4 DEF Minting

LEMMA ReadingEffects == ASSUME NEW p, Reading(p) PROVE db' = db
<1>1. ASSUME NEW op, NEW n, CountRows(p, op, n) \/ ReadPage(p, op, n) PROVE db' = db
  BY <1>1 DEF CountRows, ReadPage, Return, Goto
<1>2. QED
  BY <1>1 DEF Reading, GetWallet, ValidateGuild, GetByOwner, LookUpItem, LookUpAuction, Return, Goto,
              ListGuildsPage, ListActivePage, ListAvailablePage

LEMMA StepEffects ==
    ASSUME NEW p \in Procs, Drafted, SeedKinds(db), Suited, Step(p) \/ Fail(p) \/ CommitUnconfirmed(p)
    PROVE  Effects(p) /\ AddsItem(p)
<1>1. CASE db' = db
  BY <1>1 DEF Effects, AddsItem
<1>2. CASE Commit(p) \/ CommitUnconfirmed(p)
  <2>1. req[p].at = "commit" /\ ~tx[p].failed /\ db' = Write(db, tx[p].wrote)
    BY <1>2 DEF Commit, CommitUnconfirmed
  <2>2. /\ Promise!Effect(req[p].ask) /\ Own(db, tx[p].wrote, req[p].ask)
        /\ FirstBid(db, req[p].ask)
    BY <2>1, CommitEffect
  <2>3. req[p].ask \in Asks
    BY <2>1 DEF Drafted, Known, Running
  <2>4. AddsItem(p)
    <3>1. DOMAIN db' = DOMAIN db \cup DOMAIN tx[p].wrote
      BY <2>1, LaidDomain
    <3>2. \A i : Item(i) \in DOMAIN db' => Item(i) \in DOMAIN db
      BY <2>2, <3>1, Names DEF Own
    <3>3. QED
      BY <3>2 DEF AddsItem
  <2>5. QED
    BY <2>2, <2>3, <2>4 DEF Effects
<1>3. CASE Minting(p)
  BY <1>3, MintingEffects
<1>4. CASE RefuseInput(p) \/ Fail(p) \/ Begin(p) \/ Reading(p)
  BY <1>1, <1>4, ReadingEffects DEF RefuseInput, Fail, Begin, Return
<1>5. CASE Depositing(p) \/ Listing(p) \/ Buying(p) \/ Starting(p) \/ Bidding(p) \/ Closing(p)
  BY <1>1, <1>5, WorkingChanges
<1>6. QED
  BY <1>2, <1>3, <1>4, <1>5 DEF Step

\* The invariant of the running program
Faithful == Drafted /\ WorkKnown /\ SeedKinds(db) /\ Suited

LEMMA SuitedStep ==
    ASSUME Faithful, ServedStep
    PROVE  Suited' /\ SeedKinds(db')
<1>0. Drafted /\ Shapes /\ Positions /\ Exclusive /\ Guarded /\ SeedKinds(db) /\ Suited
  BY DEF Faithful, Drafted, Guarded
<1>1. ASSUME NEW p \in Procs, NEW ask \in Asks,
             Call(p, ask) \/ (CallRepository(p, ask) /\ (ask \in SeedAsks \/ ask.op = "close"))
      PROVE  Suited' /\ SeedKinds(db')
  <2>1. db' = db
    BY <1>1 DEF Call, CallRepository, Take
  <2>2. \A q \in Procs : q # p => req'[q] = req[q]
    BY <1>0, <1>1 DEF Call, CallRepository, Take, Shapes
  <2>3. req'[p].ask = ask /\ (req'[p].at = "service" \/ ask \in SeedAsks \/ ask.op = "close")
    BY <1>0, <1>1 DEF Call, CallRepository, Take, Shapes, NoRequest
  <2>4. ask \in SeedAsks \/ ask.op = "close" => Positive(ask) /\ ask.op # "bid"
    BY SeedPositive, SeedsBidNothing DEF Positive
  <2>5. QED
    BY <1>0, <2>1, <2>2, <2>3, <2>4 DEF Suited, Running
<1>2. ASSUME NEW p \in Procs, Step(p) \/ Fail(p) \/ CommitUnconfirmed(p)
      PROVE  Suited' /\ SeedKinds(db')
  <2>1. KeepsItems(db, db') /\ KeepsAuctions(db, db')
    BY <1>0, <1>2, StepDrafts, ChangesKeepItems, ChangesKeepAuctions
  <2>2. SeedKinds(db')
    BY <1>0, <1>2, <2>1, StepEffects, SeedKindsStay
  <2>3. \A q \in Procs : q # p => req'[q] = req[q]
    BY <1>0, <1>2, StepKinds, OthersStay
  <2>4. /\ Running(p) /\ req'[p].ask = req[p].ask /\ req[p].ask \in Asks
        /\ req[p].at = "service" => req'[p].at = "done" \/ ~Invalid(req[p].ask)
    BY <1>0, <1>2, StepGoesOn DEF Onward, Drafted, Known
  <2>7. ASSUME NEW q \in Procs, Running(q)', req'[q].at # "service" PROVE Positive(req'[q].ask)
    <3>1. CASE q = p /\ req[p].at = "service"
      BY <2>4, <2>7, <3>1, ValidPositive DEF Running
    <3>2. CASE q # p \/ req[p].at # "service"
      BY <1>0, <2>3, <2>4, <2>7, <3>2 DEF Suited, Running
    <3>3. QED
      BY <3>1, <3>2
  <2>5. ASSUME NEW q \in Procs, Running(q)', req'[q].at # "service", req'[q].ask.op \in {"list", "start"}
        PROVE  req'[q].ask \in SeedAsks \/ (Item(req'[q].ask.item) \in DOMAIN db' /\ Suits(db', req'[q].ask))
    <3> DEFINE k == req[q].ask
    <3>1. req'[q].ask = k /\ Running(q)
      BY <2>3, <2>4, <2>5 DEF Running
    <3>2. k \in SeedAsks \/ (Item(k.item) \in DOMAIN db /\ Suits(db, k))
      <4>1. CASE q = p /\ req[p].at = "service"
        BY <1>0, <1>2, <2>5, <3>1, <4>1, ServiceSuits
      <4>2. CASE req[q].at # "service"
        BY <1>0, <2>5, <3>1, <4>2 DEF Suited
      <4>3. QED
        BY <2>3, <2>5, <4>1, <4>2
    <3>3. QED
      BY <2>1, <3>1, <3>2, SuitsStay
  <2>8. ASSUME NEW q \in Procs, Running(q)', req'[q].at # "service", req'[q].ask.op = "bid"
        PROVE  Reaches(db', req'[q].ask)
    <3> DEFINE k == req[q].ask
    <3>1. req'[q].ask = k /\ Running(q)
      BY <2>3, <2>4, <2>8 DEF Running
    <3>2. Reaches(db, k)
      <4>1. CASE q = p /\ req[p].at = "service"
        BY <1>0, <1>2, <2>8, <3>1, <4>1, ServiceSuits
      <4>2. CASE req[q].at # "service"
        BY <1>0, <2>8, <3>1, <4>2 DEF Suited
      <4>3. QED
        BY <2>3, <2>8, <4>1, <4>2
    <3>3. QED
      BY <2>1, <3>1, <3>2, ReachesStays
  <2>6. QED
    BY <2>2, <2>5, <2>7, <2>8 DEF Suited
<1>3. ASSUME NEW S, Kill(S) PROVE Suited' /\ SeedKinds(db')
  <2>1. db' = db
    BY <1>3 DEF Kill
  <2>2. \A q \in Procs : req'[q] = NoRequest \/ req'[q] = req[q]
    BY <1>3 DEF Kill
  <2>3. NoRequest.at = "idle"
    BY DEF NoRequest
  <2>4. QED
    BY <1>0, <2>1, <2>2, <2>3 DEF Suited, Running
<1>4. CASE UNCHANGED vars
  BY <1>0, <1>4 DEF vars, Suited, Running
<1>5. QED
  BY <1>1, <1>2, <1>3, <1>4 DEF ServedStep

LEMMA FaithfulStep ==
    ASSUME Faithful, [ServiceNext]_allVars
    PROVE  Faithful'
<1>1. ServedStep
  BY ServiceServed DEF Faithful
<1>2. Drafted' /\ WorkKnown'
  BY <1>1, ServedIsAsked, DraftedStep, WorkStep DEF Faithful
<1>3. QED
  BY <1>1, <1>2, SuitedStep DEF Faithful

LEMMA InitFaithful == ASSUME ServiceInit PROVE Faithful
<1>1. Init /\ db \in Openings
  BY ScenarioAssumption DEF ServiceInit
<1>2. SeedKinds(db)
  <2>0. \A t \in Openings : \A r \in DOMAIN t : \A s \in SeedAsks : r[2] # s.id
    BY SeedAssumption
  <2>1. \A s \in SeedAsks : Item(s.id) \notin DOMAIN db
    BY <1>1, <2>0, Names
  <2>2. QED
    BY <2>1 DEF SeedKinds
<1>3. Suited
  BY <1>1 DEF Init, NoRequest, Suited, Running
<1>4. QED
  BY <1>1, <1>2, <1>3, InitDrafted, InitWorkKnown DEF Faithful

\* The tables the program leaves after a step are those of before, or those of
\* before with the whole effect of one request.
LEMMA StepImplements ==
    ASSUME Faithful, [ServiceNext]_allVars
    PROVE  [Promise!Next]_db
<1>0. Drafted /\ SeedKinds(db) /\ Suited
  BY DEF Faithful
<1>1. ServedStep
  BY ServiceServed DEF Faithful
<1>2. ASSUME NEW p \in Procs, Step(p) \/ Fail(p) \/ CommitUnconfirmed(p) PROVE [Promise!Next]_db
  <2>1. Effects(p)
    BY <1>0, <1>2, StepEffects
  <2>2. QED
    BY <2>1 DEF Effects, Promise!Next
<1>3. CASE \E p \in Procs, ask \in Asks : Call(p, ask) \/ CallRepository(p, ask)
  BY <1>3 DEF Call, CallRepository, Take
<1>4. CASE (\E S : Kill(S)) \/ UNCHANGED vars
  BY <1>4 DEF Kill, vars
<1>5. QED
  BY <1>1, <1>2, <1>3, <1>4 DEF ServedStep

LEMMA AlwaysFaithful == ServiceSpec => []Faithful
<1>1. ServiceInit => Faithful
  BY InitFaithful
<1>2. Faithful /\ [ServiceNext]_allVars => Faithful'
  BY FaithfulStep
<1>3. QED
  BY <1>1, <1>2, PTL DEF ServiceSpec

\* The running program implements Market: whatever fails, is lost, expires, crashes
\* or is stopped, for any number of copies, requests, guilds, items and auctions.
THEOREM ServiceImplementsMarket == ServiceSpec => EffectsAreWhole
<1>1. ServiceInit => db \in Openings
  BY ScenarioAssumption DEF ServiceInit
<1>2. Faithful /\ [ServiceNext]_allVars => [Promise!Next]_db
  BY StepImplements
<1>3. QED
  BY <1>1, <1>2, AlwaysFaithful, PTL DEF ServiceSpec, EffectsAreWhole, Promise!Spec

-----------------------------------------------------------------------------
(* What repository and service return is so.                                *)

\* Success of a change is returned only when it is committed; of a commit,
\* success or an internal error.
Told(r) ==
    IF r.at = "done"
    THEN /\ r.kept => r.err \in {"ok", "internal"}
         /\ (r.err = "ok" /\ r.ask.op \in Changing) => r.kept
    ELSE r.err = "ok" /\ ~r.kept

LEMMA EndTells ==
    ASSUME NEW p \in Procs, NEW err, NEW kept, Shapes, End(p, err, kept),
           kept => err \in {"ok", "internal"},
           (err = "ok" /\ req[p].ask.op \in Changing) => kept
    PROVE  Told(req'[p])
<1>1. req'[p] = [req[p] EXCEPT !.at = "done", !.err = err, !.kept = kept]
  BY DEF End, Shapes
<1>2. /\ req'[p].at = "done" /\ req'[p].err = err /\ req'[p].kept = kept
      /\ req'[p].ask = req[p].ask
  BY <1>1 DEF Shapes, ReqRecord
<1>3. QED
  BY <1>2 DEF Told

LEMMA ReturnTells ==
    ASSUME NEW p \in Procs, NEW err, Shapes, Return(p, err),
           err # "ok" \/ req[p].ask.op \notin Changing
    PROVE  Told(req'[p])
BY EndTells DEF Return

LEMMA AutocommitTells ==
    ASSUME NEW p \in Procs, NEW locks, NEW w, Shapes, Autocommit(p, locks, w)
    PROVE  Told(req'[p])
BY EndTells DEF Autocommit

LEMMA GotoTells ==
    ASSUME NEW p \in Procs, NEW next, NEW saw, Shapes, Goto(p, next, saw), Told(req[p]),
           req[p].at # "done", next # "done" \/ req[p].ask.op \notin Changing
    PROVE  Told(req'[p])
<1>1. req'[p] = [req[p] EXCEPT !.at = next, !.saw = saw]
  BY DEF Goto, Shapes
<1>2. /\ req'[p].at = next /\ req'[p].err = req[p].err /\ req'[p].kept = req[p].kept
      /\ req'[p].ask = req[p].ask
  BY <1>1 DEF Shapes, ReqRecord
<1>3. QED
  BY <1>2 DEF Told

LEMMA StatementTells ==
    ASSUME NEW p \in Procs, NEW next, NEW saw, NEW locks, NEW w, Shapes, Positions,
           Statement(p, next, saw, locks, w), Told(req[p]), next # "done"
    PROVE  Told(req'[p])
<1>1. req'[p] = [req[p] EXCEPT !.at = next, !.saw = saw]
  BY DEF Statement, Shapes
<1>2. /\ req'[p].at = next /\ req'[p].err = req[p].err /\ req'[p].kept = req[p].kept
  BY <1>1 DEF Shapes, ReqRecord
<1>3. req[p].at # "done"
  BY DEF Statement, Positions, Inside
<1>4. QED
  BY <1>2, <1>3 DEF Told

LEMMA ExecTells ==
    ASSUME NEW p \in Procs, NEW next, NEW locks, NEW w, Shapes, Positions,
           Exec(p, next, locks, w), Told(req[p]), next # "done"
    PROVE  Told(req'[p])
BY StatementTells DEF Exec

LEMMA StepTells ==
    ASSUME NEW p \in Procs, Shapes, Positions, Told(req[p]),
           Step(p) \/ Fail(p) \/ CommitUnconfirmed(p)
    PROVE  Told(req'[p])
<1>1. CASE RefuseInput(p) \/ Fail(p)
  BY <1>1, ReturnTells DEF RefuseInput, Fail
<1>2. CASE Commit(p) \/ CommitUnconfirmed(p)
  BY <1>2, EndTells DEF Commit, CommitUnconfirmed
<1>3. CASE Begin(p)
  <2>1. req'[p] = [req[p] EXCEPT !.at = "first"] /\ req[p].at # "done"
    BY <1>3 DEF Begin, Shapes
  <2>2. req'[p].at = "first" /\ req'[p].err = req[p].err /\ req'[p].kept = req[p].kept
    BY <2>1 DEF Shapes, ReqRecord
  <2>3. QED
    BY <2>1, <2>2 DEF Told
<1>4. ASSUME NEW op \in {"listGuilds", "listActive", "listItems"}, NEW n,
             CountRows(p, op, n) \/ ReadPage(p, op, n)
      PROVE  Told(req'[p])
  BY <1>4, ReturnTells, GotoTells DEF CountRows, ReadPage, Service, At, Changing
<1>5. CASE ListGuildsPage(p) \/ ListActivePage(p) \/ ListAvailablePage(p)
  BY <1>4, <1>5 DEF ListGuildsPage, ListActivePage, ListAvailablePage
<1>6. CASE GetWallet(p) \/ LookUpItem(p) \/ LookUpAuction(p) \/ GetByOwner(p) \/ ValidateGuild(p)
  BY <1>6, ReturnTells, GotoTells
  DEF GetWallet, LookUpItem, LookUpAuction, GetByOwner, ValidateGuild, Service, At, Changing
<1>7. CASE Minting(p)
  BY <1>7, ReturnTells, AutocommitTells, GotoTells
  DEF Minting, CreateGuildRow, AskPrice, GotPrice, InsertItem, Service, At
<1>8. CASE Depositing(p)
  BY <1>8, ReturnTells, ExecTells
  DEF Depositing, LockForDeposit, CreditDeposit, LogDeposit, ChangeBalance
<1>9. CASE Listing(p)
  BY <1>9, ReturnTells, ExecTells, GotoTells
  DEF Listing, ReadForListing, LockForListing, Expose, Service, At
<1>10. CASE LockToBuy(p) \/ LockBuyer(p) \/ CheckBuyer(p)
  BY <1>10, ReturnTells, ExecTells, StatementTells DEF LockToBuy, LockBuyer, CheckBuyer
<1>11. CASE Buying(p) /\ ~(LockToBuy(p) \/ LockBuyer(p) \/ CheckBuyer(p))
  BY <1>11, ExecTells
  DEF Buying, ChargeBuyer, PaySeller, TransferBought, CountPurchase, LogPurchase, LogProceeds,
      ChangeBalance
<1>12. CASE Starting(p)
  BY <1>12, ReturnTells, ExecTells, GotoTells
  DEF Starting, ReadToAuction, CountOwn, InsertAuction, Service, At
<1>13. CASE ReadForBid(p) \/ LockToBid(p) \/ LockBidder(p) \/ CheckBidder(p)
  BY <1>13, ReturnTells, ExecTells, StatementTells, GotoTells
  DEF ReadForBid, LockToBid, LockBidder, CheckBidder, Service, At
<1>14. CASE Discard(p) /\ req[p].at \in {"release", "handBack"}
  BY <1>14 DEF Discard, Shapes, ReqRecord, Told
<1>15. CASE Bidding(p) /\ ~(ReadForBid(p) \/ LockToBid(p) \/ LockBidder(p) \/ CheckBidder(p))
  BY <1>14, <1>15, ExecTells, StatementTells
  DEF Bidding, FreeLeader, LogRelease, ReturnQuota, ReleaseFails, RecordBid, UpdateStanding,
      LogReserve, CountBid, At
<1>16. CASE Closing(p)
  BY <1>16, ReturnTells, ExecTells, StatementTells
  DEF Closing, LockToClose, RestoreItem, HandOver, PayProceeds, CancelUnsold, EndSold, CloseRow,
      ChangeBalance, At, Changing
<1>17. QED
  BY <1>1, <1>2, <1>3, <1>5, <1>6, <1>7, <1>8, <1>9, <1>10, <1>11, <1>12, <1>13, <1>15, <1>16
  DEF Step, Reading

-----------------------------------------------------------------------------
(* Answers.                                                                 *)

\* A context in use belongs to a request that is waited for.
ContextsHeld ==
    \A x \in Apps, c \in Contexts :
      holder[x][c] # Nothing =>
        \E q \in Clients : /\ holder[x][c] = q /\ http[q].main = "waiting"
                           /\ http[q].app = x /\ http[q].context = c

\* Whoever has written its answer has nothing left to do, and an orderly
\* response has been written to once, by its own handler.
Honest(p) ==
    LET h == http[p] IN
    /\ h.main = "unsent" => h.reply = Nothing
    /\ h.main # "unsent" => h.app \in Apps /\ h.context \in Contexts
    /\ h.main = "answered" => h.wrote
    /\ h.main = "lost" => req[p].at = "idle"
    /\ h.wrote => ~Running(p)
    /\ h.reply = Nothing => ~h.garbled
    /\ (h.reply # Nothing /\ Orderly(p)) =>
         /\ h.wrote /\ h.reply.by = p /\ ~h.garbled
         /\ req[p].at = "done" => h.reply.status = Status(req[p].ask.op, req[p].err)

Honesty ==
    /\ Guarded /\ Web /\ ContextsHeld
    /\ \A p \in Procs : Told(req[p])
    /\ \A p \in Clients : Honest(p)

\* No status is both a success and a refusal of the client, and an internal
\* error is neither.
LEMMA StatusMeans ==
    ASSUME NEW op, NEW e
    PROVE  /\ Status(op, e) < 300 => e = "ok"
           /\ Status(op, e) \in {400, 404} => e \notin {"ok", "internal"}
<1>1. CASE e = "ok"
  <2>1. Status(op, e) \in {200, 201}
    BY <1>1 DEF Status
  <2>2. QED
    BY <1>1, <2>1
<1>2. CASE e # "ok"
  <2>1. /\ StartAuctionStatus(e) \in {400, 404, 500} /\ GetAuctionStatus(e) \in {400, 404, 500}
        /\ PlaceBidStatus(e) \in {400, 404, 500} /\ CreateGuildStatus(e) \in {400, 404, 500}
        /\ GuildInventoryStatus(e) \in {400, 404, 500} /\ WalletSummaryStatus(e) \in {400, 404, 500}
    BY DEF StartAuctionStatus, GetAuctionStatus, PlaceBidStatus, CreateGuildStatus,
           GuildInventoryStatus, WalletSummaryStatus
  <2>2. /\ DepositGoldStatus(e) \in {400, 404, 500} /\ CreateItemStatus(e) \in {400, 404, 500}
        /\ ListForSaleStatus(e) \in {400, 404, 500} /\ GetItemStatus(e) \in {400, 404, 500}
        /\ BuyItemStatus(e) \in {400, 404, 500}
    BY DEF DepositGoldStatus, CreateItemStatus, ListForSaleStatus, GetItemStatus, BuyItemStatus
  <2>3. Status(op, e) \in {400, 404, 500}
    BY <1>2, <2>1, <2>2 DEF Status
  <2>4. ASSUME e = "internal" PROVE Status(op, e) = 500
    <3>1. /\ StartAuctionStatus(e) = 500 /\ GetAuctionStatus(e) = 500 /\ PlaceBidStatus(e) = 500
          /\ CreateGuildStatus(e) = 500 /\ GuildInventoryStatus(e) = 500
          /\ WalletSummaryStatus(e) = 500
      BY <2>4 DEF StartAuctionStatus, GetAuctionStatus, PlaceBidStatus, CreateGuildStatus,
             GuildInventoryStatus, WalletSummaryStatus
    <3>2. /\ DepositGoldStatus(e) = 500 /\ CreateItemStatus(e) = 500
          /\ ListForSaleStatus(e) = 500 /\ GetItemStatus(e) = 500 /\ BuyItemStatus(e) = 500
      BY <2>4 DEF DepositGoldStatus, CreateItemStatus, ListForSaleStatus, GetItemStatus, BuyItemStatus
    <3>3. QED
      BY <1>2, <3>1, <3>2 DEF Status
  <2>5. QED
    BY <1>2, <2>3, <2>4
<1>3. QED
  BY <1>1, <1>2

LEMMA HonestyAnswers == ASSUME Honesty PROVE AnswersAreTrue
<1>1. ASSUME NEW p \in Clients, http[p].reply # Nothing, Orderly(p)
      PROVE  LET h == http[p] IN
             /\ h.reply.by = p /\ ~h.garbled
             /\ req[p].at = "done" =>
                  /\ (h.reply.status < 300 /\ req[p].ask.op \in Changing) => req[p].kept
                  /\ h.reply.status \in {400, 404} => ~req[p].kept
  <2>1. /\ http[p].reply.by = p /\ ~http[p].garbled
        /\ req[p].at = "done" => http[p].reply.status = Status(req[p].ask.op, req[p].err)
    BY <1>1 DEF Honesty, Honest
  <2>2. Told(req[p])
    BY ProcessAssumption DEF Honesty
  <2>3. QED
    BY <2>1, <2>2, StatusMeans DEF Told
<1>2. QED
  BY <1>1 DEF AnswersAreTrue

\* An expired request stays one, in the context it had.
ExpiredStays ==
    \A q \in Clients : http[q].main = "expired" =>
        http'[q].main = "expired" /\ http'[q].app = http[q].app /\ http'[q].context = http[q].context

LEMMA OrderlyBefore ==
    ASSUME NEW p \in Clients, ExpiredStays, Orderly(p)',
           http'[p].app = http[p].app, http'[p].context = http[p].context
    PROVE  Orderly(p)
BY DEF ExpiredStays, Orderly

LEMMA HonestFramed ==
    ASSUME NEW p \in Clients, Honest(p), ExpiredStays, http'[p] = http[p], req'[p] = req[p]
    PROVE  Honest(p)'
<1>1. Orderly(p)' => Orderly(p)
  BY OrderlyBefore
<1>2. QED
  BY <1>1 DEF Honest, Running

\* A request that is killed is nothing any more.
LEMMA HonestKilled ==
    ASSUME NEW p \in Clients, Honest(p), ExpiredStays, req'[p] = NoRequest,
           http'[p].app = http[p].app, http'[p].context = http[p].context,
           http'[p].wrote = http[p].wrote, http'[p].reply = http[p].reply,
           http'[p].garbled = http[p].garbled,
           http'[p].main = http[p].main \/ (http'[p].main = "lost" /\ http[p].main = "waiting")
    PROVE  Honest(p)'
<1>1. Orderly(p)' => Orderly(p)
  BY OrderlyBefore
<1>2. req'[p].at = "idle"
  BY DEF NoRequest
<1>3. QED
  BY <1>1, <1>2 DEF Honest, Running

\* A handler that makes a step has not answered yet.
LEMMA HandleHonest ==
    ASSUME NEW p \in Clients, Honesty, Handle(p)
    PROVE  Honesty'
<1>0. p \in Procs /\ Guarded /\ Shapes /\ Positions /\ Exclusive /\ Web
  BY ProcessAssumption DEF Honesty, Guarded
<1>1. Step(p) \/ Fail(p) \/ CommitUnconfirmed(p)
  BY HandlesSteps
<1>2. http' = http /\ holder' = holder
  BY DEF Handle, web
<1>3. ExpiredStays
  BY <1>2 DEF ExpiredStays
<1>4. Guarded'
  BY <1>0, <1>1, StepKeeps DEF AnyStep
<1>5. Web'
  BY <1>0, WebStep DEF Handle, ServiceNext, ClientNext
<1>6. ContextsHeld'
  BY <1>2 DEF Honesty, ContextsHeld
<1>7. \A q \in Procs : q # p => req'[q] = req[q]
  BY <1>0, <1>1, StepKinds, OthersStay
<1>8. Told(req'[p])
  BY <1>0, <1>1, StepTells DEF Honesty
<1>9. Running(p)
  BY <1>0, <1>1, StepGoesOn DEF Onward
<1>10. Honest(p)'
  <2>1. ~http[p].wrote /\ http[p].main # "lost"
    BY <1>9 DEF Honesty, Honest, Running
  <2>2. Orderly(p)' => Orderly(p)
    BY <1>2, <1>3, OrderlyBefore
  <2>3. QED
    BY <1>2, <2>1, <2>2 DEF Honesty, Honest
<1>11. ASSUME NEW q \in Clients, q # p PROVE Honest(q)'
  BY <1>2, <1>3, <1>7, <1>11, HonestFramed, ProcessAssumption DEF Honesty
<1>12. \A q \in Procs : Told(req'[q])
  BY <1>7, <1>8 DEF Honesty
<1>13. QED
  BY <1>4, <1>5, <1>6, <1>10, <1>11, <1>12 DEF Honesty

\* A copy's own process has no answer to write.
LEMMA AppHonest ==
    ASSUME NEW x \in Apps, Honesty, SeedCall(x) \/ WorkerCall(x) \/ AppStep(x)
    PROVE  Honesty'
<1>0. x \in Procs /\ Guarded /\ Shapes /\ Positions /\ Exclusive /\ Web
  BY ProcessAssumption DEF Honesty, Guarded
<1>1. http' = http /\ holder' = holder
  BY DEF SeedCall, WorkerCall, AppStep, web
<1>2. Web'
  BY <1>0, WebStep DEF ServiceNext, AppNext
<1>3. /\ Guarded' /\ Told(req'[x])
      /\ \A q \in Procs : q # x => req'[q] = req[q]
  <2>1. CASE AppStep(x)
    <3>1. Step(x) \/ Fail(x) \/ CommitUnconfirmed(x)
      BY <2>1 DEF AppStep
    <3>2. QED
      BY <1>0, <3>1, StepKeeps, StepTells, StepKinds, OthersStay DEF AnyStep, Honesty
  <2>2. ASSUME NEW ask, CallRepository(x, ask)
        PROVE  /\ Guarded' /\ Told(req'[x])
               /\ \A q \in Procs : q # x => req'[q] = req[q]
    <3>1. Guarded'
      BY <1>0, <2>2, StepKeeps DEF AnyStep
    <3>2. PICK at \in {"insert", "begin"} : Take(x, ask, at)
      BY <2>2 DEF CallRepository
    <3>3. /\ req'[x] = [NoRequest EXCEPT !.ask = ask, !.at = at]
          /\ \A q \in Procs : q # x => req'[q] = req[q]
      BY <1>0, <3>2 DEF Take, Shapes
    <3>4. Told(req'[x])
      BY <3>3 DEF NoRequest, Told
    <3>5. QED
      BY <3>1, <3>3, <3>4
  <2>3. QED
    BY <2>1, <2>2 DEF SeedCall, WorkerCall
<1>4. ContextsHeld'
  BY <1>1 DEF Honesty, ContextsHeld
<1>5. ASSUME NEW q \in Clients PROVE Honest(q)'
  <2>1. req'[q] = req[q]
    BY <1>3, ProcessAssumption
  <2>2. ExpiredStays
    BY <1>1 DEF ExpiredStays
  <2>3. QED
    BY <1>1, <2>1, <2>2, HonestFramed DEF Honesty
<1>6. QED
  BY <1>2, <1>3, <1>4, <1>5 DEF Honesty

\* Steps that leave requests and responses alone
LEMMA IdleHonest ==
    ASSUME Honesty, UNCHANGED <<vars, web>>, [ServiceNext]_allVars
    PROVE  Honesty'
<1>1. http' = http /\ holder' = holder /\ req' = req
  BY DEF web, vars
<1>2. ExpiredStays
  BY <1>1 DEF ExpiredStays
<1>3. Guarded' /\ Web'
  BY StepKeeps, WebStep DEF AnyStep, Honesty
<1>4. \A q \in Clients : Honest(q)'
  BY <1>1, <1>2, HonestFramed DEF Honesty
<1>5. QED
  BY <1>1, <1>3, <1>4 DEF Honesty, ContextsHeld

LEMMA AcceptHonest ==
    ASSUME NEW p \in Clients, Honesty, Accept(p)
    PROVE  Honesty'
<1>0. p \in Procs /\ Guarded /\ Shapes /\ Web /\ WebShapes
  BY ProcessAssumption DEF Honesty, Guarded, Web
<1>1. PICK x \in Apps, c \in Contexts :
        /\ holder[x][c] = Nothing
        /\ http' = [http EXCEPT ![p] = [Unsent EXCEPT !.main = "waiting", !.app = x, !.context = c]]
        /\ holder' = [holder EXCEPT ![x] = [@ EXCEPT ![c] = p]]
  BY DEF Accept
<1>2. /\ http'[p].main = "waiting" /\ http'[p].app = x /\ http'[p].context = c
      /\ ~http'[p].wrote /\ http'[p].reply = Nothing /\ ~http'[p].garbled
      /\ \A q \in Clients : q # p => http'[q] = http[q]
  BY <1>0, <1>1 DEF Unsent, WebShapes
<1>3. http[p].main = "unsent" /\ Call(p, work[p])
  BY DEF Accept
<1>4. /\ req'[p] = [NoRequest EXCEPT !.ask = work[p], !.at = "service"]
      /\ \A q \in Procs : q # p => req'[q] = req[q]
  BY <1>0, <1>3 DEF Call, Take, Shapes
<1>5. Told(req'[p])
  BY <1>4 DEF NoRequest, Told
<1>6. Guarded' /\ Web'
  BY <1>0, <1>3, StepKeeps, WebStep DEF AnyStep, ServiceNext, ClientNext
<1>7. ContextsHeld'
  <2>1. /\ holder'[x][c] = p
        /\ \A y \in Apps, d \in Contexts : ~(y = x /\ d = c) => holder'[y][d] = holder[y][d]
    BY <1>0, <1>1 DEF WebShapes
  <2>2. \A y \in Apps, d \in Contexts : holder[y][d] # p
    BY <1>3, NothingAssumption DEF Honesty, ContextsHeld
  <2>3. ASSUME NEW y \in Apps, NEW d \in Contexts, holder'[y][d] # Nothing
        PROVE  \E q \in Clients : /\ holder'[y][d] = q /\ http'[q].main = "waiting"
                                  /\ http'[q].app = y /\ http'[q].context = d
    BY <1>2, <2>1, <2>2, <2>3 DEF Honesty, ContextsHeld
  <2>4. QED
    BY <2>3 DEF ContextsHeld
<1>8. ExpiredStays
  BY <1>2, <1>3 DEF ExpiredStays
<1>9. Honest(p)'
  BY <1>2 DEF Honest
<1>10. ASSUME NEW q \in Clients, q # p PROVE Honest(q)'
  BY <1>2, <1>4, <1>8, <1>10, HonestFramed, ProcessAssumption DEF Honesty
<1>11. \A q \in Procs : Told(req'[q])
  BY <1>4, <1>5 DEF Honesty
<1>12. QED
  BY <1>6, <1>7, <1>9, <1>10, <1>11 DEF Honesty

\* What an answer is written into
LEMMA WrittenOnce ==
    ASSUME NEW h, HttpRecord(h), NEW by \in Clients, NEW status \in Statuses,
           h.reply = Nothing, ~h.garbled
    PROVE  LET g == Written(h, by, status) IN
           g.reply.by = by /\ g.reply.status = status /\ ~g.garbled
<1>1. Written(h, by, status) = [h EXCEPT !.reply = [by |-> by, status |-> status]]
  BY DEF Written
<1>2. QED
  BY <1>1 DEF HttpRecord

\* A handler whose request is waited for writes into its own response.
LEMMA OwnAnswerHonest ==
    ASSUME NEW p \in Clients, Honesty, WriteAnswer(p), http[p].main = "waiting"
    PROVE  /\ Honest(p)' /\ ExpiredStays
           /\ \A q \in Clients : q # p => http'[q] = http[q]
           /\ http'[p].main = "waiting" /\ http'[p].app = http[p].app
           /\ http'[p].context = http[p].context
<1> DEFINE status == Status(req[p].ask.op, req[p].err)
           own == [http[p] EXCEPT !.wrote = TRUE]
           g == Written(own, p, status)
<1>0. Web /\ WebShapes /\ HttpRecord(http[p])
  BY DEF Honesty, Web, WebShapes
<1>1. /\ HttpRecord(own) /\ own.wrote = TRUE /\ own.main = http[p].main
      /\ own.app = http[p].app /\ own.context = http[p].context /\ own.reply = http[p].reply
      /\ own.garbled = http[p].garbled
  BY <1>0 DEF HttpRecord
<1>2. status \in Statuses
  BY StatusKnown
<1>3. holder[http[p].app][http[p].context] = p /\ p # Nothing
  BY <1>0, NothingAssumption DEF Web, Answered
<1>4. http'[p] = g /\ \A q \in Clients : q # p => http'[q] = http[q]
  <2>1. http' = [[http EXCEPT ![p] = own] EXCEPT ![p] = Written(@, p, status)]
    BY <1>3 DEF WriteAnswer
  <2>2. [http EXCEPT ![p] = own][p] = own
    BY <1>0 DEF WebShapes
  <2>3. QED
    BY <1>0, <2>1, <2>2 DEF WebShapes
<1> HIDE DEF own, status
<1>5. /\ g.reply # Nothing /\ g.main = "waiting" /\ g.app = http[p].app
      /\ g.context = http[p].context /\ g.wrote
  BY <1>1, <1>2, WrittenHasAnswer
<1>6. own.reply = Nothing /\ ~own.garbled => g.reply.by = p /\ g.reply.status = status /\ ~g.garbled
  BY <1>1, <1>2, WrittenOnce
<1> HIDE DEF g
<1>7. ExpiredStays
  BY <1>4 DEF ExpiredStays
<1>8. Orderly(p)' => Orderly(p)
  BY <1>4, <1>5, <1>7, OrderlyBefore
<1>9. Orderly(p) => own.reply = Nothing /\ ~own.garbled
  BY <1>1 DEF Honesty, Honest, WriteAnswer
<1>10. req' = req /\ req[p].at = "done"
  BY DEF WriteAnswer, vars
<1>11. Honest(p)'
  BY <1>4, <1>5, <1>6, <1>8, <1>9, <1>10 DEF Honesty, Honest, Running, status
<1>12. QED
  BY <1>4, <1>5, <1>7, <1>11

\* A late handler writes into nothing, or into a response that is then not orderly.
LEMMA LateAnswerHonest ==
    ASSUME NEW p \in Clients, Honesty, WriteAnswer(p), http[p].main # "waiting"
    PROVE  /\ \A q \in Clients : Honest(q)'
           /\ \A q \in Clients : /\ http'[q].main = http[q].main /\ http'[q].app = http[q].app
                                 /\ http'[q].context = http[q].context
<1> DEFINE x == http[p].app
           c == http[p].context
           r == holder[x][c]
           status == Status(req[p].ask.op, req[p].err)
           own == [http[p] EXCEPT !.wrote = TRUE]
           done == [http EXCEPT ![p] = own]
<1>0. Web /\ WebShapes /\ \A q \in Clients : HttpRecord(http[q])
  BY DEF Honesty, Web, WebShapes
<1>1. http[p].main = "expired"
  BY <1>0 DEF WriteAnswer, Honesty, Honest, Web, Answered
<1>2. x \in Apps /\ c \in Contexts
  BY <1>1 DEF Honesty, Honest
<1>3. /\ HttpRecord(own) /\ own.wrote = TRUE /\ own.main = "expired"
      /\ own.app = x /\ own.context = c /\ own.reply = http[p].reply
      /\ own.garbled = http[p].garbled
  BY <1>0, <1>1 DEF HttpRecord
<1>4. status \in Statuses
  BY StatusKnown
<1>5. req' = req /\ req[p].at = "done"
  BY DEF WriteAnswer, vars
<1>6. http' = IF r = Nothing THEN done ELSE [done EXCEPT ![r] = Written(@, p, status)]
  BY DEF WriteAnswer
<1> HIDE DEF own, status
<1>7. done = [q \in Clients |-> done[q]] /\ done[p] = own
      /\ \A q \in Clients : q # p => done[q] = http[q]
  BY <1>0 DEF WebShapes
<1> HIDE DEF done
<1>8. CASE r = Nothing
  <2>1. http'[p] = own /\ \A q \in Clients : q # p => http'[q] = http[q]
    BY <1>6, <1>7, <1>8
  <2>2. ExpiredStays
    BY <1>1, <1>3, <2>1 DEF ExpiredStays
  <2>3. ~Orderly(p)'
    BY <1>3, <2>1 DEF Orderly
  <2>4. Honest(p)'
    BY <1>1, <1>2, <1>3, <1>5, <2>1, <2>3 DEF Honesty, Honest, Running
  <2>5. \A q \in Clients : q # p => Honest(q)'
    BY <1>5, <2>1, <2>2, HonestFramed DEF Honesty
  <2>6. QED
    BY <1>1, <1>3, <2>1, <2>4, <2>5
<1>9. CASE r # Nothing
  <2>1. PICK o \in Clients : /\ r = o /\ http[o].main = "waiting"
                             /\ http[o].app = x /\ http[o].context = c
    BY <1>2, <1>9 DEF Honesty, ContextsHeld
  <2> DEFINE g == Written(http[o], p, status)
  <2>2. o # p
    BY <1>1, <2>1
  <2>3. /\ g.reply # Nothing /\ g.main = "waiting" /\ g.app = x
        /\ g.context = c /\ g.wrote = http[o].wrote
    BY <1>0, <1>4, <2>1, WrittenHasAnswer
  <2>4. http' = [done EXCEPT ![o] = Written(done[o], p, status)] /\ done[o] = http[o]
    BY <1>6, <1>7, <1>9, <2>1, <2>2
  <2> HIDE DEF g, r
  <2>5. /\ http'[p] = own /\ http'[o] = g
        /\ \A q \in Clients : q # p /\ q # o => http'[q] = http[q]
    BY <1>7, <2>2, <2>4 DEF g
  <2>6. ExpiredStays
    BY <1>1, <1>3, <2>1, <2>5 DEF ExpiredStays
  <2>7. ~Orderly(p)' /\ ~Orderly(o)'
    BY <1>3, <2>3, <2>5 DEF Orderly
  <2>8. Honest(p)'
    BY <1>1, <1>2, <1>3, <1>5, <2>5, <2>7 DEF Honesty, Honest, Running
  <2>9. Honest(o)'
    BY <1>2, <1>5, <2>1, <2>3, <2>5, <2>7 DEF Honesty, Honest, Running
  <2>10. \A q \in Clients : q # p /\ q # o => Honest(q)'
    BY <1>5, <2>5, <2>6, HonestFramed DEF Honesty
  <2>11. QED
    BY <1>1, <1>3, <2>1, <2>3, <2>5, <2>8, <2>9, <2>10
<1>10. QED
  BY <1>8, <1>9

LEMMA WriteAnswerHonest ==
    ASSUME NEW p \in Clients, Honesty, WriteAnswer(p)
    PROVE  Honesty'
<1>1. UNCHANGED vars /\ req' = req /\ holder' = holder
  BY DEF WriteAnswer, vars
<1>2. Guarded' /\ Web'
  BY <1>1, StepKeeps, WebStep DEF AnyStep, Honesty, ServiceNext, ClientNext
<1>3. /\ \A q \in Clients : Honest(q)'
      /\ \A q \in Clients : /\ http'[q].main = http[q].main /\ http'[q].app = http[q].app
                            /\ http'[q].context = http[q].context
  <2>1. CASE http[p].main = "waiting"
    <3>1. \A q \in Clients : q # p => Honest(q)'
      BY <1>1, <2>1, OwnAnswerHonest, HonestFramed, ProcessAssumption DEF Honesty
    <3>2. QED
      BY <2>1, <3>1, OwnAnswerHonest
  <2>2. CASE http[p].main # "waiting"
    BY <2>2, LateAnswerHonest
  <2>3. QED
    BY <2>1, <2>2
<1>4. ContextsHeld'
  BY <1>1, <1>3 DEF Honesty, ContextsHeld
<1>5. QED
  BY <1>1, <1>2, <1>3, <1>4 DEF Honesty

\* main returns, with the answer or with its own.
LEMMA MainReturnsHonest ==
    ASSUME NEW p \in Clients, Honesty, Receive(p) \/ Timeout(p)
    PROVE  Honesty'
<1>0. Web /\ WebShapes /\ HttpRecord(http[p])
  BY DEF Honesty, Web, WebShapes
<1>1. UNCHANGED vars /\ req' = req /\ Release(p) /\ http[p].main = "waiting"
  BY DEF Receive, Timeout, vars
<1>2. Guarded' /\ Web'
  BY <1>1, StepKeeps, WebStep DEF AnyStep, Honesty, ServiceNext, ClientNext
<1> DEFINE x == http[p].app
           c == http[p].context
<1>3. x \in Apps /\ c \in Contexts /\ holder[x][c] = p
  BY <1>0, <1>1 DEF Web, Answered
<1>4. PICK h : /\ http' = [http EXCEPT ![p] = h] /\ HttpRecord(h)
               /\ h.app = x /\ h.context = c /\ h.wrote = http[p].wrote
               /\ h.reply = Nothing => ~h.garbled
               /\ \/ /\ h.main = "answered" /\ http[p].wrote
                     /\ h.reply = http[p].reply /\ h.garbled = http[p].garbled
                  \/ h.main = "expired"
  <2>1. CASE Receive(p)
    <3> DEFINE h == [http[p] EXCEPT !.main = "answered"]
    <3>1. /\ HttpRecord(h) /\ h.main = "answered" /\ h.app = x /\ h.context = c
          /\ h.wrote = http[p].wrote /\ h.reply = http[p].reply /\ h.garbled = http[p].garbled
      BY <1>0 DEF HttpRecord
    <3>2. http' = [http EXCEPT ![p] = h] /\ http[p].wrote
      BY <2>1 DEF Receive
    <3>3. http[p].reply = Nothing => ~http[p].garbled
      BY DEF Honesty, Honest
    <3> HIDE DEF h
    <3>4. QED
      BY <3>1, <3>2, <3>3
  <2>2. CASE Timeout(p)
    <3> DEFINE g == Written(http[p], p, 503)
               h == [g EXCEPT !.main = "expired"]
    <3>0. 503 \in Statuses
      BY DEF Statuses
    <3>1. HttpRecord(g) /\ g.reply # Nothing /\ g.app = x /\ g.context = c /\ g.wrote = http[p].wrote
      BY <1>0, <3>0, WrittenHasAnswer
    <3>2. http' = [http EXCEPT ![p] = h]
      BY <2>2 DEF Timeout
    <3> HIDE DEF g
    <3>3. /\ HttpRecord(h) /\ h.main = "expired" /\ h.app = x /\ h.context = c
          /\ h.wrote = http[p].wrote /\ h.reply # Nothing
      BY <3>1 DEF HttpRecord
    <3> HIDE DEF h
    <3>4. QED
      BY <3>2, <3>3
  <2>3. QED
    BY <1>1, <2>1, <2>2
<1>5. http'[p] = h /\ \A q \in Clients : q # p => http'[q] = http[q]
  BY <1>0, <1>4 DEF WebShapes
<1> HIDE DEF x, c
<1>6. ExpiredStays
  BY <1>1, <1>5 DEF ExpiredStays
<1>7. ContextsHeld'
  <2>1. holder' = [holder EXCEPT ![x] = [@ EXCEPT ![c] = Nothing]]
    BY <1>1 DEF Release, x, c
  <2>2. /\ holder'[x][c] = Nothing
        /\ \A y \in Apps, d \in Contexts : ~(y = x /\ d = c) => holder'[y][d] = holder[y][d]
    BY <1>0, <1>3, <2>1 DEF WebShapes
  <2>3. \A y \in Apps, d \in Contexts : holder[y][d] = p => y = x /\ d = c
    BY NothingAssumption DEF Honesty, ContextsHeld, x, c
  <2>4. ASSUME NEW y \in Apps, NEW d \in Contexts, holder'[y][d] # Nothing
        PROVE  \E q \in Clients : /\ holder'[y][d] = q /\ http'[q].main = "waiting"
                                  /\ http'[q].app = y /\ http'[q].context = d
    BY <1>5, <2>2, <2>3, <2>4 DEF Honesty, ContextsHeld
  <2>5. QED
    BY <2>4 DEF ContextsHeld
<1>8. Honest(p)'
  <2>1. CASE h.main = "expired"
    <3>1. ~Orderly(p)'
      BY <1>5, <2>1 DEF Orderly
    <3>2. QED
      BY <1>1, <1>3, <1>4, <1>5, <2>1, <3>1 DEF Honesty, Honest, Running
  <2>2. CASE h.main = "answered"
    <3>1. Orderly(p)' => Orderly(p)
      BY <1>4, <1>5, <1>6, OrderlyBefore DEF x, c
    <3>2. QED
      BY <1>1, <1>3, <1>4, <1>5, <2>2, <3>1 DEF Honesty, Honest, Running
  <2>3. QED
    BY <1>4, <2>1, <2>2
<1>9. \A q \in Clients : q # p => Honest(q)'
  BY <1>1, <1>5, <1>6, HonestFramed DEF Honesty
<1>10. QED
  BY <1>1, <1>2, <1>7, <1>8, <1>9 DEF Honesty

\* The end of a copy: whoever it served is killed.
LEMMA EndsHonest ==
    ASSUME NEW x \in Apps, NEW next, Honesty, Ends(x, next), [ServiceNext]_allVars
    PROVE  Honesty'
<1>0. Web /\ WebShapes /\ \A p \in Clients : HttpRecord(http[p])
  BY DEF Honesty, Web, WebShapes
<1>1. /\ Kill(Served(x) \cup {x})
      /\ http' = [p \in Clients |->
                    IF p \in Waiting(x) THEN [http[p] EXCEPT !.main = "lost"] ELSE http[p]]
      /\ holder' = [holder EXCEPT ![x] = [c \in Contexts |-> Nothing]]
  BY DEF Ends
<1>2. Guarded' /\ Web'
  BY <1>1, StepKeeps, WebStep DEF AnyStep, Honesty
<1>3. \A p \in Procs : IF p \in Served(x) \cup {x} THEN req'[p] = NoRequest ELSE req'[p] = req[p]
  BY <1>1 DEF Kill
<1>4. ASSUME NEW p \in Clients
      PROVE  /\ http'[p].app = http[p].app /\ http'[p].context = http[p].context
             /\ http'[p].wrote = http[p].wrote /\ http'[p].reply = http[p].reply
             /\ http'[p].garbled = http[p].garbled
             /\ http'[p].main = http[p].main \/ (http'[p].main = "lost" /\ http[p].main = "waiting")
             /\ p \notin Waiting(x) => http'[p] = http[p]
  <2>1. CASE p \in Waiting(x)
    <3>1. http'[p] = [http[p] EXCEPT !.main = "lost"] /\ http[p].main = "waiting"
      BY <1>1, <2>1 DEF Waiting
    <3>2. QED
      BY <1>0, <2>1, <3>1 DEF HttpRecord
  <2>2. CASE p \notin Waiting(x)
    <3>1. http'[p] = http[p]
      BY <1>1, <2>2
    <3>2. QED
      BY <3>1
  <2>3. QED
    BY <2>1, <2>2
<1>5. ExpiredStays
  BY <1>4 DEF ExpiredStays
<1>6. ASSUME NEW p \in Clients PROVE Honest(p)'
  <2>1. CASE p \in Served(x)
    <3>1. req'[p] = NoRequest
      BY <1>3, <2>1, ProcessAssumption
    <3>2. QED
      BY <1>4, <1>5, <3>1, HonestKilled DEF Honesty
  <2>2. CASE p \notin Served(x)
    <3>1. p # x
      BY ProcessAssumption
    <3>2. req'[p] = req[p] /\ http'[p] = http[p]
      BY <1>3, <1>4, <2>2, <3>1, ProcessAssumption DEF Waiting
    <3>3. QED
      BY <1>5, <3>2, HonestFramed DEF Honesty
  <2>3. QED
    BY <2>1, <2>2
<1>7. \A p \in Procs : Told(req'[p])
  BY <1>3 DEF Honesty, NoRequest, Told
<1>8. ContextsHeld'
  <2>1. \A y \in Apps, c \in Contexts :
          /\ y = x => holder'[y][c] = Nothing
          /\ y # x => holder'[y][c] = holder[y][c]
    BY <1>0, <1>1 DEF WebShapes
  <2>2. ASSUME NEW y \in Apps, NEW c \in Contexts, holder'[y][c] # Nothing
        PROVE  \E q \in Clients : /\ holder'[y][c] = q /\ http'[q].main = "waiting"
                                  /\ http'[q].app = y /\ http'[q].context = c
    <3>1. y # x /\ holder'[y][c] = holder[y][c]
      BY <2>1, <2>2
    <3>2. PICK q \in Clients : /\ holder[y][c] = q /\ http[q].main = "waiting"
                               /\ http[q].app = y /\ http[q].context = c
      BY <2>2, <3>1 DEF Honesty, ContextsHeld
    <3>3. q \notin Waiting(x)
      BY <3>1, <3>2 DEF Waiting, Served
    <3>4. QED
      BY <1>4, <3>1, <3>2, <3>3
  <2>3. QED
    BY <2>2 DEF ContextsHeld
<1>9. QED
  BY <1>2, <1>6, <1>7, <1>8 DEF Honesty

LEMMA HonestyStep ==
    ASSUME Honesty, [ServiceNext]_allVars
    PROVE  Honesty'
<1>1. CASE UNCHANGED allVars
  <2>1. UNCHANGED <<vars, web>>
    BY <1>1 DEF allVars
  <2>2. QED
    BY <2>1, IdleHonest
<1>2. ASSUME NEW x \in Apps, AppNext(x) PROVE Honesty'
  <2>1. CASE Start(x) \/ SeedCheck(x) \/ SeedNext(x) \/ Signal(x) \/ ShutdownDone(x)
    BY <2>1, IdleHonest DEF Start, SeedCheck, SeedNext, Signal, ShutdownDone
  <2>2. CASE SeedCall(x) \/ WorkerCall(x) \/ AppStep(x)
    BY <2>2, AppHonest
  <2>3. CASE ShutdownTimeout(x) \/ Exit(x) \/ Crash(x) \/ PricePanic(x)
    BY <2>3, EndsHonest DEF ShutdownTimeout, Exit, Crash, PricePanic
  <2>4. QED
    BY <1>2, <2>1, <2>2, <2>3 DEF AppNext
<1>3. ASSUME NEW p \in Clients, ClientNext(p) PROVE Honesty'
  BY <1>3, AcceptHonest, HandleHonest, WriteAnswerHonest, MainReturnsHonest DEF ClientNext
<1>4. QED
  BY <1>1, <1>2, <1>3 DEF ServiceNext

LEMMA InitHonesty == ASSUME ServiceInit PROVE Honesty
<1>1. /\ Init /\ http = [p \in Clients |-> Unsent]
      /\ holder = [x \in Apps |-> [c \in Contexts |-> Nothing]]
  BY DEF ServiceInit
<1>2. Guarded /\ Web
  BY <1>1, InitGuarded, InitWeb
<1>3. ContextsHeld
  BY <1>1 DEF ContextsHeld
<1>4. \A p \in Procs : Told(req[p])
  BY <1>1 DEF Init, NoRequest, Told
<1>5. \A p \in Clients : Honest(p)
  BY <1>1 DEF Unsent, Honest
<1>6. QED
  BY <1>2, <1>3, <1>4, <1>5 DEF Honesty

\* Whatever expires, is lost or dies, for any number of requests, copies and
\* contexts: a response that no expired request shares gets one answer, from its
\* own handler; success means that the change is committed, 400 and 404 that
\* nothing is.
THEOREM AnswersAlwaysTrue == ServiceSpec => []AnswersAreTrue
<1>1. ServiceInit => Honesty
  BY InitHonesty
<1>2. Honesty /\ [ServiceNext]_allVars => Honesty'
  BY HonestyStep
<1>3. Honesty => AnswersAreTrue
  BY HonestyAnswers
<1>4. QED
  BY <1>1, <1>2, <1>3, PTL DEF ServiceSpec

-----------------------------------------------------------------------------
(* The seed.  All of it hangs on its first guild: nobody can found a second *)
(* one of that name, and without it a start goes no further.                *)

LEMMA SeedIdsDiffer ==
    \A x, k, n, y, j, m : SeedId(x, k, n) = SeedId(y, j, m) => x = y /\ k = j /\ n = m
BY DEF SeedId

LEMMA SeedIds ==
    ASSUME NEW x, NEW k, NEW n \in 1..10
    PROVE  SeedAsk(x, k, n).id = SeedId(x, k, n)
<1>1. n \in {1, 2, 3, 4, 5} \/ n \in {6, 7, 8, 9, 10}
  OBVIOUS
<1>2. CASE n \in {1, 2, 3, 4, 5}
  BY <1>2, Seed1, Seed2, Seed3, Seed4, Seed5
<1>3. CASE n \in {6, 7, 8, 9, 10}
  BY <1>3, Seed6, Seed7, Seed8, Seed9, Seed10
<1>4. QED
  BY <1>1, <1>2, <1>3

\* Whose id it is, is told by the row.
LEMMA RowsTell ==
    ASSUME NEW i, NEW j, NEW r \in Rows(i),
           r \in {Guild(j), Item(j), Auction(j), Log(<<j, 1>>), Log(<<j, 2>>)}
    PROVE  i = j
<1>1. CASE r = Log(<<i, 1>>)
  <2>1. r[1] = "log" /\ r[2] = <<i, 1>>
    BY <1>1, Names
  <2>2. r = Log(<<j, 1>>) \/ r = Log(<<j, 2>>)
    BY <2>1, Names
  <2>3. <<i, 1>> = <<j, 1>> \/ <<i, 1>> = <<j, 2>>
    BY <2>1, <2>2, Names
  <2>4. QED
    BY <2>3
<1>2. CASE r \in {Guild(i), Item(i), Auction(i)}
  <2>1. r[2] = i /\ r[1] # "log"
    BY <1>2, Names
  <2>2. r \in {Guild(j), Item(j), Auction(j)}
    BY <2>1, Names
  <2>3. QED
    BY <2>1, <2>2, Names
<1>3. QED
  BY <1>1, <1>2 DEF Rows

Founder(x, k) == Guild(SeedId(x, k, 1))

Rooted(t) ==
    /\ \A x \in Apps, k \in 1..MaxStarts, n \in 1..10 :
         \A r \in Rows(SeedId(x, k, n)) : r \in DOMAIN t => Founder(x, k) \in DOMAIN t
    /\ \A x \in Apps, k \in 1..MaxStarts :
         Founder(x, k) \in DOMAIN t => t[Founder(x, k)].name = "Dragon Slayers Order"
    /\ \A x, y \in Apps, k, j \in 1..MaxStarts :
         (Founder(x, k) \in DOMAIN t /\ Founder(y, j) \in DOMAIN t) => x = y /\ k = j

\* A request of the seeder after the first, and a seeder past its first call, have
\* the first guild behind them.
Behind ==
    /\ \A p \in Procs, x \in Apps, k \in 1..MaxStarts, n \in 2..10 :
         req[p].ask = SeedAsk(x, k, n) => Founder(x, k) \in DOMAIN db
    /\ \A p \in Procs :
         (req[p].at = "done" /\ req[p].err = "ok" /\ req[p].ask.op = "createGuild")
           => Guild(req[p].ask.id) \in DOMAIN db
    /\ \A x \in Apps :
         (phase[x] = "seeding" /\ seed[x] \in 2..10) => Founder(x, starts[x]) \in DOMAIN db
    /\ \A p \in Procs : work[p] \notin SeedAsks

OneSeed == Faithful /\ Rooted(db) /\ Behind

LEMMA OneSeedOnce == ASSUME OneSeed PROVE SeededOnce
<1>0. /\ \A x \in Apps, k \in 1..MaxStarts, n \in 1..10 :
           \A r \in Rows(SeedId(x, k, n)) : r \in DOMAIN db => Founder(x, k) \in DOMAIN db
      /\ \A x, y \in Apps, k, j \in 1..MaxStarts :
           (Founder(x, k) \in DOMAIN db /\ Founder(y, j) \in DOMAIN db) => x = y /\ k = j
  BY DEF OneSeed, Rooted
<1>1. ASSUME NEW s \in Seeders PROVE /\ s = <<s[1], s[2]>> /\ s[1] \in Apps /\ s[2] \in 1..MaxStarts
                                     /\ Founder(s[1], s[2]) \in DOMAIN db
  <2>1. s = <<s[1], s[2]>> /\ s[1] \in Apps /\ s[2] \in 1..MaxStarts /\ Seeded(s[1], s[2])
    BY DEF Seeders
  <2>2. PICK n \in 1..10 : \E r \in Rows(SeedId(s[1], s[2], n)) : r \in DOMAIN db
    BY <2>1 DEF Seeded
  <2>3. QED
    BY <1>0, <2>1, <2>2
<1>2. ASSUME NEW s \in Seeders, NEW t \in Seeders PROVE s = t
  <2>1. s[1] = t[1] /\ s[2] = t[2]
    BY <1>0, <1>1
  <2>2. s = <<s[1], s[2]>> /\ t = <<t[1], t[2]>>
    BY <1>1
  <2>3. QED
    BY <2>1, <2>2
<1>3. QED
  BY <1>2 DEF SeededOnce

\* What a step of p adds to the tables: rows of its request; of guilds, one whose
\* name is free.
Grows(p) ==
    LET k == req[p].ask IN
    /\ \A g : Guild(g) \in DOMAIN db =>
         Guild(g) \in DOMAIN db' /\ db'[Guild(g)].name = db[Guild(g)].name
    /\ \A r \in DOMAIN db' :
         \/ r \in DOMAIN db
         \/ r[1] \in {"bid", "daily"}
         \/ k \in Asks /\ r \in {Guild(k.id), Item(k.id), Auction(k.id), Log(<<k.id, 1>>), Log(<<k.id, 2>>)}
    /\ \A g : (Guild(g) \in DOMAIN db' /\ Guild(g) \notin DOMAIN db) =>
         k \in Asks /\ g = k.id /\ db'[Guild(g)].name = k.name /\ ~NameTaken(db, k.name)
    /\ k.op = "createGuild" => db' = db \/ Guild(k.id) \in DOMAIN db'

LEMMA MintingGrows ==
    ASSUME NEW p \in Procs, Drafted, Minting(p), db' # db
    PROVE  Grows(p)
<1> DEFINE k == req[p].ask
<1>1. CASE CreateGuildRow(p)
  <2>1. ~NameTaken(db, k.name) /\ db' = Write(db, CreateGuild(k.id, k.name, k.limit))
        /\ Guild(k.id) \notin DOMAIN db
    BY <1>1 DEF CreateGuildRow, Autocommit, Return, IsNew
  <2>2. k \in Asks
    BY <1>1 DEF CreateGuildRow, At, Drafted, Known, Running
  <2>3. \A r : r \in DOMAIN db' <=> r \in DOMAIN db \/ r = Guild(k.id)
    BY <2>1, PutHas DEF CreateGuild
  <2>4. \A r \in DOMAIN db : db'[r] = db[r]
    BY <2>1, PutOthers DEF CreateGuild
  <2>5. db'[Guild(k.id)].name = k.name
    <3>1. db'[Guild(k.id)] = [name |-> k.name, gold |-> 0, limit |-> k.limit]
      BY <2>1, PutRow DEF CreateGuild
    <3>2. QED
      BY <3>1
  <2>6. \A g : (Guild(g) \in DOMAIN db' /\ Guild(g) \notin DOMAIN db) => g = k.id
    BY <2>3, Names
  <2>7. QED
    BY <2>1, <2>2, <2>3, <2>4, <2>5, <2>6 DEF Grows
<1>2. CASE InsertItem(p)
  <2>1. db' = Write(db, CreateItem(k.id, k.name, k.kind, k.guild)) /\ Item(k.id) \notin DOMAIN db
        /\ k.op = "createItem"
    BY <1>2 DEF InsertItem, At, Autocommit, Return, IsNew
  <2>2. k \in Asks
    BY <1>2 DEF InsertItem, At, Drafted, Known, Running
  <2>3. \A r : r \in DOMAIN db' <=> r \in DOMAIN db \/ r = Item(k.id)
    BY <2>1, PutHas DEF CreateItem
  <2>4. \A r \in DOMAIN db : db'[r] = db[r]
    BY <2>1, PutOthers DEF CreateItem
  <2>5. \A g : Guild(g) # Item(k.id)
    BY Names
  <2>6. QED
    BY <2>1, <2>2, <2>3, <2>4, <2>5 DEF Grows
<1>3. QED
  BY <1>1, <1>2 DEF Minting, AskPrice, GotPrice, Goto

LEMMA StepGrows ==
    ASSUME NEW p \in Procs, Faithful, Step(p) \/ Fail(p) \/ CommitUnconfirmed(p)
    PROVE  Grows(p)
<1> DEFINE k == req[p].ask
<1>0. Drafted /\ SeedKinds(db) /\ Suited
  BY DEF Faithful
<1>1. CASE db' = db
  BY <1>1 DEF Grows
<1>2. CASE Commit(p) \/ CommitUnconfirmed(p)
  <2>1. req[p].at = "commit" /\ ~tx[p].failed /\ db' = Write(db, tx[p].wrote)
    BY <1>2 DEF Commit, CommitUnconfirmed
  <2>2. Own(db, tx[p].wrote, k)
    BY <1>0, <2>1, CommitEffect
  <2>3. k \in Asks /\ k.op # "createGuild"
    BY <1>0, <2>1 DEF Drafted, Known, Running, Guarded, Positions, Outside, Draft
  <2>4. DOMAIN db' = DOMAIN db \cup DOMAIN tx[p].wrote
    BY <2>1, LaidDomain
  <2>5. ASSUME NEW g, Guild(g) \in DOMAIN db PROVE db'[Guild(g)].name = db[Guild(g)].name
    <3>1. CASE Guild(g) \in DOMAIN tx[p].wrote
      <4>1. db'[Guild(g)] = tx[p].wrote[Guild(g)]
        BY <2>1, <3>1, LaidRow
      <4>2. QED
        BY <2>2, <3>1, <4>1 DEF Own
    <3>2. CASE Guild(g) \notin DOMAIN tx[p].wrote
      <4>1. db'[Guild(g)] = db[Guild(g)]
        BY <2>1, <2>5, <3>2, LaidUnder
      <4>2. QED
        BY <4>1
    <3>3. QED
      BY <3>1, <3>2
  <2>6. \A r \in DOMAIN db' : \/ r \in DOMAIN db
                              \/ r[1] \in {"bid", "daily"}
                              \/ r \in {Auction(k.id), Log(<<k.id, 1>>), Log(<<k.id, 2>>)}
    BY <2>2, <2>4 DEF Own
  <2>7. \A g : Guild(g) \in DOMAIN db' => Guild(g) \in DOMAIN db
    BY <2>2, <2>4 DEF Own
  <2>8. QED
    BY <2>3, <2>4, <2>5, <2>6, <2>7 DEF Grows
<1>3. CASE Minting(p)
  BY <1>0, <1>1, <1>3, MintingGrows
<1>4. CASE RefuseInput(p) \/ Fail(p) \/ Begin(p) \/ Reading(p)
  BY <1>1, <1>4, ReadingEffects DEF RefuseInput, Fail, Begin, Return
<1>5. CASE Depositing(p) \/ Listing(p) \/ Buying(p) \/ Starting(p) \/ Bidding(p) \/ Closing(p)
  BY <1>0, <1>1, <1>5, WorkingChanges
<1>6. QED
  BY <1>2, <1>3, <1>4, <1>5 DEF Step

LEMMA NamesUsed ==
    ASSUME NEW t, Typed(t), NEW g, Guild(g) \in DOMAIN t
    PROVE  NameTaken(t, t[Guild(g)].name)
BY KeysAreNames DEF NameTaken

LEMMA SeedIsAsked ==
    ASSUME NEW x \in Apps, NEW k \in 1..MaxStarts, NEW n \in 1..10
    PROVE  /\ SeedAsk(x, k, n) \in SeedAsks
           /\ \A a \in Asks : a.id = SeedId(x, k, n) => a = SeedAsk(x, k, n)
<1>1. SeedAsk(x, k, n) \in SeedAsks
  BY DEF SeedAsks
<1>2. \A a \in Asks, s \in SeedAsks : a.id = s.id => a = s
  BY SeedAssumption
<1>3. QED
  BY <1>1, <1>2, SeedIds

LEMMA RootedStep ==
    ASSUME NEW p \in Procs, OneSeed, Grows(p)
    PROVE  Rooted(db')
<1> DEFINE a == req[p].ask
<1>0. Rooted(db) /\ Typed(db) /\ Behind
  BY DEF OneSeed, Faithful, Drafted, Sound
<1>1. \A g : Guild(g) \in DOMAIN db =>
        Guild(g) \in DOMAIN db' /\ db'[Guild(g)].name = db[Guild(g)].name
  BY DEF Grows
<1>2. ASSUME NEW x \in Apps, NEW k \in 1..MaxStarts, NEW n \in 1..10, NEW r \in Rows(SeedId(x, k, n)),
             r \in DOMAIN db'
      PROVE  Founder(x, k) \in DOMAIN db'
  <2>1. CASE r \in DOMAIN db
    <3>1. Founder(x, k) \in DOMAIN db
      BY <1>0, <1>2, <2>1 DEF Rooted
    <3>2. QED
      BY <1>1, <3>1 DEF Founder
  <2>2. CASE r \notin DOMAIN db
    <3>1. r[1] \notin {"bid", "daily"}
      BY <1>2, Names DEF Rows
    <3>2. a \in Asks /\ r \in {Guild(a.id), Item(a.id), Auction(a.id), Log(<<a.id, 1>>), Log(<<a.id, 2>>)}
      BY <1>2, <2>2, <3>1 DEF Grows
    <3>3. a.id = SeedId(x, k, n)
      BY <3>2, RowsTell
    <3>4. a = SeedAsk(x, k, n)
      BY <3>2, <3>3, SeedIsAsked
    <3>5. CASE n = 1
      <4>1. a.op = "createGuild"
        BY <3>4, <3>5, Seed1
      <4>2. db' # db
        BY <1>2, <2>2
      <4>3. QED
        BY <3>3, <3>5, <4>1, <4>2 DEF Grows, Founder
    <3>6. CASE n \in 2..10
      <4>1. Founder(x, k) \in DOMAIN db
        BY <1>0, <3>4, <3>6 DEF Behind
      <4>2. QED
        BY <1>1, <4>1 DEF Founder
    <3>7. QED
      BY <3>5, <3>6
  <2>3. QED
    BY <2>1, <2>2
\* A founder that is new
<1>3. ASSUME NEW x \in Apps, NEW k \in 1..MaxStarts, Founder(x, k) \in DOMAIN db',
             Founder(x, k) \notin DOMAIN db
      PROVE  /\ a.id = SeedId(x, k, 1) /\ db'[Founder(x, k)].name = "Dragon Slayers Order"
             /\ ~NameTaken(db, "Dragon Slayers Order")
  <2>1. /\ a \in Asks /\ a.id = SeedId(x, k, 1) /\ db'[Founder(x, k)].name = a.name
        /\ ~NameTaken(db, a.name)
    BY <1>3 DEF Grows, Founder
  <2>2. a = SeedAsk(x, k, 1)
    BY <2>1, SeedIsAsked
  <2>3. a.name = "Dragon Slayers Order"
    BY <2>2, Seed1
  <2>4. QED
    BY <2>1, <2>3
<1>4. ASSUME NEW x \in Apps, NEW k \in 1..MaxStarts, Founder(x, k) \in DOMAIN db'
      PROVE  db'[Founder(x, k)].name = "Dragon Slayers Order"
  <2>1. CASE Founder(x, k) \in DOMAIN db
    <3>1. db[Founder(x, k)].name = "Dragon Slayers Order"
      BY <1>0, <2>1 DEF Rooted
    <3>2. QED
      BY <1>1, <2>1, <3>1 DEF Founder
  <2>2. QED
    BY <1>3, <1>4, <2>1
<1>5. ASSUME NEW x \in Apps, NEW k \in 1..MaxStarts, Founder(x, k) \in DOMAIN db
      PROVE  NameTaken(db, "Dragon Slayers Order")
  <2>1. db[Founder(x, k)].name = "Dragon Slayers Order"
    BY <1>0, <1>5 DEF Rooted
  <2>2. QED
    BY <1>0, <1>5, <2>1, NamesUsed DEF Founder
<1>6. ASSUME NEW x \in Apps, NEW y \in Apps, NEW k \in 1..MaxStarts, NEW j \in 1..MaxStarts,
             Founder(x, k) \in DOMAIN db', Founder(y, j) \in DOMAIN db'
      PROVE  x = y /\ k = j
  <2>1. CASE Founder(x, k) \in DOMAIN db /\ Founder(y, j) \in DOMAIN db
    BY <1>0, <2>1 DEF Rooted
  <2>2. CASE Founder(x, k) \notin DOMAIN db /\ Founder(y, j) \notin DOMAIN db
    <3>1. SeedId(x, k, 1) = SeedId(y, j, 1)
      BY <1>3, <1>6, <2>2
    <3>2. QED
      BY <3>1, SeedIdsDiffer
  <2>3. QED
    BY <1>3, <1>5, <1>6, <2>1, <2>2
<1>7. QED
  BY <1>2, <1>4, <1>6 DEF Rooted

\* Whoever is told that its guild is founded has founded it.
LEMMA FoundedNow ==
    ASSUME NEW p \in Procs, Faithful, Step(p) \/ Fail(p) \/ CommitUnconfirmed(p),
           req[p].ask.op = "createGuild", req'[p].at = "done", req'[p].err = "ok"
    PROVE  Guild(req[p].ask.id) \in DOMAIN db'
<1>0. Shapes /\ Drafted
  BY DEF Faithful, Drafted, Guarded
<1>1. ASSUME NEW err, Return(p, err), err # "ok" PROVE FALSE
  <2>1. req'[p] = [req[p] EXCEPT !.at = "done", !.err = err, !.kept = FALSE]
    BY <1>0, <1>1 DEF Return, End, Shapes
  <2>2. req'[p].err = err
    BY <1>0, <2>1 DEF Shapes, ReqRecord
  <2>3. QED
    BY <1>1, <2>2
<1>2. CASE RefuseInput(p) \/ Fail(p)
  BY <1>1, <1>2 DEF RefuseInput, Fail
<1>3. CASE CreateGuildRow(p)
  <2>1. CASE NameTaken(db, req[p].ask.name)
    BY <1>1, <1>3, <2>1 DEF CreateGuildRow
  <2>2. CASE ~NameTaken(db, req[p].ask.name)
    BY <1>3, <2>2, PutHas DEF CreateGuildRow, Autocommit, CreateGuild
  <2>3. QED
    BY <2>1, <2>2
<1>4. CASE Begin(p)
  <2>1. req'[p] = [req[p] EXCEPT !.at = "first"]
    BY <1>0, <1>4 DEF Begin, Shapes
  <2>2. QED
    BY <1>0, <2>1 DEF Shapes, ReqRecord
<1>5. CASE Commit(p) \/ CommitUnconfirmed(p)
  BY <1>0, <1>5 DEF Commit, CommitUnconfirmed, Drafted, Guarded, Positions, Outside, Draft
<1>6. CASE Reading(p)
  <2>1. \A op, n : CountRows(p, op, n) \/ ReadPage(p, op, n) => req[p].ask.op = op
    BY DEF CountRows, ReadPage, Service, At
  <2>2. QED
    BY <1>6, <2>1
    DEF Reading, GetWallet, ValidateGuild, GetByOwner, LookUpItem, LookUpAuction, ListGuildsPage,
        ListActivePage, ListAvailablePage, Service, At
<1>7. CASE AskPrice(p) \/ GotPrice(p) \/ InsertItem(p) \/ Depositing(p)
  BY <1>7 DEF AskPrice, GotPrice, InsertItem, Service, At, Depositing, LockForDeposit,
              CreditDeposit, LogDeposit
<1>8. CASE Listing(p) \/ Starting(p)
  BY <1>8 DEF Listing, ReadForListing, LockForListing, Expose, Starting, ReadToAuction, CountOwn,
              InsertAuction, Service, At
<1>9. CASE Buying(p)
  BY <1>9 DEF Buying, LockToBuy, LockBuyer, CheckBuyer, ChargeBuyer, PaySeller, TransferBought,
              CountPurchase, LogPurchase, LogProceeds, At
<1>10. CASE Bidding(p)
  BY <1>10 DEF Bidding, ReadForBid, LockToBid, LockBidder, CheckBidder, FreeLeader, LogRelease,
               ReturnQuota, ReleaseFails, RecordBid, UpdateStanding, LogReserve, CountBid, Service, At
<1>11. CASE Closing(p)
  BY <1>11 DEF Closing, LockToClose, RestoreItem, HandOver, PayProceeds, CancelUnsold, EndSold,
               CloseRow, At
<1>12. QED
  BY <1>2, <1>3, <1>4, <1>5, <1>6, <1>7, <1>8, <1>9, <1>10, <1>11 DEF Step, Minting

\* A step of a goroutine, whoever's it is
LEMMA RunBehind ==
    ASSUME NEW p \in Procs, OneSeed, Step(p) \/ Fail(p) \/ CommitUnconfirmed(p),
           UNCHANGED <<work, lifecycle>>
    PROVE  Rooted(db') /\ Behind'
<1>0. Faithful /\ Drafted /\ Guarded /\ Shapes /\ Positions /\ Exclusive /\ Behind
  BY DEF OneSeed, Faithful, Drafted, Guarded
<1>1. Grows(p)
  BY <1>0, StepGrows
<1>2. \A g : Guild(g) \in DOMAIN db => Guild(g) \in DOMAIN db'
  BY <1>1 DEF Grows
<1>3. \A q \in Procs : q # p => req'[q] = req[q]
  BY <1>0, StepKinds, OthersStay
<1>4. Running(p) /\ req'[p].ask = req[p].ask
  BY <1>0, StepGoesOn DEF Onward
<1>5. \A q \in Procs : req'[q].ask = req[q].ask
  BY <1>3, <1>4
<1>6. ASSUME NEW q \in Procs, req'[q].at = "done", req'[q].err = "ok", req'[q].ask.op = "createGuild"
      PROVE  Guild(req'[q].ask.id) \in DOMAIN db'
  <2>1. CASE q = p
    BY <1>0, <1>4, <1>6, <2>1, FoundedNow
  <2>2. CASE q # p
    BY <1>0, <1>2, <1>3, <1>6, <2>2 DEF Behind
  <2>3. QED
    BY <2>1, <2>2
<1>7. ASSUME NEW q \in Procs, NEW x \in Apps, NEW k \in 1..MaxStarts, NEW n \in 2..10,
             req'[q].ask = SeedAsk(x, k, n)
      PROVE  Founder(x, k) \in DOMAIN db'
  <2>1. Founder(x, k) \in DOMAIN db
    BY <1>0, <1>5, <1>7 DEF Behind
  <2>2. QED
    BY <1>2, <2>1 DEF Founder
<1>8. ASSUME NEW x \in Apps, phase'[x] = "seeding", seed'[x] \in 2..10
      PROVE  Founder(x, starts'[x]) \in DOMAIN db'
  <2>1. Founder(x, starts[x]) \in DOMAIN db /\ starts' = starts
    BY <1>0, <1>8 DEF Behind, lifecycle
  <2>2. QED
    BY <1>2, <2>1 DEF Founder
<1>9. \A q \in Procs : work'[q] \notin SeedAsks
  BY <1>0 DEF Behind
<1>10. Behind'
  BY <1>6, <1>7, <1>8, <1>9 DEF Behind
<1>11. QED
  BY <1>1, <1>10, RootedStep

\* Requests are given out.
LEMMA TakeBehind ==
    ASSUME NEW p \in Procs, NEW k, NEW at \in {"service", "insert", "begin"}, OneSeed, Take(p, k, at),
           \A x \in Apps, j \in 1..MaxStarts, n \in 2..10 :
             k = SeedAsk(x, j, n) => Founder(x, j) \in DOMAIN db,
           UNCHANGED <<work, lifecycle>>
    PROVE  Rooted(db') /\ Behind'
<1>0. Shapes /\ Behind /\ Rooted(db)
  BY DEF OneSeed, Faithful, Drafted, Guarded
<1>1. db' = db /\ req' = [req EXCEPT ![p] = [NoRequest EXCEPT !.ask = k, !.at = at]]
  BY DEF Take
<1>2. \A q \in Procs : q # p => req'[q] = req[q]
  BY <1>0, <1>1 DEF Shapes
<1>3. req'[p].ask = k /\ req'[p].at # "done"
  BY <1>0, <1>1 DEF Shapes, NoRequest
<1>4. QED
  BY <1>0, <1>1, <1>2, <1>3 DEF Behind, lifecycle

LEMMA SeedCallBehind ==
    ASSUME NEW x \in Apps, OneSeed, SeedCall(x)
    PROVE  Rooted(db') /\ Behind'
<1>0. WorkKnown /\ Behind
  BY DEF OneSeed, Faithful
<1>1. starts[x] \in 1..MaxStarts /\ seed[x] \in 1..10 /\ phase[x] = "seeding"
  BY <1>0 DEF SeedCall, WorkKnown
<1>2. ASSUME NEW y \in Apps, NEW j \in 1..MaxStarts, NEW n \in 2..10, SeedingAsk(x) = SeedAsk(y, j, n)
      PROVE  Founder(y, j) \in DOMAIN db
  <2>1. SeedId(x, starts[x], seed[x]) = SeedId(y, j, n)
    BY <1>1, <1>2, SeedIds DEF SeedingAsk
  <2>2. y = x /\ j = starts[x] /\ n = seed[x]
    BY <2>1, SeedIdsDiffer
  <2>3. QED
    BY <1>0, <1>1, <2>2 DEF Behind
<1>3. PICK at \in {"insert", "begin"} : Take(x, SeedingAsk(x), at)
  BY DEF SeedCall, CallRepository
<1>4. QED
  BY <1>2, <1>3, TakeBehind, ProcessAssumption DEF SeedCall

\* Only one who has just founded the first guild goes on to the second step.
LEMMA SeedNextBehind ==
    ASSUME NEW x \in Apps, OneSeed, SeedNext(x)
    PROVE  Rooted(db') /\ Behind'
<1>0. WorkKnown /\ Behind /\ Rooted(db)
  BY DEF OneSeed, Faithful
<1>1. /\ starts[x] \in 1..MaxStarts /\ seed[x] \in 1..10 /\ phase[x] = "seeding"
      /\ db' = db /\ req' = req /\ work' = work /\ starts' = starts
  BY <1>0 DEF SeedNext, WorkKnown, vars
<1>2. \A y \in Apps : y # x => phase'[y] = phase[y] /\ seed'[y] = seed[y]
  BY <1>0 DEF SeedNext, WorkKnown
<1>3. ASSUME phase'[x] = "seeding" PROVE Founder(x, starts[x]) \in DOMAIN db
  <2>1. ~(req[x].err # "ok" /\ seed[x] \notin Tolerated)
    BY <1>0, <1>3 DEF SeedNext, WorkKnown
  <2>2. CASE seed[x] \in 2..10
    BY <1>0, <1>1, <2>2 DEF Behind
  <2>3. CASE seed[x] = 1
    <3>1. req[x].err = "ok" /\ req[x].at = "done"
      BY <2>1, <2>3 DEF Tolerated, SeedNext
    <3>2. req[x].ask = SeedAsk(x, starts[x], 1)
      BY <2>3 DEF SeedNext, SeedingAsk
    <3>3. req[x].ask.op = "createGuild" /\ req[x].ask.id = SeedId(x, starts[x], 1)
      BY <3>2, Seed1
    <3>4. QED
      BY <1>0, <3>1, <3>3, ProcessAssumption DEF Behind, Founder
  <2>4. QED
    BY <1>1, <2>2, <2>3
<1>4. \A y \in Apps : (phase'[y] = "seeding" /\ seed'[y] \in 2..10) => Founder(y, starts'[y]) \in DOMAIN db'
  BY <1>0, <1>1, <1>2, <1>3 DEF Behind
<1>5. QED
  BY <1>0, <1>1, <1>4 DEF Behind

LEMMA EndsBehind ==
    ASSUME NEW x \in Apps, NEW next \in {"failed", "exited", "down"}, OneSeed, Ends(x, next)
    PROVE  Rooted(db') /\ Behind'
<1>0. WorkKnown /\ Behind /\ Rooted(db)
  BY DEF OneSeed, Faithful
<1>1. /\ db' = db /\ work' = work /\ starts' = starts /\ seed' = seed
      /\ phase' = [phase EXCEPT ![x] = next]
  BY DEF Ends, Kill
<1>2. \A q \in Procs : req'[q] = NoRequest \/ req'[q] = req[q]
  BY DEF Ends, Kill
<1>3. NoRequest.ask.op = "none"
  BY DEF NoRequest
<1>4. \A y \in Apps, k \in 1..MaxStarts, n \in 2..10 : NoRequest.ask # SeedAsk(y, k, n)
  BY <1>3, SeedOps
<1>5. \A y \in Apps : phase'[y] = "seeding" => phase[y] = "seeding"
  BY <1>0, <1>1 DEF WorkKnown
<1>6. NoRequest.at # "done"
  BY DEF NoRequest
<1>7. QED
  BY <1>0, <1>1, <1>2, <1>4, <1>5, <1>6 DEF Behind

LEMMA OneSeedStep ==
    ASSUME OneSeed, [ServiceNext]_allVars
    PROVE  OneSeed'
<1>0. Faithful /\ WorkKnown /\ Behind /\ Rooted(db)
  BY DEF OneSeed, Faithful
<1>1. Faithful'
  BY <1>0, FaithfulStep
<1>2. ASSUME db' = db, req' = req, work' = work,
             \A x \in Apps : (phase'[x] = "seeding" /\ seed'[x] \in 2..10) =>
                phase[x] = "seeding" /\ seed'[x] = seed[x] /\ starts'[x] = starts[x]
      PROVE  Rooted(db') /\ Behind'
  BY <1>0, <1>2 DEF Behind
<1>3. ASSUME UNCHANGED allVars PROVE Rooted(db') /\ Behind'
  BY <1>2, <1>3 DEF allVars, vars, lifecycle
<1>4. ASSUME NEW p \in Clients, ClientNext(p) PROVE Rooted(db') /\ Behind'
  <2>1. p \in Procs
    BY ProcessAssumption
  <2>2. CASE Accept(p)
    <3>1. Take(p, work[p], "service") /\ UNCHANGED <<work, lifecycle>>
      BY <2>2 DEF Accept, Call
    <3>2. \A x \in Apps, j \in 1..MaxStarts, n \in 2..10 : work[p] # SeedAsk(x, j, n)
      BY <1>0, <2>1, SeedIsAsked DEF Behind
    <3>3. QED
      BY <2>1, <3>1, <3>2, TakeBehind
  <2>3. CASE Handle(p)
    BY <2>1, <2>3, HandlesSteps, RunBehind DEF Handle
  <2>4. CASE WriteAnswer(p) \/ Receive(p) \/ Timeout(p)
    BY <1>2, <2>4 DEF WriteAnswer, Receive, Timeout, vars, lifecycle
  <2>5. QED
    BY <1>4, <2>2, <2>3, <2>4 DEF ClientNext
<1>5. ASSUME NEW x \in Apps, AppNext(x) PROVE Rooted(db') /\ Behind'
  <2>1. x \in Procs
    BY ProcessAssumption
  <2>2. CASE Start(x)
    <3>1. /\ db' = db /\ req' = req /\ work' = work /\ seed' = [seed EXCEPT ![x] = 0]
          /\ starts' = [starts EXCEPT ![x] = @ + 1] /\ \E next : phase' = [phase EXCEPT ![x] = next]
      BY <2>2 DEF Start, vars
    <3>2. \A y \in Apps : IF y = x THEN seed'[y] = 0
                          ELSE phase'[y] = phase[y] /\ seed'[y] = seed[y] /\ starts'[y] = starts[y]
      BY <1>0, <3>1 DEF WorkKnown
    <3>3. QED
      BY <1>2, <3>1, <3>2
  <2>3. CASE SeedCheck(x)
    <3>1. /\ db' = db /\ req' = req /\ work' = work /\ starts' = starts
          /\ \/ phase' = [phase EXCEPT ![x] = "serving"] /\ seed' = seed
             \/ seed' = [seed EXCEPT ![x] = 1] /\ phase' = phase
      BY <2>3 DEF SeedCheck, vars
    <3>2. \A y \in Apps : (phase'[y] = "seeding" /\ seed'[y] # 1) => phase[y] = "seeding" /\ seed'[y] = seed[y]
      BY <1>0, <3>1 DEF WorkKnown
    <3>3. QED
      BY <1>2, <3>1, <3>2
  <2>4. CASE SeedCall(x)
    BY <2>4, SeedCallBehind
  <2>5. CASE SeedNext(x)
    BY <2>5, SeedNextBehind
  <2>6. CASE WorkerCall(x)
    <3>1. PICK at \in {"insert", "begin"} : Take(x, work[x], at)
      BY <2>6 DEF WorkerCall, CallRepository
    <3>2. \A y \in Apps, j \in 1..MaxStarts, n \in 2..10 : work[x] # SeedAsk(y, j, n)
      BY <1>0, <2>1, SeedIsAsked DEF Behind
    <3>3. QED
      BY <2>1, <2>6, <3>1, <3>2, TakeBehind DEF WorkerCall
  <2>7. CASE AppStep(x)
    BY <2>1, <2>7, RunBehind DEF AppStep
  <2>8. CASE Signal(x) \/ ShutdownDone(x)
    <3>1. /\ db' = db /\ req' = req /\ work' = work /\ starts' = starts /\ seed' = seed
          /\ \E next \in {"stopping", "closing"} : phase' = [phase EXCEPT ![x] = next]
      BY <2>8 DEF Signal, ShutdownDone, vars
    <3>2. \A y \in Apps : phase'[y] = "seeding" => phase[y] = "seeding"
      BY <1>0, <3>1 DEF WorkKnown
    <3>3. QED
      BY <1>2, <3>1, <3>2
  <2>9. CASE ShutdownTimeout(x) \/ Exit(x) \/ Crash(x) \/ PricePanic(x)
    BY <2>9, EndsBehind DEF ShutdownTimeout, Exit, Crash, PricePanic
  <2>10. QED
    BY <1>5, <2>2, <2>3, <2>4, <2>5, <2>6, <2>7, <2>8, <2>9 DEF AppNext
<1>6. Rooted(db') /\ Behind'
  BY <1>3, <1>4, <1>5 DEF ServiceNext
<1>7. QED
  BY <1>1, <1>6 DEF OneSeed

LEMMA InitOneSeed == ASSUME ServiceInit PROVE OneSeed
<1>1. Faithful /\ db \in Openings /\ req = [p \in Procs |-> NoRequest] /\ seed = [x \in Apps |-> 0]
  BY InitFaithful, ScenarioAssumption DEF ServiceInit, Init
<1>2. ASSUME NEW x \in Apps, NEW k \in 1..MaxStarts, NEW n \in 1..10, NEW r \in Rows(SeedId(x, k, n))
      PROVE  r \notin DOMAIN db
  <2>1. \A q \in DOMAIN db : \A s \in SeedAsks : q[2] # s.id /\ q # Log(<<s.id, 1>>)
    BY <1>1, SeedAssumption
  <2>2. \A q \in DOMAIN db : q[2] # SeedId(x, k, n) /\ q # Log(<<SeedId(x, k, n), 1>>)
    BY <2>1, SeedIsAsked, SeedIds
  <2>3. QED
    BY <2>2, Names DEF Rows
<1>3. \A x \in Apps, k \in 1..MaxStarts : Founder(x, k) \notin DOMAIN db
  <2>1. \A x \in Apps, k \in 1..MaxStarts : Founder(x, k) \in Rows(SeedId(x, k, 1))
    BY DEF Founder, Rows
  <2>2. QED
    BY <1>2, <2>1
<1>4. Rooted(db)
  BY <1>2, <1>3 DEF Rooted
<1>5. Behind
  <2>1. \A p \in Procs : work[p] \notin SeedAsks
    BY SeedAssumption DEF ServiceInit
  <2>2. NoRequest.ask.op = "none" /\ NoRequest.at = "idle"
    BY DEF NoRequest
  <2>3. \A x \in Apps, k \in 1..MaxStarts, n \in 2..10 : NoRequest.ask # SeedAsk(x, k, n)
    BY <2>2, SeedOps
  <2>4. QED
    BY <1>1, <2>1, <2>2, <2>3 DEF Behind
<1>6. QED
  BY <1>1, <1>4, <1>5 DEF OneSeed

\* However many copies start, seed side by side, crash, are stopped and start again,
\* and whatever their requests are answered: what is seeded is the work of one start.
THEOREM SeedingHappensOnce == ServiceSpec => []SeededOnce
<1>1. ServiceInit => OneSeed
  BY InitOneSeed
<1>2. OneSeed /\ [ServiceNext]_allVars => OneSeed'
  BY OneSeedStep
<1>3. OneSeed => SeededOnce
  BY OneSeedOnce
<1>4. QED
  BY <1>1, <1>2, <1>3, PTL DEF ServiceSpec
=============================================================================
