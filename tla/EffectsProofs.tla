----------------------------- MODULE EffectsProofs -----------------------------
(***************************************************************************)
(* What the transactions of Requests come to: the tables stay sound, and   *)
(* what a guild is allowed to spend it has until the transaction ends.     *)
(*                                                                         *)
(* The invariant says what a transaction has written at each place of its  *)
(* code, as a function of the committed tables (its draft).  A commit of   *)
(* another transaction leaves the draft true, because of the locks.        *)
(***************************************************************************)
EXTENDS RequestsProofs, SumLemmas

-----------------------------------------------------------------------------
(* Rows and tables.                                                        *)

\* A name tells the table and the key.
LEMMA Names ==
    \A x : /\ Guild(x)[1] = "guild" /\ Guild(x)[2] = x /\ Item(x)[1] = "item" /\ Item(x)[2] = x
           /\ Auction(x)[1] = "auction" /\ Auction(x)[2] = x /\ Bid(x)[1] = "bid" /\ Bid(x)[2] = x
           /\ Daily(x)[1] = "daily" /\ Daily(x)[2] = x /\ Log(x)[1] = "log" /\ Log(x)[2] = x
BY DEF Guild, Item, Auction, Bid, Daily, Log

\* What the foreign key of an item asks for.
LEMMA OwnerFound == \A t, g : Found(t, References({Guild(g)})) <=> Guild(g) \in DOMAIN t
<1>1. SUFFICES ASSUME NEW t, NEW g
               PROVE  Found(t, References({Guild(g)})) <=> Guild(g) \in DOMAIN t
  OBVIOUS
<1> DEFINE l == <<Guild(g), "share">>
<1>2. References({Guild(g)}) = {l}
  BY DEF References
<1>3. l[1] = Guild(g) /\ l[2] = "share"
  OBVIOUS
<1>4. QED
  BY <1>2, <1>3 DEF Found

LEMMA NamesArePairs ==
    \A x : /\ Guild(x) = <<Guild(x)[1], Guild(x)[2]>> /\ Item(x) = <<Item(x)[1], Item(x)[2]>>
           /\ Auction(x) = <<Auction(x)[1], Auction(x)[2]>> /\ Bid(x) = <<Bid(x)[1], Bid(x)[2]>>
           /\ Daily(x) = <<Daily(x)[1], Daily(x)[2]>> /\ Log(x) = <<Log(x)[1], Log(x)[2]>>
BY DEF Guild, Item, Auction, Bid, Daily, Log

LEMMA KeysAreNames ==
    ASSUME NEW t, Typed(t)
    PROVE  \A x : /\ x \in Keys(t, "guild") <=> Guild(x) \in DOMAIN t
                  /\ x \in Keys(t, "item") <=> Item(x) \in DOMAIN t
                  /\ x \in Keys(t, "auction") <=> Auction(x) \in DOMAIN t
                  /\ x \in Keys(t, "bid") <=> Bid(x) \in DOMAIN t
                  /\ x \in Keys(t, "daily") <=> Daily(x) \in DOMAIN t
                  /\ x \in Keys(t, "log") <=> Log(x) \in DOMAIN t
<1>1. \A r \in DOMAIN t : r = <<r[1], r[2]>>
  BY DEF Typed
<1>2. ASSUME NEW x PROVE x \in Keys(t, "guild") <=> Guild(x) \in DOMAIN t
  BY <1>1, Names DEF Keys, Guild
<1>3. ASSUME NEW x PROVE x \in Keys(t, "item") <=> Item(x) \in DOMAIN t
  BY <1>1, Names DEF Keys, Item
<1>4. ASSUME NEW x PROVE x \in Keys(t, "auction") <=> Auction(x) \in DOMAIN t
  BY <1>1, Names DEF Keys, Auction
<1>5. ASSUME NEW x PROVE x \in Keys(t, "bid") <=> Bid(x) \in DOMAIN t
  BY <1>1, Names DEF Keys, Bid
<1>6. ASSUME NEW x PROVE x \in Keys(t, "daily") <=> Daily(x) \in DOMAIN t
  BY <1>1, Names DEF Keys, Daily
<1>7. ASSUME NEW x PROVE x \in Keys(t, "log") <=> Log(x) \in DOMAIN t
  BY <1>1, Names DEF Keys, Log
<1>8. QED
  BY <1>2, <1>3, <1>4, <1>5, <1>6, <1>7

\* One row laid over a table
LEMMA OneRowDomain == \A r, v : DOMAIN OneRow(r, v) = {r}
BY DEF OneRow

LEMMA OneRowValue == \A r, v : OneRow(r, v)[r] = v
BY DEF OneRow

LEMMA OneRowTable == \A r, v : Table(OneRow(r, v))
BY DEF OneRow, Table

LEMMA PutDomain == \A t, r, v : DOMAIN Write(t, OneRow(r, v)) = DOMAIN t \cup {r}
BY DEF OneRow, Write

LEMMA PutHas ==
    \A t, r, v, n : n \in DOMAIN Write(t, OneRow(r, v)) <=> n \in DOMAIN t \/ n = r
BY DEF OneRow, Write

LEMMA PutTable == \A t, w : Table(Write(t, w))
BY DEF Table, Write

LEMMA PutRow == \A t, r, v : Write(t, OneRow(r, v))[r] = v
BY DEF OneRow, Write

LEMMA PutOthers ==
    \A t, r, v, x : x \in DOMAIN t /\ x # r => Write(t, OneRow(r, v))[x] = t[x]
BY DEF OneRow, Write

LEMMA WriteAssociates ==
    ASSUME NEW t, NEW v, NEW w
    PROVE  Write(Write(t, v), w) = Write(t, Write(v, w))
BY DEF Write

LEMMA WriteOverNothing == \A w : Table(w) => Write(NoRows, w) = w
BY DEF Write, NoRows, Table

\* What v is in row r of sound tables t
RowFits(t, r, v) ==
    /\ r = <<r[1], r[2]>>
    /\ r[1] = "guild" => GuildColumns(v)
    /\ r[1] = "item" => ItemColumns(v) /\ Guild(v.owner) \in DOMAIN t
    /\ r[1] = "auction" =>
         /\ AuctionColumns(v) /\ Item(v.item) \in DOMAIN t /\ Guild(v.seller) \in DOMAIN t
         /\ v.winner # Nobody => Guild(v.winner) \in DOMAIN t
         /\ IF v.winner = Nobody THEN v.high = 0
            ELSE \E b \in GetActiveBidByBidder(t, r[2], v.winner) : t[Bid(b)].amount = v.high
    /\ r[1] = "bid" =>
         /\ BidColumns(v) /\ r \notin DOMAIN t
         /\ Auction(v.auction) \in DOMAIN t /\ Guild(v.bidder) \in DOMAIN t
    /\ r[1] = "daily" => v \in Nat /\ Guild(r[2]) \in DOMAIN t
    /\ r[1] = "log" => LogColumns(v) /\ Guild(v.guild) \in DOMAIN t

\* The active bids of a guild, told by their rows
LEMMA ActiveBid ==
    ASSUME NEW t, Typed(t), NEW a, NEW g, NEW b
    PROVE  b \in GetActiveBidByBidder(t, a, g) <=>
             /\ Bid(b) \in DOMAIN t /\ t[Bid(b)].bidder = g /\ t[Bid(b)].active
             /\ t[Bid(b)].auction = a
BY KeysAreNames DEF GetActiveBidByBidder, ActiveBids

\* Sound tables stay sound when a row is laid over them that fits.
LEMMA RowKeepsSound ==
    ASSUME NEW t, Sound(t), NEW r, NEW v, RowFits(t, r, v)
    PROVE  Sound(Write(t, OneRow(r, v)))
<1> DEFINE u == Write(t, OneRow(r, v))
<1>1. /\ DOMAIN u = DOMAIN t \cup {r} /\ u[r] = v /\ Table(u)
      /\ \A x \in DOMAIN t : x # r => u[x] = t[x]
  <2>1. DOMAIN u = DOMAIN t \cup {r}
    BY PutDomain
  <2>2. u[r] = v
    BY PutRow
  <2>3. Table(u)
    BY PutTable
  <2>4. \A x \in DOMAIN t : x # r => u[x] = t[x]
    BY PutOthers
  <2>5. QED
    BY <2>1, <2>2, <2>3, <2>4
<1> HIDE DEF u
<1>2. Typed(u)
  <2>1. IsFiniteSet(DOMAIN u)
    BY <1>1, FS_AddElement DEF Sound, Typed
  <2>2. QED
    BY <1>1, <2>1 DEF Sound, Typed, RowFits, Table
<1>3. Referential(u)
  <2>1. ASSUME NEW i, Item(i) \in DOMAIN u PROVE Guild(u[Item(i)].owner) \in DOMAIN u
    BY <1>1, <2>1, Names, KeysAreNames DEF Sound, Referential, RowFits
  <2>2. ASSUME NEW a, Auction(a) \in DOMAIN u
        PROVE  /\ Item(u[Auction(a)].item) \in DOMAIN u /\ Guild(u[Auction(a)].seller) \in DOMAIN u
               /\ u[Auction(a)].winner # Nobody => Guild(u[Auction(a)].winner) \in DOMAIN u
    BY <1>1, <2>2, Names, KeysAreNames DEF Sound, Referential, RowFits
  <2>3. ASSUME NEW b, Bid(b) \in DOMAIN u
        PROVE  Auction(u[Bid(b)].auction) \in DOMAIN u /\ Guild(u[Bid(b)].bidder) \in DOMAIN u
    BY <1>1, <2>3, Names, KeysAreNames DEF Sound, Referential, RowFits
  <2>4. ASSUME NEW g, Daily(g) \in DOMAIN u PROVE Guild(g) \in DOMAIN u
    BY <1>1, <2>4, Names, KeysAreNames DEF Sound, Referential, RowFits
  <2>5. ASSUME NEW k, Log(k) \in DOMAIN u PROVE Guild(u[Log(k)].guild) \in DOMAIN u
    BY <1>1, <2>5, Names, KeysAreNames DEF Sound, Referential, RowFits
  <2>6. QED
    BY <1>2, <2>1, <2>2, <2>3, <2>4, <2>5, KeysAreNames DEF Referential
<1>4. Led(u)
  <2> SUFFICES ASSUME NEW a \in Keys(u, "auction"), u[Auction(a)].winner = Nobody => u[Auction(a)].high # 0
               PROVE  \E b \in GetActiveBidByBidder(u, a, u[Auction(a)].winner) :
                        u[Bid(b)].amount = u[Auction(a)].high /\ u[Auction(a)].winner # Nobody
    BY DEF Led
  <2>1. Auction(a) \in DOMAIN u
    BY <1>2, KeysAreNames
  <2>2. PICK b : /\ b \in GetActiveBidByBidder(t, a, u[Auction(a)].winner)
                 /\ t[Bid(b)].amount = u[Auction(a)].high /\ u[Auction(a)].winner # Nobody
    <3>1. CASE Auction(a) = r
      BY <1>1, <2>1, <3>1, Names DEF RowFits
    <3>2. CASE Auction(a) # r
      <4>1. a \in Keys(t, "auction") /\ u[Auction(a)] = t[Auction(a)]
        BY <1>1, <2>1, <3>2, KeysAreNames DEF Sound
      <4>2. QED
        BY <4>1 DEF Sound, Led
    <3>3. QED
      BY <3>1, <3>2
  <2>3. Bid(b) \in DOMAIN t
    BY <2>2, ActiveBid DEF Sound
  <2>4. Bid(b) # r
    BY <2>3, Names DEF RowFits
  <2>5. u[Bid(b)] = t[Bid(b)] /\ Bid(b) \in DOMAIN u
    BY <1>1, <2>3, <2>4
  <2>6. b \in GetActiveBidByBidder(u, a, u[Auction(a)].winner)
    BY <1>2, <2>2, <2>5, ActiveBid DEF Sound
  <2>7. QED
    BY <2>2, <2>5, <2>6
<1>5. QED
  BY <1>2, <1>3, <1>4 DEF Sound, u

\* The same for a row that is added to what is written already
LEMMA NextRowKeepsSound ==
    ASSUME NEW t, NEW w, Sound(Write(t, w)), NEW r, NEW v, RowFits(Write(t, w), r, v)
    PROVE  Sound(Write(t, Write(w, OneRow(r, v))))
BY RowKeepsSound, WriteAssociates

-----------------------------------------------------------------------------
(* What commits, and what it leaves to the others.                         *)

\* What may become of auction o: its start price stays, and so does it that there
\* has been a bid.
GoesOn(o, v) == v.start = o.start /\ (v.high = 0 => o.high = 0)

\* Rows w that a transaction with locks h may lay over t
Lawful(t, w, h) ==
    /\ Sound(Write(t, w))
    /\ \A g : Daily(g) \in DOMAIN w => <<Guild(g), "update">> \in h
    /\ \A b : Bid(b) \in DOMAIN w =>
         Bid(b) \notin DOMAIN t /\ <<Guild(w[Bid(b)].bidder), "update">> \in h
    /\ \A a : (Auction(a) \in DOMAIN w /\ w[Auction(a)].status = "active") =>
         \/ a \in ActiveAuctions(t) /\ w[Auction(a)].item = t[Auction(a)].item
         \/ <<ActiveEntry(w[Auction(a)].item), "write">> \in h
    /\ \A a : Auction(a) \in DOMAIN w /\ Auction(a) \in DOMAIN t =>
         GoesOn(t[Auction(a)], w[Auction(a)])
    /\ \A i : Item(i) \in DOMAIN w /\ Item(i) \in DOMAIN t =>
         w[Item(i)].kind = t[Item(i)].kind

\* What a transaction with locks h can rely on when t becomes u
Undisturbed(t, u, h) ==
    /\ DOMAIN t \subseteq DOMAIN u
    /\ \A r : (<<r, "update">> \in h \/ <<r, "write">> \in h) =>
         /\ r \in DOMAIN u => r \in DOMAIN t
         /\ r \in DOMAIN t => u[r] = t[r]
    /\ \A g : <<Guild(g), "update">> \in h =>
         GetDailySpent(u, g) = GetDailySpent(t, g) /\ Reserved(u, g) = Reserved(t, g)
    /\ \A i : <<ActiveEntry(i), "write">> \in h /\ ~OnSale(t, i) => ~OnSale(u, i)

\* A row that is written or locked FOR UPDATE is written and locked FOR UPDATE by
\* nobody else.
LEMMA LocksExclude ==
    ASSUME NEW p \in Procs, NEW q \in Procs, p # q, Exclusive, NEW r,
           <<r, "update">> \in tx[q].held \/ <<r, "write">> \in tx[q].held,
           \/ <<r, "update">> \in tx[p].held \/ <<r, "write">> \in tx[p].held
           \/ Free(p, <<r, "write">>)
    PROVE  FALSE
<1>1. \A m \in {"update", "write"}, n \in {"update", "write"} : ~Compatible(m, n)
  BY DEF Compatible
<1>2. \A m \in {"update", "write"}, n \in {"update", "write"} : Conflict(<<r, m>>, <<r, n>>)
  BY <1>1 DEF Conflict
<1>3. QED
  BY <1>2 DEF Exclusive, Free

\* The rows w laid over t
LEMMA LaidDomain == \A t, w : DOMAIN Write(t, w) = DOMAIN t \cup DOMAIN w
BY DEF Write
LEMMA LaidRow == \A t, w, r : r \in DOMAIN w => Write(t, w)[r] = w[r]
BY DEF Write
LEMMA LaidUnder == \A t, w, r : r \in DOMAIN t /\ r \notin DOMAIN w => Write(t, w)[r] = t[r]
BY DEF Write

\* What a guild has reserved is told by its active bids and their amounts.
LEMMA SameReserved ==
    ASSUME NEW t, NEW u, NEW g, Typed(t), Typed(u),
           \A b : (Bid(b) \in DOMAIN t /\ t[Bid(b)].bidder = g) \/ (Bid(b) \in DOMAIN u /\ u[Bid(b)].bidder = g)
                    => Bid(b) \in DOMAIN t /\ Bid(b) \in DOMAIN u /\ u[Bid(b)] = t[Bid(b)]
    PROVE  Reserved(u, g) = Reserved(t, g)
<1>1. ActiveBids(u, g) = ActiveBids(t, g)
  BY KeysAreNames DEF ActiveBids
<1>2. \A b \in ActiveBids(t, g) : u[Bid(b)].amount = t[Bid(b)].amount
  BY KeysAreNames DEF ActiveBids
<1>3. [b \in ActiveBids(t, g) |-> u[Bid(b)].amount] = [b \in ActiveBids(t, g) |-> t[Bid(b)].amount]
  BY <1>2
<1>4. QED
  BY <1>1, <1>3 DEF Reserved

\* What is committed under p's locks disturbs no other transaction.
LEMMA CommitLeaves ==
    ASSUME NEW p \in Procs, NEW q \in Procs, p # q, Exclusive, Sound(db),
           NEW w, Lawful(db, w, tx[p].held),
           \A r \in DOMAIN w : <<r, "write">> \in tx[p].held \/ Free(p, <<r, "write">>),
           NEW u, u = Write(db, w)
    PROVE  Undisturbed(db, u, tx[q].held)
<1>1. DOMAIN u = DOMAIN db \cup DOMAIN w
  BY LaidDomain
<1>2. \A r \in DOMAIN w : u[r] = w[r]
  BY LaidRow
<1>3. \A r \in DOMAIN db : r \notin DOMAIN w => u[r] = db[r]
  BY LaidUnder
<1>4. Typed(db) /\ Typed(u)
  BY DEF Lawful, Sound
<1>5. ASSUME NEW r, <<r, "update">> \in tx[q].held \/ <<r, "write">> \in tx[q].held
      PROVE  r \notin DOMAIN w
  BY <1>5, LocksExclude
<1>6. ASSUME NEW g, <<Guild(g), "update">> \in tx[q].held
      PROVE  GetDailySpent(u, g) = GetDailySpent(db, g) /\ Reserved(u, g) = Reserved(db, g)
  <2>1. <<Guild(g), "update">> \notin tx[p].held
    BY <1>6, LocksExclude
  <2>2. Daily(g) \notin DOMAIN w
    BY <2>1 DEF Lawful
  <2>3. GetDailySpent(u, g) = GetDailySpent(db, g)
    BY <1>1, <1>3, <2>2 DEF GetDailySpent
  <2>4. \A b : Bid(b) \in DOMAIN w => Bid(b) \notin DOMAIN db /\ w[Bid(b)].bidder # g
    BY <2>1 DEF Lawful
  <2>5. Reserved(u, g) = Reserved(db, g)
    BY <1>1, <1>2, <1>3, <1>4, <2>4, SameReserved
  <2>6. QED
    BY <2>3, <2>5
<1>7. ASSUME NEW i, <<ActiveEntry(i), "write">> \in tx[q].held, OnSale(u, i)
      PROVE  OnSale(db, i)
  <2>1. <<ActiveEntry(i), "write">> \notin tx[p].held
    BY <1>7, LocksExclude
  <2>2. PICK a : /\ Auction(a) \in DOMAIN u /\ u[Auction(a)].status = "active"
                 /\ u[Auction(a)].item = i
    BY <1>4, <1>7, KeysAreNames DEF OnSale, ActiveAuctions
  <2>3. a \in ActiveAuctions(db) /\ db[Auction(a)].item = i
    <3>1. CASE Auction(a) \in DOMAIN w
      BY <1>2, <2>1, <2>2, <3>1 DEF Lawful
    <3>2. CASE Auction(a) \notin DOMAIN w
      BY <1>1, <1>3, <1>4, <2>2, <3>2, KeysAreNames DEF ActiveAuctions
    <3>3. QED
      BY <3>1, <3>2
  <2>4. QED
    BY <2>3 DEF OnSale
<1>8. QED
  BY <1>1, <1>3, <1>5, <1>6, <1>7 DEF Undisturbed

-----------------------------------------------------------------------------
(* Drafts: what a request has written, statement by statement.             *)

Credited(t, k) == UpdateGuildBalance(t, k.guild, k.amount)
Deposited(t, k) ==
    Write(Credited(t, k), LogWalletTransaction(<<k.id, 1>>, k.guild, "deposit", k.amount))

Exposed(t, k) == UpdateItemStatus(t, k.item, "available")

\* o is the item as it was read.
Charged(t, k, o) == UpdateGuildBalance(t, k.guild, -o.price)
Paid(t, k, o) == Write(Charged(t, k, o), UpdateGuildBalance(t, o.owner, o.price))
Moved(t, k, o) == Write(Paid(t, k, o), TransferItemOwnership(t, k.item, k.guild, "sold"))
Counted(t, k, o) == Write(Moved(t, k, o), UpsertDailyPurchase(t, k.guild, o.price))
Noted(t, k, o) ==
    Write(Counted(t, k, o), LogWalletTransaction(<<k.id, 1>>, k.guild, "purchase", -o.price))
Bought(t, k, o) ==
    Write(Noted(t, k, o), LogWalletTransaction(<<k.id, 2>>, o.owner, "refund", o.price))

Recorded(k) == CreateBid(k.id, k.auction, k.guild, k.amount)
Leading(t, k) == Write(Recorded(k), UpdateAuctionBid(t, k.auction, k.guild, k.amount))
Staked(t, k) ==
    Write(Leading(t, k), LogWalletTransaction(<<k.id, 1>>, k.guild, "reserve", -k.amount))
Placed(t, k) == Write(Staked(t, k), UpsertDailyPurchase(t, k.guild, k.amount))

\* o is the auction as it was read.
Restored(t, o) == UpdateItemStatus(t, o.item, "available")
Unsold(t, k, o) == Write(Restored(t, o), CloseAuction(t, k.auction, "cancelled", Nobody))
HandedOver(t, o) == TransferItemOwnership(t, o.item, o.winner, "sold")
Settled(t, o) == Write(HandedOver(t, o), UpdateGuildBalance(t, o.seller, o.high))
Sold(t, k, o) == Write(Settled(t, o), CloseAuction(t, k.auction, "ended", o.winner))

\* Request r has its transaction x, and has made its first statement.
After(r, x, op) == x.open /\ r.ask.op = op /\ r.at # "first"
HeldRow(t, x, n) == n \in DOMAIN t /\ <<n, "update">> \in x.held
CanPay(t, g, n) ==
    /\ Guild(g) \in DOMAIN t
    /\ Reserved(t, g) + n <= t[Guild(g)].gold
    /\ GetDailySpent(t, g) + n <= t[Guild(g)].limit

DepositDraft(t, r, x) ==
    LET k == r.ask IN
    After(r, x, "deposit") =>
      /\ HeldRow(t, x, Guild(k.guild))
      /\ \/ r.at = "credit" /\ x.wrote = NoRows
         \/ r.at = "log" /\ x.wrote = Credited(t, k)
         \/ r.at = "commit" /\ x.wrote = Deposited(t, k) /\ Log(<<k.id, 1>>) \notin DOMAIN t
      /\ r.at # "credit" => t[Guild(k.guild)].gold + k.amount >= 0

ListDraft(t, r, x) ==
    LET k == r.ask IN
    After(r, x, "list") =>
      /\ HeldRow(t, x, Item(k.item)) /\ t[Item(k.item)].status = "sold"
      /\ \/ r.at = "expose" /\ x.wrote = NoRows
         \/ r.at = "commit" /\ x.wrote = Exposed(t, k)

BuyDraft(t, r, x) ==
    LET k == r.ask  o == r.saw IN
    After(r, x, "buy") =>
      /\ HeldRow(t, x, Item(k.item)) /\ t[Item(k.item)] = o
      /\ o.status = "available" /\ o.price # 0 /\ o.owner # k.guild
      /\ r.at # "lockBuyer" => HeldRow(t, x, Guild(k.guild))
      /\ r.at \notin {"lockBuyer", "funds"} => CanPay(t, k.guild, o.price)
      /\ r.at \notin {"lockBuyer", "funds", "charge"} => t[Guild(k.guild)].gold >= o.price
      /\ r.at \in {"logSeller", "commit"} => Log(<<k.id, 1>>) \notin DOMAIN t
      /\ r.at = "commit" => Log(<<k.id, 2>>) \notin DOMAIN t
      /\ \/ r.at \in {"lockBuyer", "funds", "charge"} /\ x.wrote = NoRows
         \/ r.at = "pay" /\ x.wrote = Charged(t, k, o)
         \/ r.at = "transfer" /\ x.wrote = Paid(t, k, o)
         \/ r.at = "quota" /\ x.wrote = Moved(t, k, o)
         \/ r.at = "logBuyer" /\ x.wrote = Counted(t, k, o)
         \/ r.at = "logSeller" /\ x.wrote = Noted(t, k, o)
         \/ r.at = "commit" /\ x.wrote = Bought(t, k, o)

StartDraft(t, r, x) ==
    LET k == r.ask IN
    After(r, x, "start") =>
      \/ r.at = "insert" /\ x.wrote = NoRows
      \/ /\ r.at = "commit" /\ x.wrote = CreateAuction(k.id, k.item, k.guild, k.amount)
         /\ Item(k.item) \in DOMAIN t /\ Guild(k.guild) \in DOMAIN t /\ Auction(k.id) \notin DOMAIN t
         /\ ~OnSale(t, k.item) /\ <<ActiveEntry(k.item), "write">> \in x.held

\* A bid that outbids a leader fails; one that gets through is the first.
BidDraft(t, r, x) ==
    LET k == r.ask  o == t[Auction(k.auction)] IN
    After(r, x, "bid") =>
      /\ HeldRow(t, x, Auction(k.auction))
      /\ o.status = "active" /\ o.seller # k.guild /\ o.winner # k.guild
      /\ r.at \in {"lockBidder", "funds", "outbid"} => r.saw = o /\ x.wrote = NoRows
      /\ r.at = "outbid" => o.winner # Nobody
      /\ r.at \in {"release", "handBack"} => r.saw.amount \in Nat \ {0}
      /\ r.at # "lockBidder" => HeldRow(t, x, Guild(k.guild))
      /\ r.at \notin {"lockBidder", "funds"} => CanPay(t, k.guild, k.amount)
      /\ (r.at \notin {"lockBidder", "funds", "outbid", "release", "handBack"} /\ ~x.failed) =>
           /\ o.winner = Nobody
           /\ r.at # "record" => Bid(k.id) \notin DOMAIN t
           /\ r.at \in {"count", "commit"} => Log(<<k.id, 1>>) \notin DOMAIN t
           /\ \/ r.at = "record" /\ x.wrote = NoRows
              \/ r.at = "standing" /\ x.wrote = Recorded(k)
              \/ r.at = "logBid" /\ x.wrote = Leading(t, k)
              \/ r.at = "count" /\ x.wrote = Staked(t, k)
              \/ r.at = "commit" /\ x.wrote = Placed(t, k)

CloseDraft(t, r, x) ==
    LET k == r.ask  o == r.saw IN
    After(r, x, "close") =>
      /\ HeldRow(t, x, Auction(k.auction)) /\ t[Auction(k.auction)] = o /\ o.status = "active"
      /\ o.high = 0 =>
           \/ r.at = "restore" /\ x.wrote = NoRows
           \/ r.at = "cancel" /\ x.wrote = Restored(t, o)
           \/ r.at = "commit" /\ x.wrote = Unsold(t, k, o)
      /\ o.high # 0 =>
           /\ r.at # "handOver" => Guild(o.winner) \in DOMAIN t
           /\ \/ r.at = "handOver" /\ x.wrote = NoRows
              \/ r.at = "proceeds" /\ x.wrote = HandedOver(t, o)
              \/ r.at = "end" /\ x.wrote = Settled(t, o)
              \/ r.at = "commit" /\ x.wrote = Sold(t, k, o)

Draft(t, r, x) ==
    /\ DepositDraft(t, r, x) /\ ListDraft(t, r, x) /\ BuyDraft(t, r, x)
    /\ StartDraft(t, r, x) /\ BidDraft(t, r, x) /\ CloseDraft(t, r, x)
    /\ (x.open /\ r.at # "first") =>
         r.ask.op \in {"deposit", "list", "buy", "start", "bid", "close"}

\* Some of the rows of the drafts
LEMMA LaidHas == \A t, w, n : n \in DOMAIN t \/ n \in DOMAIN w => n \in DOMAIN Write(t, w)
BY DEF Write

LEMMA LogHas == \A k, g, type, x : Log(k) \in DOMAIN LogWalletTransaction(k, g, type, x)
BY DEF OneRow, LogWalletTransaction

LEMMA BuyHas ==
    \A t, k, o :
      /\ Guild(o.owner) \in DOMAIN Paid(t, k, o) /\ Guild(o.owner) \in DOMAIN Moved(t, k, o)
      /\ Guild(o.owner) \in DOMAIN Counted(t, k, o) /\ Guild(o.owner) \in DOMAIN Noted(t, k, o)
      /\ Guild(o.owner) \in DOMAIN Bought(t, k, o)
      /\ Log(<<k.id, 1>>) \in DOMAIN Noted(t, k, o) /\ Log(<<k.id, 1>>) \in DOMAIN Bought(t, k, o)
      /\ Log(<<k.id, 2>>) \in DOMAIN Bought(t, k, o)
<1> TAKE t, k, o
<1>1. Guild(o.owner) \in DOMAIN Paid(t, k, o)
  BY DEF OneRow, Write, Paid, UpdateGuildBalance
<1>2. Guild(o.owner) \in DOMAIN Moved(t, k, o)
  BY <1>1, LaidHas DEF Moved
<1>3. Guild(o.owner) \in DOMAIN Counted(t, k, o)
  BY <1>2, LaidHas DEF Counted
<1>4. Guild(o.owner) \in DOMAIN Noted(t, k, o)
  BY <1>3, LaidHas DEF Noted
<1>5. Guild(o.owner) \in DOMAIN Bought(t, k, o)
  BY <1>4, LaidHas DEF Bought
<1>6. Log(<<k.id, 1>>) \in DOMAIN Noted(t, k, o)
  BY LaidHas, LogHas DEF Noted
<1>7. Log(<<k.id, 1>>) \in DOMAIN Bought(t, k, o)
  BY <1>6, LaidHas DEF Bought
<1>8. Log(<<k.id, 2>>) \in DOMAIN Bought(t, k, o)
  BY LaidHas, LogHas DEF Bought
<1>9. QED
  BY <1>1, <1>2, <1>3, <1>4, <1>5, <1>6, <1>7, <1>8

LEMMA BidHas ==
    \A t, k :
      /\ Bid(k.id) \in DOMAIN Recorded(k) /\ Bid(k.id) \in DOMAIN Leading(t, k)
      /\ Bid(k.id) \in DOMAIN Staked(t, k) /\ Bid(k.id) \in DOMAIN Placed(t, k)
      /\ Log(<<k.id, 1>>) \in DOMAIN Staked(t, k) /\ Log(<<k.id, 1>>) \in DOMAIN Placed(t, k)
<1> TAKE t, k
<1>1. Bid(k.id) \in DOMAIN Recorded(k)
  BY DEF OneRow, Recorded, CreateBid
<1>2. Bid(k.id) \in DOMAIN Leading(t, k)
  BY <1>1, LaidHas DEF Leading
<1>3. Bid(k.id) \in DOMAIN Staked(t, k)
  BY <1>2, LaidHas DEF Staked
<1>4. Bid(k.id) \in DOMAIN Placed(t, k)
  BY <1>3, LaidHas DEF Placed
<1>5. Log(<<k.id, 1>>) \in DOMAIN Staked(t, k)
  BY LaidHas, LogHas DEF Staked
<1>6. Log(<<k.id, 1>>) \in DOMAIN Placed(t, k)
  BY <1>5, LaidHas DEF Placed
<1>7. QED
  BY <1>1, <1>2, <1>3, <1>4, <1>5, <1>6

LEMMA CloseHas ==
    \A t, k, o :
      /\ Item(o.item) \in DOMAIN Restored(t, o) /\ Item(o.item) \in DOMAIN Unsold(t, k, o)
      /\ Item(o.item) \in DOMAIN HandedOver(t, o) /\ Item(o.item) \in DOMAIN Settled(t, o)
      /\ Item(o.item) \in DOMAIN Sold(t, k, o)
      /\ Guild(o.seller) \in DOMAIN Settled(t, o) /\ Guild(o.seller) \in DOMAIN Sold(t, k, o)
<1> TAKE t, k, o
<1>1. Item(o.item) \in DOMAIN Restored(t, o)
  BY DEF OneRow, Restored, UpdateItemStatus
<1>2. Item(o.item) \in DOMAIN Unsold(t, k, o)
  BY <1>1, LaidHas DEF Unsold
<1>3. Item(o.item) \in DOMAIN HandedOver(t, o)
  BY DEF OneRow, HandedOver, TransferItemOwnership
<1>4. Item(o.item) \in DOMAIN Settled(t, o)
  BY <1>3, LaidHas DEF Settled
<1>5. Item(o.item) \in DOMAIN Sold(t, k, o)
  BY <1>4, LaidHas DEF Sold
<1>6. Guild(o.seller) \in DOMAIN Settled(t, o)
  BY DEF OneRow, Write, Settled, UpdateGuildBalance
<1>7. Guild(o.seller) \in DOMAIN Sold(t, k, o)
  BY <1>6, LaidHas DEF Sold
<1>8. QED
  BY <1>1, <1>2, <1>3, <1>4, <1>5, <1>6, <1>7

-----------------------------------------------------------------------------
(* Drafts stay true when others commit.                                    *)

LEMMA DepositDraftStays ==
    ASSUME NEW t, NEW u, NEW r, NEW x, Undisturbed(t, u, x.held), DepositDraft(t, r, x),
           \A n \in DOMAIN x.wrote : <<n, "write">> \in x.held
    PROVE  DepositDraft(u, r, x)
<1> SUFFICES ASSUME After(r, x, "deposit") PROVE DepositDraft(u, r, x)
  BY DEF DepositDraft
<1> DEFINE k == r.ask
<1>1. HeldRow(t, x, Guild(k.guild)) /\ HeldRow(u, x, Guild(k.guild)) /\ u[Guild(k.guild)] = t[Guild(k.guild)]
  BY DEF DepositDraft, HeldRow, Undisturbed
<1>2. Credited(u, k) = Credited(t, k) /\ Deposited(u, k) = Deposited(t, k)
  BY <1>1 DEF Credited, Deposited, UpdateGuildBalance
<1>3. x.wrote = Deposited(t, k) => <<Log(<<k.id, 1>>), "write">> \in x.held
  BY LaidHas, LogHas DEF Deposited
<1>4. QED
  BY <1>1, <1>2, <1>3 DEF DepositDraft, Undisturbed

LEMMA ListDraftStays ==
    ASSUME NEW t, NEW u, NEW r, NEW x, Undisturbed(t, u, x.held), ListDraft(t, r, x)
    PROVE  ListDraft(u, r, x)
<1> SUFFICES ASSUME After(r, x, "list") PROVE ListDraft(u, r, x)
  BY DEF ListDraft
<1>1. HeldRow(u, x, Item(r.ask.item)) /\ u[Item(r.ask.item)] = t[Item(r.ask.item)]
  BY DEF ListDraft, HeldRow, Undisturbed
<1>2. Exposed(u, r.ask) = Exposed(t, r.ask)
  BY <1>1 DEF Exposed, UpdateItemStatus
<1>3. QED
  BY <1>1, <1>2 DEF ListDraft

LEMMA CanPayStays ==
    ASSUME NEW t, NEW u, NEW x, NEW g, NEW n, Undisturbed(t, u, x.held), HeldRow(t, x, Guild(g)),
           CanPay(t, g, n)
    PROVE  CanPay(u, g, n)
BY DEF CanPay, HeldRow, Undisturbed

LEMMA BuyDraftStays ==
    ASSUME NEW t, NEW u, NEW r, NEW x, Undisturbed(t, u, x.held), BuyDraft(t, r, x), Sound(t),
           \A n \in DOMAIN x.wrote : <<n, "write">> \in x.held
    PROVE  BuyDraft(u, r, x)
<1> SUFFICES ASSUME After(r, x, "buy") PROVE BuyDraft(u, r, x)
  BY DEF BuyDraft
<1> DEFINE k == r.ask
           o == r.saw
<1>1. HeldRow(u, x, Item(k.item)) /\ u[Item(k.item)] = t[Item(k.item)]
  BY DEF BuyDraft, HeldRow, Undisturbed
<1>2. HeldRow(t, x, Guild(k.guild)) =>
        /\ HeldRow(u, x, Guild(k.guild)) /\ u[Guild(k.guild)] = t[Guild(k.guild)]
        /\ GetDailySpent(u, k.guild) = GetDailySpent(t, k.guild)
  BY DEF HeldRow, Undisturbed
<1>3. Guild(o.owner) \in DOMAIN t
  BY KeysAreNames DEF BuyDraft, HeldRow, Sound, Referential
<1>4. Guild(o.owner) \in DOMAIN x.wrote => u[Guild(o.owner)] = t[Guild(o.owner)]
  BY <1>3 DEF Undisturbed
<1>5. HeldRow(t, x, Guild(k.guild)) => Charged(u, k, o) = Charged(t, k, o)
  BY <1>2 DEF Charged, UpdateGuildBalance
<1>6. HeldRow(t, x, Guild(k.guild)) /\ Guild(o.owner) \in DOMAIN x.wrote =>
        /\ Paid(u, k, o) = Paid(t, k, o) /\ Moved(u, k, o) = Moved(t, k, o)
        /\ Counted(u, k, o) = Counted(t, k, o)
        /\ Noted(u, k, o) = Noted(t, k, o) /\ Bought(u, k, o) = Bought(t, k, o)
  <2> SUFFICES ASSUME HeldRow(t, x, Guild(k.guild)), Guild(o.owner) \in DOMAIN x.wrote
               PROVE  /\ Paid(u, k, o) = Paid(t, k, o) /\ Moved(u, k, o) = Moved(t, k, o)
                      /\ Counted(u, k, o) = Counted(t, k, o)
                      /\ Noted(u, k, o) = Noted(t, k, o) /\ Bought(u, k, o) = Bought(t, k, o)
    OBVIOUS
  <2>1. Paid(u, k, o) = Paid(t, k, o)
    BY <1>4, <1>5 DEF Paid, UpdateGuildBalance
  <2>2. Moved(u, k, o) = Moved(t, k, o)
    BY <1>1, <2>1 DEF Moved, TransferItemOwnership
  <2>3. Counted(u, k, o) = Counted(t, k, o)
    BY <1>2, <2>2 DEF Counted, UpsertDailyPurchase
  <2>4. QED
    BY <2>1, <2>2, <2>3 DEF Noted, Bought
<1>7. CanPay(t, k.guild, o.price) /\ HeldRow(t, x, Guild(k.guild)) => CanPay(u, k.guild, o.price)
  BY CanPayStays
<1>8. /\ Log(<<k.id, 1>>) \in DOMAIN x.wrote /\ Log(<<k.id, 1>>) \notin DOMAIN t =>
           Log(<<k.id, 1>>) \notin DOMAIN u
      /\ Log(<<k.id, 2>>) \in DOMAIN x.wrote /\ Log(<<k.id, 2>>) \notin DOMAIN t =>
           Log(<<k.id, 2>>) \notin DOMAIN u
  BY DEF Undisturbed
<1>9. /\ Guild(o.owner) \in DOMAIN Paid(t, k, o) /\ Guild(o.owner) \in DOMAIN Moved(t, k, o)
      /\ Guild(o.owner) \in DOMAIN Counted(t, k, o) /\ Guild(o.owner) \in DOMAIN Noted(t, k, o)
      /\ Guild(o.owner) \in DOMAIN Bought(t, k, o)
  BY BuyHas
<1>10. /\ Log(<<k.id, 1>>) \in DOMAIN Noted(t, k, o)
       /\ Log(<<k.id, 1>>) \in DOMAIN Bought(t, k, o)
       /\ Log(<<k.id, 2>>) \in DOMAIN Bought(t, k, o)
  BY BuyHas
<1> HIDE DEF k, o
<1>11. QED
  BY <1>1, <1>2, <1>5, <1>6, <1>7, <1>8, <1>9, <1>10 DEF BuyDraft, k, o

LEMMA StartDraftStays ==
    ASSUME NEW t, NEW u, NEW r, NEW x, Undisturbed(t, u, x.held), StartDraft(t, r, x),
           \A n \in DOMAIN x.wrote : <<n, "write">> \in x.held
    PROVE  StartDraft(u, r, x)
<1> SUFFICES ASSUME After(r, x, "start"), r.at # "insert" PROVE StartDraft(u, r, x)
  BY DEF StartDraft
<1> DEFINE k == r.ask
<1>1. Auction(k.id) \in DOMAIN x.wrote
  BY DEF OneRow, StartDraft, CreateAuction
<1>2. QED
  BY <1>1 DEF StartDraft, Undisturbed

LEMMA BidDraftStays ==
    ASSUME NEW t, NEW u, NEW r, NEW x, Undisturbed(t, u, x.held), BidDraft(t, r, x),
           \A n \in DOMAIN x.wrote : <<n, "write">> \in x.held
    PROVE  BidDraft(u, r, x)
<1> SUFFICES ASSUME After(r, x, "bid") PROVE BidDraft(u, r, x)
  BY DEF BidDraft
<1> DEFINE k == r.ask
<1>1. HeldRow(u, x, Auction(k.auction)) /\ u[Auction(k.auction)] = t[Auction(k.auction)]
  BY DEF BidDraft, HeldRow, Undisturbed
<1>2. HeldRow(t, x, Guild(k.guild)) =>
        HeldRow(u, x, Guild(k.guild)) /\ GetDailySpent(u, k.guild) = GetDailySpent(t, k.guild)
  BY DEF HeldRow, Undisturbed
<1>3. CanPay(t, k.guild, k.amount) /\ HeldRow(t, x, Guild(k.guild)) => CanPay(u, k.guild, k.amount)
  BY CanPayStays
<1>4. Leading(u, k) = Leading(t, k) /\ Staked(u, k) = Staked(t, k)
  BY <1>1 DEF Leading, Staked, UpdateAuctionBid
<1>5. HeldRow(t, x, Guild(k.guild)) => Placed(u, k) = Placed(t, k)
  BY <1>2, <1>4 DEF Placed, UpsertDailyPurchase
<1>6. \A n \in {Bid(k.id), Log(<<k.id, 1>>)} :
        n \in DOMAIN x.wrote /\ n \notin DOMAIN t => n \notin DOMAIN u
  BY DEF Undisturbed
<1>7. /\ Bid(k.id) \in DOMAIN Recorded(k) /\ Bid(k.id) \in DOMAIN Leading(t, k)
      /\ Bid(k.id) \in DOMAIN Staked(t, k) /\ Bid(k.id) \in DOMAIN Placed(t, k)
      /\ Log(<<k.id, 1>>) \in DOMAIN Staked(t, k) /\ Log(<<k.id, 1>>) \in DOMAIN Placed(t, k)
  BY BidHas
<1> HIDE DEF k
<1>8. QED
  BY <1>1, <1>2, <1>3, <1>4, <1>5, <1>6, <1>7 DEF BidDraft, k

LEMMA CloseDraftStays ==
    ASSUME NEW t, NEW u, NEW r, NEW x, Undisturbed(t, u, x.held), CloseDraft(t, r, x), Sound(t),
           \A n \in DOMAIN x.wrote : <<n, "write">> \in x.held
    PROVE  CloseDraft(u, r, x)
<1> SUFFICES ASSUME After(r, x, "close") PROVE CloseDraft(u, r, x)
  BY DEF CloseDraft
<1> DEFINE k == r.ask
           o == r.saw
<1>1. HeldRow(u, x, Auction(k.auction)) /\ u[Auction(k.auction)] = t[Auction(k.auction)]
  BY DEF CloseDraft, HeldRow, Undisturbed
<1>2. Item(o.item) \in DOMAIN t /\ Guild(o.seller) \in DOMAIN t
  BY KeysAreNames DEF CloseDraft, HeldRow, Sound, Referential
<1>3. Item(o.item) \in DOMAIN x.wrote =>
        Restored(u, o) = Restored(t, o) /\ HandedOver(u, o) = HandedOver(t, o)
  BY <1>2 DEF Undisturbed, Restored, HandedOver, UpdateItemStatus, TransferItemOwnership
<1>4. Item(o.item) \in DOMAIN x.wrote => Unsold(u, k, o) = Unsold(t, k, o)
  BY <1>1, <1>3 DEF Unsold, CloseAuction
<1>5. Item(o.item) \in DOMAIN x.wrote /\ Guild(o.seller) \in DOMAIN x.wrote =>
        Settled(u, o) = Settled(t, o)
  BY <1>2, <1>3 DEF Undisturbed, Settled, UpdateGuildBalance
<1>6. Item(o.item) \in DOMAIN x.wrote /\ Guild(o.seller) \in DOMAIN x.wrote =>
        Sold(u, k, o) = Sold(t, k, o)
  BY <1>1, <1>5 DEF Sold, CloseAuction
<1>7. /\ Item(o.item) \in DOMAIN Restored(t, o) /\ Item(o.item) \in DOMAIN Unsold(t, k, o)
      /\ Item(o.item) \in DOMAIN HandedOver(t, o) /\ Item(o.item) \in DOMAIN Settled(t, o)
      /\ Item(o.item) \in DOMAIN Sold(t, k, o)
      /\ Guild(o.seller) \in DOMAIN Settled(t, o) /\ Guild(o.seller) \in DOMAIN Sold(t, k, o)
  BY CloseHas
<1>8. Guild(o.winner) \in DOMAIN t => Guild(o.winner) \in DOMAIN u
  BY DEF Undisturbed
<1> HIDE DEF k, o
<1>9. QED
  BY <1>1, <1>3, <1>4, <1>5, <1>6, <1>7, <1>8 DEF CloseDraft, k, o

\* The draft of a transaction is not disturbed.
LEMMA DraftStays ==
    ASSUME NEW t, NEW u, NEW r, NEW x, Undisturbed(t, u, x.held), Draft(t, r, x), Sound(t),
           \A n \in DOMAIN x.wrote : <<n, "write">> \in x.held
    PROVE  Draft(u, r, x)
BY DepositDraftStays, ListDraftStays, BuyDraftStays, StartDraftStays, BidDraftStays, CloseDraftStays
DEF Draft

-----------------------------------------------------------------------------
(* Every statement continues the draft of its own transaction.             *)

\* What a statement does to its own transaction and request
Stated(p, next, saw, locks, w) ==
    /\ db' = db /\ tx[p].open /\ ~tx[p].failed
    /\ req'[p].ask = req[p].ask /\ req'[p].at = next /\ req'[p].saw = saw
    /\ tx'[p].open /\ ~tx'[p].failed /\ tx'[p].wrote = Write(tx[p].wrote, w)
    /\ tx[p].held \subseteq tx'[p].held /\ locks \subseteq tx'[p].held
    /\ Found(See(p), locks)

LEMMA StatementDoes ==
    ASSUME NEW p \in Procs, NEW next, NEW saw, NEW locks, NEW w, Shapes,
           Statement(p, next, saw, locks, w)
    PROVE  Stated(p, next, saw, locks, w)
<1>1. /\ tx'[p] = [open |-> TRUE, wrote |-> Write(tx[p].wrote, w),
                   held |-> tx[p].held \cup (locks \cup Writes(w)), failed |-> FALSE]
      /\ req'[p] = [req[p] EXCEPT !.at = next, !.saw = saw]
  BY DEF Statement, Shapes
<1>2. ReqRecord(req[p])
  BY DEF Shapes
<1>3. req'[p].ask = req[p].ask /\ req'[p].at = next /\ req'[p].saw = saw
  BY <1>1, <1>2 DEF ReqRecord
<1>4. /\ tx'[p].open /\ ~tx'[p].failed /\ tx'[p].wrote = Write(tx[p].wrote, w)
      /\ tx'[p].held = tx[p].held \cup (locks \cup Writes(w))
  BY <1>1
<1>5. QED
  BY <1>3, <1>4 DEF Statement, Stated

LEMMA ExecDoes ==
    ASSUME NEW p \in Procs, NEW next, NEW locks, NEW w, Shapes, Exec(p, next, locks, w)
    PROVE  Stated(p, next, req[p].saw, locks, w)
BY StatementDoes DEF Exec

\* Without a transaction there is no draft.
LEMMA NoDraft == \A t, r, x : ~x.open => Draft(t, r, x)
BY DEF Draft, After, DepositDraft, ListDraft, BuyDraft, StartDraft, BidDraft, CloseDraft

LEMMA FirstDraft == \A t, r, x : r.at = "first" => Draft(t, r, x)
BY DEF Draft, After, DepositDraft, ListDraft, BuyDraft, StartDraft, BidDraft, CloseDraft

LEMMA EndDrops ==
    ASSUME NEW p \in Procs, NEW err, NEW kept, Shapes, End(p, err, kept)
    PROVE  Draft(db', req'[p], tx'[p])
<1>1. tx'[p] = NoTx
  BY DEF End, Shapes
<1>2. ~tx'[p].open
  BY <1>1 DEF NoTx
<1>3. QED
  BY <1>2, NoDraft

LEMMA ReturnDrops ==
    ASSUME NEW p \in Procs, NEW err, Shapes, Return(p, err)
    PROVE  Draft(db', req'[p], tx'[p])
BY EndDrops DEF Return

\* A request has the draft of its own kind.
LEMMA OwnDraft ==
    ASSUME NEW t, NEW r, NEW x,
           \/ r.ask.op = "deposit" /\ DepositDraft(t, r, x)
           \/ r.ask.op = "list" /\ ListDraft(t, r, x)
           \/ r.ask.op = "buy" /\ BuyDraft(t, r, x)
           \/ r.ask.op = "start" /\ StartDraft(t, r, x)
           \/ r.ask.op = "bid" /\ BidDraft(t, r, x)
           \/ r.ask.op = "close" /\ CloseDraft(t, r, x)
    PROVE  Draft(t, r, x)
BY DEF Draft, After, DepositDraft, ListDraft, BuyDraft, StartDraft, BidDraft, CloseDraft

\* What a transaction sees
LEMMA SeeAll == \A p : DOMAIN See(p) = DOMAIN db \cup DOMAIN tx[p].wrote
BY LaidDomain DEF See

LEMMA SeeBeyond ==
    \A p, n : n \in DOMAIN db /\ n \notin DOMAIN tx[p].wrote => See(p)[n] = db[n]
BY LaidUnder DEF See

LEMMA SeeTables ==
    ASSUME NEW p, Shapes, tx[p].wrote = NoRows
    PROVE  See(p) = db
BY WriteNothing DEF Shapes, See

LEMMA FirstWrites == \A r, v : Write(NoRows, OneRow(r, v)) = OneRow(r, v)
BY WriteOverNothing, OneRowTable

LEMMA WritesNone == Write(NoRows, NoRows) = NoRows
BY DEF Write, NoRows

\* The tables that rows w are of
Of(w, tables) == \A n \in DOMAIN w : n[1] \in tables

LEMMA OneRowOf == \A r, v, s : r[1] \in s => Of(OneRow(r, v), s)
BY DEF OneRow, Of

LEMMA LaidOf == \A v, w, s : Of(v, s) /\ Of(w, s) => Of(Write(v, w), s)
BY DEF Write, Of

LEMMA MoreOf == \A w, s, z : Of(w, s) /\ s \subseteq z => Of(w, z)
BY DEF Of

\* A deposit
LEMMA DepositingDraft ==
    ASSUME NEW p \in Procs, Guarded, Sound(db), Draft(db, req[p], tx[p]), Depositing(p)
    PROVE  Draft(db', req'[p], tx'[p])
<1> DEFINE k == req[p].ask
<1>0. Shapes /\ Positions
  BY DEF Guarded
<1>1. CASE LockForDeposit(p)
  <2>1. See(p) = db /\ tx[p].wrote = NoRows
    BY <1>0, <1>1, SeeCommitted DEF LockForDeposit, At, Positions
  <2>2. CASE Guild(k.guild) \in DOMAIN See(p)
    <3>1. Stated(p, "credit", req[p].saw, ForUpdate(Guild(k.guild)), NoRows)
      BY <1>0, <1>1, <2>2, ExecDoes DEF LockForDeposit
    <3>2. tx'[p].wrote = NoRows
      BY <2>1, <3>1, WritesNone DEF Stated
    <3>3. QED
      BY <1>1, <2>1, <2>2, <3>1, <3>2, OwnDraft
      DEF LockForDeposit, At, Stated, DepositDraft, HeldRow, ForUpdate
  <2>3. CASE Guild(k.guild) \notin DOMAIN See(p)
    BY <1>0, <1>1, <2>3, ReturnDrops DEF LockForDeposit
  <2>4. QED
    BY <2>2, <2>3
<1>2. CASE CreditDeposit(p)
  <2>1. Stated(p, "log", req[p].saw, {}, UpdateGuildBalance(See(p), k.guild, k.amount))
    BY <1>0, <1>2, ExecDoes DEF CreditDeposit, ChangeBalance
  <2>2. HeldRow(db, tx[p], Guild(k.guild)) /\ tx[p].wrote = NoRows
    BY <1>2, <2>1 DEF CreditDeposit, At, Stated, Draft, DepositDraft, After
  <2>3. See(p) = db
    BY <1>0, <2>2, SeeTables
  <2>4. tx'[p].wrote = Credited(db, k)
    BY <2>1, <2>2, <2>3, FirstWrites DEF Stated, Credited, UpdateGuildBalance
  <2>5. db[Guild(k.guild)].gold + k.amount >= 0
    BY <1>2, <2>3 DEF CreditDeposit, ChangeBalance, BalanceSuffices
  <2>6. QED
    BY <1>2, <2>1, <2>2, <2>4, <2>5, OwnDraft DEF CreditDeposit, At, Stated, DepositDraft, HeldRow
<1>3. CASE LogDeposit(p)
  <2>1. Stated(p, "commit", req[p].saw, References({Guild(k.guild)}),
               LogWalletTransaction(<<k.id, 1>>, k.guild, "deposit", k.amount))
    BY <1>0, <1>3, ExecDoes DEF LogDeposit
  <2>2. /\ HeldRow(db, tx[p], Guild(k.guild)) /\ tx[p].wrote = Credited(db, k)
        /\ db[Guild(k.guild)].gold + k.amount >= 0
    BY <1>3, <2>1 DEF LogDeposit, At, Stated, Draft, DepositDraft, After
  <2>3. tx'[p].wrote = Deposited(db, k)
    BY <2>1, <2>2 DEF Stated, Deposited
  <2>4. Log(<<k.id, 1>>) \notin DOMAIN db
    BY <1>3, SeeAll DEF LogDeposit, IsNew
  <2>5. QED
    BY <1>3, <2>1, <2>2, <2>3, <2>4, OwnDraft DEF LogDeposit, At, Stated, DepositDraft, HeldRow
<1>4. QED
  BY <1>1, <1>2, <1>3 DEF Depositing

\* A listing
LEMMA ListingDraft ==
    ASSUME NEW p \in Procs, Guarded, Sound(db), Draft(db, req[p], tx[p]), Listing(p)
    PROVE  Draft(db', req'[p], tx'[p])
<1> DEFINE k == req[p].ask
<1>0. Shapes /\ Positions
  BY DEF Guarded
<1>1. CASE ReadForListing(p)
  <2>1. ~tx'[p].open
    BY <1>0, <1>1, NotOpen DEF ReadForListing, Service, At, Goto, Return, End, NoTx, Shapes
  <2>2. QED
    BY <2>1, NoDraft
<1>2. CASE LockForListing(p)
  <2>1. See(p) = db /\ tx[p].wrote = NoRows
    BY <1>0, <1>2, SeeCommitted DEF LockForListing, At, Positions
  <2>2. CASE Item(k.item) \in DOMAIN db /\ db[Item(k.item)].status = "sold"
    <3>1. Stated(p, "expose", req[p].saw, ForUpdate(Item(k.item)), NoRows)
      BY <1>0, <1>2, <2>1, <2>2, ExecDoes DEF LockForListing, GetItemByID
    <3>2. tx'[p].wrote = NoRows
      BY <2>1, <3>1, WritesNone DEF Stated
    <3>3. QED
      BY <1>2, <2>2, <3>1, <3>2, OwnDraft
      DEF LockForListing, At, Stated, ListDraft, HeldRow, ForUpdate
  <2>3. CASE ~(Item(k.item) \in DOMAIN db /\ db[Item(k.item)].status = "sold")
    BY <1>0, <1>2, <2>1, <2>3, ReturnDrops DEF LockForListing, GetItemByID
  <2>4. QED
    BY <2>2, <2>3
<1>3. CASE Expose(p)
  <2>1. Stated(p, "commit", req[p].saw, {}, UpdateItemStatus(See(p), k.item, "available"))
    BY <1>0, <1>3, ExecDoes DEF Expose
  <2>2. /\ HeldRow(db, tx[p], Item(k.item)) /\ tx[p].wrote = NoRows
        /\ db[Item(k.item)].status = "sold"
    BY <1>3, <2>1 DEF Expose, At, Stated, Draft, ListDraft, After
  <2>3. See(p) = db
    BY <1>0, <2>2, SeeTables
  <2>4. tx'[p].wrote = Exposed(db, k)
    BY <2>1, <2>2, <2>3, FirstWrites DEF Stated, Exposed, UpdateItemStatus
  <2>5. QED
    BY <1>3, <2>1, <2>2, <2>4, OwnDraft DEF Expose, At, Stated, ListDraft, HeldRow
<1>4. QED
  BY <1>1, <1>2, <1>3 DEF Listing

\* A table has finitely many rows.
LEMMA KeysFinite ==
    ASSUME NEW t, Typed(t), NEW table
    PROVE  IsFiniteSet(Keys(t, table))
<1> DEFINE rows == {r \in DOMAIN t : r[1] = table}
           key == [r \in rows |-> r[2]]
<1>1. IsFiniteSet(rows)
  BY FS_Subset DEF Typed
<1>2. key \in Surjection(rows, Keys(t, table))
  BY DEF Surjection, Keys
<1> HIDE DEF rows, key
<1>3. QED
  BY <1>1, <1>2, FS_Surjection

\* What a guild is found to have at a check it can pay.
LEMMA ReservedInt == \A t, g : Typed(t) => Reserved(t, g) \in Int
<1> SUFFICES ASSUME NEW t, NEW g, Typed(t) PROVE Reserved(t, g) \in Int
  OBVIOUS
<1> DEFINE s == ActiveBids(t, g)
           f == [b \in s |-> t[Bid(b)].amount]
<1>1. s \subseteq Keys(t, "bid")
  BY DEF ActiveBids
<1>2. IsFiniteSet(Keys(t, "bid"))
  BY KeysFinite
<1>3. IsFiniteSet(s)
  BY <1>1, <1>2, FS_Subset
<1>4. \A b \in s : f[b] \in Int
  BY <1>1, KeysAreNames, Names DEF Typed, BidColumns
<1>5. QED
  BY <1>3, <1>4, SumType DEF Reserved

LEMMA FundsSuffice ==
    ASSUME NEW t, Sound(t), NEW g, Guild(g) \in DOMAIN t, NEW n \in Int,
           ~(GetWalletSummary(t, g).available < n),
           ~(GetDailySpent(t, g) + n > GetGuildByID(t, g).limit)
    PROVE  CanPay(t, g, n)
<1>1. t[Guild(g)].gold \in Int /\ t[Guild(g)].limit \in Int /\ GetDailySpent(t, g) \in Int
  BY Names DEF Sound, Typed, GuildColumns, GetDailySpent
<1>2. Reserved(t, g) \in Int
  BY ReservedInt DEF Sound
<1>3. ~(t[Guild(g)].gold - Reserved(t, g) < n)
  BY DEF GetWalletSummary
<1>4. QED
  BY <1>1, <1>2, <1>3 DEF CanPay, GetGuildByID

\* A purchase
LEMMA BuyOf ==
    \A t, k, o :
      /\ Of(Charged(t, k, o), {"guild"}) /\ Of(Paid(t, k, o), {"guild"})
      /\ Of(Moved(t, k, o), {"guild", "item"})
<1> TAKE t, k, o
<1>1. Of(Charged(t, k, o), {"guild"})
  BY OneRowOf, Names DEF Charged, UpdateGuildBalance
<1>2. Of(UpdateGuildBalance(t, o.owner, o.price), {"guild"})
  BY OneRowOf, Names DEF UpdateGuildBalance
<1>3. Of(Paid(t, k, o), {"guild"})
  BY <1>1, <1>2, LaidOf DEF Paid
<1>4. Of(TransferItemOwnership(t, k.item, k.guild, "sold"), {"guild", "item"})
  BY OneRowOf, Names DEF TransferItemOwnership
<1>5. Of(Moved(t, k, o), {"guild", "item"})
  BY <1>3, <1>4, LaidOf, MoreOf DEF Moved
<1>6. QED
  BY <1>1, <1>3, <1>5

\* What is known of a purchase at its next statement
LEMMA BuyKnown ==
    ASSUME NEW p \in Procs, BuyDraft(db, req[p], tx[p]), tx[p].open, req[p].ask.op = "buy",
           req[p].at # "first"
    PROVE  LET k == req[p].ask  o == req[p].saw IN
           /\ HeldRow(db, tx[p], Item(k.item)) /\ db[Item(k.item)] = o
           /\ o.status = "available" /\ o.price # 0 /\ o.owner # k.guild
           /\ req[p].at # "lockBuyer" => HeldRow(db, tx[p], Guild(k.guild))
           /\ req[p].at \notin {"lockBuyer", "funds"} => CanPay(db, k.guild, o.price)
           /\ req[p].at \notin {"lockBuyer", "funds", "charge"} => db[Guild(k.guild)].gold >= o.price
BY DEF BuyDraft, After

LEMMA SoundOwner ==
    \A t, i : Sound(t) /\ Item(i) \in DOMAIN t =>
      Guild(t[Item(i)].owner) \in DOMAIN t /\ t[Item(i)].price \in Nat /\ ItemColumns(t[Item(i)])
<1> SUFFICES ASSUME NEW t, NEW i, Sound(t), Item(i) \in DOMAIN t
             PROVE  /\ Guild(t[Item(i)].owner) \in DOMAIN t
                    /\ t[Item(i)].price \in Nat /\ ItemColumns(t[Item(i)])
  OBVIOUS
<1>1. ItemColumns(t[Item(i)])
  BY Names DEF Sound, Typed
<1>2. Guild(t[Item(i)].owner) \in DOMAIN t
  BY KeysAreNames DEF Sound, Referential
<1>3. QED
  BY <1>1, <1>2 DEF ItemColumns

LEMMA BuyingDraft ==
    ASSUME NEW p \in Procs, Guarded, Sound(db), Draft(db, req[p], tx[p]), Buying(p)
    PROVE  Draft(db', req'[p], tx'[p])
<1> DEFINE k == req[p].ask
           o == req[p].saw
<1>0. Shapes /\ Positions /\ BuyDraft(db, req[p], tx[p])
  BY DEF Guarded, Draft
<1>1. CASE LockToBuy(p)
  <2> DEFINE row == db[Item(k.item)]
  <2>1. See(p) = db /\ tx[p].wrote = NoRows
    BY <1>0, <1>1, SeeCommitted DEF LockToBuy, At, Positions
  <2>2. CASE /\ Item(k.item) \in DOMAIN db /\ ~(row.status # "available" \/ row.price = 0)
             /\ row.owner # k.guild
    <3>1. Stated(p, "lockBuyer", row, ForUpdate(Item(k.item)), NoRows)
      BY <1>0, <1>1, <2>1, <2>2, StatementDoes DEF LockToBuy, GetItemByID
    <3>2. tx'[p].wrote = NoRows
      BY <2>1, <3>1, WritesNone DEF Stated
    <3>3. QED
      BY <1>1, <2>2, <3>1, <3>2, OwnDraft
      DEF LockToBuy, At, Stated, BuyDraft, HeldRow, ForUpdate
  <2>3. CASE ~(/\ Item(k.item) \in DOMAIN db /\ ~(row.status # "available" \/ row.price = 0)
               /\ row.owner # k.guild)
    BY <1>0, <1>1, <2>1, <2>3, ReturnDrops DEF LockToBuy, GetItemByID
  <2>4. QED
    BY <2>2, <2>3
<1>2. CASE LockBuyer(p)
  <2>1. CASE Guild(k.guild) \in DOMAIN See(p)
    <3>1. Stated(p, "funds", o, ForUpdate(Guild(k.guild)), NoRows)
      BY <1>0, <1>2, <2>1, ExecDoes DEF LockBuyer
    <3>2. tx[p].open /\ k.op = "buy" /\ req[p].at = "lockBuyer"
      BY <1>2, <3>1 DEF LockBuyer, At, Stated
    <3>3. tx[p].wrote = NoRows
      BY <1>0, <3>2 DEF BuyDraft, After
    <3>4. tx'[p].wrote = NoRows
      BY <3>1, <3>3, WritesNone DEF Stated
    <3>5. See(p) = db
      BY <1>0, <3>3, SeeTables
    <3>6. QED
      BY <1>0, <2>1, <3>1, <3>2, <3>4, <3>5, BuyKnown, OwnDraft
      DEF Stated, BuyDraft, HeldRow, ForUpdate
  <2>2. CASE Guild(k.guild) \notin DOMAIN See(p)
    BY <1>0, <1>2, <2>2, ReturnDrops DEF LockBuyer
  <2>3. QED
    BY <2>1, <2>2
<1>3. CASE CheckBuyer(p)
  <2> DEFINE short == GetWalletSummary(See(p), k.guild).available < o.price
             over == GetDailySpent(See(p), k.guild) + o.price > GetGuildByID(See(p), k.guild).limit
  <2>1. CASE ~short /\ ~over
    <3>1. Stated(p, "charge", o, {}, NoRows)
      BY <1>0, <1>3, <2>1, ExecDoes DEF CheckBuyer
    <3>2. tx[p].open /\ k.op = "buy" /\ req[p].at = "funds"
      BY <1>3, <3>1 DEF CheckBuyer, At, Stated
    <3>3. tx[p].wrote = NoRows
      BY <1>0, <3>2 DEF BuyDraft, After
    <3>4. tx'[p].wrote = NoRows
      BY <3>1, <3>3, WritesNone DEF Stated
    <3>5. See(p) = db
      BY <1>0, <3>3, SeeTables
    <3>6. o.price \in Int /\ Guild(k.guild) \in DOMAIN db
      <4>1. /\ Item(k.item) \in DOMAIN db /\ db[Item(k.item)] = o
            /\ Guild(k.guild) \in DOMAIN db
        BY <1>0, <3>2, BuyKnown DEF HeldRow
      <4>2. db[Item(k.item)].price \in Nat
        BY <4>1, SoundOwner
      <4>3. QED
        BY <4>1, <4>2
    <3>7. CanPay(db, k.guild, o.price)
      BY <2>1, <3>5, <3>6, FundsSuffice
    <3>8. QED
      BY <1>0, <3>1, <3>2, <3>4, <3>7, BuyKnown, OwnDraft DEF Stated, BuyDraft, HeldRow
  <2>2. CASE short \/ over
    BY <1>0, <1>3, <2>2, ReturnDrops DEF CheckBuyer
  <2>3. QED
    BY <2>1, <2>2
<1>4. CASE ChargeBuyer(p)
  <2>1. Stated(p, "pay", o, {}, UpdateGuildBalance(See(p), k.guild, -o.price))
    BY <1>0, <1>4, ExecDoes DEF ChargeBuyer, ChangeBalance
  <2>2. tx[p].open /\ k.op = "buy" /\ req[p].at = "charge"
    BY <1>4, <2>1 DEF ChargeBuyer, At, Stated
  <2>3. tx[p].wrote = NoRows
    BY <1>0, <2>2 DEF BuyDraft, After
  <2>4. See(p) = db
    BY <1>0, <2>3, SeeTables
  <2>5. tx'[p].wrote = Charged(db, k, o)
    BY <2>1, <2>3, <2>4, FirstWrites DEF Stated, Charged, UpdateGuildBalance
  <2>6. db[Guild(k.guild)].gold >= o.price
    <3>1. db[Guild(k.guild)].gold + (-o.price) >= 0
      BY <1>4, <2>4 DEF ChargeBuyer, ChangeBalance, BalanceSuffices
    <3>2. Guild(k.guild) \in DOMAIN db /\ o.price \in Int
      <4>1. /\ Item(k.item) \in DOMAIN db /\ db[Item(k.item)] = o
            /\ Guild(k.guild) \in DOMAIN db
        BY <1>0, <2>2, BuyKnown DEF HeldRow
      <4>2. db[Item(k.item)].price \in Nat
        BY <4>1, SoundOwner
      <4>3. QED
        BY <4>1, <4>2
    <3>3. db[Guild(k.guild)].gold \in Int
      BY <3>2, Names DEF Sound, Typed, GuildColumns
    <3>4. QED
      BY <3>1, <3>2, <3>3
  <2>7. QED
    BY <1>0, <2>1, <2>2, <2>5, <2>6, BuyKnown, OwnDraft DEF Stated, BuyDraft, HeldRow
<1>5. CASE PaySeller(p)
  <2>1. Stated(p, "transfer", o, {}, UpdateGuildBalance(See(p), o.owner, o.price))
    BY <1>0, <1>5, ExecDoes DEF PaySeller, ChangeBalance
  <2>2. tx[p].open /\ k.op = "buy" /\ req[p].at = "pay"
    BY <1>5, <2>1 DEF PaySeller, At, Stated
  <2>3. tx[p].wrote = Charged(db, k, o)
    BY <1>0, <2>2 DEF BuyDraft, After
  <2>4. Guild(o.owner) \in DOMAIN db
    BY <1>0, <2>2, BuyKnown, SoundOwner DEF HeldRow
  <2>5. Guild(o.owner) \notin DOMAIN Charged(db, k, o)
    BY <1>0, <2>2, BuyKnown DEF Charged, UpdateGuildBalance, OneRow, Guild
  <2>6. See(p)[Guild(o.owner)] = db[Guild(o.owner)]
    BY <2>3, <2>4, <2>5, SeeBeyond
  <2>7. tx'[p].wrote = Paid(db, k, o)
    BY <2>1, <2>3, <2>6 DEF Stated, Paid, UpdateGuildBalance
  <2>8. QED
    BY <1>0, <2>1, <2>2, <2>7, BuyKnown, OwnDraft DEF Stated, BuyDraft, HeldRow
<1>6. CASE TransferBought(p)
  <2>1. Stated(p, "quota", o, References({Guild(k.guild)}),
               TransferItemOwnership(See(p), k.item, k.guild, "sold"))
    BY <1>0, <1>6, ExecDoes DEF TransferBought
  <2>2. tx[p].open /\ k.op = "buy" /\ req[p].at = "transfer"
    BY <1>6, <2>1 DEF TransferBought, At, Stated
  <2>3. tx[p].wrote = Paid(db, k, o)
    BY <1>0, <2>2 DEF BuyDraft, After
  <2>4. Item(k.item) \in DOMAIN db
    BY <1>0, <2>2, BuyKnown DEF HeldRow
  <2>5. Item(k.item) \notin DOMAIN Paid(db, k, o)
    BY BuyOf, Names DEF Of
  <2>6. See(p)[Item(k.item)] = db[Item(k.item)]
    BY <2>3, <2>4, <2>5, SeeBeyond
  <2>7. tx'[p].wrote = Moved(db, k, o)
    BY <2>1, <2>3, <2>6 DEF Stated, Moved, TransferItemOwnership
  <2>8. QED
    BY <1>0, <2>1, <2>2, <2>7, BuyKnown, OwnDraft DEF Stated, BuyDraft, HeldRow
<1>7. CASE CountPurchase(p)
  <2>1. Stated(p, "logBuyer", o, References({Guild(k.guild)}),
               UpsertDailyPurchase(See(p), k.guild, o.price))
    BY <1>0, <1>7, ExecDoes DEF CountPurchase
  <2>2. tx[p].open /\ k.op = "buy" /\ req[p].at = "quota"
    BY <1>7, <2>1 DEF CountPurchase, At, Stated
  <2>3. tx[p].wrote = Moved(db, k, o)
    BY <1>0, <2>2 DEF BuyDraft, After
  <2>4. Daily(k.guild) \notin DOMAIN Moved(db, k, o)
    BY BuyOf, Names DEF Of
  <2>5. GetDailySpent(See(p), k.guild) = GetDailySpent(db, k.guild)
    BY <2>3, <2>4, SeeBeyond, SeeAll DEF GetDailySpent
  <2>6. tx'[p].wrote = Counted(db, k, o)
    BY <2>1, <2>3, <2>5 DEF Stated, Counted, UpsertDailyPurchase
  <2>7. QED
    BY <1>0, <2>1, <2>2, <2>6, BuyKnown, OwnDraft DEF Stated, BuyDraft, HeldRow
<1>8. CASE LogPurchase(p)
  <2>1. Stated(p, "logSeller", o, References({Guild(k.guild)}),
               LogWalletTransaction(<<k.id, 1>>, k.guild, "purchase", -o.price))
    BY <1>0, <1>8, ExecDoes DEF LogPurchase
  <2>2. tx[p].open /\ k.op = "buy" /\ req[p].at = "logBuyer"
    BY <1>8, <2>1 DEF LogPurchase, At, Stated
  <2>3. tx[p].wrote = Counted(db, k, o)
    BY <1>0, <2>2 DEF BuyDraft, After
  <2>4. tx'[p].wrote = Noted(db, k, o)
    BY <2>1, <2>3 DEF Stated, Noted
  <2>5. Log(<<k.id, 1>>) \notin DOMAIN db
    BY <1>8, SeeAll DEF LogPurchase, IsNew
  <2>6. QED
    BY <1>0, <2>1, <2>2, <2>4, <2>5, BuyKnown, OwnDraft DEF Stated, BuyDraft, HeldRow
<1>9. CASE LogProceeds(p)
  <2>1. Stated(p, "commit", o, References({Guild(o.owner)}),
               LogWalletTransaction(<<k.id, 2>>, o.owner, "refund", o.price))
    BY <1>0, <1>9, ExecDoes DEF LogProceeds
  <2>2. tx[p].open /\ k.op = "buy" /\ req[p].at = "logSeller"
    BY <1>9, <2>1 DEF LogProceeds, At, Stated
  <2>3. tx[p].wrote = Noted(db, k, o) /\ Log(<<k.id, 1>>) \notin DOMAIN db
    BY <1>0, <2>2 DEF BuyDraft, After
  <2>4. tx'[p].wrote = Bought(db, k, o)
    BY <2>1, <2>3 DEF Stated, Bought
  <2>5. Log(<<k.id, 2>>) \notin DOMAIN db
    BY <1>9, SeeAll DEF LogProceeds, IsNew
  <2>6. QED
    BY <1>0, <2>1, <2>2, <2>3, <2>4, <2>5, BuyKnown, OwnDraft DEF Stated, BuyDraft, HeldRow
<1>10. QED
  BY <1>1, <1>2, <1>3, <1>4, <1>5, <1>6, <1>7, <1>8, <1>9 DEF Buying

\* The start of an auction
LEMMA StartingDraft ==
    ASSUME NEW p \in Procs, Guarded, Sound(db), Draft(db, req[p], tx[p]), Starting(p)
    PROVE  Draft(db', req'[p], tx'[p])
<1> DEFINE k == req[p].ask
           entry == {<<ActiveEntry(k.item), "write">>}
           locks == entry \cup References({Item(k.item), Guild(k.guild)})
<1>0. Shapes /\ Positions /\ StartDraft(db, req[p], tx[p])
  BY DEF Guarded, Draft
<1>1. CASE ReadToAuction(p)
  <2>1. ~tx'[p].open
    BY <1>0, <1>1, NotOpen DEF ReadToAuction, Service, At, Goto, Return, End, NoTx, Shapes
  <2>2. QED
    BY <2>1, NoDraft
<1>2. CASE CountOwn(p)
  <2>1. CASE MayStart(p)
    <3>1. Stated(p, "insert", req[p].saw, {}, NoRows) /\ At(p, "start", "first")
      BY <1>0, <1>2, <2>1, ExecDoes DEF CountOwn
    <3>2. tx[p].wrote = NoRows
      BY <1>0, <3>1 DEF At, Positions
    <3>3. tx'[p].wrote = NoRows
      BY <3>1, <3>2, WritesNone DEF Stated
    <3>4. QED
      BY <3>1, <3>3, OwnDraft DEF At, Stated, StartDraft
  <2>2. CASE ~MayStart(p)
    BY <1>0, <1>2, <2>2, ReturnDrops DEF CountOwn
  <2>3. QED
    BY <2>1, <2>2
<1>3. CASE InsertAuction(p)
  <2>1. CASE OnSale(See(p), k.item)
    BY <1>0, <1>3, <2>1, ReturnDrops DEF InsertAuction
  <2>2. CASE ~OnSale(See(p), k.item)
    <3>1. Stated(p, "commit", req[p].saw, locks, CreateAuction(k.id, k.item, k.guild, k.amount))
      BY <1>0, <1>3, <2>2, ExecDoes DEF InsertAuction
    <3>2. tx[p].wrote = NoRows
      BY <1>0, <1>3, <3>1 DEF InsertAuction, At, Stated, StartDraft, After
    <3>3. See(p) = db
      BY <1>0, <3>2, SeeTables
    <3>4. tx'[p].wrote = CreateAuction(k.id, k.item, k.guild, k.amount)
      BY <3>1, <3>2, FirstWrites DEF Stated, CreateAuction
    <3>5. Item(k.item) \in DOMAIN db /\ Guild(k.guild) \in DOMAIN db
      <4>1. <<Item(k.item), "share">> \in locks /\ <<Guild(k.guild), "share">> \in locks
        BY DEF References
      <4> HIDE DEF locks, entry
      <4>2. Found(db, locks)
        BY <3>1, <3>3 DEF Stated
      <4>3. QED
        BY <4>1, <4>2 DEF Found
    <3>6. Auction(k.id) \notin DOMAIN db
      BY <1>3, <2>2, <3>3 DEF InsertAuction, IsNew
    <3>7. <<ActiveEntry(k.item), "write">> \in tx'[p].held
      BY <3>1 DEF Stated
    <3> HIDE DEF locks, entry
    <3>8. QED
      BY <1>3, <2>2, <3>1, <3>3, <3>4, <3>5, <3>6, <3>7, OwnDraft
      DEF InsertAuction, At, Stated, StartDraft
  <2>3. QED
    BY <2>1, <2>2
<1>4. QED
  BY <1>1, <1>2, <1>3 DEF Starting

-----------------------------------------------------------------------------
(* Bids and closings.                                                      *)

\* The request of a goroutine is one of those there are; an amount that is bid
\* has been looked at.
Known ==
    \A p \in Procs : Running(p) =>
      /\ req[p].ask \in Asks
      /\ (req[p].ask.op = "bid" /\ req[p].at # "service") => req[p].ask.amount > 0

LEMMA BidOf == \A t, k : Of(Recorded(k), {"bid"}) /\ Of(Staked(t, k), {"bid", "auction", "log"})
<1> TAKE t, k
<1>1. Of(Recorded(k), {"bid"})
  BY OneRowOf, Names DEF Recorded, CreateBid
<1>2. Of(Recorded(k), {"bid", "auction"})
  BY <1>1, MoreOf
<1>3. Of(UpdateAuctionBid(t, k.auction, k.guild, k.amount), {"bid", "auction"})
  BY OneRowOf, Names DEF UpdateAuctionBid
<1>4. Of(Leading(t, k), {"bid", "auction"})
  BY <1>2, <1>3, LaidOf DEF Leading
<1>5. Of(Leading(t, k), {"bid", "auction", "log"})
  BY <1>4, MoreOf
<1>6. Of(LogWalletTransaction(<<k.id, 1>>, k.guild, "reserve", -k.amount), {"bid", "auction", "log"})
  BY OneRowOf, Names DEF LogWalletTransaction
<1>7. Of(Staked(t, k), {"bid", "auction", "log"})
  BY <1>5, <1>6, LaidOf DEF Staked
<1>8. QED
  BY <1>1, <1>7

\* What is known of a bid at its next statement
LEMMA BidKnown ==
    ASSUME NEW p \in Procs, BidDraft(db, req[p], tx[p]), tx[p].open, req[p].ask.op = "bid",
           req[p].at # "first"
    PROVE  LET k == req[p].ask  o == db[Auction(k.auction)] IN
           /\ HeldRow(db, tx[p], Auction(k.auction))
           /\ o.status = "active" /\ o.seller # k.guild /\ o.winner # k.guild
           /\ req[p].at # "lockBidder" => HeldRow(db, tx[p], Guild(k.guild))
           /\ req[p].at \notin {"lockBidder", "funds"} => CanPay(db, k.guild, k.amount)
BY DEF BidDraft, After

\* What a bid has written of which nothing is left to release
LEMMA BidWrote ==
    ASSUME NEW p \in Procs, BidDraft(db, req[p], tx[p]), tx[p].open, req[p].ask.op = "bid",
           req[p].at \in {"record", "standing", "logBid", "count", "commit"}, ~tx[p].failed
    PROVE  LET k == req[p].ask IN
           /\ db[Auction(k.auction)].winner = Nobody
           /\ req[p].at # "record" => Bid(k.id) \notin DOMAIN db
           /\ req[p].at \in {"count", "commit"} => Log(<<k.id, 1>>) \notin DOMAIN db
           /\ req[p].at = "record" => tx[p].wrote = NoRows
           /\ req[p].at = "standing" => tx[p].wrote = Recorded(k)
           /\ req[p].at = "logBid" => tx[p].wrote = Leading(db, k)
           /\ req[p].at = "count" => tx[p].wrote = Staked(db, k)
           /\ req[p].at = "commit" => tx[p].wrote = Placed(db, k)
BY DEF BidDraft, After

\* A leader has a bid, of an amount that can be released.
LEMMA LeaderHasBid ==
    ASSUME NEW t, Sound(t), NEW a, Auction(a) \in DOMAIN t, t[Auction(a)].winner # Nobody
    PROVE  /\ GetActiveBidByBidder(t, a, t[Auction(a)].winner) # {}
           /\ \A b \in GetActiveBidByBidder(t, a, t[Auction(a)].winner) : t[Bid(b)].amount \in Nat \ {0}
<1>1. a \in Keys(t, "auction")
  BY KeysAreNames DEF Sound
<1>2. GetActiveBidByBidder(t, a, t[Auction(a)].winner) # {}
  BY <1>1 DEF Sound, Led
<1>3. ASSUME NEW b \in GetActiveBidByBidder(t, a, t[Auction(a)].winner)
      PROVE  t[Bid(b)].amount \in Nat \ {0}
  <2>1. Bid(b) \in DOMAIN t
    BY <1>3, ActiveBid DEF Sound
  <2>2. BidColumns(t[Bid(b)])
    BY <2>1, Names DEF Sound, Typed
  <2>3. QED
    BY <2>2 DEF BidColumns
<1>4. QED
  BY <1>2, <1>3

LEMMA DiscardDoes ==
    ASSUME NEW p \in Procs, Shapes, Discard(p)
    PROVE  /\ db' = db /\ req'[p].ask = req[p].ask /\ req'[p].at = "record" /\ tx'[p].failed
           /\ tx'[p].open = tx[p].open /\ tx'[p].held = tx[p].held
BY DEF Discard, Shapes, TxRecord, ReqRecord

LEMMA DiscardDraft ==
    ASSUME NEW p \in Procs, Shapes, Positions, BidDraft(db, req[p], tx[p]), req[p].ask.op = "bid",
           req[p].at \in {"release", "handBack"}, Discard(p)
    PROVE  Draft(db', req'[p], tx'[p])
<1>1. /\ db' = db /\ req'[p].ask = req[p].ask /\ req'[p].at = "record" /\ tx'[p].failed
      /\ tx'[p].open = tx[p].open /\ tx'[p].held = tx[p].held
  BY DiscardDoes
<1>2. tx[p].open
  BY DEF Positions, Outside
<1>3. QED
  BY <1>1, <1>2, BidKnown, OwnDraft DEF BidDraft, HeldRow

LEMMA BiddingDraft ==
    ASSUME NEW p \in Procs, Guarded, Sound(db), Known, Draft(db, req[p], tx[p]), Bidding(p)
    PROVE  Draft(db', req'[p], tx'[p])
<1> DEFINE k == req[p].ask
           o == db[Auction(k.auction)]
           saw == req[p].saw
<1>0. Shapes /\ Positions /\ BidDraft(db, req[p], tx[p])
  BY DEF Guarded, Draft
<1>1. CASE ReadForBid(p)
  <2>1. ~tx'[p].open
    BY <1>0, <1>1, NotOpen DEF ReadForBid, Service, At, Goto, Return, End, NoTx, Shapes
  <2>2. QED
    BY <2>1, NoDraft
<1>2. CASE LockToBid(p)
  <2>1. See(p) = db /\ tx[p].wrote = NoRows
    BY <1>0, <1>2, SeeCommitted DEF LockToBid, At, Positions
  <2>2. CASE \E err : Return(p, err)
    BY <1>0, <2>2, ReturnDrops
  <2>3. CASE ~\E err : Return(p, err)
    <3>1. /\ Auction(k.auction) \in DOMAIN db /\ o.status = "active" /\ o.seller # k.guild
          /\ o.winner # k.guild
          /\ Statement(p, "lockBidder", o, ForUpdate(Auction(k.auction)), NoRows)
      BY <1>2, <2>1, <2>3 DEF LockToBid, GetAuction
    <3>2. Stated(p, "lockBidder", o, ForUpdate(Auction(k.auction)), NoRows)
      BY <1>0, <3>1, StatementDoes
    <3>3. tx'[p].wrote = NoRows
      BY <2>1, <3>2, WritesNone DEF Stated
    <3>4. QED
      BY <1>2, <3>1, <3>2, <3>3, OwnDraft
      DEF LockToBid, At, Stated, BidDraft, HeldRow, ForUpdate
  <2>4. QED
    BY <2>2, <2>3
<1>3. CASE LockBidder(p)
  <2>1. CASE Guild(k.guild) \in DOMAIN See(p)
    <3>1. Stated(p, "funds", saw, ForUpdate(Guild(k.guild)), NoRows)
      BY <1>0, <1>3, <2>1, ExecDoes DEF LockBidder
    <3>2. tx[p].open /\ k.op = "bid" /\ req[p].at = "lockBidder"
      BY <1>3, <3>1 DEF LockBidder, At, Stated
    <3>3. tx[p].wrote = NoRows /\ saw = o
      BY <1>0, <3>2 DEF BidDraft, After
    <3>4. tx'[p].wrote = NoRows
      BY <3>1, <3>3, WritesNone DEF Stated
    <3>5. See(p) = db
      BY <1>0, <3>3, SeeTables
    <3>6. QED
      BY <1>0, <2>1, <3>1, <3>2, <3>3, <3>4, <3>5, BidKnown, OwnDraft
      DEF Stated, BidDraft, HeldRow, ForUpdate
  <2>2. CASE Guild(k.guild) \notin DOMAIN See(p)
    BY <1>0, <1>3, <2>2, ReturnDrops DEF LockBidder
  <2>3. QED
    BY <2>1, <2>2
<1>4. CASE CheckBidder(p)
  <2> DEFINE short == GetWalletSummary(See(p), k.guild).available < k.amount
             over == GetDailySpent(See(p), k.guild) + k.amount > GetGuildByID(See(p), k.guild).limit
             next == IF saw.winner = Nobody THEN "record" ELSE "outbid"
  <2>1. CASE ~short /\ ~over
    <3>1. Stated(p, next, saw, {}, NoRows)
      BY <1>0, <1>4, <2>1, ExecDoes DEF CheckBidder
    <3>2. tx[p].open /\ k.op = "bid" /\ req[p].at = "funds"
      BY <1>4, <3>1 DEF CheckBidder, At, Stated
    <3>3. tx[p].wrote = NoRows /\ saw = o
      BY <1>0, <3>2 DEF BidDraft, After
    <3>4. tx'[p].wrote = NoRows
      BY <3>1, <3>3, WritesNone DEF Stated
    <3>5. See(p) = db
      BY <1>0, <3>3, SeeTables
    <3>6. k.amount \in Int
      BY <3>2, AsksAssumption DEF Known, Running
    <3>7. Guild(k.guild) \in DOMAIN db
      BY <1>0, <3>2, BidKnown DEF HeldRow
    <3>8. CanPay(db, k.guild, k.amount)
      BY <2>1, <3>5, <3>6, <3>7, FundsSuffice
    <3>9. QED
      BY <1>0, <3>1, <3>2, <3>3, <3>4, <3>8, BidKnown, OwnDraft DEF Stated, BidDraft, HeldRow
  <2>2. CASE short \/ over
    BY <1>0, <1>4, <2>2, ReturnDrops DEF CheckBidder
  <2>3. QED
    BY <2>1, <2>2
<1>5. CASE FreeLeader(p)
  <2>1. tx[p].open /\ k.op = "bid" /\ req[p].at = "outbid"
    BY <1>5 DEF FreeLeader, At, Exec, Statement
  <2>2. tx[p].wrote = NoRows /\ saw = o /\ o.winner # Nobody
    BY <1>0, <2>1 DEF BidDraft, After
  <2>3. See(p) = db
    BY <1>0, <2>2, SeeTables
  <2>4. Auction(k.auction) \in DOMAIN db /\ o.status = "active"
    BY <1>0, <2>1, BidKnown DEF HeldRow
  <2>5. LeadingBid(p) = GetActiveBidByBidder(db, k.auction, o.winner)
    BY <2>2, <2>3 DEF LeadingBid
  <2>6. LeadingBid(p) # {} /\ \A b \in LeadingBid(p) : db[Bid(b)].amount \in Nat \ {0}
    BY <2>2, <2>4, <2>5, LeaderHasBid
  <2>7. PICK b \in LeadingBid(p) :
          Statement(p, "release", [leader |-> saw.winner, amount |-> See(p)[Bid(b)].amount],
                    {}, DeactivateBid(See(p), b))
    BY <1>5, <2>6 DEF FreeLeader
  <2>8. Stated(p, "release", [leader |-> saw.winner, amount |-> db[Bid(b)].amount],
               {}, DeactivateBid(See(p), b))
    BY <1>0, <2>3, <2>7, StatementDoes
  <2>9. req'[p].saw.amount \in Nat \ {0}
    BY <2>6, <2>8 DEF Stated
  <2>10. QED
    BY <1>0, <2>1, <2>8, <2>9, BidKnown, OwnDraft DEF Stated, BidDraft, HeldRow
<1>6. CASE LogRelease(p)
  <2>1. /\ \E locks, w : Stated(p, "handBack", saw, locks, w)
        /\ tx[p].open /\ k.op = "bid" /\ req[p].at = "release"
    BY <1>0, <1>6, ExecDoes DEF LogRelease, At, Exec, Statement
  <2>2. saw.amount \in Nat \ {0}
    BY <1>0, <2>1 DEF BidDraft, After
  <2>3. QED
    BY <1>0, <2>1, <2>2, BidKnown, OwnDraft DEF Stated, BidDraft, HeldRow
<1>7. CASE ReturnQuota(p)
  <2>1. k.op = "bid" /\ req[p].at = "handBack"
    BY <1>7 DEF ReturnQuota, At
  <2>2. tx[p].open
    BY <1>0, <2>1 DEF Positions, Outside
  <2>3. saw.amount \in Nat \ {0}
    BY <1>0, <2>1, <2>2 DEF BidDraft, After
  <2>4. UpsertRefused(-saw.amount)
    BY <2>3 DEF UpsertRefused
  <2>5. QED
    BY <1>0, <1>7, <2>1, <2>4, DiscardDraft DEF ReturnQuota
<1>8. CASE ReleaseFails(p)
  BY <1>0, <1>8, DiscardDraft DEF ReleaseFails, At
<1>9. CASE RecordBid(p)
  <2>1. \E locks : Stated(p, "standing", saw, locks, Recorded(k))
    BY <1>0, <1>9, ExecDoes DEF RecordBid, Recorded
  <2>2. tx[p].open /\ k.op = "bid" /\ req[p].at = "record" /\ ~tx[p].failed
    BY <1>9, <2>1 DEF RecordBid, At, Stated
  <2>3. tx[p].wrote = NoRows /\ o.winner = Nobody
    BY <1>0, <2>2, BidWrote
  <2>4. tx'[p].wrote = Recorded(k)
    BY <2>1, <2>3, FirstWrites DEF Stated, Recorded, CreateBid
  <2>5. Bid(k.id) \notin DOMAIN db
    BY <1>9, SeeAll DEF RecordBid, IsNew
  <2>6. QED
    BY <1>0, <2>1, <2>2, <2>3, <2>4, <2>5, BidKnown, OwnDraft DEF Stated, BidDraft, HeldRow
<1>10. CASE UpdateStanding(p)
  <2>1. \E locks : Stated(p, "logBid", saw, locks,
                          UpdateAuctionBid(See(p), k.auction, k.guild, k.amount))
    BY <1>0, <1>10, ExecDoes DEF UpdateStanding
  <2>2. tx[p].open /\ k.op = "bid" /\ req[p].at = "standing" /\ ~tx[p].failed
    BY <1>10, <2>1 DEF UpdateStanding, At, Stated
  <2>3. tx[p].wrote = Recorded(k) /\ o.winner = Nobody /\ Bid(k.id) \notin DOMAIN db
    BY <1>0, <2>2, BidWrote
  <2>4. Auction(k.auction) \in DOMAIN db /\ Auction(k.auction) \notin DOMAIN Recorded(k)
    BY <1>0, <2>2, BidKnown, BidOf, Names DEF HeldRow, Of
  <2>5. See(p)[Auction(k.auction)] = o
    BY <2>3, <2>4, SeeBeyond
  <2>6. tx'[p].wrote = Leading(db, k)
    BY <2>1, <2>3, <2>5 DEF Stated, Leading, UpdateAuctionBid
  <2>7. QED
    BY <1>0, <2>1, <2>2, <2>3, <2>6, BidKnown, OwnDraft DEF Stated, BidDraft, HeldRow
<1>11. CASE LogReserve(p)
  <2>1. \E locks : Stated(p, "count", saw, locks,
                          LogWalletTransaction(<<k.id, 1>>, k.guild, "reserve", -k.amount))
    BY <1>0, <1>11, ExecDoes DEF LogReserve
  <2>2. tx[p].open /\ k.op = "bid" /\ req[p].at = "logBid" /\ ~tx[p].failed
    BY <1>11, <2>1 DEF LogReserve, At, Stated
  <2>3. tx[p].wrote = Leading(db, k) /\ o.winner = Nobody /\ Bid(k.id) \notin DOMAIN db
    BY <1>0, <2>2, BidWrote
  <2>4. tx'[p].wrote = Staked(db, k)
    BY <2>1, <2>3 DEF Stated, Staked
  <2>5. Log(<<k.id, 1>>) \notin DOMAIN db
    BY <1>11, SeeAll DEF LogReserve, IsNew
  <2>6. QED
    BY <1>0, <2>1, <2>2, <2>3, <2>4, <2>5, BidKnown, OwnDraft DEF Stated, BidDraft, HeldRow
<1>12. CASE CountBid(p)
  <2>1. \E locks : Stated(p, "commit", saw, locks, UpsertDailyPurchase(See(p), k.guild, k.amount))
    BY <1>0, <1>12, ExecDoes DEF CountBid
  <2>2. tx[p].open /\ k.op = "bid" /\ req[p].at = "count" /\ ~tx[p].failed
    BY <1>12, <2>1 DEF CountBid, At, Stated
  <2>3. /\ tx[p].wrote = Staked(db, k) /\ o.winner = Nobody /\ Bid(k.id) \notin DOMAIN db
        /\ Log(<<k.id, 1>>) \notin DOMAIN db
    BY <1>0, <2>2, BidWrote
  <2>4. Daily(k.guild) \notin DOMAIN Staked(db, k)
    BY BidOf, Names DEF Of
  <2>5. GetDailySpent(See(p), k.guild) = GetDailySpent(db, k.guild)
    BY <2>3, <2>4, SeeBeyond, SeeAll DEF GetDailySpent
  <2>6. tx'[p].wrote = Placed(db, k)
    BY <2>1, <2>3, <2>5 DEF Stated, Placed, UpsertDailyPurchase
  <2>7. QED
    BY <1>0, <2>1, <2>2, <2>3, <2>6, BidKnown, OwnDraft DEF Stated, BidDraft, HeldRow
<1>13. QED
  BY <1>1, <1>2, <1>3, <1>4, <1>5, <1>6, <1>7, <1>8, <1>9, <1>10, <1>11, <1>12 DEF Bidding

\* A closing
LEMMA CloseOf ==
    \A t, k, o : /\ Of(Restored(t, o), {"item"}) /\ Of(HandedOver(t, o), {"item"})
                 /\ Of(Settled(t, o), {"item", "guild"})
<1> TAKE t, k, o
<1>1. Of(Restored(t, o), {"item"})
  BY OneRowOf, Names DEF Restored, UpdateItemStatus
<1>2. Of(HandedOver(t, o), {"item"})
  BY OneRowOf, Names DEF HandedOver, TransferItemOwnership
<1>3. Of(UpdateGuildBalance(t, o.seller, o.high), {"item", "guild"})
  BY OneRowOf, Names DEF UpdateGuildBalance
<1>4. Of(Settled(t, o), {"item", "guild"})
  BY <1>2, <1>3, LaidOf, MoreOf DEF Settled
<1>5. QED
  BY <1>1, <1>2, <1>4

\* What is known of a closing at its next statement
LEMMA CloseKnown ==
    ASSUME NEW p \in Procs, CloseDraft(db, req[p], tx[p]), tx[p].open, req[p].ask.op = "close",
           req[p].at # "first"
    PROVE  LET k == req[p].ask  o == req[p].saw IN
           /\ HeldRow(db, tx[p], Auction(k.auction)) /\ db[Auction(k.auction)] = o
           /\ o.status = "active"
           /\ req[p].at \in {"restore", "cancel"} => o.high = 0
           /\ req[p].at \in {"handOver", "proceeds", "end"} => o.high # 0
           /\ req[p].at \in {"proceeds", "end"} => Guild(o.winner) \in DOMAIN db
           /\ req[p].at \in {"restore", "handOver"} => tx[p].wrote = NoRows
           /\ req[p].at = "cancel" => tx[p].wrote = Restored(db, o)
           /\ req[p].at = "proceeds" => tx[p].wrote = HandedOver(db, o)
           /\ req[p].at = "end" => tx[p].wrote = Settled(db, o)
BY DEF CloseDraft, After

LEMMA SoundAuction ==
    \A t, a : Sound(t) /\ Auction(a) \in DOMAIN t =>
      /\ Item(t[Auction(a)].item) \in DOMAIN t /\ Guild(t[Auction(a)].seller) \in DOMAIN t
      /\ t[Auction(a)].winner # Nobody => Guild(t[Auction(a)].winner) \in DOMAIN t
      /\ AuctionColumns(t[Auction(a)])
<1> SUFFICES ASSUME NEW t, NEW a, Sound(t), Auction(a) \in DOMAIN t
             PROVE  /\ Item(t[Auction(a)].item) \in DOMAIN t /\ Guild(t[Auction(a)].seller) \in DOMAIN t
                    /\ t[Auction(a)].winner # Nobody => Guild(t[Auction(a)].winner) \in DOMAIN t
                    /\ AuctionColumns(t[Auction(a)])
  OBVIOUS
<1>1. AuctionColumns(t[Auction(a)])
  BY Names DEF Sound, Typed
<1>2. /\ Item(t[Auction(a)].item) \in DOMAIN t /\ Guild(t[Auction(a)].seller) \in DOMAIN t
      /\ t[Auction(a)].winner # Nobody => Guild(t[Auction(a)].winner) \in DOMAIN t
  BY KeysAreNames DEF Sound, Referential
<1>3. QED
  BY <1>1, <1>2

LEMMA ClosingDraft ==
    ASSUME NEW p \in Procs, Guarded, Sound(db), Draft(db, req[p], tx[p]), Closing(p)
    PROVE  Draft(db', req'[p], tx'[p])
<1> DEFINE k == req[p].ask
           o == req[p].saw
           row == db[Auction(k.auction)]
           entry == {<<ActiveEntry(o.item), "write">>}
<1>0. Shapes /\ Positions /\ CloseDraft(db, req[p], tx[p])
  BY DEF Guarded, Draft
<1>1. CASE LockToClose(p)
  <2> DEFINE next == IF row.high = 0 THEN "restore" ELSE "handOver"
  <2>1. See(p) = db /\ tx[p].wrote = NoRows
    BY <1>0, <1>1, SeeCommitted DEF LockToClose, At, Positions
  <2>2. CASE Auction(k.auction) \in DOMAIN db /\ row.status = "active"
    <3>1. Stated(p, next, row, ForUpdate(Auction(k.auction)), NoRows)
      BY <1>0, <1>1, <2>1, <2>2, StatementDoes DEF LockToClose, GetAuction
    <3>2. tx'[p].wrote = NoRows
      BY <2>1, <3>1, WritesNone DEF Stated
    <3>3. QED
      BY <1>1, <2>2, <3>1, <3>2, OwnDraft
      DEF LockToClose, At, Stated, CloseDraft, HeldRow, ForUpdate
  <2>3. CASE ~(Auction(k.auction) \in DOMAIN db /\ row.status = "active")
    BY <1>0, <1>1, <2>1, <2>3, ReturnDrops DEF LockToClose, GetAuction
  <2>4. QED
    BY <2>2, <2>3
<1>2. CASE RestoreItem(p)
  <2>1. Stated(p, "cancel", o, {}, UpdateItemStatus(See(p), o.item, "available"))
    BY <1>0, <1>2, ExecDoes DEF RestoreItem
  <2>2. tx[p].open /\ k.op = "close" /\ req[p].at = "restore"
    BY <1>2, <2>1 DEF RestoreItem, At, Stated
  <2>3. tx[p].wrote = NoRows /\ o.high = 0
    BY <1>0, <2>2, CloseKnown
  <2>4. See(p) = db
    BY <1>0, <2>3, SeeTables
  <2>5. tx'[p].wrote = Restored(db, o)
    BY <2>1, <2>3, <2>4, FirstWrites DEF Stated, Restored, UpdateItemStatus
  <2>6. QED
    BY <1>0, <2>1, <2>2, <2>3, <2>5, CloseKnown, OwnDraft DEF Stated, CloseDraft, HeldRow
<1>3. CASE HandOver(p)
  <2>1. Stated(p, "proceeds", o, References({Guild(o.winner)}),
               TransferItemOwnership(See(p), o.item, o.winner, "sold"))
    BY <1>0, <1>3, ExecDoes DEF HandOver
  <2>2. tx[p].open /\ k.op = "close" /\ req[p].at = "handOver"
    BY <1>3, <2>1 DEF HandOver, At, Stated
  <2>3. tx[p].wrote = NoRows /\ o.high # 0
    BY <1>0, <2>2, CloseKnown
  <2>4. See(p) = db
    BY <1>0, <2>3, SeeTables
  <2>5. tx'[p].wrote = HandedOver(db, o)
    BY <2>1, <2>3, <2>4, FirstWrites DEF Stated, HandedOver, TransferItemOwnership
  <2>6. Guild(o.winner) \in DOMAIN db
    <3>1. <<Guild(o.winner), "share">> \in References({Guild(o.winner)})
      BY DEF References
    <3>2. Found(db, References({Guild(o.winner)}))
      BY <2>1, <2>4 DEF Stated
    <3>3. QED
      BY <3>1, <3>2 DEF Found
  <2>7. QED
    BY <1>0, <2>1, <2>2, <2>3, <2>5, <2>6, CloseKnown, OwnDraft DEF Stated, CloseDraft, HeldRow
<1>4. CASE PayProceeds(p)
  <2>1. Stated(p, "end", o, {}, UpdateGuildBalance(See(p), o.seller, o.high))
    BY <1>0, <1>4, ExecDoes DEF PayProceeds, ChangeBalance
  <2>2. tx[p].open /\ k.op = "close" /\ req[p].at = "proceeds"
    BY <1>4, <2>1 DEF PayProceeds, At, Stated
  <2>3. tx[p].wrote = HandedOver(db, o) /\ o.high # 0 /\ Guild(o.winner) \in DOMAIN db
    BY <1>0, <2>2, CloseKnown
  <2>4. Guild(o.seller) \in DOMAIN db
    <3>1. Auction(k.auction) \in DOMAIN db /\ row = o
      BY <1>0, <2>2, CloseKnown DEF HeldRow
    <3>2. Guild(row.seller) \in DOMAIN db
      BY <3>1, SoundAuction
    <3>3. QED
      BY <3>1, <3>2
  <2>5. Guild(o.seller) \notin DOMAIN HandedOver(db, o)
    BY CloseOf, Names DEF Of
  <2>6. See(p)[Guild(o.seller)] = db[Guild(o.seller)]
    BY <2>3, <2>4, <2>5, SeeBeyond
  <2>7. tx'[p].wrote = Settled(db, o)
    BY <2>1, <2>3, <2>6 DEF Stated, Settled, UpdateGuildBalance
  <2>8. QED
    BY <1>0, <2>1, <2>2, <2>3, <2>7, CloseKnown, OwnDraft DEF Stated, CloseDraft, HeldRow
<1>5. CASE CancelUnsold(p)
  <2>1. Stated(p, "commit", o, entry, CloseAuction(See(p), k.auction, "cancelled", Nobody))
    BY <1>0, <1>5, ExecDoes DEF CancelUnsold, CloseRow
  <2>2. tx[p].open /\ k.op = "close" /\ req[p].at = "cancel"
    BY <1>5, <2>1 DEF CancelUnsold, CloseRow, At, Stated
  <2>3. /\ tx[p].wrote = Restored(db, o) /\ o.high = 0 /\ Auction(k.auction) \in DOMAIN db
        /\ row = o
    BY <1>0, <2>2, CloseKnown DEF HeldRow
  <2>4. Auction(k.auction) \notin DOMAIN Restored(db, o)
    BY CloseOf, Names DEF Of
  <2>5. See(p)[Auction(k.auction)] = row
    BY <2>3, <2>4, SeeBeyond
  <2>6. tx'[p].wrote = Unsold(db, k, o)
    BY <2>1, <2>3, <2>5 DEF Stated, Unsold, CloseAuction
  <2>7. QED
    BY <1>0, <2>1, <2>2, <2>3, <2>6, CloseKnown, OwnDraft DEF Stated, CloseDraft, HeldRow
<1>6. CASE EndSold(p)
  <2>1. Stated(p, "commit", o, entry, CloseAuction(See(p), k.auction, "ended", o.winner))
    BY <1>0, <1>6, ExecDoes DEF EndSold, CloseRow
  <2>2. tx[p].open /\ k.op = "close" /\ req[p].at = "end"
    BY <1>6, <2>1 DEF EndSold, CloseRow, At, Stated
  <2>3. /\ tx[p].wrote = Settled(db, o) /\ o.high # 0 /\ Auction(k.auction) \in DOMAIN db
        /\ row = o /\ Guild(o.winner) \in DOMAIN db
    BY <1>0, <2>2, CloseKnown DEF HeldRow
  <2>4. Auction(k.auction) \notin DOMAIN Settled(db, o)
    BY CloseOf, Names DEF Of
  <2>5. See(p)[Auction(k.auction)] = row
    BY <2>3, <2>4, SeeBeyond
  <2>6. tx'[p].wrote = Sold(db, k, o)
    BY <2>1, <2>3, <2>5 DEF Stated, Sold, CloseAuction
  <2>7. QED
    BY <1>0, <2>1, <2>2, <2>3, <2>6, CloseKnown, OwnDraft DEF Stated, CloseDraft, HeldRow
<1>7. QED
  BY <1>1, <1>2, <1>3, <1>4, <1>5, <1>6 DEF Closing

-----------------------------------------------------------------------------
(* What commits is lawful, row by row.                                     *)

LEMMA NothingLawful == \A t, h : Sound(t) => Lawful(t, NoRows, h)
<1> SUFFICES ASSUME NEW t, NEW h, Sound(t) PROVE Lawful(t, NoRows, h)
  OBVIOUS
<1>1. Write(t, NoRows) = t
  BY WriteNothing DEF Sound, Typed, Table
<1>2. DOMAIN NoRows = {}
  BY DEF NoRows
<1>3. QED
  BY <1>1, <1>2 DEF Lawful

\* Row r with value v, which a transaction with locks h lays over t
Allowed(t, r, v, h) ==
    /\ r[1] = "daily" => <<Guild(r[2]), "update">> \in h
    /\ r[1] = "bid" => r \notin DOMAIN t /\ <<Guild(v.bidder), "update">> \in h
    /\ r[1] = "auction" /\ v.status = "active" =>
         \/ r[2] \in ActiveAuctions(t) /\ v.item = t[r].item
         \/ <<ActiveEntry(v.item), "write">> \in h
    /\ r[1] = "auction" /\ r \in DOMAIN t => GoesOn(t[r], v)
    /\ r[1] = "item" /\ r \in DOMAIN t => v.kind = t[r].kind

LEMMA NextRowLawful ==
    ASSUME NEW t, NEW w, NEW h, Lawful(t, w, h), NEW r, NEW v, RowFits(Write(t, w), r, v),
           Allowed(t, r, v, h)
    PROVE  Lawful(t, Write(w, OneRow(r, v)), h)
<1> DEFINE u == Write(w, OneRow(r, v))
<1>1. Sound(Write(t, u))
  BY NextRowKeepsSound DEF Lawful
<1>2. \A n : n \in DOMAIN u => n \in DOMAIN w \/ n = r
  BY PutHas
<1>3. u[r] = v
  BY PutRow
<1>4. \A n : n \in DOMAIN w /\ n # r => u[n] = w[n]
  BY PutOthers
<1> HIDE DEF u
<1>5. ASSUME NEW g, Daily(g) \in DOMAIN u PROVE <<Guild(g), "update">> \in h
  BY <1>2, <1>5, Names DEF Lawful, Allowed
<1>6. ASSUME NEW b, Bid(b) \in DOMAIN u
      PROVE  Bid(b) \notin DOMAIN t /\ <<Guild(u[Bid(b)].bidder), "update">> \in h
  BY <1>2, <1>3, <1>4, <1>6, Names DEF Lawful, Allowed
<1>7. ASSUME NEW a, Auction(a) \in DOMAIN u, u[Auction(a)].status = "active"
      PROVE  \/ a \in ActiveAuctions(t) /\ u[Auction(a)].item = t[Auction(a)].item
             \/ <<ActiveEntry(u[Auction(a)].item), "write">> \in h
  BY <1>2, <1>3, <1>4, <1>7, Names DEF Lawful, Allowed
<1>8. ASSUME NEW i, Item(i) \in DOMAIN u, Item(i) \in DOMAIN t
      PROVE  u[Item(i)].kind = t[Item(i)].kind
  BY <1>2, <1>3, <1>4, <1>8, Names DEF Lawful, Allowed
<1>9. ASSUME NEW a, Auction(a) \in DOMAIN u, Auction(a) \in DOMAIN t
      PROVE  GoesOn(t[Auction(a)], u[Auction(a)])
  BY <1>2, <1>3, <1>4, <1>9, Names DEF Lawful, Allowed
<1>10. QED
  BY <1>1, <1>5, <1>6, <1>7, <1>8, <1>9 DEF Lawful, u

\* The rows there are
LEMMA GuildRow == \A t, g : Sound(t) /\ Guild(g) \in DOMAIN t => GuildColumns(t[Guild(g)])
BY Names DEF Sound, Typed

\* A log entry
LEMMA LogLawful ==
    ASSUME NEW t, NEW w, NEW h, Lawful(t, w, h), NEW k, NEW g, Guild(g) \in DOMAIN t,
           NEW type, NEW x \in Int
    PROVE  Lawful(t, Write(w, LogWalletTransaction(k, g, type, x)), h)
<1> DEFINE v == [guild |-> g, type |-> type, amount |-> x]
<1>4. LogColumns(v)
  BY DEF LogColumns
<1>6. v.guild = g /\ Guild(g) \in DOMAIN Write(t, w)
  BY LaidHas
<1> HIDE DEF v
<1>1. RowFits(Write(t, w), Log(k), v)
  BY <1>4, <1>6, Names, NamesArePairs DEF RowFits
<1>2. Allowed(t, Log(k), v, h)
  BY Names DEF Allowed
<1>3. Lawful(t, Write(w, OneRow(Log(k), v)), h)
  BY <1>1, <1>2, NextRowLawful
<1>5. QED
  BY <1>3 DEF LogWalletTransaction, v

\* A balance
LEMMA BalanceLawful ==
    ASSUME NEW t, Sound(t), NEW w, NEW h, Lawful(t, w, h), NEW g, Guild(g) \in DOMAIN t, NEW x,
           t[Guild(g)].gold + x \in Nat
    PROVE  Lawful(t, Write(w, UpdateGuildBalance(t, g, x)), h)
<1> DEFINE v == [t[Guild(g)] EXCEPT !.gold = @ + x]
<1>1. GuildColumns(v)
  BY GuildRow DEF GuildColumns
<1> HIDE DEF v
<1>2. RowFits(Write(t, w), Guild(g), v)
  BY <1>1, Names, NamesArePairs DEF RowFits
<1>3. Allowed(t, Guild(g), v, h)
  BY Names DEF Allowed
<1>4. Lawful(t, Write(w, OneRow(Guild(g), v)), h)
  BY <1>2, <1>3, NextRowLawful
<1>5. QED
  BY <1>4 DEF UpdateGuildBalance, v

\* An item that changes hands, or only its status
LEMMA ItemLawful ==
    ASSUME NEW t, Sound(t), NEW w, NEW h, Lawful(t, w, h), NEW i, Item(i) \in DOMAIN t,
           NEW v, ItemColumns(v), Guild(v.owner) \in DOMAIN t, v.kind = t[Item(i)].kind
    PROVE  Lawful(t, Write(w, OneRow(Item(i), v)), h)
<1>1. Guild(v.owner) \in DOMAIN Write(t, w)
  BY LaidHas
<1>2. RowFits(Write(t, w), Item(i), v)
  BY <1>1, Names, NamesArePairs DEF RowFits
<1>3. Allowed(t, Item(i), v, h)
  BY Names DEF Allowed
<1>4. QED
  BY <1>2, <1>3, NextRowLawful

LEMMA TransferLawful ==
    ASSUME NEW t, Sound(t), NEW w, NEW h, Lawful(t, w, h), NEW i, Item(i) \in DOMAIN t,
           NEW g, Guild(g) \in DOMAIN t, NEW status
    PROVE  Lawful(t, Write(w, TransferItemOwnership(t, i, g, status)), h)
<1> DEFINE v == [t[Item(i)] EXCEPT !.owner = g, !.status = status]
<1>1. ItemColumns(t[Item(i)])
  BY SoundOwner
<1>2. ItemColumns(v) /\ v.owner = g /\ v.kind = t[Item(i)].kind
  BY <1>1 DEF ItemColumns
<1> HIDE DEF v
<1>3. Lawful(t, Write(w, OneRow(Item(i), v)), h)
  BY <1>2, ItemLawful
<1>4. QED
  BY <1>3 DEF TransferItemOwnership, v

LEMMA StatusLawful ==
    ASSUME NEW t, Sound(t), NEW w, NEW h, Lawful(t, w, h), NEW i, Item(i) \in DOMAIN t, NEW status
    PROVE  Lawful(t, Write(w, UpdateItemStatus(t, i, status)), h)
<1> DEFINE v == [t[Item(i)] EXCEPT !.status = status]
<1>1. ItemColumns(t[Item(i)]) /\ Guild(t[Item(i)].owner) \in DOMAIN t
  BY SoundOwner
<1>2. ItemColumns(v) /\ v.owner = t[Item(i)].owner /\ v.kind = t[Item(i)].kind
  BY <1>1 DEF ItemColumns
<1> HIDE DEF v
<1>3. Lawful(t, Write(w, OneRow(Item(i), v)), h)
  BY <1>1, <1>2, ItemLawful
<1>4. QED
  BY <1>3 DEF UpdateItemStatus, v

\* Quota that is spent
LEMMA QuotaLawful ==
    ASSUME NEW t, NEW w, NEW h, Lawful(t, w, h), NEW g, Guild(g) \in DOMAIN t,
           <<Guild(g), "update">> \in h, NEW x,
           GetDailySpent(t, g) + x \in Nat
    PROVE  Lawful(t, Write(w, UpsertDailyPurchase(t, g, x)), h)
<1> DEFINE v == GetDailySpent(t, g) + x
<1>1. v \in Nat
  OBVIOUS
<1> HIDE DEF v
<1>6. Guild(g) \in DOMAIN Write(t, w)
  BY LaidHas
<1>2. RowFits(Write(t, w), Daily(g), v)
  BY <1>1, <1>6, Names, NamesArePairs DEF RowFits
<1>3. Allowed(t, Daily(g), v, h)
  BY Names DEF Allowed
<1>4. Lawful(t, Write(w, OneRow(Daily(g), v)), h)
  BY <1>2, <1>3, NextRowLawful
<1>5. QED
  BY <1>4 DEF UpsertDailyPurchase, v

\* An auction that is closed: sold to its leader, or to nobody
LEMMA CloseRowLawful ==
    ASSUME NEW t, Sound(t), NEW w, NEW h, Lawful(t, w, h), NEW a, Auction(a) \in DOMAIN t,
           NEW status, status # "active", NEW winner,
           winner = t[Auction(a)].winner \/ (winner = Nobody /\ t[Auction(a)].high = 0)
    PROVE  Lawful(t, Write(w, CloseAuction(t, a, status, winner)), h)
<1> DEFINE v == [t[Auction(a)] EXCEPT !.status = status, !.winner = winner]
<1>1. /\ AuctionColumns(t[Auction(a)]) /\ Item(t[Auction(a)].item) \in DOMAIN t
      /\ Guild(t[Auction(a)].seller) \in DOMAIN t
      /\ t[Auction(a)].winner # Nobody => Guild(t[Auction(a)].winner) \in DOMAIN t
  BY SoundAuction
<1>2. /\ AuctionColumns(v) /\ v.item = t[Auction(a)].item /\ v.seller = t[Auction(a)].seller
      /\ v.status # "active" /\ v.winner = winner /\ v.high = t[Auction(a)].high
      /\ GoesOn(t[Auction(a)], v)
  BY <1>1 DEF AuctionColumns, GoesOn
<1> HIDE DEF v
<1>8. IF v.winner = Nobody THEN v.high = 0
      ELSE \E b \in GetActiveBidByBidder(Write(t, w), a, v.winner) :
             Write(t, w)[Bid(b)].amount = v.high
  <2>1. a \in Keys(t, "auction")
    BY KeysAreNames DEF Sound
  <2>2. CASE v.winner = Nobody
    BY <1>2, <2>1, <2>2 DEF Sound, Led
  <2>3. CASE v.winner # Nobody
    <3>1. PICK b \in GetActiveBidByBidder(t, a, v.winner) : t[Bid(b)].amount = v.high
      BY <1>2, <2>1, <2>3 DEF Sound, Led
    <3>2. Bid(b) \in DOMAIN t
      BY <3>1, ActiveBid DEF Sound
    <3>3. Write(t, w)[Bid(b)] = t[Bid(b)] /\ Bid(b) \in DOMAIN Write(t, w)
      BY <3>2, LaidUnder, LaidHas DEF Lawful
    <3>4. b \in GetActiveBidByBidder(Write(t, w), a, v.winner)
      BY <3>1, <3>2, <3>3, ActiveBid DEF Sound, Lawful
    <3>5. QED
      BY <2>3, <3>1, <3>3, <3>4
  <2>4. QED
    BY <2>2, <2>3
<1>3. /\ Item(v.item) \in DOMAIN Write(t, w) /\ Guild(v.seller) \in DOMAIN Write(t, w)
      /\ v.winner # Nobody => Guild(v.winner) \in DOMAIN Write(t, w)
  BY <1>1, <1>2, LaidHas
<1>4. RowFits(Write(t, w), Auction(a), v)
  BY <1>2, <1>3, <1>8, Names, NamesArePairs DEF RowFits
<1>5. Allowed(t, Auction(a), v, h)
  BY <1>2, Names DEF Allowed
<1>6. Lawful(t, Write(w, OneRow(Auction(a), v)), h)
  BY <1>4, <1>5, NextRowLawful
<1>7. QED
  BY <1>6 DEF CloseAuction, v


\* What each request commits
LEMMA DepositLawful ==
    ASSUME NEW t, Sound(t), NEW k, Guild(k.guild) \in DOMAIN t, k.amount \in Int,
           t[Guild(k.guild)].gold + k.amount >= 0, NEW h
    PROVE  Lawful(t, Deposited(t, k), h)
<1>1. t[Guild(k.guild)].gold + k.amount \in Nat
  BY GuildRow DEF GuildColumns
<1>2. Lawful(t, Write(NoRows, UpdateGuildBalance(t, k.guild, k.amount)), h)
  BY <1>1, NothingLawful, BalanceLawful
<1>3. Lawful(t, Credited(t, k), h)
  BY <1>2, FirstWrites DEF Credited, UpdateGuildBalance
<1>4. QED
  BY <1>3, LogLawful DEF Deposited

LEMMA ListLawful ==
    ASSUME NEW t, Sound(t), NEW k, Item(k.item) \in DOMAIN t, NEW h
    PROVE  Lawful(t, Exposed(t, k), h)
<1>1. Lawful(t, Write(NoRows, UpdateItemStatus(t, k.item, "available")), h)
  BY NothingLawful, StatusLawful
<1>2. QED
  BY <1>1, FirstWrites DEF Exposed, UpdateItemStatus

LEMMA BuyLawful ==
    ASSUME NEW t, Sound(t), NEW k, NEW o, NEW h, Item(k.item) \in DOMAIN t, t[Item(k.item)] = o,
           Guild(k.guild) \in DOMAIN t, <<Guild(k.guild), "update">> \in h,
           t[Guild(k.guild)].gold >= o.price
    PROVE  Lawful(t, Bought(t, k, o), h)
<1>1. o.price \in Nat /\ Guild(o.owner) \in DOMAIN t
  BY SoundOwner
<1>2. t[Guild(k.guild)].gold \in Nat /\ t[Guild(o.owner)].gold \in Nat
  BY <1>1, GuildRow DEF GuildColumns
<1>3. Lawful(t, Charged(t, k, o), h)
  <2>1. t[Guild(k.guild)].gold + (-o.price) \in Nat
    BY <1>1, <1>2
  <2>2. Lawful(t, Write(NoRows, UpdateGuildBalance(t, k.guild, -o.price)), h)
    BY <2>1, NothingLawful, BalanceLawful
  <2>3. QED
    BY <2>2, FirstWrites DEF Charged, UpdateGuildBalance
<1>4. Lawful(t, Paid(t, k, o), h)
  <2>1. t[Guild(o.owner)].gold + o.price \in Nat
    BY <1>1, <1>2
  <2>2. QED
    BY <1>1, <1>3, <2>1, BalanceLawful DEF Paid
<1>5. Lawful(t, Moved(t, k, o), h)
  BY <1>4, TransferLawful DEF Moved
<1>6. GetDailySpent(t, k.guild) + o.price \in Nat
  BY <1>1, Names DEF GetDailySpent, Sound, Typed
<1>7. Lawful(t, Counted(t, k, o), h)
  BY <1>5, <1>6, QuotaLawful DEF Counted
<1>8. Lawful(t, Noted(t, k, o), h)
  BY <1>1, <1>7, LogLawful DEF Noted
<1>9. QED
  BY <1>1, <1>8, LogLawful DEF Bought

LEMMA StartLawful ==
    ASSUME NEW t, Sound(t), NEW k, NEW h, Item(k.item) \in DOMAIN t, Guild(k.guild) \in DOMAIN t,
           Auction(k.id) \notin DOMAIN t, k.amount \in Int, <<ActiveEntry(k.item), "write">> \in h
    PROVE  Lawful(t, CreateAuction(k.id, k.item, k.guild, k.amount), h)
<1> DEFINE v == [status |-> "active", item |-> k.item, seller |-> k.guild, start |-> k.amount,
                 high |-> 0, winner |-> Nobody]
<1>1. /\ AuctionColumns(v) /\ v.item = k.item /\ v.seller = k.guild /\ v.winner = Nobody
      /\ v.high = 0
  BY DEF AuctionColumns
<1> HIDE DEF v
<1>2. Write(t, NoRows) = t
  BY WriteNothing DEF Sound, Typed, Table
<1>3. RowFits(t, Auction(k.id), v)
  BY <1>1, Names, NamesArePairs DEF RowFits
<1>4. Allowed(t, Auction(k.id), v, h)
  BY <1>1, Names DEF Allowed
<1>5. Lawful(t, Write(NoRows, OneRow(Auction(k.id), v)), h)
  BY <1>2, <1>3, <1>4, NothingLawful, NextRowLawful
<1>6. QED
  BY <1>5, FirstWrites DEF CreateAuction, v

\* The first bid of an auction
LEMMA BidLawful ==
    ASSUME NEW t, Sound(t), NEW k, NEW h, Auction(k.auction) \in DOMAIN t,
           t[Auction(k.auction)].status = "active", Bid(k.id) \notin DOMAIN t, k.amount \in Nat \ {0},
           <<Guild(k.guild), "update">> \in h, Guild(k.guild) \in DOMAIN t, k.guild # Nobody
    PROVE  Lawful(t, Placed(t, k), h)
<1>1. Lawful(t, Recorded(k), h)
  <2> DEFINE v == [auction |-> k.auction, bidder |-> k.guild, amount |-> k.amount, active |-> TRUE]
  <2>1. BidColumns(v) /\ v.bidder = k.guild /\ v.auction = k.auction
    BY DEF BidColumns
  <2> HIDE DEF v
  <2>2. Write(t, NoRows) = t
    BY WriteNothing DEF Sound, Typed, Table
  <2>3. RowFits(t, Bid(k.id), v)
    BY <2>1, Names, NamesArePairs DEF RowFits
  <2>4. Allowed(t, Bid(k.id), v, h)
    BY <2>1, Names DEF Allowed
  <2>5. Lawful(t, Write(NoRows, OneRow(Bid(k.id), v)), h)
    BY <2>2, <2>3, <2>4, NothingLawful, NextRowLawful
  <2>6. QED
    BY <2>5, FirstWrites DEF Recorded, CreateBid, v
<1>2. Lawful(t, Leading(t, k), h)
  <2> DEFINE v == [t[Auction(k.auction)] EXCEPT !.high = k.amount, !.winner = k.guild]
             u == Write(t, Recorded(k))
  <2>1. /\ AuctionColumns(t[Auction(k.auction)]) /\ Item(t[Auction(k.auction)].item) \in DOMAIN t
        /\ Guild(t[Auction(k.auction)].seller) \in DOMAIN t
    BY SoundAuction
  <2>2. /\ AuctionColumns(v) /\ v.item = t[Auction(k.auction)].item
        /\ v.seller = t[Auction(k.auction)].seller /\ v.winner = k.guild /\ v.high = k.amount
        /\ v.status = "active" /\ GoesOn(t[Auction(k.auction)], v)
    BY <2>1 DEF AuctionColumns, GoesOn
  <2> HIDE DEF v
  <2>3. Item(v.item) \in DOMAIN u /\ Guild(v.seller) \in DOMAIN u /\ Guild(v.winner) \in DOMAIN u
    BY <2>1, <2>2, LaidHas
  <2>4. Sound(u)
    BY <1>1 DEF Lawful
  <2>5. /\ Bid(k.id) \in DOMAIN u
        /\ u[Bid(k.id)] = [auction |-> k.auction, bidder |-> k.guild, amount |-> k.amount,
                           active |-> TRUE]
    BY PutRow, PutHas DEF Recorded, CreateBid
  <2> HIDE DEF u
  <2>6. k.id \in GetActiveBidByBidder(u, k.auction, k.guild) /\ u[Bid(k.id)].amount = k.amount
    BY <2>4, <2>5, ActiveBid DEF Sound
  <2>7. RowFits(u, Auction(k.auction), v)
    BY <2>2, <2>3, <2>6, Names, NamesArePairs DEF RowFits
  <2>8. k.auction \in ActiveAuctions(t)
    BY KeysAreNames DEF ActiveAuctions, Sound
  <2>9. Allowed(t, Auction(k.auction), v, h)
    BY <2>2, <2>8, Names DEF Allowed
  <2>10. Lawful(t, Write(Recorded(k), OneRow(Auction(k.auction), v)), h)
    BY <1>1, <2>7, <2>9, NextRowLawful DEF u
  <2>11. QED
    BY <2>10 DEF Leading, UpdateAuctionBid, v
<1>3. Lawful(t, Staked(t, k), h)
  BY <1>2, LogLawful DEF Staked
<1>4. GetDailySpent(t, k.guild) + k.amount \in Nat
  BY Names DEF GetDailySpent, Sound, Typed
<1>5. QED
  BY <1>3, <1>4, QuotaLawful DEF Placed

LEMMA CloseLawful ==
    ASSUME NEW t, Sound(t), NEW k, NEW o, NEW h, Auction(k.auction) \in DOMAIN t,
           t[Auction(k.auction)] = o
    PROVE  /\ o.high = 0 => Lawful(t, Unsold(t, k, o), h)
           /\ Guild(o.winner) \in DOMAIN t => Lawful(t, Sold(t, k, o), h)
<1>1. Item(o.item) \in DOMAIN t /\ Guild(o.seller) \in DOMAIN t /\ o.high \in Nat
  BY SoundAuction DEF AuctionColumns
<1>2. ASSUME o.high = 0 PROVE Lawful(t, Unsold(t, k, o), h)
  <2>1. Lawful(t, Write(NoRows, UpdateItemStatus(t, o.item, "available")), h)
    BY <1>1, NothingLawful, StatusLawful
  <2>2. Lawful(t, Restored(t, o), h)
    BY <2>1, FirstWrites DEF Restored, UpdateItemStatus
  <2>3. QED
    BY <1>2, <2>2, CloseRowLawful DEF Unsold
<1>3. ASSUME Guild(o.winner) \in DOMAIN t PROVE Lawful(t, Sold(t, k, o), h)
  <2>1. Lawful(t, Write(NoRows, TransferItemOwnership(t, o.item, o.winner, "sold")), h)
    BY <1>1, <1>3, NothingLawful, TransferLawful
  <2>2. Lawful(t, HandedOver(t, o), h)
    BY <2>1, FirstWrites DEF HandedOver, TransferItemOwnership
  <2>3. t[Guild(o.seller)].gold + o.high \in Nat
    BY <1>1, GuildRow DEF GuildColumns
  <2>4. Lawful(t, Settled(t, o), h)
    BY <1>1, <2>2, <2>3, BalanceLawful DEF Settled
  <2>5. QED
    BY <2>4, CloseRowLawful DEF Sold
<1>4. QED
  BY <1>2, <1>3

LEMMA GuildLawful ==
    ASSUME NEW t, Sound(t), NEW g, NEW n, NEW limit \in Int, NEW h
    PROVE  Lawful(t, CreateGuild(g, n, limit), h)
<1> DEFINE v == [name |-> n, gold |-> 0, limit |-> limit]
<1>1. GuildColumns(v)
  BY DEF GuildColumns
<1> HIDE DEF v
<1>2. Write(t, NoRows) = t
  BY WriteNothing DEF Sound, Typed, Table
<1>3. RowFits(t, Guild(g), v)
  BY <1>1, Names, NamesArePairs DEF RowFits
<1>4. Allowed(t, Guild(g), v, h)
  BY Names DEF Allowed
<1>5. Lawful(t, Write(NoRows, OneRow(Guild(g), v)), h)
  BY <1>2, <1>3, <1>4, NothingLawful, NextRowLawful
<1>6. QED
  BY <1>5, FirstWrites DEF CreateGuild, v

LEMMA MintLawful ==
    ASSUME NEW t, Sound(t), NEW i, Item(i) \notin DOMAIN t, NEW n, NEW kind, NEW g,
           Guild(g) \in DOMAIN t, NEW h
    PROVE  Lawful(t, CreateItem(i, n, kind, g), h)
<1> DEFINE v == [name |-> n, kind |-> kind, owner |-> g, status |-> "sold", price |-> 0]
<1>1. ItemColumns(v) /\ v.owner = g
  BY DEF ItemColumns
<1> HIDE DEF v
<1>2. Write(t, NoRows) = t
  BY WriteNothing DEF Sound, Typed, Table
<1>3. RowFits(t, Item(i), v)
  BY <1>1, Names, NamesArePairs DEF RowFits
<1>4. Allowed(t, Item(i), v, h)
  BY Names DEF Allowed
<1>5. Lawful(t, Write(NoRows, OneRow(Item(i), v)), h)
  BY <1>2, <1>3, <1>4, NothingLawful, NextRowLawful
<1>6. QED
  BY <1>5, FirstWrites DEF CreateItem, v

-----------------------------------------------------------------------------
(* The invariant.                                                          *)

Drafted == /\ Guarded /\ Known /\ Sound(db)
           /\ \A p \in Procs : Draft(db, req[p], tx[p])

\* What a transaction commits is lawful.
LEMMA CommitLawful ==
    ASSUME NEW p \in Procs, Drafted, req[p].at = "commit", ~tx[p].failed
    PROVE  Lawful(db, tx[p].wrote, tx[p].held)
<1> DEFINE k == req[p].ask
           o == req[p].saw
<1>1. tx[p].open
  BY DEF Drafted, Guarded, Positions, Outside
<1>2. Running(p) /\ k \in Asks /\ Sound(db)
  BY DEF Drafted, Known, Running
<1>3. CASE k.op = "deposit"
  <2>1. /\ Guild(k.guild) \in DOMAIN db /\ tx[p].wrote = Deposited(db, k)
        /\ db[Guild(k.guild)].gold + k.amount >= 0
    BY <1>1, <1>3 DEF Drafted, Draft, DepositDraft, After, HeldRow
  <2>2. QED
    BY <1>2, <1>3, <2>1, DepositLawful, AsksAssumption
<1>4. CASE k.op = "list"
  <2>1. Item(k.item) \in DOMAIN db /\ tx[p].wrote = Exposed(db, k)
    BY <1>1, <1>4 DEF Drafted, Draft, ListDraft, After, HeldRow
  <2>2. QED
    BY <1>2, <2>1, ListLawful
<1>5. CASE k.op = "buy"
  <2>1. /\ Item(k.item) \in DOMAIN db /\ db[Item(k.item)] = o
        /\ Guild(k.guild) \in DOMAIN db /\ <<Guild(k.guild), "update">> \in tx[p].held
        /\ db[Guild(k.guild)].gold >= o.price /\ tx[p].wrote = Bought(db, k, o)
    BY <1>1, <1>5 DEF Drafted, Draft, BuyDraft, After, HeldRow
  <2>2. QED
    BY <1>2, <2>1, BuyLawful
<1>6. CASE k.op = "start"
  <2>1. /\ Item(k.item) \in DOMAIN db /\ Guild(k.guild) \in DOMAIN db
        /\ Auction(k.id) \notin DOMAIN db /\ <<ActiveEntry(k.item), "write">> \in tx[p].held
        /\ tx[p].wrote = CreateAuction(k.id, k.item, k.guild, k.amount)
    BY <1>1, <1>6 DEF Drafted, Draft, StartDraft, After
  <2>2. QED
    BY <1>2, <1>6, <2>1, StartLawful, AsksAssumption
<1>7. CASE k.op = "bid"
  <2>1. BidDraft(db, req[p], tx[p])
    BY DEF Drafted, Draft
  <2>2. /\ Auction(k.auction) \in DOMAIN db /\ db[Auction(k.auction)].status = "active"
        /\ db[Auction(k.auction)].winner # k.guild /\ <<Guild(k.guild), "update">> \in tx[p].held
        /\ Guild(k.guild) \in DOMAIN db
    BY <1>1, <1>7, <2>1, BidKnown DEF HeldRow
  <2>3. /\ db[Auction(k.auction)].winner = Nobody /\ Bid(k.id) \notin DOMAIN db
        /\ tx[p].wrote = Placed(db, k)
    BY <1>1, <1>7, <2>1, BidWrote
  <2>4. k.amount \in Nat \ {0}
    BY <1>2, <1>7, AsksAssumption DEF Drafted, Known
  <2>5. QED
    BY <1>2, <2>2, <2>3, <2>4, BidLawful
<1>8. CASE k.op = "close"
  <2>1. /\ Auction(k.auction) \in DOMAIN db /\ db[Auction(k.auction)] = o
        /\ \/ tx[p].wrote = Unsold(db, k, o) /\ o.high = 0
           \/ tx[p].wrote = Sold(db, k, o) /\ Guild(o.winner) \in DOMAIN db
    BY <1>1, <1>8 DEF Drafted, Draft, CloseDraft, After, HeldRow
  <2>2. QED
    BY <1>2, <2>1, CloseLawful
<1>9. QED
  BY <1>1, <1>3, <1>4, <1>5, <1>6, <1>7, <1>8 DEF Drafted, Draft

\* The tables stay, or p lays lawful rows over them.
Changes(p) ==
    \/ db' = db
    \/ \E w : /\ db' = Write(db, w) /\ Lawful(db, w, tx[p].held)
              /\ \A r \in DOMAIN w : <<r, "write">> \in tx[p].held \/ Free(p, <<r, "write">>)

LEMMA AutocommitChanges ==
    ASSUME NEW p \in Procs, NEW locks, NEW w, Autocommit(p, locks, w), Lawful(db, w, tx[p].held)
    PROVE  Changes(p)
<1>1. \A r \in DOMAIN w : Free(p, <<r, "write">>)
  BY DEF Autocommit, Granted, Writes
<1>2. QED
  BY <1>1 DEF Autocommit, Changes

LEMMA MintingChanges ==
    ASSUME NEW p \in Procs, Drafted, Minting(p)
    PROVE  Changes(p) /\ Draft(db', req'[p], tx'[p])
<1> DEFINE k == req[p].ask
<1>0. Shapes /\ Positions /\ Sound(db)
  BY DEF Drafted, Guarded
<1>1. CASE CreateGuildRow(p)
  <2>1. CASE NameTaken(db, k.name)
    BY <1>0, <1>1, <2>1, ReturnDrops DEF CreateGuildRow, Return, Changes
  <2>2. CASE ~NameTaken(db, k.name)
    <3>1. Autocommit(p, {}, CreateGuild(k.id, k.name, k.limit))
      BY <1>1, <2>2 DEF CreateGuildRow
    <3>2. k \in Asks /\ k.op = "createGuild"
      BY <1>1 DEF CreateGuildRow, At, Drafted, Known, Running
    <3>3. Changes(p)
      BY <1>0, <3>1, <3>2, AsksAssumption, GuildLawful, AutocommitChanges
    <3>4. QED
      BY <1>0, <3>1, <3>3, EndDrops DEF Autocommit
  <2>3. QED
    BY <2>1, <2>2
<1>2. CASE AskPrice(p) \/ GotPrice(p)
  <2>1. ~tx'[p].open
    BY <1>0, <1>2, NotOpen DEF AskPrice, GotPrice, Service, At, Goto
  <2>2. QED
    BY <1>2, <2>1, NoDraft DEF AskPrice, GotPrice, Goto, Changes
<1>3. CASE InsertItem(p)
  <2> DEFINE refused == \/ ~Found(db, References({Guild(k.guild)}))
                        \/ k.kind = "legendary" /\ LegendTaken(db, k.name)
  <2>1. CASE refused
    BY <1>0, <1>3, <2>1, ReturnDrops DEF InsertItem, Return, Changes
  <2>2. CASE ~refused
    <3>1. /\ Autocommit(p, References({Guild(k.guild)}), CreateItem(k.id, k.name, k.kind, k.guild))
          /\ Guild(k.guild) \in DOMAIN db /\ Item(k.id) \notin DOMAIN db
      BY <1>3, <2>2, OwnerFound DEF InsertItem, IsNew
    <3>2. Changes(p)
      BY <1>0, <3>1, MintLawful, AutocommitChanges
    <3>3. QED
      BY <1>0, <3>1, <3>2, EndDrops DEF Autocommit
  <2>3. QED
    BY <2>1, <2>2
<1>4. QED
  BY <1>1, <1>2, <1>3 DEF Minting

\* Reading leaves the tables alone, and happens in no transaction.
LEMMA ReadingChanges ==
    ASSUME NEW p \in Procs, Drafted, Reading(p)
    PROVE  Changes(p) /\ Draft(db', req'[p], tx'[p])
<1>0. Shapes /\ Positions
  BY DEF Drafted, Guarded
<1>1. CASE GetWallet(p) \/ LookUpItem(p) \/ LookUpAuction(p) \/ GetByOwner(p)
  BY <1>0, <1>1, ReturnDrops DEF GetWallet, LookUpItem, LookUpAuction, GetByOwner, Return, Changes
<1>2. ASSUME NEW next, NEW saw, Goto(p, next, saw), req[p].at \in {"service", "items", "rows"}
      PROVE  Changes(p) /\ Draft(db', req'[p], tx'[p])
  <2>1. ~tx'[p].open
    BY <1>0, <1>2, NotOpen DEF Goto
  <2>2. QED
    BY <1>2, <2>1, NoDraft DEF Goto, Changes
<1>3. CASE ValidateGuild(p)
  BY <1>0, <1>2, <1>3, ReturnDrops DEF ValidateGuild, Service, At, Return, Changes
<1>4. ASSUME NEW op, NEW n, CountRows(p, op, n) \/ ReadPage(p, op, n)
      PROVE  Changes(p) /\ Draft(db', req'[p], tx'[p])
  BY <1>0, <1>2, <1>4, ReturnDrops DEF CountRows, ReadPage, Service, At, Return, Changes
<1>5. CASE ListGuildsPage(p) \/ ListActivePage(p) \/ ListAvailablePage(p)
  BY <1>4, <1>5 DEF ListGuildsPage, ListActivePage, ListAvailablePage
<1>6. QED
  BY <1>1, <1>3, <1>5 DEF Reading

\* A statement, whichever way it ends, leaves the tables alone.
LEMMA WorkingChanges ==
    ASSUME NEW p \in Procs, Depositing(p) \/ Listing(p) \/ Buying(p) \/ Starting(p) \/ Bidding(p)
                            \/ Closing(p)
    PROVE  db' = db
<1>1. CASE Depositing(p)
  BY <1>1 DEF Depositing, LockForDeposit, CreditDeposit, LogDeposit, ChangeBalance, Exec, Statement, Return
<1>2. CASE Listing(p)
  BY <1>2 DEF Listing, ReadForListing, LockForListing, Expose, Exec, Statement, Return, Goto
<1>3. CASE Buying(p)
  <2>1. CASE LockToBuy(p) \/ LockBuyer(p) \/ CheckBuyer(p)
    BY <2>1 DEF LockToBuy, LockBuyer, CheckBuyer, Exec, Statement, Return
  <2>2. CASE ~(LockToBuy(p) \/ LockBuyer(p) \/ CheckBuyer(p))
    BY <1>3, <2>2 DEF Buying, ChargeBuyer, PaySeller, TransferBought, CountPurchase, LogPurchase,
                      LogProceeds, ChangeBalance, Exec, Statement
  <2>3. QED
    BY <2>1, <2>2
<1>4. CASE Starting(p)
  BY <1>4 DEF Starting, ReadToAuction, CountOwn, InsertAuction, Exec, Statement, Return, Goto
<1>5. CASE Bidding(p)
  <2>1. CASE ReadForBid(p) \/ LockToBid(p) \/ LockBidder(p) \/ CheckBidder(p)
    BY <2>1 DEF ReadForBid, LockToBid, LockBidder, CheckBidder, Exec, Statement, Return, Goto
  <2>2. CASE ~(ReadForBid(p) \/ LockToBid(p) \/ LockBidder(p) \/ CheckBidder(p))
    BY <1>5, <2>2 DEF Bidding, FreeLeader, LogRelease, ReturnQuota, ReleaseFails, RecordBid,
                      UpdateStanding, LogReserve, CountBid, Discard, Exec, Statement
  <2>3. QED
    BY <2>1, <2>2
<1>6. CASE Closing(p)
  BY <1>6 DEF Closing, LockToClose, RestoreItem, HandOver, PayProceeds, CancelUnsold, EndSold,
              CloseRow, ChangeBalance, Exec, Statement, Return
<1>7. QED
  BY <1>1, <1>2, <1>3, <1>4, <1>5, <1>6

\* Every step of the code keeps to its draft and changes the tables lawfully.
LEMMA StepDrafts ==
    ASSUME NEW p \in Procs, Drafted, Step(p) \/ Fail(p) \/ CommitUnconfirmed(p)
    PROVE  Changes(p) /\ Draft(db', req'[p], tx'[p])
<1>0. Guarded /\ Shapes /\ Positions /\ Exclusive /\ Known /\ Sound(db) /\ Draft(db, req[p], tx[p])
  BY DEF Drafted, Guarded
<1>1. CASE RefuseInput(p) \/ Fail(p)
  BY <1>0, <1>1, ReturnDrops DEF RefuseInput, Fail, Return, Changes
<1>2. CASE Commit(p) \/ CommitUnconfirmed(p)
  <2>1. req[p].at = "commit" /\ ~tx[p].failed /\ db' = Write(db, tx[p].wrote)
    BY <1>2 DEF Commit, CommitUnconfirmed
  <2>2. Lawful(db, tx[p].wrote, tx[p].held)
    BY <2>1, CommitLawful
  <2>3. \A r \in DOMAIN tx[p].wrote : <<r, "write">> \in tx[p].held
    BY <1>0 DEF Exclusive
  <2>4. QED
    BY <1>0, <1>2, <2>1, <2>2, <2>3, EndDrops DEF Commit, CommitUnconfirmed, Changes
<1>3. CASE Begin(p)
  <2>1. req'[p].at = "first"
    BY <1>0, <1>3 DEF Begin, Shapes, ReqRecord
  <2>2. QED
    BY <1>3, <2>1, FirstDraft DEF Begin, Changes
<1>4. CASE Reading(p) \/ Minting(p)
  BY <1>4, ReadingChanges, MintingChanges
<1>5. CASE Depositing(p) \/ Listing(p) \/ Buying(p) \/ Starting(p) \/ Bidding(p) \/ Closing(p)
  <2>1. Changes(p)
    BY <1>5, WorkingChanges DEF Changes
  <2>2. QED
    BY <1>0, <1>5, <2>1, DepositingDraft, ListingDraft, BuyingDraft, StartingDraft, BiddingDraft,
       ClosingDraft
<1>6. QED
  BY <1>1, <1>2, <1>3, <1>4, <1>5 DEF Step

-----------------------------------------------------------------------------
(* The request of a goroutine stays what it is.                            *)

Onward(p) ==
    /\ Running(p) /\ req'[p].ask = req[p].ask
    /\ req[p].at = "service" => req'[p].at = "done" \/ ~Invalid(req[p].ask)

LEMMA EndGoesOn ==
    ASSUME NEW p \in Procs, NEW err, NEW kept, Shapes, Running(p), End(p, err, kept)
    PROVE  Onward(p)
<1>1. req'[p] = [req[p] EXCEPT !.at = "done", !.err = err, !.kept = kept]
  BY DEF End, Shapes
<1>2. QED
  BY <1>1 DEF Onward, Shapes, ReqRecord

LEMMA ReturnGoesOn ==
    ASSUME NEW p \in Procs, NEW err, Shapes, Running(p), Return(p, err)
    PROVE  Onward(p)
BY EndGoesOn DEF Return

LEMMA GotoGoesOn ==
    ASSUME NEW p \in Procs, NEW next, NEW saw, Shapes, Running(p), Goto(p, next, saw),
           req[p].at # "service" \/ ~Invalid(req[p].ask)
    PROVE  Onward(p)
<1>1. req'[p] = [req[p] EXCEPT !.at = next, !.saw = saw]
  BY DEF Goto, Shapes
<1>2. QED
  BY <1>1 DEF Onward, Shapes, ReqRecord

LEMMA StatementGoesOn ==
    ASSUME NEW p \in Procs, NEW next, NEW saw, NEW locks, NEW w, Shapes, Positions,
           Statement(p, next, saw, locks, w)
    PROVE  Onward(p)
<1>1. req'[p].ask = req[p].ask /\ tx[p].open
  BY StatementDoes DEF Stated
<1>2. QED
  BY <1>1 DEF Onward, Positions, Inside, Running

LEMMA ExecGoesOn ==
    ASSUME NEW p \in Procs, NEW next, NEW locks, NEW w, Shapes, Positions, Exec(p, next, locks, w)
    PROVE  Onward(p)
BY StatementGoesOn DEF Exec

LEMMA StepGoesOn ==
    ASSUME NEW p \in Procs, Shapes, Positions, Step(p) \/ Fail(p) \/ CommitUnconfirmed(p)
    PROVE  Onward(p)
<1>1. CASE RefuseInput(p) \/ Fail(p)
  BY <1>1, ReturnGoesOn DEF RefuseInput, Fail, Running
<1>2. CASE Commit(p) \/ CommitUnconfirmed(p)
  BY <1>2, EndGoesOn DEF Commit, CommitUnconfirmed, Running
<1>3. CASE Begin(p)
  BY <1>3 DEF Begin, Shapes, ReqRecord, Running, Onward, Unchecked
<1>4. ASSUME NEW op, NEW n, CountRows(p, op, n) \/ ReadPage(p, op, n)
      PROVE  Onward(p)
  BY <1>4, ReturnGoesOn, GotoGoesOn DEF CountRows, ReadPage, Service, At, Running
<1>5. CASE ListGuildsPage(p) \/ ListActivePage(p) \/ ListAvailablePage(p)
  BY <1>4, <1>5 DEF ListGuildsPage, ListActivePage, ListAvailablePage
<1>6. CASE GetWallet(p) \/ LookUpItem(p) \/ LookUpAuction(p) \/ GetByOwner(p) \/ ValidateGuild(p)
  BY <1>6, ReturnGoesOn, GotoGoesOn
  DEF GetWallet, LookUpItem, LookUpAuction, GetByOwner, ValidateGuild, Service, At, Running
<1>7. CASE Minting(p)
  BY <1>7, ReturnGoesOn, EndGoesOn, GotoGoesOn
  DEF Minting, CreateGuildRow, AskPrice, GotPrice, InsertItem, Autocommit, Service, At, Running
<1>8. CASE Depositing(p)
  BY <1>8, ReturnGoesOn, ExecGoesOn
  DEF Depositing, LockForDeposit, CreditDeposit, LogDeposit, ChangeBalance, At, Running
<1>9. CASE Listing(p)
  BY <1>9, ReturnGoesOn, ExecGoesOn, GotoGoesOn
  DEF Listing, ReadForListing, LockForListing, Expose, Service, At, Running
<1>10. CASE LockToBuy(p) \/ LockBuyer(p) \/ CheckBuyer(p)
  BY <1>10, ReturnGoesOn, ExecGoesOn, StatementGoesOn
  DEF LockToBuy, LockBuyer, CheckBuyer, At, Running
<1>11. CASE Buying(p) /\ ~(LockToBuy(p) \/ LockBuyer(p) \/ CheckBuyer(p))
  BY <1>11, ExecGoesOn
  DEF Buying, ChargeBuyer, PaySeller, TransferBought, CountPurchase, LogPurchase, LogProceeds,
      ChangeBalance
<1>12. CASE Starting(p)
  BY <1>12, ReturnGoesOn, ExecGoesOn, GotoGoesOn
  DEF Starting, ReadToAuction, CountOwn, InsertAuction, Service, At, Running
<1>13. CASE ReadForBid(p) \/ LockToBid(p) \/ LockBidder(p) \/ CheckBidder(p)
  BY <1>13, ReturnGoesOn, ExecGoesOn, StatementGoesOn, GotoGoesOn
  DEF ReadForBid, LockToBid, LockBidder, CheckBidder, Service, At, Running
<1>14. CASE Discard(p) /\ req[p].at \in {"release", "handBack"}
  BY <1>14, DiscardDoes DEF Onward, Running
<1>15. CASE Bidding(p) /\ ~(ReadForBid(p) \/ LockToBid(p) \/ LockBidder(p) \/ CheckBidder(p))
  BY <1>14, <1>15, ExecGoesOn, StatementGoesOn
  DEF Bidding, FreeLeader, LogRelease, ReturnQuota, ReleaseFails, RecordBid, UpdateStanding,
      LogReserve, CountBid, At
<1>16. CASE Closing(p)
  BY <1>16, ReturnGoesOn, ExecGoesOn, StatementGoesOn
  DEF Closing, LockToClose, RestoreItem, HandOver, PayProceeds, CancelUnsold, EndSold, CloseRow,
      ChangeBalance, At, Running
<1>17. QED
  BY <1>1, <1>2, <1>3, <1>5, <1>6, <1>7, <1>8, <1>9, <1>10, <1>11, <1>12, <1>13, <1>15, <1>16
  DEF Step, Reading

-----------------------------------------------------------------------------
(* The invariant is kept.                                                  *)

LEMMA OthersStay ==
    ASSUME NEW p \in Procs, Shapes, Kinds(p), NEW q \in Procs, q # p
    PROVE  tx'[q] = tx[q] /\ req'[q] = req[q]
<1>1. CASE Moves(p)
  BY <1>1 DEF Moves, Shapes
<1>2. CASE Begin(p)
  BY <1>2 DEF Begin, Shapes
<1>3. CASE Advances(p)
  BY <1>3 DEF Advances, Shapes
<1>4. CASE Finishes(p)
  BY <1>4 DEF Finishes, Shapes
<1>5. QED
  BY <1>1, <1>2, <1>3, <1>4 DEF Kinds

LEMMA DraftsFramed ==
    ASSUME NEW p \in Procs, Drafted, Changes(p), NEW q \in Procs, q # p,
           tx'[q] = tx[q], req'[q] = req[q]
    PROVE  Draft(db', req'[q], tx'[q])
<1>0. Exclusive /\ Sound(db) /\ Draft(db, req[q], tx[q])
  BY DEF Drafted, Guarded
<1>1. CASE db' = db
  BY <1>0, <1>1
<1>2. CASE \E w : /\ db' = Write(db, w) /\ Lawful(db, w, tx[p].held)
                  /\ \A r \in DOMAIN w : <<r, "write">> \in tx[p].held \/ Free(p, <<r, "write">>)
  <2>1. Undisturbed(db, db', tx[q].held)
    BY <1>0, <1>2, CommitLeaves
  <2>2. \A n \in DOMAIN tx[q].wrote : <<n, "write">> \in tx[q].held
    BY <1>0 DEF Exclusive
  <2>3. Draft(db', req[q], tx[q])
    BY <1>0, <2>1, <2>2, DraftStays
  <2>4. QED
    BY <2>3
<1>3. QED
  BY <1>1, <1>2 DEF Changes

LEMMA ChangesSound == ASSUME NEW p, Sound(db), Changes(p) PROVE Sound(db')
BY DEF Changes, Lawful

\* A step of Requests, or one that does not concern it
AskedStep ==
    \/ \E p \in Procs, ask \in Asks : Call(p, ask) \/ CallRepository(p, ask)
    \/ \E p \in Procs : Step(p) \/ Fail(p) \/ CommitUnconfirmed(p)
    \/ \E S : Kill(S)
    \/ UNCHANGED vars

LEMMA StepKnown ==
    ASSUME NEW p \in Procs, Drafted, Step(p) \/ Fail(p) \/ CommitUnconfirmed(p)
    PROVE  Known'
<1>0. Guarded /\ Shapes /\ Positions /\ Exclusive /\ Known
  BY DEF Drafted, Guarded
<1>1. Onward(p)
  BY <1>0, StepGoesOn
<1>2. \A q \in Procs : q # p => req'[q] = req[q]
  BY <1>0, StepKinds, OthersStay
<1>3. (req[p].ask.op = "bid" /\ ~Invalid(req[p].ask)) => req[p].ask.amount > 0
  BY <1>0, <1>1, AsksAssumption DEF Onward, Known, Invalid
<1>4. Running(p)' => /\ req'[p].ask \in Asks
                     /\ (req'[p].ask.op = "bid" /\ req'[p].at # "service") => req'[p].ask.amount > 0
  BY <1>0, <1>1, <1>3 DEF Onward, Known, Running
<1>5. QED
  BY <1>0, <1>2, <1>4 DEF Known, Running

LEMMA DraftedStep ==
    ASSUME Drafted, AskedStep
    PROVE  Drafted'
<1>0. Guarded /\ Shapes /\ Positions /\ Exclusive /\ Known /\ Sound(db)
  BY DEF Drafted, Guarded
<1>1. Guarded'
  BY <1>0, StepKeeps DEF AskedStep, AnyStep
<1>2. ASSUME NEW p \in Procs, NEW ask \in Asks, Call(p, ask) \/ CallRepository(p, ask)
      PROVE  Drafted'
  <2>1. db' = db /\ tx' = tx
    BY <1>2 DEF Call, CallRepository, Take
  <2>2. ~tx[p].open
    BY <1>0, <1>2, NotOpen DEF Call, CallRepository, Take, Running
  <2>3. \A q \in Procs : q # p => req'[q] = req[q]
    BY <1>0, <1>2 DEF Call, CallRepository, Take, Shapes
  <2>4. \A q \in Procs : Draft(db', req'[q], tx'[q])
    BY <2>1, <2>2, <2>3, NoDraft DEF Drafted
  <2>5. req'[p].ask = ask /\ (ask.op = "bid" => req'[p].at = "service")
    BY <1>0, <1>2 DEF Call, CallRepository, Take, Shapes, NoRequest
  <2>6. Known'
    BY <1>0, <2>3, <2>5 DEF Known, Running
  <2>7. QED
    BY <1>0, <1>1, <2>1, <2>4, <2>6 DEF Drafted
<1>3. ASSUME NEW p \in Procs, Step(p) \/ Fail(p) \/ CommitUnconfirmed(p)
      PROVE  Drafted'
  <2>1. Changes(p) /\ Draft(db', req'[p], tx'[p])
    BY <1>3, StepDrafts
  <2>2. \A q \in Procs : q # p => tx'[q] = tx[q] /\ req'[q] = req[q]
    BY <1>0, <1>3, StepKinds, OthersStay
  <2>3. \A q \in Procs : Draft(db', req'[q], tx'[q])
    BY <2>1, <2>2, DraftsFramed
  <2>4. Sound(db')
    BY <1>0, <2>1, ChangesSound
  <2>5. Known'
    BY <1>3, StepKnown
  <2>6. QED
    BY <1>1, <2>3, <2>4, <2>5 DEF Drafted
<1>4. ASSUME NEW S, Kill(S) PROVE Drafted'
  <2>1. db' = db
    BY <1>4 DEF Kill
  <2>2. \A q \in Procs : \/ tx'[q] = NoTx /\ req'[q] = NoRequest
                         \/ tx'[q] = tx[q] /\ req'[q] = req[q]
    BY <1>4 DEF Kill
  <2>3. ~NoTx.open /\ NoRequest.at = "idle"
    BY DEF NoTx, NoRequest
  <2>4. \A q \in Procs : Draft(db', req'[q], tx'[q])
    BY <2>1, <2>2, <2>3, NoDraft DEF Drafted
  <2>5. Known'
    BY <1>0, <2>2, <2>3 DEF Known, Running
  <2>6. QED
    BY <1>0, <1>1, <2>1, <2>4, <2>5 DEF Drafted
<1>5. CASE UNCHANGED vars
  BY <1>1, <1>5 DEF vars, Drafted, Known, Running
<1>6. QED
  BY <1>2, <1>3, <1>4, <1>5 DEF AskedStep

LEMMA InitDrafted == ASSUME Init PROVE Drafted
<1>1. Guarded
  BY InitGuarded
<1>2. Sound(db)
  BY OpeningsAssumption DEF Init
<1>3. \A p \in Procs : Draft(db, req[p], tx[p])
  BY NoDraft DEF Init, NoTx
<1>4. Known
  BY DEF Init, Known, Running, NoRequest
<1>5. QED
  BY <1>1, <1>2, <1>3, <1>4 DEF Drafted

LEMMA DraftedInductive == Spec => []Drafted
<1>1. Init => Drafted
  BY InitDrafted
<1>2. Drafted /\ [Next]_vars => Drafted'
  BY DraftedStep DEF Next, AskedStep
<1>3. QED
  BY <1>1, <1>2, PTL DEF Spec

\* The operators of Promise, which Market takes from Tables, are those of Tables.
LEMMA PromiseNames ==
    \A x : /\ Promise!Guild(x) = Guild(x) /\ Promise!Item(x) = Item(x)
           /\ Promise!Auction(x) = Auction(x) /\ Promise!Bid(x) = Bid(x)
           /\ Promise!Daily(x) = Daily(x) /\ Promise!Log(x) = Log(x)
BY DEF Guild, Item, Auction, Bid, Daily, Log, Promise!Guild, Promise!Item, Promise!Auction,
       Promise!Bid, Promise!Daily, Promise!Log

LEMMA PromiseRows ==
    /\ Promise!NoRows = NoRows
    /\ \A r, v : Promise!OneRow(r, v) = OneRow(r, v)
    /\ \A t, w : Promise!Write(t, w) = Write(t, w)
    /\ \A t, w : Promise!Both(t, w) = Write(t, w)
    /\ \A t, table : Promise!Keys(t, table) = Keys(t, table)
<1>1. Promise!NoRows = NoRows
  BY DEF NoRows, Promise!NoRows
<1>2. \A r, v : Promise!OneRow(r, v) = OneRow(r, v)
  BY DEF OneRow, Promise!OneRow
<1>3. \A t, w : Promise!Write(t, w) = Write(t, w)
  BY DEF Write, Promise!Write
<1>4. \A t, w : Promise!Both(t, w) = Write(t, w)
  BY <1>3 DEF Promise!Both
<1>5. \A t, table : Promise!Keys(t, table) = Keys(t, table)
  BY DEF Keys, Promise!Keys
<1>6. QED
  BY <1>1, <1>2, <1>3, <1>4, <1>5

LEMMA PromiseSum == \A f, s : Promise!SumFunctionOnSet(f, s) = SumFunctionOnSet(f, s)
<1> SUFFICES ASSUME NEW f, NEW s PROVE Promise!SumFunctionOnSet(f, s) = SumFunctionOnSet(f, s)
  OBVIOUS
<1>1. Promise!SumFunctionOnSet(f, s) = Sums(f, s)[s]
  BY DEF Promise!SumFunctionOnSet, Promise!FoldFunctionOnSet, Promise!MapThenFoldSet, Sums, Recur, Pick
<1>2. QED
  BY <1>1, SumIsSums

LEMMA PromiseReserved == \A t, g : Promise!Reserved(t, g) = Reserved(t, g)
<1> SUFFICES ASSUME NEW t, NEW g PROVE Promise!Reserved(t, g) = Reserved(t, g)
  OBVIOUS
<1>1. Promise!ActiveBids(t, g) = ActiveBids(t, g)
  BY PromiseNames, PromiseRows DEF ActiveBids, Promise!ActiveBids
<1>2. [b \in ActiveBids(t, g) |-> t[Promise!Bid(b)].amount] = [b \in ActiveBids(t, g) |-> t[Bid(b)].amount]
  BY PromiseNames
<1>3. QED
  BY <1>1, <1>2, PromiseSum DEF Reserved, Promise!Reserved

LEMMA PromiseDaily == \A t, g : Promise!GetDailySpent(t, g) = GetDailySpent(t, g)
BY PromiseNames DEF GetDailySpent, Promise!GetDailySpent

LEMMA MaySpendMeans == \A g, n : Promise!MaySpend(g, n) <=> CanPay(db, g, n)
BY PromiseNames, PromiseReserved, PromiseDaily DEF CanPay, Promise!MaySpend

LEMMA DraftedFunds == ASSUME Drafted PROVE FundsStand
<1> SUFFICES ASSUME NEW p \in Procs
             PROVE  /\ (Decided(p, "buy") /\ req[p].at \notin {"lockBuyer", "funds"})
                         => Promise!MaySpend(req[p].ask.guild, req[p].saw.price)
                    /\ (Decided(p, "bid") /\ req[p].at \notin {"lockBidder", "funds"})
                         => Promise!MaySpend(req[p].ask.guild, req[p].ask.amount)
  BY DEF FundsStand
<1>1. BuyDraft(db, req[p], tx[p]) /\ BidDraft(db, req[p], tx[p])
  BY DEF Drafted, Draft
<1>2. (Decided(p, "buy") /\ req[p].at \notin {"lockBuyer", "funds"})
        => CanPay(db, req[p].ask.guild, req[p].saw.price)
  BY <1>1, BuyKnown DEF Decided
<1>3. (Decided(p, "bid") /\ req[p].at \notin {"lockBidder", "funds"})
        => CanPay(db, req[p].ask.guild, req[p].ask.amount)
  BY <1>1, BidKnown DEF Decided
<1>4. QED
  BY <1>2, <1>3, MaySpendMeans

\* For any number of goroutines, requests, guilds and auctions: the tables are
\* sound whenever anybody looks; every commit of auction_repo.go, item_repo.go and
\* guild_repo.go leaves them so.
THEOREM TablesStaySound == Spec => []TablesSound
<1>1. Drafted => TablesSound
  BY DEF Drafted, TablesSound
<1>2. QED
  BY <1>1, DraftedInductive, PTL

\* A guild whose free gold and quota have sufficed, under the lock of
\* LockGuildForUpdate, has them until the transaction ends.
THEOREM FundsStanding == Spec => []FundsStand
<1>1. Drafted => FundsStand
  BY DraftedFunds
<1>2. QED
  BY <1>1, DraftedInductive, PTL

-----------------------------------------------------------------------------
(* The running program gives its goroutines only requests there are.       *)

LEMMA PlanLength == \A x, k : Len(SeedPlan(x, k)) = 10
BY DEF SeedPlan

WorkKnown ==
    /\ \A p \in Procs : work[p] \in Asks \cup {Nothing}
    /\ \A x \in Apps : work[x] # Nothing => work[x].op = "close"
    /\ phase = [x \in Apps |-> phase[x]] /\ starts = [x \in Apps |-> starts[x]]
    /\ seed = [x \in Apps |-> seed[x]]
    /\ \A x \in Apps : /\ starts[x] \in Nat /\ seed[x] \in 0..10
                       /\ phase[x] = "seeding" => starts[x] \in 1..MaxStarts

LEMMA InitWorkKnown == ASSUME ServiceInit PROVE WorkKnown
BY ScenarioAssumption DEF ServiceInit, WorkKnown

LEMMA WorkStep ==
    ASSUME WorkKnown, [ServiceNext]_allVars
    PROVE  WorkKnown'
<1>1. CASE UNCHANGED allVars
  BY <1>1 DEF allVars, lifecycle, WorkKnown
<1>2. ASSUME NEW p \in Clients, ClientNext(p) PROVE WorkKnown'
  <2>1. UNCHANGED <<work, phase, starts, seed>>
    BY <1>2 DEF ClientNext, Accept, Handle, WriteAnswer, Receive, Timeout, lifecycle
  <2>2. QED
    BY <2>1 DEF WorkKnown
<1>3. ASSUME NEW x \in Apps, AppNext(x) PROVE WorkKnown'
  <2>1. CASE Start(x)
    <3>1. /\ work' = work /\ \E next : phase' = [phase EXCEPT ![x] = next]
          /\ starts' = [starts EXCEPT ![x] = @ + 1] /\ seed' = [seed EXCEPT ![x] = 0]
          /\ starts[x] < MaxStarts
      BY <2>1 DEF Start
    <3>2. ASSUME NEW y \in Apps
          PROVE  /\ starts'[y] \in Nat /\ seed'[y] \in 0..10
                 /\ phase'[y] = "seeding" => starts'[y] \in 1..MaxStarts
      <4>1. CASE y = x
        <5>1. starts'[x] = starts[x] + 1 /\ seed'[x] = 0 /\ starts[x] \in Nat
          BY <3>1 DEF WorkKnown
        <5>2. QED
          BY <3>1, <4>1, <5>1, StartsAssumption
      <4>2. CASE y # x
        BY <3>1, <4>2 DEF WorkKnown
      <4>3. QED
        BY <4>1, <4>2
    <3>3. QED
      BY <3>1, <3>2 DEF WorkKnown
  <2>2. CASE SeedCheck(x)
    BY <2>2 DEF SeedCheck, WorkKnown
  <2>3. CASE SeedNext(x)
    <3>1. /\ work' = work /\ starts' = starts
          /\ \/ phase' = [phase EXCEPT ![x] = "serving"] /\ seed' = seed
             \/ phase' = phase /\ seed' = [seed EXCEPT ![x] = @ + 1] /\ seed[x] # 10
      BY <2>3, PlanLength DEF SeedNext
    <3>2. QED
      BY <3>1 DEF WorkKnown
  <2>4. CASE SeedCall(x) \/ WorkerCall(x) \/ AppStep(x)
    BY <2>4 DEF SeedCall, WorkerCall, AppStep, lifecycle, WorkKnown
  <2>5. CASE Signal(x) \/ ShutdownDone(x)
    BY <2>5 DEF Signal, ShutdownDone, WorkKnown
  <2>6. CASE ShutdownTimeout(x) \/ Exit(x) \/ Crash(x) \/ PricePanic(x)
    <3>1. /\ work' = work /\ starts' = starts /\ seed' = seed
          /\ \E next \in {"failed", "exited", "down"} : phase' = [phase EXCEPT ![x] = next]
      BY <2>6 DEF ShutdownTimeout, Exit, Crash, PricePanic, Ends
    <3>2. QED
      BY <3>1 DEF WorkKnown
  <2>7. QED
    BY <1>3, <2>1, <2>2, <2>3, <2>4, <2>5, <2>6 DEF AppNext
<1>4. QED
  BY <1>1, <1>2, <1>3 DEF ServiceNext

LEMMA SeedingKnown ==
    ASSUME WorkKnown, NEW x \in Apps, phase[x] = "seeding", seed[x] # 0
    PROVE  SeedingAsk(x) \in SeedAsks
<1>1. starts[x] \in 1..MaxStarts /\ seed[x] \in 1..10
  BY DEF WorkKnown
<1>2. QED
  BY <1>1 DEF SeedingAsk, SeedAsks

\* A step of Requests as the program makes it: handlers go through the service,
\* and only seeders and workers call a repository.
ServedStep ==
    \/ \E p \in Procs, ask \in Asks : Call(p, ask)
    \/ \E p \in Procs, ask \in Asks :
         CallRepository(p, ask) /\ (ask \in SeedAsks \/ ask.op = "close")
    \/ \E p \in Procs : Step(p) \/ Fail(p) \/ CommitUnconfirmed(p)
    \/ \E S : Kill(S)
    \/ UNCHANGED vars

LEMMA ServedIsAsked == ServedStep => AskedStep
BY DEF ServedStep, AskedStep

\* What the program does to the tables and the transactions is such a step.
LEMMA ServiceServed ==
    ASSUME WorkKnown, [ServiceNext]_allVars
    PROVE  ServedStep
<1>1. CASE UNCHANGED allVars
  BY <1>1 DEF allVars, ServedStep
<1>2. ASSUME NEW x \in Apps, AppNext(x) PROVE ServedStep
  <2>1. x \in Procs
    BY ProcessAssumption
  <2>2. CASE Start(x) \/ SeedCheck(x) \/ SeedNext(x) \/ Signal(x) \/ ShutdownDone(x)
    BY <2>2 DEF Start, SeedCheck, SeedNext, Signal, ShutdownDone, ServedStep
  <2>3. CASE SeedCall(x)
    BY <2>1, <2>3, SeedingKnown, SeedAssumption DEF SeedCall, ServedStep
  <2>4. CASE WorkerCall(x)
    BY <2>1, <2>4 DEF WorkerCall, WorkKnown, ServedStep
  <2>5. CASE AppStep(x)
    BY <2>1, <2>5 DEF AppStep, ServedStep
  <2>6. CASE ShutdownTimeout(x) \/ Exit(x) \/ Crash(x) \/ PricePanic(x)
    BY <2>6 DEF ShutdownTimeout, Exit, Crash, PricePanic, Ends, ServedStep
  <2>7. QED
    BY <1>2, <2>2, <2>3, <2>4, <2>5, <2>6 DEF AppNext
<1>3. ASSUME NEW p \in Clients, ClientNext(p) PROVE ServedStep
  <2>1. p \in Procs
    BY ProcessAssumption
  <2>2. CASE Accept(p)
    BY <2>1, <2>2 DEF Accept, WorkKnown, ServedStep
  <2>3. CASE Handle(p)
    BY <2>1, <2>3, HandlesSteps DEF ServedStep
  <2>4. CASE WriteAnswer(p) \/ Receive(p) \/ Timeout(p)
    BY <2>4 DEF WriteAnswer, Receive, Timeout, ServedStep
  <2>5. QED
    BY <1>3, <2>2, <2>3, <2>4 DEF ClientNext
<1>4. QED
  BY <1>1, <1>2, <1>3 DEF ServiceNext

LEMMA ServiceDrafted == ServiceSpec => [](Drafted /\ WorkKnown)
<1>1. ServiceInit => Drafted /\ WorkKnown
  BY InitDrafted, InitWorkKnown DEF ServiceInit
<1>2. Drafted /\ WorkKnown /\ [ServiceNext]_allVars => (Drafted /\ WorkKnown)'
  BY ServiceServed, ServedIsAsked, DraftedStep, WorkStep
<1>3. QED
  BY <1>1, <1>2, PTL DEF ServiceSpec

\* The same in the running program, with copies that seed, serve, close auctions,
\* are stopped, crash and start again.
THEOREM TablesStaySoundInService == ServiceSpec => []TablesSound
<1>1. Drafted /\ WorkKnown => TablesSound
  BY DEF Drafted, TablesSound
<1>2. QED
  BY <1>1, ServiceDrafted, PTL

\* The same in the running program: no deadline, signal or crash lets two requests
\* count on the same gold.
THEOREM FundsStandInService == ServiceSpec => []FundsStand
<1>1. Drafted /\ WorkKnown => FundsStand
  BY DraftedFunds
<1>2. QED
  BY <1>1, ServiceDrafted, PTL
=============================================================================
