--------------------------- MODULE ItemMarketProofs ---------------------------
(***************************************************************************)
(* Theorems about ItemMarket, for every value of its constants: what a     *)
(* purchase found under its two locks is still so when it commits, and     *)
(* everything about gold and items follows from that.                      *)
(***************************************************************************)
EXTENDS ItemMarket, SumLemmas

Holding(p) == req[p].pc \in {"buying", "paying"}
Paying(p) == req[p].pc = "paying"

\* The lock of an item: one purchase at a time holds it, and meanwhile the row
\* is as the purchase found it.
ItemsHeld ==
    \A p \in Procs : Holding(p) =>
        /\ item[req[p].item].status = "available"
        /\ item[req[p].item].price = req[p].price
        /\ item[req[p].item].owner = req[p].seller
        /\ req[p].seller # req[p].guild /\ req[p].price # 0
        /\ \A q \in Procs : (Holding(q) /\ req[q].item = req[p].item) => q = p

\* The lock of a guild: one purchase at a time holds it, and meanwhile its
\* wallet and quota still bear the price.
WalletsHeld ==
    \A p \in Procs : Paying(p) =>
        /\ Affordable(req[p].guild, req[p].price)
        /\ \A q \in Procs : (Paying(q) /\ req[q].guild = req[p].guild) => q = p

\* What is about to be listed exists, and is not legendary.
ListingsMinted == \A p \in Procs : req[p].pc = "listing" => req[p].item \in Minted \ Legendary

\* Nothing writes the price of a legendary item.
LegendaryUnpriced == \A i \in Minted \cap Legendary : item[i].price = 0

\* Every reservation was counted against the quota.
ReservedIsSpent == \A g \in Guilds : reserved[g] <= spent[g]

Rows == TypeOK /\ ItemsHeld /\ WalletsHeld /\ ListingsMinted /\ LegendaryUnpriced
Books == ReservedIsSpent /\ Solvent /\ WithinQuota /\ LedgerExplains
Kept == Rows /\ Books

-----------------------------------------------------------------------------
(* Lemmas.                                                                 *)

\* A request that is not idle has the fields of one.
LEMMA RequestTyped ==
    ASSUME TypeOK, NEW p \in Procs, req[p].pc # "idle"
    PROVE  req[p] \in Requests
BY DEF TypeOK, Idle

\* The minted items are those whose row is one of the schema; the others have
\* no status a purchase would accept.
LEMMA RowTyped ==
    ASSUME TypeOK, NEW i \in Items
    PROVE  /\ i \in Minted <=> item[i] \in ItemRows
           /\ i \notin Minted => item[i].status = "absent"
<1>1. item[i] \in ItemRows \/ item[i] = Unminted
  BY DEF TypeOK
<1>2. \A r \in ItemRows : r.status # "absent"
  BY DEF ItemRows
<1>3. Unminted.status = "absent"
  BY DEF Unminted
<1>4. QED
  BY <1>1, <1>2, <1>3 DEF Minted

\* A purchase that holds its item has two different guilds, and a row to sell.
LEMMA HoldingTyped ==
    ASSUME TypeOK, ItemsHeld, NEW p \in Procs, Holding(p)
    PROVE  /\ req[p].guild \in Guilds /\ req[p].seller \in Guilds /\ req[p].item \in Items
           /\ req[p].price \in Nat /\ req[p].seller # req[p].guild
           /\ item[req[p].item] \in ItemRows
<1>1. req[p] \in Requests
  BY RequestTyped DEF Holding
<1>2. item[req[p].item].status = "available" /\ req[p].item \in Items
  BY <1>1 DEF ItemsHeld, Requests
<1>3. item[req[p].item] \in ItemRows
  BY <1>2, RowTyped
<1>4. QED
  BY <1>1, <1>3 DEF Requests, ItemsHeld

-----------------------------------------------------------------------------
(* The invariant.                                                          *)

LEMMA InitKept == Init => Kept
<1> SUFFICES ASSUME Init PROVE Kept
  OBVIOUS
<1>1. TypeOK
  BY AmountAssumption DEF Init, TypeOK
<1>2. \A p \in Procs : req[p].pc = "idle"
  BY DEF Init, Idle
<1>3. Minted = {}
  BY DEF Init, Minted
<1>4. ItemsHeld /\ WalletsHeld /\ ListingsMinted /\ LegendaryUnpriced
  BY <1>2, <1>3 DEF ItemsHeld, WalletsHeld, ListingsMinted, LegendaryUnpriced, Holding, Paying
<1>5. Books
  BY AmountAssumption DEF Init, Books, ReservedIsSpent, Solvent, WithinQuota, LedgerExplains
<1>6. QED
  BY <1>1, <1>4, <1>5 DEF Kept, Rows

\* Minting touches no request and no wallet.
LEMMA MintKeeps ==
    ASSUME Kept, NEW g \in Guilds, NEW i \in Items,
           Mint(g, i) \/ \E n \in Prices : MintPriced(g, i, n)
    PROVE  Kept'
<1>1. /\ i \notin Minted /\ UNCHANGED <<money, req>>
      /\ \E r \in ItemRows : item' = [item EXCEPT ![i] = r] /\ (i \in Legendary => r.price = 0)
  <2>1. CASE Mint(g, i)
    <3> DEFINE r == [owner |-> g, status |-> "sold", price |-> 0]
    <3>1. r \in ItemRows /\ r.price = 0
      BY DEF ItemRows
    <3>2. QED
      BY <2>1, <3>1 DEF Mint
  <2>2. CASE \E n \in Prices : MintPriced(g, i, n)
    <3>1. PICK n \in Prices : MintPriced(g, i, n)
      BY <2>2
    <3> DEFINE r == [owner |-> g, status |-> "available", price |-> n]
    <3>2. r \in ItemRows
      BY AmountAssumption DEF ItemRows
    <3>3. QED
      BY <3>1, <3>2 DEF MintPriced
  <2>3. QED
    BY <2>1, <2>2
<1>2. PICK r \in ItemRows : item' = [item EXCEPT ![i] = r] /\ (i \in Legendary => r.price = 0)
  BY <1>1
<1>3. TypeOK'
  BY <1>1, <1>2 DEF Kept, Rows, TypeOK, money
<1>4. \A j \in Items : j # i => item'[j] = item[j]
  BY <1>2 DEF Kept, Rows, TypeOK
<1>5. Minted' = Minted \cup {i} /\ item'[i].price = r.price
  BY <1>2, <1>3, <1>4, RowTyped DEF Kept, Rows, TypeOK, Minted, ItemRows, Unminted
<1>6. \A p \in Procs : Holding(p) => req[p].item # i
  BY <1>1, HoldingTyped, RowTyped DEF Kept, Rows
<1>7. ItemsHeld'
  <2>1. \A p \in Procs : Holding(p) => item'[req[p].item] = item[req[p].item]
    BY <1>4, <1>6, HoldingTyped DEF Kept, Rows
  <2>2. QED
    BY <1>1, <2>1 DEF Kept, Rows, ItemsHeld, Holding
<1>8. WalletsHeld' /\ Books'
  BY <1>1 DEF Kept, Rows, Books, WalletsHeld, Paying, Affordable, Available, money,
              ReservedIsSpent, Solvent, WithinQuota, LedgerExplains
<1>9. ListingsMinted' /\ LegendaryUnpriced'
  BY <1>1, <1>2, <1>4, <1>5 DEF Kept, Rows, ListingsMinted, LegendaryUnpriced, Minted
<1>10. QED
  BY <1>3, <1>7, <1>8, <1>9 DEF Kept, Rows

\* Neither does a change of an item's status whose lock is free.
LEMMA StatusKeeps ==
    ASSUME Kept, NEW i \in Minted, ~ItemLocked(i), UNCHANGED money,
           \/ UNCHANGED item
           \/ \E s \in {"available", "sold"} : item' = [item EXCEPT ![i].status = s],
           \/ UNCHANGED req
           \/ \E p \in Procs : req' = [req EXCEPT ![p] = Idle]
    PROVE  Kept'
<1>1. item[i] \in ItemRows /\ i \in Items
  BY RowTyped DEF Kept, Rows, Minted
<1>2. /\ item' \in [Items -> ItemRows \cup {Unminted}]
      /\ item'[i] \in ItemRows /\ item'[i].price = item[i].price
      /\ \A j \in Items : j # i => item'[j] = item[j]
  <2>1. item \in [Items -> ItemRows \cup {Unminted}]
    BY DEF Kept, Rows, TypeOK
  <2>2. CASE UNCHANGED item
    BY <1>1, <2>1, <2>2
  <2>3. CASE \E s \in {"available", "sold"} : item' = [item EXCEPT ![i].status = s]
    <3>1. PICK s \in {"available", "sold"} : item' = [item EXCEPT ![i].status = s]
      BY <2>3
    <3> DEFINE r == [item[i] EXCEPT !.status = s]
    <3>2. r \in ItemRows /\ r.price = item[i].price
      BY <1>1 DEF ItemRows
    <3>3. item' = [item EXCEPT ![i] = r]
      BY <3>1
    <3>4. QED
      BY <1>1, <2>1, <3>2, <3>3
  <2>4. QED
    BY <2>2, <2>3
<1>3. /\ req' \in [Procs -> Requests \cup {Idle}]
      /\ \A p \in Procs : req'[p] = req[p] \/ req'[p].pc = "idle"
  BY DEF Kept, Rows, TypeOK, Idle
<1>4. TypeOK'
  BY <1>2, <1>3 DEF Kept, Rows, TypeOK, money
<1>5. Minted' = Minted
  <2>1. \A r \in ItemRows : r.status # "absent"
    BY DEF ItemRows
  <2>2. Unminted \notin ItemRows
    BY <2>1 DEF Unminted
  <2>3. QED
    BY <1>1, <1>2, <2>2 DEF Minted
<1>6. \A p \in Procs : Holding(p) => req[p].item # i
  BY DEF ItemLocked, Holding
<1>7. ItemsHeld'
  <2>1. \A p \in Procs : Holding(p) => item'[req[p].item] = item[req[p].item]
    BY <1>2, <1>6, HoldingTyped DEF Kept, Rows
  <2>2. QED
    BY <1>3, <2>1 DEF Kept, Rows, ItemsHeld, Holding
<1>8. WalletsHeld' /\ Books'
  BY <1>3 DEF Kept, Rows, Books, WalletsHeld, Paying, Affordable, Available, money,
              ReservedIsSpent, Solvent, WithinQuota, LedgerExplains
<1>9. ListingsMinted'
  BY <1>3, <1>5 DEF Kept, Rows, ListingsMinted
<1>10. LegendaryUnpriced'
  BY <1>2, <1>5 DEF Kept, Rows, LegendaryUnpriced, Minted
<1>11. QED
  BY <1>4, <1>7, <1>8, <1>9, <1>10 DEF Kept, Rows

\* A step that gives or takes one request, and leaves it without a lock.
LEMMA UnlockedKeeps ==
    ASSUME Kept, NEW p \in Procs, UNCHANGED <<money, item>>,
           NEW r \in Requests \cup {Idle}, req' = [req EXCEPT ![p] = r],
           r.pc \notin {"buying", "paying"},
           r.pc = "listing" => r.item \in Minted \ Legendary
    PROVE  Kept'
<1>1. /\ req'[p] = r
      /\ \A q \in Procs : q # p => req'[q] = req[q]
  BY DEF Kept, Rows, TypeOK
<1>2. TypeOK'
  BY <1>1 DEF Kept, Rows, TypeOK, money
<1>3. \A q \in Procs : Holding(q)' => (Holding(q) /\ req'[q] = req[q])
  BY <1>1 DEF Holding
<1>4. ItemsHeld'
  BY <1>3 DEF Kept, Rows, ItemsHeld
<1>5. \A q \in Procs : Paying(q)' => (Paying(q) /\ req'[q] = req[q])
  BY <1>3 DEF Holding, Paying
<1>6. WalletsHeld'
  BY <1>5 DEF Kept, Rows, WalletsHeld, Affordable, Available, money
<1>7. ListingsMinted' /\ LegendaryUnpriced'
  BY <1>1 DEF Kept, Rows, ListingsMinted, LegendaryUnpriced, Minted
<1>8. Books'
  BY DEF Kept, Books, ReservedIsSpent, Solvent, WithinQuota, LedgerExplains, money
<1>9. QED
  BY <1>2, <1>4, <1>6, <1>7, <1>8 DEF Kept, Rows

\* A request is created or dropped: ReadForListing and Abort.
LEMMA RequestKeeps ==
    ASSUME Kept, NEW p \in Procs, ReadForListing(p) \/ Abort(p)
    PROVE  Kept'
<1>1. CASE Abort(p)
  BY <1>1, UnlockedKeeps DEF Abort, Idle
<1>2. CASE ReadForListing(p)
  <2>1. PICK i \in Minted \ Legendary :
          req' = [req EXCEPT ![p] = [pc |-> "listing", guild |-> item[i].owner, item |-> i,
                                     seller |-> item[i].owner, price |-> 0]]
    BY <1>2 DEF ReadForListing
  <2> DEFINE r == [pc |-> "listing", guild |-> item[i].owner, item |-> i,
                   seller |-> item[i].owner, price |-> 0]
  <2>2. i \in Items /\ item[i] \in ItemRows
    BY RowTyped DEF Kept, Rows, Minted
  <2>3. r \in Requests
    BY <2>2 DEF Requests, ItemRows
  <2>4. QED
    BY <1>2, <2>1, <2>3, UnlockedKeeps DEF ReadForListing
<1>3. QED
  BY <1>1, <1>2

\* A status changes only under the lock of the item: List and CancelUnsold.
LEMMA UnderLockKeeps ==
    ASSUME Kept, (\E p \in Procs : List(p)) \/ \E i \in Items : CancelUnsold(i)
    PROVE  Kept'
<1>1. CASE \E p \in Procs : List(p)
  <2>1. PICK p \in Procs : List(p)
    BY <1>1
  <2> DEFINE i == req[p].item
  <2>2. i \in Minted /\ ~ItemLocked(i)
    BY <2>1 DEF List, Kept, Rows, ListingsMinted
  <2>3. \/ UNCHANGED item
        \/ \E s \in {"available", "sold"} : item' = [item EXCEPT ![i].status = s]
    BY <2>1 DEF List
  <2>4. QED
    BY <2>1, <2>2, <2>3, StatusKeeps DEF List
<1>2. CASE \E i \in Items : CancelUnsold(i)
  <2>1. PICK i \in Items : CancelUnsold(i)
    BY <1>2
  <2>2. i \in Minted /\ ~ItemLocked(i)
    BY <2>1 DEF CancelUnsold
  <2>3. UNCHANGED money /\ UNCHANGED req
    BY <2>1 DEF CancelUnsold
  <2>4. \E s \in {"available", "sold"} : item' = [item EXCEPT ![i].status = s]
    BY <2>1 DEF CancelUnsold
  <2>5. QED
    BY <2>2, <2>3, <2>4, StatusKeeps
<1>3. QED
  BY <1>1, <1>2

\* The first lock of a purchase: the item it has read is its own from here on.
LEMMA LockItemKeeps ==
    ASSUME Kept, NEW p \in Procs, LockItem(p)
    PROVE  Kept'
<1>1. PICK i \in Minted, g \in Guilds :
        /\ ~ItemLocked(i) /\ Buyable(i, g)
        /\ req' = [req EXCEPT ![p] = [pc |-> "buying", guild |-> g, item |-> i,
                                      seller |-> item[i].owner, price |-> item[i].price]]
  BY DEF LockItem
<1> DEFINE r == [pc |-> "buying", guild |-> g, item |-> i,
                 seller |-> item[i].owner, price |-> item[i].price]
<1>2. i \in Items /\ item[i] \in ItemRows
  BY RowTyped DEF Kept, Rows, Minted
<1>3. r \in Requests
  BY <1>2 DEF Requests, ItemRows
<1>4. /\ req'[p] = r /\ ~Holding(p)
      /\ \A q \in Procs : q # p => req'[q] = req[q]
  BY <1>1 DEF Kept, Rows, TypeOK, LockItem, Holding, Idle
<1>5. TypeOK'
  BY <1>1, <1>3 DEF Kept, Rows, TypeOK, LockItem, money
<1>6. \A q \in Procs : Holding(q) => req[q].item # i
  BY <1>1 DEF ItemLocked, Holding
<1>7. ItemsHeld'
  <2> SUFFICES ASSUME NEW a \in Procs, Holding(a)'
               PROVE  /\ item'[req'[a].item].status = "available"
                      /\ item'[req'[a].item].price = req'[a].price
                      /\ item'[req'[a].item].owner = req'[a].seller
                      /\ req'[a].seller # req'[a].guild /\ req'[a].price # 0
                      /\ \A q \in Procs : (Holding(q)' /\ req'[q].item = req'[a].item) => q = a
    BY DEF ItemsHeld
  <2>1. item' = item
    BY DEF LockItem
  <2>2. \A q \in Procs : q # p => (Holding(q)' <=> Holding(q))
    BY <1>4 DEF Holding
  <2>3. CASE a = p
    BY <1>1, <1>4, <1>6, <2>1, <2>2, <2>3 DEF Buyable
  <2>4. CASE a # p
    BY <1>4, <1>6, <2>1, <2>2, <2>4 DEF Kept, Rows, ItemsHeld
  <2>5. QED
    BY <2>3, <2>4
<1>8. \A q \in Procs : Paying(q)' => (Paying(q) /\ req'[q] = req[q])
  BY <1>4 DEF Paying
<1>9. WalletsHeld'
  BY <1>8 DEF Kept, Rows, WalletsHeld, Affordable, Available, LockItem, money
<1>10. ListingsMinted' /\ LegendaryUnpriced'
  BY <1>4 DEF Kept, Rows, ListingsMinted, LegendaryUnpriced, Minted, LockItem
<1>11. Books'
  BY DEF Kept, Books, ReservedIsSpent, Solvent, WithinQuota, LedgerExplains, LockItem, money
<1>12. QED
  BY <1>5, <1>7, <1>9, <1>10, <1>11 DEF Kept, Rows

\* The second lock: the wallet that has been read is the purchase's own.
LEMMA LockBuyerKeeps ==
    ASSUME Kept, NEW p \in Procs, LockBuyer(p)
    PROVE  Kept'
<1> DEFINE b == req[p]
<1>1. b \in Requests /\ Holding(p) /\ ~Paying(p)
  BY RequestTyped DEF Kept, Rows, LockBuyer, Holding, Paying
<1>2. CASE ~Affordable(b.guild, b.price)
  BY <1>2, UnlockedKeeps DEF LockBuyer, Idle, Kept, Rows, TypeOK
<1>3. CASE Affordable(b.guild, b.price)
  <2> DEFINE r == [b EXCEPT !.pc = "paying"]
  <2>1. /\ r \in Requests /\ r.pc = "paying" /\ r.guild = b.guild /\ r.item = b.item
        /\ r.seller = b.seller /\ r.price = b.price
    BY <1>1 DEF Requests
  <2>2. req' = [req EXCEPT ![p] = r]
    BY <1>3 DEF LockBuyer
  <2> HIDE DEF r
  <2>3. req'[p] = r /\ \A q \in Procs : q # p => req'[q] = req[q]
    BY <2>2 DEF Kept, Rows, TypeOK
  <2>4. TypeOK'
    BY <2>1, <2>2 DEF Kept, Rows, TypeOK, LockBuyer, money
  <2>5. \A q \in Procs : /\ Holding(q)' <=> Holding(q)
                         /\ req'[q].item = req[q].item /\ req'[q].price = req[q].price
                         /\ req'[q].seller = req[q].seller /\ req'[q].guild = req[q].guild
    BY <1>1, <2>1, <2>3 DEF Holding
  <2>6. item' = item
    BY DEF LockBuyer
  <2>7. ItemsHeld'
    BY <2>5, <2>6 DEF Kept, Rows, ItemsHeld
  <2>8. \A q \in Procs : Paying(q) => req[q].guild # b.guild
    BY DEF LockBuyer, GuildLocked, Paying
  <2>9. WalletsHeld'
    <3>1. \A q \in Procs : q # p => (Paying(q)' <=> Paying(q))
      BY <2>3 DEF Paying
    <3>2. \A g, n : Affordable(g, n)' <=> Affordable(g, n)
      BY DEF Affordable, Available, LockBuyer, money
    <3>3. \A a \in Procs : Paying(a)' => Affordable(req[a].guild, req[a].price)
      BY <1>3, <3>1 DEF Kept, Rows, WalletsHeld
    <3>4. \A a, q \in Procs : (Paying(a)' /\ Paying(q)' /\ req[q].guild = req[a].guild) => q = a
      BY <2>8, <3>1 DEF Kept, Rows, WalletsHeld
    <3>5. QED
      BY <2>5, <3>2, <3>3, <3>4 DEF WalletsHeld, Affordable, Available
  <2>10. ListingsMinted' /\ LegendaryUnpriced'
    BY <2>1, <2>3, <2>6 DEF Kept, Rows, ListingsMinted, LegendaryUnpriced, Minted
  <2>11. Books'
    BY DEF Kept, Books, ReservedIsSpent, Solvent, WithinQuota, LedgerExplains, LockBuyer, money
  <2>12. QED
    BY <2>4, <2>7, <2>9, <2>10, <2>11 DEF Kept, Rows
<1>4. QED
  BY <1>2, <1>3

\* A bid takes a reservation or gives one up while no purchase holds the guild.
LEMMA BidKeeps ==
    ASSUME Kept, NEW g \in Guilds, NEW n \in Stakes, BidReserves(g, n) \/ BidReleases(g, n)
    PROVE  Kept'
<1>1. n \in Nat
  BY AmountAssumption
<1>2. \E d \in Int :
        /\ 0 <= reserved[g] + d /\ reserved[g] + d <= gold[g]
        /\ reserved[g] + d <= spent[g] + d /\ spent[g] + d <= DailyLimit
        /\ reserved' = [reserved EXCEPT ![g] = @ + d]
        /\ spent' = [spent EXCEPT ![g] = @ + d]
        /\ ledger' = [ledger EXCEPT ![g] = @ - d]
  <2>1. /\ gold[g] \in Nat /\ reserved[g] \in Nat /\ spent[g] \in Nat /\ ledger[g] \in Int
        /\ reserved[g] <= spent[g] /\ reserved[g] <= gold[g] /\ spent[g] <= DailyLimit
        /\ DailyLimit \in Nat
    BY AmountAssumption
       DEF Kept, Rows, TypeOK, Books, ReservedIsSpent, Solvent, WithinQuota
  <2>2. CASE BidReserves(g, n)
    <3>1. /\ reserved' = [reserved EXCEPT ![g] = @ + n]
          /\ spent' = [spent EXCEPT ![g] = @ + n]
          /\ ledger' = [ledger EXCEPT ![g] = @ - n]
      BY <2>2 DEF BidReserves
    <3>2. /\ 0 <= reserved[g] + n /\ reserved[g] + n <= gold[g]
          /\ reserved[g] + n <= spent[g] + n /\ spent[g] + n <= DailyLimit /\ n \in Int
      BY <1>1, <2>1, <2>2 DEF BidReserves, Affordable, Available
    <3>3. QED
      BY <3>1, <3>2
  <2>3. CASE BidReleases(g, n)
    <3>1. /\ reserved[g] - n = reserved[g] + (-n) /\ spent[g] - n = spent[g] + (-n)
          /\ ledger[g] + n = ledger[g] - (-n) /\ -n \in Int
      BY <1>1, <2>1
    <3>2. /\ reserved' = [reserved EXCEPT ![g] = @ + (-n)]
          /\ spent' = [spent EXCEPT ![g] = @ + (-n)]
          /\ ledger' = [ledger EXCEPT ![g] = @ - (-n)]
      BY <2>3, <3>1 DEF BidReleases
    <3>3. /\ 0 <= reserved[g] + (-n) /\ reserved[g] + (-n) <= gold[g]
          /\ reserved[g] + (-n) <= spent[g] + (-n) /\ spent[g] + (-n) <= DailyLimit
      BY <1>1, <2>1, <2>3 DEF BidReleases
    <3>4. QED
      BY <3>1, <3>2, <3>3
  <2>4. QED
    BY <2>2, <2>3
<1>3. PICK d \in Int :
        /\ 0 <= reserved[g] + d /\ reserved[g] + d <= gold[g]
        /\ reserved[g] + d <= spent[g] + d /\ spent[g] + d <= DailyLimit
        /\ reserved' = [reserved EXCEPT ![g] = @ + d]
        /\ spent' = [spent EXCEPT ![g] = @ + d]
        /\ ledger' = [ledger EXCEPT ![g] = @ - d]
  BY <1>2
<1>4. UNCHANGED <<gold, item, req>> /\ ~GuildLocked(g)
  BY DEF BidReserves, BidReleases
<1>5. /\ reserved'[g] = reserved[g] + d /\ spent'[g] = spent[g] + d /\ ledger'[g] = ledger[g] - d
      /\ \A h \in Guilds : h # g => /\ reserved'[h] = reserved[h] /\ spent'[h] = spent[h]
                                    /\ ledger'[h] = ledger[h]
  BY <1>3 DEF Kept, Rows, TypeOK
<1>6. TypeOK'
  BY <1>3, <1>4 DEF Kept, Rows, TypeOK, Books, ReservedIsSpent
<1>7. ItemsHeld' /\ ListingsMinted' /\ LegendaryUnpriced'
  BY <1>4 DEF Kept, Rows, ItemsHeld, ListingsMinted, LegendaryUnpriced, Holding, Minted
<1>8. WalletsHeld'
  <2>1. \A p \in Procs : Paying(p) => (req[p].guild # g /\ req[p].guild \in Guilds)
    BY <1>4, HoldingTyped DEF GuildLocked, Paying, Holding, Kept, Rows
  <2>2. \A p \in Procs : Paying(p) => Affordable(req[p].guild, req[p].price)'
    BY <1>4, <1>5, <2>1 DEF Kept, Rows, WalletsHeld, Affordable, Available
  <2>3. QED
    BY <1>4, <2>2 DEF Kept, Rows, WalletsHeld, Paying
<1>9. Books'
  BY <1>3, <1>4, <1>5
     DEF Kept, Rows, TypeOK, Books, ReservedIsSpent, Solvent, WithinQuota, LedgerExplains
<1>10. QED
  BY <1>6, <1>7, <1>8, <1>9 DEF Kept, Rows

\* A purchase commits: both locks have held, and the wallets it changes are
\* under its own lock (the buyer's) or under nobody's (the seller's).
LEMMA CommitKeeps ==
    ASSUME Kept, NEW p \in Procs, CommitPurchase(p)
    PROVE  Kept'
<1> DEFINE b == req[p]
<1>1. /\ b.guild \in Guilds /\ b.seller \in Guilds /\ b.item \in Items /\ b.price \in Nat
      /\ b.seller # b.guild /\ item[b.item] \in ItemRows /\ Holding(p) /\ Paying(p)
  BY HoldingTyped DEF Kept, Rows, CommitPurchase, Holding, Paying
<1>2. /\ gold[b.guild] - reserved[b.guild] >= b.price
      /\ spent[b.guild] + b.price <= DailyLimit
      /\ gold[b.guild] >= b.price
  BY <1>1 DEF Kept, Rows, WalletsHeld, Affordable, Available, CommitPurchase
<1>3. /\ gold' = [gold EXCEPT ![b.guild] = @ - b.price, ![b.seller] = @ + b.price]
      /\ ledger' = [ledger EXCEPT ![b.guild] = @ - b.price, ![b.seller] = @ + b.price]
      /\ spent' = [spent EXCEPT ![b.guild] = @ + b.price]
      /\ item' = [item EXCEPT ![b.item].owner = b.guild, ![b.item].status = "sold"]
      /\ req' = [req EXCEPT ![p] = Idle]
      /\ reserved' = reserved
  BY DEF CommitPurchase, Charged, Logged
<1>4. /\ gold'[b.guild] = gold[b.guild] - b.price /\ gold'[b.seller] = gold[b.seller] + b.price
      /\ ledger'[b.guild] = ledger[b.guild] - b.price
      /\ ledger'[b.seller] = ledger[b.seller] + b.price
      /\ \A h \in Guilds \ {b.guild, b.seller} : gold'[h] = gold[h] /\ ledger'[h] = ledger[h]
  BY <1>1, <1>3 DEF Kept, Rows, TypeOK
<1>5. /\ spent'[b.guild] = spent[b.guild] + b.price
      /\ \A h \in Guilds \ {b.guild} : spent'[h] = spent[h]
  BY <1>1, <1>3 DEF Kept, Rows, TypeOK
<1>6. /\ item' \in [Items -> ItemRows \cup {Unminted}]
      /\ item'[b.item] \in ItemRows /\ item'[b.item].price = item[b.item].price
      /\ \A j \in Items : j # b.item => item'[j] = item[j]
  <2> DEFINE r == [item[b.item] EXCEPT !.owner = b.guild, !.status = "sold"]
  <2>1. r \in ItemRows /\ r.price = item[b.item].price
    BY <1>1 DEF ItemRows
  <2>2. item' = [item EXCEPT ![b.item] = r]
    BY <1>1, <1>3 DEF Kept, Rows, TypeOK
  <2> HIDE DEF r
  <2>3. QED
    BY <1>1, <2>1, <2>2 DEF Kept, Rows, TypeOK
<1>7. /\ req'[p] = Idle /\ ~Holding(p)' /\ ~Paying(p)'
      /\ \A q \in Procs : q # p => req'[q] = req[q]
  BY <1>3 DEF Kept, Rows, TypeOK, Holding, Paying, Idle
<1>8. TypeOK'
  <2>1. gold' \in [Guilds -> Nat]
    BY <1>1, <1>2, <1>3, <1>4 DEF Kept, Rows, TypeOK
  <2>2. spent' \in [Guilds -> Nat] /\ ledger' \in [Guilds -> Int]
    BY <1>1, <1>3 DEF Kept, Rows, TypeOK
  <2>3. req' \in [Procs -> Requests \cup {Idle}]
    BY <1>3 DEF Kept, Rows, TypeOK
  <2>4. QED
    BY <1>3, <1>6, <2>1, <2>2, <2>3 DEF Kept, Rows, TypeOK
<1>9. \A q \in Procs : Holding(q)' => /\ Holding(q) /\ req'[q] = req[q] /\ q # p
                                      /\ req[q].item # b.item /\ req[q].item \in Items
  BY <1>1, <1>7, HoldingTyped DEF Kept, Rows, ItemsHeld, Holding
<1>10. ItemsHeld'
  <2>1. \A q \in Procs : Holding(q)' => item'[req[q].item] = item[req[q].item]
    BY <1>6, <1>9
  <2>2. QED
    BY <1>9, <2>1 DEF Kept, Rows, ItemsHeld
<1>11. \A q \in Procs : Paying(q)' => /\ Paying(q) /\ req'[q] = req[q] /\ req[q].guild \in Guilds
                                      /\ req[q].guild # b.guild /\ req[q].guild # b.seller
  <2>1. \A q \in Procs : Paying(q) => req[q].guild # b.seller
    BY DEF CommitPurchase, GuildLocked, Paying
  <2>2. \A q \in Procs : (Paying(q) /\ q # p) => req[q].guild # b.guild
    BY <1>1 DEF Kept, Rows, WalletsHeld
  <2>3. QED
    BY <1>7, <2>1, <2>2, HoldingTyped DEF Kept, Rows, Paying, Holding
<1>12. WalletsHeld'
  <2>1. \A q \in Procs : Paying(q)' =>
          /\ gold'[req[q].guild] = gold[req[q].guild] /\ spent'[req[q].guild] = spent[req[q].guild]
    BY <1>4, <1>5, <1>11
  <2>2. reserved' = reserved
    BY <1>3
  <2>3. \A q \in Procs : Paying(q)' => Affordable(req[q].guild, req[q].price)'
    BY <1>11, <2>1, <2>2 DEF Kept, Rows, WalletsHeld, Affordable, Available
  <2>4. \A a, q \in Procs : (Paying(a)' /\ Paying(q)' /\ req'[q].guild = req'[a].guild) => q = a
    BY <1>11 DEF Kept, Rows, WalletsHeld
  <2>5. QED
    BY <2>3, <2>4 DEF WalletsHeld
<1>13. Minted' = Minted
  <2>1. \A r \in ItemRows : r.status # "absent"
    BY DEF ItemRows
  <2>2. Unminted \notin ItemRows
    BY <2>1 DEF Unminted
  <2>3. QED
    BY <1>1, <1>6, <2>2 DEF Minted
<1>14. ListingsMinted'
  BY <1>7, <1>13 DEF Kept, Rows, ListingsMinted, Idle
<1>15. LegendaryUnpriced'
  BY <1>6, <1>13 DEF Kept, Rows, LegendaryUnpriced, Minted
<1>16. Books'
  <2> SUFFICES ASSUME NEW h \in Guilds
               PROVE  /\ reserved'[h] <= spent'[h] /\ reserved'[h] <= gold'[h]
                      /\ spent'[h] <= DailyLimit /\ gold'[h] - reserved'[h] = ledger'[h]
    BY DEF Books, ReservedIsSpent, Solvent, WithinQuota, LedgerExplains
  <2>1. /\ gold[h] \in Nat /\ reserved[h] \in Nat /\ spent[h] \in Nat /\ ledger[h] \in Int
        /\ reserved[h] <= spent[h] /\ reserved[h] <= gold[h] /\ spent[h] <= DailyLimit
        /\ gold[h] - reserved[h] = ledger[h] /\ DailyLimit \in Nat
    BY AmountAssumption
       DEF Kept, Rows, TypeOK, Books, ReservedIsSpent, Solvent, WithinQuota, LedgerExplains
  <2>2. reserved'[h] = reserved[h]
    BY <1>3
  <2>3. CASE h = b.guild
    <3>1. /\ gold'[h] = gold[h] - b.price /\ ledger'[h] = ledger[h] - b.price
          /\ spent'[h] = spent[h] + b.price
          /\ gold[h] - reserved[h] >= b.price /\ spent[h] + b.price <= DailyLimit
      BY <1>2, <1>4, <1>5, <2>3
    <3>2. QED
      BY <1>1, <2>1, <2>2, <3>1
  <2>4. CASE h = b.seller
    <3>1. /\ gold'[h] = gold[h] + b.price /\ ledger'[h] = ledger[h] + b.price
          /\ spent'[h] = spent[h]
      BY <1>1, <1>4, <1>5, <2>4
    <3>2. QED
      BY <1>1, <2>1, <2>2, <3>1
  <2>5. CASE h \notin {b.guild, b.seller}
    <3>1. gold'[h] = gold[h] /\ ledger'[h] = ledger[h] /\ spent'[h] = spent[h]
      BY <1>4, <1>5, <2>5
    <3>2. QED
      BY <2>1, <2>2, <3>1
  <2>6. QED
    BY <2>3, <2>4, <2>5
<1>17. QED
  BY <1>8, <1>10, <1>12, <1>14, <1>15, <1>16 DEF Kept, Rows

\* Kept is inductive.
LEMMA StepKeeps == Kept /\ [Next]_vars => Kept'
<1> SUFFICES ASSUME Kept, [Next]_vars PROVE Kept'
  OBVIOUS
<1>1. CASE UNCHANGED vars
  BY <1>1 DEF vars, Kept, Rows, Books, TypeOK, ItemsHeld, WalletsHeld, ListingsMinted,
              LegendaryUnpriced, ReservedIsSpent, Solvent, WithinQuota, LedgerExplains,
              Holding, Paying, Minted, Affordable, Available
<1>2. CASE \E g \in Guilds, i \in Items : Mint(g, i) \/ \E n \in Prices : MintPriced(g, i, n)
  BY <1>2, MintKeeps
<1>3. CASE \E p \in Procs : Listing(p) \/ Buying(p) \/ Abort(p)
  BY <1>3, RequestKeeps, UnderLockKeeps, LockItemKeeps, LockBuyerKeeps, CommitKeeps
     DEF Listing, Buying
<1>4. CASE \E g \in Guilds, n \in Stakes : BidReserves(g, n) \/ BidReleases(g, n)
  BY <1>4, BidKeeps
<1>5. CASE \E i \in Items : CancelUnsold(i)
  BY <1>5, UnderLockKeeps
<1>6. QED
  BY <1>1, <1>2, <1>3, <1>4, <1>5 DEF Next

\* Kept holds throughout.
THEOREM AlwaysKept == Spec => []Kept
<1>1. QED
  BY InitKept, StepKeeps, PTL DEF Spec

-----------------------------------------------------------------------------
(* What follows from it.                                                   *)

\* Rows and requests keep the shape of the schema: no balance, reservation or
\* quota goes below zero.
THEOREM TypesKept == Spec => []TypeOK
<1>1. Kept => TypeOK
  BY DEF Kept, Rows
<1>2. QED
  BY AlwaysKept, <1>1, PTL

\* Purchases and bids never promise the same gold twice.
THEOREM AlwaysSolvent == Spec => []Solvent
<1>1. Kept => Solvent
  BY DEF Kept, Books
<1>2. QED
  BY AlwaysKept, <1>1, PTL

\* Purchases and bids never exceed the day's quota together.
THEOREM QuotaKept == Spec => []WithinQuota
<1>1. Kept => WithinQuota
  BY DEF Kept, Books
<1>2. QED
  BY AlwaysKept, <1>1, PTL

\* The log of a guild explains its available gold.
THEOREM LedgerKept == Spec => []LedgerExplains
<1>1. Kept => LedgerExplains
  BY DEF Kept, Books
<1>2. QED
  BY AlwaysKept, <1>1, PTL

\* Only a purchase moves gold, and what its buyer loses its seller gets.
LEMMA GoldMoves ==
    ASSUME Kept, [Next]_vars
    PROVE  SumFunctionOnSet(gold', Guilds) = SumFunctionOnSet(gold, Guilds)
<1>1. CASE UNCHANGED gold
  BY <1>1
<1>2. CASE \E p \in Procs : CommitPurchase(p)
  <2>1. PICK p \in Procs : CommitPurchase(p)
    BY <1>2
  <2> DEFINE b == req[p]
             half == [gold EXCEPT ![b.guild] = @ - b.price]
  <2>2. /\ b.guild \in Guilds /\ b.seller \in Guilds /\ b.price \in Nat /\ b.seller # b.guild
    BY <2>1, HoldingTyped DEF Kept, Rows, CommitPurchase, Holding
  <2>3. gold \in [Guilds -> Int] /\ gold' = [half EXCEPT ![b.seller] = @ + b.price]
    BY <2>1, <2>2 DEF Kept, Rows, TypeOK, CommitPurchase, Charged
  <2>4. /\ half \in [Guilds -> Int] /\ half[b.guild] = gold[b.guild] - b.price
        /\ \A g \in Guilds : g # b.guild => half[g] = gold[g]
    BY <2>2, <2>3
  <2>5. /\ gold' \in [Guilds -> Int] /\ gold'[b.seller] = half[b.seller] + b.price
        /\ \A g \in Guilds : g # b.seller => gold'[g] = half[g]
    <3> HIDE DEF half
    <3>1. QED
      BY <2>2, <2>3, <2>4
  <2> HIDE DEF half
  <2>6. SumFunctionOnSet(half, Guilds)
          = SumFunctionOnSet(gold, Guilds) + half[b.guild] - gold[b.guild]
    <3>1. gold \in [Guilds -> Int]
      BY <2>3
    <3>2. QED
      BY <2>2, <2>4, <3>1, SumUpdate, SetAssumption
  <2>7. SumFunctionOnSet(gold', Guilds)
          = SumFunctionOnSet(half, Guilds) + gold'[b.seller] - half[b.seller]
    BY <2>2, <2>4, <2>5, SumUpdate, SetAssumption
  <2>8. /\ SumFunctionOnSet(gold, Guilds) \in Int
        /\ gold[b.guild] \in Int /\ half[b.seller] \in Int
    BY <2>2, <2>3, <2>4, SumType, SetAssumption
  <2>9. QED
    BY <2>2, <2>4, <2>5, <2>6, <2>7, <2>8
<1>3. UNCHANGED gold \/ \E p \in Procs : CommitPurchase(p)
  BY DEF Next, vars, money, Mint, MintPriced, Listing, ReadForListing, List, Buying, LockItem,
         LockBuyer, Abort, BidReserves, BidReleases, CancelUnsold
<1>4. QED
  BY <1>1, <1>2, <1>3

\* Purchases make no gold: the guilds together have what they deposited.
THEOREM GoldKept == Spec => []GoldConserved
<1>1. Init => GoldConserved
  <2> SUFFICES ASSUME Init PROVE GoldConserved
    OBVIOUS
  <2>1. gold \in [Guilds -> Int] /\ \A g \in Guilds : gold[g] = InitialGold
    BY AmountAssumption DEF Init
  <2>2. SumFunctionOnSet(gold, Guilds) = InitialGold * Cardinality(Guilds)
    BY <2>1, SumConst, SetAssumption, AmountAssumption
  <2>3. QED
    BY <2>2 DEF GoldConserved
<1>2. Kept /\ GoldConserved /\ [Next]_vars => GoldConserved'
  BY GoldMoves DEF GoldConserved
<1>3. QED
  BY <1>1, <1>2, AlwaysKept, PTL DEF Spec

\* Owners change in a purchase only, and the purchase has held the item since
\* it read it.
LEMMA OwnersChange ==
    ASSUME Kept, [Next]_vars, NEW i \in Minted, item'[i].owner # item[i].owner
    PROVE  \E p \in Procs : CommitPurchase(p) /\ req[p].item = i
<1>1. i \in Items /\ item[i] \in ItemRows /\ item \in [Items -> ItemRows \cup {Unminted}]
  BY RowTyped DEF Kept, Rows, TypeOK, Minted
<1>2. CASE UNCHANGED item
  BY <1>2
<1>3. CASE \E g \in Guilds, j \in Items : Mint(g, j) \/ \E n \in Prices : MintPriced(g, j, n)
  BY <1>1, <1>3 DEF Mint, MintPriced
<1>4. CASE \E j \in Items, s \in {"available", "sold"} : item' = [item EXCEPT ![j].status = s]
  <2>1. PICK j \in Items, s \in {"available", "sold"} : item' = [item EXCEPT ![j].status = s]
    BY <1>4
  <2>2. CASE i = j
    <3>1. item'[i] = [item[i] EXCEPT !.status = s]
      BY <1>1, <2>1, <2>2
    <3>2. item'[i].owner = item[i].owner
      BY <1>1, <3>1 DEF ItemRows
    <3>3. QED
      BY <3>2
  <2>3. CASE i # j
    BY <1>1, <2>1, <2>3
  <2>4. QED
    BY <2>2, <2>3
<1>5. CASE \E p \in Procs : CommitPurchase(p)
  <2>1. PICK p \in Procs : CommitPurchase(p)
    BY <1>5
  <2>2. req[p].item # i => item'[i] = item[i]
    BY <1>1, <2>1 DEF CommitPurchase
  <2>3. QED
    BY <2>1, <2>2
<1>6. \/ UNCHANGED item
      \/ \E g \in Guilds, j \in Items : Mint(g, j) \/ \E n \in Prices : MintPriced(g, j, n)
      \/ \E j \in Items, s \in {"available", "sold"} : item' = [item EXCEPT ![j].status = s]
      \/ \E p \in Procs : CommitPurchase(p)
  <2>1. CASE \E p \in Procs : List(p)
    <3>1. PICK p \in Procs : List(p)
      BY <2>1
    <3>2. req[p].item \in Items
      BY <3>1 DEF Kept, Rows, ListingsMinted, List, Minted
    <3>3. QED
      BY <3>1, <3>2 DEF List
  <2>2. CASE \E j \in Items : CancelUnsold(j)
    BY <2>2 DEF CancelUnsold
  <2>3. CASE ~(\E p \in Procs : List(p)) /\ ~(\E j \in Items : CancelUnsold(j))
    BY <2>3 DEF Next, vars, Listing, ReadForListing, Buying, LockItem, LockBuyer, Abort,
                BidReserves, BidReleases
  <2>4. QED
    BY <2>1, <2>2, <2>3
<1>7. QED
  BY <1>2, <1>3, <1>4, <1>5, <1>6

\* An item changes hands only while it is on offer, and its owner of that
\* moment is paid: no item is sold twice.
THEOREM NeverSoldTwice == Spec => SoldOnce
<1> DEFINE Sale == \A i \in Items :
          (i \in Minted /\ item'[i].owner # item[i].owner) =>
             /\ item[i].status = "available"
             /\ gold'[item[i].owner] = gold[item[i].owner] + item[i].price
<1>1. ASSUME Kept, [Next]_vars, NEW i \in Minted, item'[i].owner # item[i].owner
      PROVE  /\ item[i].status = "available"
             /\ gold'[item[i].owner] = gold[item[i].owner] + item[i].price
  <2>1. PICK p \in Procs : CommitPurchase(p) /\ req[p].item = i
    BY <1>1, OwnersChange
  <2>2. /\ Holding(p) /\ req[p].guild \in Guilds /\ req[p].seller \in Guilds
        /\ req[p].seller # req[p].guild
    BY <1>1, <2>1, HoldingTyped DEF Kept, Rows, CommitPurchase, Holding
  <2>3. /\ item[i].status = "available" /\ item[i].price = req[p].price
        /\ item[i].owner = req[p].seller
    BY <1>1, <2>1, <2>2 DEF Kept, Rows, ItemsHeld
  <2>4. gold'[req[p].seller] = gold[req[p].seller] + req[p].price
    BY <1>1, <2>1, <2>2 DEF Kept, Rows, TypeOK, CommitPurchase, Charged
  <2>5. QED
    BY <2>3, <2>4
<1>2. Kept /\ [Next]_vars => [Sale]_vars
  BY <1>1
<1>3. QED
  BY AlwaysKept, <1>2, PTL DEF Spec, SoldOnce

\* No legendary item changes hands in a direct sale: it never has a price.
THEOREM LegendaryKept == Spec => LegendaryOnlyAuctioned
<1> DEFINE Stays == \A i \in Minted \cap Legendary : item'[i].owner = item[i].owner
<1>1. ASSUME Kept, [Next]_vars, NEW i \in Minted \cap Legendary
      PROVE  item'[i].owner = item[i].owner
  <2> SUFFICES ASSUME item'[i].owner # item[i].owner PROVE FALSE
    OBVIOUS
  <2>1. PICK p \in Procs : CommitPurchase(p) /\ req[p].item = i
    BY <1>1, OwnersChange
  <2>2. item[i].price # 0
    BY <1>1, <2>1 DEF Kept, Rows, ItemsHeld, CommitPurchase, Holding
  <2>3. QED
    BY <1>1, <2>2 DEF Kept, Rows, LegendaryUnpriced
<1>2. Kept /\ [Next]_vars => [Stays]_vars
  BY <1>1
<1>3. QED
  BY AlwaysKept, <1>2, PTL DEF Spec, LegendaryOnlyAuctioned
=============================================================================
