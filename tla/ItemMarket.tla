----------------------------- MODULE ItemMarket -----------------------------
(***************************************************************************)
(* Direct sales: guilds mint items, list the common and rare ones, and buy *)
(* what others have listed.  Both kinds of row locks are steps here: a     *)
(* purchase locks the item, looks at it, locks the buyer's guild, looks at *)
(* the wallet, and commits.  In between come other purchases of the same   *)
(* guild or of the same item, and the auctions, which draw on the same     *)
(* wallets.  All of it happens within one calendar day.                    *)
(*                                                                         *)
(* ListForSale takes a price and writes none, so an item has one only if   *)
(* somebody put it into the table by hand, as the integration tests do     *)
(* (MintPriced).  Whoever buys it may list it again for the old price.     *)
(***************************************************************************)
EXTENDS Integers, FiniteSets, Functions

CONSTANTS
    Guilds,
    Items, Legendary,  \* item ids, and those minted with type 'legendary'
    Procs,             \* requests that can be in flight together
    Prices,            \* the list prices set by hand
    Stakes,            \* the amounts that bids reserve
    InitialGold,       \* what each guild has deposited
    DailyLimit         \* guilds.daily_limit

ASSUME SetAssumption == Legendary \subseteq Items /\ IsFiniteSet(Guilds)
ASSUME AmountAssumption ==
    /\ Prices \subseteq Nat \ {0} /\ Stakes \subseteq Nat \ {0}
    /\ InitialGold \in Nat /\ DailyLimit \in Nat \ {0}

VARIABLES
    gold,      \* guilds.gold_balance
    reserved,  \* a guild's active bids on all auctions
    spent,     \* daily_purchases.total_spent
    ledger,    \* the sum of a guild's wallet_transactions
    item,      \* items, by id
    req        \* the request each process is serving

vars == <<gold, reserved, spent, ledger, item, req>>
money == <<gold, reserved, spent, ledger>>

-----------------------------------------------------------------------------
Unminted == [status |-> "absent"]
\* A price of 0 is a NULL list_price.
ItemRows == [owner : Guilds, status : {"available", "sold"}, price : Nat]
Minted == {i \in Items : item[i] # Unminted}

Idle == [pc |-> "idle"]
Requests == [pc : {"listing", "buying", "paying"}, guild : Guilds, item : Items,
             seller : Guilds, price : Nat]

Init ==
    /\ gold = [g \in Guilds |-> InitialGold]
    /\ reserved = [g \in Guilds |-> 0]
    /\ spent = [g \in Guilds |-> 0]
    /\ ledger = [g \in Guilds |-> InitialGold]
    /\ item = [i \in Items |-> Unminted]
    /\ req = [p \in Procs |-> Idle]

\* Mutant: a row is read without FOR UPDATE.
NeverLocked(r) == FALSE

\* FOR UPDATE locks, on the item from the first statement of a purchase, on
\* the buyer's guild from the second
ItemLocked(i) == \E p \in Procs : req[p].pc \in {"buying", "paying"} /\ req[p].item = i
GuildLocked(g) == \E p \in Procs : req[p].pc = "paying" /\ req[p].guild = g

\* GetWalletSummary
Available(g) == gold[g] - reserved[g]

-----------------------------------------------------------------------------
(* CreateItem, and listing.                                                *)

Mint(g, i) ==
    /\ i \notin Minted
    /\ item' = [item EXCEPT ![i] = [owner |-> g, status |-> "sold", price |-> 0]]
    /\ UNCHANGED <<money, req>>

MintPriced(g, i, n) ==
    /\ i \notin Minted \cup Legendary
    /\ item' = [item EXCEPT ![i] = [owner |-> g, status |-> "available", price |-> n]]
    /\ UNCHANGED <<money, req>>

\* Owner and type are checked on an unlocked read.
ReadForListing(p) ==
    /\ req[p] = Idle
    /\ \E i \in Minted \ Legendary :
         req' = [req EXCEPT ![p] = [pc |-> "listing", guild |-> item[i].owner, item |-> i,
                                    seller |-> item[i].owner, price |-> 0]]
    /\ UNCHANGED <<money, item>>

\* ListForSale: under the lock only the status is asked, and only the status
\* is written.
List(p) ==
    /\ req[p].pc = "listing" /\ ~ItemLocked(req[p].item)
    /\ item' = IF item[req[p].item].status = "sold"
                 THEN [item EXCEPT ![req[p].item].status = "available"] ELSE item
    /\ req' = [req EXCEPT ![p] = Idle]
    /\ UNCHANGED money

-----------------------------------------------------------------------------
(* BuyItemDirectly: PurchaseLimitOrder.                                    *)

\* Mutant: the price of a NULL is 0.
BuyableUnpriced(i, g) == item[i].status = "available" /\ item[i].owner # g

\* What the purchase asks of the item it has locked; its type is not asked.
Buyable(i, g) == item[i].status = "available" /\ item[i].price # 0 /\ item[i].owner # g

LockItem(p) ==
    /\ req[p] = Idle
    /\ \E i \in Minted, g \in Guilds :
         /\ ~ItemLocked(i) /\ Buyable(i, g)
         /\ req' = [req EXCEPT ![p] = [pc |-> "buying", guild |-> g, item |-> i,
                                       seller |-> item[i].owner, price |-> item[i].price]]
    /\ UNCHANGED <<money, item>>

\* Mutant: the quota is looked at, the price is not.
AffordableWithin(g, n) == Available(g) >= n /\ spent[g] < DailyLimit

\* The wallet and the quota, read under the lock of the buyer's guild
Affordable(g, n) == Available(g) >= n /\ spent[g] + n <= DailyLimit

LockBuyer(p) ==
    /\ req[p].pc = "buying" /\ ~GuildLocked(req[p].guild)
    /\ req' = [req EXCEPT ![p] = IF Affordable(@.guild, @.price)
                                   THEN [@ EXCEPT !.pc = "paying"] ELSE Idle]
    /\ UNCHANGED <<money, item>>

\* Mutants: the seller is paid and the buyer is not charged; only the buyer's
\* side is logged.
PaidNotCharged(b) == [gold EXCEPT ![b.seller] = @ + b.price]
LoggedOnce(b) == [ledger EXCEPT ![b.guild] = @ - b.price]

\* What purchase b makes of the wallets and of the log
Charged(b) == [gold EXCEPT ![b.guild] = @ - b.price, ![b.seller] = @ + b.price]
Logged(b) == [ledger EXCEPT ![b.guild] = @ - b.price, ![b.seller] = @ + b.price]

\* UpdateGuildBalance leaves no balance below zero, and waits for whoever
\* holds the seller's row.
CommitPurchase(p) ==
    LET b == req[p] IN
    /\ b.pc = "paying" /\ gold[b.guild] >= b.price /\ ~GuildLocked(b.seller)
    /\ gold' = Charged(b) /\ ledger' = Logged(b)
    /\ spent' = [spent EXCEPT ![b.guild] = @ + b.price]
    /\ item' = [item EXCEPT ![b.item].owner = b.guild, ![b.item].status = "sold"]
    /\ req' = [req EXCEPT ![p] = Idle]
    /\ UNCHANGED reserved

\* A lost connection, a cancelled context, or the victim of a deadlock: two
\* purchases wait for each other when each one's buyer is the other's seller.
Abort(p) ==
    /\ req[p] # Idle
    /\ req' = [req EXCEPT ![p] = Idle]
    /\ UNCHANGED <<money, item>>

-----------------------------------------------------------------------------
(* The auctions, as far as they touch what a direct sale looks at.         *)

\* PlaceBidTransaction for the bidder, under the lock of its guild
BidReserves(g, n) ==
    /\ ~GuildLocked(g) /\ Affordable(g, n)
    /\ reserved' = [reserved EXCEPT ![g] = @ + n]
    /\ spent' = [spent EXCEPT ![g] = @ + n]
    /\ ledger' = [ledger EXCEPT ![g] = @ - n]
    /\ UNCHANGED <<gold, item, req>>

\* Mutant: released whether its bid is still active or not.
ReleaseAnyway(g, n) ==
    /\ ~GuildLocked(g)
    /\ reserved' = [reserved EXCEPT ![g] = @ - n]
    /\ spent' = [spent EXCEPT ![g] = @ - n]
    /\ ledger' = [ledger EXCEPT ![g] = @ + n]
    /\ UNCHANGED <<gold, item, req>>

\* PlaceBidTransaction for the leader it outbids, with the quota constraint
\* judged on the result.  The log row points to that guild, and waits for its
\* lock.
BidReleases(g, n) ==
    /\ ~GuildLocked(g) /\ reserved[g] >= n
    /\ reserved' = [reserved EXCEPT ![g] = @ - n]
    /\ spent' = [spent EXCEPT ![g] = @ - n]
    /\ ledger' = [ledger EXCEPT ![g] = @ + n]
    /\ UNCHANGED <<gold, item, req>>

\* FinalizeExpiredAuction without a bid: the legendary item becomes available.
CancelUnsold(i) ==
    /\ i \in Minted \cap Legendary /\ ~ItemLocked(i)
    /\ item' = [item EXCEPT ![i].status = "available"]
    /\ UNCHANGED <<money, req>>

-----------------------------------------------------------------------------
Listing(p) == ReadForListing(p) \/ List(p)
Buying(p) == LockItem(p) \/ LockBuyer(p) \/ CommitPurchase(p)

Next ==
    \/ \E g \in Guilds, i \in Items : Mint(g, i) \/ \E n \in Prices : MintPriced(g, i, n)
    \/ \E p \in Procs : Listing(p) \/ Buying(p) \/ Abort(p)
    \/ \E g \in Guilds, n \in Stakes : BidReserves(g, n) \/ BidReleases(g, n)
    \/ \E i \in Items : CancelUnsold(i)

Spec == Init /\ [][Next]_vars

-----------------------------------------------------------------------------
(* Properties.                                                             *)

\* Rows and requests are of the shape of the schema.
TypeOK ==
    /\ gold \in [Guilds -> Nat] /\ reserved \in [Guilds -> Nat]
    /\ spent \in [Guilds -> Nat] /\ ledger \in [Guilds -> Int]
    /\ item \in [Items -> ItemRows \cup {Unminted}]
    /\ req \in [Procs -> Requests \cup {Idle}]

\* Purchases of one guild, on items with locks of their own, and its bids never
\* promise the same gold twice (ADR section 3, Quota Race Mitigation).
Solvent == \A g \in Guilds : reserved[g] <= gold[g]

\* Nor do they together exceed the day's quota.
WithinQuota == \A g \in Guilds : spent[g] <= DailyLimit

\* Every shift of a guild's available gold by a purchase or a bid is in its
\* wallet_transactions, on both sides of a sale.
LedgerExplains == \A g \in Guilds : gold[g] - reserved[g] = ledger[g]

\* Purchases move gold between guilds and make none.
GoldConserved == SumFunctionOnSet(gold, Guilds) = InitialGold * Cardinality(Guilds)

\* An item changes hands only while it is on offer, and the guild that owns it
\* at that moment is the one that is paid: it is never sold twice by two
\* purchases that both found it available (ADR section 3).
SoldOnce ==
    [][\A i \in Items :
          (i \in Minted /\ item'[i].owner # item[i].owner) =>
             /\ item[i].status = "available"
             /\ gold'[item[i].owner] = gold[item[i].owner] + item[i].price]_vars

\* A legendary item is never sold directly (ADR section 2), although the
\* purchase does not ask for the type and an unsold auction leaves the item
\* available: what keeps it is that it never has a price.
LegendaryOnlyAuctioned ==
    [][\A i \in Minted \cap Legendary : item'[i].owner = item[i].owner]_vars
=============================================================================
