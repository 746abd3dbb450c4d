------------------------------ MODULE RowLocks ------------------------------
(***************************************************************************)
(* The transactions of the marketplace as PostgreSQL sees them: which rows *)
(* each one locks, in which mode and in which order, and who waits for     *)
(* whom.  AuctionHouse takes what happens under a guild's row lock as one  *)
(* step; here is why it may, and what the locks cost.                      *)
(*                                                                         *)
(* A transaction begins here when the row it is about is granted: what     *)
(* waits with nothing in hand is in nobody's way.  It looks at that row,   *)
(* and from then on goes through a plan of further locks: FOR UPDATE where *)
(* a query says so, FOR NO KEY UPDATE where a row is updated, FOR KEY      *)
(* SHARE on the row a foreign key points to.  Locks it already holds are   *)
(* not listed again.  Prices and balances are left out: a transaction may  *)
(* fail for want of gold or quota.  So are the rows of daily_purchases:    *)
(* two transactions that write the same one hold a lock on its guild's row *)
(* already, and the one that wrote first waits for nothing any more.       *)
(***************************************************************************)
EXTENDS Integers, FiniteSets, Sequences

CONSTANTS
    Guilds, NoGuild,     \* guild ids, and the NULL of auctions.winner_id
    Auctions,            \* auction ids, a bound on the auctions ever created
    Items, Legendary,    \* item ids, and those of type 'legendary'
    Priced,              \* the items whose list_price is set
    FirstOwner,          \* [Items -> Guilds]
    Txs,                 \* transactions that can be open together
    Kinds,               \* the kinds of transactions that are started
    ChecksProposedRow    \* as in AuctionHouse

AllKinds == {"bid", "settle", "start", "buy", "list", "deposit", "mint"}

ASSUME RowAssumption == /\ Auctions \cap Guilds = {} /\ Items \cap Guilds = {}
                        /\ Auctions \cap Items = {} /\ NoGuild \notin Auctions \cup Items \cup Guilds
ASSUME OwnerAssumption == /\ FirstOwner \in [Items -> Guilds]
                          /\ Legendary \subseteq Items /\ Priced \subseteq Items \ Legendary
ASSUME KindAssumption == Kinds \subseteq AllKinds /\ ChecksProposedRow \in BOOLEAN

VARIABLES
    auction,  \* auctions: item, seller and leader, by id
    owner,    \* items.owner_id
    onOffer,  \* the items with status 'available'
    tx,       \* what each transaction is doing
    held      \* the row locks it holds

vars == <<auction, owner, onOffer, tx, held>>
tables == <<auction, owner, onOffer>>

-----------------------------------------------------------------------------
Rows == Auctions \cup Items \cup Guilds
Locks == [row : Rows, mode : {"Update", "NoKeyUpdate", "KeyShare", "Insert"}]

Update(r) == [row |-> r, mode |-> "Update"]
NoKeyUpdate(r) == [row |-> r, mode |-> "NoKeyUpdate"]
KeyShare(r) == [row |-> r, mode |-> "KeyShare"]
\* The entry of an item in idx_one_active_auction_per_item
Insert(r) == [row |-> r, mode |-> "Insert"]

Conflicting == {{"Update"}, {"Update", "NoKeyUpdate"}, {"Update", "KeyShare"},
                {"NoKeyUpdate"}, {"Insert"}}
Conflict(k, l) == k.row = l.row /\ {k.mode, l.mode} \in Conflicting

NoAuction == [status |-> "absent"]
AuctionRows == [status : {"active", "closed"}, item : Items, seller : Guilds,
                leader : Guilds \cup {NoGuild}]

\* A transaction is about a row, acts for a guild, and has a plan.
Idle == [kind |-> "none", on |-> NoGuild, by |-> NoGuild, plan |-> <<>>]

Init ==
    /\ auction = [a \in Auctions |-> NoAuction]
    /\ owner = FirstOwner
    /\ onOffer = {}
    /\ tx = [t \in Txs |-> Idle]
    /\ held = [t \in Txs |-> {}]

-----------------------------------------------------------------------------
(* What each transaction locks.                                            *)

Existing == {a \in Auctions : auction[a] # NoAuction}
Active(a) == auction[a].status = "active"
OnSale(i) == \E a \in Existing : Active(a) /\ auction[a].item = i

First(k, r) == CASE k \in {"bid", "settle", "buy", "list", "deposit"} -> Update(r)
                 [] k = "start" -> Insert(r)
                 [] k = "mint" -> KeyShare(r)

\* What the code asks of the row it has just locked
Admits(k, r, g) ==
    CASE k = "bid" -> Active(r) /\ auction[r].seller # g /\ auction[r].leader # g
      [] k = "settle" -> Active(r)
      [] k = "start" -> ~OnSale(r)
      [] k = "buy" -> r \in onOffer \cap Priced /\ owner[r] # g
      [] k = "list" -> r \notin onOffer
      [] OTHER -> TRUE

HasLeader(a) == auction[a].leader # NoGuild

\* Mutants: the release of the leader is not logged; winner_id is used unseen.
BidUnlogged(a, g) == <<Update(g)>>
BidUnchecked(a, g) == <<Update(g), KeyShare(auction[a].leader)>>

\* The bidder, then the log entry of the leader who is released
BidPlan(a, g) ==
    IF HasLeader(a) THEN <<Update(g), KeyShare(auction[a].leader)>> ELSE <<Update(g)>>

\* Mutant: the winner is locked FOR UPDATE, as bidders and buyers are.
SettleLocked(a) ==
    IF HasLeader(a)
      THEN <<NoKeyUpdate(auction[a].item), Update(auction[a].leader),
             NoKeyUpdate(auction[a].seller)>>
      ELSE <<NoKeyUpdate(auction[a].item)>>

\* The item and its new owner, then the balance of the seller
SettlePlan(a) ==
    IF HasLeader(a)
      THEN <<NoKeyUpdate(auction[a].item), KeyShare(auction[a].leader),
             NoKeyUpdate(auction[a].seller)>>
      ELSE <<NoKeyUpdate(auction[a].item)>>

\* The buyer, then the balance of the seller
BuyPlan(i, g) == <<Update(g), NoKeyUpdate(owner[i])>>

\* The new row's foreign keys
StartPlan(i, g) == <<KeyShare(i), KeyShare(g)>>

Plan(k, r, g) == CASE k = "bid" -> BidPlan(r, g)
                   [] k = "settle" -> SettlePlan(r)
                   [] k = "buy" -> BuyPlan(r, g)
                   [] k = "start" -> StartPlan(r, g)
                   [] OTHER -> <<>>

-----------------------------------------------------------------------------
(* The life of a transaction.                                              *)

End(t) == tx' = [tx EXCEPT ![t] = Idle] /\ held' = [held EXCEPT ![t] = {}]

\* The row the transaction is about is locked and looked at; when it is not
\* what the code asks for, the transaction ends there.
Begin(t, k, r, g) ==
    /\ tx[t] = Idle /\ k \in Kinds
    /\ Admits(k, r, g)
    /\ \A u \in Txs : \A l \in held[u] : ~Conflict(l, First(k, r))
    /\ tx' = [tx EXCEPT ![t] = [kind |-> k, on |-> r, by |-> g, plan |-> Plan(k, r, g)]]
    /\ held' = [held EXCEPT ![t] = {First(k, r)}]
    /\ UNCHANGED tables

\* Owners are read before the lock, so they may be of the past.
Request(t) ==
    \/ \E a \in Existing : \/ \E g \in Guilds : Begin(t, "bid", a, g)
                           \/ Begin(t, "settle", a, NoGuild)
    \/ \E i \in Legendary, g \in Guilds : Begin(t, "start", i, g)
    \/ \E i \in Items \ Legendary, g \in Guilds : Begin(t, "list", i, g)
    \/ \E i \in Items, g \in Guilds : Begin(t, "buy", i, g)
    \/ \E g \in Guilds : Begin(t, "deposit", g, g) \/ Begin(t, "mint", g, g)

\* The lock t asks for next, and those it waits for
Wanted(t) == Head(tx[t].plan)
Blockers(t) == {u \in Txs \ {t} : \E l \in held[u] : Conflict(l, Wanted(t))}
Waits(t, u) == tx[t].plan # <<>> /\ u \in Blockers(t)
Blocked(t) == tx[t].plan # <<>> /\ Blockers(t) # {}

LockNext(t) ==
    /\ tx[t].plan # <<>> /\ ~Blocked(t)
    /\ tx' = [tx EXCEPT ![t].plan = Tail(@)]
    /\ held' = [held EXCEPT ![t] = @ \cup {Wanted(t)}]
    /\ UNCHANGED tables

\* The negative quota is refused, and with it every later statement.
Doomed(t) == ChecksProposedRow /\ tx[t].kind = "bid" /\ HasLeader(tx[t].on)

Ready(t) == tx[t] # Idle /\ tx[t].plan = <<>>

\* Too little gold or quota, a lost connection, a cancelled context
Rollback(t) ==
    /\ tx[t] # Idle
    /\ End(t)
    /\ UNCHANGED tables

\* PostgreSQL ends one transaction of a circle of waiting ones.
InCycle(t) ==
    /\ Blocked(t)
    /\ \E n \in 2..Cardinality(Txs) : \E c \in [1..n -> Txs] :
         c[1] = t /\ Waits(c[n], t) /\ \A k \in 1..(n - 1) : Waits(c[k], c[k + 1])

Victim(t) ==
    /\ InCycle(t)
    /\ End(t)
    /\ UNCHANGED tables

CommitBid(t) ==
    /\ Ready(t) /\ tx[t].kind = "bid" /\ ~Doomed(t)
    /\ auction' = [auction EXCEPT ![tx[t].on].leader = tx[t].by]
    /\ End(t)
    /\ UNCHANGED <<owner, onOffer>>

CommitSettlement(t) ==
    LET a == tx[t].on
        i == auction[a].item IN
    /\ Ready(t) /\ tx[t].kind = "settle"
    /\ auction' = [auction EXCEPT ![a].status = "closed"]
    /\ IF HasLeader(a)
         THEN owner' = [owner EXCEPT ![i] = auction[a].leader] /\ onOffer' = onOffer \ {i}
         ELSE onOffer' = onOffer \cup {i} /\ UNCHANGED owner
    /\ End(t)

CommitStart(t) ==
    /\ Ready(t) /\ tx[t].kind = "start"
    /\ \E a \in Auctions \ Existing :
         auction' = [auction EXCEPT ![a] = [status |-> "active", item |-> tx[t].on,
                                            seller |-> tx[t].by, leader |-> NoGuild]]
    /\ End(t)
    /\ UNCHANGED <<owner, onOffer>>

CommitPurchase(t) ==
    /\ Ready(t) /\ tx[t].kind = "buy"
    /\ owner' = [owner EXCEPT ![tx[t].on] = tx[t].by]
    /\ onOffer' = onOffer \ {tx[t].on}
    /\ End(t)
    /\ UNCHANGED auction

CommitListing(t) ==
    /\ Ready(t) /\ tx[t].kind = "list"
    /\ onOffer' = onOffer \cup {tx[t].on}
    /\ End(t)
    /\ UNCHANGED <<auction, owner>>

\* A deposit, or a new item
CommitOther(t) ==
    /\ Ready(t) /\ tx[t].kind \in {"deposit", "mint"}
    /\ End(t)
    /\ UNCHANGED tables

Commit(t) == \/ CommitBid(t) \/ CommitSettlement(t) \/ CommitStart(t)
             \/ CommitPurchase(t) \/ CommitListing(t) \/ CommitOther(t)

Next == \E t \in Txs : \/ Request(t) \/ LockNext(t)
                       \/ Rollback(t) \/ Victim(t) \/ Commit(t)

Spec == Init /\ [][Next]_vars

-----------------------------------------------------------------------------
(* Properties.                                                             *)

\* Rows, plans and locks are of the shape of the schema; no lock is ever asked
\* for on a NULL.
Transactions == [kind : AllKinds, on : Rows, by : Guilds \cup {NoGuild},
                 plan : Seq(Locks)]
TypeOK ==
    /\ auction \in [Auctions -> AuctionRows \cup {NoAuction}]
    /\ owner \in [Items -> Guilds] /\ onOffer \subseteq Items
    /\ tx \in [Txs -> Transactions \cup {Idle}]
    /\ held \in [Txs -> SUBSET Locks]

\* The guilds whose gold, reservations, quota or log the commit of t changes
Wallets(t) ==
    CASE tx[t].kind = "bid" -> {tx[t].by, auction[tx[t].on].leader} \ {NoGuild}
      [] tx[t].kind = "settle" /\ HasLeader(tx[t].on) -> {auction[tx[t].on].seller}
      [] tx[t].kind = "buy" -> {tx[t].by, owner[tx[t].on]}
      [] tx[t].kind = "deposit" -> {tx[t].by}
      [] OTHER -> {}

\* While a transaction holds a guild's row FOR UPDATE, between the check of the
\* wallet and its commit, nobody else is about to commit a change to that
\* wallet: what was checked stays true.  This is why AuctionHouse may take the
\* two as one step (ADR section 3, Quota Race Mitigation).
WalletsSerialised ==
    \A t, u \in Txs, g \in Guilds :
        (t # u /\ Update(g) \in held[t] /\ Ready(u)) => g \notin Wallets(u)

\* No circle of waiting transactions goes through a settlement: the worker is
\* never the victim, whatever bids and purchases do to each other.
SettlementNeverDeadlocks == \A t \in Txs : tx[t].kind = "settle" => ~InCycle(t)

\* The lock order rules deadlocks out (ADR section 3, Deterministic Lock
\* Ordering).
NoDeadlock == \A t \in Txs : ~InCycle(t)
=============================================================================
