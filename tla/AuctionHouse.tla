---------------------------- MODULE AuctionHouse ----------------------------
(***************************************************************************)
(* The auctions of the marketplace: guild wallets, auctions, the bids that *)
(* reserve gold, and the background worker that closes what has expired.   *)
(*                                                                         *)
(* An HTTP request is a process p \in Procs.  Every action is what one     *)
(* request, or one worker, does between two points where another           *)
(* transaction can slip in: an unlocked read in the service layer, the     *)
(* moment a FOR UPDATE row lock is granted, the commit.  What happens      *)
(* under the guild's row lock is one action with the commit, because that  *)
(* lock excludes every other transaction that changes the guild's wallet.  *)
(***************************************************************************)
EXTENDS Integers, FiniteSets, Functions

CONSTANTS
    Guilds, NoGuild,     \* guild ids, and the NULL of auctions.winner_id
    Items, Legendary,    \* item ids, and those of type 'legendary'
    FirstOwner,          \* [Items -> Guilds], who minted each item
    Auctions,            \* auction ids, a bound on the auctions ever created
    Procs,               \* requests that can be in flight together
    Workers,             \* auction workers, one per running copy of the app
    StartPrices, Durations, BidAmounts, DepositAmounts,  \* request inputs
    InitialGold,         \* what each guild has deposited at the start
    DailyLimit,          \* guilds.daily_limit
    MaxActive,           \* 5 in the code
    Window,              \* the 5 minutes of the late-bid extension
    DayLength,           \* clock ticks in a calendar day
    Faults,              \* failures that may happen, out of FaultKinds
    ChecksProposedRow,   \* see UpsertRefused
    MaxTime, MaxGold     \* bounds on the clock and on a guild's gold

FaultKinds == {"abort", "crash", "finalize"}

ASSUME GuildAssumption == NoGuild \notin Guilds
ASSUME AuctionAssumption == IsFiniteSet(Auctions)
ASSUME ProcAssumption == IsFiniteSet(Procs)
ASSUME ItemAssumption == Legendary \subseteq Items /\ FirstOwner \in [Items -> Guilds]
ASSUME InputAssumption ==
    /\ StartPrices \subseteq Nat \ {0} /\ Durations \subseteq Nat \ {0}
    /\ BidAmounts \subseteq Nat \ {0} /\ DepositAmounts \subseteq Nat \ {0}
ASSUME NumberAssumption ==
    /\ InitialGold \in Nat /\ DailyLimit \in Nat \ {0} /\ MaxActive \in Nat \ {0}
    /\ Window \in Nat /\ DayLength \in Nat \ {0} /\ MaxTime \in Nat /\ MaxGold \in Nat
ASSUME FaultAssumption == Faults \subseteq FaultKinds /\ ChecksProposedRow \in BOOLEAN

VARIABLES
    gold,     \* guilds.gold_balance
    ledger,   \* the sum of a guild's wallet_transactions
    spent,    \* daily_purchases.total_spent by guild and day
    item,     \* items: owner and status
    auction,  \* auctions, by id
    bid,      \* amount of the active row of bids by auction and guild, 0 if none
    req,      \* the request each process is serving
    worker,   \* where each worker is in its round
    now       \* the clock

vars == <<gold, ledger, spent, item, auction, bid, req, worker, now>>
money == <<gold, ledger, spent>>

-----------------------------------------------------------------------------
Days == {t \div DayLength : t \in 0..MaxTime}
Today == now \div DayLength

NoAuction == [status |-> "absent"]
AuctionRows == [status : {"active", "ended", "cancelled"}, item : Items, seller : Guilds,
                start : Nat, high : Nat, winner : Guilds \cup {NoGuild}, ends : Nat]

Idle == [pc |-> "idle"]
StartRequests ==
    [pc : {"counting"}, guild : Guilds, item : Items, price : Nat, duration : Nat]
      \cup [pc : {"inserting"}, guild : Guilds, item : Items, price : Nat, ends : Nat]
BidRequests == [pc : {"locking", "locked"}, guild : Guilds, auction : Auctions,
                amount : Nat \ {0}, ends : Nat, day : Days]

Rounds == [pc : {"idle", "listed", "closing"}, batch : SUBSET (Auctions \X Nat)]
NoRound == [pc |-> "idle", batch |-> {}]

Init ==
    /\ gold = [g \in Guilds |-> InitialGold]
    /\ ledger = [g \in Guilds |-> InitialGold]
    /\ spent = [g \in Guilds |-> [d \in Days |-> 0]]
    /\ item = [i \in Items |-> [owner |-> FirstOwner[i], status |-> "sold"]]
    /\ auction = [a \in Auctions |-> NoAuction]
    /\ bid = [a \in Auctions |-> [g \in Guilds |-> 0]]
    /\ req = [p \in Procs |-> Idle]
    /\ worker = [w \in Workers |-> NoRound]
    /\ now = 0

-----------------------------------------------------------------------------
(* What the queries compute.                                               *)

Active(a) == auction[a].status = "active"
ActiveOf(g) == {a \in Auctions : Active(a) /\ auction[a].seller = g}

\* GetWalletSummary: every active bid row reserves its amount, whatever has
\* become of its auction.
Reserved(g) == SumFunctionOnSet([a \in Auctions |-> bid[a][g]], Auctions)
\* Mutant: the wallet forgets the reservations.
TotalBalance(g) == gold[g]

Available(g) == gold[g] - Reserved(g)

\* Mutant: the auction is read without FOR UPDATE.
NeverLocked(a) == FALSE

\* A transaction holds the FOR UPDATE lock of auction row a.
Locked(a) == \E p \in Procs : req[p].pc = "locked" /\ req[p].auction = a

\* Mutant: the constraint dropped.
Unconstrained(total, delta) == FALSE

\* Whether UpsertDailyPurchase fails on CHECK (total_spent >= 0) when it adds
\* delta to a row that holds total.  PostgreSQL judges the row it was asked to
\* insert, which holds delta alone, before it looks for the conflict; FALSE is
\* the reading the code was written for, the constraint judged on the result.
UpsertRefused(total, delta) == IF ChecksProposedRow THEN delta < 0 ELSE total + delta < 0

\* Mutant: !time.Now().Before(ends)
ExpiredAtDeadline(ends, t) == t >= ends

\* time.Now().After(ends), the test of bids and of the worker
Expired(ends, t) == t > ends

-----------------------------------------------------------------------------
(* DepositGold: one transaction under the guild's row lock.                *)

Deposit(g, n) ==
    /\ gold[g] + n <= MaxGold
    /\ gold' = [gold EXCEPT ![g] = @ + n]
    /\ ledger' = [ledger EXCEPT ![g] = @ + n]
    /\ UNCHANGED <<spent, item, auction, bid, req, worker, now>>

-----------------------------------------------------------------------------
(* StartAuction: the service reads the item without a lock, the repository *)
(* counts the seller's auctions without a lock, then inserts.              *)

\* Ids left for the requests that are on their way to an insert
FreshIds == {a \in Auctions : auction[a] = NoAuction}
Starting == {p \in Procs : req[p].pc \in {"counting", "inserting"}}

ReadItem(p) ==
    /\ req[p] = Idle
    /\ Cardinality(Starting) < Cardinality(FreshIds)
    /\ \E i \in Legendary, s \in StartPrices, d \in Durations :
         req' = [req EXCEPT ![p] = [pc |-> "counting", guild |-> item[i].owner,
                                    item |-> i, price |-> s, duration |-> d]]
    /\ UNCHANGED <<money, item, auction, bid, worker, now>>

\* Mutant: activeCount > 5
MayStartOneMore(g) == Cardinality(ActiveOf(g)) <= MaxActive

\* The fifth auction of a seller is its last; ends_at is fixed here.
MayStartAnother(g) == Cardinality(ActiveOf(g)) < MaxActive

CountActive(p) ==
    /\ req[p].pc = "counting"
    /\ req' = [req EXCEPT ![p] =
                 IF MayStartAnother(@.guild)
                   THEN [pc |-> "inserting", guild |-> @.guild, item |-> @.item,
                         price |-> @.price, ends |-> now + @.duration]
                   ELSE Idle]
    /\ UNCHANGED <<money, item, auction, bid, worker, now>>

\* idx_one_active_auction_per_item
OnSale(i) == \E a \in Auctions : Active(a) /\ auction[a].item = i

InsertAuction(p) ==
    /\ req[p].pc = "inserting" /\ ~OnSale(req[p].item)
    /\ \E a \in FreshIds :
         auction' = [auction EXCEPT ![a] =
             [status |-> "active", item |-> req[p].item, seller |-> req[p].guild,
              start |-> req[p].price, high |-> 0, winner |-> NoGuild,
              ends |-> req[p].ends]]
    /\ req' = [req EXCEPT ![p] = Idle]
    /\ UNCHANGED <<money, item, bid, worker, now>>

RefuseInsert(p) ==
    /\ req[p].pc = "inserting" /\ OnSale(req[p].item)
    /\ req' = [req EXCEPT ![p] = Idle]
    /\ UNCHANGED <<money, item, auction, bid, worker, now>>

-----------------------------------------------------------------------------
(* PlaceBid: an unlocked read decides the minimum and the new deadline;    *)
(* PlaceBidTransaction then locks the auction row, and at last the guild.  *)

\* ceil(high * 1.05)
FivePercentUp(high) == (21 * high + 19) \div 20
MinBid(a) == IF auction[a].high = 0 THEN auction[a].start ELSE FivePercentUp(auction[a].high)

Extended(ends) == IF ends - now <= Window THEN now + Window ELSE ends

ReadForBid(p) ==
    /\ req[p] = Idle
    /\ \E g \in Guilds, a \in Auctions \ FreshIds, n \in BidAmounts :
         /\ n >= MinBid(a)
         /\ req' = [req EXCEPT ![p] =
                [pc |-> "locking", guild |-> g, auction |-> a, amount |-> n,
                 ends |-> Extended(auction[a].ends), day |-> Today]]
    /\ UNCHANGED <<money, item, auction, bid, worker, now>>

\* What PlaceBidTransaction asks of the row it has locked
Admits(a, g) == /\ Active(a) /\ ~Expired(auction[a].ends, now)
                /\ auction[a].seller # g /\ auction[a].winner # g

\* CURRENT_DATE is the day the transaction began, which is some moment between
\* the service's read and the lock.
LockAuction(p) ==
    /\ req[p].pc = "locking" /\ ~Locked(req[p].auction)
    /\ IF Admits(req[p].auction, req[p].guild)
         THEN \E d \in Days :
                /\ req[p].day <= d /\ d <= Today
                /\ req' = [req EXCEPT ![p].pc = "locked", ![p].day = d]
         ELSE req' = [req EXCEPT ![p] = Idle]
    /\ UNCHANGED <<money, item, auction, bid, worker, now>>

\* The reservation of the leader being outbid, 0 if its row is not found
Outbid(a) == IF auction[a].winner = NoGuild THEN 0 ELSE bid[a][auction[a].winner]

\* What bidding b adds to the reservations of guild g
Delta(b, g) == IF g = b.guild THEN b.amount
               ELSE IF g = auction[b.auction].winner THEN -Outbid(b.auction) ELSE 0

Affordable(b) == /\ Available(b.guild) >= b.amount
                 /\ spent[b.guild][b.day] + b.amount <= DailyLimit

\* The statements of the transaction that can fail on a constraint: the daily
\* quota handed back to the leader, and the one active bid per bidder.
Storable(b) ==
    /\ Outbid(b.auction) # 0 =>
         ~UpsertRefused(spent[auction[b.auction].winner][b.day], -Outbid(b.auction))
    /\ bid[b.auction][b.guild] = 0

\* Mutants: the leader's bid is not deactivated; its quota is not handed back;
\* its release is not logged.
BidRowsKeepLeader(b) == [bid EXCEPT ![b.auction][b.guild] = b.amount]
SpentRowsKeepLeader(b) == [spent EXCEPT ![b.guild][b.day] = @ + b.amount]
LedgerReserveOnly(b) == [ledger EXCEPT ![b.guild] = @ - b.amount]

BidRows(b) == [bid EXCEPT ![b.auction] = [g \in Guilds |-> @[g] + Delta(b, g)]]
SpentRows(b) == [g \in Guilds |-> [spent[g] EXCEPT ![b.day] = @ + Delta(b, g)]]
LedgerSums(b) == [g \in Guilds |-> ledger[g] - Delta(b, g)]

CommitBid(p) ==
    LET b == req[p] IN
    /\ b.pc = "locked" /\ Affordable(b) /\ Storable(b)
    /\ bid' = BidRows(b) /\ spent' = SpentRows(b) /\ ledger' = LedgerSums(b)
    /\ auction' = [auction EXCEPT ![b.auction].high = b.amount,
                                  ![b.auction].winner = b.guild,
                                  ![b.auction].ends = b.ends]
    /\ req' = [req EXCEPT ![p] = Idle]
    /\ UNCHANGED <<gold, item, worker, now>>

\* Mutant: no deferred Rollback.
RefuseKeepsLock(p) ==
    /\ req[p].pc = "locked" /\ ~(Affordable(req[p]) /\ Storable(req[p]))
    /\ UNCHANGED vars

RefuseBid(p) ==
    /\ req[p].pc = "locked" /\ ~(Affordable(req[p]) /\ Storable(req[p]))
    /\ req' = [req EXCEPT ![p] = Idle]
    /\ UNCHANGED <<money, item, auction, bid, worker, now>>

-----------------------------------------------------------------------------
(* The worker: list what is active, look at the clock once, then close in  *)
(* deadline order everything whose listed deadline has passed.             *)

ListActive(w) ==
    /\ worker[w].pc = "idle"
    /\ worker' = [worker EXCEPT ![w] =
         [pc |-> "listed", batch |-> {<<a, auction[a].ends>> : a \in {x \in Auctions : Active(x)}}]]
    /\ UNCHANGED <<money, item, auction, bid, req, now>>

\* The rest of a round
Closing(batch) == IF batch = {} THEN NoRound ELSE [pc |-> "closing", batch |-> batch]

ReadClock(w) ==
    /\ worker[w].pc = "listed"
    /\ worker' = [worker EXCEPT ![w] = Closing({e \in @.batch : Expired(e[2], now)})]
    /\ UNCHANGED <<money, item, auction, bid, req, now>>

\* Auction a is the next of w's round, and its row lock is granted.
Turn(w, a) ==
    /\ worker[w].pc = "closing"
    /\ \E e \in worker[w].batch : e[1] = a /\ \A f \in worker[w].batch : e[2] <= f[2]

Advance(w, a) ==
    worker' = [worker EXCEPT ![w] = Closing({e \in @.batch : e[1] # a})]

\* FinalizeExpiredAuction, case A
CancelUnsold(w, a) ==
    /\ Turn(w, a) /\ ~Locked(a) /\ Active(a) /\ auction[a].high = 0
    /\ item' = [item EXCEPT ![auction[a].item].status = "available"]
    /\ auction' = [auction EXCEPT ![a].status = "cancelled", ![a].winner = NoGuild]
    /\ Advance(w, a)
    /\ UNCHANGED <<money, bid, req, now>>

\* Mutant: DeactivateAuctionBids is called, the winner is still not charged.
SettleAndRelease(w, a) ==
    /\ Turn(w, a) /\ ~Locked(a) /\ Active(a) /\ auction[a].high # 0
    /\ item' = [item EXCEPT ![auction[a].item] =
                  [owner |-> auction[a].winner, status |-> "sold"]]
    /\ gold' = [gold EXCEPT ![auction[a].seller] = @ + auction[a].high]
    /\ auction' = [auction EXCEPT ![a].status = "ended"]
    /\ bid' = [bid EXCEPT ![a] = [g \in Guilds |-> 0]]
    /\ Advance(w, a)
    /\ UNCHANGED <<ledger, spent, req, now>>

\* Case B: the item and the gold change hands.  The winner's bid row is left
\* active and its gold_balance undiminished; nothing is logged.
SettleSale(w, a) ==
    /\ Turn(w, a) /\ ~Locked(a) /\ Active(a) /\ auction[a].high # 0
    /\ item' = [item EXCEPT ![auction[a].item] =
                  [owner |-> auction[a].winner, status |-> "sold"]]
    /\ gold' = [gold EXCEPT ![auction[a].seller] = @ + auction[a].high]
    /\ auction' = [auction EXCEPT ![a].status = "ended"]
    /\ Advance(w, a)
    /\ UNCHANGED <<ledger, spent, bid, req, now>>

\* Another worker closed it first.
SkipClosed(w, a) ==
    /\ Turn(w, a) /\ ~Locked(a) /\ ~Active(a)
    /\ Advance(w, a)
    /\ UNCHANGED <<money, item, auction, bid, req, now>>

Close(w, a) == CancelUnsold(w, a) \/ SettleSale(w, a) \/ SkipClosed(w, a)

\* Mutant: the worker returns on an error.
FailureEndsWorker(w, a) ==
    /\ "finalize" \in Faults /\ Turn(w, a)
    /\ worker' = [worker EXCEPT ![w].pc = "stopped"]
    /\ UNCHANGED <<money, item, auction, bid, req, now>>

\* The error is logged and the round goes on.
FinalizeFails(w, a) ==
    /\ "finalize" \in Faults /\ Turn(w, a)
    /\ Advance(w, a)
    /\ UNCHANGED <<money, item, auction, bid, req, now>>

-----------------------------------------------------------------------------
(* The environment.                                                        *)

\* A request dies of a lost connection or a cancelled context; PostgreSQL
\* rolls its transaction back.
Abort(p) ==
    /\ "abort" \in Faults /\ req[p] # Idle
    /\ req' = [req EXCEPT ![p] = Idle]
    /\ UNCHANGED <<money, item, auction, bid, worker, now>>

\* The process dies and starts again: only the database survives.
Crash ==
    /\ "crash" \in Faults
    /\ req' = [p \in Procs |-> Idle]
    /\ worker' = [w \in Workers |-> NoRound]
    /\ UNCHANGED <<money, item, auction, bid, now>>

Tick ==
    /\ now < MaxTime
    /\ now' = now + 1
    /\ UNCHANGED <<money, item, auction, bid, req, worker>>

-----------------------------------------------------------------------------
StartStep(p) == ReadItem(p) \/ CountActive(p) \/ InsertAuction(p) \/ RefuseInsert(p)
BidStep(p) == ReadForBid(p) \/ LockAuction(p) \/ CommitBid(p) \/ RefuseBid(p)
WorkerStep(w) == \/ ListActive(w) \/ ReadClock(w)
                 \/ \E a \in Auctions : Close(w, a) \/ FinalizeFails(w, a)

Next ==
    \/ \E g \in Guilds, n \in DepositAmounts : Deposit(g, n)
    \/ \E p \in Procs : StartStep(p) \/ BidStep(p) \/ Abort(p)
    \/ \E w \in Workers : WorkerStep(w)
    \/ Crash
    \/ Tick

Spec == Init /\ [][Next]_vars

-----------------------------------------------------------------------------
(* Properties.                                                             *)

\* Every table row, request and round is of the shape the schema and the Go
\* types give it; in particular total_spent never goes below zero.
TypeOK ==
    /\ gold \in [Guilds -> Nat] /\ ledger \in [Guilds -> Int]
    /\ spent \in [Guilds -> [Days -> Nat]]
    /\ item \in [Items -> [owner : Guilds, status : {"available", "in_auction", "sold"}]]
    /\ auction \in [Auctions -> AuctionRows \cup {NoAuction}]
    /\ bid \in [Auctions -> [Guilds -> Nat]]
    /\ req \in [Procs -> {Idle} \cup StartRequests \cup BidRequests]
    /\ worker \in [Workers -> Rounds]
    /\ now \in 0..MaxTime

\* The active bid rows and the standing of the auction tell the same story:
\* the leader, and nobody else, has one, of the highest amount.  So the release
\* in PlaceBidTransaction never misses its row and CancelBidTransaction finds
\* nothing it could retract.
LeaderHoldsBid ==
    \A a \in Auctions, g \in Guilds :
        bid[a][g] = IF auction[a] # NoAuction /\ auction[a].winner = g
                      THEN auction[a].high ELSE 0

\* No guild has promised gold it does not have, over all its auctions.
Solvent == \A g \in Guilds : Reserved(g) <= gold[g]

\* The gold of the sales a guild has made
Sale(a, g) ==
    IF auction[a].status = "ended" /\ auction[a].seller = g THEN auction[a].high ELSE 0
Proceeds(g) == SumFunctionOnSet([a \in Auctions |-> Sale(a, g)], Auctions)

\* The wallet_transactions miss the proceeds of a guild's sales (EveryShiftLogged)
\* and nothing else: no gold is lost, minted, reserved or released twice by racing
\* bids, closings and failures.
OnlyProceedsUnlogged == \A g \in Guilds : gold[g] - Reserved(g) = ledger[g] + Proceeds(g)

\* What a guild has against its quota over all days is exactly what it has
\* reserved: an outbid guild gets its whole quota back, once.
QuotaMatchesReservations ==
    \A g \in Guilds : SumFunctionOnSet(spent[g], Days) = Reserved(g)

\* The unlocked count can let a seller past the limit, but by no more than the
\* requests that can have counted together.
OverrunBounded ==
    \A g \in Guilds : Cardinality(ActiveOf(g)) < MaxActive + Cardinality(Procs)

\* An auction that has ended or was cancelled is never touched again, and
\* neither are its bids: a bid admitted before the closing commits before it.
ClosedIsFinal ==
    [][\A a \in Auctions : auction[a].status \in {"ended", "cancelled"} =>
          auction'[a] = auction[a] /\ bid'[a] = bid[a]]_vars

\* The worker, whose list may be stale, cancels an auction without bids only
\* once its deadline has passed.
UnsoldClosedOnTime ==
    [][\A a \in Auctions :
          (Active(a) /\ auction'[a].status = "cancelled") => now > auction[a].ends]_vars

\* A bid is at least 5% above the one it replaces (README:25).  The minimum is
\* taken from an unlocked read and not asked again under the lock, so this is
\* owed to UpsertRefused alone: with the constraint judged on the result, two
\* bids that read the same row commit one after the other, the lower one last.
IncrementRespected ==
    [][\A a \in Auctions : (Active(a) /\ bid'[a] # bid[a]) =>
          auction'[a].high >= MinBid(a)]_vars

\* The deadline of a running auction never moves back.  A bid writes back the
\* deadline it computed from an unlocked read (auction_service.go:166), so this
\* too is owed to UpsertRefused: otherwise a bid that read an old row undoes the
\* extension of one that has committed meanwhile.
DeadlineNeverMovesBack ==
    [][\A a \in Auctions :
          (Active(a) /\ auction'[a].status = "active") => auction'[a].ends >= auction[a].ends]_vars

\* A bid that was admitted under the auction's lock and that its guild can pay
\* for within its quota commits (README: the 5% increment is what an outbid
\* takes; migrations/create_bids: an outbid bid becomes inactive and its gold
\* is released).
EligibleBidCommits ==
    [][\A p \in Procs :
          (req[p].pc = "locked" /\ Affordable(req[p]) /\ req'[p] = Idle) =>
             auction'[req[p].auction].winner = req[p].guild]_vars

\* The auctions are an escrow: a guild's available gold is its free gold, and
\* the highest bid of a running auction is the leader's stake on it.  The bid
\* row a settled auction leaves behind is what charges its winner.
Promise == INSTANCE Escrow WITH
    Lots <- Auctions, Opening <- InitialGold,
    free <- [g \in Guilds |-> Available(g)],
    stake <- [a \in Auctions |->
                IF Active(a) THEN [by |-> auction[a].winner, amount |-> auction[a].high]
                             ELSE [by |-> NoGuild, amount |-> 0]],
    closed <- {a \in Auctions : auction[a].status \in {"ended", "cancelled"}}
EscrowKept == Promise!Spec

-----------------------------------------------------------------------------
(* Fairness: a goroutine that can run does; PostgreSQL queues the requests  *)
(* for a row lock and serves them in turn; a closing that is retried in     *)
(* every round does not fail for ever.                                      *)

RequestFairness(p) ==
    /\ WF_vars(CountActive(p)) /\ WF_vars(InsertAuction(p)) /\ WF_vars(RefuseInsert(p))
    /\ SF_vars(LockAuction(p))
    /\ WF_vars(CommitBid(p)) /\ WF_vars(RefuseBid(p))
WorkerFairness(w) ==
    /\ WF_vars(ListActive(w)) /\ WF_vars(ReadClock(w))
    /\ \A a \in Auctions : SF_vars(Close(w, a))

FairSpec == /\ Spec
            /\ \A p \in Procs : RequestFairness(p)
            /\ \A w \in Workers : WorkerFairness(w)

\* An auction whose deadline has passed does not stay open: it is closed, or a
\* bid that was in time moves the deadline.
ExpiredIsClosed ==
    \A a \in Auctions :
        (Active(a) /\ Expired(auction[a].ends, now))
            ~> ~(Active(a) /\ Expired(auction[a].ends, now))

\* Every request is answered, however many wait for the same auction row.
RequestsAnswered == \A p \in Procs : req[p] # Idle ~> req[p] = Idle

-----------------------------------------------------------------------------
(* What the repository says of the program and the program does not do.    *)

\* A sale is closed only after its deadline (README: bids in the final 5
\* minutes extend the auction).
NoEarlyClose ==
    [][\A a \in Auctions :
          (Active(a) /\ auction'[a].status = "ended") => now > auction[a].ends]_vars

\* The seller of a running auction owns the item (service: ErrNotItemOwner).
SellerOwnsItem ==
    \A a \in Auctions : Active(a) => item[auction[a].item].owner = auction[a].seller

\* A guild has at most MaxActive auctions (README, auction_repo.go:44).
AtMostMaxActive == \A g \in Guilds : Cardinality(ActiveOf(g)) <= MaxActive

\* Every shift in a guild's finances has an entry (wallet_transactions.sql:2), also
\* the gold a seller receives after its auction ends (the type 'refund').
EveryShiftLogged == \A g \in Guilds : gold[g] - Reserved(g) = ledger[g]
=============================================================================
