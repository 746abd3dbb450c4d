# Herotech: a TLA+ model of the guild marketplace

Herotech is a Go service on PostgreSQL in which guilds keep gold, sell common and
rare items at a fixed price, and auction legendary ones. This directory models
the code that moves gold and items between guilds, checks it with TLC on small
instances, and proves the results that matter most with TLAPS for every value of
the constants. `PROJECT.json` maps each definition to the lines it stands for,
and lists the runs, the hazards they are aimed at, and the theorems.

## 1. Inventory

| Component | State | Operations | Interacts with | What is hard |
|---|---|---|---|---|
| Auctions (`auction_service.go`, `auction_repo.go`, `auctions.sql`, `bids.sql`) | rows of `auctions` and `bids` | `StartAuction`, `PlaceBid` / `PlaceBidTransaction`, `FinalizeExpiredAuction`; `CancelBidTransaction` (no route) | wallets, quota and audit trail in the same transaction; items | unlocked reads decide what a later transaction writes; a count checked without a lock; errors that are discarded inside a transaction |
| Auction worker (`auction_worker.go`) | the list and the clock of its round | list, read the clock, close what has expired, every 30 s | auctions; one per running copy of the app | the list is stale while bids move deadlines; one closing fails; two copies; restarts |
| Guild wallets (`guild_service.go`, `guild_repo.go`, `guilds.sql`, `wallet_transactions.sql`) | `guilds`, `daily_purchases`, `wallet_transactions` | `CreateGuild`, `DepositGold`, reads | locked last by bids and purchases | balance, reservations, quota and audit trail are written by separate statements and must agree; quota by calendar day |
| Items and direct sales (`item_service.go`, `item_repo.go`, `items.sql`) | rows of `items` | `CreateItem`, `ListForSale`, `BuyItemDirectly` / `PurchaseLimitOrder` | wallets; auctions use the same rows | double selling; two guild rows written, one of them locked first |
| Row locks of PostgreSQL | locks and wait queues | `FOR UPDATE`, the `FOR KEY SHARE` of a foreign key, commit, rollback | every transaction above | lock order |
| HTTP layer (`handler/`, `routes/`) | none | parsing, service call, error to status code, pages | services | which error reaches which code; count and page are two statements |
| Request timeout (`middleware/timeout.go`) | two goroutines, a channel and a gin context per request | 30 s deadline, 503 | every handler | the handler finishes after the answer, in a context that serves another request by then |
| Price oracle (`oracle/`) | last valid price by id; one random generator | `GetPrice` | `CreateItem` | shared generator; cache keyed by a fresh id |
| Seeder (`seeder/`) | none of its own | seeds once at start | all repositories | stops half way, starts again, two copies at once |
| Start and shutdown (`app.go`, `server.go`, `db.go`, `registry/`) | the phase of each copy | start, signal, shutdown, exit | worker, server, pool | what is still running when the server stops and the pool closes |
| Generated queries (`db/sqlc/`) | the tables | one operator each | repositories | constraints and unique indexes |

What makes each correct:

- *Auctions*: one leader per auction, whose bid row is the only active one; an
  auction is closed once, by the worker, after its deadline; a bid is 5% above
  the one it replaces; at most 5 running auctions per seller, one per item, sold
  by the item's owner.
- *Worker*: everything expired is closed in the end, whatever fails meanwhile.
- *Wallets*: no guild promises gold it does not have; every shift is in the audit
  trail; a guild's quota is what it has reserved.
- *Items*: an item is sold once, by its owner, for its price; gold only changes
  hands; what is listed can be bought; a legendary item is only auctioned.
- *Row locks*: what was checked under a guild's lock holds until the commit; no
  cycle of waiting transactions, above all none through the worker.
- *Requests*: whatever fails, is lost, expires or dies, the tables change only by
  the whole effect of one request, and what the code asks under its locks is so when
  it commits.
- *Timeout*: one answer per request, its own and true; what is left behind holds
  no lock and no connection.
- *Seeder*: nothing is seeded twice.
- *Start and shutdown*: a copy that is told to stop ends, and one that ends in time
  has answered whatever it accepted.

## 2. Modules

| Module | Contents |
|---|---|
| `AuctionHouse` | auctions, bids, wallets, quota, audit trail, item ownership, worker: one specification, because the interesting hazards cross all of them |
| `Escrow` | what the auctions promise about gold, without rows, locks or wallets |
| `MCAuctionHouse` | who mints which item, and the symmetries, for TLC |
| `RowLocks` | every transaction as the sequence of row locks it takes, with their modes; who waits for whom |
| `MCRowLocks` | one minting guild, and the symmetries |
| `ItemMarket` | minting, listing and direct purchases, lock by lock, among bids on the same wallets |
| `MCItemMarket` | the symmetries |
| `Tables` | the tables, and every query of `db/sqlc` as a read of them or as the rows it writes |
| `Market` | what the marketplace promises about its tables: whole effects, no statements, locks or failures |
| `Requests` | every request of the API statement by statement, with transactions, row locks, the pool, and failures anywhere |
| `Service` | the running program around them: status codes, timeout, seeder, worker, start, stop, crash |
| `MCService` | a populated marketplace, an empty one, and which requests meet |
| `AuctionHouseProofs` | types, locks, leader and bid rows, finality, closing on time, the limit on running auctions, what increment and deadline owe to the quota constraint; solvency, audit trail, quota; `AuctionHouse` implements `Escrow` |
| `SumLemmas` | sums over finite sets |
| `ItemMarketProofs` | everything `direct_sales` checks |
| `RowLocksProofs` | everything `row_locks` checks |
| `RequestsProofs` | decisions stand, nothing is held, exits are graceful |
| `EffectsProofs` | what a transaction has written at each place of its code: tables stay sound, funds stand |
| `ImplementationProofs` | the running program implements `Market`; answers are true; one seeding |
| `BooksProofs` | what each effect of `Market` does to the numbers, the records and the listings: no guild of the running program exceeds its means, only proceeds go unlogged, records stand, total and rows of a listing stay close |

`MCAuctionHouse` and `AuctionHouseProofs` extend `AuctionHouse`, which instantiates
`Escrow` as `Promise`. `ItemMarketProofs` extends `ItemMarket`, `RowLocksProofs` extends `RowLocks`. `Requests` and `Market`
extend `Tables`, `Requests` instantiates `Market` as `Promise`, `Service` extends
`Requests`; `MCService` and `RequestsProofs` extend `Service`, `EffectsProofs` extends
`RequestsProofs`, `ImplementationProofs` extends that, and `BooksProofs` that. Wherever
gold is summed `SumLemmas` is used.

The first three specifications look at the same tables from three sides.
`AuctionHouse` takes what happens under a guild's row lock as one step; `RowLocks`
has nothing but locks, for every transaction, and shows that this is sound
(`WalletsSerialised`) and what it costs (`NoDeadlock`); `ItemMarket` takes the guild
lock of a purchase as a step of its own and the auctions' draws on the wallets as
its environment. They run long: auctions over several days, with midnights and
deadlines, guilds that buy and sell again. `Requests` and `Service` are the
opposite: everything the program does, one SQL statement at a time, but only a few
requests long. There nothing is merged, so what the other three take as one step is
checked to be one (`EffectsAreWhole`).

### Plan

Most important first; all of it is done but 10.

1. `AuctionHouse` with `Escrow`: types, bid rows, money, closing, liveness.
2. Proofs of its safety properties, and of the refinement.
3. `RowLocks`: can the transactions wait for each other in a cycle? May what
   happens under a guild's lock be taken as one step?
4. `ItemMarket`: is an item sold once, do buyer and seller balance, can what was
   listed be bought?
5. `Tables`, `Market`, `Requests`: the whole API statement by statement, and what it
   amounts to.
6. `Service`: seeder, timeout, status codes, worker, start and stop around it.
7. Proofs about 5 and 6: decisions, funds, locks, exits.
8. The proof, not only the check, that the running program implements `Market`, and
   what follows from it: answers, seeding.
9. What `Market` implies, along every history of the running program: means, entries,
   records; and a bound on the skew of a listing for any number of requests.
10. Left: to prove, not only to argue, that `AuctionHouse` may take as one step what
   `RowLocks` shows to be serialised. `Requests` cannot be shown to implement
   `AuctionHouse` as they stand, since it has no clock.

## 3. How `AuctionHouse` corresponds to the code

**State.** `gold`, `spent`, `item`, `auction` are columns of the tables of the same
subject; `bid[a][g]` is the amount of the active row of `bids` for that auction
and guild, 0 when there is none (inactive rows are read by nobody); `ledger[g]` is
the sum of that guild's `wallet_transactions`. `high = 0` stands for a NULL
`highest_bid`. `req[p]` holds the local variables of one HTTP request, `worker[w]`
those of one round of the worker. `now` serves `time.Now()` and `CURRENT_DATE`.

**Grain.** An action runs from one point where another transaction can slip in to
the next: an unlocked read, the moment `SELECT ... FOR UPDATE` returns, the commit.

| Request | Actions |
|---|---|
| `DepositGold` | `Deposit` |
| `StartAuction` | `ReadItem` (unlocked read of owner and type), `CountActive` (unlocked count, deadline fixed), `InsertAuction` or `RefuseInsert` (unique index) |
| `PlaceBid` | `ReadForBid` (unlocked read: minimum, new deadline), `LockAuction` (row lock, status, deadline, seller, leader), `CommitBid` or `RefuseBid` |
| worker round | `ListActive`, `ReadClock`, then for each expired entry `CancelUnsold`, `SettleSale`, `SkipClosed` or `FinalizeFails` |
| anything | `Abort` (lost connection, cancelled context), `Crash` (restart), `Tick` |

`CommitBid` is everything from the guild's `FOR UPDATE` to the commit. It is one
action because every transaction that changes a guild's balance, reservations or
quota on the strength of what it read holds that guild's row lock while doing so,
and what `CommitBid` writes for the *outbid* guild is an increment computed from
the locked auction row, not from that guild's wallet. `FinalizeExpiredAuction` is
one action for the same reason: it reads only the row it has locked, and its write
to the seller is an increment. `RowLocks` states this as `WalletsSerialised`.

A request that a guard of the service refuses before any write (bid too low,
zero amount) changes nothing and is not a step. `ReadForBid` reads the row and the
clock at one moment; the clock the code reads is a few instructions later.

**Two readings of one constraint.** To give the outbid leader its quota back,
`PlaceBidTransaction` upserts a *negative* `total_spent` into a table with
`CHECK (total_spent >= 0)`. PostgreSQL judges the proposed row before it looks at
`ON CONFLICT`, so the statement always fails, the transaction is aborted, and the
discarded error resurfaces at the next statement. With `ChecksProposedRow = TRUE`
the model does exactly that; no bid then ever replaces another, and most of what
could go wrong in outbidding is out of reach. With `FALSE` the constraint is judged
on the resulting row, which is what the code was written for, and what it does as
soon as that statement is mended. The passing runs on bids and money use `FALSE`,
the harder case; the runs that show disagreements use `TRUE`, so what they show
happens on PostgreSQL. The theorems hold for both.

### `RowLocks`

A transaction is a kind, the row it is about, the guild it acts for, and a plan:
the locks it will still ask for, in the order of its statements.

| Transaction | Begins with | Then |
|---|---|---|
| bid | auction, FOR UPDATE | bidder, FOR UPDATE; leader, KEY SHARE (its release is logged) |
| settlement | auction, FOR UPDATE | item, NO KEY UPDATE; winner, KEY SHARE (new `owner_id`); seller, NO KEY UPDATE |
| start | the item's entry in `idx_one_active_auction_per_item` | item and seller, KEY SHARE |
| purchase | item, FOR UPDATE | buyer, FOR UPDATE; seller, NO KEY UPDATE |
| listing | item, FOR UPDATE | |
| deposit, mint | guild, FOR UPDATE and KEY SHARE | |

`Begin` is the grant of the first lock with the look at the row, `LockNext` each
further one, `Commit` what the tables are afterwards as far as locks depend on
them, `Rollback` any failure, `Victim` PostgreSQL's way out of a cycle. A
transaction that waits for its first lock holds nothing and is left out; so is the
order in which waiters are served, hence no liveness is claimed here.

### `ItemMarket`

| Request | Actions |
|---|---|
| `CreateItem` | `Mint`; `MintPriced` is a row with a price set by hand, as the integration tests make it |
| `ListForSale` | `ReadForListing` (unlocked read of owner and type), `List` (row lock, status) |
| `BuyItemDirectly` | `LockItem` (item FOR UPDATE, status, price, owner), `LockBuyer` (guild FOR UPDATE, wallet, quota), `CommitPurchase` |
| auctions | `BidReserves`, `BidReleases`, `CancelUnsold` |
| anything | `Abort` |

`ListForSale` takes a price and writes none. Through the API alone no item ever has
a price and no purchase gets past `Buyable`; with `Prices = {}` that is all the module
does. `direct_sales` therefore starts from rows with a price, like the repository's own
integration tests of `PurchaseLimitOrder`. A price stays when its item is sold: the new
owner's listing offers it for the old one.

### `Tables`, `Requests`, `Market`

A state of the tables maps names of rows to rows (`<<"guild", g>>` to a record). A
query that reads is an operator on it, a query that writes yields the rows it
writes. `db` are the committed tables. `tx[p]` is the transaction of goroutine `p`:
what it has written, which only it sees (`See`), and the locks its statements have
taken. `req[p]` is its request, how far the code is (`at`), and what it keeps of the
rows it has read (`saw`), which later statements use whatever became of the rows.

| Request | Statements |
|---|---|
| `CreateGuild`, `CreateItem` | `CreateGuildRow`; `AskPrice`, `GotPrice`, `InsertItem` |
| `DepositGold` | `Begin`, `LockForDeposit`, `CreditDeposit`, `LogDeposit`, `Commit` |
| `ListNonLegendaryItem` | `ReadForListing`, `Begin`, `LockForListing`, `Expose`, `Commit` |
| `BuyItemDirectly` | `Begin`, `LockToBuy`, `LockBuyer`, `CheckBuyer`, `ChargeBuyer`, `PaySeller`, `TransferBought`, `CountPurchase`, `LogPurchase`, `LogProceeds`, `Commit` |
| `StartAuction` | `ReadToAuction`, `Begin`, `CountOwn`, `InsertAuction`, `Commit` |
| `PlaceBid` | `ReadForBid`, `Begin`, `LockToBid`, `LockBidder`, `CheckBidder`, `FreeLeader`, `LogRelease` or `ReleaseFails`, `ReturnQuota`, `RecordBid`, `UpdateStanding`, `LogReserve`, `CountBid`, `Commit` |
| `FinalizeExpiredAuction` | `Begin`, `LockToClose`, then `RestoreItem`, `CancelUnsold` or `HandOver`, `PayProceeds`, `EndSold`, `Commit` |
| reads and listings | `GetWallet`, `ValidateGuild`, `GetByOwner`, `LookUpItem`, `LookUpAuction`; `CountRows` and `ReadPage` of three listings |
| anything | `RefuseInput`, `Fail` at every statement, `CommitUnconfirmed` |

`End` is the deferred `Rollback`, whichever return the code takes. An error whose
variable is `_` is `Discard`: the code goes on, in a transaction in which nothing
succeeds any more. A statement outside a transaction needs a connection of the pool
for its moment, one inside has it for good. The clock is left out, so a deadline may
pass at any time: `LockToBid` may always find the auction over, and the worker may
always find it expired. What PostgreSQL refuses by itself is a guard: a foreign key that
finds no row (`Found`), a primary key that is taken (`IsNew`; ids are made by
`uuidv7()`, so the code never meets it), a CHECK on a balance (`BalanceSuffices`).

`Market` is the abstract specification: each request that changes anything is one step
there, `Effect`, with a guard on the tables at that moment. `EffectsAreWhole` so says of
each commit that the whole effect arrives, once, and that these checks of the code still
hold then: that what the request is about is there; the status of the item or the
auction; the price; seller and leader of an auction; wallet and quota; that an item is
auctioned once at a time, and only if it is legendary; that a bid reaches the minimum.
What does not hold, or has no meaning without a clock, `Market` does not ask: the owner in
`Offer` (section 7) and in `Open` (`stale_owner`), the number of a seller's auctions
in `Open` (`write_skew`), and the deadline of a bid, as there is no clock. That the
minimum still holds is owed to the quota constraint (section 3): only first bids
commit, so all that has to stand is the start price.

### `Service`

A request is two goroutines. The process `p` runs the handler; `http[p].main` is
the goroutine of `TimeoutMiddleware`, which waits for the handler (`Receive`) or the
deadline (`Timeout`), and gives the gin context back to its pool either way.
`holder[x][c]` is the request that context `c` of copy `x` belongs to *now*;
`WriteAnswer` writes there. That is how a handler that outlives its request comes
to write into another one's response, and `Orderly` says for which requests this
cannot be. After `Timeout` the context of the request is cancelled: the handler goes on
with what looks at no context (`Computes`: its checks of the input, the price oracle),
but makes no further statement and fails at the next, while a commit that is on its way
arrives. The operators
named for handlers (`BuyItemStatus`) are their error switches.

`phase[x]` takes copy `x` from `Start` over seeding and serving to `Signal`,
`ShutdownDone` or `ShutdownTimeout`, and `Exit`; `Crash` at any point and
`PricePanic`, two requests in the unguarded generator at once, take it down. Process
`x` runs the seeder, whose calls are listed in `SeedPlan`, and then the worker's
closings (`work[x]`).

## 4. Runs

| Run | Instance | Shows |
|---|---|---|
| `wallets` | two auctions of two sellers, three guilds, two requests that may die, two-tick days | `TypeOK`, `LeaderHoldsBid`, `ClosedIsFinal`, `Solvent`, `OnlyProceedsUnlogged`, `QuotaMatchesReservations`, and that the auctions implement `Escrow` (`EscrowKept`) |
| `closing` | three auctions and items of one seller, two requests, two workers, deposits, failed closings, restarts | `UnsoldClosedOnTime`, `OverrunBounded` |
| `progress` | one auction, `FairSpec`, failing closings, constraint as PostgreSQL judges it | `ExpiredIsClosed`, `RequestsAnswered`, `IncrementRespected`, `DeadlineNeverMovesBack` |
| `row_locks` | three transactions of all kinds, two auctions, three guilds, an item with a price | `TypeOK` (no lock on a NULL leader), `WalletsSerialised`, `SettlementNeverDeadlocks` |
| `direct_sales` | two requests, three guilds, two items and a legendary one | `TypeOK`, `Solvent`, `WithinQuota`, `LedgerExplains`, `GoldConserved`, `SoldOnce`, `LegendaryOnlyAuctioned` |
| `service` | eighteen pairs of requests that meet, a deposit and its repeat among them, 29 refusals, two workers at one auction, two copies that seed an empty database | `EffectsAreWhole`, `TablesSound`, `MeansKept`, `UnloggedAreProceeds`, `RecordsStand`, `DecisionsStand`, `FundsStand`, `DoneHoldsNothing`, `ListingSkewBounded`, `AnswersAreTrue`, `SeededOnce`, `GracefulExit`, `StopEnds` |
| `early_close` | violation of `NoEarlyClose` | a bid admitted in time commits after the worker listed the auction and extends it; the worker closes the sale before the new deadline |
| `stale_owner` | violation of `SellerOwnsItem` | the item is settled away between the ownership check and the insert |
| `write_skew` | violation of `AtMostMaxActive` | two requests of one seller count together and both insert |
| `outbid_refused` | violation of `EligibleBidCommits` | on PostgreSQL an affordable bid on an auction that has a leader fails |
| `lock_cycle` | violation of `NoDeadlock` | two leaders outbid each other: each holds its own row and waits to log the other's release |
| `unlogged_proceeds` | violation of `EveryShiftLogged` | one bid wins: its settlement pays the seller and logs nothing |

`IncrementRespected` and `DeadlineNeverMovesBack` hold on PostgreSQL only because no
bid replaces another. Their mutant, the constraint dropped, breaks both at once:
minimum and deadline are taken from an unlocked read and not asked again under the
lock, so whoever mends the quota statement has to mend that too.

`OnlyProceedsUnlogged` and `UnloggedAreProceeds` say how far the audit trail is true, not
that it is complete. `wallet_transactions.sql:2` promises an entry "for every shift in
guild finances", and the code breaks that with each sale of an auction
(`unlogged_proceeds`); the two properties say that this is all that is missing, so that no
race, failure or repeat loses, makes or doubles gold behind the trail's back.

**Bounds and why they are enough.** Two requests are the least that can race, and
each property relates at most two of them; three guilds let a seller be outbid on
by two others, and (in `wallets`) let one guild bid on both auctions while another
outbids it on one. Two auctions are needed only where a wallet or a seller's count
spans auctions, and a third in `closing`, where two requests that count together can
overrun a limit of 1 by one and must not overrun it by two. Prices are chosen at the edge: in `progress` a guild has 22, a start
price of 20 and bids of 20, 21 and 23 make 21 the 5% increment of 20, and 23 too
dear; in `wallets` 4 gold carries two bids of 2 but not 2 and 3. The clock runs two to four ticks, past the deadline and one extension, and
(`DayLength = 2`) past a midnight. `MaxActive` is 5 in the code and 1 here: the
limit is reached sooner. In `row_locks` two transactions make a cycle and the third
can join or stand aside, and two auctions and three guilds let every guild be
bidder, leader and seller at once. In `direct_sales` 3 gold pays for one item at 2
or for bids of 1, but not for both twice, and a guild that has sold may have more
gold than the quota of 4. `ItemMarket` is about one calendar day; `AuctionHouse` has
the midnights. `MaxTime` and `MaxGold` bound the clock and deposits;
`Auctions` bounds the auctions ever created, and `ReadItem` does not start a
request whose insert would find no id left. None of these bounds is a limit of the
code, and the theorems do not depend on their values.

In `service` every scenario has two requests in flight and at most two copies,
because each property relates two actors at most; the pairs are chosen so that they
share a wallet, an item, an auction, an index entry, a page or the last connections
(`MaxConns` 2 where the code has 10, for two requests and a worker), and each
business error has a request that runs into it. Amounts are at the edge: 9 gold, 3 of it
reserved, pay for the bow at 4 or bear a bid of 4, and not
both; a quota of 8 bears the bow at 4 or a bid of 5. Two gin
contexts are enough for a late handler to find its own taken by the other request.
`MaxStarts` 2 lets a copy die while seeding and seed again, next to another that
seeds. `IntMax` is 1000 instead of 2^31: page 11 of 100 is the first that does not fit.
A client's request is given once, so the run is finite and may stop; a client that
repeats its request is the second one, in the pair of equal deposits. Hence
deadlock is not checked in it, and `StopEnds` says what has to go on.

**Symmetry.** Requests are interchangeable, and so are auction ids; in `wallets`
also the two sellers, each with its item. In `row_locks` and `lock_cycle` one guild
mints everything and the others are interchangeable, and so are transactions and
legendary items; in `ItemMarket` guilds, requests and items that are not legendary.
The runs that check liveness use none.

**Deadlock** of the model is checked in every other run: the worker always has a next
round, clients a next request, and every transaction may be rolled back.

**Fairness** (`FairSpec`). Weak fairness on the steps of a started request: its
goroutine is scheduled, and its statements return. Strong fairness on
`LockAuction`: PostgreSQL queues waiters for a row lock, so a request that finds
the lock taken again and again still gets its turn. Weak fairness on the worker's
list and clock (the ticker fires). Strong fairness on `Close`: a closing that is
retried every round does not fail for ever. Nothing is assumed of clients
(`ReadItem`, `ReadForBid`, `Deposit`), of failures or of the clock.

`progress` has one auction, because liveness admits no symmetry. That a closing which
fails does not keep the worker from the rest of its list is in `FinalizeFails`
(`Advance`), and `closing` has three auctions whose closings fail; but no liveness
property is checked of the rest of a round.

`FairServiceSpec` assumes less, and only of the end. `Unwinds`: a handler whose
context is cancelled returns, because every call it waits in takes that context.
`WorkerUnwinds`: the same of the worker after `workerCancel`. `ShutdownDone` or
`ShutdownTimeout`: `srv.Shutdown` returns, since its context ends after five seconds.
`Exit`: `pool.Close` returns once every connection is back. Nothing is assumed of a
handler that waits on `done` for ever, of clients, or of requests that are served.

## 5. Proofs

The theorems on `AuctionHouse` assume only its named assumptions (finite `Auctions`
and `Procs`; numbers are numbers; `NoGuild` is no guild), and hold for any number
of guilds, items, auctions, requests and workers, any faults, and both readings of
the constraint. Those on `ItemMarket` assume that guilds are finitely many, and
prices and stakes positive; those on `RowLocks` that ids of different tables differ,
that items have owners, and that no legendary item has a price.

Those on `Requests` and `Service` hold for any finite number of goroutines, for any
requests, scenarios and connections, and for any tables to begin with that are
`Sound` and `WithinMeans`: columns have their types, every foreign key finds its row (of
items, auctions, bids, quotas and wallet transactions), the leader of an auction with a
bid has its bid row; nobody has promised more gold than it has or used more than its
quota. They assume that amounts are numbers (`AsksAssumption`),
that workers close auctions and nobody is mistaken for `Nothing`
(`ScenarioAssumption`, `ProcessAssumption`, `NothingAssumption`), and that the ids of
a seed are nobody else's (`SeedAssumption`: they are made by `uuidv7()`). TLC evaluates each of these on `service`.

| Theorem | States |
|---|---|
| `TypedInvariant`, `TypeCorrect` | the inductive invariant, and `[]TypeOK` |
| `LeaderAlwaysHoldsBid` | `[]LeaderHoldsBid` |
| `ClosingIsFinal` | `ClosedIsFinal` |
| `AlwaysSolvent`, `OnlyProceedsStayUnlogged`, `QuotaAlwaysMatches` | `[]Solvent`, `[]OnlyProceedsUnlogged`, `[]QuotaMatchesReservations` |
| `AuctionsAreEscrow` | `EscrowKept` |
| `UnsoldNeverEarly` | `UnsoldClosedOnTime` |
| `OverrunAlwaysBounded` | `[]OverrunBounded` |
| `AlwaysKept`, `TypesKept` | the inductive invariant of `ItemMarket`, and `[]TypeOK` |
| `AlwaysSolvent`, `QuotaKept`, `LedgerKept`, `GoldKept` (`ItemMarketProofs`) | `[]Solvent`, `[]WithinQuota`, `[]LedgerExplains`, `[]GoldConserved` |
| `NeverSoldTwice`, `LegendaryKept` | `SoldOnce`, `LegendaryOnlyAuctioned` |
| `AlwaysGuarded`, `TypesKept` | the inductive invariant of `RowLocks`, and `[]TypeOK` |
| `AlwaysSerialised`, `SettlementsFree` | `[]WalletsSerialised`, `[]SettlementNeverDeadlocks` |
| `IncrementOwedToQuota`, `DeadlineOwedToQuota` | `IncrementRespected`, `DeadlineNeverMovesBack`, where the constraint is judged on the proposed row |
| `DecisionsStanding`, `DecisionsStandInService` | `[]DecisionsStand`, of the requests alone and of the running program |
| `NothingIsHeld`, `NothingIsHeldInService` | `[]DoneHoldsNothing`, likewise |
| `ExitIsGraceful` | `GracefulExit` |
| `TablesStaySound`, `TablesStaySoundInService` | `[]TablesSound`, of the requests alone and of the running program |
| `FundsStanding`, `FundsStandInService` | `[]FundsStand`, likewise |
| `ServiceImplementsMarket` | `EffectsAreWhole` |
| `AnswersAlwaysTrue` | `[]AnswersAreTrue` |
| `SeedingHappensOnce` | `[]SeededOnce` |
| `MeansAlwaysKept` | `[]MeansKept`, of the running program |
| `UnloggedStayProceeds`, `RecordsAlwaysStand` | `UnloggedAreProceeds`, `RecordsStand` |
| `SkewAlwaysBounded` | `[]ListingSkewBounded`, for any number of clients, workers, copies and starts |

**The argument.** `TypeOK` is not inductive: `SettleSale` makes the winner the
owner of the item, which is a guild only if a highest bid implies a winner
(`LeaderIffHigh`), and `CommitBid` updates the row the bid was admitted on, so
what was true when the lock was granted must still be (`LocksHold`: the holder is
alone, the auction is still active, seller and leader are still somebody else).
`Typed` is the conjunction of the three. Everything else rests on it.

*Money.* `CommitBid` changes one auction's bid of two guilds, and sums over all
auctions must follow: `SumUpdate` says that changing a function at one point
changes its sum by the difference. The sum is a fold, defined by recursion on sets;
`SumLemmas` shows existence and uniqueness of the recursion by taking a smallest
set at which it would fail. `OnlyProceedsUnlogged` and `QuotaMatchesReservations` then
follow action by action; `Solvent` uses the affordability guard for the bidder and
`LeaderHoldsBid` for the guild whose reservation is released.

*Refinement.* `CommitBid` is `Stake`, `SettleSale` is `PayOut`, `CancelUnsold` is
`Withdraw`, `Deposit` is itself, and every other action is a stutter. The mapping
reads the bid row a settled auction leaves behind as the charge of its winner, and
needs `SellerNeverLeads`.

*Lifecycle.* A worker's list may be stale, but not about an auction without bids:
only a bid moves a deadline (`RoundsFresh`). The overrun of the limit is counted
together with the requests on their way to an insert (`CountedTogether`): every
insert uses up one of them.

*Direct sales.* `CommitPurchase` asks neither whether the item is still on offer nor
whether the wallet still bears the price; it relies on two locks. `Kept` says that
they suffice: while a purchase holds an item its row is as it was read (`ItemsHeld`),
while it holds a guild the wallet and the quota bear the price (`WalletsHeld`), and
one purchase at a time holds either. The delicate step is the commit itself, which
pays a guild whose lock it has only just got and charges one that another purchase
may be buying from. That an outbid guild gets no more than its quota back needs
`ReservedIsSpent`; that a legendary item is never bought needs `LegendaryUnpriced`,
since nothing asks for its type.

*Row locks.* A plan is made of a row that has just been locked. `Guarded` says that it
stays the plan one would make now (`PlansCurrent`): a commit changes the leader of an
auction, its status or the owner of an item only in rows its transaction is about, and
no two open transactions are about the same row (`Exclusive`). A transaction that is
ready then holds a lock on every guild whose wallet it changes, and
`WalletsSerialised` follows. A circle through a settlement is impossible because
whoever waits for a waiting settlement is itself waited for by nobody: it asks for a
guild FOR UPDATE, which bids and purchases do first, while all they hold is an
auction or an item for sale, and those are only ever asked for with nothing in
hand. The one other way to wait for a settlement, writing the same item, would take
two running auctions of it (`OneSale`), which the unique index excludes.

*Owed to the quota.* Where the constraint is judged on the proposed row only first
bids commit (`OnlyFirstBidsCommit`). A bid on its way may have read an old row, but
as long as the auction has no bid nothing of that row has changed: its start price
and its deadline are still those the bid was measured by (`ReadsFresh`).

*Requests.* There are some fifty statements, and an invariant proved statement by
statement would say the same fifty times. Each step of the code is instead shown to be one
of four kinds (`StepKinds`): it goes on without a transaction (`Moves`), opens one
(`Begin`), advances in it, taking locks that were free and writing only what it has
locked (`Advances`), or ends, publishing what it had locked (`Finishes`). `Guarded`
is preserved by each kind: locks of different transactions are compatible
(`Exclusive`), the code has a transaction exactly where it should (`Positions`), and
a row that was decided on is still held FOR UPDATE (`Decisions`), so nobody else can
publish it. `PoolKept` counts connections. `ServiceSteps` shows that whatever the
program does to tables and transactions is a step of `Requests`, or the death of some
goroutines; the theorems carry over.

*Graceful exit.* `Web`: a request that is waited for has its gin context, in a copy
that is not closing, and a request whose handler wrote in time or whose main
returned has an answer. So when `Exit` comes, nobody is waiting.

*Drafts.* What a transaction has written at each place of its code is a function of
the committed tables: after `ChargeBuyer` it is `Charged(db, ask, saw)`, after
`PaySeller` that and the proceeds, and so on (`BuyDraft`, `BidDraft`, and their like).
`Drafted` says that each open transaction has exactly its draft, and that what the
code read first is still in the tables and still bears what it was checked for. Two
facts preserve it. A statement extends the draft of its transaction by one write. A
commit of *another* transaction changes the committed tables under the draft, and yet
the draft written before is the one that would be written now, because the commit
leaves alone every row that this transaction holds (`Undisturbed`), adds active bids
to no guild it holds, and takes none of its index entries. That is where the row
locks earn their keep: a wallet is checked against the sum of all active bids of its
guild, rows that the transaction does not lock itself, and only the guild's lock
keeps others from adding to them. `FundsStanding` is a part of the drafts (`CanPay`);
`TablesStaySound` follows because a draft that is committed is `Lawful`: types,
foreign keys and leaders survive it, no item changes its type and no auction its start
price.

*The refinement.* `Finishes` is the only kind of step that changes `db`, and what it
publishes is a draft, or the row of a single insert. So it remains to show that each complete draft is the `Effect`
that `Market` allows for that request, guards included (`StepImplements`): the item is
on offer at the price that is paid, the wallet and the quota bear it, the auction is
active and its leader somebody else, all at the moment of the commit. Everything else
is a stutter. Two things are not a matter of locks, because they are read before the
transaction and not again: that the item of an auction is legendary, and that a bid
reaches the minimum. `Suited` keeps them true, since no statement changes the type of an
item (`KeepsItems`), nor the start price of an auction, which is the minimum as long as
there is no bid (`KeepsAuctions`); of a seed, whose items are auctioned without that look,
`SeedKinds` says it. On PostgreSQL a bid
that replaces another never commits (section 3), so the draft of a bid has no
release; `ReturnQuota` is refused in every state in which it is reached.

*Answers.* `Told`: success of a change is returned only after its commit, and after a
commit nothing but success or an internal error. `Honesty` carries that through
`Status`, the channel and the gin context to the client: as long as no expired request
has given the context away, what is written in it was written by its own handler
(`ContextsHeld`, `Honest`).

*Seeding.* `Rooted`: whatever rows of a seed there are, the guild that its first call
makes (its `Founder`) is there, has its name, and is the only founder there is.
`Behind` connects that with the seeder: beyond its first call, the founder is
committed. A second start is stopped by the unique name at the first call, whether or
not it saw the listing of the first; two that run at the same time are serialised by
the index entry.

*Books.* Once the program implements `Market`, what happens to the money is a question
about eight effects, and each is taken apart into the rows it writes, one laid over the
other. Of each row it is proved by how much it shifts the gold, the reservations, the
entries, the proceeds and the quota of a guild (`Shift`), and that it overwrites no
record (`Stands`); both add up along the effect (`Posted`), and so gold less reservations
moves as entries and proceeds do. `MeansKept` is not inductive by itself: a guild that is
founded must not have bid or used a quota before it existed, which is the foreign keys of
`bids` and `daily_purchases` (`TablesSound`). In an effect the payer is the one guild whose
reservations or gold move against it, and there `CanPay` was checked.

*Listings.* `Turns` says of each effect which guild, item or auction it brings into a
listing or takes out of one; it is one at most, so a listing changes by one row at a time
(`ShowsOneApart`). `Pace` counts who can have made such a change: the clients whose
request is over, the workers whose auction is closed, and the rows a seed has there. It
never falls, because a client has one request, a closed auction stays closed, and nobody
buys or auctions a seeded item, which has no price and is not legendary (`SeedStill`).
And it grows with each change of the listing (`MoverCounts`): the one who makes it is
counted then and was not before. So the rows a page reads are as far from the total as
the pace has grown between the two statements (`Paced`), and it cannot grow beyond
`Movers`.

**What the proofs corrected in the model.** Guards that read a column of a row that may
be missing stood in `CASE`, whose branches TLC takes in order and TLA+ does not;
they are chains of IF now, as in the code. Inserts did not say that ids are new, and a
request asked twice would have overwritten the rows of its first run. Foreign keys
were left to the data of the instance. And `SeededOnce` went by names, which a client
may choose as well; it now says that everything seeded comes from one start of one
copy, which is more. `Market` let an amount be negative and a new
guild take the id of one there was; the code does not, and the proof of `MeansKept`
needs it; nor did its bids have to reach a minimum. That gold is explained by entries alone
does not hold: proceeds are not logged, which is a run of its own now
(`unlogged_proceeds`). And the first bound on the skew of a
listing was that of the instance, one row of one other request; the one that is proved
counts who else is there.

**Only model-checked.** Liveness (`ExpiredIsClosed`, `RequestsAnswered`,
`StopEnds`), which the prover cannot do under fairness. Every invariant and every other action
property of a passing run is a theorem. That `AuctionHouse` may take what `RowLocks`
shows to be serialised as one step is argued in section 3, not proved.

## 6. Not modelled

- `CancelBidTransaction` is reached by no route; `LeaderHoldsBid` shows that it
  could only find that there is nothing to retract. `GetGuild` has no route either;
  `GetBidForUpdate`, `DeactivateAuctionBids` and `ListWalletTransactions` no caller.
- `AuctionHouse` has no purchases. Legendary items, the only ones auctioned, cannot
  be listed, so purchases touch its wallets alone, and `ItemMarket` looks at that.
- Wait queues of row locks, and in `RowLocks` waits for rows of `daily_purchases`:
  two transactions that write the same one hold a lock on its guild's row already,
  and the one that wrote first waits for nothing any more.
- In `Requests`: clock and calendar (`AuctionHouse` has them), the time a broken
  connection takes to be rolled back, one pool for each copy (the instance has no two copies
  that compete for connections).
- The order of rows in a listing. `ORDER BY created_at DESC` and `ends_at ASC` have no
  tie-breaker (`guilds.sql:9`, `items.sql:21`, `auctions.sql:19`), so pages need not show
  each row once, and nothing in the repository says that they do. What is modelled is how
  many rows a page has, and the offset that is cut to 32 bits and refused when it turns
  negative (`Offset`, `ReadPage`).
- What `c.Next` does to the handler chain of another request that has got the context
  of an expired one: two goroutines then race on one gin context. `Service` has the
  answer that is written there, and nothing else of that race.
- Prices: no guard depends on `base_price`, and `SafePriceOracle` always has one. Its
  cache is asked with a fresh id each time, so it only grows.
- The worker's page of 10000 auctions is taken as enough.
- Texts, logging, JSON, CORS, configuration, `/health`, `/swagger`; `RecoveryMiddleware` and
  `http_oracle.go`, which are wired nowhere; mocks and swagger docs, which are
  generated and not part of the running program.

## 7. Remarks on the design

Worth knowing to a reader of the model:

- `FinalizeExpiredAuction` leaves the winner's bid row active and does not lower its
  `gold_balance`: the reservation *is* the charge. `DeactivateAuctionBids`
  (`bids.sql:22`, "once an auction reaches its final conclusion") is called
  nowhere; calling it in `FinalizeExpiredAuction` alone would give the winner its
  gold back. That is the mutant of `EscrowKept`.
- The seller's proceeds are not logged, though `wallet_transactions.sql:2` speaks of
  "every shift in guild finances" and the migration has a type for them, 'refund'
  (`unlogged_proceeds`). So `OnlyProceedsUnlogged` has the proceeds as a term of its own.
- `ListForSale` takes a list price and writes none, and no other query of the API does:
  what is listed through it has no price and cannot be bought (`ADR.md:18`).
- `ListNonLegendaryItem` compares the owner on a row it reads before its transaction, and
  `ListForSale` asks under the lock for the status alone. If the item has been listed and
  bought in between, its status is `sold` again, and it is exposed in the name of its new
  owner, who never asked (`item_service.go:82`: "Only the real owner can expose this
  item"). It takes an item with a price.
- A sold item has status `sold`, as has a freshly minted one; `in_auction` is never
  written.
- `README.md:244` reserves status 500 for internal failures, but some refusals by
  business rules end there, because the repository's error is none the
  service or the handler knows: listing an item that is not in an inventory, a bid over the daily
  limit, a bid of an unknown guild, a second legendary item of one name, an item for
  an unknown guild. `Status` has them as they are.
- A request that expires and is repeated may be carried out twice: the client sees
  503, and the handler's commit may be on its way. No request carries an id that
  would tell.
- Seeding that stops after the first guild is never completed: the next start finds
  nothing listed, begins again and stops at the guild's name (`SeededOnce` is the good
  half of this).
