------------------------------ MODULE Requests ------------------------------
(***************************************************************************)
(* The requests of the API, statement by statement: what handler, service  *)
(* and repository do between them, and what PostgreSQL makes of it.        *)
(*                                                                         *)
(* A process is a goroutine that serves one request at a time.  Outside a  *)
(* transaction every statement sees and changes the committed tables db.   *)
(* A transaction keeps what it has written to itself, sees it laid over    *)
(* db (READ COMMITTED), and holds the locks of its statements to the end;  *)
(* a statement that needs a lock it cannot have is not enabled.  Every     *)
(* statement may fail, and every failure ends in the deferred Rollback.    *)
(* The clock is left out: a deadline may pass at any time.                 *)
(***************************************************************************)
EXTENDS Tables

CONSTANTS
    Procs,      \* goroutines
    Asks,       \* requests they may be given: [id, op, ...]; a row or a log
                \* entry that a request inserts has its id
    Openings,   \* tables there may be at the start
    Nil,        \* uuid.Nil
    MaxConns,   \* poolConfig.MaxConns
    MaxActive,  \* 5 in the code
    MaxPage,    \* 100 in the code
    IntMax      \* 2^31

\* The requests that are answered in pages
Listings == {"listGuilds", "listActive", "listItems"}

ASSUME ProcsAssumption == IsFiniteSet(Procs)
ASSUME NumbersAssumption == MaxConns \in Nat /\ MaxPage \in Nat /\ IntMax \in Nat \ {0}
ASSUME OpeningsAssumption == \A t \in Openings : Sound(t) /\ WithinMeans(t)
\* Numbers are numbers; the fields of each request are those of its DTO.
ASSUME AsksAssumption ==
    \A k \in Asks :
      /\ {"id", "op"} \subseteq DOMAIN k
      /\ k.op = "createGuild" => "limit" \in DOMAIN k /\ k.limit \in Int
      /\ k.op \in {"deposit", "start", "bid"} => "amount" \in DOMAIN k /\ k.amount \in Int
      /\ k.op \in Listings => k.page \in Int /\ k.size \in Int

VARIABLES
    db,   \* the committed tables
    tx,   \* the transaction of each process
    req   \* the request of each process, and how far it is

vars == <<db, tx, req>>

\* open: it has a connection of the pool.  failed: PostgreSQL refuses what
\* follows.
NoTx == [open |-> FALSE, wrote |-> NoRows, held |-> {}, failed |-> FALSE]

\* saw: what the code keeps of the rows it has read.  kept: committed.
NoRequest == [ask |-> [op |-> "none"], at |-> "idle", saw |-> NoRows, err |-> "ok",
              kept |-> FALSE]

Running(p) == req[p].at \notin {"idle", "done"}

Init ==
    /\ db \in Openings
    /\ tx = [p \in Procs |-> NoTx]
    /\ req = [p \in Procs |-> NoRequest]

-----------------------------------------------------------------------------
(* Connections, locks and statements.                                      *)

\* pgxpool: a statement outside a transaction borrows a connection as well.
\* There is one pool; where copies of the app run side by side, it stands for
\* the connections PostgreSQL has for all of them.
SpareConn == Cardinality({p \in Procs : tx[p].open}) < MaxConns

\* "update" is FOR UPDATE, "write" the lock of an UPDATE or of an inserted row,
\* "share" the FOR KEY SHARE of a foreign key.
Modes == {"update", "write", "share"}
Compatible(m, n) == {m, n} \in {{"share"}, {"share", "write"}}
Conflict(k, l) == k[1] = l[1] /\ ~Compatible(k[2], l[2])
Free(p, l) == \A q \in Procs \ {p} : \A k \in tx[q].held : ~Conflict(k, l)

Granted(p, locks) == \A l \in locks : Free(p, l)

\* Mutant: the row is read without FOR UPDATE.
WithoutLock(r) == {}

ForUpdate(r) == {<<r, "update">>}
Writes(w) == {<<r, "write">> : r \in DOMAIN w}
References(rows) == {<<r, "share">> : r \in rows}

\* Mutant: no foreign keys.
AnyRow(t, locks) == TRUE

\* A foreign key finds its row, or the statement fails.
Found(t, locks) == \A l \in locks : l[2] = "share" => l[1] \in DOMAIN t

\* What p's transaction sees
See(p) == Write(db, tx[p].wrote)

At(p, op, at) == req[p].ask.op = op /\ req[p].at = at

\* A statement of p's transaction takes locks and writes w; the code goes on at
\* next and remembers saw.
Statement(p, next, saw, locks, w) ==
    /\ tx[p].open /\ ~tx[p].failed
    /\ Granted(p, locks \cup Writes(w)) /\ Found(See(p), locks)
    /\ tx' = [tx EXCEPT ![p] = [open |-> TRUE, wrote |-> Write(tx[p].wrote, w),
                                held |-> tx[p].held \cup (locks \cup Writes(w)),
                                failed |-> FALSE]]
    /\ req' = [req EXCEPT ![p] = [@ EXCEPT !.at = next, !.saw = saw]]
    /\ UNCHANGED db
Exec(p, next, locks, w) == Statement(p, next, req[p].saw, locks, w)

\* UpdateGuildBalance, unless it finds no row
ChangeBalance(p, next, g, x) ==
    /\ BalanceSuffices(See(p), g, x)
    /\ Exec(p, next, {}, UpdateGuildBalance(See(p), g, x))

\* The code goes on without a statement.
Goto(p, next, saw) ==
    /\ req' = [req EXCEPT ![p] = [@ EXCEPT !.at = next, !.saw = saw]]
    /\ UNCHANGED <<db, tx>>

\* Mutant: no deferred Rollback.
EndKeepingTx(p, err, kept) ==
    /\ UNCHANGED tx
    /\ req' = [req EXCEPT ![p] = [@ EXCEPT !.at = "done", !.err = err, !.kept = kept]]

\* The repository and the service return.  A transaction that is still open is
\* rolled back, its locks and its connection are free again.
End(p, err, kept) ==
    /\ tx' = [tx EXCEPT ![p] = NoTx]
    /\ req' = [req EXCEPT ![p] = [@ EXCEPT !.at = "done", !.err = err, !.kept = kept]]
Return(p, err) == End(p, err, FALSE) /\ UNCHANGED db

\* A statement outside a transaction commits by itself; the answer may be lost.
Autocommit(p, locks, w) ==
    /\ SpareConn /\ Granted(p, locks \cup Writes(w))
    /\ db' = Write(db, w)
    /\ \E err \in {"ok", "internal"} : End(p, err, TRUE)

\* Nil ids, and amounts, prices, limits and durations that are not positive
Invalid(ask) == \E f \in DOMAIN ask :
    \/ f \in {"guild", "item", "auction"} /\ ask[f] = Nil
    \/ f \in {"amount", "limit"} /\ ask[f] <= 0

\* Services that look at nothing before the repository does
Unchecked == {"deposit", "buy"}

\* Process p is given a request: by a handler, which calls the service, or by
\* the seeder or the worker, which call the repository.
Take(p, ask, at) ==
    /\ ~Running(p)
    /\ req' = [req EXCEPT ![p] = [NoRequest EXCEPT !.ask = ask, !.at = at]]
    /\ UNCHANGED <<db, tx>>
Call(p, ask) == Take(p, ask, "service")
CallRepository(p, ask) ==
    \/ ask.op \in {"createGuild", "createItem"} /\ Take(p, ask, "insert")
    \/ ask.op \in {"deposit", "list", "start", "close"} /\ Take(p, ask, "begin")

\* db.Begin
Begin(p) ==
    /\ SpareConn
    /\ \/ req[p].at = "begin"
       \/ req[p].at = "service" /\ req[p].ask.op \in Unchecked /\ ~Invalid(req[p].ask)
    /\ tx' = [tx EXCEPT ![p] = [NoTx EXCEPT !.open = TRUE]]
    /\ req' = [req EXCEPT ![p] = [@ EXCEPT !.at = "first"]]
    /\ UNCHANGED db

\* Mutant: the error of Commit is not looked at.
CommitUnchecked(p) ==
    /\ req[p].at = "commit"
    /\ \/ db' = Write(db, tx[p].wrote) /\ End(p, "ok", TRUE)
       \/ UNCHANGED db /\ End(p, "ok", FALSE)

\* tx.Commit
Commit(p) ==
    /\ req[p].at = "commit" /\ ~tx[p].failed
    /\ db' = Write(db, tx[p].wrote) /\ End(p, "ok", TRUE)

\* The commit arrives and its confirmation is lost.
CommitUnconfirmed(p) ==
    /\ req[p].at = "commit" /\ ~tx[p].failed
    /\ db' = Write(db, tx[p].wrote) /\ End(p, "internal", TRUE)

\* A connection is lost, a context cancelled or expired, a deadlock resolved; or
\* the transaction has failed before, as after a statement whose error the code
\* discards.
Fail(p) ==
    /\ Running(p) /\ req[p].at # "pricing"
    /\ req[p].at = "service" => ~Invalid(req[p].ask) /\ req[p].ask.op # "createItem"
    /\ Return(p, "internal")

-----------------------------------------------------------------------------
(* Guilds.                                                                 *)

RefuseInput(p) ==
    /\ req[p].at = "service" /\ Invalid(req[p].ask)
    /\ Return(p, "ErrInvalidInput")

\* The service of op has accepted its input.
Service(p, op) == At(p, op, "service") /\ ~Invalid(req[p].ask)

CreateGuildRow(p) ==
    LET k == req[p].ask IN
    /\ At(p, "createGuild", "service") \/ At(p, "createGuild", "insert")
    /\ ~Invalid(k)
    /\ IF NameTaken(db, k.name)
         THEN SpareConn /\ Return(p, "ErrGuildNameExists")
         ELSE /\ IsNew(db, Guild(k.id))
              /\ Autocommit(p, {}, CreateGuild(k.id, k.name, k.limit))

GetWallet(p) ==
    LET g == req[p].ask.guild IN
    /\ Service(p, "getWallet") /\ SpareConn
    /\ Return(p, IF Guild(g) \in DOMAIN db THEN "ok" ELSE "ErrGuildNotFound")

\* The guild, then the items it owns, split by status
ValidateGuild(p) ==
    /\ Service(p, "getInventory") /\ SpareConn
    /\ IF Guild(req[p].ask.guild) \in DOMAIN db
         THEN Goto(p, "items", NoRows) ELSE Return(p, "ErrGuildNotFound")
GetByOwner(p) ==
    /\ At(p, "getInventory", "items") /\ SpareConn
    /\ Return(p, "ok")

LockForDeposit(p) ==
    LET g == req[p].ask.guild IN
    /\ At(p, "deposit", "first")
    /\ IF Guild(g) \in DOMAIN See(p)
         THEN Exec(p, "credit", ForUpdate(Guild(g)), NoRows)
         ELSE Return(p, "ErrGuildNotFound")
CreditDeposit(p) ==
    LET k == req[p].ask IN
    /\ At(p, "deposit", "credit")
    /\ ChangeBalance(p, "log", k.guild, k.amount)
LogDeposit(p) ==
    LET k == req[p].ask IN
    /\ At(p, "deposit", "log") /\ IsNew(See(p), Log(<<k.id, 1>>))
    /\ Exec(p, "commit", References({Guild(k.guild)}),
            LogWalletTransaction(<<k.id, 1>>, k.guild, "deposit", k.amount))

-----------------------------------------------------------------------------
(* Pages.                                                                  *)

\* int32(x), with IntMax for 2^31
Int32(x) == ((x + IntMax) % (2 * IntMax)) - IntMax

Offset(page, size) == Int32((page - 1) * size)
PageSize(size) == IF size > MaxPage THEN MaxPage ELSE size

\* How many of n rows LIMIT limit OFFSET offset returns.  Which ones they are is left
\* open: the queries order by a column that several rows may agree in.
Shown(n, limit, offset) ==
    IF offset >= n THEN 0 ELSE IF n - offset < limit THEN n - offset ELSE limit

\* A listing counts in one statement and reads the page in another.
CountRows(p, op, n) ==
    /\ Service(p, op) /\ SpareConn
    /\ Goto(p, "rows", [total |-> n])
ReadPage(p, op, n) ==
    LET k == req[p].ask
        offset == Offset(k.page, PageSize(k.size)) IN
    /\ At(p, op, "rows") /\ SpareConn
    /\ IF offset < 0 THEN Return(p, "internal")
       ELSE Goto(p, "done", [total |-> req[p].saw.total,
                             rows |-> Shown(n, PageSize(k.size), offset)])

ListGuildsPage(p) ==
    \/ CountRows(p, "listGuilds", CountGuilds(db))
    \/ ReadPage(p, "listGuilds", Cardinality(ListGuilds(db)))
ListActivePage(p) ==
    \/ CountRows(p, "listActive", CountActiveAuctions(db))
    \/ ReadPage(p, "listActive", Cardinality(ListActiveAuctions(db)))
ListAvailablePage(p) ==
    IF "kind" \in DOMAIN req[p].ask
    THEN \/ CountRows(p, "listItems", CountAvailableItemsByType(db, req[p].ask.kind))
         \/ ReadPage(p, "listItems",
                     Cardinality(ListAvailableItemsByType(db, req[p].ask.kind)))
    ELSE \/ CountRows(p, "listItems", CountAvailableItems(db))
         \/ ReadPage(p, "listItems", Cardinality(ListAvailableItems(db)))

-----------------------------------------------------------------------------
(* Items.                                                                  *)

\* CreateItem asks the oracle, which always has a price, and inserts.
AskPrice(p) == Service(p, "createItem") /\ Goto(p, "pricing", NoRows)
GotPrice(p) == At(p, "createItem", "pricing") /\ Goto(p, "insert", NoRows)
InsertItem(p) ==
    LET k == req[p].ask  owner == References({Guild(k.guild)}) IN
    /\ At(p, "createItem", "insert")
    /\ IF ~Found(db, owner) \/ (k.kind = "legendary" /\ LegendTaken(db, k.name))
         THEN SpareConn /\ Return(p, "internal")
         ELSE /\ IsNew(db, Item(k.id))
              /\ Autocommit(p, owner, CreateItem(k.id, k.name, k.kind, k.guild))

LookUpItem(p) ==
    /\ Service(p, "getItem") /\ SpareConn
    /\ Return(p, IF Item(req[p].ask.item) \in DOMAIN db THEN "ok" ELSE "ErrItemNotFound")

\* ListNonLegendaryItem reads the item in no transaction.
ReadForListing(p) ==
    LET k == req[p].ask  row == GetItemByID(db, k.item) IN
    /\ Service(p, "list") /\ SpareConn
    /\ IF Item(k.item) \notin DOMAIN db THEN Return(p, "ErrItemNotFound")
       ELSE IF row.owner # k.guild THEN Return(p, "ErrNotItemOwner")
       ELSE IF row.kind = "legendary" THEN Return(p, "ErrLegendaryPriceAllowed")
       ELSE Goto(p, "begin", NoRows)

\* ListForSale asks for the status alone.
LockForListing(p) ==
    LET i == req[p].ask.item IN
    /\ At(p, "list", "first")
    /\ IF Item(i) \notin DOMAIN See(p) THEN Return(p, "repository.ErrItemNotFound")
       ELSE /\ Granted(p, ForUpdate(Item(i)))
            /\ IF GetItemByID(See(p), i).status = "sold"
                 THEN Exec(p, "expose", ForUpdate(Item(i)), NoRows)
                 ELSE Return(p, "repository.ErrItemNotAvailable")
Expose(p) ==
    /\ At(p, "list", "expose")
    /\ Exec(p, "commit", {}, UpdateItemStatus(See(p), req[p].ask.item, "available"))

\* PurchaseLimitOrder
LockToBuy(p) ==
    LET k == req[p].ask  row == GetItemByID(See(p), k.item) IN
    /\ At(p, "buy", "first")
    /\ IF Item(k.item) \notin DOMAIN See(p) THEN Return(p, "ErrItemNotFound")
       ELSE /\ Granted(p, ForUpdate(Item(k.item)))
            /\ IF row.status # "available" \/ row.price = 0
                 THEN Return(p, "ErrItemNotAvailable")
               ELSE IF row.owner = k.guild THEN Return(p, "ErrPurchaseOwnItem")
               ELSE Statement(p, "lockBuyer", row, ForUpdate(Item(k.item)), NoRows)
LockBuyer(p) ==
    LET g == req[p].ask.guild IN
    /\ At(p, "buy", "lockBuyer")
    /\ IF Guild(g) \in DOMAIN See(p) THEN Exec(p, "funds", ForUpdate(Guild(g)), NoRows)
       ELSE Return(p, "ErrGuildNotFound")
CheckBuyer(p) ==
    LET g == req[p].ask.guild  price == req[p].saw.price IN
    /\ At(p, "buy", "funds")
    /\ IF GetWalletSummary(See(p), g).available < price THEN Return(p, "ErrInsufficientGold")
       ELSE IF GetDailySpent(See(p), g) + price > GetGuildByID(See(p), g).limit
         THEN Return(p, "ErrDailyLimitExceeded")
       ELSE Exec(p, "charge", {}, NoRows)
ChargeBuyer(p) ==
    /\ At(p, "buy", "charge")
    /\ ChangeBalance(p, "pay", req[p].ask.guild, -req[p].saw.price)
PaySeller(p) ==
    /\ At(p, "buy", "pay")
    /\ ChangeBalance(p, "transfer", req[p].saw.owner, req[p].saw.price)
TransferBought(p) ==
    LET k == req[p].ask IN
    /\ At(p, "buy", "transfer")
    /\ Exec(p, "quota", References({Guild(k.guild)}),
            TransferItemOwnership(See(p), k.item, k.guild, "sold"))

\* Mutant: the purchase does not count against the quota.
ForgetQuota(p) == At(p, "buy", "quota") /\ Exec(p, "logBuyer", {}, NoRows)

CountPurchase(p) ==
    LET g == req[p].ask.guild IN
    /\ At(p, "buy", "quota")
    /\ Exec(p, "logBuyer", References({Guild(g)}),
            UpsertDailyPurchase(See(p), g, req[p].saw.price))
LogPurchase(p) ==
    LET k == req[p].ask IN
    /\ At(p, "buy", "logBuyer") /\ IsNew(See(p), Log(<<k.id, 1>>))
    /\ Exec(p, "logSeller", References({Guild(k.guild)}),
            LogWalletTransaction(<<k.id, 1>>, k.guild, "purchase", -req[p].saw.price))
LogProceeds(p) ==
    LET s == req[p].saw.owner IN
    /\ At(p, "buy", "logSeller") /\ IsNew(See(p), Log(<<req[p].ask.id, 2>>))
    /\ Exec(p, "commit", References({Guild(s)}),
            LogWalletTransaction(<<req[p].ask.id, 2>>, s, "refund", req[p].saw.price))

-----------------------------------------------------------------------------
(* Auctions.                                                               *)

LookUpAuction(p) ==
    /\ Service(p, "getAuction") /\ SpareConn
    /\ Return(p, IF Auction(req[p].ask.auction) \in DOMAIN db THEN "ok"
                 ELSE "ErrAuctionNotFound")

\* StartAuction reads the item in no transaction.
ReadToAuction(p) ==
    LET k == req[p].ask  row == GetItemByID(db, k.item) IN
    /\ Service(p, "start") /\ SpareConn
    /\ IF Item(k.item) \notin DOMAIN db THEN Return(p, "ErrAssociatedItemNotFound")
       ELSE IF row.kind # "legendary" THEN Return(p, "ErrNonLegendaryAuction")
       ELSE IF row.owner # k.guild THEN Return(p, "ErrNotItemOwner")
       ELSE Goto(p, "begin", NoRows)

MayStart(p) == CountActiveAuctionsBySeller(See(p), req[p].ask.guild) < MaxActive
CountOwn(p) ==
    /\ At(p, "start", "first")
    /\ IF MayStart(p) THEN Exec(p, "insert", {}, NoRows)
       ELSE Return(p, "ErrMaxActiveAuctions")

InsertAuction(p) ==
    LET k == req[p].ask  entry == {<<ActiveEntry(k.item), "write">>} IN
    /\ At(p, "start", "insert") /\ Granted(p, entry)
    /\ IF OnSale(See(p), k.item) THEN Return(p, "ErrItemAlreadyInAuction")
       ELSE /\ IsNew(See(p), Auction(k.id))
            /\ Exec(p, "commit", entry \cup References({Item(k.item), Guild(k.guild)}),
                    CreateAuction(k.id, k.item, k.guild, k.amount))

\* PlaceBid reads the auction in no transaction.
ReadForBid(p) ==
    LET k == req[p].ask  row == GetAuction(db, k.auction) IN
    /\ Service(p, "bid") /\ SpareConn
    /\ IF Auction(k.auction) \notin DOMAIN db THEN Return(p, "ErrAuctionNotFound")
       ELSE IF k.amount < MinBid(row) THEN Return(p, "ErrBidTooLow")
       ELSE Goto(p, "begin", NoRows)

\* Mutant: the auction is not looked at again once it is locked.
LockUnseen(p) ==
    LET k == req[p].ask IN
    /\ At(p, "bid", "first") /\ Auction(k.auction) \in DOMAIN See(p)
    /\ Statement(p, "lockBidder", GetAuction(See(p), k.auction), ForUpdate(Auction(k.auction)), NoRows)

\* PlaceBidTransaction.  Whether the deadline has passed is open.
LockToBid(p) ==
    LET k == req[p].ask  row == GetAuction(See(p), k.auction) IN
    /\ At(p, "bid", "first")
    /\ IF Auction(k.auction) \notin DOMAIN See(p) THEN Return(p, "repository.ErrAuctionNotFound")
       ELSE /\ Granted(p, ForUpdate(Auction(k.auction)))
            /\ \/ Return(p, "ErrAuctionNotActive")
               \/ /\ row.status = "active"
                  /\ IF row.seller = k.guild THEN Return(p, "ErrBidOnOwnAuction")
                     ELSE IF row.winner = k.guild THEN Return(p, "ErrAlreadyHighestBidder")
                     ELSE Statement(p, "lockBidder", row, ForUpdate(Auction(k.auction)), NoRows)
LockBidder(p) ==
    LET g == req[p].ask.guild IN
    /\ At(p, "bid", "lockBidder")
    /\ IF Guild(g) \in DOMAIN See(p) THEN Exec(p, "funds", ForUpdate(Guild(g)), NoRows)
       ELSE Return(p, "internal")
CheckBidder(p) ==
    LET k == req[p].ask IN
    /\ At(p, "bid", "funds")
    /\ IF GetWalletSummary(See(p), k.guild).available < k.amount
         THEN Return(p, "ErrInsufficientBalance")
       ELSE IF GetDailySpent(See(p), k.guild) + k.amount > GetGuildByID(See(p), k.guild).limit
         THEN Return(p, "repository.ErrDailyLimitExceeded")
       ELSE Exec(p, IF req[p].saw.winner = Nobody THEN "record" ELSE "outbid", {}, NoRows)

\* The bid of the leader that is outbid, if it is found, and what is done with
\* it; the errors of these statements are discarded.
LeadingBid(p) == GetActiveBidByBidder(See(p), req[p].ask.auction, req[p].saw.winner)
FreeLeader(p) ==
    /\ At(p, "bid", "outbid")
    /\ IF LeadingBid(p) = {} THEN Exec(p, "record", {}, NoRows)
       ELSE \E b \in LeadingBid(p) :
              Statement(p, "release", [leader |-> req[p].saw.winner, amount |-> See(p)[Bid(b)].amount],
                        {}, DeactivateBid(See(p), b))
LogRelease(p) ==
    LET g == req[p].saw.leader IN
    /\ At(p, "bid", "release") /\ IsNew(See(p), Log(<<req[p].ask.id, 2>>))
    /\ Exec(p, "handBack", References({Guild(g)}),
            LogWalletTransaction(<<req[p].ask.id, 2>>, g, "release", req[p].saw.amount))

\* An error that is discarded: the code goes on in a transaction in which
\* nothing can succeed any more.
Discard(p) ==
    /\ tx' = [tx EXCEPT ![p] = [@ EXCEPT !.failed = TRUE]]
    /\ req' = [req EXCEPT ![p] = [@ EXCEPT !.at = "record"]]
    /\ UNCHANGED db
ReleaseFails(p) == At(p, "bid", "release") /\ Discard(p)
ReturnQuota(p) ==
    LET g == req[p].saw.leader  n == req[p].saw.amount IN
    /\ At(p, "bid", "handBack")
    /\ IF UpsertRefused(-n) THEN Discard(p)
       ELSE Exec(p, "record", References({Guild(g)}), UpsertDailyPurchase(See(p), g, -n))

RecordBid(p) ==
    LET k == req[p].ask IN
    /\ At(p, "bid", "record") /\ IsNew(See(p), Bid(k.id))
    /\ GetActiveBidByBidder(See(p), k.auction, k.guild) = {}
    /\ Exec(p, "standing", References({Auction(k.auction), Guild(k.guild)})
                             \cup {<<BidEntry(k.auction, k.guild), "write">>},
            CreateBid(k.id, k.auction, k.guild, k.amount))
UpdateStanding(p) ==
    LET k == req[p].ask IN
    /\ At(p, "bid", "standing")
    /\ Exec(p, "logBid", References({Guild(k.guild)}),
            UpdateAuctionBid(See(p), k.auction, k.guild, k.amount))
LogReserve(p) ==
    LET k == req[p].ask IN
    /\ At(p, "bid", "logBid") /\ IsNew(See(p), Log(<<k.id, 1>>))
    /\ Exec(p, "count", References({Guild(k.guild)}),
            LogWalletTransaction(<<k.id, 1>>, k.guild, "reserve", -k.amount))
CountBid(p) ==
    LET k == req[p].ask IN
    /\ At(p, "bid", "count")
    /\ Exec(p, "commit", References({Guild(k.guild)}),
            UpsertDailyPurchase(See(p), k.guild, k.amount))

\* Mutant: whoever comes second closes it again.
LockClosed(p) ==
    LET a == req[p].ask.auction  row == GetAuction(See(p), a) IN
    /\ At(p, "close", "first") /\ Auction(a) \in DOMAIN See(p)
    /\ Statement(p, IF row.high = 0 THEN "restore" ELSE "handOver", row,
                  ForUpdate(Auction(a)), NoRows)

\* FinalizeExpiredAuction, called by the worker
LockToClose(p) ==
    LET a == req[p].ask.auction  row == GetAuction(See(p), a) IN
    /\ At(p, "close", "first")
    /\ IF Auction(a) \notin DOMAIN See(p) THEN Return(p, "internal")
       ELSE /\ Granted(p, ForUpdate(Auction(a)))
            /\ IF row.status # "active" THEN Return(p, "ok")
               ELSE Statement(p, IF row.high = 0 THEN "restore" ELSE "handOver", row,
                              ForUpdate(Auction(a)), NoRows)
RestoreItem(p) ==
    /\ At(p, "close", "restore")
    /\ Exec(p, "cancel", {}, UpdateItemStatus(See(p), req[p].saw.item, "available"))
HandOver(p) ==
    /\ At(p, "close", "handOver")
    /\ Exec(p, "proceeds", References({Guild(req[p].saw.winner)}),
            TransferItemOwnership(See(p), req[p].saw.item, req[p].saw.winner, "sold"))
PayProceeds(p) ==
    /\ At(p, "close", "proceeds")
    /\ ChangeBalance(p, "end", req[p].saw.seller, req[p].saw.high)
CloseRow(p, at, status, winner) ==
    /\ At(p, "close", at)
    /\ Exec(p, "commit", {<<ActiveEntry(req[p].saw.item), "write">>},
            CloseAuction(See(p), req[p].ask.auction, status, winner))
CancelUnsold(p) == CloseRow(p, "cancel", "cancelled", Nobody)
EndSold(p) == CloseRow(p, "end", "ended", req[p].saw.winner)

-----------------------------------------------------------------------------
Reading(p) == \/ GetWallet(p) \/ ValidateGuild(p) \/ GetByOwner(p) \/ LookUpItem(p)
              \/ LookUpAuction(p) \/ ListGuildsPage(p) \/ ListActivePage(p)
              \/ ListAvailablePage(p)
Depositing(p) == LockForDeposit(p) \/ CreditDeposit(p) \/ LogDeposit(p)
Minting(p) == CreateGuildRow(p) \/ AskPrice(p) \/ GotPrice(p) \/ InsertItem(p)
Listing(p) == ReadForListing(p) \/ LockForListing(p) \/ Expose(p)
Buying(p) == \/ LockToBuy(p) \/ LockBuyer(p) \/ CheckBuyer(p) \/ ChargeBuyer(p)
             \/ PaySeller(p) \/ TransferBought(p) \/ CountPurchase(p)
             \/ LogPurchase(p) \/ LogProceeds(p)
Starting(p) == ReadToAuction(p) \/ CountOwn(p) \/ InsertAuction(p)
Bidding(p) == \/ ReadForBid(p) \/ LockToBid(p) \/ LockBidder(p) \/ CheckBidder(p)
              \/ FreeLeader(p) \/ LogRelease(p) \/ ReturnQuota(p) \/ ReleaseFails(p)
              \/ RecordBid(p) \/ UpdateStanding(p) \/ LogReserve(p) \/ CountBid(p)
Closing(p) == \/ LockToClose(p) \/ RestoreItem(p) \/ HandOver(p) \/ PayProceeds(p)
              \/ CancelUnsold(p) \/ EndSold(p)

\* What a goroutine does with its request, unless something fails
Step(p) == \/ RefuseInput(p) \/ Begin(p) \/ Reading(p) \/ Depositing(p) \/ Minting(p)
           \/ Listing(p) \/ Buying(p) \/ Starting(p) \/ Bidding(p) \/ Closing(p)
           \/ Commit(p)

\* Steps without a statement, which no cancelled context keeps a goroutine from: the
\* oracle does not look at it, and the insert that follows fails.
Computes(p) == RefuseInput(p) \/ AskPrice(p) \/ GotPrice(p)

\* The goroutines in S die with their process.
Kill(S) ==
    /\ tx' = [p \in Procs |-> IF p \in S THEN NoTx ELSE tx[p]]
    /\ req' = [p \in Procs |-> IF p \in S THEN NoRequest ELSE req[p]]
    /\ UNCHANGED db

Next ==
    \/ \E p \in Procs, ask \in Asks : Call(p, ask) \/ CallRepository(p, ask)
    \/ \E p \in Procs : Step(p) \/ Fail(p) \/ CommitUnconfirmed(p)
    \/ \E S \in SUBSET Procs : Kill(S)

Spec == Init /\ [][Next]_vars

-----------------------------------------------------------------------------
(* Properties.                                                             *)

Promise == INSTANCE Market

\* Whatever fails, is lost, expires or dies, the tables only ever change by the
\* whole effect of one request, with none of its writes missing.  At that moment
\* the gold, the quota, the status, the price, the leader, the seller, the minimum
\* and the one auction per item are still as its code has found them, whether it
\* looked under a lock or not.  Not so, and not asked for by Market: the owner of
\* an item that is auctioned (run stale_owner) or listed, a seller's number of
\* auctions (run write_skew) and the deadline, as there is no clock.
EffectsAreWhole == Promise!Spec

\* Under the locks of its transaction, p has read the rows it decides on.
Decided(p, op) == req[p].ask.op = op /\ tx[p].open /\ req[p].at # "first"

\* What a transaction has decided on under FOR UPDATE stands until it ends,
\* although others go on: the item for sale, as it was priced and owned; the
\* auction to close, with its highest bid and winner; the item to list, still in
\* the inventory; the auction bid on, active and led by another guild.
DecisionsStand ==
    \A p \in Procs :
      LET k == req[p].ask IN
      /\ Decided(p, "buy") => db[Item(k.item)] = req[p].saw
      /\ Decided(p, "close") => db[Auction(k.auction)] = req[p].saw
      /\ Decided(p, "list") => db[Item(k.item)].status = "sold"
      /\ Decided(p, "bid") => /\ db[Auction(k.auction)].status = "active"
                              /\ db[Auction(k.auction)].winner # k.guild

\* A guild whose gold and quota have sufficed has them until the transaction
\* ends: no other request spends what this one has counted on.
FundsStand ==
    \A p \in Procs :
      LET k == req[p].ask IN
      /\ (Decided(p, "buy") /\ req[p].at \notin {"lockBuyer", "funds"})
           => Promise!MaySpend(k.guild, req[p].saw.price)
      /\ (Decided(p, "bid") /\ req[p].at \notin {"lockBidder", "funds"})
           => Promise!MaySpend(k.guild, k.amount)

\* A goroutine that is done, by whichever of its returns, has given back its
\* connection and its locks; the pool is never overdrawn.
DoneHoldsNothing ==
    /\ \A p \in Procs : tx[p].open \/ tx[p] = NoTx
    /\ \A p \in Procs : tx[p].open => Running(p)
    /\ Cardinality({p \in Procs : tx[p].open}) <= MaxConns

\* The committed tables are sound whenever anybody looks: no row of any table
\* refers to one that is not there, and the leader of an auction has its bid.
TablesSound == Sound(db)

\* However transactions meet, fail half way or are lost: no guild has ever promised
\* more gold than it has, or used more than its quota.  No constraint of the schema
\* says so; it rests on the locks between a check and what follows from it.
MeansKept == WithinMeans(db)

\* The entries miss one kind of shift of a guild's free gold and no other: the
\* proceeds of an auction of its that ends (run unlogged_proceeds).  Whatever the
\* difference to its books is at the start, nothing else ever adds to it.
UnloggedAreProceeds ==
    [][\A g \in Keys(db, "guild") : Unexplained(db', g) = Unexplained(db, g)]_db

\* What is on record stays: no row vanishes, no entry and no closed auction is ever
\* written again, and neither is a bid on it.
RecordsStand ==
    [][\A r \in DOMAIN db :
         /\ r \in DOMAIN db'
         /\ r[1] = "log" => db'[r] = db[r]
         /\ (r[1] = "auction" /\ db[r].status # "active") => db'[r] = db[r]
         /\ (r[1] = "bid" /\ db[Auction(db[r].auction)].status # "active") => db'[r] = db[r]]_db
=============================================================================
