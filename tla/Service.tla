------------------------------- MODULE Service -------------------------------
(***************************************************************************)
(* The running program around the requests: each copy of the app starts,   *)
(* seeds the marketplace, serves, and is stopped, or dies.                 *)
(*                                                                         *)
(* A request p \in Clients is two goroutines, as TimeoutMiddleware makes   *)
(* it.  One runs the handler: it is the process p of Requests.  The other, *)
(* main, waits for the handler or the deadline and returns; it has a gin   *)
(* context out of a pool, and the handler writes its answer into whatever  *)
(* response that context belongs to by then.  The process x \in Apps runs  *)
(* the seeder of copy x and afterwards its auction worker.                 *)
(***************************************************************************)
EXTENDS Requests, Sequences

CONSTANTS
    Clients, Apps,  \* the processes: Procs
    Contexts,       \* gin contexts of a copy
    Nothing,        \* no request, no copy, no answer
    Scenarios,      \* what there is at the start, see Init
    MaxStarts       \* a bound on the starts of a copy

ASSUME ProcessAssumption == Procs = Clients \cup Apps /\ Clients \cap Apps = {}
\* What a response can be
Statuses == {200, 201, 400, 404, 500, 503}
Replies == [by : Clients, status : Statuses]
ASSUME NothingAssumption == Nothing \notin Clients /\ Nothing \notin Apps /\ Nothing \notin Replies
\* Whoever has work has a request; a worker closes auctions.
ASSUME ScenarioAssumption ==
    \A s \in Scenarios :
      /\ s.tables \in Openings /\ s.starts \in Nat
      /\ s.phase = [x \in Apps |-> s.phase[x]] /\ \A x \in Apps : s.phase[x] # "seeding"
      /\ \A p \in Procs : s.work[p] \in Asks \cup {Nothing}
      /\ \A x \in Apps : s.work[x] # Nothing => s.work[x].op = "close"

VARIABLES
    work,    \* the request of each client, and what the workers close
    phase,   \* where each copy is between start and exit
    starts,  \* how often it was started
    seed,    \* the next step of its seeder
    http,    \* main, context and response of each request
    holder   \* the request each context of a copy belongs to

lifecycle == <<phase, starts, seed>>
web == <<http, holder>>
allVars == <<vars, work, lifecycle, web>>

Unsent == [main |-> "unsent", app |-> Nothing, context |-> Nothing, wrote |-> FALSE,
           reply |-> Nothing, garbled |-> FALSE]

ServiceInit ==
    \E s \in Scenarios :
      /\ Init /\ db = s.tables
      /\ work = s.work /\ phase = s.phase
      /\ starts = [x \in Apps |-> s.starts] /\ seed = [x \in Apps |-> 0]
      /\ http = [p \in Clients |-> Unsent]
      /\ holder = [x \in Apps |-> [c \in Contexts |-> Nothing]]

-----------------------------------------------------------------------------
(* The status each handler makes of an error.  ErrInvalidInput is every     *)
(* refusal of the input, by the handler's parsing or by the service.       *)

StartAuctionStatus(e) ==
    IF e \in {"ErrInvalidInput", "ErrAssociatedItemNotFound", "ErrItemAlreadyInAuction",
              "ErrNonLegendaryAuction", "ErrNotItemOwner", "ErrMaxActiveAuctions"}
      THEN 400 ELSE 500
GetAuctionStatus(e) == IF e = "ErrAuctionNotFound" THEN 404 ELSE 500
PlaceBidStatus(e) ==
    IF e = "ErrAuctionNotFound" THEN 404
    ELSE IF e \in {"ErrInvalidInput", "ErrBidTooLow", "ErrAlreadyHighestBidder",
                   "ErrAuctionNotActive", "ErrBidOnOwnAuction", "ErrInsufficientBalance"}
      THEN 400 ELSE 500
CreateGuildStatus(e) == IF e \in {"ErrInvalidInput", "ErrGuildNameExists"} THEN 400 ELSE 500
GuildInventoryStatus(e) ==
    IF e = "ErrGuildNotFound" THEN 404 ELSE IF e = "ErrInvalidInput" THEN 400 ELSE 500
WalletSummaryStatus(e) ==
    IF e = "ErrGuildNotFound" THEN 404 ELSE IF e = "ErrInvalidInput" THEN 400 ELSE 500
DepositGoldStatus(e) ==
    IF e = "ErrGuildNotFound" THEN 404 ELSE IF e = "ErrInvalidInput" THEN 400 ELSE 500
CreateItemStatus(e) == IF e = "ErrInvalidInput" THEN 400 ELSE 500
ListForSaleStatus(e) ==
    IF e = "ErrItemNotFound" THEN 404
    ELSE IF e \in {"ErrInvalidInput", "ErrNotItemOwner", "ErrLegendaryPriceAllowed"}
      THEN 400 ELSE 500
GetItemStatus(e) ==
    IF e = "ErrItemNotFound" THEN 404 ELSE IF e = "ErrInvalidInput" THEN 400 ELSE 500
BuyItemStatus(e) ==
    IF e \in {"ErrItemNotFound", "ErrGuildNotFound"} THEN 404
    ELSE IF e \in {"ErrInvalidInput", "ErrItemNotAvailable", "ErrPurchaseOwnItem",
                   "ErrInsufficientGold", "ErrDailyLimitExceeded"} THEN 400 ELSE 500

Created == {"createGuild", "createItem", "start"}
Status(op, e) ==
    IF e = "ok" THEN IF op \in Created THEN 201 ELSE 200
    ELSE CASE op = "start" -> StartAuctionStatus(e)
           [] op = "getAuction" -> GetAuctionStatus(e)
           [] op = "bid" -> PlaceBidStatus(e)
           [] op = "createGuild" -> CreateGuildStatus(e)
           [] op = "getInventory" -> GuildInventoryStatus(e)
           [] op = "getWallet" -> WalletSummaryStatus(e)
           [] op = "deposit" -> DepositGoldStatus(e)
           [] op = "createItem" -> CreateItemStatus(e)
           [] op = "list" -> ListForSaleStatus(e)
           [] op = "getItem" -> GetItemStatus(e)
           [] op = "buy" -> BuyItemStatus(e)
           [] OTHER -> 500  \* the listings

-----------------------------------------------------------------------------
(* TimeoutMiddleware.                                                      *)

\* ServeHTTP takes a context out of the pool and starts both goroutines.  A client
\* that repeats its request is another p, with an ask that differs in its id.
Accept(p) ==
    /\ http[p].main = "unsent" /\ work[p] # Nothing
    /\ Call(p, work[p])
    /\ \E x \in Apps, c \in Contexts :
         /\ phase[x] = "serving" /\ holder[x][c] = Nothing
         /\ http' = [http EXCEPT ![p] = [Unsent EXCEPT !.main = "waiting", !.app = x,
                                                       !.context = c]]
         /\ holder' = [holder EXCEPT ![x] = [@ EXCEPT ![c] = p]]
    /\ UNCHANGED <<work, lifecycle>>

\* main has returned: the context of the request is cancelled.
Cancelled(p) == http[p].main \notin {"unsent", "waiting"}

\* After that only what is on its way to PostgreSQL can still arrive; what the
\* handler does without a statement it does all the same.
Handle(p) ==
    /\ \/ ~Cancelled(p) /\ Step(p)
       \/ Computes(p)
       \/ Fail(p)
       \/ CommitUnconfirmed(p)
    /\ UNCHANGED <<work, lifecycle, web>>

\* Response h, once something has been written to it: the first status counts.
Written(h, by, status) ==
    IF h.reply = Nothing THEN [h EXCEPT !.reply = [by |-> by, status |-> status]]
    ELSE [h EXCEPT !.garbled = TRUE]

\* c.JSON writes into the response the context belongs to now, if to any.
WriteAnswer(p) ==
    LET r == holder[http[p].app][http[p].context]
        status == Status(req[p].ask.op, req[p].err)
        done == [http EXCEPT ![p] = [@ EXCEPT !.wrote = TRUE]] IN
    /\ req[p].at = "done" /\ http[p].main # "unsent" /\ ~http[p].wrote
    /\ http' = IF r = Nothing THEN done
               ELSE [done EXCEPT ![r] = Written(@, p, status)]
    /\ UNCHANGED <<vars, work, lifecycle, holder>>

Release(p) == holder' = [holder EXCEPT ![http[p].app] =
                            [@ EXCEPT ![http[p].context] = Nothing]]

\* main receives from done, and the request is over.
Receive(p) ==
    /\ http[p].main = "waiting" /\ http[p].wrote
    /\ http' = [http EXCEPT ![p] = [@ EXCEPT !.main = "answered"]]
    /\ Release(p)
    /\ UNCHANGED <<vars, work, lifecycle>>

\* The deadline: main writes its own answer and returns.  The handler goes on,
\* and will wait for ever on done.
Timeout(p) ==
    /\ http[p].main = "waiting"
    /\ http' = [http EXCEPT ![p] = [Written(@, p, 503) EXCEPT !.main = "expired"]]
    /\ Release(p)
    /\ UNCHANGED <<vars, work, lifecycle>>

-----------------------------------------------------------------------------
(* Start and seeding.                                                      *)

\* The steps of SeedMarketplaceData at the k-th start of copy x; those whose
\* error is not returned
SeedId(x, k, n) == <<x, k, n>>
SeedPlan(x, k) ==
    LET id(n) == SeedId(x, k, n)  slayers == id(1)  shadow == id(3) IN
    << [id |-> id(1), op |-> "createGuild", name |-> "Dragon Slayers Order", limit |-> 50000],
       [id |-> id(2), op |-> "deposit", guild |-> slayers, amount |-> 100000],
       [id |-> id(3), op |-> "createGuild", name |-> "Shadow Whispers Syndicate", limit |-> 30000],
       [id |-> id(4), op |-> "deposit", guild |-> shadow, amount |-> 75000],
       [id |-> id(5), op |-> "createItem", guild |-> slayers, name |-> "Iron Broadsword",
        kind |-> "common"],
       [id |-> id(6), op |-> "list", item |-> id(5), guild |-> slayers, amount |-> 150],
       [id |-> id(7), op |-> "createItem", guild |-> shadow, name |-> "Mana Infused Chestplate",
        kind |-> "rare"],
       [id |-> id(8), op |-> "list", item |-> id(7), guild |-> shadow, amount |-> 1200],
       [id |-> id(9), op |-> "createItem", guild |-> slayers, name |-> "Vorynthax Frostmaw Staff",
        kind |-> "legendary"],
       [id |-> id(10), op |-> "start", item |-> id(9), guild |-> slayers, amount |-> 6500] >>
Tolerated == {2, 4, 10}
SeedAsk(x, k, n) == SeedPlan(x, k)[n]
SeedingAsk(x) == SeedAsk(x, starts[x], seed[x])

\* What seeders ask for.  Ids are new: nobody else is given those of a seed, and no
\* row has them at the start.
SeedAsks == {SeedAsk(x, k, n) : x \in Apps, k \in 1..MaxStarts, n \in 1..10}
ASSUME StartsAssumption == MaxStarts \in Nat
ASSUME SeedAssumption ==
    /\ SeedAsks \subseteq Asks
    /\ \A k \in Asks, s \in SeedAsks : k.id = s.id => k = s
    /\ \A c \in Scenarios, p \in Procs : c.work[p] \notin SeedAsks
    /\ \A t \in Openings : \A r \in DOMAIN t : \A s \in SeedAsks :
         r[2] # s.id /\ r # Log(<<s.id, 1>>)

\* NewApp: without a database the program ends at once.
Start(x) ==
    /\ phase[x] = "down" /\ starts[x] < MaxStarts
    /\ \E next \in {"seeding", "failed"} : phase' = [phase EXCEPT ![x] = next]
    /\ starts' = [starts EXCEPT ![x] = @ + 1]
    /\ seed' = [seed EXCEPT ![x] = 0]
    /\ UNCHANGED <<vars, work, web>>

\* Is anything listed?  A query that fails says no.
SeedCheck(x) ==
    /\ phase[x] = "seeding" /\ seed[x] = 0
    /\ \/ /\ ListAvailableItems(db) # {}
          /\ phase' = [phase EXCEPT ![x] = "serving"] /\ UNCHANGED seed
       \/ seed' = [seed EXCEPT ![x] = 1] /\ UNCHANGED phase
    /\ UNCHANGED <<vars, work, starts, web>>

\* The seeder calls the repositories, not the services.
SeedCall(x) ==
    /\ phase[x] = "seeding" /\ seed[x] # 0 /\ req[x].ask # SeedingAsk(x)
    /\ CallRepository(x, SeedingAsk(x))
    /\ UNCHANGED <<work, lifecycle, web>>

\* On an error that is returned NewApp warns, and serves all the same.
SeedNext(x) ==
    /\ phase[x] = "seeding" /\ req[x].at = "done" /\ seed[x] # 0
    /\ req[x].ask = SeedingAsk(x)
    /\ IF seed[x] = Len(SeedPlan(x, starts[x])) \/ (req[x].err # "ok" /\ seed[x] \notin Tolerated)
         THEN phase' = [phase EXCEPT ![x] = "serving"] /\ UNCHANGED seed
         ELSE seed' = [seed EXCEPT ![x] = @ + 1] /\ UNCHANGED phase
    /\ UNCHANGED <<vars, work, starts, web>>

-----------------------------------------------------------------------------
(* Serving and stopping.                                                   *)

\* A round of the worker comes to an expired auction.
WorkerCall(x) ==
    /\ phase[x] = "serving" /\ work[x] # Nothing
    /\ CallRepository(x, work[x])
    /\ UNCHANGED <<work, lifecycle, web>>

\* Process x makes its step.  At the signal the worker's context is cancelled.
AppStep(x) ==
    /\ \/ phase[x] \in {"seeding", "serving"} /\ Step(x)
       \/ Fail(x)
       \/ CommitUnconfirmed(x)
    /\ UNCHANGED <<work, lifecycle, web>>

\* SIGTERM
Signal(x) ==
    /\ phase[x] = "serving"
    /\ phase' = [phase EXCEPT ![x] = "stopping"]
    /\ UNCHANGED <<vars, work, starts, seed, web>>

Served(x) == {p \in Clients : http[p].app = x}
Waiting(x) == {p \in Served(x) : http[p].main = "waiting"}

\* Mutant: the connections are not waited for.
CloseAtOnce(x) ==
    /\ phase[x] = "stopping"
    /\ phase' = [phase EXCEPT ![x] = "closing"]
    /\ UNCHANGED <<vars, work, starts, seed, web>>

\* srv.Shutdown waits until no request is being served.
ShutdownDone(x) ==
    /\ phase[x] = "stopping" /\ Waiting(x) = {}
    /\ phase' = [phase EXCEPT ![x] = "closing"]
    /\ UNCHANGED <<vars, work, starts, seed, web>>

\* The end of copy x: its goroutines are gone, the requests it was serving get
\* no answer.
Ends(x, next) ==
    /\ phase' = [phase EXCEPT ![x] = next]
    /\ Kill(Served(x) \cup {x})
    /\ http' = [p \in Clients |->
                  IF p \in Waiting(x) THEN [http[p] EXCEPT !.main = "lost"] ELSE http[p]]
    /\ holder' = [holder EXCEPT ![x] = [c \in Contexts |-> Nothing]]
    /\ UNCHANGED <<work, starts, seed>>

\* Or it gives up after five seconds, Run returns its error, and log.Fatalf
\* ends the program without Cleanup.
ShutdownTimeout(x) == phase[x] = "stopping" /\ Waiting(x) # {} /\ Ends(x, "failed")

\* pool.Close waits for every connection to come back.
Exit(x) ==
    /\ phase[x] = "closing" /\ \A p \in Served(x) \cup {x} : ~tx[p].open
    /\ Ends(x, "exited")

Up == {"seeding", "serving", "stopping", "closing"}
Crash(x) == phase[x] \in Up /\ Ends(x, "down")

\* mockPriceOracle shares one rand.Rand without a lock; an index out of range
\* panics in the handler's goroutine, where gin.Recovery does not reach it.
PricePanic(x) ==
    /\ \E p, q \in Served(x) : p # q /\ req[p].at = "pricing" /\ req[q].at = "pricing"
    /\ Ends(x, "down")

AppNext(x) == \/ Start(x) \/ SeedCheck(x) \/ SeedCall(x) \/ SeedNext(x) \/ WorkerCall(x)
              \/ AppStep(x) \/ Signal(x) \/ ShutdownDone(x) \/ ShutdownTimeout(x)
              \/ Exit(x) \/ Crash(x) \/ PricePanic(x)
ClientNext(p) == Accept(p) \/ Handle(p) \/ WriteAnswer(p) \/ Receive(p) \/ Timeout(p)

ServiceNext == \/ \E x \in Apps : AppNext(x)
               \/ \E p \in Clients : ClientNext(p)

ServiceSpec == ServiceInit /\ [][ServiceNext]_allVars

\* A cancelled context makes whatever waits on it return; Shutdown returns within
\* five seconds, and Close when every connection is back.
Unwinds(p) == Cancelled(p) /\ Handle(p)
WorkerUnwinds(x) == phase[x] \in {"stopping", "closing"} /\ AppStep(x)
Fairness ==
    /\ \A p \in Clients : WF_allVars(Unwinds(p))
    /\ \A x \in Apps : /\ WF_allVars(WorkerUnwinds(x)) /\ WF_allVars(Exit(x))
                       /\ WF_allVars(ShutdownDone(x) \/ ShutdownTimeout(x))
FairServiceSpec == ServiceSpec /\ Fairness

-----------------------------------------------------------------------------
(* Properties.                                                             *)

Changing == {"createGuild", "deposit", "createItem", "list", "buy", "start", "bid"}

\* Once a request has expired, its late handler writes into a context that may
\* serve another request by then.
Orderly(p) == \A q \in Clients :
    (http[q].app = http[p].app /\ http[q].context = http[p].context)
      => http[q].main # "expired"

\* Unless its context was that of an expired request, a request gets one answer,
\* from its own handler; it is 2xx for a change only if the change is committed,
\* and 400 or 404 only if nothing is.
AnswersAreTrue ==
    \A p \in Clients :
      LET h == http[p] IN
      (h.reply # Nothing /\ Orderly(p)) =>
         /\ h.reply.by = p /\ ~h.garbled
         /\ req[p].at = "done" =>
              /\ (h.reply.status < 300 /\ req[p].ask.op \in Changing) => req[p].kept
              /\ h.reply.status \in {400, 404} => ~req[p].kept

\* A copy that is stopped and exits in time leaves no request it has accepted
\* without an answer, and no transaction half way.
GracefulExit ==
    [][\A x \in Apps : (phase[x] # "exited" /\ phase'[x] = "exited") =>
          \A p \in Served(x) :
             /\ http'[p].main = "lost" => http[p].main = "lost"
             /\ ~tx[p].open
             /\ http'[p].main # "lost" => http'[p].reply # Nothing]_allVars

\* The rows a request of that id inserts; has the k-th start of copy x left any?
Rows(id) == {Guild(id), Item(id), Auction(id), Log(<<id, 1>>)}
Seeded(x, k) == \E n \in 1..10 : Rows(SeedId(x, k, n)) \cap DOMAIN db # {}

\* However many copies start, crash and start again, at the same time or one after
\* the other: all that is ever seeded comes from one start of one copy.
Seeders == {s \in Apps \X (1..MaxStarts) : Seeded(s[1], s[2])}
SeededOnce == \A s, t \in Seeders : s = t

\* The total of a listing and its rows come from two statements: they can disagree, but
\* by no more rows than others can have moved between them.  Of another request that is
\* one row, of a worker one, of all the seeders together the two of one start.
Movers == (Cardinality(Clients) - 1) + Cardinality({x \in Apps : work[x] # Nothing})
            + 2 * Cardinality(Seeders)
ListingSkewBounded ==
    \A p \in Clients :
      LET seen == req[p].saw  k == req[p].ask IN
      (/\ k.op \in Listings /\ req[p].at = "done" /\ "rows" \in DOMAIN seen
       /\ k.page = 1 /\ seen.total < PageSize(k.size))
        => seen.rows - seen.total \in -Movers..Movers

\* A copy that is told to stop comes to its end: handlers left behind by an
\* expired request, which wait for ever, hold nothing that its end waits for.
StopEnds == \A x \in Apps : phase[x] = "stopping" ~> phase[x] \in {"exited", "failed", "down"}
=============================================================================
