---------------------------- MODULE RequestsProofs ----------------------------
(***************************************************************************)
(* Theorems about Requests and Service, for any number of goroutines,      *)
(* requests and connections: what a transaction has decided on stands, a   *)
(* goroutine that is done holds nothing, and a copy that exits has         *)
(* answered.                                                               *)
(*                                                                         *)
(* Every step of the code is one of four kinds of step (StepKinds); each   *)
(* kind preserves the invariant.                                           *)
(***************************************************************************)
EXTENDS Service, FiniteSetTheorems, TLAPS

TxRecord(t) ==
    t \in [open : {t.open}, wrote : {t.wrote}, held : {t.held}, failed : {t.failed}]
ReqRecord(r) ==
    r \in [ask : {r.ask}, at : {r.at}, saw : {r.saw}, err : {r.err}, kept : {r.kept}]
Table(t) == t = [r \in DOMAIN t |-> t[r]]

Shapes ==
    /\ tx = [p \in Procs |-> tx[p]] /\ req = [p \in Procs |-> req[p]] /\ Table(db)
    /\ \A p \in Procs : TxRecord(tx[p]) /\ ReqRecord(req[p])

\* Where the code is when it has no transaction, and when it has one
Outside(r) ==
    \/ r.at \in {"idle", "done", "service", "begin", "rows", "items", "pricing"}
    \/ r.at = "insert" /\ r.ask.op \in {"createGuild", "createItem"}
Inside(r) ==
    /\ r.at \notin {"idle", "done", "service", "begin", "rows", "items", "pricing"}
    /\ r.at = "insert" => r.ask.op = "start"

Positions ==
    \A p \in Procs :
      /\ tx[p].open \in BOOLEAN
      /\ tx[p].open => Inside(req[p])
      /\ ~tx[p].open => tx[p] = NoTx /\ Outside(req[p])
      /\ req[p].at = "first" => tx[p].wrote = NoRows

\* What is written is locked, and locks of different transactions are compatible.
Exclusive ==
    /\ \A p \in Procs : \A r \in DOMAIN tx[p].wrote : <<r, "write">> \in tx[p].held
    /\ \A p, q \in Procs : p # q =>
         \A k \in tx[p].held, l \in tx[q].held : ~Conflict(k, l)

\* Transaction p holds the row r it has decided on.
Holds(p, r) == r \in DOMAIN db /\ <<r, "update">> \in tx[p].held

Decisions(p) ==
    LET k == req[p].ask IN
    /\ Decided(p, "buy") => Holds(p, Item(k.item)) /\ db[Item(k.item)] = req[p].saw
    /\ Decided(p, "close") => Holds(p, Auction(k.auction)) /\ db[Auction(k.auction)] = req[p].saw
    /\ Decided(p, "list") => Holds(p, Item(k.item)) /\ db[Item(k.item)].status = "sold"
    /\ Decided(p, "bid") => /\ Holds(p, Auction(k.auction))
                            /\ db[Auction(k.auction)].status = "active"
                            /\ db[Auction(k.auction)].winner # k.guild

Guarded == Shapes /\ Positions /\ Exclusive /\ \A p \in Procs : Decisions(p)

-----------------------------------------------------------------------------
(* The kinds of step.                                                      *)

\* The code of p goes on to r without a transaction.
Moves(p) ==
    \E r : /\ ReqRecord(r) /\ Outside(r) /\ ~tx[p].open
           /\ req' = [req EXCEPT ![p] = r] /\ tx' = tx /\ db' = db

\* A statement of p's transaction, or an error that is discarded: r is the
\* request afterwards, t the transaction.
Advances(p) ==
    \E r, t :
      /\ tx[p].open /\ t.open = TRUE /\ TxRecord(t) /\ ReqRecord(r)
      /\ Inside(r) /\ r.at # "first" /\ r.ask = req[p].ask
      /\ tx[p].held \subseteq t.held /\ Granted(p, t.held \ tx[p].held)
      /\ \A x \in DOMAIN t.wrote : <<x, "write">> \in t.held
      /\ (req[p].at # "first" /\ r.ask.op \in {"buy", "close"}) => r.saw = req[p].saw
      /\ req[p].at = "first" =>
           /\ r.ask.op = "buy" => /\ <<Item(r.ask.item), "update">> \in t.held
                                  /\ Item(r.ask.item) \in DOMAIN db
                                  /\ db[Item(r.ask.item)] = r.saw
           /\ r.ask.op = "close" => /\ <<Auction(r.ask.auction), "update">> \in t.held
                                    /\ Auction(r.ask.auction) \in DOMAIN db
                                    /\ db[Auction(r.ask.auction)] = r.saw
           /\ r.ask.op = "list" => /\ <<Item(r.ask.item), "update">> \in t.held
                                   /\ Item(r.ask.item) \in DOMAIN db
                                   /\ db[Item(r.ask.item)].status = "sold"
           /\ r.ask.op = "bid" => /\ <<Auction(r.ask.auction), "update">> \in t.held
                                  /\ Auction(r.ask.auction) \in DOMAIN db
                                  /\ db[Auction(r.ask.auction)].status = "active"
                                  /\ db[Auction(r.ask.auction)].winner # r.ask.guild
      /\ req' = [req EXCEPT ![p] = r] /\ tx' = [tx EXCEPT ![p] = t] /\ db' = db

\* p is done, and the rows w, which it has locked or which nobody has, are written.
Finishes(p) ==
    \E r, w :
      /\ ReqRecord(r) /\ r.at = "done"
      /\ \A x \in DOMAIN w : <<x, "write">> \in tx[p].held \/ Free(p, <<x, "write">>)
      /\ req' = [req EXCEPT ![p] = r] /\ tx' = [tx EXCEPT ![p] = NoTx]
      /\ db' = Write(db, w)

Kinds(p) == Moves(p) \/ Begin(p) \/ Advances(p) \/ Finishes(p)

\* Laying nothing over a table changes nothing; a row outside w stays.
LEMMA WriteNothing == ASSUME NEW t, Table(t) PROVE Write(t, NoRows) = t
BY DEF Table, Write, NoRows

LEMMA WriteDomain ==
    ASSUME NEW t, NEW w
    PROVE  /\ DOMAIN Write(t, w) = DOMAIN t \cup DOMAIN w
           /\ Table(Write(t, w))
           /\ \A r \in DOMAIN t : r \notin DOMAIN w => Write(t, w)[r] = t[r]
BY DEF Table, Write

\* Going on without a statement
LEMMA GotoMoves ==
    ASSUME NEW p \in Procs, NEW next, NEW saw, Shapes, Positions, ~tx[p].open,
           next \in {"rows", "items", "pricing", "begin", "done"}
                \/ (next = "insert" /\ req[p].ask.op = "createItem"),
           Goto(p, next, saw)
    PROVE  Moves(p)
<1> DEFINE r == [req[p] EXCEPT !.at = next, !.saw = saw]
<1>1. ReqRecord(req[p])
  BY DEF Shapes
<1>2. ReqRecord(r) /\ r.at = next /\ r.ask = req[p].ask
  BY <1>1 DEF ReqRecord
<1>3. Outside(r)
  BY <1>2 DEF Outside
<1>4. req' = [req EXCEPT ![p] = r] /\ tx' = tx /\ db' = db
  BY DEF Goto
<1> HIDE DEF r
<1>5. QED
  BY <1>2, <1>3, <1>4 DEF Moves

\* Returning
LEMMA EndFinishes ==
    ASSUME NEW p \in Procs, NEW err, NEW kept, NEW w, Shapes,
           \A x \in DOMAIN w : <<x, "write">> \in tx[p].held \/ Free(p, <<x, "write">>),
           End(p, err, kept), db' = Write(db, w)
    PROVE  Finishes(p)
<1> DEFINE r == [req[p] EXCEPT !.at = "done", !.err = err, !.kept = kept]
<1>1. ReqRecord(req[p])
  BY DEF Shapes
<1>2. ReqRecord(r) /\ r.at = "done"
  BY <1>1 DEF ReqRecord
<1>3. req' = [req EXCEPT ![p] = r] /\ tx' = [tx EXCEPT ![p] = NoTx]
  BY DEF End
<1> HIDE DEF r
<1>4. QED
  BY <1>2, <1>3 DEF Finishes

LEMMA ReturnFinishes ==
    ASSUME NEW p \in Procs, NEW err, Shapes, Return(p, err)
    PROVE  Finishes(p)
<1>1. db' = Write(db, NoRows)
  BY WriteNothing DEF Return, Shapes
<1>2. DOMAIN NoRows = {}
  BY DEF NoRows
<1>3. QED
  BY <1>1, <1>2, EndFinishes DEF Return

LEMMA AutocommitFinishes ==
    ASSUME NEW p \in Procs, NEW locks, NEW w, Shapes, Autocommit(p, locks, w)
    PROVE  Finishes(p)
<1>1. \A x \in DOMAIN w : Free(p, <<x, "write">>)
  BY DEF Autocommit, Granted, Writes
<1>2. QED
  BY <1>1, EndFinishes DEF Autocommit

\* A statement
Unlocked == {"idle", "done", "service", "begin", "rows", "items", "pricing", "first"}
Decides(p, saw, locks) ==
    LET k == req[p].ask IN
    /\ k.op = "buy" => /\ <<Item(k.item), "update">> \in locks
                       /\ Item(k.item) \in DOMAIN db /\ db[Item(k.item)] = saw
    /\ k.op = "close" => /\ <<Auction(k.auction), "update">> \in locks
                         /\ Auction(k.auction) \in DOMAIN db /\ db[Auction(k.auction)] = saw
    /\ k.op = "list" => /\ <<Item(k.item), "update">> \in locks
                        /\ Item(k.item) \in DOMAIN db /\ db[Item(k.item)].status = "sold"
    /\ k.op = "bid" => /\ <<Auction(k.auction), "update">> \in locks
                       /\ Auction(k.auction) \in DOMAIN db
                       /\ db[Auction(k.auction)].status = "active"
                       /\ db[Auction(k.auction)].winner # k.guild

LEMMA StatementAdvances ==
    ASSUME NEW p \in Procs, NEW next, NEW saw, NEW locks, NEW w, Shapes, Exclusive,
           next \notin Unlocked, next = "insert" => req[p].ask.op = "start",
           req[p].at # "first" => saw = req[p].saw \/ req[p].ask.op \notin {"buy", "close"},
           req[p].at = "first" => Decides(p, saw, locks),
           Statement(p, next, saw, locks, w)
    PROVE  Advances(p)
<1> DEFINE r == [req[p] EXCEPT !.at = next, !.saw = saw]
           h == tx[p].held \cup (locks \cup Writes(w))
           v == Write(tx[p].wrote, w)
           t == [open |-> TRUE, wrote |-> v, held |-> h, failed |-> FALSE]
<1>1. ReqRecord(req[p])
  BY DEF Shapes
<1>2. ReqRecord(r) /\ r.at = next /\ r.ask = req[p].ask /\ r.saw = saw
  BY <1>1 DEF ReqRecord
<1>3. TxRecord(t) /\ t.open = TRUE /\ t.wrote = v /\ t.held = h
  BY DEF TxRecord
<1>4. req' = [req EXCEPT ![p] = r] /\ db' = db
  BY DEF Statement
<1>5. tx' = [tx EXCEPT ![p] = t]
  BY DEF Statement
<1>6. Inside(r) /\ r.at # "first"
  BY <1>2 DEF Inside, Unlocked
<1>7. Granted(p, locks \cup Writes(w))
  BY DEF Statement
<1>8. \A x \in DOMAIN v : <<x, "write">> \in h
  <2>1. DOMAIN v = DOMAIN tx[p].wrote \cup DOMAIN w
    BY WriteDomain
  <2>2. QED
    BY <2>1 DEF Exclusive, Writes
<1> HIDE DEF r, t, v
<1>9. tx[p].held \subseteq t.held /\ Granted(p, t.held \ tx[p].held) /\ locks \subseteq t.held
  BY <1>3, <1>7 DEF Granted
<1>10. \A x \in DOMAIN t.wrote : <<x, "write">> \in t.held
  BY <1>3, <1>8
<1> HIDE DEF h
<1>11. tx[p].open
  BY DEF Statement
<1>12. QED
  BY <1>11, <1>2, <1>3, <1>4, <1>5, <1>6, <1>9, <1>10 DEF Advances, Decides

LEMMA ExecAdvances ==
    ASSUME NEW p \in Procs, NEW next, NEW locks, NEW w, Shapes, Exclusive,
           next \notin Unlocked, next # "insert", req[p].at # "first",
           Exec(p, next, locks, w)
    PROVE  Advances(p)
BY StatementAdvances DEF Exec

\* At its first statement a transaction sees the committed tables.
LEMMA SeeCommitted ==
    ASSUME NEW p \in Procs, Shapes, Positions, req[p].at = "first"
    PROVE  See(p) = db
BY WriteNothing DEF Shapes, Positions, See

\* Before its first statement the code has no transaction.
LEMMA NotOpen ==
    ASSUME NEW p \in Procs, Positions,
           req[p].at \in {"idle", "done", "service", "begin", "rows", "items", "pricing"}
    PROVE  ~tx[p].open
BY DEF Positions, Inside

\* A deposit
LEMMA DepositingKinds ==
    ASSUME NEW p \in Procs, Shapes, Positions, Exclusive, Depositing(p)
    PROVE  Kinds(p)
<1>1. CASE LockForDeposit(p)
  BY <1>1, ReturnFinishes, StatementAdvances DEF LockForDeposit, Exec, At, Decides, Unlocked, Kinds
<1>2. CASE CreditDeposit(p)
  BY <1>2, ExecAdvances DEF CreditDeposit, ChangeBalance, At, Unlocked, Kinds
<1>3. CASE LogDeposit(p)
  BY <1>3, ExecAdvances DEF LogDeposit, At, Unlocked, Kinds
<1>4. QED
  BY <1>1, <1>2, <1>3 DEF Depositing

\* A listing
LEMMA ListingKinds ==
    ASSUME NEW p \in Procs, Shapes, Positions, Exclusive, Listing(p)
    PROVE  Kinds(p)
<1>1. CASE ReadForListing(p)
  BY <1>1, ReturnFinishes, GotoMoves, NotOpen DEF ReadForListing, Service, At, Kinds
<1>2. CASE LockForListing(p)
  BY <1>2, ReturnFinishes, StatementAdvances, SeeCommitted
  DEF LockForListing, GetItemByID, ForUpdate, Exec, At, Decides, Unlocked, Kinds
<1>3. CASE Expose(p)
  BY <1>3, ExecAdvances DEF Expose, At, Unlocked, Kinds
<1>4. QED
  BY <1>1, <1>2, <1>3 DEF Listing

\* Guilds and items that are created
LEMMA MintingKinds ==
    ASSUME NEW p \in Procs, Shapes, Positions, Exclusive, Minting(p)
    PROVE  Kinds(p)
<1>1. CASE CreateGuildRow(p)
  BY <1>1, ReturnFinishes, AutocommitFinishes DEF CreateGuildRow, Kinds
<1>2. CASE AskPrice(p)
  BY <1>2, ReturnFinishes, GotoMoves, NotOpen DEF AskPrice, Service, At, Kinds
<1>3. CASE GotPrice(p)
  BY <1>3, ReturnFinishes, GotoMoves, NotOpen DEF GotPrice, Service, At, Kinds
<1>4. CASE InsertItem(p)
  BY <1>4, ReturnFinishes, AutocommitFinishes DEF InsertItem, Kinds
<1>5. QED
  BY <1>1, <1>2, <1>3, <1>4 DEF Minting

\* A purchase
LEMMA BuyingKinds ==
    ASSUME NEW p \in Procs, Shapes, Positions, Exclusive, Buying(p)
    PROVE  Kinds(p)
<1>1. CASE LockToBuy(p)
  BY <1>1, ReturnFinishes, StatementAdvances, SeeCommitted
  DEF LockToBuy, GetItemByID, ForUpdate, At, Decides, Unlocked, Kinds
<1>2. CASE LockBuyer(p)
  BY <1>2, ReturnFinishes, ExecAdvances DEF LockBuyer, At, Unlocked, Kinds
<1>3. CASE CheckBuyer(p)
  BY <1>3, ReturnFinishes, ExecAdvances DEF CheckBuyer, At, Unlocked, Kinds
<1>4. CASE ChargeBuyer(p)
  BY <1>4, ExecAdvances DEF ChargeBuyer, ChangeBalance, At, Unlocked, Kinds
<1>5. CASE PaySeller(p)
  BY <1>5, ExecAdvances DEF PaySeller, ChangeBalance, At, Unlocked, Kinds
<1>6. CASE TransferBought(p)
  BY <1>6, ExecAdvances DEF TransferBought, At, Unlocked, Kinds
<1>7. CASE CountPurchase(p)
  BY <1>7, ExecAdvances DEF CountPurchase, At, Unlocked, Kinds
<1>8. CASE LogPurchase(p)
  BY <1>8, ExecAdvances DEF LogPurchase, At, Unlocked, Kinds
<1>9. CASE LogProceeds(p)
  BY <1>9, ExecAdvances DEF LogProceeds, At, Unlocked, Kinds
<1>10. QED
  BY <1>1, <1>2, <1>3, <1>4, <1>5, <1>6, <1>7, <1>8, <1>9 DEF Buying

\* The start of an auction
LEMMA StartingKinds ==
    ASSUME NEW p \in Procs, Shapes, Positions, Exclusive, Starting(p)
    PROVE  Kinds(p)
<1>1. CASE ReadToAuction(p)
  BY <1>1, ReturnFinishes, GotoMoves, NotOpen DEF ReadToAuction, Service, At, Kinds
<1>2. CASE CountOwn(p)
  BY <1>2, ReturnFinishes, StatementAdvances DEF CountOwn, Exec, At, Decides, Unlocked, Kinds
<1>3. CASE InsertAuction(p)
  BY <1>3, ReturnFinishes, ExecAdvances DEF InsertAuction, At, Unlocked, Kinds
<1>4. QED
  BY <1>1, <1>2, <1>3 DEF Starting

\* An error that is discarded
LEMMA DiscardAdvances ==
    ASSUME NEW p \in Procs, Shapes, Positions, Exclusive, req[p].ask.op = "bid",
           req[p].at \in {"release", "handBack"}, Discard(p)
    PROVE  Advances(p)
<1> DEFINE r == [req[p] EXCEPT !.at = "record"]
           t == [tx[p] EXCEPT !.failed = TRUE]
<1>1. ReqRecord(req[p]) /\ TxRecord(tx[p])
  BY DEF Shapes
<1>2. ReqRecord(r) /\ r.at = "record" /\ r.ask = req[p].ask
  BY <1>1 DEF ReqRecord
<1>3. tx[p].open = TRUE
  BY DEF Positions, Outside
<1>4. TxRecord(t) /\ t.open = TRUE /\ t.held = tx[p].held /\ t.wrote = tx[p].wrote
  BY <1>1, <1>3 DEF TxRecord
<1>5. req' = [req EXCEPT ![p] = r] /\ tx' = [tx EXCEPT ![p] = t] /\ db' = db
  BY DEF Discard
<1>6. Inside(r)
  BY <1>2 DEF Inside
<1> HIDE DEF r, t
<1>7. Granted(p, t.held \ tx[p].held)
  BY <1>4 DEF Granted
<1>8. \A x \in DOMAIN t.wrote : <<x, "write">> \in t.held
  BY <1>4 DEF Exclusive
<1>9. QED
  BY <1>2, <1>3, <1>4, <1>5, <1>6, <1>7, <1>8 DEF Advances

\* A bid
LEMMA BiddingKinds ==
    ASSUME NEW p \in Procs, Shapes, Positions, Exclusive, Bidding(p)
    PROVE  Kinds(p)
<1>1. CASE ReadForBid(p)
  BY <1>1, ReturnFinishes, GotoMoves, NotOpen DEF ReadForBid, Service, At, Kinds
<1>2. CASE LockToBid(p)
  BY <1>2, ReturnFinishes, StatementAdvances, SeeCommitted
  DEF LockToBid, GetAuction, ForUpdate, At, Decides, Unlocked, Kinds
<1>3. CASE LockBidder(p)
  BY <1>3, ReturnFinishes, ExecAdvances DEF LockBidder, At, Unlocked, Kinds
<1>4. CASE CheckBidder(p)
  BY <1>4, ReturnFinishes, ExecAdvances DEF CheckBidder, At, Unlocked, Kinds
<1>5. CASE FreeLeader(p)
  BY <1>5, ExecAdvances, StatementAdvances DEF FreeLeader, At, Unlocked, Kinds
<1>6. CASE LogRelease(p)
  BY <1>6, ExecAdvances DEF LogRelease, At, Unlocked, Kinds
<1>7. CASE ReturnQuota(p)
  BY <1>7, ExecAdvances, DiscardAdvances DEF ReturnQuota, At, Unlocked, Kinds
<1>8. CASE ReleaseFails(p)
  BY <1>8, DiscardAdvances DEF ReleaseFails, At, Kinds
<1>9. CASE RecordBid(p)
  BY <1>9, ExecAdvances DEF RecordBid, At, Unlocked, Kinds
<1>10. CASE UpdateStanding(p)
  BY <1>10, ExecAdvances DEF UpdateStanding, At, Unlocked, Kinds
<1>11. CASE LogReserve(p)
  BY <1>11, ExecAdvances DEF LogReserve, At, Unlocked, Kinds
<1>12. CASE CountBid(p)
  BY <1>12, ExecAdvances DEF CountBid, At, Unlocked, Kinds
<1>13. QED
  BY <1>1, <1>2, <1>3, <1>4, <1>5, <1>6, <1>7, <1>8, <1>9, <1>10, <1>11, <1>12 DEF Bidding

\* A closing
LEMMA ClosingKinds ==
    ASSUME NEW p \in Procs, Shapes, Positions, Exclusive, Closing(p)
    PROVE  Kinds(p)
<1>1. CASE LockToClose(p)
  BY <1>1, ReturnFinishes, StatementAdvances, SeeCommitted
  DEF LockToClose, GetAuction, ForUpdate, At, Decides, Unlocked, Kinds
<1>2. CASE RestoreItem(p)
  BY <1>2, ExecAdvances DEF RestoreItem, At, Unlocked, Kinds
<1>3. CASE HandOver(p)
  BY <1>3, ExecAdvances DEF HandOver, At, Unlocked, Kinds
<1>4. CASE PayProceeds(p)
  BY <1>4, ExecAdvances DEF PayProceeds, ChangeBalance, At, Unlocked, Kinds
<1>5. CASE CancelUnsold(p)
  BY <1>5, ExecAdvances DEF CancelUnsold, CloseRow, At, Unlocked, Kinds
<1>6. CASE EndSold(p)
  BY <1>6, ExecAdvances DEF EndSold, CloseRow, At, Unlocked, Kinds
<1>7. QED
  BY <1>1, <1>2, <1>3, <1>4, <1>5, <1>6 DEF Closing

\* The pages
LEMMA PageKinds ==
    ASSUME NEW p \in Procs, NEW op, NEW n, Shapes, Positions,
           CountRows(p, op, n) \/ ReadPage(p, op, n)
    PROVE  Kinds(p)
<1>1. CASE CountRows(p, op, n)
  BY <1>1, GotoMoves, NotOpen DEF CountRows, Service, At, Kinds
<1>2. CASE ReadPage(p, op, n) /\ Offset(req[p].ask.page, PageSize(req[p].ask.size)) < 0
  BY <1>2, ReturnFinishes DEF ReadPage, Kinds
<1>3. CASE ReadPage(p, op, n) /\ ~(Offset(req[p].ask.page, PageSize(req[p].ask.size)) < 0)
  BY <1>3, GotoMoves, NotOpen DEF ReadPage, At, Kinds
<1>4. QED
  BY <1>1, <1>2, <1>3

\* What reads only
LEMMA ReadingKinds ==
    ASSUME NEW p \in Procs, Shapes, Positions, Reading(p)
    PROVE  Kinds(p)
<1>1. CASE GetWallet(p) \/ GetByOwner(p) \/ LookUpItem(p) \/ LookUpAuction(p)
  BY <1>1, ReturnFinishes DEF GetWallet, GetByOwner, LookUpItem, LookUpAuction, Kinds
<1>2. CASE ValidateGuild(p)
  BY <1>2, ReturnFinishes, GotoMoves, NotOpen DEF ValidateGuild, Service, At, Kinds
<1>3. CASE ListGuildsPage(p) \/ ListActivePage(p) \/ ListAvailablePage(p)
  BY <1>3, PageKinds DEF ListGuildsPage, ListActivePage, ListAvailablePage
<1>4. QED
  BY <1>1, <1>2, <1>3 DEF Reading

\* The commit, confirmed or not: what is written was locked.
LEMMA CommitFinishes ==
    ASSUME NEW p \in Procs, Shapes, Exclusive, Commit(p) \/ CommitUnconfirmed(p)
    PROVE  Finishes(p)
<1>1. \A x \in DOMAIN tx[p].wrote : <<x, "write">> \in tx[p].held
  BY DEF Exclusive
<1>2. QED
  BY <1>1, EndFinishes DEF Commit, CommitUnconfirmed

\* Every step of the code is of one of the kinds.
LEMMA StepKinds ==
    ASSUME NEW p \in Procs, Shapes, Positions, Exclusive,
           Step(p) \/ Fail(p) \/ CommitUnconfirmed(p)
    PROVE  Kinds(p)
<1>1. CASE RefuseInput(p) \/ Fail(p)
  BY <1>1, ReturnFinishes DEF RefuseInput, Fail, Kinds
<1>2. CASE Commit(p) \/ CommitUnconfirmed(p)
  BY <1>2, CommitFinishes DEF Kinds
<1>3. CASE Begin(p)
  BY <1>3 DEF Kinds
<1>4. CASE Reading(p)
  BY <1>4, ReadingKinds
<1>5. CASE Depositing(p) \/ Minting(p) \/ Listing(p) \/ Buying(p)
  BY <1>5, DepositingKinds, MintingKinds, ListingKinds, BuyingKinds
<1>6. CASE Starting(p) \/ Bidding(p) \/ Closing(p)
  BY <1>6, StartingKinds, BiddingKinds, ClosingKinds
<1>7. QED
  BY <1>1, <1>2, <1>3, <1>4, <1>5, <1>6 DEF Step

-----------------------------------------------------------------------------
(* What the kinds of step do to the invariant.                             *)

\* Nobody writes a row that another transaction has locked FOR UPDATE.
LEMMA UpdateExcludes ==
    ASSUME NEW p \in Procs, NEW q \in Procs, p # q, NEW r, <<r, "update">> \in tx[q].held, Exclusive,
           <<r, "write">> \in tx[p].held \/ Free(p, <<r, "write">>)
    PROVE  FALSE
<1>1. ~Compatible("write", "update") /\ ~Compatible("update", "write")
  BY DEF Compatible
<1>2. Conflict(<<r, "write">>, <<r, "update">>) /\ Conflict(<<r, "update">>, <<r, "write">>)
  BY <1>1 DEF Conflict
<1>3. QED
  BY <1>2 DEF Exclusive, Free

\* What q has decided on is untouched by a step that leaves q alone and writes
\* rows w that p may write.
LEMMA DecisionsStay ==
    ASSUME NEW p \in Procs, NEW q \in Procs, p # q, NEW w, Exclusive, Decisions(q),
           \A x \in DOMAIN w : <<x, "write">> \in tx[p].held \/ Free(p, <<x, "write">>),
           tx'[q] = tx[q], req'[q] = req[q], db' = Write(db, w)
    PROVE  Decisions(q)'
<1>1. \A r : Holds(q, r) => Holds(q, r)' /\ db'[r] = db[r]
  <2>1. \A r : Holds(q, r) => r \notin DOMAIN w
    BY UpdateExcludes DEF Holds
  <2>2. DOMAIN db \subseteq DOMAIN db' /\ \A r \in DOMAIN db : r \notin DOMAIN w => db'[r] = db[r]
    BY WriteDomain
  <2>3. QED
    BY <2>1, <2>2 DEF Holds
<1>2. \A op : Decided(q, op)' <=> Decided(q, op)
  BY DEF Decided
<1>3. QED
  BY <1>1, <1>2 DEF Decisions

\* What a step of p leaves to the others
LEMMA Frame ==
    ASSUME NEW p \in Procs, NEW r, NEW t, Shapes, ReqRecord(r), TxRecord(t), Table(db'),
           req' = [req EXCEPT ![p] = r], tx' = [tx EXCEPT ![p] = t]
    PROVE  /\ Shapes' /\ req'[p] = r /\ tx'[p] = t
           /\ \A q \in Procs : q # p => req'[q] = req[q] /\ tx'[q] = tx[q]
BY DEF Shapes

LEMMA MovesKeep ==
    ASSUME NEW p \in Procs, Guarded, Moves(p)
    PROVE  Guarded'
<1>1. PICK r : /\ ReqRecord(r) /\ Outside(r) /\ ~tx[p].open
               /\ req' = [req EXCEPT ![p] = r] /\ tx' = tx /\ db' = db
  BY DEF Moves
<1>2. /\ Shapes' /\ req'[p] = r
      /\ \A q \in Procs : q # p => req'[q] = req[q]
  BY <1>1 DEF Guarded, Shapes
<1>3. Positions'
  BY <1>1, <1>2 DEF Guarded, Positions, Outside
<1>4. Exclusive'
  BY <1>1 DEF Guarded, Exclusive
<1>5. \A q \in Procs : Decisions(q)'
  BY <1>1, <1>2 DEF Guarded, Decisions, Decided, Holds
<1>6. QED
  BY <1>2, <1>3, <1>4, <1>5 DEF Guarded

LEMMA BeginKeeps ==
    ASSUME NEW p \in Procs, Guarded, Begin(p)
    PROVE  Guarded'
<1> DEFINE r == [req[p] EXCEPT !.at = "first"]
           t == [NoTx EXCEPT !.open = TRUE]
<1>1. ReqRecord(req[p]) /\ Table(db)
  BY DEF Guarded, Shapes
<1>2. ReqRecord(r) /\ r.at = "first"
  BY <1>1 DEF ReqRecord
<1>3. TxRecord(t) /\ t.open = TRUE /\ t.wrote = NoRows /\ t.held = {}
  BY DEF TxRecord, NoTx
<1>4. req' = [req EXCEPT ![p] = r] /\ tx' = [tx EXCEPT ![p] = t] /\ db' = db
  BY DEF Begin
<1> HIDE DEF r, t
<1>5. /\ Shapes' /\ req'[p] = r /\ tx'[p] = t
      /\ \A q \in Procs : q # p => req'[q] = req[q] /\ tx'[q] = tx[q]
  BY <1>1, <1>2, <1>3, <1>4, Frame DEF Guarded
<1>6. Positions'
  BY <1>2, <1>3, <1>5 DEF Guarded, Positions, Inside
<1>7. Exclusive'
  BY <1>3, <1>5 DEF Guarded, Exclusive, NoRows
<1>8. \A q \in Procs : Decisions(q)'
  BY <1>2, <1>4, <1>5 DEF Guarded, Decisions, Decided, Holds
<1>9. QED
  BY <1>5, <1>6, <1>7, <1>8 DEF Guarded

LEMMA FinishesKeep ==
    ASSUME NEW p \in Procs, Guarded, Finishes(p)
    PROVE  Guarded'
<1>1. PICK r, w :
        /\ ReqRecord(r) /\ r.at = "done"
        /\ \A x \in DOMAIN w : <<x, "write">> \in tx[p].held \/ Free(p, <<x, "write">>)
        /\ req' = [req EXCEPT ![p] = r] /\ tx' = [tx EXCEPT ![p] = NoTx]
        /\ db' = Write(db, w)
  BY DEF Finishes
<1>2. TxRecord(NoTx) /\ NoTx.open = FALSE /\ NoTx.wrote = NoRows /\ NoTx.held = {}
  BY DEF TxRecord, NoTx
<1>3. Table(db')
  BY <1>1, WriteDomain
<1>4. /\ Shapes' /\ req'[p] = r /\ tx'[p] = NoTx
      /\ \A q \in Procs : q # p => req'[q] = req[q] /\ tx'[q] = tx[q]
  BY <1>1, <1>2, <1>3, Frame DEF Guarded
<1>5. Positions'
  BY <1>1, <1>2, <1>4 DEF Guarded, Positions, Outside
<1>6. Exclusive'
  BY <1>2, <1>4 DEF Guarded, Exclusive, NoRows
<1>7. Decisions(p)'
  BY <1>2, <1>4 DEF Decisions, Decided
<1>8. \A q \in Procs : q # p => Decisions(q)'
  BY <1>1, <1>4, DecisionsStay DEF Guarded
<1>9. QED
  BY <1>4, <1>5, <1>6, <1>7, <1>8 DEF Guarded

LEMMA AdvancesKeep ==
    ASSUME NEW p \in Procs, Guarded, Advances(p)
    PROVE  Guarded'
<1>1. PICK r, t :
        /\ tx[p].open /\ t.open = TRUE /\ TxRecord(t) /\ ReqRecord(r)
        /\ Inside(r) /\ r.at # "first" /\ r.ask = req[p].ask
        /\ tx[p].held \subseteq t.held /\ Granted(p, t.held \ tx[p].held)
        /\ \A x \in DOMAIN t.wrote : <<x, "write">> \in t.held
        /\ (req[p].at # "first" /\ r.ask.op \in {"buy", "close"}) => r.saw = req[p].saw
        /\ req[p].at = "first" =>
             /\ r.ask.op = "buy" => /\ <<Item(r.ask.item), "update">> \in t.held
                                    /\ Item(r.ask.item) \in DOMAIN db
                                    /\ db[Item(r.ask.item)] = r.saw
             /\ r.ask.op = "close" => /\ <<Auction(r.ask.auction), "update">> \in t.held
                                      /\ Auction(r.ask.auction) \in DOMAIN db
                                      /\ db[Auction(r.ask.auction)] = r.saw
             /\ r.ask.op = "list" => /\ <<Item(r.ask.item), "update">> \in t.held
                                     /\ Item(r.ask.item) \in DOMAIN db
                                     /\ db[Item(r.ask.item)].status = "sold"
             /\ r.ask.op = "bid" => /\ <<Auction(r.ask.auction), "update">> \in t.held
                                    /\ Auction(r.ask.auction) \in DOMAIN db
                                    /\ db[Auction(r.ask.auction)].status = "active"
                                    /\ db[Auction(r.ask.auction)].winner # r.ask.guild
        /\ req' = [req EXCEPT ![p] = r] /\ tx' = [tx EXCEPT ![p] = t] /\ db' = db
  BY DEF Advances
<1>2. Table(db')
  BY <1>1 DEF Guarded, Shapes
<1>3. /\ Shapes' /\ req'[p] = r /\ tx'[p] = t
      /\ \A q \in Procs : q # p => req'[q] = req[q] /\ tx'[q] = tx[q]
  BY <1>1, <1>2, Frame DEF Guarded
<1>4. Positions'
  BY <1>1, <1>3 DEF Guarded, Positions
<1>5. Exclusive'
  <2>1. \A q \in Procs : \A x \in DOMAIN tx'[q].wrote : <<x, "write">> \in tx'[q].held
    BY <1>1, <1>3 DEF Guarded, Exclusive
  <2>2. \A q \in Procs : q # p => \A k \in t.held, l \in tx[q].held : ~Conflict(k, l) /\ ~Conflict(l, k)
    <3>1. \A k, l : Conflict(k, l) => Conflict(l, k)
      BY DEF Conflict, Compatible
    <3>2. QED
      BY <1>1, <3>1 DEF Guarded, Exclusive, Granted, Free
  <2>3. QED
    BY <1>3, <2>1, <2>2 DEF Guarded, Exclusive
<1>6. Decisions(p)'
  BY <1>1, <1>3 DEF Guarded, Decisions, Decided, Holds
<1>7. \A q \in Procs : q # p => Decisions(q)'
  BY <1>1, <1>3 DEF Guarded, Decisions, Decided, Holds
<1>8. QED
  BY <1>3, <1>4, <1>5, <1>6, <1>7 DEF Guarded

LEMMA TakeKeeps ==
    ASSUME NEW p \in Procs, NEW ask, Guarded, Call(p, ask) \/ CallRepository(p, ask)
    PROVE  Guarded' /\ Moves(p)
<1>1. PICK at : /\ Take(p, ask, at)
                /\ \/ at \in {"service", "begin"}
                   \/ at = "insert" /\ ask.op \in {"createGuild", "createItem"}
  BY DEF Call, CallRepository
<1> DEFINE r == [NoRequest EXCEPT !.ask = ask, !.at = at]
<1>2. ReqRecord(r) /\ r.ask = ask /\ r.at = at
  BY DEF ReqRecord, NoRequest
<1>3. req' = [req EXCEPT ![p] = r] /\ tx' = tx /\ db' = db
  BY <1>1 DEF Take
<1> HIDE DEF r
<1>4. Outside(r)
  BY <1>1, <1>2 DEF Outside
<1>5. ~tx[p].open
  BY <1>1, NotOpen DEF Guarded, Take, Running
<1>6. Moves(p)
  BY <1>2, <1>3, <1>4, <1>5 DEF Moves
<1>7. QED
  BY <1>6, MovesKeep

LEMMA KillKeeps ==
    ASSUME NEW S, Guarded, Kill(S)
    PROVE  Guarded'
<1>1. TxRecord(NoTx) /\ NoTx.open = FALSE /\ NoTx.wrote = NoRows /\ NoTx.held = {}
  BY DEF TxRecord, NoTx
<1>2. ReqRecord(NoRequest) /\ NoRequest.at = "idle"
  BY DEF ReqRecord, NoRequest
<1>3. \A p \in Procs : \/ (tx'[p] = NoTx /\ req'[p] = NoRequest)
                        \/ (tx'[p] = tx[p] /\ req'[p] = req[p])
  BY DEF Kill
<1>4. db' = db
  BY DEF Kill
<1>5. Shapes'
  BY <1>1, <1>2, <1>3, <1>4 DEF Guarded, Shapes, Kill
<1>6. Positions'
  BY <1>1, <1>2, <1>3 DEF Guarded, Positions, Outside
<1>7. Exclusive'
  BY <1>1, <1>3 DEF Guarded, Exclusive, NoRows
<1>8. ASSUME NEW p \in Procs PROVE Decisions(p)'
  <2>1. CASE tx'[p] = NoTx
    BY <1>1, <2>1 DEF Decisions, Decided
  <2>2. CASE tx'[p] = tx[p] /\ req'[p] = req[p]
    BY <1>4, <2>2 DEF Guarded, Decisions, Decided, Holds
  <2>3. QED
    BY <1>3, <2>1, <2>2
<1>9. QED
  BY <1>5, <1>6, <1>7, <1>8 DEF Guarded

\* A step of Requests, whatever is asked, or one that does not concern it
AnyStep ==
    \/ \E p \in Procs : \E ask : Call(p, ask) \/ CallRepository(p, ask)
    \/ \E p \in Procs : Step(p) \/ Fail(p) \/ CommitUnconfirmed(p)
    \/ \E S : Kill(S)
    \/ UNCHANGED vars

LEMMA StepKeeps ==
    ASSUME Guarded, AnyStep
    PROVE  Guarded'
<1>1. CASE \E p \in Procs : \E ask : Call(p, ask) \/ CallRepository(p, ask)
  BY <1>1, TakeKeeps
<1>2. CASE \E p \in Procs : Step(p) \/ Fail(p) \/ CommitUnconfirmed(p)
  <2>1. PICK p \in Procs : Kinds(p)
    BY <1>2, StepKinds DEF Guarded
  <2>2. QED
    BY <2>1, MovesKeep, BeginKeeps, AdvancesKeep, FinishesKeep DEF Kinds
<1>3. CASE \E S : Kill(S)
  BY <1>3, KillKeeps
<1>4. CASE UNCHANGED vars
  BY <1>4 DEF vars, Guarded, Shapes, Positions, Exclusive, Decisions, Decided, Holds
<1>5. QED
  BY <1>1, <1>2, <1>3, <1>4 DEF AnyStep

LEMMA InitGuarded == ASSUME Init PROVE Guarded
<1>1. TxRecord(NoTx) /\ NoTx.open = FALSE /\ NoTx.wrote = NoRows /\ NoTx.held = {}
  BY DEF TxRecord, NoTx
<1>2. ReqRecord(NoRequest) /\ NoRequest.at = "idle"
  BY DEF ReqRecord, NoRequest
<1>3. Shapes
  BY <1>1, <1>2, OpeningsAssumption DEF Init, Shapes, Table, Sound, Typed
<1>4. Positions
  BY <1>1, <1>2 DEF Init, Positions, Outside
<1>5. Exclusive
  BY <1>1 DEF Init, Exclusive, NoRows
<1>6. \A p \in Procs : Decisions(p)
  BY <1>1 DEF Init, Decisions, Decided
<1>7. QED
  BY <1>3, <1>4, <1>5, <1>6 DEF Guarded

LEMMA GuardedDecides == ASSUME Guarded PROVE DecisionsStand
BY DEF Guarded, Decisions, DecisionsStand

-----------------------------------------------------------------------------
(* The pool.                                                               *)

Connected == {p \in Procs : tx[p].open}
PoolKept == Cardinality(Connected) <= MaxConns

\* A connection is only taken while one is left.
LEMMA PoolStep ==
    ASSUME Guarded, PoolKept, AnyStep
    PROVE  PoolKept'
<1>1. IsFiniteSet(Connected) /\ Cardinality(Connected) \in Nat
  BY ProcsAssumption, FS_Subset, FS_CardinalityType DEF Connected
<1>2. CASE Connected' \subseteq Connected
  <2>1. Cardinality(Connected') <= Cardinality(Connected) /\ Cardinality(Connected') \in Nat
    BY <1>1, <1>2, FS_Subset, FS_CardinalityType
  <2>2. QED
    BY <1>1, <2>1, NumbersAssumption DEF PoolKept
<1>3. ASSUME NEW p \in Procs, Begin(p) PROVE PoolKept'
  <2>1. tx' = [tx EXCEPT ![p] = [NoTx EXCEPT !.open = TRUE]] /\ Cardinality(Connected) < MaxConns
    BY <1>3 DEF Begin, SpareConn, Connected
  <2>2. Connected' \subseteq Connected \cup {p}
    BY <2>1 DEF Guarded, Shapes, Connected
  <2>3. /\ IsFiniteSet(Connected \cup {p})
        /\ Cardinality(Connected \cup {p}) <= Cardinality(Connected) + 1
        /\ Cardinality(Connected \cup {p}) \in Nat
    BY <1>1, FS_AddElement, FS_CardinalityType
  <2>4. Cardinality(Connected') <= Cardinality(Connected \cup {p}) /\ Cardinality(Connected') \in Nat
    BY <2>2, <2>3, FS_Subset, FS_CardinalityType
  <2>5. QED
    BY <1>1, <2>1, <2>3, <2>4, NumbersAssumption DEF PoolKept
<1>4. ASSUME NEW p \in Procs, Moves(p) \/ Advances(p) \/ Finishes(p) PROVE Connected' \subseteq Connected
  <2>1. CASE Moves(p)
    BY <2>1 DEF Moves, Connected
  <2>2. CASE Advances(p)
    BY <2>2 DEF Advances, Guarded, Shapes, Connected
  <2>3. CASE Finishes(p)
    BY <2>3 DEF Finishes, Guarded, Shapes, Connected, NoTx
  <2>4. QED
    BY <1>4, <2>1, <2>2, <2>3
<1>5. CASE \E p \in Procs : \E ask : Call(p, ask) \/ CallRepository(p, ask)
  BY <1>2, <1>4, <1>5, TakeKeeps
<1>6. CASE \E p \in Procs : Step(p) \/ Fail(p) \/ CommitUnconfirmed(p)
  BY <1>2, <1>3, <1>4, <1>6, StepKinds DEF Guarded, Kinds
<1>7. CASE \E S : Kill(S)
  <2>1. Connected' \subseteq Connected
    BY <1>7 DEF Kill, Connected, NoTx
  <2>2. QED
    BY <1>2, <2>1
<1>8. CASE UNCHANGED vars
  BY <1>2, <1>8 DEF vars, Connected
<1>9. QED
  BY <1>5, <1>6, <1>7, <1>8 DEF AnyStep

LEMMA InitPool == ASSUME Init PROVE PoolKept
<1>1. Connected = {}
  BY DEF Init, Connected, NoTx
<1>2. QED
  BY <1>1, FS_EmptySet, NumbersAssumption DEF PoolKept

LEMMA GuardedHolds == ASSUME Guarded, PoolKept PROVE DoneHoldsNothing
<1>1. \A p \in Procs : (tx[p].open \/ tx[p] = NoTx) /\ (tx[p].open => Running(p))
  BY DEF Guarded, Positions, Inside, Running
<1>2. QED
  BY <1>1 DEF DoneHoldsNothing, PoolKept, Connected

-----------------------------------------------------------------------------
(* Theorems about Requests.                                                *)

LEMMA RequestsInductive == Spec => [](Guarded /\ PoolKept)
<1>1. Init => Guarded /\ PoolKept
  BY InitGuarded, InitPool
<1>2. Guarded /\ PoolKept /\ [Next]_vars => (Guarded /\ PoolKept)'
  <2>1. [Next]_vars => AnyStep
    BY DEF Next, AnyStep
  <2>2. QED
    BY <2>1, StepKeeps, PoolStep
<1>3. QED
  BY <1>1, <1>2, PTL DEF Spec

\* For any number of goroutines and any requests: what a transaction of
\* auction_repo.go, guild_repo.go or item_repo.go has decided on under FOR UPDATE
\* stands until it ends.
THEOREM DecisionsStanding == Spec => []DecisionsStand
<1>1. Guarded /\ PoolKept => DecisionsStand
  BY GuardedDecides
<1>2. QED
  BY <1>1, RequestsInductive, PTL

\* A goroutine that is done has no transaction, no lock and no connection, and
\* the pool is never overdrawn.
THEOREM NothingIsHeld == Spec => []DoneHoldsNothing
<1>1. Guarded /\ PoolKept => DoneHoldsNothing
  BY GuardedHolds
<1>2. QED
  BY <1>1, RequestsInductive, PTL

-----------------------------------------------------------------------------
(* Theorems about Service.                                                 *)

\* What a handler does, before it is cancelled or afterwards, is a step of its request.
LEMMA HandlesSteps ==
    \A p : Handle(p) => Step(p) \/ Fail(p) \/ CommitUnconfirmed(p)
BY DEF Handle, Computes, Step, Minting

\* What the program does to the tables and the transactions is a step of
\* Requests.
LEMMA ServiceSteps == ASSUME [ServiceNext]_allVars PROVE AnyStep
<1>1. CASE UNCHANGED allVars
  BY <1>1 DEF allVars, AnyStep
<1>2. ASSUME NEW x \in Apps, AppNext(x) PROVE AnyStep
  <2>1. x \in Procs
    BY ProcessAssumption
  <2>2. CASE Start(x) \/ SeedCheck(x) \/ SeedNext(x) \/ Signal(x) \/ ShutdownDone(x)
    BY <2>2 DEF Start, SeedCheck, SeedNext, Signal, ShutdownDone, AnyStep
  <2>3. CASE SeedCall(x) \/ WorkerCall(x)
    BY <2>1, <2>3 DEF SeedCall, WorkerCall, AnyStep
  <2>4. CASE AppStep(x)
    BY <2>1, <2>4 DEF AppStep, AnyStep
  <2>5. CASE ShutdownTimeout(x) \/ Exit(x) \/ Crash(x) \/ PricePanic(x)
    BY <2>5 DEF ShutdownTimeout, Exit, Crash, PricePanic, Ends, AnyStep
  <2>6. QED
    BY <1>2, <2>2, <2>3, <2>4, <2>5 DEF AppNext
<1>3. ASSUME NEW p \in Clients, ClientNext(p) PROVE AnyStep
  <2>1. p \in Procs
    BY ProcessAssumption
  <2>2. CASE Accept(p)
    BY <2>1, <2>2 DEF Accept, AnyStep
  <2>3. CASE Handle(p)
    BY <2>1, <2>3, HandlesSteps DEF AnyStep
  <2>4. CASE WriteAnswer(p) \/ Receive(p) \/ Timeout(p)
    BY <2>4 DEF WriteAnswer, Receive, Timeout, AnyStep
  <2>5. QED
    BY <1>3, <2>2, <2>3, <2>4 DEF ClientNext
<1>4. QED
  BY <1>1, <1>2, <1>3 DEF ServiceNext

LEMMA ServiceInductive == ServiceSpec => [](Guarded /\ PoolKept)
<1>1. ServiceInit => Guarded /\ PoolKept
  BY InitGuarded, InitPool DEF ServiceInit
<1>2. Guarded /\ PoolKept /\ [ServiceNext]_allVars => (Guarded /\ PoolKept)'
  BY ServiceSteps, StepKeeps, PoolStep
<1>3. QED
  BY <1>1, <1>2, PTL DEF ServiceSpec

\* The same in the running program, with any number of copies that seed, serve,
\* close auctions, are stopped and die.
THEOREM DecisionsStandInService == ServiceSpec => []DecisionsStand
<1>1. Guarded /\ PoolKept => DecisionsStand
  BY GuardedDecides
<1>2. QED
  BY <1>1, ServiceInductive, PTL

\* Whatever expires, is stopped or dies, no handler that is done, a handler that
\* waits for ever on done among them, keeps a connection or a lock.
THEOREM NothingIsHeldInService == ServiceSpec => []DoneHoldsNothing
<1>1. Guarded /\ PoolKept => DoneHoldsNothing
  BY GuardedHolds
<1>2. QED
  BY <1>1, ServiceInductive, PTL

-----------------------------------------------------------------------------
(* Answers and the end of a copy.                                          *)

HttpRecord(h) ==
    h \in [main : {h.main}, app : {h.app}, context : {h.context}, wrote : {h.wrote},
           reply : {h.reply}, garbled : {h.garbled}]

WebShapes ==
    /\ http = [p \in Clients |-> http[p]] /\ \A p \in Clients : HttpRecord(http[p])
    /\ holder = [x \in Apps |-> holder[x]]
    /\ \A x \in Apps : holder[x] = [c \in Contexts |-> holder[x][c]]
    /\ phase = [x \in Apps |-> phase[x]]

\* A request that is waited for has its context, in a copy that is not closing;
\* whoever has written an answer in time, or got one, is answered.
Answered(p) ==
    /\ http[p].main \in {"unsent", "waiting", "answered", "expired", "lost"}
    /\ http[p].main = "unsent" => http[p].app = Nothing
    /\ http[p].main = "waiting" =>
         /\ http[p].app \in Apps /\ http[p].context \in Contexts
         /\ holder[http[p].app][http[p].context] = p
         /\ phase[http[p].app] \in {"serving", "stopping"}
    /\ http[p].main = "waiting" /\ http[p].wrote => http[p].reply # Nothing
    /\ http[p].main \in {"answered", "expired"} => http[p].reply # Nothing

Web == WebShapes /\ \A p \in Clients : Answered(p)

LEMMA StatusKnown == ASSUME NEW op, NEW e PROVE Status(op, e) \in Statuses
<1>1. /\ StartAuctionStatus(e) \in Statuses /\ GetAuctionStatus(e) \in Statuses
      /\ PlaceBidStatus(e) \in Statuses /\ CreateGuildStatus(e) \in Statuses
      /\ GuildInventoryStatus(e) \in Statuses /\ WalletSummaryStatus(e) \in Statuses
  BY DEF StartAuctionStatus, GetAuctionStatus, PlaceBidStatus, CreateGuildStatus,
         GuildInventoryStatus, WalletSummaryStatus, Statuses
<1>2. /\ DepositGoldStatus(e) \in Statuses /\ CreateItemStatus(e) \in Statuses
      /\ ListForSaleStatus(e) \in Statuses /\ GetItemStatus(e) \in Statuses
      /\ BuyItemStatus(e) \in Statuses /\ 200 \in Statuses /\ 201 \in Statuses /\ 500 \in Statuses
  BY DEF DepositGoldStatus, CreateItemStatus, ListForSaleStatus, GetItemStatus, BuyItemStatus,
         Statuses
<1>3. QED
  BY <1>1, <1>2 DEF Status

\* A response that has been written to has an answer.
LEMMA WrittenHasAnswer ==
    ASSUME NEW h, HttpRecord(h), NEW by \in Clients, NEW status \in Statuses
    PROVE  LET g == Written(h, by, status) IN
           /\ HttpRecord(g) /\ g.reply # Nothing
           /\ g.main = h.main /\ g.app = h.app /\ g.context = h.context /\ g.wrote = h.wrote
<1>1. [by |-> by, status |-> status] # Nothing
  BY NothingAssumption DEF Replies
<1>2. CASE h.reply = Nothing
  BY <1>1, <1>2 DEF Written, HttpRecord
<1>3. CASE h.reply # Nothing
  BY <1>3 DEF Written, HttpRecord
<1>4. QED
  BY <1>2, <1>3

LEMMA AcceptKeepsWeb ==
    ASSUME NEW p \in Clients, Web, Accept(p)
    PROVE  Web'
<1>1. PICK x \in Apps, c \in Contexts :
        /\ phase[x] = "serving" /\ holder[x][c] = Nothing
        /\ http' = [http EXCEPT ![p] = [Unsent EXCEPT !.main = "waiting", !.app = x, !.context = c]]
        /\ holder' = [holder EXCEPT ![x] = [@ EXCEPT ![c] = p]]
  BY DEF Accept
<1>2. phase' = phase
  BY DEF Accept, lifecycle
<1> DEFINE h == [Unsent EXCEPT !.main = "waiting", !.app = x, !.context = c]
<1>3. /\ HttpRecord(h) /\ h.main = "waiting" /\ h.app = x /\ h.context = c /\ h.wrote = FALSE
  BY DEF HttpRecord, Unsent
<1> HIDE DEF h
<1>4. /\ http' = [http EXCEPT ![p] = h]
      /\ http'[p] = h /\ \A q \in Clients : q # p => http'[q] = http[q]
  BY <1>1 DEF h, Web, WebShapes
<1>5. /\ holder'[x][c] = p
      /\ \A y \in Apps, d \in Contexts : ~(y = x /\ d = c) => holder'[y][d] = holder[y][d]
      /\ holder' = [y \in Apps |-> holder'[y]]
      /\ \A y \in Apps : holder'[y] = [d \in Contexts |-> holder'[y][d]]
  BY <1>1 DEF Web, WebShapes
<1>6. WebShapes'
  BY <1>2, <1>3, <1>4, <1>5 DEF Web, WebShapes
<1>7. Answered(p)'
  BY <1>1, <1>2, <1>3, <1>4, <1>5 DEF Answered
<1>8. ASSUME NEW q \in Clients, q # p PROVE Answered(q)'
  <2>1. http[q].main = "waiting" => ~(http[q].app = x /\ http[q].context = c)
    BY <1>1, NothingAssumption DEF Web, Answered
  <2>2. QED
    BY <1>2, <1>4, <1>5, <1>8, <2>1 DEF Web, Answered
<1>9. QED
  BY <1>6, <1>7, <1>8 DEF Web

LEMMA WriteAnswerKeepsWeb ==
    ASSUME NEW p \in Clients, Web, WriteAnswer(p)
    PROVE  Web'
<1> DEFINE r == holder[http[p].app][http[p].context]
           status == Status(req[p].ask.op, req[p].err)
           own == [http[p] EXCEPT !.wrote = TRUE]
           done == [http EXCEPT ![p] = own]
<1>1. phase' = phase /\ holder' = holder /\ http[p].main # "unsent"
  BY DEF WriteAnswer, lifecycle
<1>2. http' = IF r = Nothing THEN done ELSE [done EXCEPT ![r] = Written(done[r], p, status)]
  BY DEF WriteAnswer
<1>3. /\ HttpRecord(own) /\ own.wrote = TRUE /\ own.main = http[p].main
      /\ own.app = http[p].app /\ own.context = http[p].context /\ own.reply = http[p].reply
  BY DEF Web, WebShapes, HttpRecord
<1>4. done = [q \in Clients |-> done[q]] /\ done[p] = own
      /\ \A q \in Clients : q # p => done[q] = http[q]
  BY DEF Web, WebShapes
<1>5. status \in Statuses
  BY StatusKnown
<1> HIDE DEF own, done, status
<1>6. \A q \in Clients : HttpRecord(done[q])
  BY <1>3, <1>4 DEF Web, WebShapes
<1>7. CASE r \notin Clients \/ r = Nothing
  <2>1. http' = done
    <3>1. CASE r = Nothing
      BY <1>2, <3>1
    <3>2. CASE r \notin Clients
      <4>1. DOMAIN done = Clients
        BY <1>4
      <4>2. [done EXCEPT ![r] = Written(done[r], p, status)] = [q \in Clients |-> done[q]]
        BY <3>2, <4>1
      <4>3. QED
        BY <1>2, <1>4, <4>2
    <3>3. QED
      BY <1>7, <3>1, <3>2
  <2>2. http[p].main # "waiting"
    BY <1>7, NothingAssumption DEF Web, Answered
  <2>3. QED
    BY <1>1, <1>3, <1>4, <1>6, <2>1, <2>2 DEF Web, WebShapes, Answered
<1>8. CASE r \in Clients /\ r # Nothing
  <2>1. PICK o \in Clients : o = r
    BY <1>8
  <2> DEFINE g == Written(done[o], p, status)
  <2>2. /\ HttpRecord(g) /\ g.reply # Nothing /\ g.main = done[o].main
        /\ g.app = done[o].app /\ g.context = done[o].context /\ g.wrote = done[o].wrote
    BY <1>5, <1>6, WrittenHasAnswer
  <2> HIDE DEF g
  <2>3. http' = [done EXCEPT ![o] = g]
    BY <1>2, <1>8, <2>1 DEF g
  <2>4. http[p].main = "waiting" => o = p
    BY <2>1 DEF Web, Answered
  <2> HIDE DEF r
  <2>5. http' = [q \in Clients |-> http'[q]] /\ http'[o] = g
        /\ \A q \in Clients : q # o => http'[q] = done[q]
    BY <1>4, <2>3
  <2>6. WebShapes'
    BY <1>1, <1>6, <2>2, <2>5 DEF Web, WebShapes
  <2>7. Answered(o)'
    BY <1>1, <1>3, <1>4, <2>2, <2>5 DEF Web, Answered
  <2>8. ASSUME NEW q \in Clients, q # o PROVE Answered(q)'
    BY <1>1, <1>3, <1>4, <2>4, <2>5, <2>8 DEF Web, Answered
  <2>9. QED
    BY <2>6, <2>7, <2>8 DEF Web
<1>9. QED
  BY <1>7, <1>8

\* main returns: it has its answer, or writes one itself.
LEMMA MainReturnsKeepsWeb ==
    ASSUME NEW p \in Clients, Web, Receive(p) \/ Timeout(p)
    PROVE  Web'
<1>1. /\ http[p].main = "waiting" /\ phase' = phase
      /\ Release(p)
  BY DEF Receive, Timeout, lifecycle
<1>2. PICK h : /\ HttpRecord(h) /\ h.main \in {"answered", "expired"} /\ h.reply # Nothing
               /\ h.app = http[p].app
               /\ http' = [http EXCEPT ![p] = h]
  <2>1. CASE Receive(p)
    <3> DEFINE h == [http[p] EXCEPT !.main = "answered"]
    <3>1. /\ HttpRecord(h) /\ h.main = "answered" /\ h.reply = http[p].reply
          /\ h.app = http[p].app
      BY DEF HttpRecord, Web, WebShapes
    <3>2. http' = [http EXCEPT ![p] = h] /\ http[p].reply # Nothing
      BY <2>1 DEF Receive, Web, Answered
    <3>3. QED
      BY <3>1, <3>2
  <2>2. CASE Timeout(p)
    <3> DEFINE g == Written(http[p], p, 503)
               h == [g EXCEPT !.main = "expired"]
    <3>1. HttpRecord(g) /\ g.reply # Nothing /\ g.app = http[p].app
      BY WrittenHasAnswer DEF Statuses, Web, WebShapes
    <3>2. http' = [http EXCEPT ![p] = h]
      BY <2>2 DEF Timeout
    <3> HIDE DEF g
    <3>3. HttpRecord(h) /\ h.main = "expired" /\ h.reply = g.reply /\ h.app = g.app
      BY <3>1 DEF HttpRecord
    <3>4. QED
      BY <3>1, <3>2, <3>3
  <2>3. QED
    BY <2>1, <2>2
<1>3. /\ http' = [q \in Clients |-> http'[q]] /\ http'[p] = h
      /\ \A q \in Clients : q # p => http'[q] = http[q]
  BY <1>2 DEF Web, WebShapes
<1> DEFINE x == http[p].app
           c == http[p].context
<1>4. x \in Apps /\ c \in Contexts /\ holder[x][c] = p
  BY <1>1 DEF Web, Answered
<1> HIDE DEF x, c
<1>5. holder' = [holder EXCEPT ![x] = [@ EXCEPT ![c] = Nothing]]
  BY <1>1 DEF Release, x, c
<1>6. /\ \A y \in Apps, d \in Contexts : ~(y = x /\ d = c) => holder'[y][d] = holder[y][d]
      /\ holder' = [y \in Apps |-> holder'[y]]
      /\ \A y \in Apps : holder'[y] = [d \in Contexts |-> holder'[y][d]]
  BY <1>4, <1>5 DEF Web, WebShapes
<1>7. WebShapes'
  BY <1>1, <1>2, <1>3, <1>6 DEF Web, WebShapes
<1>8. Answered(p)'
  BY <1>2, <1>3 DEF Answered
<1>9. ASSUME NEW q \in Clients, q # p PROVE Answered(q)'
  <2>1. http[q].main = "waiting" => ~(http[q].app = x /\ http[q].context = c)
    BY <1>4, <1>9 DEF Web, Answered
  <2>2. QED
    BY <1>1, <1>3, <1>6, <1>9, <2>1 DEF Web, Answered
<1>10. QED
  BY <1>7, <1>8, <1>9 DEF Web

\* A copy leaves serving and stopping only when nobody waits for it.
LEMMA PhaseKeepsWeb ==
    ASSUME Web, UNCHANGED web, phase' = [x \in Apps |-> phase'[x]],
           \A x \in Apps : \/ phase'[x] = phase[x]
                           \/ phase'[x] \in {"serving", "stopping"}
                           \/ phase[x] \notin {"serving", "stopping"}
                           \/ Waiting(x) = {}
    PROVE  Web'
<1>1. http' = http /\ holder' = holder
  BY DEF web
<1>2. WebShapes'
  BY <1>1 DEF Web, WebShapes
<1>3. ASSUME NEW p \in Clients PROVE Answered(p)'
  <2>1. http[p].main = "waiting" => http[p].app \in Apps /\ p \in Waiting(http[p].app)
    BY DEF Web, Answered, Waiting, Served
  <2>2. QED
    BY <1>1, <2>1 DEF Web, Answered
<1>4. QED
  BY <1>2, <1>3 DEF Web

LEMMA EndsKeepsWeb ==
    ASSUME NEW x \in Apps, NEW next, Web, Ends(x, next)
    PROVE  Web'
<1>1. /\ phase' = [phase EXCEPT ![x] = next]
      /\ http' = [p \in Clients |->
                    IF p \in Waiting(x) THEN [http[p] EXCEPT !.main = "lost"] ELSE http[p]]
      /\ holder' = [holder EXCEPT ![x] = [c \in Contexts |-> Nothing]]
  BY DEF Ends
<1>2. ASSUME NEW p \in Clients PROVE HttpRecord(http'[p]) /\ Answered(p)'
  <2>1. CASE p \in Waiting(x)
    <3>1. http'[p] = [http[p] EXCEPT !.main = "lost"]
      BY <1>1, <2>1
    <3>2. HttpRecord(http'[p]) /\ http'[p].main = "lost"
      BY <3>1 DEF HttpRecord, Web, WebShapes
    <3>3. QED
      BY <3>2 DEF Answered
  <2>2. CASE p \notin Waiting(x)
    <3>1. http'[p] = http[p]
      BY <1>1, <2>2
    <3>2. http[p].main = "waiting" => http[p].app # x
      BY <2>2 DEF Waiting, Served
    <3>3. \A y \in Apps : y # x => phase'[y] = phase[y] /\ holder'[y] = holder[y]
      BY <1>1 DEF Web, WebShapes
    <3>4. QED
      BY <3>1, <3>2, <3>3 DEF Web, WebShapes, Answered
  <2>3. QED
    BY <2>1, <2>2
<1>3. WebShapes'
  BY <1>1, <1>2 DEF Web, WebShapes
<1>4. QED
  BY <1>2, <1>3 DEF Web

LEMMA WebStep ==
    ASSUME Web, [ServiceNext]_allVars
    PROVE  Web'
<1>1. CASE UNCHANGED allVars
  <2>1. UNCHANGED <<http, holder, phase>>
    BY <1>1 DEF allVars, web, lifecycle
  <2>2. QED
    BY <2>1 DEF Web, WebShapes, Answered
<1>2. ASSUME NEW x \in Apps, AppNext(x) PROVE Web'
  <2>1. CASE Start(x) \/ SeedCheck(x) \/ SeedNext(x) \/ Signal(x) \/ ShutdownDone(x)
    <3>1. UNCHANGED web
      BY <2>1 DEF Start, SeedCheck, SeedNext, Signal, ShutdownDone
    <3>2. /\ phase' = [y \in Apps |-> phase'[y]]
          /\ \A y \in Apps : y # x => phase'[y] = phase[y]
      BY <2>1 DEF Start, SeedCheck, SeedNext, Signal, ShutdownDone, Web, WebShapes
    <3>3. \/ phase'[x] = phase[x] \/ phase'[x] \in {"serving", "stopping"}
          \/ phase[x] \notin {"serving", "stopping"} \/ Waiting(x) = {}
      BY <2>1 DEF Start, SeedCheck, SeedNext, Signal, ShutdownDone, Web, WebShapes
    <3>4. QED
      BY <3>1, <3>2, <3>3, PhaseKeepsWeb
  <2>2. CASE SeedCall(x) \/ WorkerCall(x) \/ AppStep(x)
    <3>1. UNCHANGED web /\ phase' = phase
      BY <2>2 DEF SeedCall, WorkerCall, AppStep, lifecycle
    <3>2. QED
      BY <3>1, PhaseKeepsWeb DEF Web, WebShapes
  <2>3. CASE ShutdownTimeout(x) \/ Exit(x) \/ Crash(x) \/ PricePanic(x)
    BY <2>3, EndsKeepsWeb DEF ShutdownTimeout, Exit, Crash, PricePanic
  <2>4. QED
    BY <1>2, <2>1, <2>2, <2>3 DEF AppNext
<1>3. ASSUME NEW p \in Clients, ClientNext(p) PROVE Web'
  <2>1. CASE Handle(p)
    <3>1. UNCHANGED web /\ phase' = phase
      BY <2>1 DEF Handle, lifecycle
    <3>2. QED
      BY <3>1, PhaseKeepsWeb DEF Web, WebShapes
  <2>2. QED
    BY <1>3, <2>1, AcceptKeepsWeb, WriteAnswerKeepsWeb, MainReturnsKeepsWeb DEF ClientNext
<1>4. QED
  BY <1>1, <1>2, <1>3 DEF ServiceNext

LEMMA InitWeb == ASSUME ServiceInit PROVE Web
<1>1. /\ http = [p \in Clients |-> Unsent]
      /\ holder = [x \in Apps |-> [c \in Contexts |-> Nothing]]
      /\ phase = [x \in Apps |-> phase[x]]
  BY ScenarioAssumption DEF ServiceInit
<1>2. HttpRecord(Unsent) /\ Unsent.main = "unsent" /\ Unsent.app = Nothing
  BY DEF HttpRecord, Unsent
<1>3. QED
  BY <1>1, <1>2 DEF Web, WebShapes, Answered

LEMMA WebInductive == ServiceSpec => []Web
<1>1. ServiceInit => Web
  BY InitWeb
<1>2. Web /\ [ServiceNext]_allVars => Web'
  BY WebStep
<1>3. QED
  BY <1>1, <1>2, PTL DEF ServiceSpec

\* A copy exits by Exit only.
LEMMA ExitedByExit ==
    ASSUME Web, [ServiceNext]_allVars, NEW x \in Apps, phase[x] # "exited", phase'[x] = "exited"
    PROVE  Exit(x)
<1>1. CASE UNCHANGED allVars
  BY <1>1 DEF allVars, lifecycle
<1>2. ASSUME NEW y \in Apps, AppNext(y) PROVE Exit(x)
  <2>1. CASE Start(y) \/ SeedCheck(y) \/ SeedNext(y) \/ Signal(y) \/ ShutdownDone(y)
    BY <2>1 DEF Start, SeedCheck, SeedNext, Signal, ShutdownDone, Web, WebShapes
  <2>2. CASE SeedCall(y) \/ WorkerCall(y) \/ AppStep(y)
    BY <2>2 DEF SeedCall, WorkerCall, AppStep, lifecycle
  <2>3. CASE ShutdownTimeout(y) \/ Crash(y) \/ PricePanic(y)
    BY <2>3 DEF ShutdownTimeout, Crash, PricePanic, Ends, Web, WebShapes
  <2>4. CASE Exit(y)
    BY <2>4 DEF Exit, Ends, Web, WebShapes
  <2>5. QED
    BY <1>2, <2>1, <2>2, <2>3, <2>4 DEF AppNext
<1>3. ASSUME NEW p \in Clients, ClientNext(p) PROVE Exit(x)
  BY <1>3 DEF ClientNext, Accept, Handle, WriteAnswer, Receive, Timeout, lifecycle
<1>4. QED
  BY <1>1, <1>2, <1>3 DEF ServiceNext

\* A copy that exits after srv.Shutdown and pool.Close leaves none of its
\* requests without an answer and no transaction half way.
THEOREM ExitIsGraceful == ServiceSpec => GracefulExit
<1> DEFINE Leaves(x) ==
      (phase[x] # "exited" /\ phase'[x] = "exited") =>
          \A p \in Served(x) :
             /\ http'[p].main = "lost" => http[p].main = "lost"
             /\ ~tx[p].open
             /\ http'[p].main # "lost" => http'[p].reply # Nothing
<1>1. ASSUME Web, [ServiceNext]_allVars, NEW x \in Apps PROVE Leaves(x)
  <2>1. SUFFICES ASSUME phase[x] # "exited", phase'[x] = "exited", NEW p \in Served(x)
                 PROVE  /\ http'[p].main = "lost" => http[p].main = "lost"
                        /\ ~tx[p].open
                        /\ http'[p].main # "lost" => http'[p].reply # Nothing
    OBVIOUS
  <2>2. Exit(x)
    BY <1>1, <2>1, ExitedByExit
  <2>3. p \in Clients /\ http[p].app = x
    BY DEF Served
  <2>4. ~tx[p].open
    BY <2>2 DEF Exit
  <2>5. http[p].main # "waiting"
    BY <1>1, <2>2, <2>3 DEF Exit, Web, Answered
  <2>6. http'[p] = http[p]
    BY <2>2, <2>3, <2>5 DEF Exit, Ends, Waiting
  <2>7. http[p].main # "unsent"
    BY <1>1, <2>3, NothingAssumption DEF Web, Answered
  <2>8. http[p].main # "lost" => http[p].reply # Nothing
    BY <1>1, <2>3, <2>5, <2>7 DEF Web, Answered
  <2>9. QED
    BY <2>4, <2>6, <2>8
<1>2. Web /\ [ServiceNext]_allVars =>
        [\A x \in Apps : Leaves(x)]_allVars
  BY <1>1
<1>3. QED
  BY <1>2, WebInductive, PTL DEF ServiceSpec, GracefulExit
=============================================================================
