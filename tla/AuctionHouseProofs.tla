------------------------- MODULE AuctionHouseProofs -------------------------
(***************************************************************************)
(* Theorems about AuctionHouse, for every value of its constants.  First   *)
(* its rows: their types, leaders and bid rows, when an auction closes,    *)
(* how many run, and what a bid owes to the quota constraint.  Then its    *)
(* gold: no guild promises more than it has, the audit trail and the sales *)
(* explain every shift, the quota is what is reserved, and the auctions    *)
(* are an escrow.                                                          *)
(***************************************************************************)
EXTENDS AuctionHouse, SumLemmas

\* The requests that a row of req may hold
Requests == {Idle} \cup StartRequests \cup BidRequests

\* A highest bid and a leader come together (highest_bid and winner_id are NULL
\* together): what makes the winner a settlement pays a guild at all.
LeaderIffHigh ==
    \A a \in Auctions : auction[a] # NoAuction =>
        (auction[a].high = 0 <=> auction[a].winner = NoGuild)

\* The row lock of an auction: one bid at a time holds it, and while it does
\* what the bid was admitted on stays true.
LocksHold ==
    \A p \in Procs : req[p].pc = "locked" =>
        /\ Active(req[p].auction)
        /\ auction[req[p].auction].seller # req[p].guild
        /\ auction[req[p].auction].winner # req[p].guild
        /\ \A q \in Procs :
              (req[q].pc = "locked" /\ req[q].auction = req[p].auction) => q = p

\* TypeOK is not inductive on its own: SettleSale makes the winner the owner,
\* and CommitBid updates the row the lock was taken on.
Typed == TypeOK /\ LeaderIffHigh /\ LocksHold

-----------------------------------------------------------------------------
(* Lemmas.                                                                 *)

\* The only actions that touch an auction or a bid
LEMMA AuctionSteps ==
    ASSUME [Next]_vars
    PROVE  \/ UNCHANGED <<auction, bid>>
           \/ \E p \in Procs : InsertAuction(p) \/ CommitBid(p)
           \/ \E w \in Workers, a \in Auctions : CancelUnsold(w, a) \/ SettleSale(w, a)
<1>1. CASE UNCHANGED vars
  BY <1>1 DEF vars
<1>2. CASE \E g \in Guilds, n \in DepositAmounts : Deposit(g, n)
  BY <1>2 DEF Deposit
<1>3. CASE \E p \in Procs : StartStep(p) \/ BidStep(p) \/ Abort(p)
  BY <1>3 DEF StartStep, BidStep, ReadItem, CountActive, RefuseInsert, ReadForBid,
              LockAuction, RefuseBid, Abort
<1>4. CASE \E w \in Workers : WorkerStep(w)
  BY <1>4 DEF WorkerStep, ListActive, ReadClock, Close, SkipClosed, FinalizeFails
<1>5. CASE Crash \/ Tick
  BY <1>5 DEF Crash, Tick
<1>6. QED
  BY <1>1, <1>2, <1>3, <1>4, <1>5 DEF Next

\* What is left of a worker's round is a round.
LEMMA RoundsShrink ==
    ASSUME TypeOK, NEW w \in Workers, NEW a \in Auctions, Advance(w, a)
    PROVE  worker' \in [Workers -> Rounds]
<1>1. worker[w] \in Rounds
  BY DEF TypeOK
<1>2. Closing({e \in worker[w].batch : e[1] # a}) \in Rounds
  BY <1>1 DEF Closing, Rounds, NoRound
<1>3. QED
  BY <1>2 DEF TypeOK, Advance

\* A request that waits for a lock, or holds it, is a bid.
LEMMA BidTyped ==
    ASSUME TypeOK, NEW p \in Procs, req[p].pc \in {"locking", "locked"}
    PROVE  req[p] \in BidRequests
BY DEF TypeOK, Idle, StartRequests

\* The auction whose lock a bid waits for, or holds, is a row once it is active.
LEMMA ActiveRow ==
    ASSUME TypeOK, NEW a \in Auctions, Active(a)
    PROVE  auction[a] \in AuctionRows
BY DEF TypeOK, Active, NoAuction

\* The reservation a bid replaces, and the quota it leaves its guilds
LEMMA ReleaseTyped ==
    ASSUME Typed, NEW p \in Procs, req[p].pc = "locked", Storable(req[p])
    PROVE  /\ Outbid(req[p].auction) \in Nat
           /\ \A g \in Guilds : /\ Delta(req[p], g) \in Int
                                /\ bid[req[p].auction][g] + Delta(req[p], g) \in Nat
                                /\ spent[g][req[p].day] + Delta(req[p], g) \in Nat
<1> DEFINE b == req[p]
<1>1. b \in BidRequests
  BY BidTyped DEF Typed
<1>2. /\ b.guild \in Guilds /\ b.auction \in Auctions /\ b.amount \in Nat /\ b.day \in Days
  BY <1>1 DEF BidRequests
<1>3. auction[b.auction].winner \in Guilds \cup {NoGuild}
  BY <1>2, ActiveRow DEF Typed, LocksHold, AuctionRows
<1>4. bid[b.auction] \in [Guilds -> Nat]
  BY <1>2 DEF Typed, TypeOK
<1>5. Outbid(b.auction) \in Nat
  BY <1>3, <1>4 DEF Outbid
<1>6. ASSUME NEW g \in Guilds
      PROVE  /\ Delta(b, g) \in Int
             /\ bid[b.auction][g] + Delta(b, g) \in Nat
             /\ spent[g][b.day] + Delta(b, g) \in Nat
  <2>1. bid[b.auction][g] \in Nat /\ spent[g][b.day] \in Nat
    BY <1>2, <1>4 DEF Typed, TypeOK
  <2>2. CASE g = b.guild
    BY <2>1, <2>2, <1>2 DEF Delta
  <2>3. CASE g # b.guild /\ g # auction[b.auction].winner
    BY <2>1, <2>3 DEF Delta
  <2>4. CASE g # b.guild /\ g = auction[b.auction].winner
    <3>1. Delta(b, g) = -Outbid(b.auction)
      BY <2>4 DEF Delta
    <3>2. Outbid(b.auction) = bid[b.auction][g]
      BY <2>4, GuildAssumption DEF Outbid
    <3>3. CASE Outbid(b.auction) = 0
      BY <3>1, <3>3, <2>1, <3>2
    <3>4. CASE Outbid(b.auction) # 0
      <4>1. ~UpsertRefused(spent[g][b.day], -Outbid(b.auction))
        BY <3>4, <2>4 DEF Storable
      <4>2. spent[g][b.day] + (-Outbid(b.auction)) >= 0
        BY <4>1, <2>1, <1>5 DEF UpsertRefused
      <4>3. QED
        BY <3>1, <3>2, <4>2, <2>1, <1>5
    <3>5. QED
      BY <3>3, <3>4
  <2>5. QED
    BY <2>2, <2>3, <2>4
<1>7. QED
  BY <1>5, <1>6

\* The granting of a lock keeps a request a bid.
LEMMA LockedTyped ==
    ASSUME TypeOK, NEW p \in Procs, req[p].pc = "locking", NEW d \in Days
    PROVE  [req EXCEPT ![p].pc = "locked", ![p].day = d] \in [Procs -> Requests]
<1>1. req[p] \in BidRequests
  BY BidTyped
<1>2. [req[p] EXCEPT !.pc = "locked", !.day = d] \in BidRequests
  BY <1>1 DEF BidRequests
<1>3. [req EXCEPT ![p].pc = "locked", ![p].day = d]
        = [req EXCEPT ![p] = [req[p] EXCEPT !.pc = "locked", !.day = d]]
  BY DEF TypeOK
<1>4. QED
  BY <1>2, <1>3 DEF TypeOK, Requests

-----------------------------------------------------------------------------
(* Type correctness.                                                       *)

\* Every action keeps the tables in the shape of the schema.
LEMMA TypeStep ==
    ASSUME Typed, [Next]_vars
    PROVE  TypeOK'
<1> USE GuildAssumption, ItemAssumption, InputAssumption, NumberAssumption
<1> USE DEF TypeOK, Typed
<1>1. ASSUME NEW g \in Guilds, NEW n \in DepositAmounts, Deposit(g, n)
      PROVE  TypeOK'
  BY <1>1 DEF Deposit
<1>2. ASSUME NEW p \in Procs, ReadItem(p)
      PROVE  TypeOK'
  BY <1>2 DEF ReadItem, StartRequests, money
<1>3. ASSUME NEW p \in Procs, CountActive(p)
      PROVE  TypeOK'
  BY <1>3 DEF CountActive, StartRequests, BidRequests, Idle, money
<1>4. ASSUME NEW p \in Procs, InsertAuction(p)
      PROVE  TypeOK'
  BY <1>4 DEF InsertAuction, FreshIds, AuctionRows, StartRequests, BidRequests, Idle, money
<1>5. ASSUME NEW p \in Procs, RefuseInsert(p) \/ RefuseBid(p) \/ Abort(p)
      PROVE  TypeOK'
  BY <1>5 DEF RefuseInsert, RefuseBid, Abort, money
<1>6. ASSUME NEW p \in Procs, ReadForBid(p)
      PROVE  TypeOK'
  <2>1. PICK g \in Guilds, a \in Auctions \ FreshIds, n \in BidAmounts :
          req' = [req EXCEPT ![p] =
              [pc |-> "locking", guild |-> g, auction |-> a, amount |-> n,
               ends |-> Extended(auction[a].ends), day |-> Today]]
    BY <1>6 DEF ReadForBid
  <2>2. Today \in Days
    BY DEF Today, Days
  <2>3. auction[a].ends \in Nat
    BY DEF FreshIds, AuctionRows
  <2>4. Extended(auction[a].ends) \in Nat
    BY <2>3 DEF Extended
  <2>5. [pc |-> "locking", guild |-> g, auction |-> a, amount |-> n,
         ends |-> Extended(auction[a].ends), day |-> Today] \in BidRequests
    BY <2>2, <2>4 DEF BidRequests
  <2>6. req' \in [Procs -> Requests]
    BY <2>1, <2>5 DEF Requests
  <2>7. QED
    BY <1>6, <2>6 DEF ReadForBid, Requests, money
<1>7. ASSUME NEW p \in Procs, LockAuction(p)
      PROVE  TypeOK'
  <2>1. req[p].pc = "locking"
    BY <1>7 DEF LockAuction
  <2>2. req' \in [Procs -> Requests]
    <3>1. CASE Admits(req[p].auction, req[p].guild)
      <4>1. PICK d \in Days : req' = [req EXCEPT ![p].pc = "locked", ![p].day = d]
        BY <1>7, <3>1 DEF LockAuction
      <4>2. QED
        BY <2>1, <4>1, LockedTyped
    <3>2. CASE ~Admits(req[p].auction, req[p].guild)
      BY <1>7, <3>2 DEF LockAuction, Requests
    <3>3. QED
      BY <3>1, <3>2
  <2>3. QED
    BY <1>7, <2>2 DEF LockAuction, Requests, money
<1>8. ASSUME NEW p \in Procs, CommitBid(p)
      PROVE  TypeOK'
  <2> DEFINE b == req[p]
  <2>1. b.pc = "locked" /\ Storable(b)
    BY <1>8 DEF CommitBid
  <2>2. b \in BidRequests
    BY <2>1, BidTyped
  <2>3. /\ b.guild \in Guilds /\ b.auction \in Auctions /\ b.day \in Days
        /\ b.amount \in Nat /\ b.ends \in Nat
    BY <2>2 DEF BidRequests
  <2>4. \A g \in Guilds : /\ Delta(b, g) \in Int
                          /\ bid[b.auction][g] + Delta(b, g) \in Nat
                          /\ spent[g][b.day] + Delta(b, g) \in Nat
    BY <2>1, ReleaseTyped
  <2>5. bid' \in [Auctions -> [Guilds -> Nat]]
    BY <1>8, <2>3, <2>4 DEF CommitBid, BidRows
  <2>6. spent' \in [Guilds -> [Days -> Nat]]
    BY <1>8, <2>3, <2>4 DEF CommitBid, SpentRows
  <2>7. ledger' \in [Guilds -> Int]
    BY <1>8, <2>4 DEF CommitBid, LedgerSums
  <2>8. auction[b.auction] \in AuctionRows
    BY <2>1, <2>3, ActiveRow DEF LocksHold
  <2>9. auction' \in [Auctions -> AuctionRows \cup {NoAuction}]
    <3>1. [auction[b.auction] EXCEPT !.high = b.amount, !.winner = b.guild, !.ends = b.ends]
            \in AuctionRows
      BY <2>3, <2>8 DEF AuctionRows
    <3>2. auction' = [auction EXCEPT ![b.auction] =
            [auction[b.auction] EXCEPT !.high = b.amount, !.winner = b.guild, !.ends = b.ends]]
      BY <1>8, <2>3 DEF CommitBid
    <3>3. QED
      BY <3>1, <3>2
  <2>10. QED
    BY <1>8, <2>5, <2>6, <2>7, <2>9 DEF CommitBid
<1>9. ASSUME NEW w \in Workers, ListActive(w)
      PROVE  TypeOK'
  BY <1>9 DEF ListActive, Active, NoAuction, AuctionRows, Rounds, money
<1>10. ASSUME NEW w \in Workers, ReadClock(w)
       PROVE  TypeOK'
  BY <1>10 DEF ReadClock, Closing, Rounds, NoRound, money
<1>11. ASSUME NEW w \in Workers, NEW a \in Auctions, CancelUnsold(w, a)
       PROVE  TypeOK'
  <2>1. auction[a] \in AuctionRows
    BY <1>11, ActiveRow DEF CancelUnsold
  <2>2. auction' \in [Auctions -> AuctionRows \cup {NoAuction}]
    <3>1. [auction[a] EXCEPT !.status = "cancelled", !.winner = NoGuild] \in AuctionRows
      BY <2>1 DEF AuctionRows
    <3>2. auction' = [auction EXCEPT ![a] =
                       [auction[a] EXCEPT !.status = "cancelled", !.winner = NoGuild]]
      BY <1>11 DEF CancelUnsold
    <3>3. QED
      BY <3>1, <3>2
  <2>3. item' \in [Items -> [owner : Guilds, status : {"available", "in_auction", "sold"}]]
    <3>1. auction[a].item \in Items
      BY <2>1 DEF AuctionRows
    <3>2. item' = [item EXCEPT ![auction[a].item] =
                    [item[auction[a].item] EXCEPT !.status = "available"]]
      BY <1>11, <3>1 DEF CancelUnsold
    <3>3. item[auction[a].item] \in [owner : Guilds, status : {"available", "in_auction", "sold"}]
      BY <3>1
    <3>4. [item[auction[a].item] EXCEPT !.status = "available"]
            \in [owner : Guilds, status : {"available", "in_auction", "sold"}]
      BY <3>3
    <3>5. QED
      BY <3>1, <3>2, <3>4
  <2>4. QED
    BY <1>11, <2>2, <2>3, RoundsShrink DEF CancelUnsold, money
<1>12. ASSUME NEW w \in Workers, NEW a \in Auctions, SettleSale(w, a)
       PROVE  TypeOK'
  <2>1. auction[a] \in AuctionRows
    BY <1>12, ActiveRow DEF SettleSale
  <2>2. auction[a].winner \in Guilds
    BY <1>12, <2>1 DEF SettleSale, LeaderIffHigh, AuctionRows, Active, NoAuction
  <2>3. auction' \in [Auctions -> AuctionRows \cup {NoAuction}]
    <3>1. [auction[a] EXCEPT !.status = "ended"] \in AuctionRows
      BY <2>1 DEF AuctionRows
    <3>2. auction' = [auction EXCEPT ![a] = [auction[a] EXCEPT !.status = "ended"]]
      BY <1>12 DEF SettleSale
    <3>3. QED
      BY <3>1, <3>2
  <2>4. item' \in [Items -> [owner : Guilds, status : {"available", "in_auction", "sold"}]]
    BY <1>12, <2>1, <2>2 DEF SettleSale, AuctionRows
  <2>5. gold' \in [Guilds -> Nat]
    BY <1>12, <2>1 DEF SettleSale, AuctionRows
  <2>6. QED
    BY <1>12, <2>3, <2>4, <2>5, RoundsShrink DEF SettleSale
<1>13. ASSUME NEW w \in Workers, NEW a \in Auctions, SkipClosed(w, a) \/ FinalizeFails(w, a)
       PROVE  TypeOK'
  BY <1>13, RoundsShrink DEF SkipClosed, FinalizeFails, money
<1>14. CASE Crash
  BY <1>14 DEF Crash, Rounds, NoRound, money
<1>15. CASE Tick
  BY <1>15 DEF Tick, money
<1>16. CASE UNCHANGED vars
  BY <1>16 DEF vars
<1>17. QED
  BY <1>1, <1>2, <1>3, <1>4, <1>5, <1>6, <1>7, <1>8, <1>9, <1>10, <1>11, <1>12,
     <1>13, <1>14, <1>15, <1>16
  DEF Next, StartStep, BidStep, WorkerStep, Close

\* The leader and the highest bid are written together.
LEMMA LeaderStep ==
    ASSUME Typed, [Next]_vars
    PROVE  LeaderIffHigh'
<1> USE DEF Typed
<1>1. CASE UNCHANGED <<auction, bid>>
  BY <1>1 DEF LeaderIffHigh
<1>2. ASSUME NEW p \in Procs, InsertAuction(p)
      PROVE  LeaderIffHigh'
  BY <1>2 DEF InsertAuction, FreshIds, LeaderIffHigh, TypeOK
<1>3. ASSUME NEW p \in Procs, CommitBid(p)
      PROVE  LeaderIffHigh'
  <2>1. req[p] \in BidRequests
    BY <1>3, BidTyped DEF CommitBid
  <2>2. /\ req[p].auction \in Auctions /\ req[p].guild \in Guilds
        /\ req[p].amount \in Nat \ {0}
    BY <2>1 DEF BidRequests
  <2>3. auction[req[p].auction] \in AuctionRows
    BY <1>3, <2>2, ActiveRow DEF CommitBid, LocksHold
  <2>4. /\ auction'[req[p].auction].high = req[p].amount
        /\ auction'[req[p].auction].winner = req[p].guild
    BY <1>3, <2>2, <2>3 DEF CommitBid, TypeOK, AuctionRows
  <2>5. \A a \in Auctions : a # req[p].auction => auction'[a] = auction[a]
    BY <1>3 DEF CommitBid, TypeOK
  <2>6. QED
    BY <2>2, <2>4, <2>5, GuildAssumption DEF LeaderIffHigh
<1>4. ASSUME NEW w \in Workers, NEW a \in Auctions, CancelUnsold(w, a) \/ SettleSale(w, a)
      PROVE  LeaderIffHigh'
  <2>1. auction[a] \in AuctionRows
    BY <1>4, ActiveRow DEF CancelUnsold, SettleSale
  <2>2. auction'[a].high = auction[a].high /\ auction'[a].winner = auction[a].winner
    BY <1>4, <2>1 DEF CancelUnsold, SettleSale, TypeOK, LeaderIffHigh, AuctionRows, Active, NoAuction
  <2>3. \A x \in Auctions : x # a => auction'[x] = auction[x]
    BY <1>4 DEF CancelUnsold, SettleSale, TypeOK
  <2>4. QED
    BY <1>4, <2>2, <2>3 DEF LeaderIffHigh, CancelUnsold, SettleSale, Active, NoAuction
<1>5. QED
  BY <1>1, <1>2, <1>3, <1>4, AuctionSteps

\* A lock is granted to one bid at a time, and neither a closing nor another bid
\* changes the row under it.
LEMMA LockStep ==
    ASSUME Typed, [Next]_vars
    PROVE  LocksHold'
<1> USE DEF Typed
<1> DEFINE Holds(p) == req[p].pc = "locked"
<1>1. ASSUME NEW p0 \in Procs, NEW r, r.pc # "locked", req' = [req EXCEPT ![p0] = r],
             \A p \in Procs : (p # p0 /\ Holds(p)) =>
                auction'[req[p].auction] = auction[req[p].auction]
      PROVE  LocksHold'
  BY <1>1 DEF LocksHold, Active, TypeOK
<1>2. CASE UNCHANGED <<req, auction>>
  BY <1>2 DEF LocksHold, Active
<1>3. ASSUME NEW p \in Procs, \/ ReadItem(p) \/ CountActive(p) \/ RefuseInsert(p)
                              \/ ReadForBid(p) \/ RefuseBid(p) \/ Abort(p)
      PROVE  LocksHold'
  <2>1. UNCHANGED auction
    BY <1>3 DEF ReadItem, CountActive, RefuseInsert, ReadForBid, RefuseBid, Abort
  <2>2. \E r : r.pc # "locked" /\ req' = [req EXCEPT ![p] = r]
    BY <1>3 DEF ReadItem, CountActive, RefuseInsert, ReadForBid, RefuseBid, Abort, Idle
  <2>3. QED
    BY <1>1, <2>1, <2>2
<1>4. ASSUME NEW p \in Procs, InsertAuction(p)
      PROVE  LocksHold'
  <2>1. PICK a \in FreshIds : \A x \in Auctions : x # a => auction'[x] = auction[x]
    BY <1>4 DEF InsertAuction, FreshIds, TypeOK
  <2>2. \A q \in Procs : Holds(q) => req[q].auction \in Auctions /\ req[q].auction # a
    BY <2>1, BidTyped DEF LocksHold, BidRequests, FreshIds, Active, NoAuction
  <2>3. req' = [req EXCEPT ![p] = Idle]
    BY <1>4 DEF InsertAuction
  <2>4. QED
    BY <1>1, <2>1, <2>2, <2>3 DEF Idle
<1>5. ASSUME NEW p \in Procs, LockAuction(p)
      PROVE  LocksHold'
  <2>1. CASE Admits(req[p].auction, req[p].guild)
    <3>1. PICK d \in Days : req' = [req EXCEPT ![p].pc = "locked", ![p].day = d]
      BY <1>5, <2>1 DEF LockAuction
    <3>2. req[p] \in BidRequests
      BY <1>5, BidTyped DEF LockAuction
    <3>3. /\ req'[p].pc = "locked" /\ req'[p].auction = req[p].auction
          /\ req'[p].guild = req[p].guild
      BY <3>1, <3>2 DEF BidRequests, TypeOK
    <3>4. \A q \in Procs : q # p => req'[q] = req[q]
      BY <3>1 DEF TypeOK
    <3>5. \A q \in Procs : Holds(q) => req[q].auction # req[p].auction
      BY <1>5 DEF LockAuction, Locked
    <3>6. UNCHANGED auction
      BY <1>5 DEF LockAuction
    <3>7. QED
      BY <2>1, <3>3, <3>4, <3>5, <3>6 DEF LocksHold, Admits, Active
  <2>2. CASE ~Admits(req[p].auction, req[p].guild)
    <3>1. req' = [req EXCEPT ![p] = Idle] /\ UNCHANGED auction
      BY <1>5, <2>2 DEF LockAuction
    <3>2. QED
      BY <1>1, <3>1 DEF Idle
  <2>3. QED
    BY <2>1, <2>2
<1>6. ASSUME NEW p \in Procs, CommitBid(p)
      PROVE  LocksHold'
  <2>1. \A q \in Procs : (q # p /\ Holds(q)) => req[q].auction # req[p].auction
    BY <1>6 DEF CommitBid, LocksHold
  <2>2. \A q \in Procs : Holds(q) => req[q].auction \in Auctions
    BY BidTyped DEF BidRequests
  <2>3. \A x \in Auctions : x # req[p].auction => auction'[x] = auction[x]
    BY <1>6 DEF CommitBid, TypeOK
  <2>4. req' = [req EXCEPT ![p] = Idle]
    BY <1>6 DEF CommitBid
  <2>5. QED
    BY <1>1, <2>1, <2>2, <2>3, <2>4 DEF Idle
<1>7. ASSUME NEW w \in Workers, NEW a \in Auctions, CancelUnsold(w, a) \/ SettleSale(w, a)
      PROVE  LocksHold'
  <2>1. \A q \in Procs : Holds(q) => req[q].auction \in Auctions /\ req[q].auction # a
    BY <1>7, BidTyped DEF CancelUnsold, SettleSale, Locked, BidRequests
  <2>2. \A x \in Auctions : x # a => auction'[x] = auction[x]
    BY <1>7 DEF CancelUnsold, SettleSale, TypeOK
  <2>3. UNCHANGED req
    BY <1>7 DEF CancelUnsold, SettleSale
  <2>4. QED
    BY <2>1, <2>2, <2>3 DEF LocksHold, Active
<1>8. CASE Crash
  BY <1>8 DEF Crash, LocksHold, Idle
<1>9. ASSUME NEW g \in Guilds, NEW n \in DepositAmounts, Deposit(g, n)
      PROVE  UNCHANGED <<req, auction>>
  BY <1>9 DEF Deposit
<1>10. ASSUME NEW w \in Workers, NEW a \in Auctions, SkipClosed(w, a) \/ FinalizeFails(w, a)
       PROVE  UNCHANGED <<req, auction>>
  BY <1>10 DEF SkipClosed, FinalizeFails
<1>11. ASSUME NEW w \in Workers, ListActive(w) \/ ReadClock(w)
       PROVE  UNCHANGED <<req, auction>>
  BY <1>11 DEF ListActive, ReadClock
<1>12. CASE Tick \/ UNCHANGED vars
  BY <1>2, <1>12 DEF Tick, vars
<1>13. QED
  BY <1>2, <1>3, <1>4, <1>5, <1>6, <1>7, <1>8, <1>9, <1>10, <1>11, <1>12
  DEF Next, StartStep, BidStep, WorkerStep, Close

\* The tables keep the shape of the schema, the leader is a guild exactly when
\* there is a highest bid, and the row locks exclude each other.
THEOREM TypedInvariant == Spec => []Typed
<1>1. Init => Typed
  <2> USE GuildAssumption, ItemAssumption, NumberAssumption
  <2>1. Init => TypeOK
    BY DEF Init, TypeOK, Rounds, NoRound
  <2>2. Init => LeaderIffHigh /\ LocksHold
    BY DEF Init, LeaderIffHigh, LocksHold, Idle
  <2>3. QED
    BY <2>1, <2>2 DEF Typed
<1>2. Typed /\ [Next]_vars => Typed'
  BY TypeStep, LeaderStep, LockStep DEF Typed
<1>3. QED
  BY <1>1, <1>2, PTL DEF Spec

\* What the schema promises of every row holds in every reachable state.
THEOREM TypeCorrect == Spec => []TypeOK
BY TypedInvariant, PTL DEF Typed

-----------------------------------------------------------------------------
(* The bid rows follow the standing of the auction.                        *)

\* Every action keeps the one active bid row of an auction with its leader.
LEMMA LeaderHoldsStep ==
    ASSUME Typed, LeaderHoldsBid, [Next]_vars
    PROVE  LeaderHoldsBid'
<1> USE DEF Typed
<1>1. CASE UNCHANGED <<auction, bid>>
  BY <1>1 DEF LeaderHoldsBid
<1>2. ASSUME NEW p \in Procs, InsertAuction(p)
      PROVE  LeaderHoldsBid'
  BY <1>2, GuildAssumption DEF InsertAuction, FreshIds, LeaderHoldsBid, TypeOK, NoAuction
<1>3. ASSUME NEW p \in Procs, CommitBid(p)
      PROVE  LeaderHoldsBid'
  <2> DEFINE b == req[p]
             a == b.auction
  <2>1. b \in BidRequests
    BY <1>3, BidTyped DEF CommitBid
  <2>2. a \in Auctions /\ b.guild \in Guilds /\ b.amount \in Nat \ {0}
    BY <2>1 DEF BidRequests
  <2>3. auction[a] \in AuctionRows /\ auction[a] # NoAuction
    BY <1>3, <2>2, ActiveRow DEF CommitBid, LocksHold, Active, NoAuction
  <2>4. /\ auction'[a].high = b.amount /\ auction'[a].winner = b.guild
        /\ auction'[a] # NoAuction
    BY <1>3, <2>2, <2>3 DEF CommitBid, TypeOK, AuctionRows, NoAuction
  <2>5. \A x \in Auctions : x # a => auction'[x] = auction[x] /\ bid'[x] = bid[x]
    BY <1>3 DEF CommitBid, BidRows, TypeOK
  <2>6. \A g \in Guilds : bid'[a][g] = bid[a][g] + Delta(b, g)
    BY <1>3, <2>2 DEF CommitBid, BidRows, TypeOK
  <2>7. ASSUME NEW g \in Guilds
        PROVE  bid'[a][g] = IF g = b.guild THEN b.amount ELSE 0
    <3>1. bid[a][g] \in Nat /\ bid[a][g] = IF auction[a].winner = g THEN auction[a].high ELSE 0
      BY <2>2, <2>3 DEF LeaderHoldsBid, TypeOK
    <3>2. CASE g = b.guild
      BY <1>3, <2>2, <2>6, <3>2 DEF CommitBid, Storable, Delta
    <3>3. CASE g # b.guild /\ g = auction[a].winner
      <4>1. Delta(b, g) = -bid[a][g]
        BY <3>3, GuildAssumption DEF Delta, Outbid
      <4>2. QED
        BY <2>6, <3>1, <3>3, <4>1
    <3>4. CASE g # b.guild /\ g # auction[a].winner
      BY <2>6, <3>1, <3>4 DEF Delta
    <3>5. QED
      BY <3>2, <3>3, <3>4
  <2>8. QED
    BY <2>4, <2>5, <2>7 DEF LeaderHoldsBid
<1>4. ASSUME NEW w \in Workers, NEW a \in Auctions, CancelUnsold(w, a) \/ SettleSale(w, a)
      PROVE  LeaderHoldsBid'
  <2>1. auction[a] \in AuctionRows /\ auction[a] # NoAuction
    BY <1>4, ActiveRow DEF CancelUnsold, SettleSale, Active, NoAuction
  <2>2. /\ auction'[a].high = auction[a].high /\ auction'[a].winner = auction[a].winner
        /\ auction'[a] # NoAuction
    BY <1>4, <2>1 DEF CancelUnsold, SettleSale, TypeOK, LeaderIffHigh, AuctionRows, NoAuction
  <2>3. \A x \in Auctions : x # a => auction'[x] = auction[x]
    BY <1>4 DEF CancelUnsold, SettleSale, TypeOK
  <2>4. UNCHANGED bid
    BY <1>4 DEF CancelUnsold, SettleSale
  <2>5. QED
    BY <2>1, <2>2, <2>3, <2>4 DEF LeaderHoldsBid
<1>5. QED
  BY <1>1, <1>2, <1>3, <1>4, AuctionSteps

\* At any moment the leader of an auction, and nobody else, has an active bid
\* on it, of the highest amount; what CancelBidTransaction looks for never exists.
THEOREM LeaderAlwaysHoldsBid == Spec => []LeaderHoldsBid
<1>1. Init => LeaderHoldsBid
  BY GuildAssumption DEF Init, LeaderHoldsBid, NoAuction
<1>2. Typed /\ LeaderHoldsBid /\ [Next]_vars => LeaderHoldsBid'
  BY LeaderHoldsStep
<1>3. QED
  BY <1>1, <1>2, TypedInvariant, PTL DEF Spec

\* No action of any request or worker touches a closed auction or its bids: a
\* bid holds the lock of an active auction, and closings wait for that lock.
THEOREM ClosingIsFinal == Spec => ClosedIsFinal
<1>1. ASSUME Typed, [Next]_vars, NEW a \in Auctions,
             auction[a].status \in {"ended", "cancelled"}
      PROVE  auction'[a] = auction[a] /\ bid'[a] = bid[a]
  <2> USE DEF Typed
  <2>1. ~Active(a) /\ a \notin FreshIds
    BY <1>1 DEF Active, FreshIds, NoAuction
  <2>2. CASE UNCHANGED <<auction, bid>>
    BY <2>2
  <2>3. ASSUME NEW p \in Procs, InsertAuction(p)
        PROVE  auction'[a] = auction[a] /\ bid'[a] = bid[a]
    BY <1>1, <2>1, <2>3 DEF InsertAuction, TypeOK
  <2>4. ASSUME NEW p \in Procs, CommitBid(p)
        PROVE  auction'[a] = auction[a] /\ bid'[a] = bid[a]
    <3>1. req[p].auction # a
      BY <1>1, <2>1, <2>4 DEF CommitBid, LocksHold
    <3>2. QED
      BY <1>1, <2>4, <3>1 DEF CommitBid, BidRows, TypeOK
  <2>5. ASSUME NEW w \in Workers, NEW x \in Auctions, CancelUnsold(w, x) \/ SettleSale(w, x)
        PROVE  auction'[a] = auction[a] /\ bid'[a] = bid[a]
    BY <1>1, <2>1, <2>5 DEF CancelUnsold, SettleSale, TypeOK
  <2>6. QED
    BY <1>1, <2>2, <2>3, <2>4, <2>5, AuctionSteps
<1>2. Typed /\ [Next]_vars =>
        [\A a \in Auctions : auction[a].status \in {"ended", "cancelled"} =>
            auction'[a] = auction[a] /\ bid'[a] = bid[a]]_vars
  BY <1>1
<1>3. QED
  BY <1>2, TypedInvariant, PTL DEF Spec, ClosedIsFinal

-----------------------------------------------------------------------------
(* The worker's list.                                                       *)

\* The list a worker goes through may be stale, but never about an auction
\* without bids: only a bid moves a deadline.  And its clock was read once,
\* after the list.
RoundsFresh ==
    \A w \in Workers : \A e \in worker[w].batch :
        /\ auction[e[1]] # NoAuction
        /\ auction[e[1]].high = 0 => auction[e[1]].ends = e[2]
        /\ worker[w].pc = "closing" => now > e[2]

\* What an action leaves of a list that was fresh is fresh, when rows stay rows
\* and a row without bids keeps its deadline.
LEMMA ListStaysFresh ==
    ASSUME Typed, RoundsFresh, now' >= now, now' \in Nat,
           \A a \in Auctions : auction[a] # NoAuction =>
              /\ auction'[a] # NoAuction
              /\ auction'[a].high = 0 => auction[a].high = 0 /\ auction'[a].ends = auction[a].ends,
           NEW w \in Workers, worker'[w].batch \subseteq worker[w].batch,
           worker'[w].batch # {} => worker'[w].pc = worker[w].pc
    PROVE  \A e \in worker'[w].batch :
               /\ auction'[e[1]] # NoAuction
               /\ auction'[e[1]].high = 0 => auction'[e[1]].ends = e[2]
               /\ worker'[w].pc = "closing" => now' > e[2]
<1> SUFFICES ASSUME NEW e \in worker'[w].batch
             PROVE  /\ auction'[e[1]] # NoAuction
                    /\ auction'[e[1]].high = 0 => auction'[e[1]].ends = e[2]
                    /\ worker'[w].pc = "closing" => now' > e[2]
  OBVIOUS
<1>1. e \in worker[w].batch /\ worker'[w].pc = worker[w].pc
  OBVIOUS
<1>2. e[1] \in Auctions /\ e[2] \in Nat
  BY <1>1 DEF Typed, TypeOK, Rounds
<1>3. /\ auction[e[1]] # NoAuction
      /\ auction[e[1]].high = 0 => auction[e[1]].ends = e[2]
      /\ worker[w].pc = "closing" => now > e[2]
  BY <1>1 DEF RoundsFresh
<1>4. now \in Nat
  BY NumberAssumption DEF Typed, TypeOK
<1>5. QED
  BY <1>1, <1>2, <1>3, <1>4

\* Going on to the next auction of the list keeps the rest of it.
LEMMA AdvanceKeeps ==
    ASSUME Typed, NEW v \in Workers, NEW a \in Auctions, Advance(v, a), NEW w \in Workers
    PROVE  /\ worker'[w].batch \subseteq worker[w].batch
           /\ Turn(v, a) => (worker'[w].batch # {} => worker'[w].pc = worker[w].pc)
<1>1. CASE w = v
  <2>1. worker'[w] = Closing({e \in worker[w].batch : e[1] # a})
    BY <1>1 DEF Advance, Typed, TypeOK
  <2>2. QED
    BY <1>1, <2>1 DEF Closing, NoRound, Turn
<1>2. CASE w # v
  BY <1>2 DEF Advance, Typed, TypeOK
<1>3. QED
  BY <1>1, <1>2

\* Rows stay rows, with their start price, and only a bid moves a deadline.
LEMMA DeadlinesStay ==
    ASSUME Typed, [Next]_vars
    PROVE  \A a \in Auctions : auction[a] # NoAuction =>
              /\ auction'[a] # NoAuction /\ auction'[a].start = auction[a].start
              /\ auction'[a].high = 0 => auction[a].high = 0 /\ auction'[a].ends = auction[a].ends
<1> USE DEF Typed
<1> SUFFICES ASSUME NEW a \in Auctions, auction[a] # NoAuction
             PROVE  /\ auction'[a] # NoAuction /\ auction'[a].start = auction[a].start
                    /\ auction'[a].high = 0 => auction[a].high = 0 /\ auction'[a].ends = auction[a].ends
  OBVIOUS
<1> auction[a] \in AuctionRows
  BY DEF TypeOK
<1>1. CASE auction'[a] = auction[a]
  BY <1>1
<1>2. ASSUME NEW p \in Procs, InsertAuction(p)
      PROVE  auction'[a] = auction[a]
  BY <1>2 DEF InsertAuction, FreshIds, TypeOK
<1>3. ASSUME NEW p \in Procs, CommitBid(p), req[p].auction = a
      PROVE  auction'[a].high # 0 /\ auction'[a] # NoAuction /\ auction'[a].start = auction[a].start
  <2>1. req[p].amount # 0
    BY <1>3, BidTyped DEF CommitBid, BidRequests
  <2>2. /\ auction'[a].high = req[p].amount /\ auction'[a].status = auction[a].status
        /\ auction'[a].start = auction[a].start
    BY <1>3 DEF CommitBid, TypeOK, AuctionRows
  <2>3. QED
    BY <2>1, <2>2 DEF AuctionRows, NoAuction
<1>4. ASSUME NEW p \in Procs, CommitBid(p), req[p].auction # a
      PROVE  auction'[a] = auction[a]
  BY <1>4 DEF CommitBid, TypeOK
<1>5. ASSUME NEW w \in Workers, NEW x \in Auctions, CancelUnsold(w, x) \/ SettleSale(w, x)
      PROVE  /\ auction'[a] # NoAuction /\ auction'[a].high = auction[a].high
             /\ auction'[a].ends = auction[a].ends /\ auction'[a].start = auction[a].start
  <2>1. CASE x = a
    BY <1>5, <2>1 DEF CancelUnsold, SettleSale, TypeOK, AuctionRows, NoAuction
  <2>2. CASE x # a
    BY <1>5, <2>2 DEF CancelUnsold, SettleSale, TypeOK
  <2>3. QED
    BY <2>1, <2>2
<1>6. QED
  BY <1>1, <1>2, <1>3, <1>4, <1>5, AuctionSteps

\* Listing and reading the clock make a fresh list; nothing else adds to one.
LEMMA RoundsStep ==
    ASSUME Typed, RoundsFresh, [Next]_vars
    PROVE  RoundsFresh'
<1> USE DEF Typed
<1> SUFFICES ASSUME NEW w \in Workers
             PROVE  \A e \in worker'[w].batch :
                        /\ auction'[e[1]] # NoAuction
                        /\ auction'[e[1]].high = 0 => auction'[e[1]].ends = e[2]
                        /\ worker'[w].pc = "closing" => now' > e[2]
  BY DEF RoundsFresh
<1> DEFINE Keeps == /\ worker'[w].batch \subseteq worker[w].batch
                    /\ worker'[w].batch # {} => worker'[w].pc = worker[w].pc
                    /\ now' >= now /\ now' \in Nat
<1>0. now \in Nat
  BY NumberAssumption DEF TypeOK
<1>1. CASE Keeps
  BY <1>1, DeadlinesStay, ListStaysFresh
<1>2. CASE UNCHANGED <<worker, now>>
  BY <1>0, <1>1, <1>2
<1>3. ASSUME NEW v \in Workers, NEW a \in Auctions, Turn(v, a), Advance(v, a), UNCHANGED now
      PROVE  Keeps
  BY <1>0, <1>3, AdvanceKeeps
<1>4. ASSUME NEW v \in Workers, NEW a \in Auctions, Close(v, a) \/ FinalizeFails(v, a)
      PROVE  Keeps
  BY <1>3, <1>4 DEF Close, CancelUnsold, SettleSale, SkipClosed, FinalizeFails
<1>5. ASSUME NEW v \in Workers, ListActive(v) \/ ReadClock(v), v # w
      PROVE  Keeps
  BY <1>0, <1>5 DEF ListActive, ReadClock, TypeOK
<1>6. ASSUME NEW v \in Workers, v = w, ListActive(v), NEW e \in worker'[w].batch
      PROVE  /\ auction'[e[1]] # NoAuction
             /\ auction'[e[1]].high = 0 => auction'[e[1]].ends = e[2]
             /\ worker'[w].pc # "closing"
  BY <1>6 DEF ListActive, Active, NoAuction, TypeOK
<1>7. ASSUME NEW v \in Workers, v = w, ReadClock(v), NEW e \in worker'[w].batch
      PROVE  /\ auction'[e[1]] # NoAuction
             /\ auction'[e[1]].high = 0 => auction'[e[1]].ends = e[2]
             /\ now' > e[2]
  <2>1. worker'[w] = Closing({x \in worker[w].batch : Expired(x[2], now)})
    BY <1>7 DEF ReadClock, TypeOK
  <2>2. worker'[w].batch = {x \in worker[w].batch : Expired(x[2], now)}
    BY <2>1 DEF Closing, NoRound
  <2>3. QED
    BY <1>7, <2>2 DEF ReadClock, RoundsFresh, Expired
<1>8. CASE Crash
  BY <1>0, <1>1, <1>8 DEF Crash, NoRound
<1>9. CASE Tick
  BY <1>0, <1>1, <1>9 DEF Tick
<1>10. ASSUME NEW p \in Procs, StartStep(p) \/ BidStep(p) \/ Abort(p)
       PROVE  UNCHANGED <<worker, now>>
  BY <1>10 DEF StartStep, BidStep, ReadItem, CountActive, InsertAuction, RefuseInsert,
              ReadForBid, LockAuction, CommitBid, RefuseBid, Abort
<1>11. CASE \E g \in Guilds, n \in DepositAmounts : Deposit(g, n)
  BY <1>2, <1>11 DEF Deposit
<1>12. CASE UNCHANGED vars
  BY <1>2, <1>12 DEF vars
<1> HIDE DEF Keeps
<1>13. CASE \E v \in Workers : WorkerStep(v)
  <2>1. PICK v \in Workers : WorkerStep(v)
    BY <1>13
  <2>2. CASE \E a \in Auctions : Close(v, a) \/ FinalizeFails(v, a)
    BY <1>1, <1>4, <2>2
  <2>3. CASE (ListActive(v) \/ ReadClock(v)) /\ v # w
    BY <1>1, <1>5, <2>3
  <2>4. CASE ListActive(v) /\ v = w
    BY <1>6, <2>4
  <2>5. CASE ReadClock(v) /\ v = w
    BY <1>7, <2>5
  <2>6. QED
    BY <2>1, <2>2, <2>3, <2>4, <2>5 DEF WorkerStep
<1>14. QED
  BY <1>2, <1>8, <1>9, <1>10, <1>11, <1>12, <1>13 DEF Next

\* However stale the worker's list, an auction without bids is cancelled only
\* after its deadline: what FinalizeExpiredAuction does not check again under
\* the lock cannot have changed.
THEOREM UnsoldNeverEarly == Spec => UnsoldClosedOnTime
<1>1. Init => RoundsFresh
  BY DEF Init, RoundsFresh, NoRound
<1>2. Typed /\ RoundsFresh /\ [Next]_vars => RoundsFresh'
  BY RoundsStep
<1>3. ASSUME Typed, RoundsFresh, [Next]_vars, NEW a \in Auctions,
             Active(a), auction'[a].status = "cancelled"
      PROVE  now > auction[a].ends
  <2> USE DEF Typed
  <2>1. auction[a] \in AuctionRows
    BY <1>3, ActiveRow
  <2>2. CASE UNCHANGED <<auction, bid>>
    BY <1>3, <2>2 DEF Active
  <2>3. ASSUME NEW p \in Procs, InsertAuction(p) \/ CommitBid(p)
        PROVE  auction'[a].status = auction[a].status
    <3>1. CASE InsertAuction(p)
      BY <1>3, <3>1 DEF InsertAuction, FreshIds, Active, NoAuction, TypeOK
    <3>2. CASE CommitBid(p)
      BY <1>3, <2>1, <3>2 DEF CommitBid, TypeOK, AuctionRows
    <3>3. QED
      BY <2>3, <3>1, <3>2
  <2>4. ASSUME NEW w \in Workers, NEW x \in Auctions, SettleSale(w, x)
        PROVE  auction'[a].status # "cancelled"
    BY <1>3, <2>1, <2>4 DEF SettleSale, Active, TypeOK, AuctionRows
  <2>5. ASSUME NEW w \in Workers, NEW x \in Auctions, CancelUnsold(w, x)
        PROVE  now > auction[a].ends
    <3>1. x = a
      BY <1>3, <2>5 DEF CancelUnsold, Active, TypeOK
    <3>2. PICK e \in worker[w].batch : e[1] = a
      BY <2>5, <3>1 DEF CancelUnsold, Turn
    <3>3. auction[a].high = 0 /\ worker[w].pc = "closing"
      BY <2>5, <3>1 DEF CancelUnsold, Turn
    <3>4. /\ auction[e[1]].high = 0 => auction[e[1]].ends = e[2]
          /\ worker[w].pc = "closing" => now > e[2]
      BY <1>3, <3>2 DEF RoundsFresh
    <3>5. QED
      BY <3>2, <3>3, <3>4
  <2>6. QED
    BY <1>3, <2>2, <2>3, <2>4, <2>5, AuctionSteps DEF Active
<1>4. Typed /\ RoundsFresh /\ [Next]_vars =>
        [\A a \in Auctions :
            (Active(a) /\ auction'[a].status = "cancelled") => now > auction[a].ends]_vars
  BY <1>3
<1>5. QED
  BY <1>1, <1>2, <1>4, TypedInvariant, PTL DEF Spec, UnsoldClosedOnTime

-----------------------------------------------------------------------------
(* The limit of a seller's auctions.                                        *)

\* The requests of g that have counted and not yet inserted
Inserting(g) == {p \in Procs : req[p].pc = "inserting" /\ req[p].guild = g}

\* Each of them may have counted before the others inserted.
CountedTogether ==
    \A g \in Guilds :
        Cardinality(ActiveOf(g)) + Cardinality(Inserting(g)) < MaxActive + Cardinality(Procs)

\* The sets that are counted are finite.
LEMMA CountsFinite ==
    ASSUME NEW g \in Guilds
    PROVE  /\ IsFiniteSet(ActiveOf(g)) /\ Cardinality(ActiveOf(g)) \in Nat
           /\ IsFiniteSet(Inserting(g)) /\ Cardinality(Inserting(g)) \in Nat
           /\ Cardinality(Inserting(g)) <= Cardinality(Procs)
           /\ Cardinality(Procs) \in Nat
<1>1. ActiveOf(g) \subseteq Auctions /\ Inserting(g) \subseteq Procs
  BY DEF ActiveOf, Inserting
<1>2. QED
  BY <1>1, FS_Subset, FS_CardinalityType, AuctionAssumption, ProcAssumption

\* Whoever counts finds the seller below its limit; whoever inserts was counted.
LEMMA CountStep ==
    ASSUME Typed, CountedTogether, [Next]_vars
    PROVE  CountedTogether'
<1> USE DEF Typed
<1> SUFFICES ASSUME NEW g \in Guilds
             PROVE  Cardinality(ActiveOf(g))' + Cardinality(Inserting(g))'
                      < MaxActive + Cardinality(Procs)
  BY DEF CountedTogether
<1>1. /\ IsFiniteSet(ActiveOf(g)) /\ Cardinality(ActiveOf(g)) \in Nat
      /\ IsFiniteSet(Inserting(g)) /\ Cardinality(Inserting(g)) \in Nat
      /\ Cardinality(Procs) \in Nat /\ MaxActive \in Nat \ {0}
      /\ Cardinality(ActiveOf(g)) + Cardinality(Inserting(g)) < MaxActive + Cardinality(Procs)
  BY CountsFinite, NumberAssumption DEF CountedTogether
<1>2. ASSUME ActiveOf(g)' \subseteq ActiveOf(g), Inserting(g)' \subseteq Inserting(g)
      PROVE  Cardinality(ActiveOf(g))' + Cardinality(Inserting(g))' < MaxActive + Cardinality(Procs)
  <2>1. /\ Cardinality(ActiveOf(g)') <= Cardinality(ActiveOf(g))
        /\ Cardinality(Inserting(g)') <= Cardinality(Inserting(g))
        /\ Cardinality(ActiveOf(g)') \in Nat /\ Cardinality(Inserting(g)') \in Nat
    BY <1>1, <1>2, FS_Subset, FS_CardinalityType
  <2>2. QED
    BY <1>1, <2>1
<1>3. ASSUME UNCHANGED <<req, auction>>
      PROVE  ActiveOf(g)' \subseteq ActiveOf(g) /\ Inserting(g)' \subseteq Inserting(g)
  BY <1>3 DEF ActiveOf, Active, Inserting
<1>4. ASSUME NEW p \in Procs, \/ ReadItem(p) \/ RefuseInsert(p) \/ ReadForBid(p)
                              \/ LockAuction(p) \/ RefuseBid(p) \/ Abort(p)
      PROVE  ActiveOf(g)' \subseteq ActiveOf(g) /\ Inserting(g)' \subseteq Inserting(g)
  <2>1. UNCHANGED auction
    BY <1>4 DEF ReadItem, RefuseInsert, ReadForBid, LockAuction, RefuseBid, Abort
  <2>2. \A q \in Procs : q # p => req'[q] = req[q]
    BY <1>4 DEF ReadItem, RefuseInsert, ReadForBid, LockAuction, RefuseBid, Abort, TypeOK
  <2>3. req'[p].pc # "inserting"
    <3>1. CASE ReadItem(p) \/ RefuseInsert(p) \/ ReadForBid(p) \/ RefuseBid(p) \/ Abort(p)
      BY <3>1 DEF ReadItem, RefuseInsert, ReadForBid, RefuseBid, Abort, TypeOK, Idle
    <3>2. CASE LockAuction(p)
      <4>1. req[p] \in BidRequests
        BY <3>2, BidTyped DEF LockAuction
      <4>2. QED
        BY <3>2, <4>1 DEF LockAuction, BidRequests, TypeOK, Idle
    <3>3. QED
      BY <1>4, <3>1, <3>2
  <2>4. QED
    BY <2>1, <2>2, <2>3 DEF ActiveOf, Active, Inserting
<1>5. ASSUME NEW p \in Procs, CommitBid(p)
      PROVE  ActiveOf(g)' \subseteq ActiveOf(g) /\ Inserting(g)' \subseteq Inserting(g)
  <2>1. req' = [req EXCEPT ![p] = Idle]
    BY <1>5 DEF CommitBid
  <2>2. ASSUME NEW a \in Auctions
        PROVE  auction'[a].status = auction[a].status /\ auction'[a].seller = auction[a].seller
    <3>1. auction[req[p].auction] \in AuctionRows
      BY <1>5, BidTyped, ActiveRow DEF CommitBid, LocksHold, BidRequests
    <3>2. QED
      BY <1>5, <3>1 DEF CommitBid, TypeOK, AuctionRows
  <2>3. QED
    BY <2>1, <2>2 DEF ActiveOf, Active, Inserting, TypeOK, Idle
<1>6. ASSUME NEW w \in Workers, WorkerStep(w)
      PROVE  ActiveOf(g)' \subseteq ActiveOf(g) /\ Inserting(g)' \subseteq Inserting(g)
  <2>1. CASE \E a \in Auctions : CancelUnsold(w, a) \/ SettleSale(w, a)
    <3>1. PICK a \in Auctions : CancelUnsold(w, a) \/ SettleSale(w, a)
      BY <2>1
    <3>2. /\ auction'[a].status # "active" /\ UNCHANGED req
          /\ \A x \in Auctions : x # a => auction'[x] = auction[x]
      BY <3>1, ActiveRow DEF CancelUnsold, SettleSale, TypeOK, AuctionRows
    <3>3. QED
      BY <3>2 DEF ActiveOf, Active, Inserting
  <2>2. CASE UNCHANGED <<req, auction>>
    BY <1>3, <2>2
  <2>3. QED
    BY <1>6, <2>1, <2>2 DEF WorkerStep, Close, ListActive, ReadClock, SkipClosed, FinalizeFails
<1>7. CASE Crash
  BY <1>2, <1>7 DEF Crash, ActiveOf, Active, Inserting, Idle
<1>8. ASSUME NEW p \in Procs, CountActive(p)
      PROVE  Cardinality(ActiveOf(g))' + Cardinality(Inserting(g))' < MaxActive + Cardinality(Procs)
  <2>1. ActiveOf(g)' = ActiveOf(g) /\ req[p].pc # "inserting"
    BY <1>8 DEF CountActive, ActiveOf, Active
  <2>2. CASE MayStartAnother(req[p].guild) /\ req[p].guild = g
    <3>1. Cardinality(ActiveOf(g)) < MaxActive
      BY <2>2 DEF MayStartAnother
    <3>2. Cardinality(Inserting(g))' \in Nat /\ Cardinality(Inserting(g))' <= Cardinality(Procs)
      <4>1. Inserting(g)' \subseteq Procs
        BY DEF Inserting
      <4>2. QED
        BY <4>1, FS_Subset, FS_CardinalityType, ProcAssumption
    <3>3. QED
      BY <1>1, <2>1, <3>1, <3>2
  <2>3. CASE MayStartAnother(req[p].guild) /\ req[p].guild # g
    <3>1. Inserting(g)' = Inserting(g)
      <4>1. /\ req'[p].pc = "inserting" /\ req'[p].guild = req[p].guild
            /\ \A q \in Procs : q # p => req'[q] = req[q]
        BY <1>8, <2>3 DEF CountActive, TypeOK
      <4>2. QED
        BY <2>1, <2>3, <4>1 DEF Inserting
    <3>2. QED
      BY <1>2, <2>1, <3>1
  <2>4. CASE ~MayStartAnother(req[p].guild)
    <3>1. Inserting(g)' = Inserting(g)
      <4>1. /\ req'[p] = Idle
            /\ \A q \in Procs : q # p => req'[q] = req[q]
        BY <1>8, <2>4 DEF CountActive, TypeOK
      <4>2. QED
        BY <2>1, <4>1 DEF Inserting, Idle
    <3>2. QED
      BY <1>2, <2>1, <3>1
  <2>5. QED
    BY <2>2, <2>3, <2>4
<1>9. ASSUME NEW p \in Procs, InsertAuction(p)
      PROVE  Cardinality(ActiveOf(g))' + Cardinality(Inserting(g))' < MaxActive + Cardinality(Procs)
  <2>1. PICK a \in FreshIds : auction' = [auction EXCEPT ![a] =
           [status |-> "active", item |-> req[p].item, seller |-> req[p].guild,
            start |-> req[p].price, high |-> 0, winner |-> NoGuild, ends |-> req[p].ends]]
    BY <1>9 DEF InsertAuction
  <2>2. req[p].pc = "inserting" /\ req' = [req EXCEPT ![p] = Idle]
    BY <1>9 DEF InsertAuction
  <2>3. Inserting(g)' = Inserting(g) \ {p}
    BY <2>2 DEF Inserting, TypeOK, Idle
  <2>4. CASE req[p].guild = g
    <3>1. ActiveOf(g)' = ActiveOf(g) \cup {a} /\ a \notin ActiveOf(g)
      BY <2>1, <2>4 DEF FreshIds, NoAuction, ActiveOf, Active, TypeOK
    <3>2. p \in Inserting(g)
      BY <2>2, <2>4 DEF Inserting
    <3>3. Cardinality(ActiveOf(g)') = Cardinality(ActiveOf(g)) + 1
      BY <1>1, <3>1, FS_AddElement
    <3>4. Cardinality(Inserting(g)') = Cardinality(Inserting(g)) - 1
      BY <1>1, <2>3, <3>2, FS_RemoveElement
    <3>5. QED
      BY <1>1, <3>3, <3>4
  <2>5. CASE req[p].guild # g
    <3>1. ActiveOf(g)' = ActiveOf(g)
      BY <2>1, <2>5 DEF FreshIds, NoAuction, ActiveOf, Active, TypeOK
    <3>2. QED
      BY <1>2, <2>3, <3>1
  <2>6. QED
    BY <2>4, <2>5
<1>10. ASSUME \/ \E h \in Guilds, n \in DepositAmounts : Deposit(h, n)
              \/ Tick \/ UNCHANGED vars
       PROVE  UNCHANGED <<req, auction>>
  BY <1>10 DEF Deposit, Tick, vars
<1>11. QED
  BY <1>2, <1>3, <1>4, <1>5, <1>6, <1>7, <1>8, <1>9, <1>10 DEF Next, StartStep, BidStep

\* The unlocked count is overrun by no more than the requests that can have
\* counted together, however many auctions, sellers and closings there are.
THEOREM OverrunAlwaysBounded == Spec => []OverrunBounded
<1>1. Init => CountedTogether
  <2> SUFFICES ASSUME Init, NEW g \in Guilds
               PROVE  Cardinality(ActiveOf(g)) + Cardinality(Inserting(g))
                        < MaxActive + Cardinality(Procs)
    BY DEF CountedTogether
  <2>1. ActiveOf(g) = {} /\ Inserting(g) = {}
    BY DEF Init, ActiveOf, Active, NoAuction, Inserting, Idle
  <2>2. QED
    BY <2>1, FS_EmptySet, FS_CardinalityType, ProcAssumption, NumberAssumption
<1>2. Typed /\ CountedTogether /\ [Next]_vars => CountedTogether'
  BY CountStep
<1>3. CountedTogether => OverrunBounded
  BY CountsFinite, NumberAssumption DEF CountedTogether, OverrunBounded
<1>4. QED
  BY <1>1, <1>2, <1>3, TypedInvariant, PTL DEF Spec

-----------------------------------------------------------------------------
(* What a bid decided before the lock.                                      *)

\* A bid has read a row that may have changed, but as long as the auction has no
\* bid nothing of it has.
ReadsFresh ==
    \A p \in Procs : req[p].pc \in {"locking", "locked"} =>
        /\ auction[req[p].auction] # NoAuction
        /\ auction[req[p].auction].high = 0 =>
             /\ req[p].amount >= auction[req[p].auction].start
             /\ req[p].ends >= auction[req[p].auction].ends

\* A bid on its way keeps its auction, amount and deadline.
LEMMA BidsOnTheirWay ==
    ASSUME Typed, [Next]_vars, NEW p \in Procs, req'[p].pc \in {"locking", "locked"}
    PROVE  \/ ReadForBid(p)
           \/ /\ req[p].pc \in {"locking", "locked"}
              /\ req'[p].auction = req[p].auction /\ req'[p].amount = req[p].amount
              /\ req'[p].ends = req[p].ends
<1> USE DEF Typed
<1>1. CASE req'[p] = req[p]
  BY <1>1
<1>2. ASSUME NEW q \in Procs, StartStep(q)
      PROVE  req'[p] = req[p]
  BY <1>2 DEF StartStep, ReadItem, CountActive, InsertAuction, RefuseInsert, TypeOK, Idle
<1>3. ASSUME NEW q \in Procs, ReadForBid(q)
      PROVE  ReadForBid(p) \/ req'[p] = req[p]
  BY <1>3 DEF ReadForBid, TypeOK
<1>4. ASSUME NEW q \in Procs, LockAuction(q)
      PROVE  \/ req'[p] = req[p]
             \/ /\ req[p].pc = "locking"
                /\ req'[p].auction = req[p].auction /\ req'[p].amount = req[p].amount
                /\ req'[p].ends = req[p].ends
  <2>1. req[q] \in BidRequests
    BY <1>4, BidTyped DEF LockAuction
  <2>2. QED
    BY <1>4, <2>1 DEF LockAuction, TypeOK, Idle, BidRequests
<1>5. ASSUME NEW q \in Procs, CommitBid(q) \/ RefuseBid(q) \/ Abort(q)
      PROVE  req'[p] = req[p]
  BY <1>5 DEF CommitBid, RefuseBid, Abort, TypeOK, Idle
<1>6. CASE Crash
  BY <1>6 DEF Crash, Idle
<1>7. ASSUME NEW w \in Workers, WorkerStep(w)
      PROVE  req'[p] = req[p]
  BY <1>7 DEF WorkerStep, ListActive, ReadClock, Close, CancelUnsold, SettleSale, SkipClosed,
              FinalizeFails
<1>8. ASSUME \/ \E g \in Guilds, n \in DepositAmounts : Deposit(g, n)
             \/ Tick \/ UNCHANGED vars
      PROVE  req'[p] = req[p]
  BY <1>8 DEF Deposit, Tick, vars
<1>9. QED
  BY <1>1, <1>2, <1>3, <1>4, <1>5, <1>6, <1>7, <1>8 DEF Next, BidStep

LEMMA ReadsStep ==
    ASSUME Typed, ReadsFresh, [Next]_vars
    PROVE  ReadsFresh'
<1> SUFFICES ASSUME NEW p \in Procs, req'[p].pc \in {"locking", "locked"}
             PROVE  /\ auction'[req'[p].auction] # NoAuction
                    /\ auction'[req'[p].auction].high = 0 =>
                         /\ req'[p].amount >= auction'[req'[p].auction].start
                         /\ req'[p].ends >= auction'[req'[p].auction].ends
  BY DEF ReadsFresh
<1>1. CASE ReadForBid(p)
  <2>1. PICK g \in Guilds, a \in Auctions \ FreshIds, n \in BidAmounts :
          /\ n >= MinBid(a)
          /\ req' = [req EXCEPT ![p] =
               [pc |-> "locking", guild |-> g, auction |-> a, amount |-> n,
                ends |-> Extended(auction[a].ends), day |-> Today]]
    BY <1>1 DEF ReadForBid
  <2>2. /\ req'[p].auction = a /\ req'[p].amount = n
        /\ req'[p].ends = Extended(auction[a].ends)
    BY <2>1 DEF Typed, TypeOK
  <2>3. auction'[a] = auction[a] /\ auction[a] # NoAuction
    BY <1>1 DEF ReadForBid, FreshIds
  <2>4. auction[a].ends \in Nat /\ now \in Nat /\ Window \in Nat
    BY <2>3, NumberAssumption DEF Typed, TypeOK, AuctionRows
  <2>5. Extended(auction[a].ends) >= auction[a].ends
    BY <2>4 DEF Extended
  <2>6. auction[a].high = 0 => n >= auction[a].start
    BY <2>1 DEF MinBid
  <2>7. QED
    BY <2>2, <2>3, <2>5, <2>6
<1>2. CASE /\ req[p].pc \in {"locking", "locked"}
           /\ req'[p].auction = req[p].auction /\ req'[p].amount = req[p].amount
           /\ req'[p].ends = req[p].ends
  <2>1. req[p].auction \in Auctions
    BY <1>2, BidTyped DEF Typed, BidRequests
  <2>2. QED
    BY <1>2, <2>1, DeadlinesStay DEF ReadsFresh
<1>3. QED
  BY <1>1, <1>2, BidsOnTheirWay

\* On PostgreSQL a bid commits only on an auction that has none: handing its
\* quota back to a leader would propose a negative row.
LEMMA OnlyFirstBidsCommit ==
    ASSUME Typed, LeaderHoldsBid, ChecksProposedRow, NEW p \in Procs, CommitBid(p)
    PROVE  auction[req[p].auction].high = 0
<1> DEFINE b == req[p]
           a == b.auction
<1>1. b.pc = "locked" /\ Storable(b)
  BY DEF CommitBid
<1>2. a \in Auctions /\ auction[a] \in AuctionRows /\ auction[a] # NoAuction
  BY <1>1, BidTyped, ActiveRow DEF Typed, LocksHold, BidRequests, Active, NoAuction
<1>3. Outbid(a) \in Nat
  BY <1>1, ReleaseTyped
<1>4. Outbid(a) = 0
  BY <1>1, <1>3 DEF Storable, UpsertRefused
<1>5. CASE auction[a].winner = NoGuild
  BY <1>2, <1>5 DEF Typed, LeaderIffHigh
<1>6. CASE auction[a].winner # NoGuild
  <2>1. auction[a].winner \in Guilds
    BY <1>2, <1>6 DEF AuctionRows
  <2>2. Outbid(a) = auction[a].high
    BY <1>2, <1>6, <2>1 DEF Outbid, LeaderHoldsBid
  <2>3. QED
    BY <1>4, <2>2
<1>7. QED
  BY <1>5, <1>6

LEMMA ReadsInductive == Spec => []ReadsFresh
<1>1. Init => ReadsFresh
  BY DEF Init, ReadsFresh, Idle
<1>2. Typed /\ ReadsFresh /\ [Next]_vars => ReadsFresh'
  BY ReadsStep
<1>3. QED
  BY <1>1, <1>2, TypedInvariant, PTL DEF Spec

\* With the quota constraint as PostgreSQL judges it, no bid commits below the
\* minimum, although PlaceBidTransaction does not ask for it again under the lock.
THEOREM IncrementOwedToQuota ==
    ASSUME ChecksProposedRow
    PROVE  Spec => IncrementRespected
<1>1. ASSUME Typed, LeaderHoldsBid, ReadsFresh, [Next]_vars, NEW a \in Auctions,
             Active(a), bid'[a] # bid[a]
      PROVE  auction'[a].high >= MinBid(a)
  <2>1. PICK p \in Procs : CommitBid(p)
    BY <1>1, AuctionSteps DEF InsertAuction, CancelUnsold, SettleSale
  <2>2. req[p].auction = a
    BY <1>1, <2>1 DEF CommitBid, BidRows, Typed, TypeOK
  <2>3. auction[a].high = 0 /\ req[p].pc = "locked"
    BY <1>1, <2>1, <2>2, OnlyFirstBidsCommit DEF CommitBid
  <2>4. req[p].amount >= MinBid(a)
    BY <1>1, <2>2, <2>3 DEF ReadsFresh, MinBid
  <2>5. auction[a] \in AuctionRows
    BY <1>1, ActiveRow DEF Typed
  <2>6. auction'[a].high = req[p].amount
    BY <1>1, <2>1, <2>2, <2>5 DEF CommitBid, Typed, TypeOK, AuctionRows
  <2>7. QED
    BY <2>4, <2>6
<1>2. Typed /\ LeaderHoldsBid /\ ReadsFresh /\ [Next]_vars =>
        [\A a \in Auctions : (Active(a) /\ bid'[a] # bid[a]) =>
            auction'[a].high >= MinBid(a)]_vars
  BY <1>1
<1>3. QED
  BY <1>2, TypedInvariant, LeaderAlwaysHoldsBid, ReadsInductive, PTL
     DEF Spec, IncrementRespected

\* Under the same constraint a deadline never moves back, although a bid writes
\* the one it computed before the lock.
THEOREM DeadlineOwedToQuota ==
    ASSUME ChecksProposedRow
    PROVE  Spec => DeadlineNeverMovesBack
<1>1. ASSUME Typed, LeaderHoldsBid, ReadsFresh, [Next]_vars, NEW a \in Auctions,
             Active(a), auction'[a].status = "active"
      PROVE  auction'[a].ends >= auction[a].ends
  <2>1. auction[a] \in AuctionRows /\ auction[a].ends \in Nat
    BY <1>1, ActiveRow DEF Typed, AuctionRows
  <2>2. CASE auction'[a] = auction[a]
    BY <2>1, <2>2
  <2>3. ASSUME NEW p \in Procs, InsertAuction(p)
        PROVE  auction'[a] = auction[a]
    BY <1>1, <2>3 DEF InsertAuction, FreshIds, Active, NoAuction, Typed, TypeOK
  <2>4. ASSUME NEW w \in Workers, NEW x \in Auctions, CancelUnsold(w, x) \/ SettleSale(w, x)
        PROVE  auction'[a] = auction[a]
    BY <1>1, <2>1, <2>4 DEF CancelUnsold, SettleSale, Typed, TypeOK, AuctionRows
  <2>5. ASSUME NEW p \in Procs, CommitBid(p), req[p].auction # a
        PROVE  auction'[a] = auction[a]
    BY <1>1, <2>5 DEF CommitBid, Typed, TypeOK
  <2>6. ASSUME NEW p \in Procs, CommitBid(p), req[p].auction = a
        PROVE  auction'[a].ends >= auction[a].ends
    <3>1. auction[a].high = 0 /\ req[p].pc = "locked"
      BY <1>1, <2>6, OnlyFirstBidsCommit DEF CommitBid
    <3>2. req[p].ends >= auction[a].ends
      BY <1>1, <2>6, <3>1 DEF ReadsFresh
    <3>3. auction'[a].ends = req[p].ends
      BY <1>1, <2>1, <2>6 DEF CommitBid, Typed, TypeOK, AuctionRows
    <3>4. QED
      BY <3>2, <3>3
  <2>7. QED
    BY <1>1, <2>2, <2>3, <2>4, <2>5, <2>6, AuctionSteps
<1>2. Typed /\ LeaderHoldsBid /\ ReadsFresh /\ [Next]_vars =>
        [\A a \in Auctions :
            (Active(a) /\ auction'[a].status = "active") => auction'[a].ends >= auction[a].ends]_vars
  BY <1>1
<1>3. QED
  BY <1>2, TypedInvariant, LeaderAlwaysHoldsBid, ReadsInductive, PTL
     DEF Spec, DeadlineNeverMovesBack

-----------------------------------------------------------------------------
(* Lemmas: how each action moves the sums.                                 *)

\* A guild's reservations are a natural number.
LEMMA ReservedNat ==
    ASSUME TypeOK, NEW g \in Guilds
    PROVE  Reserved(g) \in Nat
<1>1. [a \in Auctions |-> bid[a][g]] \in [Auctions -> Nat]
  BY DEF TypeOK
<1>2. QED
  BY <1>1, SumNat, AuctionAssumption DEF Reserved

\* A quota is kept for finitely many days.
LEMMA DaysFinite == IsFiniteSet(Days)
<1> DEFINE f == [t \in 0..MaxTime |-> t \div DayLength]
<1>1. f \in Surjection(0..MaxTime, Days)
  <2>1. f \in [0..MaxTime -> Days]
    BY DEF Days
  <2>2. \A d \in Days : \E t \in 0..MaxTime : f[t] = d
    BY DEF Days
  <2>3. QED
    BY <2>1, <2>2 DEF Surjection
<1>2. IsFiniteSet(0..MaxTime)
  BY FS_Interval, NumberAssumption
<1>3. QED
  BY <1>1, <1>2, FS_Surjection

\* A bid moves each guild's reservations, quota and ledger by its Delta.
LEMMA CommitMoves ==
    ASSUME Typed, NEW p \in Procs, CommitBid(p), NEW g \in Guilds
    PROVE  /\ Delta(req[p], g) \in Int
           /\ Reserved(g)' = Reserved(g) + Delta(req[p], g)
           /\ SumFunctionOnSet(spent'[g], Days) = SumFunctionOnSet(spent[g], Days) + Delta(req[p], g)
           /\ ledger'[g] = ledger[g] - Delta(req[p], g)
<1> DEFINE b == req[p]
<1>1. b.pc = "locked" /\ Storable(b)
  BY DEF CommitBid
<1>2. b \in BidRequests
  BY <1>1, BidTyped DEF Typed
<1>3. b.auction \in Auctions /\ b.day \in Days
  BY <1>2 DEF BidRequests
<1>4. /\ Delta(b, g) \in Int
      /\ bid[b.auction][g] + Delta(b, g) \in Nat
      /\ spent[g][b.day] + Delta(b, g) \in Nat
  BY <1>1, ReleaseTyped
<1> HIDE DEF b
<1>5. Reserved(g)' = Reserved(g) + Delta(b, g)
  <2> DEFINE f == [a \in Auctions |-> bid[a][g]]
             k == [a \in Auctions |-> bid'[a][g]]
  <2>1. f \in [Auctions -> Int]
    BY DEF Typed, TypeOK
  <2>2. k[b.auction] = f[b.auction] + Delta(b, g)
    BY <1>3 DEF CommitBid, BidRows, Typed, TypeOK, b
  <2>3. \A a \in Auctions : a # b.auction => k[a] = f[a]
    BY <1>3 DEF CommitBid, BidRows, Typed, TypeOK, b
  <2>4. f[b.auction] \in Int /\ k[b.auction] \in Int
    BY <1>3, <1>4, <2>1, <2>2
  <2>5. k \in [Auctions -> Int]
    BY <2>1, <2>3, <2>4
  <2>6. Reserved(g) = SumFunctionOnSet(f, Auctions) /\ Reserved(g)' = SumFunctionOnSet(k, Auctions)
    BY DEF Reserved
  <2> HIDE DEF f, k
  <2>7. SumFunctionOnSet(f, Auctions) \in Int
    BY <2>1, SumType, AuctionAssumption
  <2>8. SumFunctionOnSet(k, Auctions) = SumFunctionOnSet(f, Auctions) + k[b.auction] - f[b.auction]
    BY <1>3, <2>1, <2>3, <2>5, SumUpdate, AuctionAssumption
  <2>9. QED
    BY <1>4, <2>2, <2>4, <2>6, <2>7, <2>8
<1>6. SumFunctionOnSet(spent'[g], Days) = SumFunctionOnSet(spent[g], Days) + Delta(b, g)
  <2> DEFINE f == spent[g]
             k == spent'[g]
  <2>1. f \in [Days -> Int]
    BY DEF Typed, TypeOK
  <2>2. k = [f EXCEPT ![b.day] = @ + Delta(b, g)]
    BY DEF CommitBid, SpentRows, b
  <2>3. /\ f[b.day] \in Int /\ k[b.day] = f[b.day] + Delta(b, g)
        /\ \A d \in Days : d # b.day => k[d] = f[d]
    BY <1>3, <2>1, <2>2
  <2>4. k \in [Days -> Int]
    <3>1. f[b.day] + Delta(b, g) \in Int
      BY <1>4, <2>3
    <3>2. QED
      BY <2>1, <2>2, <3>1
  <2> HIDE DEF f, k
  <2>5. SumFunctionOnSet(f, Days) \in Int
    BY <2>1, SumType, DaysFinite
  <2>6. SumFunctionOnSet(k, Days) = SumFunctionOnSet(f, Days) + k[b.day] - f[b.day]
    BY <1>3, <2>1, <2>3, <2>4, SumUpdate, DaysFinite
  <2>7. QED
    BY <1>4, <2>3, <2>5, <2>6 DEF f, k
<1>7. ledger'[g] = ledger[g] - Delta(b, g)
  BY DEF CommitBid, LedgerSums, b
<1>8. QED
  BY <1>4, <1>5, <1>6, <1>7 DEF b

\* Only a settlement moves the proceeds of a guild, by the highest bid of the
\* auction, if it is the seller.
LEMMA SettlementMoves ==
    ASSUME Typed, NEW w \in Workers, NEW a \in Auctions, SettleSale(w, a), NEW g \in Guilds
    PROVE  /\ Proceeds(g) \in Int /\ auction[a].high \in Nat /\ auction[a].seller \in Guilds
           /\ Proceeds(g)' = Proceeds(g) + (IF g = auction[a].seller THEN auction[a].high ELSE 0)
<1> DEFINE f == [x \in Auctions |-> Sale(x, g)]
           k == [x \in Auctions |-> Sale(x, g)']
<1>1. auction[a] \in AuctionRows
  BY ActiveRow DEF SettleSale, Typed
<1>2. auction[a].high \in Nat /\ auction[a].seller \in Guilds
  BY <1>1 DEF AuctionRows
<1>3. auction' = [auction EXCEPT ![a] = [auction[a] EXCEPT !.status = "ended"]]
  BY DEF SettleSale
<1>4. /\ auction'[a].status = "ended" /\ auction'[a].seller = auction[a].seller
      /\ auction'[a].high = auction[a].high
  BY <1>1, <1>3 DEF Typed, TypeOK, AuctionRows
<1>5. \A x \in Auctions : x # a => auction'[x] = auction[x]
  BY <1>3 DEF Typed, TypeOK
<1>6. \A x \in Auctions : x # a => Sale(x, g)' = Sale(x, g)
  BY <1>5 DEF Sale
<1>7. /\ Sale(a, g) = 0
      /\ Sale(a, g)' = IF g = auction[a].seller THEN auction[a].high ELSE 0
  BY <1>4 DEF Sale, SettleSale, Active
<1>8. \A x \in Auctions : Sale(x, g) \in Int
  BY DEF Sale, Typed, TypeOK, AuctionRows, NoAuction
<1>9. f \in [Auctions -> Int] /\ k \in [Auctions -> Int]
  BY <1>2, <1>6, <1>7, <1>8
<1>10. /\ f[a] = 0 /\ k[a] = IF g = auction[a].seller THEN auction[a].high ELSE 0
       /\ \A x \in Auctions : x # a => k[x] = f[x]
  BY <1>6, <1>7
<1>11. Proceeds(g) = SumFunctionOnSet(f, Auctions) /\ Proceeds(g)' = SumFunctionOnSet(k, Auctions)
  BY DEF Proceeds
<1> HIDE DEF f, k
<1>12. SumFunctionOnSet(f, Auctions) \in Int
  BY <1>9, SumType, AuctionAssumption
<1>13. SumFunctionOnSet(k, Auctions) = SumFunctionOnSet(f, Auctions) + k[a] - f[a]
  BY <1>9, <1>10, SumUpdate, AuctionAssumption
<1>14. QED
  BY <1>2, <1>10, <1>11, <1>12, <1>13

\* Every other action leaves every sale as it is.
LEMMA ProceedsStay ==
    ASSUME Typed, NEW g \in Guilds,
           \/ UNCHANGED auction
           \/ \E p \in Procs : InsertAuction(p) \/ CommitBid(p)
           \/ \E w \in Workers, a \in Auctions : CancelUnsold(w, a)
    PROVE  Proceeds(g)' = Proceeds(g)
<1> USE DEF Typed
<1>1. ASSUME NEW x \in Auctions
      PROVE  Sale(x, g)' = Sale(x, g)
  <2>1. CASE UNCHANGED auction
    BY <2>1 DEF Sale
  <2>2. ASSUME NEW p \in Procs, InsertAuction(p)
        PROVE  Sale(x, g)' = Sale(x, g)
    <3>1. PICK a \in FreshIds : auction' = [auction EXCEPT ![a] =
             [status |-> "active", item |-> req[p].item, seller |-> req[p].guild,
              start |-> req[p].price, high |-> 0, winner |-> NoGuild, ends |-> req[p].ends]]
      BY <2>2 DEF InsertAuction
    <3>2. CASE x = a
      BY <3>1, <3>2 DEF Sale, FreshIds, NoAuction, TypeOK
    <3>3. CASE x # a
      BY <3>1, <3>3 DEF Sale, TypeOK
    <3>4. QED
      BY <3>2, <3>3
  <2>3. ASSUME NEW p \in Procs, CommitBid(p)
        PROVE  Sale(x, g)' = Sale(x, g)
    <3>1. Active(req[p].auction)
      BY <2>3 DEF CommitBid, LocksHold
    <3>2. CASE x = req[p].auction
      <4>1. auction'[x].status = auction[x].status
        BY <2>3, <3>1, <3>2, ActiveRow DEF CommitBid, TypeOK, AuctionRows
      <4>2. QED
        BY <3>1, <3>2, <4>1 DEF Sale, Active
    <3>3. CASE x # req[p].auction
      BY <2>3, <3>3 DEF CommitBid, Sale, TypeOK
    <3>4. QED
      BY <3>2, <3>3
  <2>4. ASSUME NEW w \in Workers, NEW a \in Auctions, CancelUnsold(w, a)
        PROVE  Sale(x, g)' = Sale(x, g)
    <3>1. CASE x = a
      <4>1. auction'[x].status = "cancelled"
        BY <2>4, <3>1, ActiveRow DEF CancelUnsold, TypeOK, AuctionRows
      <4>2. QED
        BY <2>4, <3>1, <4>1 DEF Sale, CancelUnsold, Active
    <3>2. CASE x # a
      BY <2>4, <3>2 DEF CancelUnsold, Sale, TypeOK
    <3>3. QED
      BY <3>1, <3>2
  <2>5. QED
    BY <2>1, <2>2, <2>3, <2>4
<1>2. [x \in Auctions |-> Sale(x, g)'] = [x \in Auctions |-> Sale(x, g)]
  BY <1>1
<1>3. QED
  BY <1>2 DEF Proceeds

\* The sales of a guild are worth an integer.
LEMMA ProceedsInt ==
    ASSUME TypeOK, NEW g \in Guilds
    PROVE  Proceeds(g) \in Int
<1>1. \A x \in Auctions : Sale(x, g) \in Int
  BY DEF Sale, TypeOK, AuctionRows, NoAuction
<1>2. [x \in Auctions |-> Sale(x, g)] \in [Auctions -> Int]
  BY <1>1
<1>3. QED
  BY <1>2, SumType, AuctionAssumption DEF Proceeds

\* The actions that move gold, and no others
LEMMA MoneySteps ==
    ASSUME [Next]_vars
    PROVE  \/ UNCHANGED <<gold, ledger, spent, bid>>
              /\ \/ UNCHANGED auction
                 \/ \E p \in Procs : InsertAuction(p)
                 \/ \E w \in Workers, a \in Auctions : CancelUnsold(w, a)
           \/ \E g \in Guilds, n \in DepositAmounts : Deposit(g, n)
           \/ \E p \in Procs : CommitBid(p)
           \/ \E w \in Workers, a \in Auctions : SettleSale(w, a)
<1>1. CASE UNCHANGED vars
  BY <1>1 DEF vars
<1>2. CASE \E p \in Procs : StartStep(p) \/ BidStep(p) \/ Abort(p)
  BY <1>2 DEF StartStep, BidStep, ReadItem, CountActive, InsertAuction, RefuseInsert,
              ReadForBid, LockAuction, RefuseBid, Abort, money
<1>3. CASE \E w \in Workers : WorkerStep(w)
  BY <1>3 DEF WorkerStep, ListActive, ReadClock, Close, CancelUnsold, SkipClosed,
              FinalizeFails, money
<1>4. CASE Crash \/ Tick
  BY <1>4 DEF Crash, Tick, money
<1>5. QED
  BY <1>1, <1>2, <1>3, <1>4 DEF Next

-----------------------------------------------------------------------------
(* The invariants.                                                         *)

\* In the first state nothing is reserved, spent or sold.
LEMMA MoneyInit ==
    ASSUME Init, NEW g \in Guilds
    PROVE  Reserved(g) = 0 /\ Proceeds(g) = 0 /\ SumFunctionOnSet(spent[g], Days) = 0
<1>1. [a \in Auctions |-> bid[a][g]] \in [Auctions -> Int] /\ \A a \in Auctions : bid[a][g] = 0
  BY DEF Init
<1>2. Reserved(g) = 0
  BY <1>1, SumZero, AuctionAssumption DEF Reserved
<1>3. \A a \in Auctions : Sale(a, g) = 0
  BY DEF Init, Sale, NoAuction
<1>4. Proceeds(g) = 0
  <2> DEFINE f == [a \in Auctions |-> Sale(a, g)]
  <2>1. f \in [Auctions -> Int] /\ \A a \in Auctions : f[a] = 0
    BY <1>3
  <2> HIDE DEF f
  <2>2. SumFunctionOnSet(f, Auctions) = 0
    BY <2>1, SumZero, AuctionAssumption
  <2>3. QED
    BY <2>2 DEF Proceeds, f
<1>5. SumFunctionOnSet(spent[g], Days) = 0
  <2>1. spent[g] \in [Days -> Int] /\ \A d \in Days : spent[g][d] = 0
    BY DEF Init
  <2>2. QED
    BY <2>1, SumZero, DaysFinite
<1>6. QED
  BY <1>2, <1>4, <1>5

\* A commit checks the wallet of the bidder and only frees gold of the leader;
\* deposits and settlements only add gold.
LEMMA SolventStep ==
    ASSUME Typed, Solvent, [Next]_vars
    PROVE  Solvent'
<1> SUFFICES ASSUME NEW g \in Guilds
             PROVE  (Reserved(g) <= gold[g])'
  BY DEF Solvent
<1>1. Reserved(g) \in Nat /\ gold[g] \in Nat /\ Reserved(g) <= gold[g]
  BY ReservedNat DEF Solvent, Typed, TypeOK
<1>2. CASE UNCHANGED <<gold, bid>>
  BY <1>1, <1>2 DEF Reserved
<1>3. ASSUME NEW h \in Guilds, NEW n \in DepositAmounts, Deposit(h, n)
      PROVE  (Reserved(g) <= gold[g])'
  <2>1. Reserved(g)' = Reserved(g)
    BY <1>3 DEF Deposit, Reserved
  <2>2. gold'[g] \in Nat /\ gold'[g] >= gold[g]
    BY <1>1, <1>3, InputAssumption DEF Deposit, Typed, TypeOK
  <2>3. QED
    BY <1>1, <2>1, <2>2
<1>4. ASSUME NEW p \in Procs, CommitBid(p)
      PROVE  (Reserved(g) <= gold[g])'
  <2>1. Reserved(g)' = Reserved(g) + Delta(req[p], g) /\ gold' = gold
    BY <1>4, CommitMoves DEF CommitBid
  <2>2. req[p] \in BidRequests
    BY <1>4, BidTyped DEF CommitBid, Typed
  <2>3. CASE g = req[p].guild
    <3>1. Delta(req[p], g) = req[p].amount /\ gold[g] - Reserved(g) >= req[p].amount
      BY <1>4, <2>3 DEF CommitBid, Affordable, Available, Delta
    <3>2. req[p].amount \in Nat
      BY <2>2 DEF BidRequests
    <3>3. QED
      BY <1>1, <2>1, <3>1, <3>2
  <2>4. CASE g # req[p].guild
    <3>1. Outbid(req[p].auction) \in Nat
      BY <1>4, ReleaseTyped DEF CommitBid
    <3>2. Delta(req[p], g) <= 0 /\ Delta(req[p], g) \in Int
      BY <2>4, <3>1 DEF Delta
    <3>3. QED
      BY <1>1, <2>1, <3>2
  <2>5. QED
    BY <2>3, <2>4
<1>5. ASSUME NEW w \in Workers, NEW a \in Auctions, SettleSale(w, a)
      PROVE  (Reserved(g) <= gold[g])'
  <2>1. Reserved(g)' = Reserved(g)
    BY <1>5 DEF SettleSale, Reserved
  <2>2. auction[a].high \in Nat
    BY <1>5, SettlementMoves
  <2>3. gold'[g] \in Nat /\ gold'[g] >= gold[g]
    BY <1>1, <1>5, <2>2 DEF SettleSale, Typed, TypeOK
  <2>4. QED
    BY <1>1, <2>1, <2>3
<1>6. QED
  BY <1>2, <1>3, <1>4, <1>5, MoneySteps

\* Whatever a request or the worker does to a guild's gold, reservations or sales,
\* the audit trail and the proceeds of its sales account for it.
LEMMA LedgerStep ==
    ASSUME Typed, OnlyProceedsUnlogged, [Next]_vars
    PROVE  OnlyProceedsUnlogged'
<1> SUFFICES ASSUME NEW g \in Guilds
             PROVE  (gold[g] - Reserved(g) = ledger[g] + Proceeds(g))'
  BY DEF OnlyProceedsUnlogged
<1>1. /\ Reserved(g) \in Nat /\ gold[g] \in Nat /\ ledger[g] \in Int /\ Proceeds(g) \in Int
      /\ gold[g] - Reserved(g) = ledger[g] + Proceeds(g)
  BY ReservedNat, ProceedsInt DEF OnlyProceedsUnlogged, Typed, TypeOK
<1>2. CASE /\ UNCHANGED <<gold, ledger, spent, bid>>
           /\ \/ UNCHANGED auction
              \/ \E p \in Procs : InsertAuction(p)
              \/ \E w \in Workers, a \in Auctions : CancelUnsold(w, a)
  <2>1. Reserved(g)' = Reserved(g)
    BY <1>2 DEF Reserved
  <2>2. Proceeds(g)' = Proceeds(g)
    BY <1>2, ProceedsStay
  <2>3. QED
    BY <1>1, <1>2, <2>1, <2>2
<1>3. ASSUME NEW h \in Guilds, NEW n \in DepositAmounts, Deposit(h, n)
      PROVE  (gold[g] - Reserved(g) = ledger[g] + Proceeds(g))'
  <2>1. Reserved(g)' = Reserved(g)
    BY <1>3 DEF Deposit, Reserved
  <2>2. Proceeds(g)' = Proceeds(g)
    BY <1>3, ProceedsStay DEF Deposit
  <2>3. \E m \in Nat : gold'[g] = gold[g] + m /\ ledger'[g] = ledger[g] + m
    <3>1. CASE g = h
      BY <1>3, <3>1, InputAssumption DEF Deposit, Typed, TypeOK
    <3>2. CASE g # h
      BY <1>1, <1>3, <3>2 DEF Deposit, Typed, TypeOK
    <3>3. QED
      BY <3>1, <3>2
  <2>4. QED
    BY <1>1, <2>1, <2>2, <2>3
<1>4. ASSUME NEW p \in Procs, CommitBid(p)
      PROVE  (gold[g] - Reserved(g) = ledger[g] + Proceeds(g))'
  <2>1. /\ Delta(req[p], g) \in Int /\ Reserved(g)' = Reserved(g) + Delta(req[p], g)
        /\ ledger'[g] = ledger[g] - Delta(req[p], g) /\ gold'[g] = gold[g]
    BY <1>4, CommitMoves DEF CommitBid
  <2>2. Proceeds(g)' = Proceeds(g)
    BY <1>4, ProceedsStay
  <2>3. QED
    BY <1>1, <2>1, <2>2
<1>5. ASSUME NEW w \in Workers, NEW a \in Auctions, SettleSale(w, a)
      PROVE  (gold[g] - Reserved(g) = ledger[g] + Proceeds(g))'
  <2> DEFINE n == IF g = auction[a].seller THEN auction[a].high ELSE 0
  <2>1. Proceeds(g)' = Proceeds(g) + n /\ n \in Nat
    BY <1>5, SettlementMoves
  <2>2. gold'[g] = gold[g] + n
    BY <1>1, <1>5 DEF SettleSale, Typed, TypeOK
  <2>3. Reserved(g)' = Reserved(g) /\ ledger'[g] = ledger[g]
    BY <1>5 DEF SettleSale, Reserved
  <2> HIDE DEF n
  <2>4. QED
    BY <1>1, <2>1, <2>2, <2>3
<1>6. QED
  BY <1>2, <1>3, <1>4, <1>5, MoneySteps

\* Quota and reservations move together.
LEMMA QuotaStep ==
    ASSUME Typed, QuotaMatchesReservations, [Next]_vars
    PROVE  QuotaMatchesReservations'
<1> SUFFICES ASSUME NEW g \in Guilds
             PROVE  (SumFunctionOnSet(spent[g], Days) = Reserved(g))'
  BY DEF QuotaMatchesReservations
<1>1. SumFunctionOnSet(spent[g], Days) = Reserved(g)
  BY DEF QuotaMatchesReservations
<1>2. CASE UNCHANGED <<spent, bid>>
  BY <1>1, <1>2 DEF Reserved
<1>3. ASSUME NEW p \in Procs, CommitBid(p)
      PROVE  (SumFunctionOnSet(spent[g], Days) = Reserved(g))'
  BY <1>1, <1>3, CommitMoves
<1>4. QED
  BY <1>2, <1>3, MoneySteps DEF Deposit, SettleSale

\* No interleaving of bids, deposits, closings and failures lets a guild reserve
\* more gold than it has, whatever its number of auctions and requests.
THEOREM AlwaysSolvent == Spec => []Solvent
<1>1. Init => Solvent
  BY MoneyInit, NumberAssumption DEF Solvent, Init
<1>2. Typed /\ Solvent /\ [Next]_vars => Solvent'
  BY SolventStep
<1>3. QED
  BY <1>1, <1>2, TypedInvariant, PTL DEF Spec

\* Every guild's available gold is its audit trail and the proceeds of its sales.
THEOREM OnlyProceedsStayUnlogged == Spec => []OnlyProceedsUnlogged
<1>1. Init => OnlyProceedsUnlogged
  BY MoneyInit, NumberAssumption DEF OnlyProceedsUnlogged, Init
<1>2. Typed /\ OnlyProceedsUnlogged /\ [Next]_vars => OnlyProceedsUnlogged'
  BY LedgerStep
<1>3. QED
  BY <1>1, <1>2, TypedInvariant, PTL DEF Spec

\* What counts against a guild's quotas is always exactly what it has reserved.
THEOREM QuotaAlwaysMatches == Spec => []QuotaMatchesReservations
<1>1. Init => QuotaMatchesReservations
  BY MoneyInit DEF QuotaMatchesReservations
<1>2. Typed /\ QuotaMatchesReservations /\ [Next]_vars => QuotaMatchesReservations'
  BY QuotaStep
<1>3. QED
  BY <1>1, <1>2, TypedInvariant, PTL DEF Spec

-----------------------------------------------------------------------------
(* The state of the escrow, as Promise reads it off the tables.             *)

Free == [g \in Guilds |-> Available(g)]
StakeOn(a) == IF Active(a) THEN [by |-> auction[a].winner, amount |-> auction[a].high]
                           ELSE [by |-> NoGuild, amount |-> 0]
Stakes == [a \in Auctions |-> StakeOn(a)]
Over == {a \in Auctions : auction[a].status \in {"ended", "cancelled"}}

\* A seller never leads its own auction, so a settlement pays somebody else.
SellerNeverLeads ==
    \A a \in Auctions : auction[a] # NoAuction => auction[a].winner # auction[a].seller

\* PlaceBidTransaction asks for it under the row lock; LocksHold keeps it until
\* the commit.
LEMMA SellerStep ==
    ASSUME Typed, SellerNeverLeads, [Next]_vars
    PROVE  SellerNeverLeads'
<1> USE DEF Typed
<1>1. CASE UNCHANGED <<auction, bid>>
  BY <1>1 DEF SellerNeverLeads
<1>2. ASSUME NEW p \in Procs, InsertAuction(p)
      PROVE  SellerNeverLeads'
  <2>1. req[p].guild \in Guilds
    BY <1>2 DEF InsertAuction, TypeOK, Idle, StartRequests, BidRequests
  <2>2. QED
    BY <1>2, <2>1, GuildAssumption DEF InsertAuction, FreshIds, SellerNeverLeads, TypeOK
<1>3. ASSUME NEW p \in Procs, CommitBid(p)
      PROVE  SellerNeverLeads'
  <2>1. /\ req[p].auction \in Auctions /\ auction[req[p].auction] \in AuctionRows
        /\ auction[req[p].auction].seller # req[p].guild
    BY <1>3, BidTyped, ActiveRow DEF CommitBid, LocksHold, BidRequests
  <2>2. /\ auction'[req[p].auction].seller = auction[req[p].auction].seller
        /\ auction'[req[p].auction].winner = req[p].guild
    BY <1>3, <2>1 DEF CommitBid, TypeOK, AuctionRows
  <2>3. \A a \in Auctions : a # req[p].auction => auction'[a] = auction[a]
    BY <1>3 DEF CommitBid, TypeOK
  <2>4. QED
    BY <2>1, <2>2, <2>3 DEF SellerNeverLeads
<1>4. ASSUME NEW w \in Workers, NEW a \in Auctions, CancelUnsold(w, a) \/ SettleSale(w, a)
      PROVE  SellerNeverLeads'
  <2>1. auction[a] \in AuctionRows /\ auction[a] # NoAuction
    BY <1>4, ActiveRow DEF CancelUnsold, SettleSale, Active, NoAuction
  <2>2. /\ auction'[a].seller = auction[a].seller
        /\ auction'[a].winner \in {NoGuild, auction[a].winner}
    BY <1>4, <2>1 DEF CancelUnsold, SettleSale, TypeOK, AuctionRows
  <2>3. \A x \in Auctions : x # a => auction'[x] = auction[x]
    BY <1>4 DEF CancelUnsold, SettleSale, TypeOK
  <2>4. auction[a].seller \in Guilds
    BY <2>1 DEF AuctionRows
  <2>5. QED
    BY <2>1, <2>2, <2>3, <2>4, GuildAssumption DEF SellerNeverLeads
<1>5. QED
  BY <1>1, <1>2, <1>3, <1>4, AuctionSteps

-----------------------------------------------------------------------------
(* What each action does to the escrow.                                     *)

\* A bid stakes free gold of the bidder and frees the stake it replaces.
LEMMA CommitStakes ==
    ASSUME Typed, LeaderHoldsBid, NEW p \in Procs, CommitBid(p)
    PROVE  \E l \in Auctions, g \in Guilds : \E n \in 1..Free[g] :
             /\ l \notin Over /\ Stakes[l].by # g
             /\ Free' = [h \in Guilds |-> IF h = g THEN Free[h] - n
                                          ELSE IF h = Stakes[l].by THEN Free[h] + Stakes[l].amount
                                          ELSE Free[h]]
             /\ Stakes' = [Stakes EXCEPT ![l] = [by |-> g, amount |-> n]]
             /\ Over' = Over
<1> DEFINE b == req[p]
           l == b.auction
<1>1. b \in BidRequests /\ Active(l) /\ auction[l].seller # b.guild /\ auction[l].winner # b.guild
  BY BidTyped DEF CommitBid, Typed, LocksHold
<1>2. l \in Auctions /\ b.guild \in Guilds /\ b.amount \in Nat \ {0}
  BY <1>1 DEF BidRequests
<1>3. auction[l] \in AuctionRows
  BY <1>1, <1>2, ActiveRow DEF Typed
<1>4. /\ auction'[l].status = "active" /\ auction'[l].high = b.amount
      /\ auction'[l].winner = b.guild
      /\ \A a \in Auctions : a # l => auction'[a] = auction[a]
  BY <1>1, <1>2, <1>3 DEF CommitBid, Typed, TypeOK, AuctionRows, Active
<1>5. \A g \in Guilds : gold[g] \in Nat /\ Reserved(g) \in Nat
  BY ReservedNat DEF Typed, TypeOK
<1>6. b.amount \in 1..Free[b.guild]
  BY <1>2, <1>5 DEF CommitBid, Affordable, Free, Available
<1>7. l \notin Over /\ Over' = Over
  BY <1>1, <1>2, <1>4 DEF Over, Active
<1>8. /\ Stakes[l] = [by |-> auction[l].winner, amount |-> auction[l].high]
      /\ Stakes' = [Stakes EXCEPT ![l] = [by |-> b.guild, amount |-> b.amount]]
  BY <1>1, <1>2, <1>4 DEF Stakes, StakeOn, Active
<1>9. ASSUME NEW h \in Guilds
      PROVE  Free'[h] = IF h = b.guild THEN Free[h] - b.amount
                        ELSE IF h = Stakes[l].by THEN Free[h] + Stakes[l].amount
                        ELSE Free[h]
  <2>1. /\ Reserved(h)' = Reserved(h) + Delta(b, h) /\ Delta(b, h) \in Int
        /\ gold'[h] = gold[h]
    BY CommitMoves DEF CommitBid
  <2>2. Free'[h] = Free[h] - Delta(b, h) /\ Free[h] \in Int
    BY <1>5, <2>1 DEF Free, Available
  <2>3. CASE h = b.guild
    BY <2>2, <2>3 DEF Delta
  <2>4. CASE h # b.guild /\ h = Stakes[l].by
    <3>1. Outbid(l) = auction[l].high
      BY <1>2, <1>3, <1>8, <2>4, GuildAssumption DEF Outbid, LeaderHoldsBid, AuctionRows, NoAuction
    <3>2. auction[l].high \in Nat
      BY <1>3 DEF AuctionRows
    <3>3. QED
      BY <1>8, <2>2, <2>4, <3>1, <3>2 DEF Delta
  <2>5. CASE h # b.guild /\ h # Stakes[l].by
    BY <1>8, <2>2, <2>5 DEF Delta
  <2>6. QED
    BY <2>3, <2>4, <2>5
<1>10. Free' = [h \in Guilds |-> IF h = b.guild THEN Free[h] - b.amount
                                 ELSE IF h = Stakes[l].by THEN Free[h] + Stakes[l].amount
                                 ELSE Free[h]]
  BY <1>9 DEF Free
<1>11. Stakes[l].by # b.guild
  BY <1>1, <1>8
<1> HIDE DEF b, l
<1>12. l \in Auctions /\ b.guild \in Guilds
  BY <1>2
<1> USE <1>6, <1>12
<1> WITNESS l \in Auctions, b.guild \in Guilds
<1> WITNESS b.amount \in 1..Free[b.guild]
<1>13. QED
  BY <1>7, <1>8, <1>10, <1>11

\* A settlement pays the stake out to the seller, once.
LEMMA SettlementPaysOut ==
    ASSUME Typed, SellerNeverLeads, NEW w \in Workers, NEW a \in Auctions, SettleSale(w, a)
    PROVE  /\ a \notin Over /\ Stakes[a].amount # 0 /\ auction[a].seller \in Guilds
           /\ Stakes[a].by # auction[a].seller
           /\ Free' = [Free EXCEPT ![auction[a].seller] = @ + Stakes[a].amount]
           /\ Stakes' = [Stakes EXCEPT ![a] = [by |-> NoGuild, amount |-> 0]]
           /\ Over' = Over \cup {a}
<1>1. auction[a] \in AuctionRows /\ Active(a) /\ auction[a].high # 0
  BY ActiveRow DEF SettleSale, Typed
<1>2. auction[a].seller \in Guilds /\ auction[a].high \in Nat
  BY <1>1 DEF AuctionRows
<1>3. /\ auction'[a].status = "ended"
      /\ \A x \in Auctions : x # a => auction'[x] = auction[x]
  BY <1>1 DEF SettleSale, Typed, TypeOK, AuctionRows
<1>4. a \notin Over /\ Over' = Over \cup {a}
  BY <1>1, <1>3 DEF Over, Active
<1>5. /\ Stakes[a] = [by |-> auction[a].winner, amount |-> auction[a].high]
      /\ Stakes' = [Stakes EXCEPT ![a] = [by |-> NoGuild, amount |-> 0]]
  BY <1>1, <1>3 DEF Stakes, StakeOn, Active
<1>6. Stakes[a].by # auction[a].seller /\ Stakes[a].amount # 0
  BY <1>1, <1>5 DEF SellerNeverLeads, Active, NoAuction
<1>7. ASSUME NEW g \in Guilds
      PROVE  Free'[g] = IF g = auction[a].seller THEN Free[g] + Stakes[a].amount ELSE Free[g]
  <2>1. Reserved(g)' = Reserved(g) /\ Reserved(g) \in Nat /\ gold[g] \in Nat
    BY ReservedNat DEF SettleSale, Reserved, Typed, TypeOK
  <2>2. gold'[g] = IF g = auction[a].seller THEN gold[g] + auction[a].high ELSE gold[g]
    BY <1>2 DEF SettleSale, Typed, TypeOK
  <2>3. QED
    BY <1>2, <1>5, <2>1, <2>2 DEF Free, Available
<1>8. Free' = [Free EXCEPT ![auction[a].seller] = @ + Stakes[a].amount]
  BY <1>2, <1>7 DEF Free
<1>9. QED
  BY <1>2, <1>4, <1>5, <1>6, <1>8

\* A cancelled auction had no stake; a deposit is free gold; an auction starts
\* without a stake.
LEMMA OtherSteps ==
    ASSUME Typed
    PROVE  /\ \A w \in Workers, a \in Auctions : CancelUnsold(w, a) =>
                 /\ a \notin Over /\ Stakes[a] = [by |-> NoGuild, amount |-> 0]
                 /\ Over' = Over \cup {a} /\ Free' = Free /\ Stakes' = Stakes
           /\ \A g \in Guilds, n \in DepositAmounts : Deposit(g, n) =>
                 /\ Free' = [Free EXCEPT ![g] = @ + n]
                 /\ Over' = Over /\ Stakes' = Stakes
           /\ \A p \in Procs : InsertAuction(p) =>
                 Over' = Over /\ Free' = Free /\ Stakes' = Stakes
<1> USE DEF Typed
<1>1. ASSUME NEW w \in Workers, NEW a \in Auctions, CancelUnsold(w, a)
      PROVE  /\ a \notin Over /\ Stakes[a] = [by |-> NoGuild, amount |-> 0]
             /\ Over' = Over \cup {a} /\ Free' = Free /\ Stakes' = Stakes
  <2>1. auction[a] \in AuctionRows /\ Active(a) /\ auction[a].high = 0
    BY <1>1, ActiveRow DEF CancelUnsold
  <2>2. auction[a].winner = NoGuild
    BY <2>1 DEF LeaderIffHigh, Active, NoAuction
  <2>3. /\ auction'[a].status = "cancelled"
        /\ \A x \in Auctions : x # a => auction'[x] = auction[x]
    BY <1>1, <2>1 DEF CancelUnsold, TypeOK, AuctionRows
  <2>4. Stakes[a] = [by |-> NoGuild, amount |-> 0] /\ Stakes' = Stakes
    BY <2>1, <2>2, <2>3 DEF Stakes, StakeOn, Active
  <2>5. Free' = Free
    BY <1>1 DEF CancelUnsold, money, Free, Available, Reserved
  <2>6. QED
    BY <2>1, <2>3, <2>4, <2>5 DEF Over, Active
<1>2. ASSUME NEW g \in Guilds, NEW n \in DepositAmounts, Deposit(g, n)
      PROVE  /\ Free' = [Free EXCEPT ![g] = @ + n]
             /\ Over' = Over /\ Stakes' = Stakes
  <2>1. ASSUME NEW h \in Guilds
        PROVE  Free'[h] = IF h = g THEN Free[h] + n ELSE Free[h]
    <3>1. Reserved(h)' = Reserved(h) /\ Reserved(h) \in Nat /\ gold[h] \in Nat
      BY <1>2, ReservedNat DEF Deposit, Reserved, TypeOK
    <3>2. gold'[h] = (IF h = g THEN gold[h] + n ELSE gold[h]) /\ n \in Nat
      BY <1>2, InputAssumption DEF Deposit, TypeOK
    <3>3. QED
      BY <3>1, <3>2 DEF Free, Available
  <2>2. Free' = [Free EXCEPT ![g] = @ + n]
    BY <2>1 DEF Free
  <2>3. Over' = Over /\ Stakes' = Stakes
    BY <1>2 DEF Deposit, Over, Stakes, StakeOn, Active
  <2>4. QED
    BY <2>2, <2>3
<1>3. ASSUME NEW p \in Procs, InsertAuction(p)
      PROVE  Over' = Over /\ Free' = Free /\ Stakes' = Stakes
  <2>1. PICK a \in FreshIds : auction' = [auction EXCEPT ![a] =
           [status |-> "active", item |-> req[p].item, seller |-> req[p].guild,
            start |-> req[p].price, high |-> 0, winner |-> NoGuild, ends |-> req[p].ends]]
    BY <1>3 DEF InsertAuction
  <2>2. Over' = Over /\ Stakes' = Stakes
    BY <2>1 DEF FreshIds, NoAuction, Over, Stakes, StakeOn, Active, TypeOK
  <2>3. Free' = Free
    BY <1>3 DEF InsertAuction, money, Free, Available, Reserved
  <2>4. QED
    BY <2>2, <2>3
<1>4. QED
  BY <1>1, <1>2, <1>3

-----------------------------------------------------------------------------
(* The refinement.                                                          *)

\* Every step of the program is a step of the escrow, or leaves it alone.
LEMMA EscrowStep ==
    ASSUME Typed, LeaderHoldsBid, SellerNeverLeads, [Next]_vars
    PROVE  Promise!Next \/ (Free' = Free /\ Stakes' = Stakes /\ Over' = Over)
<1> DEFINE Same == Free' = Free /\ Stakes' = Stakes /\ Over' = Over
<1> SUFFICES Promise!Next \/ Same
  OBVIOUS
<1> HIDE DEF Same
<1>1. CASE /\ UNCHANGED <<gold, ledger, spent, bid>>
           /\ \/ UNCHANGED auction
              \/ \E p \in Procs : InsertAuction(p)
              \/ \E w \in Workers, a \in Auctions : CancelUnsold(w, a)
  <2>1. CASE UNCHANGED auction
    BY <1>1, <2>1 DEF Same, Free, Available, Reserved, Stakes, StakeOn, Over, Active
  <2>2. CASE \E p \in Procs : InsertAuction(p)
    BY <2>2, OtherSteps DEF Same
  <2>3. ASSUME NEW w \in Workers, NEW a \in Auctions, CancelUnsold(w, a)
        PROVE  Promise!Next
    <3>1. Promise!Withdraw(a)
      BY <2>3, OtherSteps DEF Promise!Withdraw, Promise!NoStake, Free, Stakes, StakeOn, Over
    <3>2. QED
      BY <3>1 DEF Promise!Next
  <2>4. QED
    BY <1>1, <2>1, <2>2, <2>3
<1>2. ASSUME NEW g \in Guilds, NEW n \in DepositAmounts, Deposit(g, n)
      PROVE  Promise!Next
  <2>1. Promise!Deposit(g, n)
    BY <1>2, OtherSteps DEF Promise!Deposit, Free, Stakes, StakeOn, Over
  <2>2. QED
    BY <2>1 DEF Promise!Next
<1>3. ASSUME NEW p \in Procs, CommitBid(p)
      PROVE  Promise!Next
  <2>1. \E l \in Auctions, g \in Guilds : \E n \in 1..Free[g] : Promise!Stake(l, g, n)
    BY <1>3, CommitStakes DEF Promise!Stake, Free, Stakes, StakeOn, Over
  <2>2. QED
    BY <2>1 DEF Promise!Next, Free
<1>4. ASSUME NEW w \in Workers, NEW a \in Auctions, SettleSale(w, a)
      PROVE  Promise!Next
  <2>1. \E s \in Guilds : Promise!PayOut(a, s)
    BY <1>4, SettlementPaysOut DEF Promise!PayOut, Promise!NoStake, Free, Stakes, StakeOn, Over
  <2>2. QED
    BY <2>1 DEF Promise!Next
<1>5. QED
  BY <1>1, <1>2, <1>3, <1>4, MoneySteps

\* AuctionHouse implements Escrow: read as free gold and stakes, no interleaving
\* of requests, closings, crashes and failures does anything but deposit, stake
\* free gold over another's stake, and close a lot once, paying its stake out.
THEOREM AuctionsAreEscrow == Spec => EscrowKept
<1>1. Init => Promise!Init /\ SellerNeverLeads
  <2>1. Init => \A g \in Guilds : Available(g) = InitialGold
    BY MoneyInit, NumberAssumption DEF Init, Available
  <2>2. Init => \A a \in Auctions : auction[a] = NoAuction
    BY DEF Init
  <2>3. QED
    BY <2>1, <2>2 DEF Promise!Init, Promise!NoStake, SellerNeverLeads, NoAuction, Active
<1>2. SellerNeverLeads /\ Typed /\ [Next]_vars => SellerNeverLeads'
  BY SellerStep
<1>3. Typed /\ LeaderHoldsBid /\ SellerNeverLeads /\ [Next]_vars
        => [Promise!Next]_<<[g \in Guilds |-> Available(g)],
                            [a \in Auctions |->
                               IF Active(a) THEN [by |-> auction[a].winner, amount |-> auction[a].high]
                                            ELSE [by |-> NoGuild, amount |-> 0]],
                            {a \in Auctions : auction[a].status \in {"ended", "cancelled"}}>>
  BY EscrowStep DEF Free, Stakes, StakeOn, Over
<1>4. QED
  BY <1>1, <1>2, <1>3, TypedInvariant, LeaderAlwaysHoldsBid, PTL
  DEF Spec, EscrowKept, Promise!Spec
=============================================================================
