---------------------------- MODULE RowLocksProofs ----------------------------
(***************************************************************************)
(* Theorems about RowLocks, for any number of transactions, guilds, items  *)
(* and auctions: what is planned on the strength of a locked row remains   *)
(* what would be planned now, so a commit is covered by its locks.         *)
(***************************************************************************)
EXTENDS RowLocks, TLAPS

Open(t) == tx[t].kind # "none"
Planned(t) == Plan(tx[t].kind, tx[t].on, tx[t].by)
FirstOf(t) == First(tx[t].kind, tx[t].on)

\* Transaction t has the first n locks of its plan.
Reached(t, n) ==
    /\ held[t] = {FirstOf(t)} \cup {Planned(t)[k] : k \in 1..n}
    /\ Len(tx[t].plan) = Len(Planned(t)) - n
    /\ \A k \in 1..Len(tx[t].plan) : tx[t].plan[k] = Planned(t)[n + k]

\* An open transaction goes through the plan that it would make now: what the
\* plan was read from does not change under it.
PlansCurrent == \A t \in Txs : Open(t) => \E n \in 0..Len(Planned(t)) : Reached(t, n)

\* Nobody holds a lock in conflict with another's.
Exclusive ==
    \A t, u \in Txs : t # u => \A k \in held[t], l \in held[u] : ~Conflict(k, l)

\* What an open transaction knows of the row it is about
Sound(k, r, g) ==
    /\ k = "bid" => r \in Existing /\ g \in Guilds
    /\ k = "settle" => r \in Existing /\ Active(r)
    /\ k = "start" => r \in Legendary /\ g \in Guilds /\ ~OnSale(r)
    /\ k = "buy" => r \in Items \ Legendary /\ g \in Guilds
    /\ k = "list" => r \in Items
    /\ k \in {"deposit", "mint"} => r = g /\ g \in Guilds
AllSound == \A t \in Txs : Open(t) => Sound(tx[t].kind, tx[t].on, tx[t].by)

\* Only legendary items are auctioned, each in one running auction at a time.
OneSale ==
    /\ \A a \in Existing : auction[a].item \in Legendary
    /\ \A a, b \in Existing :
         (Active(a) /\ Active(b) /\ auction[a].item = auction[b].item) => a = b

Guarded == TypeOK /\ PlansCurrent /\ Exclusive /\ AllSound /\ OneSale

-----------------------------------------------------------------------------
(* Locks.                                                                  *)

\* A row held FOR UPDATE is held by one transaction, in whatever mode others
\* ask for it.
LEMMA UpdateExcludes ==
    ASSUME NEW r, NEW l, l.row = r, l.mode \in {"Update", "NoKeyUpdate", "KeyShare"}
    PROVE  Conflict(l, Update(r)) /\ Conflict(Update(r), l)
BY DEF Conflict, Conflicting, Update

\* Conflict is symmetric.
LEMMA ConflictSymmetric ==
    ASSUME NEW k, NEW l, Conflict(k, l)
    PROVE  Conflict(l, k)
<1>1. {k.mode, l.mode} = {l.mode, k.mode}
  OBVIOUS
<1>2. QED
  BY <1>1 DEF Conflict

\* Every lock a transaction asks for is on a row that exists.
LEMMA PlanTyped ==
    ASSUME TypeOK, NEW k \in AllKinds, NEW r \in Rows, NEW g \in Guilds \cup {NoGuild},
           Sound(k, r, g)
    PROVE  Plan(k, r, g) \in Seq(Locks) /\ First(k, r) \in Locks
<1>1. \A x \in Rows : /\ Update(x) \in Locks /\ NoKeyUpdate(x) \in Locks
                      /\ KeyShare(x) \in Locks /\ Insert(x) \in Locks
  BY DEF Locks, Update, NoKeyUpdate, KeyShare, Insert
<1>2. First(k, r) \in Locks
  BY <1>1 DEF First, AllKinds
<1>3. \A x, y, z \in Locks : /\ <<>> \in Seq(Locks) /\ <<x>> \in Seq(Locks)
                             /\ <<x, y>> \in Seq(Locks) /\ <<x, y, z>> \in Seq(Locks)
  OBVIOUS
<1>4. \A a \in Existing : /\ auction[a].item \in Rows /\ auction[a].seller \in Rows
                          /\ HasLeader(a) => auction[a].leader \in Rows
  BY DEF TypeOK, Existing, AuctionRows, Rows, HasLeader
<1>5. CASE k = "bid"
  <2>1. Update(g) \in Locks
    BY <1>1, <1>5 DEF Sound, Rows
  <2>2. HasLeader(r) => KeyShare(auction[r].leader) \in Locks
    BY <1>1, <1>4, <1>5 DEF Sound
  <2>3. BidPlan(r, g) \in Seq(Locks)
    BY <1>3, <2>1, <2>2 DEF BidPlan
  <2>4. QED
    BY <1>2, <1>5, <2>3 DEF Plan
<1>6. CASE k = "settle"
  <2>1. /\ NoKeyUpdate(auction[r].item) \in Locks /\ NoKeyUpdate(auction[r].seller) \in Locks
        /\ HasLeader(r) => KeyShare(auction[r].leader) \in Locks
    BY <1>1, <1>4, <1>6 DEF Sound
  <2>2. SettlePlan(r) \in Seq(Locks)
    BY <1>3, <2>1 DEF SettlePlan
  <2>3. QED
    BY <1>2, <1>6, <2>2 DEF Plan
<1>7. CASE k = "buy"
  <2>1. Update(g) \in Locks /\ NoKeyUpdate(owner[r]) \in Locks
    BY <1>1, <1>7 DEF Sound, TypeOK, Rows
  <2>2. BuyPlan(r, g) \in Seq(Locks)
    BY <1>3, <2>1 DEF BuyPlan
  <2>3. QED
    BY <1>2, <1>7, <2>2 DEF Plan
<1>8. CASE k = "start"
  <2>1. KeyShare(r) \in Locks /\ KeyShare(g) \in Locks
    BY <1>1, <1>8 DEF Sound, Rows
  <2>2. StartPlan(r, g) \in Seq(Locks)
    BY <1>3, <2>1 DEF StartPlan
  <2>3. QED
    BY <1>2, <1>8, <2>2 DEF Plan
<1>9. CASE k \in {"list", "deposit", "mint"}
  BY <1>2, <1>3, <1>9 DEF Plan
<1>10. QED
  BY <1>5, <1>6, <1>7, <1>8, <1>9 DEF AllKinds

\* An open transaction has the fields of one, and holds its first lock.
LEMMA OpenTyped ==
    ASSUME Guarded, NEW t \in Txs, Open(t)
    PROVE  /\ tx[t] \in Transactions /\ Sound(tx[t].kind, tx[t].on, tx[t].by)
           /\ FirstOf(t) \in held[t] /\ FirstOf(t) \in Locks
           /\ Planned(t) \in Seq(Locks)
<1>1. tx[t] \in Transactions
  BY DEF Guarded, TypeOK, Open, Idle
<1>2. Sound(tx[t].kind, tx[t].on, tx[t].by)
  BY DEF Guarded, AllSound
<1>3. Planned(t) \in Seq(Locks) /\ FirstOf(t) \in Locks
  BY <1>1, <1>2, PlanTyped DEF Guarded, Transactions, Planned, FirstOf
<1>4. FirstOf(t) \in held[t]
  BY DEF Guarded, PlansCurrent, Reached
<1>5. QED
  BY <1>1, <1>2, <1>3, <1>4

-----------------------------------------------------------------------------
(* The invariant.                                                          *)

\* Nothing is open at first.
LEMMA InitGuarded == Init => Guarded
<1> SUFFICES ASSUME Init PROVE Guarded
  OBVIOUS
<1>1. TypeOK
  BY OwnerAssumption DEF Init, TypeOK
<1>2. \A t \in Txs : ~Open(t) /\ held[t] = {}
  BY DEF Init, Open, Idle
<1>3. Existing = {}
  BY DEF Init, Existing
<1>4. QED
  BY <1>1, <1>2, <1>3 DEF Guarded, PlansCurrent, Exclusive, AllSound, OneSale

\* A transaction begins with one lock, which nobody's is in conflict with, and a
\* plan made of the row under that lock.
LEMMA BeginKeeps ==
    ASSUME Guarded, NEW t \in Txs, NEW k \in AllKinds, NEW r \in Rows,
           NEW g \in Guilds \cup {NoGuild}, Sound(k, r, g), Begin(t, k, r, g)
    PROVE  Guarded'
<1> DEFINE b == [kind |-> k, on |-> r, by |-> g, plan |-> Plan(k, r, g)]
<1>1. Plan(k, r, g) \in Seq(Locks) /\ First(k, r) \in Locks
  BY PlanTyped DEF Guarded
<1>2. b \in Transactions
  BY <1>1 DEF Transactions
<1>3. /\ tx' = [tx EXCEPT ![t] = b] /\ held' = [held EXCEPT ![t] = {First(k, r)}]
      /\ auction' = auction /\ owner' = owner /\ onOffer' = onOffer
  BY DEF Begin, tables
<1>4. /\ tx'[t] = b /\ held'[t] = {First(k, r)}
      /\ \A u \in Txs : u # t => tx'[u] = tx[u] /\ held'[u] = held[u]
  BY <1>3 DEF Guarded, TypeOK
<1>5. TypeOK'
  BY <1>1, <1>2, <1>3 DEF Guarded, TypeOK
<1>6. Exclusive'
  <2>1. \A u \in Txs : \A l \in held[u] : ~Conflict(l, First(k, r)) /\ ~Conflict(First(k, r), l)
    BY ConflictSymmetric DEF Begin
  <2>2. QED
    BY <1>4, <2>1 DEF Guarded, Exclusive
<1>7. \A x, y, z : /\ Plan(x, y, z)' = Plan(x, y, z) /\ Sound(x, y, z)' = Sound(x, y, z)
  BY <1>3 DEF Plan, BidPlan, SettlePlan, BuyPlan, StartPlan, HasLeader, Sound, Existing,
              Active, OnSale
<1>8. AllSound'
  BY <1>4, <1>7 DEF Guarded, AllSound, Open
<1>9. OneSale'
  BY <1>3 DEF Guarded, OneSale, Existing, Active
<1>10. PlansCurrent'
  <2>1. Planned(t)' = Plan(k, r, g) /\ FirstOf(t)' = First(k, r)
    BY <1>4, <1>7 DEF Planned, FirstOf
  <2>2. Len(Plan(k, r, g)) \in Nat
    BY <1>1
  <2>3. Reached(t, 0)'
    BY <1>4, <2>1, <2>2 DEF Reached
  <2>4. 0 \in 0..Len(Planned(t)')
    BY <2>1, <2>2
  <2>5. ASSUME NEW u \in Txs, u # t, Open(u)'
        PROVE  \E n \in 0..Len(Planned(u)') : Reached(u, n)'
    <3>1. PICK n \in 0..Len(Planned(u)) : Reached(u, n)
      BY <1>4, <2>5 DEF Guarded, PlansCurrent, Open
    <3>2. Planned(u)' = Planned(u) /\ FirstOf(u)' = FirstOf(u)
      BY <1>4, <1>7, <2>5 DEF Planned, FirstOf
    <3>3. Reached(u, n)'
      BY <1>4, <2>5, <3>1, <3>2 DEF Reached
    <3>4. QED
      BY <3>2, <3>3
  <2>6. QED
    BY <2>3, <2>4, <2>5 DEF PlansCurrent
<1>11. QED
  BY <1>5, <1>6, <1>8, <1>9, <1>10 DEF Guarded

\* What is asked of the locked row is what Sound says of it.
LEMMA RequestKeeps ==
    ASSUME Guarded, NEW t \in Txs, Request(t)
    PROVE  Guarded'
<1>1. CASE \E a \in Existing, g \in Guilds : Begin(t, "bid", a, g)
  <2>1. PICK a \in Existing, g \in Guilds : Begin(t, "bid", a, g)
    BY <1>1
  <2>2. Sound("bid", a, g) /\ a \in Rows /\ "bid" \in AllKinds
    BY DEF Sound, Existing, Rows, AllKinds
  <2>3. QED
    BY <2>1, <2>2, BeginKeeps
<1>2. CASE \E a \in Existing : Begin(t, "settle", a, NoGuild)
  <2>1. PICK a \in Existing : Begin(t, "settle", a, NoGuild)
    BY <1>2
  <2>2. Sound("settle", a, NoGuild) /\ a \in Rows /\ "settle" \in AllKinds
    BY <2>1 DEF Sound, Existing, Rows, AllKinds, Begin, Admits
  <2>3. QED
    BY <2>1, <2>2, BeginKeeps
<1>3. CASE \E i \in Legendary, g \in Guilds : Begin(t, "start", i, g)
  <2>1. PICK i \in Legendary, g \in Guilds : Begin(t, "start", i, g)
    BY <1>3
  <2>2. Sound("start", i, g) /\ i \in Rows /\ "start" \in AllKinds
    BY <2>1, OwnerAssumption DEF Sound, Rows, AllKinds, Begin, Admits
  <2>3. QED
    BY <2>1, <2>2, BeginKeeps
<1>4. CASE \E i \in Items \ Legendary, g \in Guilds : Begin(t, "list", i, g)
  <2>1. PICK i \in Items \ Legendary, g \in Guilds : Begin(t, "list", i, g)
    BY <1>4
  <2>2. Sound("list", i, g) /\ i \in Rows /\ "list" \in AllKinds
    BY DEF Sound, Rows, AllKinds
  <2>3. QED
    BY <2>1, <2>2, BeginKeeps
<1>5. CASE \E i \in Items, g \in Guilds : Begin(t, "buy", i, g)
  <2>1. PICK i \in Items, g \in Guilds : Begin(t, "buy", i, g)
    BY <1>5
  <2>2. Sound("buy", i, g) /\ i \in Rows /\ "buy" \in AllKinds
    BY <2>1, OwnerAssumption DEF Sound, Rows, AllKinds, Begin, Admits
  <2>3. QED
    BY <2>1, <2>2, BeginKeeps
<1>6. CASE \E g \in Guilds : Begin(t, "deposit", g, g) \/ Begin(t, "mint", g, g)
  <2>1. PICK g \in Guilds : Begin(t, "deposit", g, g) \/ Begin(t, "mint", g, g)
    BY <1>6
  <2>2. /\ Sound("deposit", g, g) /\ Sound("mint", g, g)
        /\ g \in Rows /\ "deposit" \in AllKinds /\ "mint" \in AllKinds
    BY DEF Sound, Rows, AllKinds
  <2>3. QED
    BY <2>1, <2>2, BeginKeeps
<1>7. QED
  BY <1>1, <1>2, <1>3, <1>4, <1>5, <1>6 DEF Request

\* One lock further on in the plan
LEMMA LockNextKeeps ==
    ASSUME Guarded, NEW t \in Txs, LockNext(t)
    PROVE  Guarded'
<1> DEFINE p == tx[t].plan
           w == Wanted(t)
           b == [tx[t] EXCEPT !.plan = Tail(p)]
<1>1. Open(t) /\ p # <<>>
  BY DEF LockNext, Guarded, TypeOK, Open, Idle, Transactions, AllKinds
<1>2. /\ tx[t] \in Transactions /\ Planned(t) \in Seq(Locks) /\ p \in Seq(Locks)
  BY <1>1, OpenTyped DEF Transactions
<1>3. /\ w = p[1] /\ w \in Locks /\ Tail(p) \in Seq(Locks) /\ Len(Tail(p)) = Len(p) - 1
      /\ \A k \in 1..Len(Tail(p)) : Tail(p)[k] = p[k + 1]
      /\ Len(p) \in Nat \ {0}
  BY <1>1, <1>2 DEF Wanted
<1>4. /\ b \in Transactions /\ b.kind = tx[t].kind /\ b.on = tx[t].on /\ b.by = tx[t].by
      /\ b.plan = Tail(p)
  BY <1>2, <1>3 DEF Transactions
<1>5. /\ tx' = [tx EXCEPT ![t] = b] /\ held' = [held EXCEPT ![t] = @ \cup {w}]
      /\ auction' = auction /\ owner' = owner /\ onOffer' = onOffer
  BY DEF LockNext, tables
<1> HIDE DEF b, w, p
<1>6. /\ tx'[t] = b /\ held'[t] = held[t] \cup {w}
      /\ \A u \in Txs : u # t => tx'[u] = tx[u] /\ held'[u] = held[u]
  BY <1>5 DEF Guarded, TypeOK
<1>7. TypeOK'
  BY <1>3, <1>4, <1>5 DEF Guarded, TypeOK
<1>8. Exclusive'
  <2>1. \A u \in Txs \ {t} : \A l \in held[u] : ~Conflict(l, w) /\ ~Conflict(w, l)
    BY <1>1, ConflictSymmetric DEF LockNext, Blocked, Blockers, w, p
  <2>2. QED
    BY <1>6, <2>1 DEF Guarded, Exclusive
<1>9. \A x, y, z : /\ Plan(x, y, z)' = Plan(x, y, z) /\ Sound(x, y, z)' = Sound(x, y, z)
  BY <1>5 DEF Plan, BidPlan, SettlePlan, BuyPlan, StartPlan, HasLeader, Sound, Existing,
              Active, OnSale
<1>10. \A u \in Txs : /\ Open(u)' <=> Open(u)
                      /\ Planned(u)' = Planned(u) /\ FirstOf(u)' = FirstOf(u)
  BY <1>4, <1>6, <1>9 DEF Open, Planned, FirstOf
<1>11. AllSound'
  BY <1>4, <1>6, <1>9 DEF Guarded, AllSound, Open
<1>12. OneSale'
  BY <1>5 DEF Guarded, OneSale, Existing, Active
<1>13. \E n \in 0..Len(Planned(t)) : Reached(t, n)'
  <2>1. PICK n \in 0..Len(Planned(t)) : Reached(t, n)
    BY <1>1 DEF Guarded, PlansCurrent
  <2>2. n \in Nat /\ n + 1 \in 0..Len(Planned(t)) /\ Len(Planned(t)) \in Nat
    BY <1>2, <1>3, <2>1 DEF Reached, p
  <2>3. w = Planned(t)[n + 1]
    BY <1>3, <2>1, <2>2 DEF Reached, p
  <2>4. held'[t] = {FirstOf(t)} \cup {Planned(t)[k] : k \in 1..(n + 1)}
    BY <1>6, <2>1, <2>2, <2>3 DEF Reached
  <2>5. Len(tx'[t].plan) = Len(Planned(t)) - (n + 1)
    <3>1. Len(tx'[t].plan) = Len(p) - 1
      BY <1>3, <1>4, <1>6
    <3>2. Len(p) = Len(Planned(t)) - n
      BY <2>1 DEF Reached, p
    <3>3. QED
      BY <2>2, <3>1, <3>2
  <2>6. \A k \in 1..Len(tx'[t].plan) : tx'[t].plan[k] = Planned(t)[(n + 1) + k]
    <3> SUFFICES ASSUME NEW k \in 1..Len(Tail(p)) PROVE Tail(p)[k] = Planned(t)[(n + 1) + k]
      BY <1>4, <1>6
    <3>1. k + 1 \in 1..Len(p) /\ n + (k + 1) = (n + 1) + k
      BY <1>3, <2>2
    <3>2. QED
      BY <1>3, <2>1, <3>1 DEF Reached, p
  <2>7. QED
    BY <1>10, <2>2, <2>4, <2>5, <2>6 DEF Reached
<1>14. ASSUME NEW u \in Txs, u # t, Open(u)
       PROVE  \E n \in 0..Len(Planned(u)) : Reached(u, n)'
  <2>1. PICK n \in 0..Len(Planned(u)) : Reached(u, n)
    BY <1>14 DEF Guarded, PlansCurrent
  <2>2. Reached(u, n)'
    BY <1>6, <1>10, <1>14, <2>1 DEF Reached
  <2>3. QED
    BY <2>2
<1>15. PlansCurrent'
  BY <1>10, <1>13, <1>14 DEF PlansCurrent
<1>16. QED
  BY <1>7, <1>8, <1>11, <1>12, <1>15 DEF Guarded

\* Two open transactions are not about the same row.
LEMMA OneOnRow ==
    ASSUME Guarded, NEW t \in Txs, NEW u \in Txs, Open(t), Open(u), tx[t].on = tx[u].on,
           \/ /\ tx[t].kind \in {"bid", "settle", "buy", "list", "deposit"}
              /\ tx[u].kind \in {"bid", "settle", "buy", "list", "deposit"}
           \/ tx[t].kind = "start" /\ tx[u].kind = "start"
    PROVE  t = u
<1>1. FirstOf(t) \in held[t] /\ FirstOf(u) \in held[u] /\ FirstOf(t) = FirstOf(u)
  BY OpenTyped DEF FirstOf, First
<1>2. FirstOf(t) \in {Update(tx[t].on), Insert(tx[t].on)}
  BY DEF FirstOf, First
<1>3. Conflict(FirstOf(t), FirstOf(t))
  BY <1>2 DEF Conflict, Conflicting, Update, Insert
<1>4. QED
  BY <1>1, <1>3 DEF Guarded, Exclusive

\* A transaction ends, and what it leaves in the tables is nothing another open
\* transaction has planned on.
LEMMA EndKeeps ==
    ASSUME Guarded, NEW t \in Txs, End(t), OneSale',
           auction' \in [Auctions -> AuctionRows \cup {NoAuction}],
           owner' \in [Items -> Guilds], onOffer' \subseteq Items,
           \A u \in Txs \ {t} :
              /\ tx[u].kind \in {"bid", "settle"} => auction'[tx[u].on] = auction[tx[u].on]
              /\ tx[u].kind = "buy" => owner'[tx[u].on] = owner[tx[u].on],
           \A i : OnSale(i)' => OnSale(i) \/ (tx[t].kind = "start" /\ tx[t].on = i)
    PROVE  Guarded'
<1>1. /\ tx'[t] = Idle /\ held'[t] = {}
      /\ \A u \in Txs : u # t => tx'[u] = tx[u] /\ held'[u] = held[u]
  BY DEF End, Guarded, TypeOK
<1>2. TypeOK'
  BY DEF End, Guarded, TypeOK
<1>3. Exclusive'
  BY <1>1 DEF Guarded, Exclusive
<1>4. ~Open(t)'
  BY <1>1 DEF Open, Idle
<1>5. ASSUME NEW u \in Txs, u # t, Open(u)
      PROVE  /\ Sound(tx[u].kind, tx[u].on, tx[u].by)'
             /\ Planned(u)' = Planned(u) /\ FirstOf(u)' = FirstOf(u)
  <2>1. Sound(tx[u].kind, tx[u].on, tx[u].by)
    BY <1>5, OpenTyped
  <2>2. tx'[u] = tx[u] /\ tx[u].kind \in AllKinds
    BY <1>1, <1>5, OpenTyped DEF Transactions
  <2>3. tx[u].kind \in {"bid", "settle"} => auction'[tx[u].on] = auction[tx[u].on]
    BY <1>5
  <2>4. tx[u].kind = "buy" => owner'[tx[u].on] = owner[tx[u].on]
    BY <1>5
  <2>5. ASSUME NEW i, tx[u].kind = "start", i = tx[u].on
        PROVE  ~OnSale(i)'
    <3>1. ~(tx[t].kind = "start" /\ tx[t].on = i)
      BY <1>5, <2>5, OneOnRow DEF Open
    <3>2. QED
      BY <2>1, <2>5, <3>1 DEF Sound
  <2>6. Sound(tx[u].kind, tx[u].on, tx[u].by)'
    BY <2>1, <2>2, <2>3, <2>5 DEF Sound, Existing, Active
  <2>7. Planned(u)' = Planned(u)
    BY <2>2, <2>3, <2>4 DEF Planned, Plan, BidPlan, SettlePlan, BuyPlan, StartPlan, HasLeader,
                            AllKinds
  <2>8. QED
    BY <2>2, <2>6, <2>7 DEF FirstOf
<1>6. AllSound'
  BY <1>1, <1>4, <1>5 DEF AllSound, Open
<1>7. ASSUME NEW u \in Txs, Open(u)'
      PROVE  \E n \in 0..Len(Planned(u)') : Reached(u, n)'
  <2>1. u # t /\ Open(u) /\ tx'[u] = tx[u] /\ held'[u] = held[u]
    BY <1>1, <1>4, <1>7 DEF Open
  <2>2. PICK n \in 0..Len(Planned(u)) : Reached(u, n)
    BY <2>1 DEF Guarded, PlansCurrent
  <2>3. Planned(u)' = Planned(u) /\ FirstOf(u)' = FirstOf(u)
    BY <1>5, <2>1
  <2>4. Reached(u, n)'
    BY <2>1, <2>2, <2>3 DEF Reached
  <2>5. QED
    BY <2>3, <2>4
<1>8. QED
  BY <1>2, <1>3, <1>6, <1>7 DEF Guarded, PlansCurrent

\* Rows that change are rows their transaction is about; nobody else's plan
\* was made of them.
LEMMA CommitKeeps ==
    ASSUME Guarded, NEW t \in Txs, Open(t), Commit(t)
    PROVE  Guarded'
<1> DEFINE r == tx[t].on
           g == tx[t].by
<1>1. /\ tx[t] \in Transactions /\ Sound(tx[t].kind, r, g)
      /\ auction \in [Auctions -> AuctionRows \cup {NoAuction}]
      /\ owner \in [Items -> Guilds] /\ onOffer \subseteq Items
  BY OpenTyped DEF Guarded, TypeOK
<1>2. \A u \in Txs : tx[u].kind \in {"bid", "settle", "buy", "start"} =>
         Open(u) /\ Sound(tx[u].kind, tx[u].on, tx[u].by)
  BY DEF Guarded, AllSound, Open
<1>3. \A a \in Auctions : a \in Existing <=> auction[a] \in AuctionRows
  <2>1. \A x \in AuctionRows : x.status # "absent"
    BY DEF AuctionRows
  <2>2. NoAuction \notin AuctionRows
    BY <2>1 DEF NoAuction
  <2>3. QED
    BY <1>1, <2>2 DEF Existing
<1>4. CASE UNCHANGED tables /\ End(t)
  <2>1. OneSale' /\ \A i : OnSale(i)' <=> OnSale(i)
    BY <1>4 DEF Guarded, OneSale, OnSale, Existing, Active, tables
  <2>3. QED
    BY <1>1, <1>4, <2>1, EndKeeps DEF tables
<1>5. CASE CommitOther(t)
  BY <1>4, <1>5 DEF CommitOther
<1>6. CASE CommitListing(t)
  <2>1. r \in Items
    BY <1>1, <1>6 DEF Sound, CommitListing
  <2>2. OneSale' /\ \A i : OnSale(i)' <=> OnSale(i)
    BY <1>6 DEF Guarded, OneSale, OnSale, Existing, Active, CommitListing
  <2>4. QED
    BY <1>1, <1>6, <2>1, <2>2, EndKeeps DEF CommitListing
<1>7. CASE CommitPurchase(t)
  <2>1. r \in Items /\ g \in Guilds
    BY <1>1, <1>7 DEF Sound, CommitPurchase
  <2>2. OneSale' /\ \A i : OnSale(i)' <=> OnSale(i)
    BY <1>7 DEF Guarded, OneSale, OnSale, Existing, Active, CommitPurchase
  <2>4. owner' = [owner EXCEPT ![r] = g]
    BY <1>7 DEF CommitPurchase
  <2>5. \A u \in Txs \ {t} : tx[u].kind = "buy" => tx[u].on # r
    BY <1>2, <1>7, OneOnRow DEF CommitPurchase
  <2>6. \A u \in Txs \ {t} : tx[u].kind = "buy" => owner'[tx[u].on] = owner[tx[u].on]
    BY <1>1, <1>2, <2>4, <2>5 DEF Sound
  <2>7. owner' \in [Items -> Guilds] /\ onOffer' \subseteq Items /\ auction' = auction /\ End(t)
    BY <1>1, <1>7, <2>1, <2>4 DEF CommitPurchase
  <2>8. QED
    BY <1>1, <2>2, <2>6, <2>7, EndKeeps
<1>8. CASE CommitBid(t)
  <2>1. r \in Existing /\ g \in Guilds /\ r \in Auctions /\ tx[t].kind = "bid"
    BY <1>1, <1>8 DEF Sound, CommitBid, Existing
  <2> DEFINE row == [auction[r] EXCEPT !.leader = g]
  <2>2. /\ row \in AuctionRows /\ row.item = auction[r].item /\ row.status = auction[r].status
    BY <1>3, <2>1 DEF AuctionRows
  <2>3. auction' = [auction EXCEPT ![r] = row]
    BY <1>8 DEF CommitBid
  <2> HIDE DEF row
  <2>4. /\ auction' \in [Auctions -> AuctionRows \cup {NoAuction}] /\ auction'[r] = row
        /\ \A a \in Auctions : a # r => auction'[a] = auction[a]
    BY <1>1, <2>1, <2>2, <2>3
  <2>5. Existing' = Existing
    BY <1>3, <2>1, <2>2, <2>4 DEF Existing, NoAuction, AuctionRows
  <2>6. \A a \in Existing : /\ auction'[a].item = auction[a].item
                            /\ Active(a)' <=> Active(a)
    BY <2>1, <2>2, <2>4 DEF Existing, Active
  <2>7. OneSale' /\ \A i : OnSale(i)' <=> OnSale(i)
    BY <2>5, <2>6 DEF Guarded, OneSale, OnSale
  <2>9. \A u \in Txs \ {t} : tx[u].kind \in {"bid", "settle"} => tx[u].on # r
    BY <1>2, <2>1, OneOnRow
  <2>10. \A u \in Txs \ {t} : tx[u].kind \in {"bid", "settle"} =>
            auction'[tx[u].on] = auction[tx[u].on]
    BY <1>2, <2>4, <2>9 DEF Sound, Existing
  <2>11. owner' = owner /\ onOffer' = onOffer /\ End(t)
    BY <1>8 DEF CommitBid
  <2>12. QED
    BY <1>1, <2>4, <2>7, <2>10, <2>11, EndKeeps
<1>9. CASE CommitSettlement(t)
  <2>1. r \in Existing /\ r \in Auctions /\ tx[t].kind = "settle"
    BY <1>1, <1>9 DEF Sound, CommitSettlement, Existing
  <2> DEFINE row == [auction[r] EXCEPT !.status = "closed"]
             i == auction[r].item
  <2>2. /\ row \in AuctionRows /\ row.item = i /\ row.status = "closed"
        /\ i \in Items /\ i \in Legendary
        /\ HasLeader(r) => auction[r].leader \in Guilds
    BY <1>3, <2>1 DEF AuctionRows, Guarded, OneSale, HasLeader
  <2>3. auction' = [auction EXCEPT ![r] = row]
    BY <1>9 DEF CommitSettlement
  <2>4. /\ \/ owner' = [owner EXCEPT ![i] = auction[r].leader] /\ HasLeader(r)
           \/ owner' = owner
        /\ onOffer' \subseteq onOffer \cup {i} /\ End(t)
    BY <1>9 DEF CommitSettlement
  <2> HIDE DEF row, i
  <2>5. /\ auction' \in [Auctions -> AuctionRows \cup {NoAuction}] /\ auction'[r] = row
        /\ \A a \in Auctions : a # r => auction'[a] = auction[a]
    BY <1>1, <2>1, <2>2, <2>3
  <2>6. /\ owner' \in [Items -> Guilds] /\ onOffer' \subseteq Items
        /\ \A j \in Items : j # i => owner'[j] = owner[j]
    <3>1. CASE owner' = owner
      BY <1>1, <2>2, <2>4, <3>1
    <3>2. CASE owner' = [owner EXCEPT ![i] = auction[r].leader] /\ HasLeader(r)
      <4>1. auction[r].leader \in Guilds /\ i \in Items
        BY <2>2, <3>2
      <4>2. onOffer' \subseteq Items
        BY <1>1, <2>4, <4>1
      <4>3. QED
        BY <1>1, <3>2, <4>1, <4>2
    <3>3. QED
      BY <2>4, <3>1, <3>2
  <2>7. Existing' = Existing
    BY <1>3, <2>1, <2>2, <2>5 DEF Existing, NoAuction, AuctionRows
  <2>8. \A a \in Existing : /\ auction'[a].item = auction[a].item
                            /\ Active(a)' => Active(a)
    BY <2>1, <2>2, <2>5 DEF Existing, Active, i
  <2>9. OneSale' /\ \A j : OnSale(j)' => OnSale(j)
    BY <2>7, <2>8 DEF Guarded, OneSale, OnSale
  <2>11. \A u \in Txs \ {t} : tx[u].kind \in {"bid", "settle"} => tx[u].on # r
    BY <1>2, <2>1, OneOnRow
  <2>12. \A u \in Txs \ {t} : tx[u].kind \in {"bid", "settle"} =>
            auction'[tx[u].on] = auction[tx[u].on]
    BY <1>2, <2>5, <2>11 DEF Sound, Existing
  <2>13. \A u \in Txs \ {t} : tx[u].kind = "buy" => owner'[tx[u].on] = owner[tx[u].on]
    <3>1. \A u \in Txs : tx[u].kind = "buy" => tx[u].on \in Items \ Legendary
      BY <1>2 DEF Sound
    <3>2. QED
      BY <2>2, <2>6, <3>1
  <2>14. QED
    BY <2>4, <2>5, <2>6, <2>9, <2>12, <2>13, EndKeeps
<1>10. CASE CommitStart(t)
  <2>1. /\ r \in Legendary /\ r \in Items /\ g \in Guilds /\ ~OnSale(r)
        /\ tx[t].kind = "start"
    BY <1>1, <1>10, OwnerAssumption DEF Sound, CommitStart
  <2> DEFINE row == [status |-> "active", item |-> r, seller |-> g, leader |-> NoGuild]
  <2>2. PICK a \in Auctions \ Existing : auction' = [auction EXCEPT ![a] = row]
    BY <1>10 DEF CommitStart
  <2>3. row \in AuctionRows /\ row.item = r
    BY <2>1 DEF AuctionRows
  <2> HIDE DEF row
  <2>4. /\ auction' \in [Auctions -> AuctionRows \cup {NoAuction}] /\ auction'[a] = row
        /\ \A b \in Auctions : b # a => auction'[b] = auction[b]
    BY <1>1, <2>2, <2>3
  <2>5. Existing' = Existing \cup {a}
    <3>1. \A x \in AuctionRows : x.status # "absent"
      BY DEF AuctionRows
    <3>2. row # NoAuction
      BY <2>3, <3>1 DEF NoAuction
    <3>3. QED
      BY <2>2, <2>4, <3>2 DEF Existing
  <2>6. \A b \in Existing : auction'[b] = auction[b] /\ b \in Auctions /\ b # a
    BY <2>2, <2>4 DEF Existing
  <2>7. OneSale'
    <3>1. \A b \in Existing : Active(b) => auction[b].item # r
      BY <2>1 DEF OnSale
    <3>2. QED
      BY <2>1, <2>3, <2>4, <2>5, <2>6, <3>1 DEF Guarded, OneSale, Active
  <2>8. \A j : OnSale(j)' => OnSale(j) \/ j = r
    BY <2>3, <2>4, <2>5, <2>6 DEF OnSale, Active
  <2>11. \A u \in Txs \ {t} : tx[u].kind \in {"bid", "settle"} =>
            auction'[tx[u].on] = auction[tx[u].on]
    BY <1>2, <2>6 DEF Sound
  <2>12. owner' = owner /\ onOffer' = onOffer /\ End(t)
    BY <1>10 DEF CommitStart
  <2>13. QED
    BY <1>1, <2>1, <2>4, <2>7, <2>8, <2>11, <2>12, EndKeeps
<1>11. QED
  BY <1>5, <1>6, <1>7, <1>8, <1>9, <1>10 DEF Commit

\* Guarded is inductive.
LEMMA StepKeeps == Guarded /\ [Next]_vars => Guarded'
<1> SUFFICES ASSUME Guarded, [Next]_vars PROVE Guarded'
  OBVIOUS
<1>1. CASE UNCHANGED vars
  <2>1. auction' = auction /\ owner' = owner /\ onOffer' = onOffer /\ tx' = tx /\ held' = held
    BY <1>1 DEF vars
  <2>2. TypeOK' /\ Exclusive' /\ OneSale'
    BY <2>1 DEF Guarded, TypeOK, Exclusive, OneSale, Existing, Active
  <2>3. \A x, y, z : /\ Plan(x, y, z)' = Plan(x, y, z) /\ Sound(x, y, z)' = Sound(x, y, z)
    BY <2>1 DEF Plan, BidPlan, SettlePlan, BuyPlan, StartPlan, HasLeader, Sound, Existing,
                Active, OnSale
  <2>4. AllSound'
    BY <2>1, <2>3 DEF Guarded, AllSound, Open
  <2>5. \A t \in Txs : /\ Open(t)' <=> Open(t)
                       /\ Planned(t)' = Planned(t) /\ FirstOf(t)' = FirstOf(t)
    BY <2>1, <2>3 DEF Open, Planned, FirstOf
  <2>6. \A t \in Txs, n \in Nat : Reached(t, n)' = Reached(t, n)
    BY <2>1, <2>5 DEF Reached
  <2>7. PlansCurrent'
    BY <2>5, <2>6 DEF Guarded, PlansCurrent
  <2>8. QED
    BY <2>2, <2>4, <2>7 DEF Guarded
<1>2. ASSUME NEW t \in Txs, Request(t) \/ LockNext(t)
      PROVE  Guarded'
  BY <1>2, RequestKeeps, LockNextKeeps
<1>3. ASSUME NEW t \in Txs, Rollback(t) \/ Victim(t)
      PROVE  Guarded'
  <2>1. UNCHANGED tables /\ End(t)
    BY <1>3 DEF Rollback, Victim
  <2>2. OneSale' /\ \A i : OnSale(i)' <=> OnSale(i)
    BY <2>1 DEF Guarded, OneSale, OnSale, Existing, Active, tables
  <2>3. QED
    BY <2>1, <2>2, EndKeeps DEF tables, Guarded, TypeOK
<1>4. ASSUME NEW t \in Txs, Commit(t)
      PROVE  Guarded'
  <2>1. Open(t)
    BY <1>4 DEF Commit, CommitBid, CommitSettlement, CommitStart, CommitPurchase, CommitListing,
                CommitOther, Open
  <2>2. QED
    BY <1>4, <2>1, CommitKeeps
<1>5. QED
  BY <1>1, <1>2, <1>3, <1>4 DEF Next

\* The plans of open transactions stay current, and locks exclude each other.
THEOREM AlwaysGuarded == Spec => []Guarded
<1>1. QED
  BY InitGuarded, StepKeeps, PTL DEF Spec

\* Rows, plans and locks keep the shape of the schema; no NULL is ever locked.
THEOREM TypesKept == Spec => []TypeOK
<1>1. Guarded => TypeOK
  BY DEF Guarded
<1>2. QED
  BY AlwaysGuarded, <1>1, PTL

-----------------------------------------------------------------------------
(* What follows from it.                                                   *)

\* A transaction ready to commit holds all it has planned.
LEMMA ReadyHoldsAll ==
    ASSUME Guarded, NEW t \in Txs, Ready(t)
    PROVE  /\ Open(t) /\ FirstOf(t) \in held[t]
           /\ \A k \in 1..Len(Planned(t)) : Planned(t)[k] \in held[t]
<1>1. Open(t)
  BY DEF Ready, Guarded, TypeOK, Transactions, AllKinds, Open
<1>2. PICK n \in 0..Len(Planned(t)) : Reached(t, n)
  BY <1>1 DEF Guarded, PlansCurrent
<1>3. Len(tx[t].plan) = 0 /\ Len(Planned(t)) \in Nat
  BY <1>1, OpenTyped DEF Ready
<1>4. n = Len(Planned(t))
  BY <1>2, <1>3 DEF Reached
<1>5. QED
  BY <1>1, <1>2, <1>4 DEF Reached

\* Whoever is ready to change a wallet holds a lock on its guild.
LEMMA WalletLocked ==
    ASSUME Guarded, NEW t \in Txs, Ready(t), NEW g \in Guilds, g \in Wallets(t)
    PROVE  \E l \in held[t] : l.row = g /\ l.mode \in {"Update", "NoKeyUpdate", "KeyShare"}
<1> DEFINE p == Planned(t)
<1>1. /\ Open(t) /\ FirstOf(t) \in held[t]
      /\ \A k \in 1..Len(p) : p[k] \in held[t]
  BY ReadyHoldsAll
<1>2. Sound(tx[t].kind, tx[t].on, tx[t].by) /\ tx[t].kind \in AllKinds
  BY <1>1, OpenTyped DEF Transactions
<1>3. \A r : /\ Update(r).row = r /\ Update(r).mode = "Update"
             /\ NoKeyUpdate(r).row = r /\ NoKeyUpdate(r).mode = "NoKeyUpdate"
             /\ KeyShare(r).row = r /\ KeyShare(r).mode = "KeyShare"
  BY DEF Update, NoKeyUpdate, KeyShare
<1>4. CASE tx[t].kind = "bid"
  <2>1. CASE g = tx[t].by
    <3>1. p[1] = Update(g) /\ 1 \in 1..Len(p)
      BY <1>4, <2>1 DEF Planned, Plan, BidPlan
    <3>2. QED
      BY <1>1, <1>3, <3>1
  <2>2. CASE g = auction[tx[t].on].leader /\ HasLeader(tx[t].on)
    <3>1. p[2] = KeyShare(g) /\ 2 \in 1..Len(p)
      BY <1>4, <2>2 DEF Planned, Plan, BidPlan
    <3>2. QED
      BY <1>1, <1>3, <3>1
  <2>3. QED
    BY <1>4, <2>1, <2>2 DEF Wallets, HasLeader
<1>5. CASE tx[t].kind = "settle"
  <2>1. HasLeader(tx[t].on) /\ g = auction[tx[t].on].seller
    BY <1>5 DEF Wallets
  <2>2. p[3] = NoKeyUpdate(g) /\ 3 \in 1..Len(p)
    BY <1>5, <2>1 DEF Planned, Plan, SettlePlan
  <2>3. QED
    BY <1>1, <1>3, <2>2
<1>6. CASE tx[t].kind = "buy"
  <2>1. g = tx[t].by \/ g = owner[tx[t].on]
    BY <1>6 DEF Wallets
  <2>2. /\ p[1] = Update(tx[t].by) /\ p[2] = NoKeyUpdate(owner[tx[t].on])
        /\ 1 \in 1..Len(p) /\ 2 \in 1..Len(p)
    BY <1>6 DEF Planned, Plan, BuyPlan
  <2>3. QED
    BY <1>1, <1>3, <2>1, <2>2
<1>7. CASE tx[t].kind = "deposit"
  <2>1. FirstOf(t) = Update(g)
    BY <1>2, <1>7 DEF Wallets, FirstOf, First, Sound
  <2>2. QED
    BY <1>1, <1>3, <2>1
<1>8. CASE tx[t].kind \in {"start", "list", "mint"}
  BY <1>8 DEF Wallets
<1>9. QED
  BY <1>2, <1>4, <1>5, <1>6, <1>7, <1>8 DEF AllKinds

\* A wallet that was checked under its guild's lock is changed by nobody else
\* before the commit.
THEOREM AlwaysSerialised == Spec => []WalletsSerialised
<1>1. ASSUME Guarded PROVE WalletsSerialised
  <2> SUFFICES ASSUME NEW t \in Txs, NEW u \in Txs, NEW g \in Guilds,
                      t # u, Update(g) \in held[t], Ready(u), g \in Wallets(u)
               PROVE  FALSE
    BY DEF WalletsSerialised
  <2>1. PICK l \in held[u] : l.row = g /\ l.mode \in {"Update", "NoKeyUpdate", "KeyShare"}
    BY <1>1, WalletLocked
  <2>2. Conflict(Update(g), l)
    BY <2>1, UpdateExcludes
  <2>3. QED
    BY <1>1, <2>2 DEF Guarded, Exclusive
<1>2. QED
  BY AlwaysGuarded, <1>1, PTL

-----------------------------------------------------------------------------
(* Settlements: whoever waits for one is itself waited for by nobody.      *)

\* A transaction that waits stands before the next lock of its plan.
LEMMA Waiting ==
    ASSUME Guarded, NEW t \in Txs, tx[t].plan # <<>>
    PROVE  /\ Open(t)
           /\ \E n \in Nat : /\ Reached(t, n) /\ n + 1 \in 1..Len(Planned(t))
                            /\ Wanted(t) = Planned(t)[n + 1]
<1>1. Open(t)
  BY DEF Guarded, TypeOK, Open, Transactions, AllKinds, Idle
<1>2. PICK n \in 0..Len(Planned(t)) : Reached(t, n)
  BY <1>1 DEF Guarded, PlansCurrent
<1>3. tx[t].plan \in Seq(Locks) /\ Planned(t) \in Seq(Locks)
  BY <1>1, OpenTyped DEF Transactions
<1>4. Len(tx[t].plan) \in Nat \ {0} /\ Wanted(t) = tx[t].plan[1] /\ Len(Planned(t)) \in Nat
  BY <1>3 DEF Wanted
<1>5. n \in Nat /\ n + 1 \in 1..Len(Planned(t))
  BY <1>2, <1>4 DEF Reached
<1>6. Wanted(t) = Planned(t)[n + 1]
  BY <1>2, <1>4, <1>5 DEF Reached
<1>7. QED
  BY <1>1, <1>2, <1>5, <1>6

\* What can be waited for: guilds and legendary items.  FOR UPDATE is waited
\* for with the first lock alone in hand, and an item to write by settlements
\* alone.
LEMMA WantedLock ==
    ASSUME Guarded, NEW t \in Txs, tx[t].plan # <<>>
    PROVE  /\ Wanted(t).row \in Legendary \cup Guilds
           /\ Wanted(t).mode = "Update" =>
                tx[t].kind \in {"bid", "buy"} /\ held[t] = {FirstOf(t)}
           /\ (Wanted(t).mode = "NoKeyUpdate" /\ Wanted(t).row \in Items) =>
                tx[t].kind = "settle" /\ Wanted(t).row = auction[tx[t].on].item
<1> DEFINE w == Wanted(t)
           p == Planned(t)
           r == tx[t].on
<1>1. /\ Open(t) /\ Sound(tx[t].kind, r, tx[t].by) /\ tx[t].kind \in AllKinds
      /\ p \in Seq(Locks)
  BY Waiting, OpenTyped DEF Transactions
<1>2. PICK n \in Nat : Reached(t, n) /\ n + 1 \in 1..Len(p) /\ w = p[n + 1]
  BY Waiting
<1>3. n = 0 => held[t] = {FirstOf(t)}
  BY <1>2 DEF Reached
<1>4. \A x : /\ Update(x).row = x /\ Update(x).mode = "Update"
             /\ NoKeyUpdate(x).row = x /\ NoKeyUpdate(x).mode = "NoKeyUpdate"
             /\ KeyShare(x).row = x /\ KeyShare(x).mode = "KeyShare"
  BY DEF Update, NoKeyUpdate, KeyShare
<1>5. \A a \in Existing : /\ auction[a].item \in Legendary /\ auction[a].seller \in Guilds
                          /\ HasLeader(a) => auction[a].leader \in Guilds
  BY DEF Guarded, TypeOK, OneSale, Existing, AuctionRows, HasLeader
<1>6. \A g \in Guilds : g \notin Items
  BY RowAssumption
<1>7. CASE tx[t].kind = "bid"
  <2>1. \/ n = 0 /\ w = Update(tx[t].by)
        \/ w = KeyShare(auction[r].leader) /\ HasLeader(r)
    BY <1>2, <1>7 DEF Planned, Plan, BidPlan
  <2>2. QED
    BY <1>1, <1>3, <1>4, <1>5, <1>7, <2>1 DEF Sound
<1>8. CASE tx[t].kind = "settle"
  <2>1. \/ w = NoKeyUpdate(auction[r].item)
        \/ w = KeyShare(auction[r].leader) /\ HasLeader(r)
        \/ w = NoKeyUpdate(auction[r].seller)
    BY <1>2, <1>8 DEF Planned, Plan, SettlePlan
  <2>2. QED
    BY <1>1, <1>4, <1>5, <1>6, <1>8, <2>1 DEF Sound
<1>9. CASE tx[t].kind = "buy"
  <2>1. (n = 0 /\ w = Update(tx[t].by)) \/ w = NoKeyUpdate(owner[r])
    BY <1>2, <1>9 DEF Planned, Plan, BuyPlan
  <2>2. owner[r] \in Guilds /\ tx[t].by \in Guilds
    BY <1>1, <1>9 DEF Sound, Guarded, TypeOK
  <2>3. QED
    BY <1>3, <1>4, <1>6, <1>9, <2>1, <2>2
<1>10. CASE tx[t].kind = "start"
  <2>1. w = KeyShare(r) \/ w = KeyShare(tx[t].by)
    BY <1>2, <1>10 DEF Planned, Plan, StartPlan
  <2>2. QED
    BY <1>1, <1>4, <1>10, <2>1 DEF Sound
<1>11. CASE tx[t].kind \in {"list", "deposit", "mint"}
  BY <1>2, <1>11 DEF Planned, Plan
<1>12. QED
  BY <1>1, <1>7, <1>8, <1>9, <1>10, <1>11 DEF AllKinds

\* A settlement that waits has not the seller's row: it updates that last.
LEMMA SettlementHolds ==
    ASSUME Guarded, NEW t \in Txs, tx[t].kind = "settle", tx[t].plan # <<>>, NEW l \in held[t]
    PROVE  \/ l = Update(tx[t].on)
           \/ l = NoKeyUpdate(auction[tx[t].on].item)
           \/ l = KeyShare(auction[tx[t].on].leader)
<1>1. PICK n \in Nat : Reached(t, n) /\ n + 1 \in 1..Len(Planned(t))
  BY Waiting
<1>2. l = Update(tx[t].on) \/ \E k \in 1..n : l = Planned(t)[k]
  BY <1>1 DEF Reached, FirstOf, First
<1>3. ASSUME NEW k \in 1..n, l = Planned(t)[k]
      PROVE  \/ l = NoKeyUpdate(auction[tx[t].on].item)
             \/ l = KeyShare(auction[tx[t].on].leader)
  <2>1. k \in 1..2 /\ k + 1 \in 1..Len(Planned(t)) + 1 /\ k < Len(Planned(t))
    BY <1>1, <1>3 DEF Planned, Plan, SettlePlan
  <2>2. QED
    BY <1>3, <2>1 DEF Planned, Plan, SettlePlan
<1>4. QED
  BY <1>2, <1>3

\* Whoever waits for a waiting settlement is a bid or a purchase before its
\* guild's row, and holds the row it is about and no other.
LEMMA WaitsForSettlement ==
    ASSUME Guarded, NEW t \in Txs, NEW v \in Txs, tx[t].kind = "settle", tx[t].plan # <<>>,
           Waits(v, t)
    PROVE  tx[v].kind \in {"bid", "buy"} /\ held[v] = {FirstOf(v)}
<1>1. PICK l \in held[t] : Conflict(l, Wanted(v))
  BY DEF Waits, Blockers
<1>2. tx[v].plan # <<>> /\ v # t
  BY DEF Waits, Blockers
<1>3. Sound("settle", tx[t].on, tx[t].by) /\ Open(t) /\ Open(v)
  BY <1>2, Waiting, OpenTyped
<1>4. l.row = Wanted(v).row /\ {l.mode, Wanted(v).mode} \in Conflicting
  BY <1>1 DEF Conflict
<1>5. CASE l = Update(tx[t].on)
  <2>1. tx[t].on \in Auctions /\ tx[t].on = Wanted(v).row
    BY <1>3, <1>4, <1>5 DEF Sound, Existing, Update
  <2>2. QED
    BY <1>2, <2>1, WantedLock, RowAssumption, OwnerAssumption
<1>6. CASE l = NoKeyUpdate(auction[tx[t].on].item)
  <2>1. Wanted(v).mode \in {"Update", "NoKeyUpdate"} /\ Wanted(v).row = auction[tx[t].on].item
    BY <1>4, <1>6 DEF Conflicting, NoKeyUpdate
  <2>2. auction[tx[t].on].item \in Items
    BY <1>3, OwnerAssumption DEF Sound, Guarded, OneSale
  <2>3. CASE Wanted(v).mode = "NoKeyUpdate"
    <3>1. tx[v].kind = "settle" /\ auction[tx[v].on].item = auction[tx[t].on].item
      BY <1>2, <2>1, <2>2, <2>3, WantedLock
    <3>2. Sound("settle", tx[v].on, tx[v].by)
      BY <1>3, <3>1, OpenTyped
    <3>3. tx[v].on = tx[t].on
      BY <1>3, <3>1, <3>2 DEF Sound, Guarded, OneSale
    <3>4. QED
      BY <1>2, <1>3, <3>1, <3>3, OneOnRow
  <2>4. QED
    BY <1>2, <2>1, <2>3, WantedLock
<1>7. CASE l = KeyShare(auction[tx[t].on].leader)
  <2>1. Wanted(v).mode = "Update"
    BY <1>4, <1>7 DEF Conflicting, KeyShare
  <2>2. QED
    BY <1>2, <2>1, WantedLock
<1>8. QED
  BY <1>5, <1>6, <1>7, SettlementHolds

\* Nobody waits for the row a bid or a purchase is about: those who want it
\* want it first.
LEMMA NobodyBehind ==
    ASSUME Guarded, NEW v \in Txs, NEW w \in Txs, tx[v].kind \in {"bid", "buy"},
           held[v] = {FirstOf(v)}
    PROVE  ~Waits(w, v)
<1> SUFFICES ASSUME Waits(w, v) PROVE FALSE
  OBVIOUS
<1>1. Conflict(FirstOf(v), Wanted(w)) /\ tx[w].plan # <<>>
  BY DEF Waits, Blockers
<1>2. Sound(tx[v].kind, tx[v].on, tx[v].by)
  BY OpenTyped DEF Open
<1>3. Wanted(w).row = tx[v].on
  BY <1>1 DEF Conflict, FirstOf, First, Update
<1>4. tx[v].on \in Auctions \cup (Items \ Legendary)
  BY <1>2 DEF Sound, Existing
<1>5. QED
  BY <1>1, <1>3, <1>4, WantedLock, RowAssumption, OwnerAssumption

\* No circle of waiting transactions goes through a settlement.
THEOREM SettlementsFree == Spec => []SettlementNeverDeadlocks
<1>1. ASSUME Guarded PROVE SettlementNeverDeadlocks
  <2> SUFFICES ASSUME NEW t \in Txs, tx[t].kind = "settle", InCycle(t) PROVE FALSE
    BY DEF SettlementNeverDeadlocks
  <2>1. PICK n \in 2..Cardinality(Txs) : \E c \in [1..n -> Txs] :
          c[1] = t /\ Waits(c[n], t) /\ \A k \in 1..(n - 1) : Waits(c[k], c[k + 1])
    BY DEF InCycle
  <2>2. PICK c \in [1..n -> Txs] :
          Waits(c[n], t) /\ \A k \in 1..(n - 1) : Waits(c[k], c[k + 1])
    BY <2>1
  <2>3. n \in 1..n /\ n - 1 \in 1..n /\ n - 1 \in 1..(n - 1) /\ (n - 1) + 1 = n
    OBVIOUS
  <2>4. c[n] \in Txs /\ c[n - 1] \in Txs /\ Waits(c[n - 1], c[n])
    BY <2>2, <2>3
  <2>5. tx[c[n]].kind \in {"bid", "buy"} /\ held[c[n]] = {FirstOf(c[n])}
    BY <1>1, <2>2, <2>4, WaitsForSettlement DEF InCycle, Blocked
  <2>6. QED
    BY <1>1, <2>4, <2>5, NobodyBehind
<1>2. QED
  BY AlwaysGuarded, <1>1, PTL
=============================================================================
