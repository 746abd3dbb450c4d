----------------------------- MODULE BooksProofs -----------------------------
(***************************************************************************)
(* What the marketplace's guilds own, owe and have on record, in every     *)
(* reachable state of the running program: nobody promises more than it    *)
(* has, free gold moves only with an entry or an auction that ends, what   *)
(* is on record stays, and a listing is off by no more rows than others    *)
(* have moved while it was read.                                           *)
(*                                                                         *)
(* Each effect of Market is taken apart into the rows it lays over the     *)
(* tables, one after the other.  Of each row it is said by how much it     *)
(* shifts the numbers of a guild (Shift), and that it overwrites no record *)
(* (Stands), and which guild, item or auction it brings into a listing or  *)
(* takes out of one (Turns); all three add up along an effect.             *)
(***************************************************************************)
EXTENDS ImplementationProofs

-----------------------------------------------------------------------------
(* One row.                                                                *)

\* What may be in row r, whatever it refers to
Fits(r, v) ==
    /\ r = <<r[1], r[2]>>
    /\ r[1] = "guild" => GuildColumns(v)
    /\ r[1] = "item" => ItemColumns(v)
    /\ r[1] = "auction" => AuctionColumns(v)
    /\ r[1] = "bid" => BidColumns(v)
    /\ r[1] = "daily" => v \in Nat
    /\ r[1] = "log" => LogColumns(v)

LEMMA PutTyped ==
    ASSUME NEW t, Typed(t), NEW r, NEW v, Fits(r, v)
    PROVE  Typed(Write(t, OneRow(r, v)))
<1> DEFINE u == Write(t, OneRow(r, v))
<1>1. DOMAIN u = DOMAIN t \cup {r}
  BY PutDomain
<1>2. u[r] = v /\ \A x \in DOMAIN t : x # r => u[x] = t[x]
  BY PutRow, PutOthers
<1>3. Table(u)
  BY PutTable
<1> HIDE DEF u
<1>4. IsFiniteSet(DOMAIN u)
  BY <1>1, FS_AddElement DEF Typed
<1>5. Typed(u)
  BY <1>1, <1>2, <1>3, <1>4 DEF Typed, Fits, Table
<1>6. QED
  BY <1>5 DEF u

-----------------------------------------------------------------------------
(* Sums.                                                                   *)

LEMMA LoggedInt == ASSUME NEW t, Typed(t), NEW g PROVE Logged(t, g) \in Int
<1> DEFINE s == Entries(t, g)
           f == [k \in s |-> t[Log(k)].amount]
<1>1. IsFiniteSet(s)
  BY KeysFinite, FS_Subset DEF Entries
<1>2. \A k \in s : t[Log(k)].amount \in Int
  <2> SUFFICES ASSUME NEW k \in s PROVE t[Log(k)].amount \in Int
    OBVIOUS
  <2>1. Log(k) \in DOMAIN t
    BY KeysAreNames DEF Entries
  <2>2. LogColumns(t[Log(k)])
    BY <2>1, Names DEF Typed
  <2>3. QED
    BY <2>2 DEF LogColumns
<1>3. f \in [s -> Int]
  BY <1>2
<1>4. QED
  BY <1>1, <1>3, SumType DEF Logged

LEMMA ProceedsInt == ASSUME NEW t, Typed(t), NEW g PROVE Proceeds(t, g) \in Int
<1> DEFINE s == SoldBy(t, g)
           f == [a \in s |-> t[Auction(a)].high]
<1>1. IsFiniteSet(s)
  BY KeysFinite, FS_Subset DEF SoldBy
<1>2. \A a \in s : t[Auction(a)].high \in Int
  <2> SUFFICES ASSUME NEW a \in s PROVE t[Auction(a)].high \in Int
    OBVIOUS
  <2>1. Auction(a) \in DOMAIN t
    BY KeysAreNames DEF SoldBy
  <2>2. AuctionColumns(t[Auction(a)])
    BY <2>1, Names DEF Typed
  <2>3. QED
    BY <2>2 DEF AuctionColumns
<1>3. f \in [s -> Int]
  BY <1>2
<1>4. QED
  BY <1>1, <1>3, SumType DEF Proceeds

\* The entries of a guild, told by their rows
LEMMA EntryRow ==
    ASSUME NEW t, Typed(t), NEW g, NEW k
    PROVE  k \in Entries(t, g) <=> Log(k) \in DOMAIN t /\ t[Log(k)].guild = g
BY KeysAreNames DEF Entries

LEMMA SoldRow ==
    ASSUME NEW t, Typed(t), NEW g, NEW a
    PROVE  a \in SoldBy(t, g) <=> /\ Auction(a) \in DOMAIN t /\ t[Auction(a)].seller = g
                                  /\ t[Auction(a)].status = "ended"
BY KeysAreNames DEF SoldBy

LEMMA PromiseRow ==
    ASSUME NEW t, Typed(t), NEW g, NEW b
    PROVE  b \in ActiveBids(t, g) <=> Bid(b) \in DOMAIN t /\ t[Bid(b)].bidder = g /\ t[Bid(b)].active
BY KeysAreNames DEF ActiveBids

LEMMA SameLogged ==
    ASSUME NEW t, NEW u, NEW g, Typed(t), Typed(u),
           \A k : (Log(k) \in DOMAIN t /\ t[Log(k)].guild = g) \/ (Log(k) \in DOMAIN u /\ u[Log(k)].guild = g)
                    => Log(k) \in DOMAIN t /\ Log(k) \in DOMAIN u /\ u[Log(k)] = t[Log(k)]
    PROVE  Logged(u, g) = Logged(t, g)
<1>1. Entries(u, g) = Entries(t, g)
  BY EntryRow
<1>2. \A k \in Entries(t, g) : u[Log(k)].amount = t[Log(k)].amount
  BY EntryRow
<1>3. [k \in Entries(t, g) |-> u[Log(k)].amount] = [k \in Entries(t, g) |-> t[Log(k)].amount]
  BY <1>2
<1>4. QED
  BY <1>1, <1>3 DEF Logged

LEMMA SameProceeds ==
    ASSUME NEW t, NEW u, NEW g, Typed(t), Typed(u),
           \A a : a \in SoldBy(t, g) \/ a \in SoldBy(u, g)
                    => /\ a \in SoldBy(t, g) /\ a \in SoldBy(u, g)
                       /\ u[Auction(a)].high = t[Auction(a)].high
    PROVE  Proceeds(u, g) = Proceeds(t, g)
<1>1. SoldBy(u, g) = SoldBy(t, g)
  OBVIOUS
<1>2. \A a \in SoldBy(t, g) : u[Auction(a)].high = t[Auction(a)].high
  OBVIOUS
<1>3. [a \in SoldBy(t, g) |-> u[Auction(a)].high] = [a \in SoldBy(t, g) |-> t[Auction(a)].high]
  BY <1>2
<1>4. QED
  BY <1>1, <1>3 DEF Proceeds

\* One more bid, entry or auction that has ended
LEMMA NewReserved ==
    ASSUME NEW t, NEW u, NEW g, Typed(t), Typed(u), NEW b, b \notin ActiveBids(t, g),
           ActiveBids(u, g) = ActiveBids(t, g) \cup {b},
           \A x \in ActiveBids(t, g) : u[Bid(x)].amount = t[Bid(x)].amount
    PROVE  Reserved(u, g) = Reserved(t, g) + u[Bid(b)].amount
<1> DEFINE S == ActiveBids(t, g)
           T == ActiveBids(u, g)
           f == [x \in S |-> t[Bid(x)].amount]
           h == [x \in T |-> u[Bid(x)].amount]
<1>1. IsFiniteSet(S)
  BY KeysFinite, FS_Subset DEF ActiveBids
<1>2. (\A x \in S : t[Bid(x)].amount \in Int) /\ (\A x \in T : u[Bid(x)].amount \in Int)
  <2>1. ASSUME NEW w \in {t, u}, NEW x \in ActiveBids(w, g) PROVE w[Bid(x)].amount \in Int
    <3>1. Bid(x) \in DOMAIN w
      BY <2>1, PromiseRow
    <3>2. BidColumns(w[Bid(x)])
      BY <2>1, <3>1, Names DEF Typed
    <3>3. QED
      BY <3>2 DEF BidColumns
  <2>2. QED
    BY <2>1
<1>3. f \in [S -> Int] /\ h \in [T -> Int]
  BY <1>2
<1>4. b \in T /\ T = S \cup {b} /\ b \notin S
  OBVIOUS
<1>5. \A x \in S : h[x] = f[x]
  BY <1>4
<1>6. h[b] = u[Bid(b)].amount
  BY <1>4
<1>7. Reserved(u, g) = SumFunctionOnSet(h, T) /\ Reserved(t, g) = SumFunctionOnSet(f, S)
  BY DEF Reserved
<1> HIDE DEF S, T, f, h
<1>8. SumFunctionOnSet(h, T) = SumFunctionOnSet(f, S) + h[b]
  BY <1>1, <1>3, <1>4, <1>5, SumAdded
<1>9. QED
  BY <1>6, <1>7, <1>8

LEMMA NewLogged ==
    ASSUME NEW t, NEW u, NEW g, Typed(t), Typed(u), NEW k, k \notin Entries(t, g),
           Entries(u, g) = Entries(t, g) \cup {k},
           \A x \in Entries(t, g) : u[Log(x)].amount = t[Log(x)].amount
    PROVE  Logged(u, g) = Logged(t, g) + u[Log(k)].amount
<1> DEFINE S == Entries(t, g)
           T == Entries(u, g)
           f == [x \in S |-> t[Log(x)].amount]
           h == [x \in T |-> u[Log(x)].amount]
<1>1. IsFiniteSet(S)
  BY KeysFinite, FS_Subset DEF Entries
<1>2. (\A x \in S : t[Log(x)].amount \in Int) /\ (\A x \in T : u[Log(x)].amount \in Int)
  <2>1. ASSUME NEW w \in {t, u}, NEW x \in Entries(w, g) PROVE w[Log(x)].amount \in Int
    <3>1. Log(x) \in DOMAIN w
      BY <2>1, EntryRow
    <3>2. LogColumns(w[Log(x)])
      BY <2>1, <3>1, Names DEF Typed
    <3>3. QED
      BY <3>2 DEF LogColumns
  <2>2. QED
    BY <2>1
<1>3. f \in [S -> Int] /\ h \in [T -> Int]
  BY <1>2
<1>4. k \in T /\ T = S \cup {k} /\ k \notin S
  OBVIOUS
<1>5. \A x \in S : h[x] = f[x]
  BY <1>4
<1>6. h[k] = u[Log(k)].amount
  BY <1>4
<1>7. Logged(u, g) = SumFunctionOnSet(h, T) /\ Logged(t, g) = SumFunctionOnSet(f, S)
  BY DEF Logged
<1> HIDE DEF S, T, f, h
<1>8. SumFunctionOnSet(h, T) = SumFunctionOnSet(f, S) + h[k]
  BY <1>1, <1>3, <1>4, <1>5, SumAdded
<1>9. QED
  BY <1>6, <1>7, <1>8

LEMMA NewProceeds ==
    ASSUME NEW t, NEW u, NEW g, Typed(t), Typed(u), NEW a, a \notin SoldBy(t, g),
           SoldBy(u, g) = SoldBy(t, g) \cup {a},
           \A x \in SoldBy(t, g) : u[Auction(x)].high = t[Auction(x)].high
    PROVE  Proceeds(u, g) = Proceeds(t, g) + u[Auction(a)].high
<1> DEFINE S == SoldBy(t, g)
           T == SoldBy(u, g)
           f == [x \in S |-> t[Auction(x)].high]
           h == [x \in T |-> u[Auction(x)].high]
<1>1. IsFiniteSet(S)
  BY KeysFinite, FS_Subset DEF SoldBy
<1>2. (\A x \in S : t[Auction(x)].high \in Int) /\ (\A x \in T : u[Auction(x)].high \in Int)
  <2>1. ASSUME NEW w \in {t, u}, NEW x \in SoldBy(w, g) PROVE w[Auction(x)].high \in Int
    <3>1. Auction(x) \in DOMAIN w
      BY <2>1, SoldRow
    <3>2. AuctionColumns(w[Auction(x)])
      BY <2>1, <3>1, Names DEF Typed
    <3>3. QED
      BY <3>2 DEF AuctionColumns
  <2>2. QED
    BY <2>1
<1>3. f \in [S -> Int] /\ h \in [T -> Int]
  BY <1>2
<1>4. a \in T /\ T = S \cup {a} /\ a \notin S
  OBVIOUS
<1>5. \A x \in S : h[x] = f[x]
  BY <1>4
<1>6. h[a] = u[Auction(a)].high
  BY <1>4
<1>7. Proceeds(u, g) = SumFunctionOnSet(h, T) /\ Proceeds(t, g) = SumFunctionOnSet(f, S)
  BY DEF Proceeds
<1> HIDE DEF S, T, f, h
<1>8. SumFunctionOnSet(h, T) = SumFunctionOnSet(f, S) + h[a]
  BY <1>1, <1>3, <1>4, <1>5, SumAdded
<1>9. QED
  BY <1>6, <1>7, <1>8

-----------------------------------------------------------------------------
(* What a change of the tables does to the numbers of guild g.             *)

Shift(t, u, g, gold, reserved, logged, proceeds, spent) ==
    /\ Guild(g) \in DOMAIN u
    /\ u[Guild(g)].gold = t[Guild(g)].gold + gold /\ u[Guild(g)].limit = t[Guild(g)].limit
    /\ Reserved(u, g) = Reserved(t, g) + reserved
    /\ Logged(u, g) = Logged(t, g) + logged
    /\ Proceeds(u, g) = Proceeds(t, g) + proceeds
    /\ GetDailySpent(u, g) = GetDailySpent(t, g) + spent

\* What is on record in t is so in u.
Stands(t, u) ==
    \A r \in DOMAIN t :
      /\ r \in DOMAIN u
      /\ r[1] \in {"log", "bid"} => u[r] = t[r]
      /\ (r[1] = "auction" /\ t[r].status # "active") => u[r] = t[r]

\* u is t with a row that founds no guild.
Lays(t, u) ==
    /\ Typed(u) /\ Stands(t, u)
    /\ \A g : Guild(g) \in DOMAIN u <=> Guild(g) \in DOMAIN t

LEMMA NumbersInt ==
    ASSUME NEW t, Typed(t), NEW g, Guild(g) \in DOMAIN t
    PROVE  /\ t[Guild(g)].gold \in Nat /\ t[Guild(g)].limit \in Int
           /\ Reserved(t, g) \in Int /\ Logged(t, g) \in Int
           /\ Proceeds(t, g) \in Int /\ GetDailySpent(t, g) \in Nat
<1>1. GuildColumns(t[Guild(g)])
  BY Names DEF Typed
<1>2. GetDailySpent(t, g) \in Nat
  BY Names DEF Typed, GetDailySpent
<1>3. Reserved(t, g) \in Int /\ Logged(t, g) \in Int /\ Proceeds(t, g) \in Int
  BY ReservedInt, LoggedInt, ProceedsInt
<1>4. QED
  BY <1>1, <1>2, <1>3 DEF GuildColumns

\* Nobody reserves less than nothing.
LEMMA ReservedNat == ASSUME NEW t, Typed(t), NEW g PROVE Reserved(t, g) \in Nat
<1> DEFINE s == ActiveBids(t, g)
           f == [b \in s |-> t[Bid(b)].amount]
<1>1. IsFiniteSet(s)
  BY KeysFinite, FS_Subset DEF ActiveBids
<1>2. \A b \in s : f[b] \in Nat
  BY PromiseRow, Names DEF Typed, BidColumns
<1>3. QED
  BY <1>1, <1>2, SumNat DEF Reserved

LEMMA ShiftsAdd ==
    ASSUME NEW t, Typed(t), NEW u, NEW v, NEW g, Guild(g) \in DOMAIN t,
           NEW a \in Int, NEW b \in Int, NEW c \in Int, NEW d \in Int, NEW e \in Int,
           NEW h \in Int, NEW i \in Int, NEW j \in Int, NEW k \in Int, NEW l \in Int,
           Shift(t, u, g, a, b, c, d, e), Shift(u, v, g, h, i, j, k, l)
    PROVE  Shift(t, v, g, a + h, b + i, c + j, d + k, e + l)
<1> DEFINE x == t[Guild(g)].gold
           m == Reserved(t, g)
           n == Logged(t, g)
           o == Proceeds(t, g)
           p == GetDailySpent(t, g)
<1>1. x \in Int /\ m \in Int /\ n \in Int /\ o \in Int /\ p \in Int
  BY NumbersInt
<1>2. /\ Guild(g) \in DOMAIN v
      /\ v[Guild(g)].gold = (x + a) + h /\ v[Guild(g)].limit = t[Guild(g)].limit
      /\ Reserved(v, g) = (m + b) + i /\ Logged(v, g) = (n + c) + j
      /\ Proceeds(v, g) = (o + d) + k /\ GetDailySpent(v, g) = (p + e) + l
  BY DEF Shift
<1> HIDE DEF x, m, n, o, p
<1>3. /\ (x + a) + h = x + (a + h) /\ (m + b) + i = m + (b + i) /\ (n + c) + j = n + (c + j)
      /\ (o + d) + k = o + (d + k) /\ (p + e) + l = p + (e + l)
  BY <1>1
<1>4. QED
  BY <1>2, <1>3 DEF Shift, x, m, n, o, p

LEMMA StandsOn == \A t, u, v : Stands(t, u) /\ Stands(u, v) => Stands(t, v)
BY DEF Stands

LEMMA LaysOn == \A t, u, v : Lays(t, u) /\ Lays(u, v) => Lays(t, v)
BY StandsOn DEF Lays

\* A row that is new, or of an item, a quota, a guild or a running auction, is laid
\* over no record.
LEMMA PutStands ==
    ASSUME NEW t, NEW r, NEW v,
           r \in DOMAIN t => \/ r[1] \notin {"log", "bid", "auction"}
                             \/ r[1] = "auction" /\ t[r].status = "active"
    PROVE  Stands(t, Write(t, OneRow(r, v)))
BY PutHas, PutOthers DEF Stands

LEMMA PutLays ==
    ASSUME NEW t, Typed(t), NEW r, NEW v, Fits(r, v),
           r \in DOMAIN t => \/ r[1] \notin {"log", "bid", "auction"}
                             \/ r[1] = "auction" /\ t[r].status = "active",
           r[1] = "guild" => r \in DOMAIN t,
           NEW u, u = Write(t, OneRow(r, v))
    PROVE  Lays(t, u) /\ Typed(u)
<1>1. Typed(u) /\ Stands(t, u)
  BY PutTyped, PutStands
<1>2. \A n : n \in DOMAIN u <=> n \in DOMAIN t \/ n = r
  BY PutHas
<1>3. \A g : Guild(g) \in DOMAIN u <=> Guild(g) \in DOMAIN t
  BY <1>2, Names
<1>4. QED
  BY <1>1, <1>3 DEF Lays

\* Rows u that leave the bids of g, its entries, its auctions, its quota, its gold.
LEMMA PutReserved ==
    ASSUME NEW t, Typed(t), NEW r, NEW v, Fits(r, v), NEW g, r[1] # "bid",
           NEW u, u = Write(t, OneRow(r, v))
    PROVE  Reserved(u, g) = Reserved(t, g)
<1>1. Typed(u)
  BY PutTyped
<1>2. ASSUME NEW b PROVE /\ Bid(b) \in DOMAIN u <=> Bid(b) \in DOMAIN t
                         /\ Bid(b) \in DOMAIN t => u[Bid(b)] = t[Bid(b)]
  BY PutHas, PutOthers, Names
<1>3. QED
  BY <1>1, <1>2, SameReserved

LEMMA PutLogged ==
    ASSUME NEW t, Typed(t), NEW r, NEW v, Fits(r, v), NEW g, r[1] # "log",
           NEW u, u = Write(t, OneRow(r, v))
    PROVE  Logged(u, g) = Logged(t, g)
<1>1. Typed(u)
  BY PutTyped
<1>2. ASSUME NEW b PROVE /\ Log(b) \in DOMAIN u <=> Log(b) \in DOMAIN t
                         /\ Log(b) \in DOMAIN t => u[Log(b)] = t[Log(b)]
  BY PutHas, PutOthers, Names
<1>3. QED
  BY <1>1, <1>2, SameLogged

LEMMA PutProceeds ==
    ASSUME NEW t, Typed(t), NEW r, NEW v, Fits(r, v), NEW g,
           r[1] = "auction" => v.status # "ended" /\ (r \in DOMAIN t => t[r].status = "active"),
           NEW u, u = Write(t, OneRow(r, v))
    PROVE  Proceeds(u, g) = Proceeds(t, g)
<1>1. Typed(u)
  BY PutTyped
<1>2. ASSUME NEW a, Auction(a) # r
      PROVE  /\ Auction(a) \in DOMAIN u <=> Auction(a) \in DOMAIN t
             /\ Auction(a) \in DOMAIN t => u[Auction(a)] = t[Auction(a)]
  BY <1>2, PutHas, PutOthers
<1>3. ASSUME NEW a, Auction(a) = r
      PROVE  a \notin SoldBy(t, g) /\ a \notin SoldBy(u, g)
  <2>1. u[r] = v
    BY PutRow
  <2>2. u[Auction(a)].status # "ended" /\ (Auction(a) \in DOMAIN t => t[Auction(a)].status # "ended")
    BY <1>3, <2>1, Names
  <2>3. QED
    BY <1>1, <2>2, SoldRow
<1>4. QED
  BY <1>1, <1>2, <1>3, SoldRow, SameProceeds

LEMMA PutSpent ==
    ASSUME NEW t, NEW r, NEW v, NEW g, r[1] # "daily", NEW u, u = Write(t, OneRow(r, v))
    PROVE  GetDailySpent(u, g) = GetDailySpent(t, g)
BY PutHas, PutOthers, Names DEF GetDailySpent

LEMMA PutGold ==
    ASSUME NEW t, NEW r, NEW v, NEW g, Guild(g) \in DOMAIN t, r # Guild(g),
           NEW u, u = Write(t, OneRow(r, v))
    PROVE  Guild(g) \in DOMAIN u /\ u[Guild(g)] = t[Guild(g)]
BY PutHas, PutOthers

-----------------------------------------------------------------------------
(* The shifts of one row.                                                  *)

\* An item, or an auction that neither has ended nor ends, is on no account.
LEMMA PutPlain ==
    ASSUME NEW t, Typed(t), NEW r, NEW v, Fits(r, v), NEW g, Guild(g) \in DOMAIN t,
           r[1] \in {"item", "auction"},
           r[1] = "auction" => v.status # "ended" /\ (r \in DOMAIN t => t[r].status = "active"),
           NEW u, u = Write(t, OneRow(r, v))
    PROVE  Shift(t, u, g, 0, 0, 0, 0, 0) /\ Lays(t, u)
<1>1. /\ Reserved(u, g) = Reserved(t, g) /\ Logged(u, g) = Logged(t, g)
      /\ Proceeds(u, g) = Proceeds(t, g) /\ GetDailySpent(u, g) = GetDailySpent(t, g)
  BY PutReserved, PutLogged, PutProceeds, PutSpent
<1>2. Guild(g) \in DOMAIN u /\ u[Guild(g)] = t[Guild(g)]
  BY PutGold, Names
<1>3. QED
  BY <1>1, <1>2, NumbersInt, PutLays DEF Shift

\* The gold of a guild
LEMMA PutGuild ==
    ASSUME NEW t, Typed(t), NEW x, Guild(x) \in DOMAIN t, NEW v, GuildColumns(v), NEW n \in Int,
           v.gold = t[Guild(x)].gold + n, v.limit = t[Guild(x)].limit,
           NEW g, Guild(g) \in DOMAIN t, NEW u, u = Write(t, OneRow(Guild(x), v))
    PROVE  Shift(t, u, g, IF g = x THEN n ELSE 0, 0, 0, 0, 0) /\ Lays(t, u)
<1>1. Fits(Guild(x), v)
  BY Names, NamesArePairs DEF Fits
<1>2. /\ Reserved(u, g) = Reserved(t, g) /\ Logged(u, g) = Logged(t, g)
      /\ Proceeds(u, g) = Proceeds(t, g) /\ GetDailySpent(u, g) = GetDailySpent(t, g)
  BY <1>1, Names, PutReserved, PutLogged, PutProceeds, PutSpent
<1>3. /\ Guild(g) \in DOMAIN u
      /\ u[Guild(g)].gold = t[Guild(g)].gold + (IF g = x THEN n ELSE 0)
      /\ u[Guild(g)].limit = t[Guild(g)].limit
  <2>1. CASE g = x
    <3>1. u[Guild(x)] = v /\ Guild(x) \in DOMAIN u
      BY PutRow, PutHas
    <3>2. QED
      BY <2>1, <3>1
  <2>2. CASE g # x
    <3>1. Guild(g) # Guild(x)
      BY <2>2, Names
    <3>2. Guild(g) \in DOMAIN u /\ u[Guild(g)] = t[Guild(g)]
      BY <3>1, PutGold
    <3>3. t[Guild(g)].gold \in Int
      BY NumbersInt
    <3>4. QED
      BY <2>2, <3>2, <3>3
  <2>3. QED
    BY <2>1, <2>2
<1>4. Lays(t, u)
  BY <1>1, Names, PutLays
<1>5. QED
  BY <1>2, <1>3, <1>4, NumbersInt DEF Shift

\* A new entry
LEMMA PutLog ==
    ASSUME NEW t, Typed(t), NEW k, Log(k) \notin DOMAIN t, NEW x, NEW type, NEW n \in Int,
           NEW g, Guild(g) \in DOMAIN t,
           NEW u, u = Write(t, LogWalletTransaction(k, x, type, n))
    PROVE  Shift(t, u, g, 0, 0, IF g = x THEN n ELSE 0, 0, 0) /\ Lays(t, u)
<1> DEFINE v == [guild |-> x, type |-> type, amount |-> n]
<1>0. u = Write(t, OneRow(Log(k), v))
  BY DEF LogWalletTransaction
<1>1. v.guild = x /\ v.amount = n /\ LogColumns(v)
  BY DEF LogColumns
<1> HIDE DEF v
<1>2. Fits(Log(k), v)
  BY <1>1, Names, NamesArePairs DEF Fits
<1>3. /\ Reserved(u, g) = Reserved(t, g) /\ Proceeds(u, g) = Proceeds(t, g)
      /\ GetDailySpent(u, g) = GetDailySpent(t, g)
  BY <1>0, <1>2, Names, PutReserved, PutProceeds, PutSpent
<1>4. Guild(g) \in DOMAIN u /\ u[Guild(g)] = t[Guild(g)]
  BY <1>0, PutGold, Names
<1>5. Lays(t, u) /\ Typed(u)
  BY <1>0, <1>1, <1>2, Names, PutLays
<1>6. u[Log(k)] = v /\ Log(k) \in DOMAIN u
  BY <1>0, PutRow, PutHas
<1>7. ASSUME NEW y, y # k
      PROVE  /\ Log(y) \in DOMAIN u <=> Log(y) \in DOMAIN t
             /\ Log(y) \in DOMAIN t => u[Log(y)] = t[Log(y)]
  BY <1>0, <1>7, PutHas, PutOthers, Names
<1>8. Logged(u, g) = Logged(t, g) + (IF g = x THEN n ELSE 0)
  <2>1. CASE g = x
    <3>1. k \notin Entries(t, g) /\ Entries(u, g) = Entries(t, g) \cup {k}
      BY <1>1, <1>5, <1>6, <1>7, <2>1, EntryRow
    <3>2. \A y \in Entries(t, g) : u[Log(y)].amount = t[Log(y)].amount
      BY <1>7, <3>1, EntryRow
    <3>3. Logged(u, g) = Logged(t, g) + u[Log(k)].amount
      BY <1>5, <3>1, <3>2, NewLogged
    <3>4. QED
      BY <1>1, <1>6, <2>1, <3>3
  <2>2. CASE g # x
    <3>1. Logged(u, g) = Logged(t, g)
      BY <1>1, <1>5, <1>6, <1>7, <2>2, SameLogged
    <3>2. QED
      BY <2>2, <3>1, LoggedInt
  <2>3. QED
    BY <2>1, <2>2
<1>9. QED
  BY <1>3, <1>4, <1>5, <1>8, NumbersInt DEF Shift

\* The quota used
LEMMA PutDaily ==
    ASSUME NEW t, Typed(t), NEW x, Guild(x) \in DOMAIN t, NEW n \in Int,
           NEW v \in Nat, v = GetDailySpent(t, x) + n,
           NEW g, Guild(g) \in DOMAIN t, NEW u, u = Write(t, OneRow(Daily(x), v))
    PROVE  Shift(t, u, g, 0, 0, 0, 0, IF g = x THEN n ELSE 0) /\ Lays(t, u)
<1>1. Fits(Daily(x), v)
  BY Names, NamesArePairs DEF Fits
<1>2. /\ Reserved(u, g) = Reserved(t, g) /\ Logged(u, g) = Logged(t, g)
      /\ Proceeds(u, g) = Proceeds(t, g)
  BY <1>1, Names, PutReserved, PutLogged, PutProceeds
<1>3. Guild(g) \in DOMAIN u /\ u[Guild(g)] = t[Guild(g)]
  BY PutGold, Names
<1>4. GetDailySpent(u, g) = GetDailySpent(t, g) + (IF g = x THEN n ELSE 0)
  <2>1. CASE g = x
    <3>1. u[Daily(x)] = v /\ Daily(x) \in DOMAIN u
      BY PutRow, PutHas
    <3>2. QED
      BY <2>1, <3>1 DEF GetDailySpent
  <2>2. CASE g # x
    <3>1. Daily(g) # Daily(x)
      BY <2>2, Names
    <3>2. GetDailySpent(u, g) = GetDailySpent(t, g)
      BY <3>1, PutHas, PutOthers DEF GetDailySpent
    <3>3. QED
      BY <2>2, <3>2, NumbersInt
  <2>3. QED
    BY <2>1, <2>2
<1>5. Lays(t, u) /\ Typed(u)
  BY <1>1, Names, PutLays
<1>6. QED
  BY <1>2, <1>3, <1>4, <1>5, NumbersInt DEF Shift

\* A new bid
LEMMA PutBid ==
    ASSUME NEW t, Typed(t), NEW b, Bid(b) \notin DOMAIN t, NEW a, NEW x, Guild(x) \in DOMAIN t,
           NEW n \in Nat \ {0},
           NEW g, Guild(g) \in DOMAIN t, NEW u, u = Write(t, CreateBid(b, a, x, n))
    PROVE  Shift(t, u, g, 0, IF g = x THEN n ELSE 0, 0, 0, 0) /\ Lays(t, u)
<1> DEFINE v == [auction |-> a, bidder |-> x, amount |-> n, active |-> TRUE]
<1>0. u = Write(t, OneRow(Bid(b), v))
  BY DEF CreateBid
<1>1. v.bidder = x /\ v.amount = n /\ v.active /\ BidColumns(v)
  BY DEF BidColumns
<1> HIDE DEF v
<1>2. Fits(Bid(b), v)
  BY <1>1, Names, NamesArePairs DEF Fits
<1>3. /\ Logged(u, g) = Logged(t, g) /\ Proceeds(u, g) = Proceeds(t, g)
      /\ GetDailySpent(u, g) = GetDailySpent(t, g)
  BY <1>0, <1>2, Names, PutLogged, PutProceeds, PutSpent
<1>4. Guild(g) \in DOMAIN u /\ u[Guild(g)] = t[Guild(g)]
  BY <1>0, PutGold, Names
<1>5. Lays(t, u) /\ Typed(u)
  BY <1>0, <1>1, <1>2, Names, PutLays
<1>6. u[Bid(b)] = v /\ Bid(b) \in DOMAIN u
  BY <1>0, PutRow, PutHas
<1>7. ASSUME NEW y, y # b
      PROVE  /\ Bid(y) \in DOMAIN u <=> Bid(y) \in DOMAIN t
             /\ Bid(y) \in DOMAIN t => u[Bid(y)] = t[Bid(y)]
  BY <1>0, <1>7, PutHas, PutOthers, Names
<1>8. Reserved(u, g) = Reserved(t, g) + (IF g = x THEN n ELSE 0)
  <2>1. CASE g = x
    <3>1. b \notin ActiveBids(t, g) /\ ActiveBids(u, g) = ActiveBids(t, g) \cup {b}
      BY <1>1, <1>5, <1>6, <1>7, <2>1, PromiseRow
    <3>2. \A y \in ActiveBids(t, g) : u[Bid(y)].amount = t[Bid(y)].amount
      BY <1>7, <3>1, PromiseRow
    <3>3. Reserved(u, g) = Reserved(t, g) + u[Bid(b)].amount
      BY <1>5, <3>1, <3>2, NewReserved
    <3>4. QED
      BY <1>1, <1>6, <2>1, <3>3
  <2>2. CASE g # x
    <3>1. Reserved(u, g) = Reserved(t, g)
      BY <1>1, <1>5, <1>6, <1>7, <2>2, SameReserved
    <3>2. QED
      BY <2>2, <3>1, ReservedInt
  <2>3. QED
    BY <2>1, <2>2
<1>9. QED
  BY <1>3, <1>4, <1>5, <1>8, NumbersInt DEF Shift

\* An auction that ends
LEMMA PutEnded ==
    ASSUME NEW t, Typed(t), NEW a, Auction(a) \in DOMAIN t, t[Auction(a)].status = "active",
           NEW v, AuctionColumns(v), v.status = "ended", NEW g, Guild(g) \in DOMAIN t,
           NEW u, u = Write(t, OneRow(Auction(a), v))
    PROVE  Shift(t, u, g, 0, 0, 0, IF g = v.seller THEN v.high ELSE 0, 0) /\ Lays(t, u)
<1>2. Fits(Auction(a), v)
  BY Names, NamesArePairs DEF Fits
<1>3. /\ Logged(u, g) = Logged(t, g) /\ Reserved(u, g) = Reserved(t, g)
      /\ GetDailySpent(u, g) = GetDailySpent(t, g)
  BY <1>2, Names, PutLogged, PutReserved, PutSpent
<1>4. Guild(g) \in DOMAIN u /\ u[Guild(g)] = t[Guild(g)]
  BY PutGold, Names
<1>5. Lays(t, u) /\ Typed(u)
  BY <1>2, Names, PutLays
<1>6. u[Auction(a)] = v /\ Auction(a) \in DOMAIN u
  BY PutRow, PutHas
<1>7. ASSUME NEW y, y # a
      PROVE  /\ Auction(y) \in DOMAIN u <=> Auction(y) \in DOMAIN t
             /\ Auction(y) \in DOMAIN t => u[Auction(y)] = t[Auction(y)]
  BY <1>7, PutHas, PutOthers, Names
<1>8. Proceeds(u, g) = Proceeds(t, g) + (IF g = v.seller THEN v.high ELSE 0)
  <2>0. a \notin SoldBy(t, g)
    BY SoldRow
  <2>1. CASE g = v.seller
    <3>1. SoldBy(u, g) = SoldBy(t, g) \cup {a}
      BY <1>5, <1>6, <1>7, <2>0, <2>1, SoldRow
    <3>2. \A y \in SoldBy(t, g) : u[Auction(y)].high = t[Auction(y)].high
      BY <1>7, <2>0, SoldRow
    <3>3. Proceeds(u, g) = Proceeds(t, g) + u[Auction(a)].high
      BY <1>5, <2>0, <3>1, <3>2, NewProceeds
    <3>4. QED
      BY <1>6, <2>1, <3>3
  <2>2. CASE g # v.seller
    <3>1. Proceeds(u, g) = Proceeds(t, g)
      BY <1>5, <1>6, <1>7, <2>0, <2>2, SoldRow, SameProceeds
    <3>2. QED
      BY <2>2, <3>1, ProceedsInt
  <2>3. QED
    BY <2>1, <2>2
<1>9. QED
  BY <1>3, <1>4, <1>5, <1>8, NumbersInt DEF Shift

-----------------------------------------------------------------------------
(* The shifts of an effect.                                                *)

\* How an effect of Market touches guild g: what it gains in free gold is entered or
\* paid for an auction; what it spends it could pay, and used its quota for.
Posted(g) ==
    /\ Lays(db, db')
    /\ \E gold, reserved, logged, proceeds, spent \in Int :
         /\ Shift(db, db', g, gold, reserved, logged, proceeds, spent)
         /\ gold - reserved = logged + proceeds
         /\ \/ spent = 0 /\ reserved <= gold
            \/ spent = reserved - gold /\ CanPay(db, g, spent)

\* The same, with the numbers given
LEMMA Posts ==
    ASSUME NEW g, NEW a \in Int, NEW b \in Int, NEW c \in Int, NEW d \in Int, NEW e \in Int,
           Shift(db, db', g, a, b, c, d, e), a - b = c + d,
           (e = 0 /\ b <= a) \/ (e = b - a /\ CanPay(db, g, e)), Lays(db, db')
    PROVE  Posted(g)
BY DEF Posted

\* Items and auctions that do not end are on no account.
LEMMA PlainPosts ==
    ASSUME Sound(db), NEW r, NEW v, Fits(r, v), r[1] \in {"item", "auction"},
           r[1] = "auction" => v.status # "ended" /\ (r \in DOMAIN db => db[r].status = "active"),
           db' = Write(db, OneRow(r, v)), NEW g, Guild(g) \in DOMAIN db
    PROVE  Posted(g)
<1>1. Shift(db, db', g, 0, 0, 0, 0, 0) /\ Lays(db, db')
  BY PutPlain DEF Sound
<1>2. 0 \in Int /\ 0 - 0 = 0 + 0 /\ 0 <= 0
  OBVIOUS
<1>3. QED
  BY <1>1, <1>2 DEF Posted

LEMMA MintPosts ==
    ASSUME Sound(db), NEW k, Promise!Mint(k), NEW g, Guild(g) \in DOMAIN db
    PROVE  Posted(g)
<1> DEFINE v == [name |-> k.name, kind |-> k.kind, owner |-> k.guild, status |-> "sold", price |-> 0]
<1>1. db' = Write(db, OneRow(Item(k.id), v))
  BY PromiseRows, PromiseItem DEF Promise!Mint, CreateItem
<1>2. ItemColumns(v)
  BY DEF ItemColumns
<1> HIDE DEF v
<1>3. Fits(Item(k.id), v)
  BY <1>2, Names, NamesArePairs DEF Fits
<1>4. QED
  BY <1>1, <1>3, Names, PlainPosts

LEMMA OfferPosts ==
    ASSUME Sound(db), NEW k, Promise!Offer(k), NEW g, Guild(g) \in DOMAIN db
    PROVE  Posted(g)
<1> DEFINE o == db[Item(k.item)]
           v == [o EXCEPT !.status = "available"]
<1>1. db' = Write(db, OneRow(Item(k.item), v)) /\ Item(k.item) \in DOMAIN db
  BY PromiseRows, PromiseNames, PromiseStatus DEF Promise!Offer, UpdateItemStatus
<1>2. ItemColumns(o)
  BY <1>1, SoundOwner
<1>3. ItemColumns(v)
  BY <1>2 DEF ItemColumns
<1> HIDE DEF v
<1>4. Fits(Item(k.item), v)
  BY <1>3, Names, NamesArePairs DEF Fits
<1>5. QED
  BY <1>1, <1>4, Names, PlainPosts

LEMMA OpenPosts ==
    ASSUME Sound(db), NEW k, k.amount \in Int, Promise!Open(k), NEW g, Guild(g) \in DOMAIN db
    PROVE  Posted(g)
<1> DEFINE v == [status |-> "active", item |-> k.item, seller |-> k.guild, start |-> k.amount,
                 high |-> 0, winner |-> Nobody]
<1>1. db' = Write(db, OneRow(Auction(k.id), v)) /\ Auction(k.id) \notin DOMAIN db
  BY PromiseRows, PromiseNames, PromiseAuction DEF Promise!Open, CreateAuction
<1>2. AuctionColumns(v) /\ v.status # "ended"
  BY DEF AuctionColumns
<1> HIDE DEF v
<1>3. Fits(Auction(k.id), v)
  BY <1>2, Names, NamesArePairs DEF Fits
<1>4. QED
  BY <1>1, <1>2, <1>3, Names, PlainPosts

\* A deposit: gold and an entry
LEMMA DepositPosts ==
    ASSUME Sound(db), NEW k, k.amount \in Int, Promise!DepositGold(k), NEW g, Guild(g) \in DOMAIN db
    PROVE  Posted(g)
<1> DEFINE t == Write(db, UpdateGuildBalance(db, k.guild, k.amount))
           n == IF g = k.guild THEN k.amount ELSE 0
           o == db[Guild(k.guild)]
           v == [o EXCEPT !.gold = @ + k.amount]
<1>1. /\ db' = Write(db, Write(UpdateGuildBalance(db, k.guild, k.amount),
                               LogWalletTransaction(<<k.id, 1>>, k.guild, "deposit", k.amount)))
      /\ Guild(k.guild) \in DOMAIN db /\ Log(<<k.id, 1>>) \notin DOMAIN db /\ k.amount > 0
  BY PromiseRows, PromiseNames, PromiseBalance, PromiseLog DEF Promise!DepositGold
<1>2. t = Write(db, OneRow(Guild(k.guild), v))
  BY DEF UpdateGuildBalance
<1>3. db' = Write(t, LogWalletTransaction(<<k.id, 1>>, k.guild, "deposit", k.amount))
  BY <1>1, WriteAssociates
<1>4. GuildColumns(o)
  BY <1>1, GuildRow
<1>5. GuildColumns(v) /\ v.gold = o.gold + k.amount /\ v.limit = o.limit
  BY <1>1, <1>4 DEF GuildColumns
<1> HIDE DEF t, v
<1>6. Shift(db, t, g, n, 0, 0, 0, 0) /\ Lays(db, t)
  BY <1>1, <1>2, <1>5, PutGuild DEF Sound
<1>7. Typed(db) /\ Typed(t) /\ Guild(g) \in DOMAIN t /\ Log(<<k.id, 1>>) \notin DOMAIN t
  BY <1>1, <1>2, <1>6, PutHas, Names DEF Lays, Sound
<1>8. Shift(t, db', g, 0, 0, n, 0, 0) /\ Lays(t, db')
  BY <1>3, <1>7, PutLog
<1>9. n \in Int /\ n >= 0
  BY <1>1
<1> HIDE DEF n
<1>10. Shift(db, db', g, n + 0, 0 + 0, 0 + n, 0 + 0, 0 + 0)
  BY <1>6, <1>7, <1>8, <1>9, ShiftsAdd
<1>11. Shift(db, db', g, n, 0, n, 0, 0)
  BY <1>9, <1>10
<1>12. Lays(db, db')
  BY <1>6, <1>8, LaysOn
<1>13. QED
  BY <1>9, <1>11, <1>12, Posts

\* The rows of a sale
LEMMA SellRows ==
    ASSUME NEW k, Promise!Sell(k)
    PROVE  LET o == db[Item(k.item)]  n == o.price  x == k.guild  y == o.owner IN
           /\ db' = Write(db, Write(Write(Write(UpdateGuildBalance(db, x, -n),
                                                UpdateGuildBalance(db, y, n)),
                                          Write(TransferItemOwnership(db, k.item, x, "sold"),
                                                UpsertDailyPurchase(db, x, n))),
                                    Write(LogWalletTransaction(<<k.id, 1>>, x, "purchase", -n),
                                          LogWalletTransaction(<<k.id, 2>>, y, "refund", n))))
           /\ Item(k.item) \in DOMAIN db /\ o.status = "available"
           /\ n # 0 /\ y # x /\ CanPay(db, x, n)
           /\ Log(<<k.id, 1>>) \notin DOMAIN db /\ Log(<<k.id, 2>>) \notin DOMAIN db
<1> DEFINE o == db[Item(k.item)]
           n == o.price
           x == k.guild
           y == o.owner
           c == UpdateGuildBalance(db, x, -n)
           s == UpdateGuildBalance(db, y, n)
           i == TransferItemOwnership(db, k.item, x, "sold")
           d == UpsertDailyPurchase(db, x, n)
           l == LogWalletTransaction(<<k.id, 1>>, x, "purchase", -n)
           m == LogWalletTransaction(<<k.id, 2>>, y, "refund", n)
<1>1. /\ db' = Promise!Write(db, Promise!Both(Promise!Both(Promise!Both(c, s), Promise!Both(i, d)),
                                              Promise!Both(l, m)))
      /\ Item(k.item) \in DOMAIN db /\ o.status = "available" /\ n # 0 /\ y # x
      /\ Promise!MaySpend(x, n)
      /\ Log(<<k.id, 1>>) \notin DOMAIN db /\ Log(<<k.id, 2>>) \notin DOMAIN db
  BY PromiseNames, PromiseBalance, PromiseTransfer, PromiseQuota, PromiseLog DEF Promise!Sell
<1>2. /\ db' = Write(db, Write(Write(Write(c, s), Write(i, d)), Write(l, m)))
      /\ Item(k.item) \in DOMAIN db /\ o.status = "available" /\ n # 0 /\ y # x /\ CanPay(db, x, n)
      /\ Log(<<k.id, 1>>) \notin DOMAIN db /\ Log(<<k.id, 2>>) \notin DOMAIN db
  <2> HIDE DEF c, s, i, d, l, m
  <2>1. QED
    BY <1>1, PromiseRows, MaySpendMeans
<1>3. QED
  BY <1>2

\* A sale: gold of both, the item, the buyer's quota, an entry for each
LEMMA SellPosts ==
    ASSUME Sound(db), NEW k, Promise!Sell(k), NEW g, Guild(g) \in DOMAIN db
    PROVE  Posted(g)
<1> DEFINE o == db[Item(k.item)]
           n == o.price
           x == k.guild
           y == o.owner
           c == UpdateGuildBalance(db, x, -n)
           s == UpdateGuildBalance(db, y, n)
           i == TransferItemOwnership(db, k.item, x, "sold")
           d == UpsertDailyPurchase(db, x, n)
           l == LogWalletTransaction(<<k.id, 1>>, x, "purchase", -n)
           m == LogWalletTransaction(<<k.id, 2>>, y, "refund", n)
           t1 == Write(db, c)
           t2 == Write(t1, s)
           t3 == Write(t2, i)
           t4 == Write(t3, d)
           t5 == Write(t4, l)
           paid == IF g = x THEN -n ELSE 0
           got == IF g = y THEN n ELSE 0
           used == IF g = x THEN n ELSE 0
<1>1. /\ db' = Write(db, Write(Write(Write(c, s), Write(i, d)), Write(l, m)))
      /\ Item(k.item) \in DOMAIN db /\ n # 0 /\ y # x /\ CanPay(db, x, n)
      /\ Log(<<k.id, 1>>) \notin DOMAIN db /\ Log(<<k.id, 2>>) \notin DOMAIN db
  BY SellRows
<1>2. db' = Write(t5, m)
  <2> HIDE DEF c, s, i, d, l, m
  <2>1. t5 = Write(db, Write(Write(Write(Write(c, s), i), d), l))
    BY WriteAssociates
  <2>2. Write(Write(Write(c, s), i), d) = Write(Write(c, s), Write(i, d))
    BY WriteAssociates
  <2>3. Write(t5, m) = Write(db, Write(Write(Write(Write(c, s), Write(i, d)), l), m))
    BY <2>1, <2>2, WriteAssociates
  <2>4. QED
    BY <1>1, <2>3, WriteAssociates
<1>3. /\ Typed(db) /\ Guild(x) \in DOMAIN db /\ Guild(y) \in DOMAIN db /\ n \in Nat \ {0}
      /\ ItemColumns(o) /\ GuildColumns(db[Guild(x)]) /\ GuildColumns(db[Guild(y)])
  BY <1>1, SoundOwner, GuildRow DEF Sound, CanPay
<1>4. db[Guild(x)].gold + -n \in Nat
  BY <1>1, <1>3, ReservedNat, NumbersInt DEF CanPay
<1>5. Shift(db, t1, g, paid, 0, 0, 0, 0) /\ Lays(db, t1)
  <2> DEFINE v == [db[Guild(x)] EXCEPT !.gold = @ + -n]
  <2>1. t1 = Write(db, OneRow(Guild(x), v))
    BY DEF UpdateGuildBalance
  <2>2. GuildColumns(v) /\ v.gold = db[Guild(x)].gold + -n /\ v.limit = db[Guild(x)].limit
    BY <1>3, <1>4 DEF GuildColumns
  <2> HIDE DEF t1, v, n, x
  <2>3. -n \in Int
    BY <1>3
  <2>4. QED
    BY <1>3, <2>1, <2>2, <2>3, PutGuild
<1>6. Shift(t1, t2, g, got, 0, 0, 0, 0) /\ Lays(t1, t2)
  <2> DEFINE v == [db[Guild(y)] EXCEPT !.gold = @ + n]
  <2>1. t2 = Write(t1, OneRow(Guild(y), v))
    BY DEF UpdateGuildBalance
  <2>2. t1[Guild(y)] = db[Guild(y)]
    BY <1>1, <1>3, PutOthers, Names DEF UpdateGuildBalance
  <2>3. GuildColumns(v) /\ v.gold = t1[Guild(y)].gold + n /\ v.limit = t1[Guild(y)].limit
    BY <1>3, <2>2 DEF GuildColumns
  <2>4. Typed(t1) /\ Guild(g) \in DOMAIN t1 /\ Guild(y) \in DOMAIN t1
    BY <1>3, <1>5 DEF Lays
  <2> HIDE DEF t1, t2, v, n, x, y
  <2>5. QED
    BY <1>3, <2>1, <2>3, <2>4, PutGuild
<1>7. Shift(t2, t3, g, 0, 0, 0, 0, 0) /\ Lays(t2, t3)
  <2> DEFINE v == [o EXCEPT !.owner = x, !.status = "sold"]
  <2>1. t3 = Write(t2, OneRow(Item(k.item), v))
    BY DEF TransferItemOwnership
  <2>2. ItemColumns(v)
    BY <1>3 DEF ItemColumns
  <2>3. Typed(t2) /\ Guild(g) \in DOMAIN t2
    BY <1>5, <1>6 DEF Lays
  <2> HIDE DEF t2, t3, v
  <2>4. Fits(Item(k.item), v)
    BY <2>2, Names, NamesArePairs DEF Fits
  <2>5. QED
    BY <2>1, <2>3, <2>4, Names, PutPlain
<1>8. Shift(t3, t4, g, 0, 0, 0, 0, used) /\ Lays(t3, t4)
  <2> DEFINE v == GetDailySpent(db, x) + n
  <2>1. t4 = Write(t3, OneRow(Daily(x), v))
    BY DEF UpsertDailyPurchase
  <2>2. Typed(t3) /\ Guild(g) \in DOMAIN t3 /\ Guild(x) \in DOMAIN t3
    BY <1>3, <1>5, <1>6, <1>7 DEF Lays
  <2>3. GetDailySpent(t3, x) = GetDailySpent(db, x)
    BY PutHas, PutOthers, Names DEF GetDailySpent, UpdateGuildBalance, TransferItemOwnership
  <2>4. GetDailySpent(db, x) \in Nat
    BY <1>3, NumbersInt
  <2>5. v \in Nat /\ v = GetDailySpent(t3, x) + n
    BY <1>3, <2>3, <2>4
  <2> HIDE DEF t3, t4, v, n, x
  <2>6. QED
    BY <1>3, <2>1, <2>2, <2>5, PutDaily
<1>9. Shift(t4, t5, g, 0, 0, paid, 0, 0) /\ Lays(t4, t5)
  <2>1. Typed(t4) /\ Guild(g) \in DOMAIN t4
    BY <1>5, <1>6, <1>7, <1>8 DEF Lays
  <2>2. Log(<<k.id, 1>>) \notin DOMAIN t4
    BY <1>1, PutHas, Names
    DEF UpdateGuildBalance, TransferItemOwnership, UpsertDailyPurchase
  <2> HIDE DEF t4, n, x
  <2>3. -n \in Int
    BY <1>3
  <2>4. QED
    BY <2>1, <2>2, <2>3, PutLog
<1>10. Shift(t5, db', g, 0, 0, got, 0, 0) /\ Lays(t5, db')
  <2>1. Typed(t5) /\ Guild(g) \in DOMAIN t5
    BY <1>5, <1>6, <1>7, <1>8, <1>9 DEF Lays
  <2>2. Log(<<k.id, 1>>) # Log(<<k.id, 2>>)
    BY Names
  <2>3. Log(<<k.id, 2>>) \notin DOMAIN t5
    BY <1>1, <2>2, PutHas, Names
    DEF UpdateGuildBalance, TransferItemOwnership, UpsertDailyPurchase, LogWalletTransaction
  <2> HIDE DEF t5, n, x, y
  <2>4. QED
    BY <1>2, <1>3, <2>1, <2>3, PutLog
<1>11. /\ paid \in Int /\ got \in Int /\ used \in Int /\ used + paid = 0
       /\ used = 0 \/ (got = 0 /\ CanPay(db, g, used))
       /\ got >= 0
  <2>1. -n \in Int /\ n \in Int /\ n >= 0 /\ x # y /\ CanPay(db, x, n) /\ n = -(-n)
    BY <1>1, <1>3
  <2> HIDE DEF n, x, y
  <2>2. CASE g = x
    <3>1. paid = -n /\ got = 0 /\ used = n
      BY <2>1, <2>2
    <3> HIDE DEF paid, got, used
    <3>2. CanPay(db, g, used)
      BY <2>1, <2>2, <3>1
    <3>3. QED
      BY <2>1, <3>1, <3>2
  <2>3. CASE g # x
    <3>1. paid = 0 /\ (got = 0 \/ got = n) /\ used = 0
      BY <2>3
    <3> HIDE DEF paid, got, used
    <3>0. n \in Int /\ n >= 0
      BY <2>1
    <3>2. got \in Int /\ got >= 0
      BY <3>0, <3>1
    <3>3. paid \in Int /\ used \in Int /\ used + paid = 0
      BY <3>1
    <3>4. QED
      BY <3>1, <3>2, <3>3
  <2> HIDE DEF paid, got, used
  <2>4. QED
    BY <2>2, <2>3
<1> HIDE DEF t1, t2, t3, t4, t5, paid, got, used
<1>12. Lays(db, t2) /\ Lays(db, t3) /\ Lays(db, t4) /\ Lays(db, t5) /\ Lays(db, db')
  <2>1. Lays(db, t2)
    BY <1>5, <1>6, LaysOn
  <2>2. Lays(db, t3)
    BY <1>7, <2>1, LaysOn
  <2>3. Lays(db, t4)
    BY <1>8, <2>2, LaysOn
  <2>4. Lays(db, t5)
    BY <1>9, <2>3, LaysOn
  <2>5. QED
    BY <1>10, <2>1, <2>2, <2>3, <2>4, LaysOn
<1> DEFINE won == paid + got
<1>0. won \in Int /\ paid \in Int /\ got \in Int /\ used \in Int /\ Typed(db) /\ 0 \in Int
  BY <1>3, <1>11
<1>13. Shift(db, t2, g, won, 0, 0, 0, 0)
  <2>1. Shift(db, t2, g, paid + got, 0 + 0, 0 + 0, 0 + 0, 0 + 0)
    BY <1>0, <1>5, <1>6, ShiftsAdd
  <2>2. QED
    BY <2>1
<1> HIDE DEF won
<1>14. Shift(db, t3, g, won, 0, 0, 0, 0)
  <2>1. Shift(db, t3, g, won + 0, 0 + 0, 0 + 0, 0 + 0, 0 + 0)
    BY <1>0, <1>7, <1>13, ShiftsAdd
  <2>2. QED
    BY <1>0, <2>1
<1>15. Shift(db, t4, g, won, 0, 0, 0, used)
  <2>1. Shift(db, t4, g, won + 0, 0 + 0, 0 + 0, 0 + 0, 0 + used)
    BY <1>0, <1>8, <1>14, ShiftsAdd
  <2>2. QED
    BY <1>0, <2>1
<1>16. Shift(db, t5, g, won, 0, paid, 0, used)
  <2>1. Shift(db, t5, g, won + 0, 0 + 0, 0 + paid, 0 + 0, used + 0)
    BY <1>0, <1>9, <1>15, ShiftsAdd
  <2>2. QED
    BY <1>0, <2>1
<1>17. Shift(db, db', g, won, 0, paid + got, 0, used)
  <2>1. Shift(db, db', g, won + 0, 0 + 0, paid + got, 0 + 0, used + 0)
    BY <1>0, <1>10, <1>16, ShiftsAdd
  <2>2. QED
    BY <1>0, <2>1
<1>18. /\ won \in Int /\ won - 0 = won + 0
       /\ used = 0 => 0 <= won
       /\ got = 0 => used = 0 - won
  BY <1>11 DEF won
<1>19. Shift(db, db', g, won, 0, won, 0, used)
  BY <1>17 DEF won
<1>20. CASE used = 0
  BY <1>11, <1>12, <1>18, <1>19, <1>20, Posts
<1>21. CASE got = 0 /\ CanPay(db, g, used)
  BY <1>11, <1>12, <1>18, <1>19, <1>21, Posts
<1>22. QED
  BY <1>11, <1>20, <1>21

\* The rows of a first bid
LEMMA StakeRows ==
    ASSUME NEW k, k.op = "bid", Promise!Stake(k), FirstBid(db, k)
    PROVE  LET o == db[Auction(k.auction)]  n == k.amount  x == k.guild IN
           /\ db' = Write(db, Write(Write(CreateBid(k.id, k.auction, x, n),
                                          UpdateAuctionBid(db, k.auction, x, n)),
                                    Write(LogWalletTransaction(<<k.id, 1>>, x, "reserve", -n),
                                          UpsertDailyPurchase(db, x, n))))
           /\ Auction(k.auction) \in DOMAIN db /\ o.status = "active" /\ n > o.high
           /\ CanPay(db, x, n) /\ Bid(k.id) \notin DOMAIN db /\ Log(<<k.id, 1>>) \notin DOMAIN db
<1> DEFINE o == db[Auction(k.auction)]
           n == k.amount
           x == k.guild
           b == CreateBid(k.id, k.auction, x, n)
           a == UpdateAuctionBid(db, k.auction, x, n)
           l == LogWalletTransaction(<<k.id, 1>>, x, "reserve", -n)
           d == UpsertDailyPurchase(db, x, n)
<1>1. o.winner = Nobody
  BY DEF FirstBid
<1>2. /\ db' = Promise!Write(db, Promise!Both(Promise!Release(k, o),
                                              Promise!Both(Promise!Both(b, a), Promise!Both(l, d))))
      /\ Auction(k.auction) \in DOMAIN db /\ o.status = "active" /\ n > o.high
      /\ Promise!MaySpend(x, n)
      /\ Bid(k.id) \notin DOMAIN db /\ Log(<<k.id, 1>>) \notin DOMAIN db
  BY PromiseNames, PromiseBid, PromiseStanding, PromiseLog, PromiseQuota DEF Promise!Stake
<1>3. Promise!Release(k, o) = NoRows
  BY <1>1, PromiseRows DEF Promise!Release
<1>4. /\ db' = Write(db, Write(Write(b, a), Write(l, d)))
      /\ Auction(k.auction) \in DOMAIN db /\ o.status = "active" /\ n > o.high /\ CanPay(db, x, n)
      /\ Bid(k.id) \notin DOMAIN db /\ Log(<<k.id, 1>>) \notin DOMAIN db
  <2> HIDE DEF b, a, l, d
  <2>1. db' = Write(db, Write(NoRows, Write(Write(b, a), Write(l, d))))
    BY <1>2, <1>3, PromiseRows
  <2>2. Write(NoRows, Write(Write(b, a), Write(l, d))) = Write(Write(b, a), Write(l, d))
    BY WriteOverNothing, PutTable
  <2>3. QED
    BY <1>2, <2>1, <2>2, MaySpendMeans
<1>5. QED
  BY <1>4

\* A first bid: a reservation, the standing of the auction, an entry, quota
LEMMA StakePosts ==
    ASSUME Sound(db), NEW k, k.op = "bid", k.amount \in Int, Promise!Stake(k), FirstBid(db, k),
           NEW g, Guild(g) \in DOMAIN db
    PROVE  Posted(g)
<1> DEFINE o == db[Auction(k.auction)]
           n == k.amount
           x == k.guild
           b == CreateBid(k.id, k.auction, x, n)
           a == UpdateAuctionBid(db, k.auction, x, n)
           l == LogWalletTransaction(<<k.id, 1>>, x, "reserve", -n)
           d == UpsertDailyPurchase(db, x, n)
           t1 == Write(db, b)
           t2 == Write(t1, a)
           t3 == Write(t2, l)
           held == IF g = x THEN n ELSE 0
           noted == IF g = x THEN -n ELSE 0
<1>1. /\ db' = Write(db, Write(Write(b, a), Write(l, d)))
      /\ Auction(k.auction) \in DOMAIN db /\ o.status = "active" /\ n > o.high /\ CanPay(db, x, n)
      /\ Bid(k.id) \notin DOMAIN db /\ Log(<<k.id, 1>>) \notin DOMAIN db
  BY StakeRows
<1>2. db' = Write(t3, d)
  <2> HIDE DEF b, a, l, d
  <2>1. t3 = Write(db, Write(Write(b, a), l))
    BY WriteAssociates
  <2>2. Write(Write(Write(b, a), l), d) = Write(Write(b, a), Write(l, d))
    BY WriteAssociates
  <2>3. Write(t3, d) = Write(db, Write(Write(Write(b, a), l), d))
    BY <2>1, WriteAssociates
  <2>4. QED
    BY <1>1, <2>2, <2>3
<1>3. /\ Typed(db) /\ Guild(x) \in DOMAIN db /\ AuctionColumns(o)
  BY <1>1, SoundAuction DEF Sound, CanPay
<1>4. n \in Nat \ {0}
  BY <1>1, <1>3 DEF AuctionColumns
<1>5. Shift(db, t1, g, 0, held, 0, 0, 0) /\ Lays(db, t1)
  BY <1>1, <1>3, <1>4, PutBid
<1>6. Shift(t1, t2, g, 0, 0, 0, 0, 0) /\ Lays(t1, t2)
  <2> DEFINE v == [o EXCEPT !.high = n, !.winner = x]
  <2>1. t2 = Write(t1, OneRow(Auction(k.auction), v))
    BY DEF UpdateAuctionBid
  <2>2. AuctionColumns(v) /\ v.status = "active"
    BY <1>1, <1>3, <1>4 DEF AuctionColumns
  <2>3. Typed(t1) /\ Guild(g) \in DOMAIN t1
    BY <1>5 DEF Lays
  <2>4. t1[Auction(k.auction)] = o
    BY <1>1, PutOthers, Names DEF CreateBid
  <2> HIDE DEF t1, t2, v
  <2>5. Fits(Auction(k.auction), v)
    BY <2>2, Names, NamesArePairs DEF Fits
  <2>6. QED
    BY <1>1, <2>1, <2>2, <2>3, <2>4, <2>5, Names, PutPlain
<1>7. Shift(t2, t3, g, 0, 0, noted, 0, 0) /\ Lays(t2, t3)
  <2>1. Typed(t2) /\ Guild(g) \in DOMAIN t2
    BY <1>5, <1>6 DEF Lays
  <2>2. Log(<<k.id, 1>>) \notin DOMAIN t2
    BY <1>1, PutHas, Names DEF CreateBid, UpdateAuctionBid
  <2>3. -n \in Int
    BY <1>4
  <2> HIDE DEF t2, n, x
  <2>4. QED
    BY <2>1, <2>2, <2>3, PutLog
<1>8. Shift(t3, db', g, 0, 0, 0, 0, held) /\ Lays(t3, db')
  <2> DEFINE v == GetDailySpent(db, x) + n
  <2>1. db' = Write(t3, OneRow(Daily(x), v))
    BY <1>2 DEF UpsertDailyPurchase
  <2>2. Typed(t3) /\ Guild(g) \in DOMAIN t3 /\ Guild(x) \in DOMAIN t3
    BY <1>3, <1>5, <1>6, <1>7 DEF Lays
  <2>3. GetDailySpent(t3, x) = GetDailySpent(db, x)
    BY PutHas, PutOthers, Names DEF GetDailySpent, CreateBid, UpdateAuctionBid, LogWalletTransaction
  <2>4. GetDailySpent(db, x) \in Nat
    BY <1>3, NumbersInt
  <2>5. v \in Nat /\ v = GetDailySpent(t3, x) + n
    BY <1>4, <2>3, <2>4
  <2> HIDE DEF t3, v, n, x
  <2>6. QED
    BY <1>4, <2>1, <2>2, <2>5, PutDaily
<1>9. /\ held \in Int /\ noted \in Int /\ held + noted = 0
      /\ held = 0 \/ CanPay(db, g, held)
  <2>1. n \in Int /\ -n \in Int /\ n + -n = 0 /\ CanPay(db, x, n)
    BY <1>1, <1>4
  <2> HIDE DEF n, x
  <2>2. CASE g = x
    <3>1. held = n /\ noted = -n
      BY <2>2
    <3> HIDE DEF held, noted
    <3>2. CanPay(db, g, held)
      BY <2>1, <2>2, <3>1
    <3>3. QED
      BY <2>1, <3>1, <3>2
  <2>3. CASE g # x
    BY <2>3
  <2>4. QED
    BY <2>2, <2>3
<1> HIDE DEF t1, t2, t3, held, noted
<1>10. Lays(db, t2) /\ Lays(db, t3) /\ Lays(db, db')
  <2>1. Lays(db, t2)
    BY <1>5, <1>6, LaysOn
  <2>2. Lays(db, t3)
    BY <1>7, <2>1, LaysOn
  <2>3. QED
    BY <1>8, <2>1, <2>2, LaysOn
<1>0. held \in Int /\ noted \in Int /\ Typed(db) /\ 0 \in Int
  BY <1>3, <1>9
<1>11. Shift(db, t2, g, 0, held, 0, 0, 0)
  <2>1. Shift(db, t2, g, 0 + 0, held + 0, 0 + 0, 0 + 0, 0 + 0)
    BY <1>0, <1>5, <1>6, ShiftsAdd
  <2>2. QED
    BY <1>0, <2>1
<1>12. Shift(db, t3, g, 0, held, noted, 0, 0)
  <2>1. Shift(db, t3, g, 0 + 0, held + 0, 0 + noted, 0 + 0, 0 + 0)
    BY <1>0, <1>7, <1>11, ShiftsAdd
  <2>2. QED
    BY <1>0, <2>1
<1>13. Shift(db, db', g, 0, held, noted, 0, held)
  <2>1. Shift(db, db', g, 0 + 0, held + 0, noted + 0, 0 + 0, 0 + held)
    BY <1>0, <1>8, <1>12, ShiftsAdd
  <2>2. QED
    BY <1>0, <2>1
<1>14. 0 - held = noted + 0 /\ held = held - 0
  BY <1>9
<1>15. CASE held = 0
  <2>1. held <= 0
    BY <1>15
  <2>2. QED
    BY <1>0, <1>10, <1>13, <1>14, <1>15, <2>1, Posts
<1>16. CASE CanPay(db, g, held)
  BY <1>0, <1>10, <1>13, <1>14, <1>16, Posts
<1>17. QED
  BY <1>9, <1>15, <1>16

\* An auction nobody has bid for: the item, and the auction, cancelled
LEMMA UnsoldPosts ==
    ASSUME Sound(db), NEW k, Promise!Close(k), db[Auction(k.auction)].high = 0,
           NEW g, Guild(g) \in DOMAIN db
    PROVE  Posted(g)
<1> DEFINE o == db[Auction(k.auction)]
           i == UpdateItemStatus(db, o.item, "available")
           c == CloseAuction(db, k.auction, "cancelled", Nobody)
           t == Write(db, i)
<1>1. db' = Write(db, Write(i, c)) /\ Auction(k.auction) \in DOMAIN db /\ o.status = "active"
  BY PromiseNames, PromiseRows, PromiseStatus, PromiseClosing DEF Promise!Close
<1>2. db' = Write(t, c)
  BY <1>1, WriteAssociates
<1>3. Typed(db) /\ AuctionColumns(o) /\ Item(o.item) \in DOMAIN db
  BY <1>1, SoundAuction DEF Sound
<1>4. ItemColumns(db[Item(o.item)])
  BY <1>3, SoundOwner
<1>5. Shift(db, t, g, 0, 0, 0, 0, 0) /\ Lays(db, t)
  <2> DEFINE v == [db[Item(o.item)] EXCEPT !.status = "available"]
  <2>1. t = Write(db, OneRow(Item(o.item), v))
    BY DEF UpdateItemStatus
  <2>2. ItemColumns(v)
    BY <1>4 DEF ItemColumns
  <2> HIDE DEF t, v
  <2>3. Fits(Item(o.item), v)
    BY <2>2, Names, NamesArePairs DEF Fits
  <2>4. QED
    BY <1>3, <2>1, <2>3, Names, PutPlain
<1>6. Shift(t, db', g, 0, 0, 0, 0, 0) /\ Lays(t, db')
  <2> DEFINE v == [o EXCEPT !.status = "cancelled", !.winner = Nobody]
  <2>1. db' = Write(t, OneRow(Auction(k.auction), v))
    BY <1>2 DEF CloseAuction
  <2>2. AuctionColumns(v) /\ v.status # "ended"
    BY <1>3 DEF AuctionColumns
  <2>3. Typed(t) /\ Guild(g) \in DOMAIN t
    BY <1>5 DEF Lays
  <2>4. t[Auction(k.auction)] = o
    BY <1>1, PutOthers, Names DEF UpdateItemStatus
  <2> HIDE DEF t, v
  <2>5. Fits(Auction(k.auction), v)
    BY <2>2, Names, NamesArePairs DEF Fits
  <2>6. QED
    BY <1>1, <2>1, <2>2, <2>3, <2>4, <2>5, Names, PutPlain
<1> HIDE DEF t
<1>7. Lays(db, db')
  BY <1>5, <1>6, LaysOn
<1>8. Shift(db, db', g, 0, 0, 0, 0, 0)
  <2>1. Shift(db, db', g, 0 + 0, 0 + 0, 0 + 0, 0 + 0, 0 + 0)
    BY <1>3, <1>5, <1>6, ShiftsAdd
  <2>2. QED
    BY <2>1
<1>9. 0 \in Int /\ 0 - 0 = 0 + 0 /\ 0 <= 0
  OBVIOUS
<1>10. QED
  BY <1>7, <1>8, <1>9 DEF Posted

\* One with a winner: the item, the seller's gold, and the auction, ended
LEMMA SoldPosts ==
    ASSUME Sound(db), NEW k, Promise!Close(k), db[Auction(k.auction)].high # 0,
           NEW g, Guild(g) \in DOMAIN db
    PROVE  Posted(g)
<1> DEFINE o == db[Auction(k.auction)]
           n == o.high
           y == o.seller
           i == TransferItemOwnership(db, o.item, o.winner, "sold")
           s == UpdateGuildBalance(db, y, n)
           c == CloseAuction(db, k.auction, "ended", o.winner)
           t1 == Write(db, i)
           t2 == Write(t1, s)
           got == IF g = y THEN n ELSE 0
<1>1. db' = Write(db, Write(Write(i, s), c)) /\ Auction(k.auction) \in DOMAIN db /\ o.status = "active"
  BY PromiseNames, PromiseRows, PromiseTransfer, PromiseBalance, PromiseClosing DEF Promise!Close
<1>2. db' = Write(t2, c)
  <2> HIDE DEF i, s, c
  <2>1. t2 = Write(db, Write(i, s))
    BY WriteAssociates
  <2>2. QED
    BY <1>1, <2>1, WriteAssociates
<1>3. /\ Typed(db) /\ AuctionColumns(o) /\ Item(o.item) \in DOMAIN db /\ Guild(y) \in DOMAIN db
      /\ n \in Nat
  BY <1>1, SoundAuction DEF Sound, AuctionColumns
<1>4. ItemColumns(db[Item(o.item)]) /\ GuildColumns(db[Guild(y)])
  BY <1>3, SoundOwner, GuildRow
<1>5. Shift(db, t1, g, 0, 0, 0, 0, 0) /\ Lays(db, t1)
  <2> DEFINE v == [db[Item(o.item)] EXCEPT !.owner = o.winner, !.status = "sold"]
  <2>1. t1 = Write(db, OneRow(Item(o.item), v))
    BY DEF TransferItemOwnership
  <2>2. ItemColumns(v)
    BY <1>4 DEF ItemColumns
  <2> HIDE DEF t1, v
  <2>3. Fits(Item(o.item), v)
    BY <2>2, Names, NamesArePairs DEF Fits
  <2>4. QED
    BY <1>3, <2>1, <2>3, Names, PutPlain
<1>6. Shift(t1, t2, g, got, 0, 0, 0, 0) /\ Lays(t1, t2)
  <2> DEFINE v == [db[Guild(y)] EXCEPT !.gold = @ + n]
  <2>1. t2 = Write(t1, OneRow(Guild(y), v))
    BY DEF UpdateGuildBalance
  <2>2. t1[Guild(y)] = db[Guild(y)]
    BY <1>3, PutOthers, Names DEF TransferItemOwnership
  <2>3. GuildColumns(v) /\ v.gold = t1[Guild(y)].gold + n /\ v.limit = t1[Guild(y)].limit
    BY <1>3, <1>4, <2>2 DEF GuildColumns
  <2>4. Typed(t1) /\ Guild(g) \in DOMAIN t1 /\ Guild(y) \in DOMAIN t1
    BY <1>3, <1>5 DEF Lays
  <2> HIDE DEF t1, t2, v, n, y
  <2>5. QED
    BY <1>3, <2>1, <2>3, <2>4, PutGuild
<1>7. Shift(t2, db', g, 0, 0, 0, got, 0) /\ Lays(t2, db')
  <2> DEFINE v == [o EXCEPT !.status = "ended", !.winner = o.winner]
  <2>1. db' = Write(t2, OneRow(Auction(k.auction), v))
    BY <1>2 DEF CloseAuction
  <2>2. AuctionColumns(v) /\ v.status = "ended" /\ v.seller = y /\ v.high = n
    BY <1>3 DEF AuctionColumns
  <2>3. Typed(t2) /\ Guild(g) \in DOMAIN t2
    BY <1>5, <1>6 DEF Lays
  <2>4. t2[Auction(k.auction)] = o /\ Auction(k.auction) \in DOMAIN t2
    BY <1>1, PutHas, PutOthers, Names DEF TransferItemOwnership, UpdateGuildBalance
  <2> HIDE DEF t2, v, n, y
  <2>5. QED
    BY <1>1, <2>1, <2>2, <2>3, <2>4, PutEnded
<1>8. got \in Int /\ got >= 0
  BY <1>3
<1> HIDE DEF t1, t2, got
<1>9. Lays(db, db')
  BY <1>5, <1>6, <1>7, LaysOn
<1>10. Shift(db, t2, g, got, 0, 0, 0, 0)
  <2>1. Shift(db, t2, g, 0 + got, 0 + 0, 0 + 0, 0 + 0, 0 + 0)
    BY <1>3, <1>5, <1>6, <1>8, ShiftsAdd
  <2>2. QED
    BY <1>8, <2>1
<1>11. Shift(db, db', g, got, 0, 0, got, 0)
  <2>1. Shift(db, db', g, got + 0, 0 + 0, 0 + 0, 0 + got, 0 + 0)
    BY <1>3, <1>7, <1>8, <1>10, ShiftsAdd
  <2>2. QED
    BY <1>8, <2>1
<1>12. 0 \in Int /\ got - 0 = 0 + got /\ 0 <= got
  BY <1>8
<1>13. QED
  BY <1>8, <1>9, <1>11, <1>12 DEF Posted

\* A new guild has nothing, has promised nothing, and is on nobody's account.
LEMMA Founding ==
    ASSUME Sound(db), NEW k, k.limit \in Int, Promise!FoundGuild(k)
    PROVE  /\ Stands(db, db') /\ Guild(k.id) \notin DOMAIN db
           /\ \A g : Guild(g) \in DOMAIN db' <=> Guild(g) \in DOMAIN db \/ g = k.id
           /\ \A g : Guild(g) \in DOMAIN db => Shift(db, db', g, 0, 0, 0, 0, 0)
           /\ Reserved(db', k.id) = 0 /\ GetDailySpent(db', k.id) = 0
           /\ db'[Guild(k.id)].gold = 0 /\ db'[Guild(k.id)].limit > 0
<1> DEFINE v == [name |-> k.name, gold |-> 0, limit |-> k.limit]
           r == Guild(k.id)
<1>1. db' = Write(db, OneRow(r, v)) /\ r \notin DOMAIN db /\ k.limit > 0
  BY PromiseRows, PromiseNames, PromiseGuild DEF Promise!FoundGuild, CreateGuild
<1>2. GuildColumns(v) /\ v.gold = 0 /\ v.limit = k.limit
  BY DEF GuildColumns
<1> HIDE DEF v
<1>3. Fits(r, v)
  BY <1>2, Names, NamesArePairs DEF Fits
<1>4. Typed(db) /\ Typed(db') /\ Stands(db, db')
  BY <1>1, <1>3, PutTyped, PutStands DEF Sound
<1>5. \A n : n \in DOMAIN db' <=> n \in DOMAIN db \/ n = r
  BY <1>1, PutHas
<1>6. db'[r] = v /\ \A n \in DOMAIN db : n # r => db'[n] = db[n]
  BY <1>1, PutRow, PutOthers
<1>7. \A g : Guild(g) \in DOMAIN db' <=> Guild(g) \in DOMAIN db \/ g = k.id
  BY <1>5, Names
<1>8. ASSUME NEW g
      PROVE  /\ Reserved(db', g) = Reserved(db, g) /\ Logged(db', g) = Logged(db, g)
             /\ Proceeds(db', g) = Proceeds(db, g) /\ GetDailySpent(db', g) = GetDailySpent(db, g)
  BY <1>1, <1>3, <1>4, Names, PutReserved, PutLogged, PutProceeds, PutSpent
<1>9. ASSUME NEW g, Guild(g) \in DOMAIN db PROVE Shift(db, db', g, 0, 0, 0, 0, 0)
  <2>1. Guild(g) \in DOMAIN db' /\ db'[Guild(g)] = db[Guild(g)]
    BY <1>1, <1>5, <1>6, <1>9
  <2>2. QED
    BY <1>4, <1>8, <1>9, <2>1, NumbersInt DEF Shift
<1>10. Reserved(db, k.id) = 0 /\ GetDailySpent(db, k.id) = 0
  <2>1. Daily(k.id) \notin DOMAIN db
    BY <1>1, <1>4, KeysAreNames DEF Sound, Referential
  <2>2. ActiveBids(db, k.id) = {}
    BY <1>1, <1>4, KeysAreNames, PromiseRow DEF Sound, Referential
  <2> DEFINE f == [b \in ActiveBids(db, k.id) |-> db[Bid(b)].amount]
  <2>3. IsFiniteSet(ActiveBids(db, k.id)) /\ f \in [ActiveBids(db, k.id) -> Int]
    BY <2>2, FS_EmptySet
  <2>4. Reserved(db, k.id) = 0
    BY <2>2, <2>3, SumZero DEF Reserved
  <2>5. QED
    BY <2>1, <2>4 DEF GetDailySpent
<1>11. QED
  BY <1>1, <1>2, <1>4, <1>6, <1>7, <1>8, <1>9, <1>10

-----------------------------------------------------------------------------
(* The steps of the running program.                                       *)

\* Where anything but the founding of a guild happens, there is a guild.
LEMMA SomeGuild ==
    ASSUME Sound(db), NEW k \in Asks, Promise!Effect(k), k.op # "createGuild"
    PROVE  \E g : Guild(g) \in DOMAIN db
<1>1. CASE k.op \in {"deposit", "createItem"}
  BY <1>1, PromiseNames DEF Promise!Effect, Promise!DepositGold, Promise!Mint
<1>2. CASE k.op \in {"list", "start"}
  <2>1. Item(k.item) \in DOMAIN db
    BY <1>2, PromiseNames DEF Promise!Effect, Promise!Offer, Promise!Open
  <2>2. QED
    BY <2>1, SoundOwner
<1>3. CASE k.op = "buy"
  <2>1. Item(k.item) \in DOMAIN db
    BY <1>3, PromiseNames DEF Promise!Effect, Promise!Sell
  <2>2. QED
    BY <2>1, SoundOwner
<1>4. CASE k.op \in {"bid", "close"}
  <2>1. Auction(k.auction) \in DOMAIN db
    BY <1>4, PromiseNames DEF Promise!Effect, Promise!Stake, Promise!Close
  <2>2. QED
    BY <2>1, SoundAuction
<1>5. QED
  BY <1>1, <1>2, <1>3, <1>4 DEF Promise!Effect

LEMMA EffectPosts ==
    ASSUME Sound(db), NEW k \in Asks, Promise!Effect(k), FirstBid(db, k), k.op # "createGuild",
           NEW g, Guild(g) \in DOMAIN db
    PROVE  Posted(g)
<1>0. k.op \in {"deposit", "start", "bid"} => k.amount \in Int
  BY AsksAssumption
<1>1. CASE k.op = "deposit"
  BY <1>0, <1>1, DepositPosts DEF Promise!Effect
<1>2. CASE k.op = "createItem"
  BY <1>2, MintPosts DEF Promise!Effect
<1>3. CASE k.op = "list"
  BY <1>3, OfferPosts DEF Promise!Effect
<1>4. CASE k.op = "buy"
  BY <1>4, SellPosts DEF Promise!Effect
<1>5. CASE k.op = "start"
  BY <1>0, <1>5, OpenPosts DEF Promise!Effect
<1>6. CASE k.op = "bid"
  BY <1>0, <1>6, StakePosts DEF Promise!Effect
<1>7. CASE k.op = "close"
  <2>1. Promise!Close(k)
    BY <1>7 DEF Promise!Effect
  <2>2. QED
    BY <2>1, UnsoldPosts, SoldPosts
<1>8. QED
  BY <1>1, <1>2, <1>3, <1>4, <1>5, <1>6, <1>7 DEF Promise!Effect

\* What a step leaves of the books and the records
BooksKept ==
    /\ Stands(db, db')
    /\ \A g : Guild(g) \in DOMAIN db =>
         \E gold, reserved, logged, proceeds, spent \in Int :
           /\ Shift(db, db', g, gold, reserved, logged, proceeds, spent)
           /\ gold - reserved = logged + proceeds
           /\ \/ spent = 0 /\ reserved <= gold
              \/ spent = reserved - gold /\ CanPay(db, g, spent)
    /\ \A g : Guild(g) \in DOMAIN db' /\ Guild(g) \notin DOMAIN db =>
         /\ Reserved(db', g) = 0 /\ GetDailySpent(db', g) = 0
         /\ db'[Guild(g)].gold = 0 /\ db'[Guild(g)].limit > 0

LEMMA EffectBooks ==
    ASSUME Sound(db), NEW k \in Asks, Promise!Effect(k), FirstBid(db, k)
    PROVE  BooksKept
<1>1. CASE k.op = "createGuild"
  <2>1. Promise!FoundGuild(k) /\ k.limit \in Int
    BY <1>1, AsksAssumption DEF Promise!Effect
  <2>2. 0 \in Int /\ 0 - 0 = 0 + 0 /\ 0 <= 0
    OBVIOUS
  <2>3. /\ Stands(db, db')
        /\ \A g : Guild(g) \in DOMAIN db' <=> Guild(g) \in DOMAIN db \/ g = k.id
        /\ \A g : Guild(g) \in DOMAIN db => Shift(db, db', g, 0, 0, 0, 0, 0)
        /\ Reserved(db', k.id) = 0 /\ GetDailySpent(db', k.id) = 0
        /\ db'[Guild(k.id)].gold = 0 /\ db'[Guild(k.id)].limit > 0
    BY <2>1, Founding
  <2>4. QED
    BY <2>2, <2>3 DEF BooksKept
<1>2. CASE k.op # "createGuild"
  <2>1. PICK g : Guild(g) \in DOMAIN db
    BY <1>2, SomeGuild
  <2>2. Lays(db, db')
    BY <1>2, <2>1, EffectPosts DEF Posted
  <2>3. \A x : Guild(x) \in DOMAIN db => Posted(x)
    BY <1>2, EffectPosts
  <2>4. QED
    BY <2>2, <2>3 DEF BooksKept, Posted, Lays
<1>3. QED
  BY <1>1, <1>2

LEMMA StepBooks ==
    ASSUME Faithful, [ServiceNext]_allVars
    PROVE  Sound(db) /\ (db' = db \/ BooksKept)
<1>0. Drafted /\ SeedKinds(db) /\ Suited /\ Sound(db)
  BY DEF Faithful, Drafted
<1>1. ServedStep
  BY ServiceServed DEF Faithful
<1>2. ASSUME NEW p \in Procs, Step(p) \/ Fail(p) \/ CommitUnconfirmed(p)
      PROVE  db' = db \/ BooksKept
  <2>1. Effects(p)
    BY <1>0, <1>2, StepEffects
  <2>2. QED
    BY <1>0, <2>1, EffectBooks DEF Effects
<1>3. CASE \E p \in Procs, ask \in Asks : Call(p, ask) \/ CallRepository(p, ask)
  BY <1>0, <1>3 DEF Call, CallRepository, Take
<1>4. CASE (\E S : Kill(S)) \/ UNCHANGED vars
  BY <1>0, <1>4 DEF Kill, vars
<1>5. QED
  BY <1>0, <1>1, <1>2, <1>3, <1>4 DEF ServedStep

LEMMA MeansAre ==
    ASSUME NEW t, Typed(t)
    PROVE  WithinMeans(t) <=>
             \A g : Guild(g) \in DOMAIN t => /\ Reserved(t, g) <= t[Guild(g)].gold
                                             /\ GetDailySpent(t, g) <= t[Guild(g)].limit
BY KeysAreNames DEF WithinMeans

\* Whoever could pay, and has spent no more, is within its means.
LEMMA MeansStay ==
    ASSUME Sound(db), Sound(db'), BooksKept, MeansKept
    PROVE  MeansKept'
<1>1. ASSUME NEW g, Guild(g) \in DOMAIN db'
      PROVE  /\ Reserved(db', g) <= db'[Guild(g)].gold
             /\ GetDailySpent(db', g) <= db'[Guild(g)].limit
  <2>1. CASE Guild(g) \in DOMAIN db
    <3> DEFINE x == db[Guild(g)].gold
               m == Reserved(db, g)
               s == GetDailySpent(db, g)
               y == db[Guild(g)].limit
    <3>1. PICK a \in Int, b \in Int, c \in Int, d \in Int, e \in Int :
            /\ Shift(db, db', g, a, b, c, d, e)
            /\ (e = 0 /\ b <= a) \/ (e = b - a /\ CanPay(db, g, e))
      BY <2>1 DEF BooksKept
    <3>2. x \in Int /\ m \in Int /\ s \in Int /\ y \in Int
      BY <2>1, NumbersInt DEF Sound
    <3>3. m <= x /\ s <= y
      BY <2>1, MeansAre DEF MeansKept, Sound
    <3>4. /\ db'[Guild(g)].gold = x + a /\ db'[Guild(g)].limit = y
          /\ Reserved(db', g) = m + b /\ GetDailySpent(db', g) = s + e
      BY <3>1 DEF Shift
    <3>5. CanPay(db, g, e) => m + e <= x /\ s + e <= y
      BY DEF CanPay
    <3> HIDE DEF x, m, s, y
    <3>6. m + b <= x + a /\ s + e <= y
      BY <3>1, <3>2, <3>3, <3>5
    <3>7. QED
      BY <3>4, <3>6
  <2>2. CASE Guild(g) \notin DOMAIN db
    <3>1. /\ Reserved(db', g) = 0 /\ GetDailySpent(db', g) = 0
          /\ db'[Guild(g)].gold = 0 /\ db'[Guild(g)].limit > 0
      BY <1>1, <2>2 DEF BooksKept
    <3>2. db'[Guild(g)].limit \in Int
      BY <1>1, NumbersInt DEF Sound
    <3>3. QED
      BY <3>1, <3>2
  <2>3. QED
    BY <2>1, <2>2
<1>2. WithinMeans(db')
  BY <1>1, MeansAre DEF Sound
<1>3. QED
  BY <1>2 DEF MeansKept

LEMMA InitMeans == ASSUME ServiceInit PROVE MeansKept
<1>1. db \in Openings
  BY ScenarioAssumption DEF ServiceInit
<1>2. QED
  BY <1>1, OpeningsAssumption DEF MeansKept

LEMMA MeansStep ==
    ASSUME Faithful, Faithful', MeansKept, [ServiceNext]_allVars
    PROVE  MeansKept'
<1>1. Sound(db) /\ (db' = db \/ BooksKept)
  BY StepBooks
<1>2. Sound(db')
  BY DEF Faithful, Drafted
<1>3. CASE db' = db
  BY <1>3 DEF MeansKept
<1>4. QED
  BY <1>1, <1>2, <1>3, MeansStay

\* In the running program no guild ever promises more gold than it has, or uses more
\* than its quota: between the checks of CheckBuyer or CheckBidder and the commit the
\* guild is locked, and whatever else commits leaves it its means.
THEOREM MeansAlwaysKept == ServiceSpec => []MeansKept
<1>1. ServiceInit => MeansKept
  BY InitMeans
<1>2. Faithful /\ Faithful' /\ MeansKept /\ [ServiceNext]_allVars => MeansKept'
  BY MeansStep
<1>3. QED
  BY <1>1, <1>2, AlwaysFaithful, PTL DEF ServiceSpec

LEMMA BooksExplain ==
    ASSUME Sound(db), BooksKept, NEW g \in Keys(db, "guild")
    PROVE  Unexplained(db', g) = Unexplained(db, g)
<1>1. Guild(g) \in DOMAIN db /\ Typed(db)
  BY KeysAreNames DEF Sound
<1> DEFINE x == db[Guild(g)].gold
           m == Reserved(db, g)
           n == Logged(db, g)
           o == Proceeds(db, g)
<1>2. PICK a \in Int, b \in Int, c \in Int, d \in Int, e \in Int :
        Shift(db, db', g, a, b, c, d, e) /\ a - b = c + d
  BY <1>1 DEF BooksKept
<1>3. x \in Int /\ m \in Int /\ n \in Int /\ o \in Int
  BY <1>1, NumbersInt
<1>4. /\ db'[Guild(g)].gold = x + a /\ Reserved(db', g) = m + b
      /\ Logged(db', g) = n + c /\ Proceeds(db', g) = o + d
  BY <1>2 DEF Shift
<1>5. /\ Unexplained(db, g) = (x - m) - n - o
      /\ Unexplained(db', g) = ((x + a) - (m + b)) - (n + c) - (o + d)
  BY <1>4 DEF Unexplained, GetWalletSummary
<1> HIDE DEF x, m, n, o
<1>6. ((x + a) - (m + b)) - (n + c) - (o + d) = (x - m) - n - o
  BY <1>2, <1>3
<1>7. QED
  BY <1>5, <1>6

\* In the running program a guild's free gold moves only with entries of the same sum,
\* or with an auction of its that ends.
THEOREM UnloggedStayProceeds == ServiceSpec => UnloggedAreProceeds
<1>1. Faithful /\ [ServiceNext]_allVars
        => [\A g \in Keys(db, "guild") : Unexplained(db', g) = Unexplained(db, g)]_db
  BY StepBooks, BooksExplain
<1>2. QED
  BY <1>1, AlwaysFaithful, PTL DEF ServiceSpec, UnloggedAreProceeds

\* In the running program no row vanishes, and entries, closed auctions and the bids on
\* them stay as they are.
THEOREM RecordsAlwaysStand == ServiceSpec => RecordsStand
<1> DEFINE Stand ==
      \A r \in DOMAIN db :
         /\ r \in DOMAIN db'
         /\ r[1] = "log" => db'[r] = db[r]
         /\ (r[1] = "auction" /\ db[r].status # "active") => db'[r] = db[r]
         /\ (r[1] = "bid" /\ db[Auction(db[r].auction)].status # "active") => db'[r] = db[r]
<1>1. Faithful /\ [ServiceNext]_allVars => [Stand]_db
  BY StepBooks DEF BooksKept, Stands
<1>2. QED
  BY <1>1, AlwaysFaithful, PTL DEF ServiceSpec, RecordsStand
-----------------------------------------------------------------------------
(* What a change of the tables does to the listings.                       *)

OnOffer(t, i) == Item(i) \in DOMAIN t /\ t[Item(i)].status = "available"
Runs(t, a) == Auction(a) \in DOMAIN t /\ t[Auction(a)].status = "active"

\* Item i is nothing that a purchase or an auction could take out of the listing.
Still(t, i) ==
    /\ Item(i) \in DOMAIN t /\ t[Item(i)].kind # "legendary" /\ t[Item(i)].price = 0
    /\ \A a : Auction(a) \in DOMAIN t => t[Auction(a)].item # i

\* From t to u nothing but the guilds G, the items I and the auctions A come into a
\* listing or leave one.
Turns(t, u, G, I, A) ==
    /\ \A g : g \notin G => (Guild(g) \in DOMAIN t <=> Guild(g) \in DOMAIN u)
    /\ \A i : i \notin I => (OnOffer(t, i) <=> OnOffer(u, i))
    /\ \A a : a \notin A => (Runs(t, a) <=> Runs(u, a))
    /\ KeepsItems(t, u)
    /\ \A i : (/\ Item(i) \in DOMAIN u /\ u[Item(i)].kind # "legendary"
               /\ Item(i) \in DOMAIN t => Still(t, i)) => Still(u, i)

LEMMA TurnsOn ==
    ASSUME NEW t, NEW u, NEW v, NEW G, NEW I, NEW A, NEW H, NEW J, NEW B,
           Turns(t, u, G, I, A), Turns(u, v, H, J, B)
    PROVE  Turns(t, v, G \cup H, I \cup J, A \cup B)
<1>1. KeepsItems(t, v)
  BY DEF Turns, KeepsItems
<1>2. ASSUME NEW i, Item(i) \in DOMAIN v, v[Item(i)].kind # "legendary",
             Item(i) \in DOMAIN t => Still(t, i)
      PROVE  Still(v, i)
  <2>1. Item(i) \in DOMAIN u => u[Item(i)].kind = v[Item(i)].kind
    BY DEF Turns, KeepsItems
  <2>2. Item(i) \in DOMAIN u => Still(u, i)
    BY <1>2, <2>1 DEF Turns
  <2>3. QED
    BY <1>2, <2>2 DEF Turns
<1>3. \A g : g \notin G \cup H => (Guild(g) \in DOMAIN t <=> Guild(g) \in DOMAIN v)
  BY DEF Turns
<1>4. \A i : i \notin I \cup J => (OnOffer(t, i) <=> OnOffer(v, i))
  BY DEF Turns
<1>5. \A a : a \notin A \cup B => (Runs(t, a) <=> Runs(v, a))
  BY DEF Turns
<1>6. QED
  BY <1>1, <1>2, <1>3, <1>4, <1>5 DEF Turns

\* Gold, quotas, entries and bids are on no listing.
LEMMA AsideTurns ==
    ASSUME NEW t, NEW w, Of(w, {"guild", "daily", "log", "bid"}),
           \A g : Guild(g) \in DOMAIN w => Guild(g) \in DOMAIN t
    PROVE  Turns(t, Write(t, w), {}, {}, {})
<1> DEFINE u == Write(t, w)
<1>1. \A r : r \in DOMAIN u <=> r \in DOMAIN t \/ r \in DOMAIN w
  BY LaidDomain
<1>2. \A x : Item(x) \notin DOMAIN w /\ Auction(x) \notin DOMAIN w
  BY Names DEF Of
<1>3. \A r : r \in DOMAIN t /\ r \notin DOMAIN w => u[r] = t[r]
  BY LaidUnder
<1> HIDE DEF u
<1>4. \A g : Guild(g) \in DOMAIN t <=> Guild(g) \in DOMAIN u
  BY <1>1
<1>5. \A i : /\ Item(i) \in DOMAIN t <=> Item(i) \in DOMAIN u
             /\ Item(i) \in DOMAIN t => u[Item(i)] = t[Item(i)]
  BY <1>1, <1>2, <1>3
<1>6. \A a : /\ Auction(a) \in DOMAIN t <=> Auction(a) \in DOMAIN u
             /\ Auction(a) \in DOMAIN t => u[Auction(a)] = t[Auction(a)]
  BY <1>1, <1>2, <1>3
<1>7. Turns(t, u, {}, {}, {})
  BY <1>4, <1>5, <1>6 DEF Turns, OnOffer, Runs, Still, KeepsItems
<1>8. QED
  BY <1>7 DEF u

\* An item that changes hands or status
LEMMA ItemTurns ==
    ASSUME NEW t, NEW i, Item(i) \in DOMAIN t, NEW v, v.kind = t[Item(i)].kind,
           v.price = t[Item(i)].price
    PROVE  Turns(t, Write(t, OneRow(Item(i), v)), {}, {i}, {})
<1> DEFINE u == Write(t, OneRow(Item(i), v))
<1>1. \A r : r \in DOMAIN u <=> r \in DOMAIN t
  BY PutHas
<1>2. u[Item(i)] = v /\ \A r \in DOMAIN t : r # Item(i) => u[r] = t[r]
  BY PutRow, PutOthers
<1> HIDE DEF u
<1>3. \A j : Item(j) = Item(i) <=> j = i
  BY Names
<1>4. \A a : Auction(a) \in DOMAIN t => u[Auction(a)] = t[Auction(a)]
  BY <1>2, Names
<1>5. \A j : Item(j) \in DOMAIN t => /\ u[Item(j)].kind = t[Item(j)].kind
                                     /\ u[Item(j)].price = t[Item(j)].price
                                     /\ j # i => u[Item(j)] = t[Item(j)]
  BY <1>2, <1>3
<1>6. Turns(t, u, {}, {i}, {})
  BY <1>1, <1>4, <1>5 DEF Turns, OnOffer, Runs, Still, KeepsItems
<1>7. QED
  BY <1>6 DEF u

\* A new item is in an inventory.
LEMMA MintTurns ==
    ASSUME NEW t, Referential(t), Typed(t), NEW i, Item(i) \notin DOMAIN t,
           NEW v, v.status = "sold", v.price = 0
    PROVE  Turns(t, Write(t, OneRow(Item(i), v)), {}, {}, {})
<1> DEFINE u == Write(t, OneRow(Item(i), v))
<1>1. \A r : r \in DOMAIN u <=> r \in DOMAIN t \/ r = Item(i)
  BY PutHas
<1>2. u[Item(i)] = v /\ \A r \in DOMAIN t : u[r] = t[r]
  BY PutRow, PutOthers
<1> HIDE DEF u
<1>3. \A j : Item(j) = Item(i) <=> j = i
  BY Names
<1>4. \A a : /\ Auction(a) \in DOMAIN u <=> Auction(a) \in DOMAIN t
             /\ Guild(a) \in DOMAIN u <=> Guild(a) \in DOMAIN t
  BY <1>1, Names
<1>5. \A a : Auction(a) \in DOMAIN t => t[Auction(a)].item # i
  BY KeysAreNames DEF Referential
<1>6. \A j : j # i => /\ Item(j) \in DOMAIN u <=> Item(j) \in DOMAIN t
                      /\ Item(j) \in DOMAIN t => u[Item(j)] = t[Item(j)]
  BY <1>1, <1>2, <1>3
<1>7. \A j : OnOffer(t, j) <=> OnOffer(u, j)
  BY <1>2, <1>6 DEF OnOffer
<1>8. \A a : Runs(t, a) <=> Runs(u, a)
  BY <1>2, <1>4 DEF Runs
<1>9. KeepsItems(t, u)
  BY <1>1, <1>2 DEF KeepsItems
<1>10. ASSUME NEW j, Item(j) \in DOMAIN u, u[Item(j)].kind # "legendary",
              Item(j) \in DOMAIN t => Still(t, j)
       PROVE  Still(u, j)
  <2>1. CASE j = i
    BY <1>2, <1>4, <1>5, <1>10, <2>1 DEF Still
  <2>2. CASE j # i
    BY <1>2, <1>4, <1>6, <1>10, <2>2 DEF Still
  <2>3. QED
    BY <2>1, <2>2
<1>11. Turns(t, u, {}, {}, {})
  BY <1>4, <1>7, <1>8, <1>9, <1>10 DEF Turns
<1>12. QED
  BY <1>11 DEF u

\* An auction that goes on, or ends
LEMMA AuctionTurns ==
    ASSUME NEW t, NEW a, Auction(a) \in DOMAIN t, NEW v, v.item = t[Auction(a)].item,
           NEW A, v.status = t[Auction(a)].status \/ a \in A
    PROVE  Turns(t, Write(t, OneRow(Auction(a), v)), {}, {}, A)
<1> DEFINE u == Write(t, OneRow(Auction(a), v))
<1>1. \A r : r \in DOMAIN u <=> r \in DOMAIN t
  BY PutHas
<1>2. u[Auction(a)] = v /\ \A r \in DOMAIN t : r # Auction(a) => u[r] = t[r]
  BY PutRow, PutOthers
<1> HIDE DEF u
<1>3. \A j : Auction(j) = Auction(a) <=> j = a
  BY Names
<1>4. \A i : Item(i) \in DOMAIN t => u[Item(i)] = t[Item(i)]
  BY <1>2, Names
<1>5. \A j : Auction(j) \in DOMAIN t => /\ u[Auction(j)].item = t[Auction(j)].item
                                        /\ j \notin A => u[Auction(j)].status = t[Auction(j)].status
  BY <1>2, <1>3
<1>6. Turns(t, u, {}, {}, A)
  BY <1>1, <1>4, <1>5 DEF Turns, OnOffer, Runs, Still, KeepsItems
<1>7. QED
  BY <1>6 DEF u

\* Legendary items alone are put up for auction.
LEMMA OpenTurns ==
    ASSUME NEW t, NEW a, Auction(a) \notin DOMAIN t, NEW v, Item(v.item) \in DOMAIN t,
           t[Item(v.item)].kind = "legendary"
    PROVE  Turns(t, Write(t, OneRow(Auction(a), v)), {}, {}, {a})
<1> DEFINE u == Write(t, OneRow(Auction(a), v))
<1>1. \A r : r \in DOMAIN u <=> r \in DOMAIN t \/ r = Auction(a)
  BY PutHas
<1>2. u[Auction(a)] = v /\ \A r \in DOMAIN t : u[r] = t[r]
  BY PutRow, PutOthers
<1> HIDE DEF u
<1>3. \A j : Auction(j) = Auction(a) <=> j = a
  BY Names
<1>4. \A i : /\ Item(i) \in DOMAIN u <=> Item(i) \in DOMAIN t
             /\ Guild(i) \in DOMAIN u <=> Guild(i) \in DOMAIN t
  BY <1>1, Names
<1>5. \A j : j # a => /\ Auction(j) \in DOMAIN u <=> Auction(j) \in DOMAIN t
                      /\ Auction(j) \in DOMAIN t => u[Auction(j)] = t[Auction(j)]
  BY <1>1, <1>2, <1>3
<1>6. ASSUME NEW i, Item(i) \in DOMAIN u, u[Item(i)].kind # "legendary",
             Item(i) \in DOMAIN t => Still(t, i)
      PROVE  Still(u, i)
  BY <1>2, <1>4, <1>5, <1>6 DEF Still
<1>7. \A i : OnOffer(t, i) <=> OnOffer(u, i)
  BY <1>2, <1>4 DEF OnOffer
<1>8. \A j : j # a => (Runs(t, j) <=> Runs(u, j))
  BY <1>5 DEF Runs
<1>9. KeepsItems(t, u)
  BY <1>2, <1>4 DEF KeepsItems
<1>10. Turns(t, u, {}, {}, {a})
  BY <1>4, <1>6, <1>7, <1>8, <1>9 DEF Turns
<1>11. QED
  BY <1>10 DEF u

LEMMA FoundTurns ==
    ASSUME NEW t, NEW g, NEW v
    PROVE  Turns(t, Write(t, OneRow(Guild(g), v)), {g}, {}, {})
<1> DEFINE u == Write(t, OneRow(Guild(g), v))
<1>1. \A r : r \in DOMAIN u <=> r \in DOMAIN t \/ r = Guild(g)
  BY PutHas
<1>2. \A r \in DOMAIN t : r # Guild(g) => u[r] = t[r]
  BY PutRow, PutOthers
<1> HIDE DEF u
<1>3. \A h : h # g => (Guild(h) \in DOMAIN t <=> Guild(h) \in DOMAIN u)
  BY <1>1, Names
<1>4. \A i : /\ Item(i) \in DOMAIN u <=> Item(i) \in DOMAIN t
             /\ Auction(i) \in DOMAIN u <=> Auction(i) \in DOMAIN t
             /\ Item(i) \in DOMAIN t => u[Item(i)] = t[Item(i)]
             /\ Auction(i) \in DOMAIN t => u[Auction(i)] = t[Auction(i)]
  BY <1>1, <1>2, Names
<1>5. Turns(t, u, {g}, {}, {})
  BY <1>3, <1>4 DEF Turns, OnOffer, Runs, Still, KeepsItems
<1>6. QED
  BY <1>5 DEF u

-----------------------------------------------------------------------------
(* The effects of Market.                                                  *)

\* Rows w that are on no listing
Aside(t, w) ==
    Of(w, {"guild", "daily", "log", "bid"}) /\ \A g : Guild(g) \in DOMAIN w => Guild(g) \in DOMAIN t

LEMMA AsideLaid == \A t, v, w : Aside(t, v) /\ Aside(t, w) => Aside(t, Write(v, w))
BY LaidDomain, LaidOf DEF Aside

LEMMA AsideOn ==
    ASSUME NEW t, NEW u, NEW G, NEW I, NEW A, Turns(t, u, G, I, A), NEW w, Aside(t, w),
           \A g : Guild(g) \in DOMAIN t => Guild(g) \in DOMAIN u
    PROVE  Turns(t, Write(u, w), G, I, A)
<1>1. Turns(u, Write(u, w), {}, {}, {})
  BY AsideTurns DEF Aside
<1>2. Turns(t, Write(u, w), G \cup {}, I \cup {}, A \cup {})
  BY <1>1, TurnsOn
<1>3. G \cup {} = G /\ I \cup {} = I /\ A \cup {} = A
  OBVIOUS
<1>4. QED
  BY <1>2, <1>3

LEMMA AsideBalance ==
    \A t, g, x : Guild(g) \in DOMAIN t => Aside(t, UpdateGuildBalance(t, g, x))
<1> SUFFICES ASSUME NEW t, NEW g, NEW x, Guild(g) \in DOMAIN t
             PROVE  Aside(t, UpdateGuildBalance(t, g, x))
  OBVIOUS
<1>1. DOMAIN UpdateGuildBalance(t, g, x) = {Guild(g)}
  BY OneRowDomain DEF UpdateGuildBalance
<1>2. QED
  BY <1>1, Names DEF Aside, Of

LEMMA AsideQuota == \A t, u, g, x : Aside(t, UpsertDailyPurchase(u, g, x))
<1> SUFFICES ASSUME NEW t, NEW u, NEW g, NEW x PROVE Aside(t, UpsertDailyPurchase(u, g, x))
  OBVIOUS
<1>1. DOMAIN UpsertDailyPurchase(u, g, x) = {Daily(g)}
  BY OneRowDomain DEF UpsertDailyPurchase
<1>2. QED
  BY <1>1, Names DEF Aside, Of

LEMMA AsideLog == \A t, k, g, type, x : Aside(t, LogWalletTransaction(k, g, type, x))
<1> SUFFICES ASSUME NEW t, NEW k, NEW g, NEW type, NEW x
             PROVE  Aside(t, LogWalletTransaction(k, g, type, x))
  OBVIOUS
<1>1. DOMAIN LogWalletTransaction(k, g, type, x) = {Log(k)}
  BY OneRowDomain DEF LogWalletTransaction
<1>2. QED
  BY <1>1, Names DEF Aside, Of

LEMMA AsideBid == \A t, b, a, g, n : Aside(t, CreateBid(b, a, g, n))
<1> SUFFICES ASSUME NEW t, NEW b, NEW a, NEW g, NEW n PROVE Aside(t, CreateBid(b, a, g, n))
  OBVIOUS
<1>1. DOMAIN CreateBid(b, a, g, n) = {Bid(b)}
  BY OneRowDomain DEF CreateBid
<1>2. QED
  BY <1>1, Names DEF Aside, Of

LEMMA DepositTurns ==
    ASSUME NEW k, Promise!DepositGold(k)
    PROVE  Turns(db, db', {}, {}, {})
<1> DEFINE s == UpdateGuildBalance(db, k.guild, k.amount)
           l == LogWalletTransaction(<<k.id, 1>>, k.guild, "deposit", k.amount)
<1>1. db' = Write(db, Write(s, l)) /\ Guild(k.guild) \in DOMAIN db
  BY PromiseRows, PromiseNames, PromiseBalance, PromiseLog DEF Promise!DepositGold
<1>2. Aside(db, s) /\ Aside(db, l)
  BY <1>1, AsideBalance, AsideLog
<1> HIDE DEF s, l
<1>3. Aside(db, Write(s, l))
  BY <1>2, AsideLaid
<1>4. QED
  BY <1>1, <1>3, AsideTurns DEF Aside

LEMMA SellTurns ==
    ASSUME Sound(db), NEW k, Promise!Sell(k)
    PROVE  /\ Turns(db, db', {}, {k.item}, {})
           /\ Item(k.item) \in DOMAIN db /\ db[Item(k.item)].price # 0
<1> DEFINE o == db[Item(k.item)]
           n == o.price
           x == k.guild
           y == o.owner
           c == UpdateGuildBalance(db, x, -n)
           s == UpdateGuildBalance(db, y, n)
           i == TransferItemOwnership(db, k.item, x, "sold")
           d == UpsertDailyPurchase(db, x, n)
           l == LogWalletTransaction(<<k.id, 1>>, x, "purchase", -n)
           m == LogWalletTransaction(<<k.id, 2>>, y, "refund", n)
           t1 == Write(db, Write(c, s))
           t2 == Write(t1, i)
           v == [o EXCEPT !.owner = x, !.status = "sold"]
<1>1. /\ db' = Write(db, Write(Write(Write(c, s), Write(i, d)), Write(l, m)))
      /\ Item(k.item) \in DOMAIN db /\ n # 0 /\ CanPay(db, x, n)
  BY SellRows
<1>2. Guild(x) \in DOMAIN db /\ Guild(y) \in DOMAIN db /\ ItemColumns(o)
  BY <1>1, SoundOwner DEF CanPay
<1>3. Aside(db, c) /\ Aside(db, s) /\ Aside(db, d) /\ Aside(db, l) /\ Aside(db, m)
  BY <1>2, AsideBalance, AsideQuota, AsideLog
<1>4. i = OneRow(Item(k.item), v) /\ v.kind = o.kind /\ v.price = o.price
  BY <1>2 DEF TransferItemOwnership, ItemColumns
<1> HIDE DEF c, s, i, d, l, m, v
<1>5. Aside(db, Write(c, s)) /\ Aside(db, Write(d, Write(l, m)))
  BY <1>3, AsideLaid
<1>6. Turns(db, t1, {}, {}, {})
  BY <1>5, AsideTurns DEF Aside
<1>7. Item(k.item) \in DOMAIN t1 /\ t1[Item(k.item)] = o
  <2> DEFINE w == Write(c, s)
  <2> HIDE DEF w
  <2>1. Item(k.item) \notin DOMAIN w
    BY <1>5, Names DEF Aside, Of, w
  <2>2. Item(k.item) \in DOMAIN Write(db, w) /\ Write(db, w)[Item(k.item)] = o
    BY <1>1, <2>1, LaidHas, LaidUnder
  <2>3. QED
    BY <2>2 DEF w
<1>8. Turns(t1, t2, {}, {k.item}, {})
  <2> HIDE DEF t1
  <2>1. QED
    BY <1>4, <1>7, ItemTurns
<1>9. Turns(db, t2, {}, {k.item}, {})
  <2> HIDE DEF t1, t2
  <2>1. Turns(db, t2, {} \cup {}, {} \cup {k.item}, {} \cup {})
    BY <1>6, <1>8, TurnsOn
  <2>2. QED
    BY <2>1
<1>10. \A g : Guild(g) \in DOMAIN db => Guild(g) \in DOMAIN t2
  BY LaidHas
<1>11. db' = Write(t2, Write(d, Write(l, m)))
  <2>1. Write(Write(Write(c, s), Write(i, d)), Write(l, m))
          = Write(Write(c, s), Write(Write(i, d), Write(l, m)))
    BY WriteAssociates
  <2>2. Write(Write(i, d), Write(l, m)) = Write(i, Write(d, Write(l, m)))
    BY WriteAssociates
  <2>3. db' = Write(t1, Write(i, Write(d, Write(l, m))))
    BY <1>1, <2>1, <2>2, WriteAssociates
  <2>4. QED
    BY <2>3, WriteAssociates
<1>12. Turns(db, db', {}, {k.item}, {})
  <2> HIDE DEF t2
  <2>1. QED
    BY <1>5, <1>9, <1>10, <1>11, AsideOn
<1>13. QED
  BY <1>1, <1>12

LEMMA StakeTurns ==
    ASSUME Sound(db), NEW k, k.op = "bid", Promise!Stake(k), FirstBid(db, k)
    PROVE  Turns(db, db', {}, {}, {})
<1> DEFINE o == db[Auction(k.auction)]
           n == k.amount
           x == k.guild
           b == CreateBid(k.id, k.auction, x, n)
           a == UpdateAuctionBid(db, k.auction, x, n)
           l == LogWalletTransaction(<<k.id, 1>>, x, "reserve", -n)
           d == UpsertDailyPurchase(db, x, n)
           t1 == Write(db, b)
           t2 == Write(t1, a)
           v == [o EXCEPT !.high = n, !.winner = x]
<1>1. db' = Write(db, Write(Write(b, a), Write(l, d))) /\ Auction(k.auction) \in DOMAIN db
  BY StakeRows
<1>2. AuctionColumns(o)
  BY <1>1, SoundAuction
<1>3. Aside(db, b) /\ Aside(db, l) /\ Aside(db, d)
  BY AsideBid, AsideLog, AsideQuota
<1>4. a = OneRow(Auction(k.auction), v) /\ v.item = o.item /\ v.status = o.status
  BY <1>2 DEF UpdateAuctionBid, AuctionColumns
<1> HIDE DEF b, a, l, d, v
<1>5. Aside(db, Write(l, d))
  BY <1>3, AsideLaid
<1>6. Turns(db, t1, {}, {}, {})
  BY <1>3, AsideTurns DEF Aside
<1>7. Auction(k.auction) \in DOMAIN t1 /\ t1[Auction(k.auction)] = o
  <2>1. Auction(k.auction) \notin DOMAIN b
    BY <1>3, Names DEF Aside, Of
  <2>2. QED
    BY <1>1, <2>1, LaidDomain, LaidUnder
<1>8. Turns(t1, t2, {}, {}, {})
  <2> HIDE DEF t1
  <2>1. QED
    BY <1>4, <1>7, AuctionTurns
<1>9. Turns(db, t2, {}, {}, {})
  <2> HIDE DEF t1, t2
  <2>1. Turns(db, t2, {} \cup {}, {} \cup {}, {} \cup {})
    BY <1>6, <1>8, TurnsOn
  <2>2. QED
    BY <2>1
<1>10. \A g : Guild(g) \in DOMAIN db => Guild(g) \in DOMAIN t2
  BY LaidHas
<1>11. db' = Write(t2, Write(l, d))
  <2>1. t2 = Write(db, Write(b, a))
    BY WriteAssociates
  <2>2. QED
    BY <1>1, <2>1, WriteAssociates
<1>12. QED
  <2> HIDE DEF t2
  <2>1. QED
    BY <1>5, <1>9, <1>10, <1>11, AsideOn

\* A closing: the auction, and its item
LEMMA UnsoldTurns ==
    ASSUME Sound(db), NEW k, Promise!Close(k), db[Auction(k.auction)].high = 0
    PROVE  /\ Turns(db, db', {}, {db[Auction(k.auction)].item}, {k.auction})
           /\ Runs(db, k.auction) /\ Auction(k.auction) \in DOMAIN db' /\ ~Runs(db', k.auction)
<1> DEFINE o == db[Auction(k.auction)]
           i == UpdateItemStatus(db, o.item, "available")
           c == CloseAuction(db, k.auction, "cancelled", Nobody)
           t == Write(db, i)
           v == [db[Item(o.item)] EXCEPT !.status = "available"]
           w == [o EXCEPT !.status = "cancelled", !.winner = Nobody]
<1>1. db' = Write(db, Write(i, c)) /\ Auction(k.auction) \in DOMAIN db /\ o.status = "active"
  BY PromiseNames, PromiseRows, PromiseStatus, PromiseClosing DEF Promise!Close
<1>2. db' = Write(t, c)
  BY <1>1, WriteAssociates
<1>3. AuctionColumns(o) /\ Item(o.item) \in DOMAIN db
  BY <1>1, SoundAuction
<1>4. ItemColumns(db[Item(o.item)])
  BY <1>3, SoundOwner
<1>5. t = Write(db, OneRow(Item(o.item), v)) /\ v.kind = db[Item(o.item)].kind
      /\ v.price = db[Item(o.item)].price
  BY <1>4 DEF UpdateItemStatus, ItemColumns
<1>6. db' = Write(t, OneRow(Auction(k.auction), w)) /\ w.item = o.item /\ w.status = "cancelled"
  BY <1>2, <1>3 DEF CloseAuction, AuctionColumns
<1> HIDE DEF t, v, w
<1>7. Turns(db, t, {}, {o.item}, {})
  BY <1>3, <1>5, ItemTurns
<1>8. Auction(k.auction) \in DOMAIN t /\ t[Auction(k.auction)] = o
  BY <1>1, <1>5, PutHas, PutOthers, Names
<1>9. Turns(t, db', {}, {}, {k.auction})
  BY <1>6, <1>8, AuctionTurns
<1>10. Turns(db, db', {} \cup {}, {o.item} \cup {}, {} \cup {k.auction})
  BY <1>7, <1>9, TurnsOn
<1>11. Turns(db, db', {}, {o.item}, {k.auction})
  BY <1>10
<1>12. db'[Auction(k.auction)] = w /\ Auction(k.auction) \in DOMAIN db'
  BY <1>6, PutRow, PutHas
<1>13. QED
  BY <1>1, <1>6, <1>11, <1>12 DEF Runs

LEMMA SoldTurns ==
    ASSUME Sound(db), NEW k, Promise!Close(k), db[Auction(k.auction)].high # 0
    PROVE  /\ Turns(db, db', {}, {db[Auction(k.auction)].item}, {k.auction})
           /\ Runs(db, k.auction) /\ Auction(k.auction) \in DOMAIN db' /\ ~Runs(db', k.auction)
<1> DEFINE o == db[Auction(k.auction)]
           i == TransferItemOwnership(db, o.item, o.winner, "sold")
           s == UpdateGuildBalance(db, o.seller, o.high)
           c == CloseAuction(db, k.auction, "ended", o.winner)
           t1 == Write(db, i)
           t2 == Write(t1, s)
           v == [db[Item(o.item)] EXCEPT !.owner = o.winner, !.status = "sold"]
           w == [o EXCEPT !.status = "ended", !.winner = o.winner]
<1>1. db' = Write(db, Write(Write(i, s), c)) /\ Auction(k.auction) \in DOMAIN db /\ o.status = "active"
  BY PromiseNames, PromiseRows, PromiseTransfer, PromiseBalance, PromiseClosing DEF Promise!Close
<1>2. db' = Write(t2, c)
  <2> HIDE DEF i, s, c
  <2>1. t2 = Write(db, Write(i, s))
    BY WriteAssociates
  <2>2. QED
    BY <1>1, <2>1, WriteAssociates
<1>3. AuctionColumns(o) /\ Item(o.item) \in DOMAIN db /\ Guild(o.seller) \in DOMAIN db
  BY <1>1, SoundAuction
<1>4. ItemColumns(db[Item(o.item)])
  BY <1>3, SoundOwner
<1>5. i = OneRow(Item(o.item), v) /\ v.kind = db[Item(o.item)].kind
      /\ v.price = db[Item(o.item)].price
  BY <1>4 DEF TransferItemOwnership, ItemColumns
<1>6. c = OneRow(Auction(k.auction), w) /\ w.item = o.item /\ w.status = "ended"
  BY <1>3 DEF CloseAuction, AuctionColumns
<1>7. Aside(db, s)
  BY <1>3, AsideBalance
<1> HIDE DEF i, s, c, v, w
<1>8. Turns(db, t1, {}, {o.item}, {})
  BY <1>3, <1>5, ItemTurns
<1>17. \A r : r \in DOMAIN db => r \in DOMAIN t1
  BY LaidHas
<1>9. t1[Auction(k.auction)] = o
  BY <1>1, <1>5, PutOthers, Names
<1> HIDE DEF t1
<1>10. Turns(db, t2, {}, {o.item}, {})
  BY <1>7, <1>8, <1>17, AsideOn
<1>18. \A r : r \in DOMAIN db => r \in DOMAIN t2
  BY <1>17, LaidHas
<1>11. t2[Auction(k.auction)] = o
  <2>1. Auction(k.auction) \notin DOMAIN s
    BY <1>7, Names DEF Aside, Of
  <2>2. QED
    BY <1>1, <1>9, <1>17, <2>1, LaidUnder
<1> HIDE DEF t2
<1>12. Turns(t2, db', {}, {}, {k.auction})
  BY <1>1, <1>2, <1>6, <1>11, <1>18, AuctionTurns
<1>13. Turns(db, db', {} \cup {}, {o.item} \cup {}, {} \cup {k.auction})
  BY <1>10, <1>12, TurnsOn
<1>14. Turns(db, db', {}, {o.item}, {k.auction})
  BY <1>13
<1>15. db'[Auction(k.auction)] = w /\ Auction(k.auction) \in DOMAIN db'
  BY <1>2, <1>6, PutRow, PutHas
<1>16. QED
  BY <1>1, <1>6, <1>14, <1>15 DEF Runs

\* What request k brings into a listing, or takes out of one
NewGuilds(k) == IF k.op = "createGuild" THEN {k.id} ELSE {}
Offered(k) == IF k.op \in {"list", "buy"} THEN {k.item}
              ELSE IF k.op = "close" THEN {db[Auction(k.auction)].item} ELSE {}
Auctioned(k) == IF k.op = "start" THEN {k.id} ELSE IF k.op = "close" THEN {k.auction} ELSE {}

\* The whole effect of k, as the listings see it
Turned(k) ==
    /\ Turns(db, db', NewGuilds(k), Offered(k), Auctioned(k))
    /\ k.op = "createGuild" => Guild(k.id) \notin DOMAIN db /\ Guild(k.id) \in DOMAIN db'
    /\ k.op = "list" => ~OnOffer(db, k.item) /\ OnOffer(db', k.item)
    /\ k.op = "buy" => Item(k.item) \in DOMAIN db /\ db[Item(k.item)].price # 0
    /\ k.op = "start" => Auction(k.id) \notin DOMAIN db /\ Auction(k.id) \in DOMAIN db'
    /\ k.op = "close" =>
         /\ Runs(db, k.auction) /\ Auction(k.auction) \in DOMAIN db' /\ ~Runs(db', k.auction)

LEMMA FoundShown ==
    ASSUME NEW k, k.op = "createGuild", Promise!FoundGuild(k)
    PROVE  Turned(k)
<1> DEFINE v == [name |-> k.name, gold |-> 0, limit |-> k.limit]
<1>1. db' = Write(db, OneRow(Guild(k.id), v)) /\ Guild(k.id) \notin DOMAIN db
  BY PromiseRows, PromiseNames, PromiseGuild DEF Promise!FoundGuild, CreateGuild
<1> HIDE DEF v
<1>2. Turns(db, db', {k.id}, {}, {}) /\ Guild(k.id) \in DOMAIN db'
  BY <1>1, FoundTurns, PutHas
<1>3. QED
  BY <1>1, <1>2 DEF Turned, NewGuilds, Offered, Auctioned

LEMMA MintShown ==
    ASSUME Sound(db), NEW k, k.op = "createItem", Promise!Mint(k)
    PROVE  Turned(k)
<1> DEFINE v == [name |-> k.name, kind |-> k.kind, owner |-> k.guild, status |-> "sold", price |-> 0]
<1>1. db' = Write(db, OneRow(Item(k.id), v)) /\ Item(k.id) \notin DOMAIN db
  BY PromiseRows, PromiseNames, PromiseItem DEF Promise!Mint, CreateItem
<1>2. v.status = "sold" /\ v.price = 0
  OBVIOUS
<1> HIDE DEF v
<1>3. Turns(db, db', {}, {}, {})
  BY <1>1, <1>2, MintTurns DEF Sound
<1>4. QED
  BY <1>3 DEF Turned, NewGuilds, Offered, Auctioned

LEMMA OfferShown ==
    ASSUME Sound(db), NEW k, k.op = "list", Promise!Offer(k)
    PROVE  Turned(k)
<1> DEFINE o == db[Item(k.item)]
           v == [o EXCEPT !.status = "available"]
<1>1. db' = Write(db, OneRow(Item(k.item), v)) /\ Item(k.item) \in DOMAIN db /\ o.status = "sold"
  BY PromiseRows, PromiseNames, PromiseStatus DEF Promise!Offer, UpdateItemStatus
<1>2. ItemColumns(o)
  BY <1>1, SoundOwner
<1>3. v.kind = o.kind /\ v.price = o.price /\ v.status = "available"
  BY <1>2 DEF ItemColumns
<1> HIDE DEF v
<1>4. Turns(db, db', {}, {k.item}, {}) /\ db'[Item(k.item)] = v /\ Item(k.item) \in DOMAIN db'
  BY <1>1, <1>3, ItemTurns, PutRow, PutHas
<1>5. QED
  BY <1>1, <1>3, <1>4 DEF Turned, NewGuilds, Offered, Auctioned, OnOffer

LEMMA OpenShown ==
    ASSUME Sound(db), NEW k, k.op = "start", Promise!Open(k)
    PROVE  Turned(k)
<1> DEFINE v == [status |-> "active", item |-> k.item, seller |-> k.guild, start |-> k.amount,
                 high |-> 0, winner |-> Nobody]
<1>1. /\ db' = Write(db, OneRow(Auction(k.id), v)) /\ Auction(k.id) \notin DOMAIN db
      /\ Item(k.item) \in DOMAIN db /\ db[Item(k.item)].kind = "legendary"
  BY PromiseRows, PromiseNames, PromiseAuction DEF Promise!Open, CreateAuction
<1>2. v.item = k.item
  OBVIOUS
<1> HIDE DEF v
<1>3. Turns(db, db', {}, {}, {k.id}) /\ Auction(k.id) \in DOMAIN db'
  BY <1>1, <1>2, OpenTurns, PutHas
<1>4. QED
  BY <1>1, <1>3 DEF Turned, NewGuilds, Offered, Auctioned

LEMMA EffectShown ==
    ASSUME Sound(db), NEW k, Promise!Effect(k), FirstBid(db, k)
    PROVE  Turned(k)
<1>1. CASE k.op = "createGuild"
  BY <1>1, FoundShown DEF Promise!Effect
<1>2. CASE k.op = "deposit"
  <2>1. Turns(db, db', {}, {}, {})
    BY <1>2, DepositTurns DEF Promise!Effect
  <2>2. QED
    BY <1>2, <2>1 DEF Turned, NewGuilds, Offered, Auctioned
<1>3. CASE k.op = "createItem"
  BY <1>3, MintShown DEF Promise!Effect
<1>4. CASE k.op = "list"
  BY <1>4, OfferShown DEF Promise!Effect
<1>5. CASE k.op = "buy"
  <2>1. /\ Turns(db, db', {}, {k.item}, {})
        /\ Item(k.item) \in DOMAIN db /\ db[Item(k.item)].price # 0
    BY <1>5, SellTurns DEF Promise!Effect
  <2>2. QED
    BY <1>5, <2>1 DEF Turned, NewGuilds, Offered, Auctioned
<1>6. CASE k.op = "start"
  BY <1>6, OpenShown DEF Promise!Effect
<1>7. CASE k.op = "bid"
  <2>1. Turns(db, db', {}, {}, {})
    BY <1>7, StakeTurns DEF Promise!Effect
  <2>2. QED
    BY <1>7, <2>1 DEF Turned, NewGuilds, Offered, Auctioned
<1>8. CASE k.op = "close"
  <2>1. Promise!Close(k)
    BY <1>8 DEF Promise!Effect
  <2>2. /\ Turns(db, db', {}, {db[Auction(k.auction)].item}, {k.auction})
        /\ Runs(db, k.auction) /\ Auction(k.auction) \in DOMAIN db' /\ ~Runs(db', k.auction)
    BY <2>1, UnsoldTurns, SoldTurns
  <2>3. QED
    BY <1>8, <2>2 DEF Turned, NewGuilds, Offered, Auctioned
<1>9. QED
  BY <1>1, <1>2, <1>3, <1>4, <1>5, <1>6, <1>7, <1>8 DEF Promise!Effect

-----------------------------------------------------------------------------
(* What the listings show.                                                 *)

\* The rows listing l shows of the tables t, and those of them request k may bring in
\* or take out
Shows(t, l) ==
    IF l.op = "listGuilds" THEN ListGuilds(t)
    ELSE IF l.op = "listActive" THEN ListActiveAuctions(t)
    ELSE IF "kind" \in DOMAIN l THEN ListAvailableItemsByType(t, l.kind)
    ELSE ListAvailableItems(t)
Touched(k, op) ==
    IF op = "listGuilds" THEN NewGuilds(k)
    ELSE IF op = "listActive" THEN Auctioned(k) ELSE Offered(k)

LEMMA ShowsTell ==
    ASSUME NEW t, Typed(t)
    PROVE  /\ \A g : g \in ListGuilds(t) <=> Guild(g) \in DOMAIN t
           /\ \A a : a \in ListActiveAuctions(t) <=> Runs(t, a)
           /\ \A i : i \in ListAvailableItems(t) <=> OnOffer(t, i)
           /\ \A i, kind : i \in ListAvailableItemsByType(t, kind)
                             <=> OnOffer(t, i) /\ t[Item(i)].kind = kind
BY KeysAreNames
DEF ListGuilds, ListActiveAuctions, ActiveAuctions, ListAvailableItems, ListAvailableItemsByType,
    Available, OfKind, Runs, OnOffer

LEMMA ShowsFinite ==
    ASSUME NEW t, Typed(t), NEW l
    PROVE  IsFiniteSet(Shows(t, l)) /\ Cardinality(Shows(t, l)) \in Nat
<1>1. \E table : Shows(t, l) \in SUBSET Keys(t, table)
  <2>1. ListGuilds(t) \in SUBSET Keys(t, "guild")
    BY DEF ListGuilds
  <2>2. ListActiveAuctions(t) \in SUBSET Keys(t, "auction")
    BY DEF ListActiveAuctions, ActiveAuctions
  <2>3. ListAvailableItems(t) \in SUBSET Keys(t, "item")
        /\ \A kind : ListAvailableItemsByType(t, kind) \in SUBSET Keys(t, "item")
    BY DEF ListAvailableItems, ListAvailableItemsByType, Available
  <2>4. QED
    BY <2>1, <2>2, <2>3 DEF Shows
<1>2. PICK table : Shows(t, l) \in SUBSET Keys(t, table)
  BY <1>1
<1>3. IsFiniteSet(Shows(t, l))
  BY <1>2, KeysFinite, FS_Subset
<1>4. QED
  BY <1>3, FS_CardinalityType

LEMMA ShowsTurn ==
    ASSUME Typed(db), Typed(db'), NEW k, Turned(k), NEW l, NEW x, x \notin Touched(k, l.op)
    PROVE  x \in Shows(db, l) <=> x \in Shows(db', l)
<1>0. Turns(db, db', NewGuilds(k), Offered(k), Auctioned(k))
  BY DEF Turned
<1>1. CASE l.op = "listGuilds"
  BY <1>0, <1>1, ShowsTell DEF Shows, Touched, Turns
<1>2. CASE l.op = "listActive"
  BY <1>0, <1>2, ShowsTell DEF Shows, Touched, Turns
<1>3. CASE l.op \notin {"listGuilds", "listActive"}
  <2>1. OnOffer(db, x) <=> OnOffer(db', x)
    BY <1>0, <1>3 DEF Touched, Turns
  <2>2. OnOffer(db, x) => db'[Item(x)].kind = db[Item(x)].kind
    BY <1>0 DEF Turns, KeepsItems, OnOffer
  <2>3. CASE "kind" \in DOMAIN l
    <3>1. Shows(db, l) = ListAvailableItemsByType(db, l.kind)
          /\ Shows(db', l) = ListAvailableItemsByType(db', l.kind)
      BY <1>3, <2>3 DEF Shows
    <3>2. QED
      BY <2>1, <2>2, <3>1, ShowsTell
  <2>4. CASE "kind" \notin DOMAIN l
    <3>1. Shows(db, l) = ListAvailableItems(db) /\ Shows(db', l) = ListAvailableItems(db')
      BY <1>3, <2>4 DEF Shows
    <3>2. QED
      BY <2>1, <3>1, ShowsTell
  <2>5. QED
    BY <2>3, <2>4
<1>4. QED
  BY <1>1, <1>2, <1>3

\* n and m are at most d apart.
Near(n, m, d) == n - m \in -d..d

LEMMA OneApart ==
    ASSUME NEW S, NEW T, IsFiniteSet(S), IsFiniteSet(T), NEW e,
           \A x : x # e => (x \in S <=> x \in T)
    PROVE  Near(Cardinality(T), Cardinality(S), 1)
<1>0. Cardinality(S) \in Nat /\ Cardinality(T) \in Nat
  BY FS_CardinalityType
<1>1. CASE e \in S /\ e \notin T
  <2>1. S = T \cup {e}
    BY <1>1
  <2>2. Cardinality(S) = Cardinality(T) + 1
    BY <1>1, <2>1, FS_AddElement
  <2>3. QED
    BY <1>0, <2>2 DEF Near
<1>2. CASE e \notin S /\ e \in T
  <2>1. T = S \cup {e}
    BY <1>2
  <2>2. Cardinality(T) = Cardinality(S) + 1
    BY <1>2, <2>1, FS_AddElement
  <2>3. QED
    BY <1>0, <2>2 DEF Near
<1>3. CASE e \in S <=> e \in T
  <2>1. S = T
    BY <1>3
  <2>2. QED
    BY <1>0, <2>1 DEF Near
<1>4. QED
  BY <1>1, <1>2, <1>3

\* An effect brings at most one row into a listing, or takes one out.
LEMMA ShowsOneApart ==
    ASSUME Typed(db), Typed(db'), NEW k, Turned(k), NEW l
    PROVE  /\ Near(Cardinality(Shows(db', l)), Cardinality(Shows(db, l)), 1)
           /\ Touched(k, l.op) = {} => Shows(db', l) = Shows(db, l)
<1>1. \A x : x \notin Touched(k, l.op) => (x \in Shows(db, l) <=> x \in Shows(db', l))
  BY ShowsTurn
<1>2. PICK e : \A x : x # e => x \notin Touched(k, l.op)
  BY DEF Touched, NewGuilds, Offered, Auctioned
<1>3. IsFiniteSet(Shows(db, l)) /\ IsFiniteSet(Shows(db', l))
  BY ShowsFinite
<1>4. Near(Cardinality(Shows(db', l)), Cardinality(Shows(db, l)), 1)
  BY <1>1, <1>2, <1>3, OneApart
<1>5. ASSUME Touched(k, l.op) = {} PROVE Shows(db', l) = Shows(db, l)
  BY <1>1, <1>5
<1>6. QED
  BY <1>4, <1>5

-----------------------------------------------------------------------------
(* The steps of the running program.                                       *)

\* No request goes out or comes back; goroutines may die.
Mains == \A q \in Clients : http'[q].main = "unsent" <=> http[q].main = "unsent"
Rests ==
    /\ db' = db /\ Mains
    /\ \A q \in Procs : req'[q] = req[q] \/ req'[q] = NoRequest
\* Client p sends its request.
Sends(p) ==
    /\ Take(p, work[p], "service") /\ http[p].main = "unsent" /\ http'[p].main # "unsent"
    /\ \A q \in Clients : q # p => http'[q] = http[q]
\* Copy x goes on to what its seeder or its worker has to do.
Drives(x) ==
    /\ \E k : /\ k \in SeedAsks \/ (k = work[x] /\ k # Nothing)
              /\ \E at \in {"insert", "begin"} : Take(x, k, at)
    /\ http' = http
Works(p) == (Step(p) \/ Fail(p) \/ CommitUnconfirmed(p)) /\ http' = http

LEMMA WriteAnswerMains ==
    ASSUME NEW p \in Clients, Web, WriteAnswer(p)
    PROVE  Mains
<1> DEFINE r == holder[http[p].app][http[p].context]
           status == Status(req[p].ask.op, req[p].err)
           own == [http[p] EXCEPT !.wrote = TRUE]
           done == [http EXCEPT ![p] = own]
<1>1. http' = IF r = Nothing THEN done ELSE [done EXCEPT ![r] = Written(done[r], p, status)]
  BY DEF WriteAnswer
<1>2. HttpRecord(own) /\ own.main = http[p].main
  BY DEF Web, WebShapes, HttpRecord
<1>3. done = [q \in Clients |-> done[q]] /\ done[p] = own
      /\ \A q \in Clients : q # p => done[q] = http[q]
  BY DEF Web, WebShapes
<1>4. status \in Statuses
  BY StatusKnown
<1> HIDE DEF own, done, status, r
<1>5. \A q \in Clients : HttpRecord(done[q]) /\ done[q].main = http[q].main
  BY <1>2, <1>3 DEF Web, WebShapes
<1>6. \A q \in Clients : Written(done[q], p, status).main = done[q].main
  BY <1>4, <1>5, WrittenHasAnswer
<1>7. \A q \in Clients : http'[q] = done[q] \/ http'[q] = Written(done[q], p, status)
  BY <1>1, <1>3
<1>8. QED
  BY <1>5, <1>6, <1>7 DEF Mains

LEMMA MainReturnsMains ==
    ASSUME NEW p \in Clients, Web, Receive(p) \/ Timeout(p)
    PROVE  Mains
<1>1. http[p].main = "waiting"
  BY DEF Receive, Timeout
<1>2. http'[p].main \in {"answered", "expired"} /\ \A q \in Clients : q # p => http'[q] = http[q]
  <2>1. CASE Receive(p)
    <3> DEFINE h == [http[p] EXCEPT !.main = "answered"]
    <3>1. h.main = "answered"
      BY DEF HttpRecord, Web, WebShapes
    <3>2. http' = [http EXCEPT ![p] = h]
      BY <2>1 DEF Receive
    <3> HIDE DEF h
    <3>3. QED
      BY <3>1, <3>2 DEF Web, WebShapes
  <2>2. CASE Timeout(p)
    <3> DEFINE g == Written(http[p], p, 503)
               h == [g EXCEPT !.main = "expired"]
    <3>1. HttpRecord(g)
      BY WrittenHasAnswer DEF Statuses, Web, WebShapes
    <3>2. http' = [http EXCEPT ![p] = h]
      BY <2>2 DEF Timeout
    <3> HIDE DEF g
    <3>3. HttpRecord(h) /\ h.main = "expired"
      BY <3>1 DEF HttpRecord
    <3> HIDE DEF h
    <3>4. QED
      BY <3>2, <3>3 DEF Web, WebShapes
  <2>3. QED
    BY <2>1, <2>2
<1>3. QED
  BY <1>1, <1>2 DEF Mains

LEMMA EndsRests ==
    ASSUME NEW x \in Apps, NEW next, Web, Ends(x, next)
    PROVE  Rests
<1>1. db' = db /\ \A q \in Procs : req'[q] = req[q] \/ req'[q] = NoRequest
  BY DEF Ends, Kill
<1>2. \A q \in Clients : \/ http'[q] = http[q]
                         \/ http[q].main = "waiting" /\ http'[q] = [http[q] EXCEPT !.main = "lost"]
  BY DEF Ends, Waiting
<1>3. \A q \in Clients : [http[q] EXCEPT !.main = "lost"].main = "lost"
  BY DEF Web, WebShapes, HttpRecord
<1>4. Mains
  BY <1>2, <1>3 DEF Mains
<1>5. QED
  BY <1>1, <1>4 DEF Rests

\* Every step is of one of these kinds, and who has what to do never changes.
LEMMA ServiceMoves ==
    ASSUME Faithful, Web, [ServiceNext]_allVars
    PROVE  /\ work' = work
           /\ \/ Rests
              \/ \E p \in Clients : Sends(p)
              \/ \E x \in Apps : Drives(x)
              \/ \E p \in Procs : Works(p)
<1> DEFINE Move == /\ work' = work
                    /\ \/ Rests
                       \/ \E p \in Clients : Sends(p)
                       \/ \E x \in Apps : Drives(x)
                       \/ \E p \in Procs : Works(p)
<1>1. ASSUME UNCHANGED <<db, req, http, work>> PROVE Move
  BY <1>1 DEF Rests, Mains
<1>2. ASSUME NEW p \in Clients, ClientNext(p) PROVE Move
  <2>1. p \in Procs
    BY ProcessAssumption
  <2>2. CASE Accept(p)
    <3>1. PICK x \in Apps, c \in Contexts :
            http' = [http EXCEPT ![p] = [Unsent EXCEPT !.main = "waiting", !.app = x, !.context = c]]
      BY <2>2 DEF Accept
    <3> DEFINE h == [Unsent EXCEPT !.main = "waiting", !.app = x, !.context = c]
    <3>2. h.main = "waiting"
      BY DEF Unsent
    <3> HIDE DEF h
    <3>3. http'[p] = h /\ \A q \in Clients : q # p => http'[q] = http[q]
      BY <3>1 DEF h, Web, WebShapes
    <3>4. Sends(p) /\ work' = work
      BY <2>2, <3>2, <3>3 DEF Accept, Call, Sends
    <3>5. QED
      BY <3>4
  <2>3. CASE Handle(p)
    BY <2>1, <2>3, HandlesSteps DEF Handle, Works, web
  <2>4. CASE WriteAnswer(p)
    BY <2>4, WriteAnswerMains DEF WriteAnswer, Rests, vars
  <2>5. CASE Receive(p) \/ Timeout(p)
    BY <2>5, MainReturnsMains DEF Receive, Timeout, Rests, vars
  <2>6. QED
    BY <1>2, <2>2, <2>3, <2>4, <2>5 DEF ClientNext
<1>3. ASSUME NEW x \in Apps, AppNext(x) PROVE Move
  <2>1. x \in Procs
    BY ProcessAssumption
  <2>2. CASE Start(x) \/ SeedCheck(x) \/ SeedNext(x) \/ Signal(x) \/ ShutdownDone(x)
    BY <1>1, <2>2 DEF Start, SeedCheck, SeedNext, Signal, ShutdownDone, vars, web
  <2>3. CASE SeedCall(x)
    <3>1. SeedingAsk(x) \in SeedAsks
      BY <2>3, SeedingKnown DEF SeedCall, Faithful
    <3>2. PICK at \in {"insert", "begin"} : Take(x, SeedingAsk(x), at)
      BY <2>3 DEF SeedCall, CallRepository
    <3>3. Drives(x) /\ work' = work
      BY <2>3, <3>1, <3>2 DEF SeedCall, Drives, web
    <3>4. QED
      BY <3>3
  <2>4. CASE WorkerCall(x)
    <3>1. PICK at \in {"insert", "begin"} : Take(x, work[x], at)
      BY <2>4 DEF WorkerCall, CallRepository
    <3>2. Drives(x) /\ work' = work
      BY <2>4, <3>1 DEF WorkerCall, Drives, web
    <3>3. QED
      BY <3>2
  <2>5. CASE AppStep(x)
    BY <2>1, <2>5 DEF AppStep, Works, web
  <2>6. CASE ShutdownTimeout(x) \/ Exit(x) \/ Crash(x) \/ PricePanic(x)
    <3>1. PICK next : Ends(x, next)
      BY <2>6 DEF ShutdownTimeout, Exit, Crash, PricePanic
    <3>2. QED
      BY <3>1, EndsRests DEF Ends
  <2>7. QED
    BY <1>3, <2>2, <2>3, <2>4, <2>5, <2>6 DEF AppNext
<1>4. CASE UNCHANGED allVars
  BY <1>1, <1>4 DEF allVars, vars, web
<1>5. QED
  BY <1>2, <1>3, <1>4 DEF ServiceNext

-----------------------------------------------------------------------------
(* Who has moved rows.                                                     *)

\* The other clients whose request is over, and the workers whose auction is
Others(p) == {q \in Clients \ {p} : http[q].main # "unsent" /\ ~Running(q)}
Closers ==
    {x \in Apps : /\ work[x] # Nothing
                  /\ Auction(work[x].auction) \in DOMAIN db /\ ~Runs(db, work[x].auction)}

\* The rows of a seed that listing op shows, and those that are there
Planned(op) == IF op = "listGuilds" THEN {1, 3} ELSE IF op = "listActive" THEN {10} ELSE {5, 7}
Made(t, op, i) ==
    IF op = "listGuilds" THEN Guild(i) \in DOMAIN t
    ELSE IF op = "listActive" THEN Auction(i) \in DOMAIN t ELSE OnOffer(t, i)
Sown(op) ==
    {s \in (Apps \X (1..MaxStarts)) \X Planned(op) : Made(db, op, SeedId(s[1][1], s[1][2], s[2]))}

\* How many rows of listing op can have been moved by others than p
Pace(p, op) == Cardinality(Others(p)) + Cardinality(Closers) + Cardinality(Sown(op))

LEMMA PartsFinite ==
    /\ \A S : S \subseteq Clients \/ S \subseteq Apps => IsFiniteSet(S)
    /\ \A S, op : S \subseteq (Apps \X (1..MaxStarts)) \X Planned(op) => IsFiniteSet(S)
<1>1. IsFiniteSet(Clients) /\ IsFiniteSet(Apps)
  <2>1. Clients \in SUBSET Procs /\ Apps \in SUBSET Procs
    BY ProcessAssumption
  <2>2. QED
    BY <2>1, ProcsAssumption, FS_Subset
<1>2. IsFiniteSet(1..MaxStarts)
  BY StartsAssumption, FS_Interval
<1>3. IsFiniteSet(Apps \X (1..MaxStarts))
  BY <1>1, <1>2, FS_Product
<1>4. ASSUME NEW op PROVE IsFiniteSet((Apps \X (1..MaxStarts)) \X Planned(op))
  <2>1. IsFiniteSet({1, 3}) /\ IsFiniteSet({10}) /\ IsFiniteSet({5, 7})
    <3>1. \A e : IsFiniteSet({e})
      BY FS_Singleton
    <3>2. IsFiniteSet({1} \cup {3}) /\ IsFiniteSet({5} \cup {7})
      BY <3>1, FS_AddElement
    <3>3. {1, 3} = {1} \cup {3} /\ {5, 7} = {5} \cup {7}
      OBVIOUS
    <3>4. QED
      BY <3>1, <3>2, <3>3
  <2>2. IsFiniteSet(Planned(op))
    BY <2>1 DEF Planned
  <2>3. QED
    BY <1>3, <2>2, FS_Product
<1>5. QED
  BY <1>1, <1>4, FS_Subset

\* A finite set that grows
LEMMA Grown ==
    ASSUME NEW S, NEW T, IsFiniteSet(S), IsFiniteSet(T), S \subseteq T
    PROVE  /\ Cardinality(S) \in Nat /\ Cardinality(T) \in Nat
           /\ Cardinality(S) <= Cardinality(T)
           /\ (\E e \in T : e \notin S) => Cardinality(S) + 1 <= Cardinality(T)
<1>1. Cardinality(S) \in Nat /\ Cardinality(T) \in Nat
  BY FS_CardinalityType
<1>2. Cardinality(S) <= Cardinality(T) /\ (Cardinality(S) = Cardinality(T) => S = T)
  BY FS_Subset
<1>3. QED
  BY <1>1, <1>2

\* Handlers run only for requests that are out, copies only what they have to do.
Sent == \A p \in Clients : http[p].main = "unsent" => ~Running(p)
Driven == \A x \in Apps : Running(x) => req[x].ask \in SeedAsks \/ (req[x].ask = work[x] /\ work[x] # Nothing)
Roles == Sent /\ Driven

LEMMA WorksOwn ==
    ASSUME Faithful, NEW p \in Procs, Works(p)
    PROVE  /\ Running(p) /\ req'[p].ask = req[p].ask
           /\ \A q \in Procs : q # p => req'[q] = req[q]
<1>1. Shapes /\ Positions /\ Exclusive
  BY DEF Faithful, Drafted, Guarded
<1>2. Kinds(p)
  BY <1>1, StepKinds DEF Works
<1>3. Onward(p)
  BY <1>1, StepGoesOn DEF Works
<1>4. QED
  BY <1>1, <1>2, <1>3, OthersStay DEF Onward

LEMMA TakeOwn ==
    ASSUME Faithful, NEW p \in Procs, NEW k, NEW at, Take(p, k, at)
    PROVE  /\ req'[p].ask = k /\ req'[p].at = at /\ req'[p].saw = NoRows /\ db' = db
           /\ \A q \in Procs : q # p => req'[q] = req[q]
<1>1. req = [q \in Procs |-> req[q]]
  BY DEF Faithful, Drafted, Guarded, Shapes
<1>2. req' = [req EXCEPT ![p] = [NoRequest EXCEPT !.ask = k, !.at = at]] /\ db' = db
  BY DEF Take
<1> DEFINE r == [NoRequest EXCEPT !.ask = k, !.at = at]
<1>3. r.ask = k /\ r.at = at /\ r.saw = NoRows
  BY DEF NoRequest
<1> HIDE DEF r
<1>4. req'[p] = r /\ \A q \in Procs : q # p => req'[q] = req[q]
  BY <1>1, <1>2 DEF r
<1>5. QED
  BY <1>2, <1>3, <1>4

LEMMA RestingRuns ==
    ASSUME Rests, NEW q \in Procs
    PROVE  Running(q)' => Running(q) /\ req'[q] = req[q]
<1>1. NoRequest.at = "idle"
  BY DEF NoRequest
<1>2. QED
  BY <1>1 DEF Rests, Running

LEMMA RolesStep ==
    ASSUME Faithful, Web, Roles, [ServiceNext]_allVars
    PROVE  Roles'
<1>0. Clients \subseteq Procs /\ Apps \subseteq Procs /\ \A p \in Clients : p \notin Apps
  BY ProcessAssumption
<1>1. work' = work
  BY ServiceMoves
<1>2. CASE Rests
  BY <1>0, <1>1, <1>2, RestingRuns DEF Rests, Mains, Roles, Sent, Driven
<1>3. ASSUME NEW p \in Clients, Sends(p) PROVE Roles'
  <2>1. \A q \in Procs : q # p => req'[q] = req[q]
    BY <1>0, <1>3, TakeOwn DEF Sends
  <2>2. Sent'
    BY <1>0, <1>3, <2>1 DEF Sends, Roles, Sent, Running
  <2>3. Driven'
    BY <1>0, <1>1, <1>3, <2>1 DEF Roles, Driven, Running
  <2>4. QED
    BY <2>2, <2>3 DEF Roles
<1>4. ASSUME NEW x \in Apps, Drives(x) PROVE Roles'
  <2>1. PICK k : /\ k \in SeedAsks \/ (k = work[x] /\ k # Nothing)
                 /\ req'[x].ask = k /\ \A q \in Procs : q # x => req'[q] = req[q]
    BY <1>0, <1>4, TakeOwn DEF Drives
  <2>2. http' = http
    BY <1>4 DEF Drives
  <2>3. Sent'
    BY <1>0, <2>1, <2>2 DEF Roles, Sent, Running
  <2>4. Driven'
    BY <1>0, <1>1, <2>1 DEF Roles, Driven, Running
  <2>5. QED
    BY <2>3, <2>4 DEF Roles
<1>5. ASSUME NEW p \in Procs, Works(p) PROVE Roles'
  <2>1. /\ Running(p) /\ req'[p].ask = req[p].ask
        /\ \A q \in Procs : q # p => req'[q] = req[q]
    BY <1>5, WorksOwn
  <2>2. http' = http
    BY <1>5 DEF Works
  <2>3. Sent'
    BY <1>0, <2>1, <2>2 DEF Roles, Sent, Running
  <2>4. Driven'
    BY <1>0, <1>1, <2>1 DEF Roles, Driven, Running
  <2>5. QED
    BY <2>3, <2>4 DEF Roles
<1>6. QED
  BY <1>2, <1>3, <1>4, <1>5, ServiceMoves

\* Nobody buys a seeded item, or has it in an auction.
SeedStill ==
    \A x \in Apps, j \in 1..MaxStarts, n \in {5, 7} :
      Item(SeedId(x, j, n)) \in DOMAIN db => Still(db, SeedId(x, j, n))

\* What a step does to the tables: nothing, or the whole effect of p's request
LEMMA WorksTurns ==
    ASSUME Faithful, NEW p \in Procs, Works(p)
    PROVE  db' = db \/ (req[p].ask \in Asks /\ Turned(req[p].ask) /\ Stands(db, db'))
<1>1. Drafted /\ SeedKinds(db) /\ Suited /\ Sound(db)
  BY DEF Faithful, Drafted
<1>2. Effects(p)
  BY <1>1, StepEffects DEF Works
<1>3. QED
  BY <1>1, <1>2, EffectShown, EffectBooks DEF Effects, BooksKept

LEMMA SeedStillStep ==
    ASSUME Faithful', SeedStill, NEW k, Turned(k)
    PROVE  SeedStill'
<1> SUFFICES ASSUME NEW x \in Apps, NEW j \in 1..MaxStarts, NEW n \in {5, 7},
                    Item(SeedId(x, j, n)) \in DOMAIN db'
             PROVE  Still(db', SeedId(x, j, n))
  BY DEF SeedStill
<1> DEFINE i == SeedId(x, j, n)
           s == SeedAsk(x, j, n)
<1>1. s \in SeedAsks /\ s.op = "createItem" /\ s.id = i /\ s.kind # "legendary"
  <2>1. n \in 1..10
    OBVIOUS
  <2>2. s \in SeedAsks
    BY <2>1, SeedIsAsked
  <2>3. QED
    BY <2>2, Seed5, Seed7
<1> HIDE DEF i, s
<1>2. db'[Item(i)].kind # "legendary"
  BY <1>1 DEF Faithful, SeedKinds, i
<1>3. Item(i) \in DOMAIN db => Still(db, i)
  BY DEF SeedStill, i
<1>4. Still(db', i)
  BY <1>2, <1>3 DEF Turned, Turns, i
<1>5. QED
  BY <1>4 DEF i

\* What a step does to the tables, whoever makes it
LEMMA StepTurns ==
    ASSUME Faithful, Web, [ServiceNext]_allVars
    PROVE  \/ db' = db
           \/ \E p \in Procs : /\ Works(p) /\ db' # db /\ req[p].ask \in Asks
                               /\ Turned(req[p].ask) /\ Stands(db, db')
<1>1. CASE Rests
  BY <1>1 DEF Rests
<1>2. CASE (\E p \in Clients : Sends(p)) \/ (\E x \in Apps : Drives(x))
  BY <1>2 DEF Sends, Drives, Take
<1>3. ASSUME NEW p \in Procs, Works(p), db' # db
      PROVE  req[p].ask \in Asks /\ Turned(req[p].ask) /\ Stands(db, db')
  BY <1>3, WorksTurns
<1>4. QED
  BY <1>1, <1>2, <1>3, ServiceMoves

LEMMA SeedStillKept ==
    ASSUME Faithful, Faithful', Web, SeedStill, [ServiceNext]_allVars
    PROVE  SeedStill'
<1>1. CASE db' = db
  BY <1>1 DEF SeedStill, Still
<1>2. CASE \E k : Turned(k)
  BY <1>2, SeedStillStep
<1>3. QED
  BY <1>1, <1>2, StepTurns

LEMMA InitRoles == ASSUME ServiceInit PROVE Roles /\ SeedStill
<1>1. Faithful /\ db \in Openings /\ req = [p \in Procs |-> NoRequest]
  BY InitFaithful, ScenarioAssumption DEF ServiceInit, Init
<1>2. NoRequest.at = "idle"
  BY DEF NoRequest
<1>3. Roles
  BY <1>1, <1>2, ProcessAssumption DEF Roles, Sent, Driven, Running
<1>4. ASSUME NEW x \in Apps, NEW j \in 1..MaxStarts, NEW n \in 1..10
      PROVE  Item(SeedId(x, j, n)) \notin DOMAIN db
  <2>1. \A r \in DOMAIN db : \A s \in SeedAsks : r[2] # s.id
    BY <1>1, SeedAssumption
  <2>2. \A r \in DOMAIN db : r[2] # SeedId(x, j, n)
    BY <2>1, SeedIsAsked, SeedIds
  <2>3. QED
    BY <2>2, Names
<1>5. 5 \in 1..10 /\ 7 \in 1..10
  OBVIOUS
<1>6. SeedStill
  BY <1>4, <1>5 DEF SeedStill
<1>7. QED
  BY <1>3, <1>6

\* Who has moved rows, has.
LEMMA OthersGrow ==
    ASSUME Faithful, Web, Roles, [ServiceNext]_allVars, NEW p \in Clients
    PROVE  Others(p) \subseteq Others(p)'
<1> SUFFICES ASSUME NEW q \in Clients, q # p, http[q].main # "unsent", ~Running(q)
             PROVE  http'[q].main # "unsent" /\ ~Running(q)'
  BY DEF Others
<1>0. q \in Procs /\ q \notin Apps
  BY ProcessAssumption
<1>1. CASE Rests
  BY <1>0, <1>1, RestingRuns DEF Rests, Mains
<1>2. ASSUME NEW r \in Clients, Sends(r) PROVE http'[q].main # "unsent" /\ ~Running(q)'
  <2>1. r \in Procs /\ r # q
    BY <1>2, ProcessAssumption DEF Sends
  <2>2. req'[q] = req[q]
    BY <1>0, <1>2, <2>1, TakeOwn DEF Sends
  <2>3. QED
    BY <1>2, <2>1, <2>2 DEF Sends, Running
<1>3. ASSUME NEW x \in Apps, Drives(x) PROVE http'[q].main # "unsent" /\ ~Running(q)'
  <2>1. x \in Procs /\ x # q
    BY <1>0, ProcessAssumption
  <2>2. req'[q] = req[q]
    BY <1>0, <1>3, <2>1, TakeOwn DEF Drives
  <2>3. QED
    BY <1>3, <2>2 DEF Drives, Running
<1>4. ASSUME NEW r \in Procs, Works(r) PROVE http'[q].main # "unsent" /\ ~Running(q)'
  <2>1. r # q /\ req'[q] = req[q]
    BY <1>0, <1>4, WorksOwn
  <2>2. QED
    BY <1>4, <2>1 DEF Works, Running
<1>5. QED
  BY <1>1, <1>2, <1>3, <1>4, ServiceMoves

LEMMA ClosersGrow ==
    ASSUME work' = work, db' = db \/ Stands(db, db')
    PROVE  Closers \subseteq Closers'
<1> SUFFICES ASSUME NEW x \in Apps, work[x] # Nothing, Auction(work[x].auction) \in DOMAIN db,
                    ~Runs(db, work[x].auction)
             PROVE  /\ work'[x] # Nothing /\ Auction(work'[x].auction) \in DOMAIN db'
                    /\ ~Runs(db', work'[x].auction)
  BY DEF Closers
<1>1. CASE db' = db
  BY <1>1
<1>2. CASE Stands(db, db')
  BY <1>2, Names DEF Stands, Runs
<1>3. QED
  BY <1>1, <1>2

LEMMA SownGrows ==
    ASSUME SeedStill, NEW k, Turned(k), Stands(db, db'), NEW op
    PROVE  Sown(op) \subseteq Sown(op)'
<1> SUFFICES ASSUME NEW x \in Apps, NEW j \in 1..MaxStarts, NEW n \in Planned(op),
                    Made(db, op, SeedId(x, j, n))
             PROVE  Made(db', op, SeedId(x, j, n))
  BY DEF Sown
<1> DEFINE i == SeedId(x, j, n)
<1>1. CASE op \in {"listGuilds", "listActive"}
  BY <1>1 DEF Made, Stands
<1>2. CASE op \notin {"listGuilds", "listActive"}
  <2>1. n \in {5, 7} /\ OnOffer(db, i)
    BY <1>2 DEF Planned, Made
  <2>2. Still(db, i)
    BY <2>1 DEF SeedStill, OnOffer
  <2> HIDE DEF i
  <2>3. i \notin Offered(k)
    <3>1. CASE k.op = "list"
      BY <2>1, <3>1 DEF Turned, Offered
    <3>2. CASE k.op = "buy"
      BY <2>2, <3>2 DEF Turned, Offered, Still
    <3>3. CASE k.op = "close"
      BY <2>2, <3>3 DEF Turned, Offered, Still, Runs
    <3>4. QED
      BY <3>1, <3>2, <3>3 DEF Offered
  <2>4. OnOffer(db', i)
    BY <2>1, <2>3 DEF Turned, Turns
  <2>5. QED
    BY <1>2, <2>4 DEF Made, i
<1>3. QED
  BY <1>1, <1>2

\* Whoever moves a row of a listing is counted for it: a client by its request, which is
\* over, a worker by its auction, a seeder by the row of its plan.
LEMMA ClientCounts ==
    ASSUME Faithful, Roles, NEW q \in Clients, Works(q), db' # db, NEW p \in Clients, p # q
    PROVE  q \in Others(p)' /\ q \notin Others(p)
<1>1. q \in Procs
  BY ProcessAssumption
<1>2. Running(q)
  BY <1>1, WorksOwn
<1>3. Shapes /\ Positions /\ Exclusive
  BY DEF Faithful, Drafted, Guarded
<1>4. Finishes(q)
  BY <1>1, <1>3, StepKinds DEF Works, Kinds, Moves, Begin, Advances
<1>5. req'[q].at = "done"
  BY <1>1, <1>3, <1>4 DEF Finishes, Shapes
<1>6. http[q].main # "unsent" /\ http' = http
  BY <1>2 DEF Roles, Sent, Works
<1>7. QED
  BY <1>2, <1>5, <1>6 DEF Others, Running

LEMMA WorkerCounts ==
    ASSUME NEW x \in Apps, work' = work, work[x] # Nothing, work[x].op = "close", Turned(work[x])
    PROVE  x \in Closers' /\ x \notin Closers
BY DEF Turned, Closers

LEMMA SeederCounts ==
    ASSUME NEW k \in SeedAsks, Turned(k), NEW op \in Listings, Touched(k, op) # {}
    PROVE  \E s \in Sown(op)' : s \notin Sown(op)
<1>1. PICK x \in Apps, j \in 1..MaxStarts, n \in 1..10 : k = SeedAsk(x, j, n)
  BY DEF SeedAsks
<1>2. k.id = SeedId(x, j, n)
  BY <1>1, SeedIds
<1>3. /\ n \in {1, 3} => k.op = "createGuild"
      /\ n \in {2, 4} => k.op = "deposit"
      /\ n \in {5, 7, 9} => k.op = "createItem"
      /\ n \in {6, 8} => k.op = "list"
      /\ n = 10 => k.op = "start"
  BY <1>1, SeedOps
<1>4. n \in {1, 3} \/ n \in {2, 4} \/ n \in {5, 7, 9} \/ n \in {6, 8} \/ n = 10
  OBVIOUS
<1>5. ASSUME NEW m \in Planned(op), ~Made(db, op, SeedId(x, j, m)), Made(db', op, SeedId(x, j, m))
      PROVE  \E s \in Sown(op)' : s \notin Sown(op)
  <2> DEFINE s == <<<<x, j>>, m>>
  <2>1. s \in (Apps \X (1..MaxStarts)) \X Planned(op)
    OBVIOUS
  <2>2. s[1][1] = x /\ s[1][2] = j /\ s[2] = m
    OBVIOUS
  <2> HIDE DEF s
  <2>3. s \in Sown(op)' /\ s \notin Sown(op)
    BY <1>5, <2>1, <2>2 DEF Sown
  <2>4. QED
    BY <2>3
<1>6. CASE op = "listGuilds"
  <2>1. k.op = "createGuild"
    BY <1>6 DEF Touched, NewGuilds
  <2>2. n \in Planned(op)
    BY <1>3, <1>4, <1>6, <2>1 DEF Planned
  <2>3. ~Made(db, op, k.id) /\ Made(db', op, k.id)
    BY <1>6, <2>1 DEF Turned, Made
  <2>4. QED
    BY <1>2, <1>5, <2>2, <2>3
<1>7. CASE op = "listActive"
  <2>1. k.op = "start"
    BY <1>3, <1>4, <1>7 DEF Touched, Auctioned
  <2>2. n \in Planned(op)
    BY <1>3, <1>4, <1>7, <2>1 DEF Planned
  <2>3. ~Made(db, op, k.id) /\ Made(db', op, k.id)
    BY <1>7, <2>1 DEF Turned, Made
  <2>4. QED
    BY <1>2, <1>5, <2>2, <2>3
<1>8. CASE op = "listItems"
  <2>1. k.op = "list"
    BY <1>3, <1>4, <1>8 DEF Touched, Offered
  <2>2. n \in {6, 8}
    BY <1>3, <1>4, <2>1
  <2>3. n - 1 \in Planned(op) /\ k.item = SeedId(x, j, n - 1)
    <3>1. CASE n = 6
      BY <1>1, <1>8, <3>1, Seed6 DEF Planned
    <3>2. CASE n = 8
      BY <1>1, <1>8, <3>2, Seed8 DEF Planned
    <3>3. QED
      BY <2>2, <3>1, <3>2
  <2>4. ~Made(db, op, k.item) /\ Made(db', op, k.item)
    BY <1>8, <2>1 DEF Turned, Made
  <2>5. QED
    BY <1>5, <2>3, <2>4
<1>9. QED
  BY <1>6, <1>7, <1>8 DEF Listings

LEMMA MoverCounts ==
    ASSUME Faithful, Roles, NEW q \in Procs, Works(q), work' = work, db' # db, Turned(req[q].ask),
           NEW op \in Listings, Touched(req[q].ask, op) # {}, NEW p \in Clients, p # q
    PROVE  \/ \E e \in Others(p)' : e \notin Others(p)
           \/ \E e \in Closers' : e \notin Closers
           \/ \E e \in Sown(op)' : e \notin Sown(op)
<1>1. CASE q \in Clients
  BY <1>1, ClientCounts
<1>2. CASE q \in Apps
  <2>1. req[q].ask \in SeedAsks \/ (req[q].ask = work[q] /\ work[q] # Nothing)
    BY <1>2, WorksOwn DEF Roles, Driven
  <2>2. CASE req[q].ask \in SeedAsks
    BY <2>2, SeederCounts
  <2>3. CASE req[q].ask = work[q] /\ work[q] # Nothing
    <3>1. work[q].op = "close"
      BY <1>2, <2>3 DEF Faithful, WorkKnown
    <3>2. QED
      BY <1>2, <2>3, <3>1, WorkerCounts
  <2>4. QED
    BY <2>1, <2>2, <2>3
<1>3. QED
  BY <1>1, <1>2, ProcessAssumption

\* A listing changes by no more rows than the pace grows by.
LEMMA PaceStep ==
    ASSUME Faithful, Faithful', Web, Roles, SeedStill, [ServiceNext]_allVars,
           NEW p \in Clients, Works(p) => req[p].ask.op \in Listings,
           NEW l, l.op \in Listings
    PROVE  /\ Pace(p, l.op) \in Nat /\ Pace(p, l.op)' \in Nat /\ Pace(p, l.op) <= Pace(p, l.op)'
           /\ Near(Cardinality(Shows(db', l)), Cardinality(Shows(db, l)),
                   Pace(p, l.op)' - Pace(p, l.op))
<1> DEFINE a == Cardinality(Others(p))
           b == Cardinality(Closers)
           c == Cardinality(Sown(l.op))
<1>0. work' = work /\ Typed(db) /\ Typed(db')
  BY ServiceMoves DEF Faithful, Drafted, Sound
<1>1. Others(p) \subseteq Others(p)'
  BY OthersGrow
<1>2. Closers \subseteq Closers'
  BY <1>0, ClosersGrow, StepTurns
<1>3. Sown(l.op) \subseteq Sown(l.op)'
  <2>1. CASE db' = db
    BY <2>1 DEF Sown
  <2>2. CASE \E k : Turned(k) /\ Stands(db, db')
    BY <2>2, SownGrows
  <2>3. QED
    BY <2>1, <2>2, StepTurns
<1>4. /\ IsFiniteSet(Others(p)) /\ IsFiniteSet(Others(p)')
      /\ IsFiniteSet(Closers) /\ IsFiniteSet(Closers')
      /\ IsFiniteSet(Sown(l.op)) /\ IsFiniteSet(Sown(l.op)')
  <2>1. /\ Others(p) \subseteq Clients /\ Others(p)' \subseteq Clients
        /\ Closers \subseteq Apps /\ Closers' \subseteq Apps
    BY DEF Others, Closers
  <2>2. /\ Sown(l.op) \subseteq (Apps \X (1..MaxStarts)) \X Planned(l.op)
        /\ Sown(l.op)' \subseteq (Apps \X (1..MaxStarts)) \X Planned(l.op)
    BY DEF Sown
  <2>3. QED
    BY <2>1, <2>2, PartsFinite
<1>5. /\ a \in Nat /\ a' \in Nat /\ a <= a'
      /\ (\E e \in Others(p)' : e \notin Others(p)) => a + 1 <= a'
  BY <1>1, <1>4, Grown
<1>6. /\ b \in Nat /\ b' \in Nat /\ b <= b'
      /\ (\E e \in Closers' : e \notin Closers) => b + 1 <= b'
  BY <1>2, <1>4, Grown
<1>7. /\ c \in Nat /\ c' \in Nat /\ c <= c'
      /\ (\E e \in Sown(l.op)' : e \notin Sown(l.op)) => c + 1 <= c'
  BY <1>3, <1>4, Grown
<1>8. Pace(p, l.op) = a + b + c /\ Pace(p, l.op)' = a' + b' + c'
  BY DEF Pace
<1>9. Cardinality(Shows(db, l)) \in Nat
  BY <1>0, ShowsFinite
<1>10. \/ Shows(db', l) = Shows(db, l)
       \/ /\ Near(Cardinality(Shows(db', l)), Cardinality(Shows(db, l)), 1)
          /\ a + 1 <= a' \/ b + 1 <= b' \/ c + 1 <= c'
  <2>1. CASE db' = db
    BY <2>1
  <2>2. ASSUME NEW q \in Procs, Works(q), db' # db, req[q].ask \in Asks, Turned(req[q].ask)
        PROVE  \/ Shows(db', l) = Shows(db, l)
               \/ /\ Near(Cardinality(Shows(db', l)), Cardinality(Shows(db, l)), 1)
                  /\ a + 1 <= a' \/ b + 1 <= b' \/ c + 1 <= c'
    <3>1. /\ Near(Cardinality(Shows(db', l)), Cardinality(Shows(db, l)), 1)
          /\ Touched(req[q].ask, l.op) = {} => Shows(db', l) = Shows(db, l)
      BY <1>0, <2>2, ShowsOneApart
    <3>2. CASE q = p
      <4>1. req[p].ask.op \in Listings
        BY <2>2, <3>2
      <4>2. Touched(req[q].ask, l.op) = {}
        BY <3>2, <4>1 DEF Listings, Touched, NewGuilds, Auctioned, Offered
      <4>3. QED
        BY <3>1, <4>2
    <3>3. CASE q # p /\ Touched(req[q].ask, l.op) # {}
      <4>1. a + 1 <= a' \/ b + 1 <= b' \/ c + 1 <= c'
        BY <1>0, <1>5, <1>6, <1>7, <2>2, <3>3, MoverCounts
      <4>2. QED
        BY <3>1, <4>1
    <3>4. QED
      BY <3>1, <3>2, <3>3
  <2>3. QED
    BY <2>1, <2>2, StepTurns
<1> DEFINE m == Cardinality(Shows(db, l))
           n == Cardinality(Shows(db', l))
<1>11. n \in Nat
  BY <1>0, ShowsFinite
<1>12. n = m \/ (Near(n, m, 1) /\ (a + 1 <= a' \/ b + 1 <= b' \/ c + 1 <= c'))
  BY <1>10
<1>13. m \in Nat
  BY <1>9
<1> DEFINE d == a'
           e == b'
           f == c'
<1>14. /\ d \in Nat /\ e \in Nat /\ f \in Nat /\ a <= d /\ b <= e /\ c <= f
       /\ n = m \/ (Near(n, m, 1) /\ (a + 1 <= d \/ b + 1 <= e \/ c + 1 <= f))
       /\ Pace(p, l.op) = a + b + c /\ Pace(p, l.op)' = d + e + f
       /\ a \in Nat /\ b \in Nat /\ c \in Nat
  BY <1>5, <1>6, <1>7, <1>8, <1>12
<1> HIDE DEF m, n, a, b, c, d, e, f
<1>15. /\ a + b + c \in Nat /\ d + e + f \in Nat /\ a + b + c <= d + e + f
       /\ Near(n, m, (d + e + f) - (a + b + c))
  BY <1>11, <1>13, <1>14 DEF Near
<1>16. QED
  BY <1>14, <1>15 DEF m, n

-----------------------------------------------------------------------------
(* The two statements of a listing.                                        *)

\* The listing of r ends with what it has seen, or its count is done, or its page is read.
Lists(p) ==
    LET k == req[p].ask  n == Cardinality(Shows(db, k))  size == PageSize(k.size) IN
    \/ req'[p].at = "done" /\ req'[p].saw = req[p].saw
    \/ req[p].at = "service" /\ req'[p].at = "rows" /\ req'[p].saw = [total |-> n]
    \/ /\ req[p].at = "rows" /\ req'[p].at = "done"
       /\ req'[p].saw = [total |-> req[p].saw.total, rows |-> Shown(n, size, Offset(k.page, size))]

LEMMA ReturnLists ==
    ASSUME NEW p \in Procs, Shapes, NEW err, Return(p, err)
    PROVE  Lists(p)
<1>1. req'[p] = [req[p] EXCEPT !.at = "done", !.err = err, !.kept = FALSE]
  BY DEF Return, End, Shapes
<1>2. req'[p].at = "done" /\ req'[p].saw = req[p].saw
  BY <1>1 DEF Shapes, ReqRecord
<1>3. QED
  BY <1>2 DEF Lists

LEMMA PageLists ==
    ASSUME NEW p \in Procs, Shapes, NEW op, NEW n, n = Cardinality(Shows(db, req[p].ask)),
           CountRows(p, op, n) \/ ReadPage(p, op, n)
    PROVE  Lists(p)
<1>0. ASSUME NEW next, NEW saw, Goto(p, next, saw) PROVE req'[p].at = next /\ req'[p].saw = saw
  <2>1. req'[p] = [req[p] EXCEPT !.at = next, !.saw = saw]
    BY <1>0 DEF Goto, Shapes
  <2>2. QED
    BY <2>1 DEF Shapes, ReqRecord
<1>1. CASE CountRows(p, op, n)
  <2>1. req[p].at = "service" /\ req'[p].at = "rows" /\ req'[p].saw = [total |-> n]
    BY <1>0, <1>1 DEF CountRows, Service, At
  <2>2. QED
    BY <2>1 DEF Lists
<1>2. CASE ReadPage(p, op, n)
  <2> DEFINE size == PageSize(req[p].ask.size)
             saw == [total |-> req[p].saw.total, rows |-> Shown(n, size, Offset(req[p].ask.page, size))]
  <2>1. req[p].at = "rows" /\ (Return(p, "internal") \/ Goto(p, "done", saw))
    BY <1>2 DEF ReadPage, At
  <2>2. CASE Return(p, "internal")
    BY <2>2, ReturnLists
  <2>3. CASE Goto(p, "done", saw)
    <3>1. req'[p].at = "done" /\ req'[p].saw = saw
      BY <1>0, <2>3
    <3>2. QED
      BY <2>1, <3>1 DEF Lists
  <2>4. QED
    BY <2>1, <2>2, <2>3
<1>3. QED
  BY <1>1, <1>2

\* A request for a page does nothing else.
LEMMA ListingStep ==
    ASSUME NEW p \in Procs, Shapes, Works(p), req[p].ask.op \in Listings, req[p].at \in {"service", "rows"}
    PROVE  Lists(p)
<1>0. req[p].ask.op \in {"listGuilds", "listActive", "listItems"}
  BY DEF Listings
<1>2. CASE RefuseInput(p) \/ Fail(p)
  BY <1>2, ReturnLists DEF RefuseInput, Fail
<1>3. CASE Listing(p) \/ Starting(p)
  BY <1>0, <1>3 DEF Listing, ReadForListing, LockForListing, Expose, Starting, ReadToAuction, CountOwn,
              InsertAuction, Service, At
<1>5. CASE Begin(p) \/ Commit(p) \/ CommitUnconfirmed(p)
  BY <1>0, <1>5 DEF Begin, Unchecked, Commit, CommitUnconfirmed
<1>6. CASE Reading(p)
  <2>0. CASE ListGuildsPage(p) \/ ListActivePage(p) \/ ListAvailablePage(p)
    <3>1. \A op, n : CountRows(p, op, n) \/ ReadPage(p, op, n) => req[p].ask.op = op
      BY DEF CountRows, ReadPage, Service, At
    <3>2. CASE ListGuildsPage(p)
      <4>1. req[p].ask.op = "listGuilds"
        BY <3>1, <3>2 DEF ListGuildsPage
      <4>2. /\ Cardinality(ListGuilds(db)) = Cardinality(Shows(db, req[p].ask))
            /\ CountGuilds(db) = Cardinality(Shows(db, req[p].ask))
        BY <4>1 DEF Shows, CountGuilds, ListGuilds
      <4>3. QED
        BY <3>2, <4>2, PageLists DEF ListGuildsPage
    <3>3. CASE ListActivePage(p)
      <4>1. req[p].ask.op = "listActive"
        BY <3>1, <3>3 DEF ListActivePage
      <4>2. /\ Cardinality(ListActiveAuctions(db)) = Cardinality(Shows(db, req[p].ask))
            /\ CountActiveAuctions(db) = Cardinality(Shows(db, req[p].ask))
        BY <4>1 DEF Shows, CountActiveAuctions, ListActiveAuctions
      <4>3. QED
        BY <3>3, <4>2, PageLists DEF ListActivePage
    <3>4. CASE ListAvailablePage(p)
      <4>1. req[p].ask.op = "listItems"
        BY <3>1, <3>4 DEF ListAvailablePage
      <4>2. CASE "kind" \in DOMAIN req[p].ask
        <5>1. /\ Cardinality(ListAvailableItemsByType(db, req[p].ask.kind)) = Cardinality(Shows(db, req[p].ask))
              /\ CountAvailableItemsByType(db, req[p].ask.kind) = Cardinality(Shows(db, req[p].ask))
          BY <4>1, <4>2 DEF Shows, CountAvailableItemsByType, ListAvailableItemsByType
        <5>2. QED
          BY <3>4, <4>2, <5>1, PageLists DEF ListAvailablePage
      <4>3. CASE "kind" \notin DOMAIN req[p].ask
        <5>1. /\ Cardinality(ListAvailableItems(db)) = Cardinality(Shows(db, req[p].ask))
              /\ CountAvailableItems(db) = Cardinality(Shows(db, req[p].ask))
          BY <4>1, <4>3 DEF Shows, CountAvailableItems, ListAvailableItems
        <5>2. QED
          BY <3>4, <4>3, <5>1, PageLists DEF ListAvailablePage
      <4>4. QED
        BY <4>2, <4>3
    <3>5. QED
      BY <2>0, <3>2, <3>3, <3>4
  <2>2. QED
    BY <1>0, <1>6, <2>0
    DEF Reading, GetWallet, ValidateGuild, GetByOwner, LookUpItem, LookUpAuction, Service, At
<1>7. CASE Minting(p) \/ Depositing(p)
  BY <1>0, <1>7 DEF Minting, CreateGuildRow, AskPrice, GotPrice, InsertItem, Service, At, Depositing,
              LockForDeposit, CreditDeposit, LogDeposit
<1>9. CASE Buying(p)
  BY <1>0, <1>9 DEF Buying, LockToBuy, LockBuyer, CheckBuyer, ChargeBuyer, PaySeller, TransferBought,
              CountPurchase, LogPurchase, LogProceeds, At
<1>10. CASE Bidding(p)
  BY <1>0, <1>10 DEF Bidding, ReadForBid, LockToBid, LockBidder, CheckBidder, FreeLeader, LogRelease,
               ReturnQuota, ReleaseFails, RecordBid, UpdateStanding, LogReserve, CountBid, Service, At
<1>11. CASE Closing(p)
  BY <1>0, <1>11 DEF Closing, LockToClose, RestoreItem, HandOver, PayProceeds, CancelUnsold, EndSold,
               CloseRow, At
<1>12. QED
  BY <1>2, <1>3, <1>5, <1>6, <1>7, <1>9, <1>10, <1>11 DEF Step, Works

\* Of a page 1 that would have room for the total, all rows are read.
LEMMA FirstPage ==
    ASSUME NEW n \in Nat, NEW total \in Nat, NEW size \in Int, total < PageSize(size),
           NEW d \in Nat, Near(n, total, d)
    PROVE  Near(Shown(n, PageSize(size), Offset(1, PageSize(size))), total, d)
<1> DEFINE most == PageSize(size)
<1>1. most \in Nat /\ total < most
  BY NumbersAssumption DEF PageSize
<1> HIDE DEF most
<1>2. Offset(1, most) = 0
  <2>1. (1 - 1) * most = 0
    BY <1>1
  <2>2. IntMax \in Nat /\ IntMax # 0
    BY NumbersAssumption
  <2>3. IntMax % (2 * IntMax) = IntMax
    <3>1. 0 <= IntMax /\ IntMax < 2 * IntMax
      BY <2>2
    <3>2. QED
      BY <2>2, <3>1
  <2>4. Int32(0) = 0
    BY <2>2, <2>3 DEF Int32
  <2>5. QED
    BY <2>1, <2>4 DEF Offset
<1>3. Near(Shown(n, most, 0), total, d)
  BY <1>1 DEF Shown, Near
<1>4. QED
  BY <1>2, <1>3 DEF most

\* Between its two statements a listing is off by no more than the pace has grown to.
Paced(p) ==
    LET k == req[p].ask  seen == req[p].saw IN
    k.op \in Listings =>
      /\ Running(p) => req[p].at \in {"service", "rows"}
      /\ req[p].at = "service" => seen = NoRows
      /\ req[p].at = "rows" =>
           /\ seen = [total |-> seen.total] /\ seen.total \in Nat
           /\ Near(Cardinality(Shows(db, k)), seen.total, Pace(p, k.op))
      /\ (/\ req[p].at = "done" /\ "rows" \in DOMAIN seen
          /\ k.page = 1 /\ seen.total < PageSize(k.size)) =>
           /\ seen.rows \in Int /\ seen.total \in Int
           /\ Near(seen.rows, seen.total, Pace(p, k.op))

LEMMA NearFurther ==
    ASSUME NEW n \in Int, NEW m \in Int, NEW d \in Nat, NEW e \in Nat, d <= e, Near(n, m, d)
    PROVE  /\ Near(n, m, e)
           /\ \A o \in Int : Near(o, n, e - d) => Near(o, m, e)
BY DEF Near

LEMMA ShownNumber ==
    ASSUME NEW n \in Nat, NEW limit \in Int, NEW offset \in Int
    PROVE  Shown(n, limit, offset) \in Int
BY DEF Shown

LEMMA PacedWaits ==
    ASSUME Faithful, Faithful', Web, Roles, SeedStill, [ServiceNext]_allVars,
           NEW p \in Clients, Paced(p), req'[p] = req[p]
    PROVE  Paced(p)'
<1> SUFFICES ASSUME req[p].ask.op \in Listings PROVE Paced(p)'
  BY DEF Paced
<1>1. PICK k : k = req[p].ask
  OBVIOUS
<1>2. PICK seen : seen = req[p].saw
  OBVIOUS
<1> DEFINE n == Cardinality(Shows(db, k))
           o == Cardinality(Shows(db', k))
           d == Pace(p, k.op)
           e == Pace(p, k.op)'
<1>3. d \in Nat /\ e \in Nat /\ d <= e /\ Near(o, n, e - d)
  BY <1>1, PaceStep
<1>4. n \in Nat /\ o \in Nat
  BY ShowsFinite DEF Faithful, Drafted, Sound
<1>5. ASSUME req[p].at = "rows"
      PROVE  seen = [total |-> seen.total] /\ seen.total \in Nat /\ Near(o, seen.total, e)
  <2>1. seen = [total |-> seen.total] /\ seen.total \in Nat /\ Near(n, seen.total, d)
    BY <1>1, <1>2, <1>5 DEF Paced
  <2> HIDE DEF n, o, d, e
  <2>2. Near(o, seen.total, e)
    BY <1>3, <1>4, <2>1, NearFurther
  <2>3. QED
    BY <2>1, <2>2
<1>6. ASSUME req[p].at = "done", "rows" \in DOMAIN seen, k.page = 1, seen.total < PageSize(k.size)
      PROVE  seen.rows \in Int /\ seen.total \in Int /\ Near(seen.rows, seen.total, e)
  <2>1. seen.rows \in Int /\ seen.total \in Int /\ Near(seen.rows, seen.total, d)
    BY <1>1, <1>2, <1>6 DEF Paced
  <2> HIDE DEF d, e
  <2>2. Near(seen.rows, seen.total, e)
    BY <1>3, <2>1, NearFurther
  <2>3. QED
    BY <2>1, <2>2
<1>7. /\ Running(p) => req[p].at \in {"service", "rows"}
      /\ req[p].at = "service" => seen = NoRows
  BY <1>2 DEF Paced
<1>8. k = req'[p].ask /\ seen = req'[p].saw /\ Running(p)' = Running(p)
  BY <1>1, <1>2 DEF Running
<1>9. QED
  BY <1>5, <1>6, <1>7, <1>8 DEF Paced

LEMMA PacedWorks ==
    ASSUME Faithful, Faithful', Web, Roles, SeedStill, [ServiceNext]_allVars,
           NEW p \in Clients, Paced(p), Works(p)
    PROVE  Paced(p)'
<1>0. p \in Procs /\ Shapes
  BY ProcessAssumption DEF Faithful, Drafted, Guarded
<1>1. Running(p) /\ req'[p].ask = req[p].ask
  BY <1>0, WorksOwn
<1> SUFFICES ASSUME req[p].ask.op \in Listings PROVE Paced(p)'
  BY <1>1 DEF Paced
<1>2. PICK k : k = req[p].ask
  OBVIOUS
<1>3. PICK seen : seen = req[p].saw
  OBVIOUS
<1>4. PICK now : now = req'[p].saw
  OBVIOUS
<1> DEFINE n == Cardinality(Shows(db, k))
           o == Cardinality(Shows(db', k))
           d == Pace(p, k.op)
           e == Pace(p, k.op)'
           size == PageSize(k.size)
<1>5. d \in Nat /\ e \in Nat /\ d <= e /\ Near(o, n, e - d)
  BY <1>2, PaceStep
<1>6. n \in Nat /\ o \in Nat
  BY ShowsFinite DEF Faithful, Drafted, Sound
<1>7. k.page \in Int /\ k.size \in Int
  <2>1. k \in Asks
    BY <1>0, <1>1, <1>2 DEF Faithful, Drafted, Known
  <2>2. QED
    BY <1>2, <2>1, AsksAssumption
<1>8. req[p].at \in {"service", "rows"}
  BY <1>1 DEF Paced
<1>9. Lists(p)
  BY <1>0, <1>8, ListingStep
<1>10. CASE req'[p].at = "done" /\ now = seen
  <2>1. seen = NoRows \/ seen = [total |-> seen.total]
    BY <1>2, <1>3, <1>8 DEF Paced
  <2>2. "rows" \notin DOMAIN now
    BY <1>10, <2>1 DEF NoRows
  <2>3. QED
    BY <1>4, <1>10, <2>2 DEF Paced, Running
<1>11. CASE req[p].at = "service" /\ req'[p].at = "rows" /\ now = [total |-> n]
  <2>1. now.total = n /\ now = [total |-> now.total]
    BY <1>11
  <2> HIDE DEF n, o, d, e
  <2>2. Near(n, n, d)
    BY <1>5, <1>6 DEF Near
  <2>3. Near(o, now.total, e)
    BY <1>5, <1>6, <2>1, <2>2, NearFurther
  <2>4. now.total \in Nat
    BY <1>6, <2>1
  <2>5. k = req'[p].ask
    BY <1>1, <1>2
  <2>6. QED
    BY <1>4, <1>11, <2>1, <2>3, <2>4, <2>5 DEF Paced, Running, o, e
<1>12. CASE /\ req[p].at = "rows" /\ req'[p].at = "done"
            /\ now = [total |-> seen.total, rows |-> Shown(n, size, Offset(k.page, size))]
  <2>1. seen.total \in Nat /\ Near(n, seen.total, d)
    BY <1>2, <1>3, <1>12 DEF Paced
  <2> DEFINE rows == Shown(n, size, Offset(k.page, size))
  <2>2. now.total = seen.total /\ now.rows = rows
    BY <1>12
  <2>3. ASSUME k.page = 1, now.total < size
        PROVE  now.rows \in Int /\ now.total \in Int /\ Near(now.rows, now.total, e)
    <3>0. Offset(k.page, size) \in Int /\ size \in Int
      <4>1. size \in Int
        BY <1>7, NumbersAssumption DEF PageSize
      <4> HIDE DEF size
      <4>2. (k.page - 1) * size \in Int
        BY <1>7, <4>1
      <4>3. \A x \in Int : Int32(x) \in Int
        BY NumbersAssumption DEF Int32
      <4>4. QED
        BY <4>1, <4>2, <4>3 DEF Offset
    <3> HIDE DEF n, d, e
    <3>1. rows \in Int
      BY <1>6, <3>0, ShownNumber
    <3>2. Near(rows, seen.total, d)
      BY <1>5, <1>6, <1>7, <2>1, <2>2, <2>3, FirstPage
    <3> HIDE DEF rows
    <3>3. Near(rows, seen.total, e)
      BY <1>5, <2>1, <3>1, <3>2, NearFurther
    <3>4. QED
      BY <2>1, <2>2, <3>1, <3>3
  <2>4. k = req'[p].ask
    BY <1>1, <1>2
  <2>5. QED
    BY <1>4, <1>12, <2>3, <2>4 DEF Paced, Running
<1>13. QED
  BY <1>2, <1>3, <1>4, <1>9, <1>10, <1>11, <1>12 DEF Lists

LEMMA PacedStep ==
    ASSUME Faithful, Faithful', Web, Roles, SeedStill, [ServiceNext]_allVars,
           NEW p \in Clients, Paced(p)
    PROVE  Paced(p)'
<1>0. p \in Procs /\ p \notin Apps
  BY ProcessAssumption
<1>1. CASE req'[p] = req[p]
  BY <1>1, PacedWaits
<1>2. CASE req'[p] = NoRequest
  BY <1>2 DEF NoRequest, Paced, Listings
<1>3. CASE Sends(p)
  <2>1. req'[p].at = "service" /\ req'[p].saw = NoRows
    BY <1>0, <1>3, TakeOwn DEF Sends
  <2>2. QED
    BY <2>1 DEF Paced
<1>4. CASE Works(p)
  BY <1>4, PacedWorks
<1>5. ASSUME NEW q \in Clients, Sends(q), q # p PROVE req'[p] = req[p]
  BY <1>0, <1>5, ProcessAssumption, TakeOwn DEF Sends
<1>6. ASSUME NEW x \in Apps, Drives(x) PROVE req'[p] = req[p]
  BY <1>0, <1>6, ProcessAssumption, TakeOwn DEF Drives
<1>7. ASSUME NEW q \in Procs, Works(q), q # p PROVE req'[p] = req[p]
  BY <1>0, <1>7, WorksOwn
<1>8. CASE Rests
  BY <1>0, <1>1, <1>2, <1>8 DEF Rests
<1>9. QED
  BY <1>1, <1>3, <1>4, <1>5, <1>6, <1>7, <1>8, ServiceMoves

\* The others are the other clients, the workers that have an auction to close, and the
\* seeders, each with at most two rows of one listing.
LEMMA PaceBound ==
    ASSUME NEW p \in Clients, NEW op
    PROVE  Pace(p, op) \in Nat /\ Movers \in Nat /\ Pace(p, op) <= Movers
<1> DEFINE workers == {x \in Apps : work[x] # Nothing}
<1>1. /\ IsFiniteSet(Clients) /\ IsFiniteSet(Clients \ {p}) /\ IsFiniteSet(workers)
      /\ IsFiniteSet(Others(p)) /\ IsFiniteSet(Closers)
  <2>1. Others(p) \subseteq Clients /\ Closers \subseteq Apps
    BY DEF Others, Closers
  <2>2. QED
    BY <2>1, PartsFinite
<1>2. /\ Cardinality(Others(p)) \in Nat /\ Cardinality(Clients) \in Nat
      /\ Cardinality(Others(p)) <= Cardinality(Clients) - 1
  <2>1. Others(p) \subseteq Clients \ {p}
    BY DEF Others
  <2>2. Cardinality(Others(p)) \in Nat /\ Cardinality(Others(p)) <= Cardinality(Clients \ {p})
    BY <1>1, <2>1, Grown
  <2>3. Cardinality(Clients \ {p}) = Cardinality(Clients) - 1 /\ Cardinality(Clients) \in Nat
    BY <1>1, FS_RemoveElement, FS_CardinalityType
  <2>4. QED
    BY <2>2, <2>3
<1>3. /\ Cardinality(Closers) \in Nat /\ Cardinality(workers) \in Nat
      /\ Cardinality(Closers) <= Cardinality(workers)
  <2>1. Closers \subseteq workers
    BY DEF Closers
  <2>2. QED
    BY <1>1, <2>1, Grown
<1>4. IsFiniteSet(Planned(op)) /\ Cardinality(Planned(op)) \in {1, 2}
  <2>1. \A a : IsFiniteSet({a}) /\ Cardinality({a}) = 1
    BY FS_Singleton
  <2>2. \A a, b : a # b => IsFiniteSet({a, b}) /\ Cardinality({a, b}) = 2
    <3> SUFFICES ASSUME NEW a, NEW b, a # b
                 PROVE  IsFiniteSet({a, b}) /\ Cardinality({a, b}) = 2
      OBVIOUS
    <3>1. IsFiniteSet({a} \cup {b}) /\ Cardinality({a} \cup {b}) = Cardinality({a}) + 1
      BY <2>1, FS_AddElement
    <3>2. {a, b} = {a} \cup {b}
      OBVIOUS
    <3>3. QED
      BY <2>1, <3>1, <3>2
  <2>3. IsFiniteSet({1, 3}) /\ Cardinality({1, 3}) = 2 /\ IsFiniteSet({5, 7}) /\ Cardinality({5, 7}) = 2
    <3>1. 1 # 3 /\ 5 # 7
      OBVIOUS
    <3>2. QED
      BY <2>2, <3>1
  <2>4. Planned(op) \in {{1, 3}, {10}, {5, 7}}
    BY DEF Planned
  <2>5. CASE Planned(op) = {1, 3}
    BY <2>3, <2>5
  <2>6. CASE Planned(op) = {10}
    BY <2>1, <2>6
  <2>7. CASE Planned(op) = {5, 7}
    BY <2>3, <2>7
  <2>8. QED
    BY <2>4, <2>5, <2>6, <2>7
<1>5. /\ Cardinality(Sown(op)) \in Nat /\ Cardinality(Seeders) \in Nat
      /\ Cardinality(Sown(op)) <= 2 * Cardinality(Seeders)
  <2>1. IsFiniteSet(Seeders)
    <3>1. IsFiniteSet(Apps) /\ IsFiniteSet(1..MaxStarts)
      BY PartsFinite, StartsAssumption, FS_Interval
    <3>2. IsFiniteSet(Apps \X (1..MaxStarts))
      BY <3>1, FS_Product
    <3>3. QED
      BY <3>2, FS_Subset DEF Seeders
  <2>2. Sown(op) \subseteq Seeders \X Planned(op)
    <3> SUFFICES ASSUME NEW x \in Apps, NEW j \in 1..MaxStarts, NEW n \in Planned(op),
                        Made(db, op, SeedId(x, j, n))
                 PROVE  <<x, j>> \in Seeders
      BY DEF Sown
    <3>1. n \in 1..10
      BY DEF Planned
    <3>2. Rows(SeedId(x, j, n)) \cap DOMAIN db # {}
      BY DEF Made, OnOffer, Rows
    <3>3. QED
      BY <3>1, <3>2 DEF Seeders, Seeded
  <2>3. /\ IsFiniteSet(Seeders \X Planned(op))
        /\ Cardinality(Seeders \X Planned(op)) = Cardinality(Seeders) * Cardinality(Planned(op))
    BY <1>4, <2>1, FS_Product
  <2>4. IsFiniteSet(Sown(op))
    BY <2>2, <2>3, FS_Subset
  <2>5. /\ Cardinality(Sown(op)) \in Nat
        /\ Cardinality(Sown(op)) <= Cardinality(Seeders) * Cardinality(Planned(op))
    BY <2>2, <2>3, <2>4, Grown
  <2>6. Cardinality(Seeders) \in Nat
    BY <2>1, FS_CardinalityType
  <2>7. QED
    BY <1>4, <2>5, <2>6
<1> DEFINE a == Cardinality(Others(p))
           b == Cardinality(Closers)
           c == Cardinality(Sown(op))
           s == Cardinality(Clients)
           t == Cardinality(workers)
           u == Cardinality(Seeders)
<1>6. /\ a \in Nat /\ b \in Nat /\ c \in Nat /\ s \in Nat /\ t \in Nat /\ u \in Nat
      /\ a <= s - 1 /\ b <= t /\ c <= 2 * u
  BY <1>2, <1>3, <1>5
<1>7. Pace(p, op) = a + b + c /\ Movers = (s - 1) + t + 2 * u
  BY DEF Pace, Movers
<1> HIDE DEF a, b, c, s, t, u
<1>8. QED
  BY <1>6, <1>7

\* The invariant of the listings
Skewed == Roles /\ SeedStill /\ \A p \in Clients : Paced(p)

LEMMA InitSkewed == ASSUME ServiceInit PROVE Skewed
<1>1. req = [p \in Procs |-> NoRequest]
  BY DEF ServiceInit, Init
<1>2. \A p \in Clients : req[p] = NoRequest
  BY <1>1, ProcessAssumption
<1>3. NoRequest.ask.op = "none"
  BY DEF NoRequest
<1>4. QED
  BY <1>2, <1>3, InitRoles DEF Skewed, Paced, Listings

LEMMA SkewedStep ==
    ASSUME Faithful, Faithful', Web, Skewed, [ServiceNext]_allVars
    PROVE  Skewed'
BY RolesStep, SeedStillKept, PacedStep DEF Skewed

LEMMA SkewBound == ASSUME Skewed PROVE ListingSkewBounded
<1> SUFFICES ASSUME NEW p \in Clients, req[p].ask.op \in Listings, req[p].at = "done",
                    "rows" \in DOMAIN req[p].saw, req[p].ask.page = 1,
                    req[p].saw.total < PageSize(req[p].ask.size)
             PROVE  req[p].saw.rows - req[p].saw.total \in -Movers..Movers
  BY DEF ListingSkewBounded
<1>1. /\ req[p].saw.rows \in Int /\ req[p].saw.total \in Int
      /\ Near(req[p].saw.rows, req[p].saw.total, Pace(p, req[p].ask.op))
  BY DEF Skewed, Paced
<1>2. /\ Pace(p, req[p].ask.op) \in Nat /\ Movers \in Nat
      /\ Pace(p, req[p].ask.op) <= Movers
  BY PaceBound
<1>3. Near(req[p].saw.rows, req[p].saw.total, Movers)
  BY <1>1, <1>2, NearFurther
<1>4. QED
  BY <1>3 DEF Near

\* In the running program the first page of a listing that has room for the total shows
\* as many rows as the total says, but for at most one row of every other client, one of
\* every worker and two of every start that has seeded: whatever commits between the
\* count and the page, each of them moves no more rows than that.
THEOREM SkewAlwaysBounded == ServiceSpec => []ListingSkewBounded
<1>1. ServiceInit => Skewed
  BY InitSkewed
<1>2. Faithful /\ Faithful' /\ Web /\ Skewed /\ [ServiceNext]_allVars => Skewed'
  BY SkewedStep
<1>3. Skewed => ListingSkewBounded
  BY SkewBound
<1>4. QED
  BY <1>1, <1>2, <1>3, AlwaysFaithful, WebInductive, PTL DEF ServiceSpec
=============================================================================
