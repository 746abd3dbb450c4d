------------------------------ MODULE MCService ------------------------------
(* A marketplace in full swing, an empty one, and pairs of requests that meet. *)
EXTENDS Service, TLC

CONSTANTS p1, p2, x, y, g1, g2, g3

\* Ids of what exists at the start
a1 == <<1>>  a2 == <<2>>  common == <<3>>  exposed == <<4>>  staff == <<5>>  sword == <<6>>
orb == <<7>>

Populated ==
    Guild(g1) :> [name |-> "one", gold |-> 10, limit |-> 20]
 @@ Guild(g2) :> [name |-> "two", gold |-> 9, limit |-> 12]
 @@ Guild(g3) :> [name |-> "three", gold |-> 9, limit |-> 8]
 @@ Item(common) :> [name |-> "axe", kind |-> "common", owner |-> g1, status |-> "sold", price |-> 0]
 @@ Item(exposed) :> [name |-> "bow", kind |-> "rare", owner |-> g1, status |-> "available", price |-> 4]
 @@ Item(staff) :> [name |-> "staff", kind |-> "legendary", owner |-> g1, status |-> "sold", price |-> 0]
 @@ Item(sword) :> [name |-> "sword", kind |-> "legendary", owner |-> g1, status |-> "sold", price |-> 0]
 @@ Item(orb) :> [name |-> "orb", kind |-> "legendary", owner |-> g1, status |-> "sold", price |-> 0]
 @@ Auction(a1) :> [status |-> "active", item |-> staff, seller |-> g1, start |-> 2, high |-> 3, winner |-> g2]
 @@ Auction(a2) :> [status |-> "active", item |-> sword, seller |-> g1, start |-> 2, high |-> 0, winner |-> Nobody]
 @@ Bid(<<8>>) :> [auction |-> a1, bidder |-> g2, amount |-> 3, active |-> TRUE]
 @@ Daily(g2) :> 3
 @@ Log(<<<<8>>, 1>>) :> [guild |-> g2, type |-> "reserve", amount |-> -3]

Deposit(g, n) == [op |-> "deposit", guild |-> g, amount |-> n]
Buy(g, i) == [op |-> "buy", guild |-> g, item |-> i]
List(g, i) == [op |-> "list", guild |-> g, item |-> i, amount |-> 5]
Begins(g, i) == [op |-> "start", guild |-> g, item |-> i, amount |-> 1]
Bids(g, a, n) == [op |-> "bid", guild |-> g, auction |-> a, amount |-> n]
Founds(n) == [op |-> "createGuild", name |-> n, limit |-> 5]
Mints(g, n, kind) == [op |-> "createItem", guild |-> g, name |-> n, kind |-> kind]
Page(op, page, size) == [op |-> op, page |-> page, size |-> size]
GetsItem(i) == [op |-> "getItem", item |-> i]
GetsAuction(a) == [op |-> "getAuction", auction |-> a]
Of(op, g) == [op |-> op, guild |-> g]

\* Two requests, and the auction whose deadline passes meanwhile
Meetings ==
    {<<Buy(g2, exposed), Bids(g2, a2, 4), Nothing>>,         \* one wallet
     <<Buy(g3, exposed), Bids(g3, a2, 5), Nothing>>,         \* one quota
     <<Buy(g2, exposed), Buy(g3, exposed), Nothing>>,        \* one item
     <<Bids(g2, a2, 4), Bids(g3, a2, 4), Nothing>>,          \* one auction
     <<Bids(g2, a2, 4), Nothing, a2>>,                       \* which ends
     <<Bids(g3, a1, 4), Nothing, a1>>,                       \* a leader outbid
     <<Deposit(g1, 1), Begins(g1, sword), a2>>,              \* for two connections
     <<Deposit(g1, 1), Deposit(g1, 1), Nothing>>,            \* one, and its repeat
     <<Begins(g1, orb), Begins(g1, orb), Nothing>>,
     <<List(g1, common), List(g1, common), Nothing>>,
     <<List(g1, common), Page("listItems", 1, 9), Nothing>>,
     <<Buy(g2, exposed), "kind" :> "rare" @@ Page("listItems", 1, 9), Nothing>>,
     <<Founds("new"), Founds("new"), Nothing>>,
     <<Founds("new"), Page("listGuilds", 2, 2), Nothing>>,
     <<Mints(g1, "crown", "legendary"), Mints(g2, "crown", "legendary"), Nothing>>,
     <<Page("listActive", 1, 9), Nothing, a2>>,
     <<GetsAuction(a2), GetsItem(orb), Nothing>>,
     <<Of("getWallet", g2), Of("getInventory", g2), Nothing>>}

\* Requests that are refused
stranger == <<0>>
Refusals ==
    {Deposit(stranger, 1), Deposit(g1, 0), Buy(stranger, exposed), Buy(g1, exposed),
     Buy(g2, common), Buy(g2, stranger), Buy(Nil, exposed),
     List(g2, common), List(g1, sword), List(g1, exposed), List(g1, stranger),
     Begins(g2, sword), Begins(g1, common), Begins(g1, stranger),
     Bids(g3, a1, 3), Bids(g2, a1, 9), Bids(g1, a2, 3), Bids(g3, a2, 9), Bids(g2, a2, 9),
     Bids(g2, stranger, 9), Bids(stranger, a2, 3), Mints(stranger, "axe", "rare"), Mints(g1, "orb", "legendary"),
     Founds("one"), GetsItem(stranger), GetsAuction(stranger), Of("getWallet", stranger),
     Of("getInventory", stranger), Page("listGuilds", 11, 100)}

Ask(n, r) == IF r = Nothing THEN Nothing ELSE [id |-> <<n>>] @@ r
CloseOf(a) == IF a = Nothing THEN Nothing ELSE [id |-> <<13>>, op |-> "close", auction |-> a]
Work(r, s, a, b) == p1 :> Ask(11, r) @@ p2 :> Ask(12, s) @@ x :> CloseOf(a) @@ y :> CloseOf(b)

OneServes == x :> "serving" @@ y :> "exited"
FullSwing ==
    {[tables |-> Populated, phase |-> OneServes, starts |-> MaxStarts,
      work |-> Work(m[1], m[2], m[3], Nothing)] :
        m \in Meetings \cup {<<r, Nothing, Nothing>> : r \in Refusals}}
TwoWorkers == [tables |-> Populated, phase |-> [z \in Apps |-> "serving"], starts |-> MaxStarts,
               work |-> Work(Nothing, Nothing, a2, a2)]
Empty == [tables |-> NoRows, phase |-> [z \in Apps |-> "down"], starts |-> 0,
          work |-> Work(Nothing, Nothing, Nothing, Nothing)]

TheScenarios == FullSwing \cup {TwoWorkers, Empty}
TheOpenings == {Populated, NoRows}
\* What the tables may change by
TheAsks ==
    ({s.work[p] : s \in TheScenarios, p \in Procs} \ {Nothing})
    \cup {SeedAsk(z, k, n) : z \in Apps, k \in 1..MaxStarts, n \in 1..10}
=============================================================================
