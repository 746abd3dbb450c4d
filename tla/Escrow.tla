------------------------------- MODULE Escrow -------------------------------
(***************************************************************************)
(* What the auctions promise about gold, with no rows, locks, wallets or   *)
(* quotas: a guild's gold is free or staked on a lot; staking on a lot     *)
(* frees whatever was staked on it before; a lot that closes pays its      *)
(* stake out once, to somebody else, and is never staked on again.         *)
(* AuctionHouse implements this (EscrowKept).                              *)
(***************************************************************************)
EXTENDS Integers

CONSTANTS Guilds, NoGuild, Lots, DepositAmounts, Opening

VARIABLES free,    \* gold a guild can use
          stake,   \* who has staked how much on a lot
          closed   \* the lots that are over

NoStake == [by |-> NoGuild, amount |-> 0]

Init ==
    /\ free = [g \in Guilds |-> Opening]
    /\ stake = [l \in Lots |-> NoStake]
    /\ closed = {}

Deposit(g, n) ==
    /\ free' = [free EXCEPT ![g] = @ + n]
    /\ UNCHANGED <<stake, closed>>

\* Guild g stakes n of its free gold on l; the stake it replaces is freed.
Stake(l, g, n) ==
    /\ l \notin closed /\ stake[l].by # g
    /\ free' = [h \in Guilds |-> IF h = g THEN free[h] - n
                                 ELSE IF h = stake[l].by THEN free[h] + stake[l].amount
                                 ELSE free[h]]
    /\ stake' = [stake EXCEPT ![l] = [by |-> g, amount |-> n]]
    /\ UNCHANGED closed

\* Lot l closes and its stake goes to guild s.
PayOut(l, s) ==
    /\ l \notin closed /\ stake[l] # NoStake /\ stake[l].by # s
    /\ free' = [free EXCEPT ![s] = @ + stake[l].amount]
    /\ stake' = [stake EXCEPT ![l] = NoStake]
    /\ closed' = closed \cup {l}

\* Lot l closes and nobody had a stake on it.
Withdraw(l) ==
    /\ l \notin closed /\ stake[l] = NoStake
    /\ closed' = closed \cup {l}
    /\ UNCHANGED <<free, stake>>

Next ==
    \/ \E g \in Guilds, n \in DepositAmounts : Deposit(g, n)
    \/ \E l \in Lots, g \in Guilds : \E n \in 1..free[g] : Stake(l, g, n)
    \/ \E l \in Lots : Withdraw(l) \/ \E s \in Guilds : PayOut(l, s)

Spec == Init /\ [][Next]_<<free, stake, closed>>
=============================================================================
