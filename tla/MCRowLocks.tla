----------------------------- MODULE MCRowLocks -----------------------------
(* Instances of RowLocks for TLC. *)
EXTENDS RowLocks, TLC

CONSTANTS g1, g2, g3

\* One guild mints every item: then the others are interchangeable, and so are
\* transactions, auction ids and the legendary items.
OneSeller == [i \in Items |-> g1]
Interchangeable == Permutations(Txs) \cup Permutations(Auctions)
                     \cup Permutations(Legendary) \cup Permutations(Guilds \ {g1})
=============================================================================
