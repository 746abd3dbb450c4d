---------------------------- MODULE MCItemMarket ----------------------------
(* Instances of ItemMarket for TLC: nobody is special but the legendary item. *)
EXTENDS ItemMarket, TLC

Interchangeable == Permutations(Guilds) \cup Permutations(Procs)
                     \cup Permutations(Items \ Legendary)
=============================================================================
