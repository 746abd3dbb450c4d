--------------------------- MODULE MCAuctionHouse ---------------------------
(* Instances of AuctionHouse for TLC. *)
EXTENDS AuctionHouse, TLC

CONSTANTS g1, g2, g3, i1, i2, a1, a2, p1, p2

\* One guild mints every item; or the first two mint one each.
OneSeller == [i \in Items |-> g1]
TwoSellers == [i \in Items |-> IF i = i1 THEN g1 ELSE g2]

\* Requests are interchangeable, and so are the ids of auctions.
ProcSymmetry == Permutations(Procs)
IdSymmetry == ProcSymmetry \cup Permutations(Auctions)

\* So are workers, and the items of a guild that has minted them all.
OneSellerSymmetry == IdSymmetry \cup Permutations(Items) \cup Permutations(Workers)

\* So are the two sellers, each together with the item it minted.
SwapSellers == g1 :> g2 @@ g2 :> g1 @@ i1 :> i2 @@ i2 :> i1
SellerSymmetry == IdSymmetry \cup {SwapSellers}
=============================================================================
