----------------------------- MODULE MCBidding ------------------------------
(***************************************************************************)
(* Bidding on small instances.  Its constants are interchangeable:         *)
(* no handler compares them with anything but equality.                    *)
(***************************************************************************)
EXTENDS BiddingDeal, TLC

Symmetry == Permutations(Drivers) \union Permutations(BidIds)
            \union Permutations(Workers) \union Permutations(Prices)
=============================================================================
