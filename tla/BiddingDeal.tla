---------------------------- MODULE BiddingDeal ------------------------------
(***************************************************************************)
(* Bidding seen by the two parties: what the rows of the bids and requests *)
(* tables mean as a Deal.                                                  *)
(***************************************************************************)
EXTENDS Bidding

(* The price columns of a bid: the driver's, the client's counter and the  *)
(* driver's counter to it.                                                 *)
Named(bid) == {bid.price, bid.counter, bid.final} \ {Null}

Offers == [b \in BidIds |-> IF b \in LiveBids THEN Named(bids[b]) ELSE {}]
Deals  == {<<b, bids[b].agreed>> : b \in Accepted}
Phase  == CASE ~Exists                     -> "gone"
            [] Exists /\ Accepted # {}     -> "struck"
            [] Exists /\ Accepted = {}     -> "open"

Contract == INSTANCE Deal WITH offers <- Offers, deal <- Deals, phase <- Phase

(* Handled one after the other, the requests of client and drivers         *)
(* implement a Deal, whatever the sweep, failed statements and crashes do  *)
(* between two statements: an acceptance takes an offer that is on the     *)
(* table when its transaction commits, at a price named on that bid, once, *)
(* and a save changes no bid but its own.                                  *)
ImplementsDeal == Contract!Spec
=============================================================================
