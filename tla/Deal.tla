-------------------------------- MODULE Deal ---------------------------------
(***************************************************************************)
(* What the negotiation over a transport request promises to the client    *)
(* and the drivers, without handlers, rows or statuses: offers are made    *)
(* and taken back one bid at a time, a deal is struck once, at a price     *)
(* that is on the table for that bid, and ends all bargaining.             *)
(***************************************************************************)
CONSTANTS BidIds, Prices

VARIABLES
  offers,  \* the prices named on each open bid, by either side
  deal,    \* the bid that won and its price, in a set of at most one
  phase    \* "open", "struck", or "gone" when the request is deleted

vars == <<offers, deal, phase>>

Nothing == [b \in BidIds |-> {}]

Init == offers = Nothing /\ deal = {} /\ phase = "open"

(* A bid is made, countered, withdrawn or rejected; the others stand.      *)
Bargain(b) ==
  /\ phase = "open"
  /\ \E named \in SUBSET Prices : offers' = [offers EXCEPT ![b] = named]
  /\ UNCHANGED <<deal, phase>>

Strike(b) ==
  /\ phase = "open"
  /\ \E price \in offers[b] : deal' = {<<b, price>>}
  /\ offers' = Nothing
  /\ phase' = "struck"

Void ==
  /\ phase' = "gone"
  /\ offers' = Nothing
  /\ deal' = {}

Next == Void \/ \E b \in BidIds : Bargain(b) \/ Strike(b)

Spec == Init /\ [][Next]_vars
=============================================================================
