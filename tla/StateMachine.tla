---------------------------- MODULE StateMachine ----------------------------
(***************************************************************************)
(* The status enums of the backend and the transition tables every service *)
(* consults before it writes a status (common/state-machine.ts).  Request  *)
(* and booking statuses share four strings, so the check picks its table   *)
(* from the target when it can and from the current status otherwise.      *)
(***************************************************************************)

RequestStatus == {"OPEN", "BIDDING", "BOOKED", "IN_TRANSIT", "DELIVERED",
                  "CANCELLED", "FAILED"}

BookingStatus == {"CONFIRMED", "IN_TRANSIT", "PENDING_CONFIRMATION",
                  "DELIVERED", "FAILED", "CANCELLED"}

BidStatus == {"PENDING", "COUNTERED_BY_CLIENT", "COUNTERED_BY_DRIVER",
              "ACCEPTED", "REJECTED", "WITHDRAWN"}

requestTransitions ==
  [s \in {"OPEN", "BIDDING", "BOOKED", "IN_TRANSIT"} |->
     CASE s = "OPEN"       -> {"BIDDING", "CANCELLED", "FAILED"}
       [] s = "BIDDING"    -> {"BOOKED", "CANCELLED", "FAILED"}
       [] s = "BOOKED"     -> {"IN_TRANSIT", "CANCELLED"}
       [] s = "IN_TRANSIT" -> {"DELIVERED", "FAILED"}]

bookingTransitions ==
  [s \in {"CONFIRMED", "IN_TRANSIT", "PENDING_CONFIRMATION"} |->
     CASE s = "CONFIRMED"            -> {"IN_TRANSIT", "CANCELLED", "FAILED"}
       [] s = "IN_TRANSIT"           -> {"PENDING_CONFIRMATION", "FAILED"}
       [] s = "PENDING_CONFIRMATION" -> {"DELIVERED"}]

Listed(table, current, target) ==
  current \in DOMAIN table /\ target \in table[current]

(* TRUE where the code returns, FALSE where it throws                      *)
(* INVALID_STATUS_TRANSITION.  A target both enums know is looked up in    *)
(* the request table whenever that table has a row for the current status. *)
AssertTransition(current, target) ==
  \/ /\ target \in BookingStatus \ RequestStatus
     /\ Listed(bookingTransitions, current, target)
  \/ /\ target \in RequestStatus \ BookingStatus
     /\ Listed(requestTransitions, current, target)
  \/ /\ target \in RequestStatus \intersect BookingStatus
     /\ IF current \in DOMAIN requestTransitions
        THEN Listed(requestTransitions, current, target)
        ELSE Listed(bookingTransitions, current, target)

=============================================================================
