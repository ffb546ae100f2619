------------------------------ MODULE Delivery ------------------------------
(***************************************************************************)
(* One booking after its bid was accepted: the handlers of BookingsService,*)
(* the cancel and delete handlers of RequestsService on the request behind *)
(* it, the 24-hour auto-confirm sweep, and the driver's trip count.        *)
(*                                                                         *)
(* As in Bidding, a statement is a step, a handler keeps the row it loaded *)
(* while others run, save writes that copy back, and a definition named    *)
(* Mut... is a defective variant of the one after it that no action uses.  *)
(***************************************************************************)
EXTENDS Naturals, StateMachine

CONSTANTS
  Workers,     \* requests the HTTP server handles at the same time
  MaxFaults,   \* bound: failed statements and process crashes
  MaxTrips     \* bound: trips counted for the booking

ASSUME BoundAssumption == MaxFaults \in Nat /\ MaxTrips \in Nat \ {0}

VARIABLES
  booking,   \* the bookings row
  request,   \* the status of its transport_requests row
  trips,     \* what the booking added to the driver's total_trips
  handler,   \* what each HTTP handler holds between two statements
  sweep,     \* the auto-confirm sweep: "off" is sweepInFlight = false
  faults     \* failures so far

vars == <<booking, request, trips, handler, sweep, faults>>

-----------------------------------------------------------------------------
(* proof: driver_proof_photo and driver_proof_at are set; overdue: proof_at*)
(* is more than 24 hours ago; receipt: client_confirmation_photo is set.   *)
Booking == [status  : BookingStatus \union {"DELETED"},
            proof   : BOOLEAN,
            overdue : BOOLEAN,
            receipt : BOOLEAN]

NewBooking == [status |-> "CONFIRMED", proof |-> FALSE, overdue |-> FALSE,
               receipt |-> FALSE]

Pcs == {"idle", "booking_save", "request_read", "request_save",
        "confirm_commit", "delete_commit"}

(* row: the booking to write; target: the status the request is to get.    *)
Handler == [pc : Pcs, row : Booking, target : RequestStatus \union {"NONE"}]
Idle    == [pc |-> "idle", row |-> NewBooking, target |-> "NONE"]

At(w, pc)  == handler[w].pc = pc
Finish(w)  == handler' = [handler EXCEPT ![w] = Idle]
Begin(w, pc, row, target) ==
  handler' = [handler EXCEPT ![w] = [pc |-> pc, row |-> row, target |-> target]]

OnlyHandler == UNCHANGED <<booking, request, trips, sweep, faults>>

-----------------------------------------------------------------------------
(* start, deliver, fail and cancel load the booking, check the transition, *)
(* save it, and all but deliver then move the request in an updateStatus   *)
(* of two more statements, outside any transaction.                        *)

MutLoadUnchecked(w, row, target) ==
  /\ At(w, "idle")
  /\ booking.status \in DOMAIN bookingTransitions
  /\ Begin(w, "booking_save", row, target)
  /\ OnlyHandler

Load(w, row, target) ==
  /\ At(w, "idle")
  /\ AssertTransition(booking.status, row.status)
  /\ Begin(w, "booking_save", row, target)
  /\ OnlyHandler

MutStartRequestOnly(w) ==
  /\ At(w, "idle")
  /\ AssertTransition(booking.status, "IN_TRANSIT")
  /\ Begin(w, "request_read", NewBooking, "IN_TRANSIT")
  /\ OnlyHandler

start(w)  == Load(w, [booking EXCEPT !.status = "IN_TRANSIT"], "IN_TRANSIT")
fail(w)   == Load(w, [booking EXCEPT !.status = "FAILED"], "FAILED")
cancel(w) == Load(w, [booking EXCEPT !.status = "CANCELLED"], "CANCELLED")
MutDeliverNoProof(w) ==
  Load(w, [booking EXCEPT !.status = "PENDING_CONFIRMATION"], "NONE")
deliver(w) ==
  Load(w, [booking EXCEPT !.status = "PENDING_CONFIRMATION", !.proof = TRUE,
                          !.overdue = FALSE], "NONE")

(* A row deleted meanwhile would be inserted again, which the foreign keys *)
(* to its request and bid refuse.                                          *)
BookingSave(w) ==
  /\ At(w, "booking_save")
  /\ LET h == handler[w] IN
       IF booking.status = "DELETED"
       THEN Finish(w) /\ UNCHANGED booking
       ELSE /\ booking' = h.row
            /\ IF h.target = "NONE"
               THEN Finish(w)
               ELSE Begin(w, "request_read", NewBooking, h.target)
  /\ UNCHANGED <<request, trips, sweep, faults>>

(* updateStatus throws where the transition is illegal; what was written   *)
(* before stays written.                                                   *)
RequestRead(w) ==
  /\ At(w, "request_read")
  /\ IF AssertTransition(request, handler[w].target)
     THEN Begin(w, "request_save", NewBooking, handler[w].target)
     ELSE Finish(w)
  /\ OnlyHandler

RequestSave(w) ==
  /\ At(w, "request_save")
  /\ request' = handler[w].target
  /\ Finish(w)
  /\ UNCHANGED <<booking, trips, sweep, faults>>

-----------------------------------------------------------------------------
(* confirmDelivery: a first read refuses the statuses that have no arrow   *)
(* to DELIVERED in the table assertTransition picks; the transaction       *)
(* claims the booking only if it still awaits confirmation, and a request  *)
(* that cannot become DELIVERED rolls the claim back.                      *)

confirmDelivery(w) ==
  /\ At(w, "idle")
  /\ \/ booking.status = "PENDING_CONFIRMATION"
     \/ AssertTransition(booking.status, "DELIVERED")
  /\ Begin(w, "confirm_commit", NewBooking, "NONE")
  /\ OnlyHandler

MutClaimableTwice == booking.status \in {"PENDING_CONFIRMATION", "DELIVERED"}
Claimable == booking.status = "PENDING_CONFIRMATION"

ConfirmCommit(w) ==
  /\ At(w, "confirm_commit")
  /\ IF Claimable /\ AssertTransition(request, "DELIVERED")
     THEN /\ trips < MaxTrips                           \* bound
          /\ booking' = [booking EXCEPT !.status = "DELIVERED", !.receipt = TRUE]
          /\ request' = "DELIVERED"
          /\ trips' = trips + 1
     ELSE UNCHANGED <<booking, request, trips>>
  /\ Finish(w)
  /\ UNCHANGED <<sweep, faults>>

-----------------------------------------------------------------------------
(* RequestsService.cancel and delete, as far as a booked request goes.     *)

cancelRequest(w) ==
  /\ At(w, "idle")
  /\ AssertTransition(request, "CANCELLED")
  /\ Begin(w, "request_save", NewBooking, "CANCELLED")
  /\ OnlyHandler

deleteRequest(w) ==
  /\ At(w, "idle")
  /\ request = "CANCELLED"
  /\ Begin(w, "delete_commit", NewBooking, "NONE")
  /\ OnlyHandler

DeleteCommit(w) ==
  /\ At(w, "delete_commit")
  /\ booking' = [NewBooking EXCEPT !.status = "DELETED"]
  /\ request' = "DELETED"
  /\ Finish(w)
  /\ UNCHANGED <<trips, sweep, faults>>

-----------------------------------------------------------------------------
(* The auto-confirm sweep, kicked by list and findOne unless in flight     *)
(* (the kick and the SELECT of the next tick are one step).  It claims by  *)
(* a conditional update and then goes on without a transaction; whatever   *)
(* throws is caught, and the rest of the candidate's work is skipped.      *)

MutKickEarly ==
  /\ sweep = "off"
  /\ sweep' = IF Claimable /\ ~booking.overdue THEN "claim" ELSE "off"
  /\ UNCHANGED <<booking, request, trips, handler, faults>>

kickSweep ==
  /\ sweep = "off"
  /\ sweep' = IF Claimable /\ booking.overdue THEN "claim" ELSE "off"
  /\ UNCHANGED <<booking, request, trips, handler, faults>>

MutSweepCompletes ==
  /\ sweep = "claim"
  /\ IF Claimable
     THEN booking' = [booking EXCEPT !.status = "COMPLETED"] /\ sweep' = "read"
     ELSE sweep' = "off" /\ UNCHANGED booking
  /\ UNCHANGED <<request, trips, handler, faults>>

SweepClaim ==
  /\ sweep = "claim"
  /\ IF Claimable
     THEN booking' = [booking EXCEPT !.status = "DELIVERED"] /\ sweep' = "read"
     ELSE sweep' = "off" /\ UNCHANGED booking
  /\ UNCHANGED <<request, trips, handler, faults>>

SweepRequestRead ==
  /\ sweep = "read"
  /\ sweep' = IF AssertTransition(request, "DELIVERED") THEN "save" ELSE "off"
  /\ UNCHANGED <<booking, request, trips, handler, faults>>

MutSweepNoCount ==
  /\ sweep = "save"
  /\ request' = "DELIVERED"
  /\ sweep' = "off"
  /\ UNCHANGED <<booking, trips, handler, faults>>

SweepRequestSave ==
  /\ sweep = "save"
  /\ request' = "DELIVERED"
  /\ sweep' = "count"
  /\ UNCHANGED <<booking, trips, handler, faults>>

SweepCount ==
  /\ sweep = "count"
  /\ trips < MaxTrips                                   \* bound
  /\ trips' = trips + 1
  /\ sweep' = "off"
  /\ UNCHANGED <<booking, request, handler, faults>>

-----------------------------------------------------------------------------
(* The environment: a day passes (no handler or sweep lives that long), a  *)
(* statement fails, or the process stops.  Rows survive.                   *)

Quiet == sweep = "off" /\ \A w \in Workers : At(w, "idle")

DayPasses ==
  /\ Quiet
  /\ booking.proof /\ ~booking.overdue
  /\ booking' = [booking EXCEPT !.overdue = TRUE]
  /\ UNCHANGED <<request, trips, handler, sweep, faults>>

Fault == faults < MaxFaults /\ faults' = faults + 1     \* bound

StatementFails(w) ==
  /\ ~At(w, "idle")
  /\ Fault
  /\ Finish(w)
  /\ UNCHANGED <<booking, request, trips, sweep>>

SweepFails ==
  /\ sweep # "off"
  /\ Fault
  /\ sweep' = "off"
  /\ UNCHANGED <<booking, request, trips, handler>>

Crash ==
  /\ ~Quiet
  /\ Fault
  /\ handler' = [w \in Workers |-> Idle]
  /\ sweep' = "off"
  /\ UNCHANGED <<booking, request, trips>>

-----------------------------------------------------------------------------
Init ==
  /\ booking = NewBooking
  /\ request = "BOOKED"
  /\ trips = 0
  /\ handler = [w \in Workers |-> Idle]
  /\ sweep = "off"
  /\ faults = 0

Start(w) ==
  \/ start(w) \/ deliver(w) \/ fail(w) \/ cancel(w) \/ confirmDelivery(w)
  \/ cancelRequest(w) \/ deleteRequest(w)

Continue(w) ==
  \/ BookingSave(w) \/ RequestRead(w) \/ RequestSave(w)
  \/ ConfirmCommit(w) \/ DeleteCommit(w)

Sweep == SweepClaim \/ SweepRequestRead \/ SweepRequestSave \/ SweepCount

Next ==
  \/ \E w \in Workers : Start(w) \/ Continue(w) \/ StatementFails(w)
  \/ kickSweep \/ Sweep \/ SweepFails
  \/ DayPasses \/ Crash

Spec == Init /\ [][Next]_vars

(* Fairness: statements of the database complete, so a sweep under way     *)
(* goes on, and the apps keep polling the lists that kick it.              *)
FairSpec == Spec /\ WF_vars(kickSweep) /\ WF_vars(Sweep)

-----------------------------------------------------------------------------
(* Properties.                                                             *)

(* Types of the rows, the handlers and the counters.                       *)
TypeOK ==
  /\ booking \in Booking
  /\ request \in RequestStatus \union {"DELETED"}
  /\ trips \in 0 .. MaxTrips
  /\ handler \in [Workers -> Handler]
  /\ sweep \in {"off", "claim", "read", "save", "count"}
  /\ faults \in 0 .. MaxFaults

(* The driver is credited at most one trip for the booking, although the   *)
(* client's confirmation and the sweep may both be under way and either    *)
(* may fail half way (bookings.service.ts:184 and :304).                   *)
TripsCountedOnce == trips <= 1

(* The booking is written first and the request follows: a request is      *)
(* never ahead of its booking, whichever statement failed in between.      *)
RequestFollowsBooking ==
  /\ request = "IN_TRANSIT" => booking.status \in
       {"IN_TRANSIT", "PENDING_CONFIRMATION", "DELIVERED", "FAILED"}
  /\ request = "DELIVERED" => booking.status = "DELIVERED"
  /\ request = "FAILED"    => booking.status = "FAILED"

(* Between handlers, and as long as no statement failed, a delivered       *)
(* request means a delivered booking and a trip counted, and conversely a  *)
(* trip is counted for a delivered pair only.                              *)
DeliveredIsCounted ==
  faults = 0 /\ Quiet =>
    (trips = 1 <=> request = "DELIVERED" /\ booking.status = "DELIVERED")

(* A booking awaiting confirmation or delivered has the driver's proof,    *)
(* and the client's photo is on delivered bookings only.                   *)
ProofStands ==
  /\ booking.status \in {"PENDING_CONFIRMATION", "DELIVERED"} => booking.proof
  /\ booking.receipt => booking.status = "DELIVERED"

(* "The first writer wins": once the sweep has claimed a booking, no stale *)
(* save and no confirmation takes it back before the sweep has moved the   *)
(* request and counted the trip (bookings.service.ts:295-299).             *)
ClaimStands ==
  sweep \in {"read", "save", "count"} => booking.status \in {"DELIVERED", "DELETED"}

(* Every change of the booking's status is an arrow of the booking table,  *)
(* and every change of the request's an arrow of the request table: the    *)
(* check and the write are several statements apart.                       *)
StatusesFollowTables ==
  [][/\ booking'.status \in {booking.status, "DELETED"}
        \/ Listed(bookingTransitions, booking.status, booking'.status)
     /\ request' \in {request, "DELETED"}
        \/ Listed(requestTransitions, request, request')]_vars

(* A booking left unconfirmed for a day does not stay so as long as the    *)
(* lists are read: the sweep closes it if the client does not.             *)
OverdueBookingsClose ==
  (Claimable /\ booking.overdue) ~> ~(Claimable /\ booking.overdue)

(* What the code's comments claim and it does not do.                      *)

(* state-machine.ts:20: a driver may flag an issue before starting; the    *)
(* request of a failed booking fails too.                                  *)
FailureReachesRequest ==
  faults = 0 /\ Quiet /\ booking.status = "FAILED" => request = "FAILED"

(* bookings.service.ts:404: pulling out unwinds both, the booking and the  *)
(* request.                                                                *)
CancelUnwindsBoth ==
  faults = 0 /\ Quiet /\ request = "CANCELLED" => booking.status = "CANCELLED"
=============================================================================
