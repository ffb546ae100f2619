--------------------------- MODULE DeliveryProofs ---------------------------
(***************************************************************************)
(* Theorems about Delivery, for every bound on faults and trips, with the  *)
(* auto-confirm sweep running beside the handlers and any statement, or    *)
(* the process, failing: for any number of handlers (types, the driver's   *)
(* proof, the sweep's claim), for two (the trip is counted once) and for   *)
(* requests handled one after the other (the two rows agree).              *)
(***************************************************************************)
EXTENDS Delivery, TLAPS

-----------------------------------------------------------------------------
(* Types.  RequestSave writes the status its handler holds, so that must   *)
(* be one.                                                                 *)

Sound(h) == h.pc \in {"request_read", "request_save"} => h.target # "NONE"

HandlerOK == /\ handler \in [Workers -> Handler]
             /\ \A w \in Workers : Sound(handler[w])

TypeInv == TypeOK /\ HandlerOK

LEMMA BookingEdits ==
  /\ NewBooking \in Booking
  /\ \A s \in BookingStatus \union {"DELETED"} : [NewBooking EXCEPT !.status = s] \in Booking
  /\ \A b \in Booking, s \in BookingStatus :
       /\ [b EXCEPT !.status = s] \in Booking
       /\ [b EXCEPT !.status = s, !.receipt = TRUE] \in Booking
       /\ [b EXCEPT !.status = s, !.proof = TRUE, !.overdue = FALSE] \in Booking
       /\ [b EXCEPT !.overdue = TRUE] \in Booking
BY DEF NewBooking, Booking, BookingStatus

LEMMA IdleType == Idle \in Handler /\ Sound(Idle)
BY BookingEdits DEF Idle, Handler, Pcs, Sound

LEMMA BeginType ==
  ASSUME TypeInv, NEW w \in Workers, NEW pc \in Pcs, NEW row \in Booking,
         NEW target \in RequestStatus \union {"NONE"},
         pc \in {"request_read", "request_save"} => target # "NONE",
         Begin(w, pc, row, target)
  PROVE  HandlerOK'
<1>1. [pc |-> pc, row |-> row, target |-> target] \in Handler
  BY DEF Handler
<1> QED BY <1>1 DEF TypeInv, HandlerOK, Begin, Sound

LEMMA FinishType ==
  ASSUME TypeInv, NEW w \in Workers, Finish(w)
  PROVE  HandlerOK'
BY IdleType DEF TypeInv, HandlerOK, Finish

LEMMA HeldTypes ==
  ASSUME TypeInv, NEW w \in Workers
  PROVE  /\ handler[w].row \in Booking
         /\ handler[w].target \in RequestStatus \union {"NONE"}
         /\ handler[w].pc \in {"request_read", "request_save"}
              => handler[w].target \in RequestStatus
BY DEF TypeInv, HandlerOK, Handler, Sound

LEMMA TypeInvInit == Init => TypeInv
<1> SUFFICES ASSUME Init PROVE TypeInv
  OBVIOUS
<1>1. HandlerOK
  BY IdleType DEF Init, HandlerOK
<1>2. booking \in Booking /\ request \in RequestStatus
  BY BookingEdits DEF Init, RequestStatus
<1>3. trips \in 0 .. MaxTrips /\ faults \in 0 .. MaxFaults /\ sweep = "off"
  BY BoundAssumption DEF Init
<1> QED BY <1>1, <1>2, <1>3 DEF TypeInv, TypeOK, HandlerOK

LEMMA StartsKeepTypes ==
  ASSUME TypeInv, NEW w \in Workers, Start(w)
  PROVE  TypeInv'
<1>1. booking \in Booking
  BY DEF TypeInv, TypeOK
<1>2. ASSUME NEW row \in Booking, NEW target \in RequestStatus \union {"NONE"},
             Load(w, row, target)
      PROVE  HandlerOK' /\ OnlyHandler
  BY <1>2, BeginType DEF Load, Pcs
<1>3. start(w) => HandlerOK' /\ OnlyHandler
  BY <1>1, <1>2, BookingEdits DEF start, BookingStatus, RequestStatus
<1>4. fail(w) => HandlerOK' /\ OnlyHandler
  BY <1>1, <1>2, BookingEdits DEF fail, BookingStatus, RequestStatus
<1>5. cancel(w) => HandlerOK' /\ OnlyHandler
  BY <1>1, <1>2, BookingEdits DEF cancel, BookingStatus, RequestStatus
<1>6. deliver(w) => HandlerOK' /\ OnlyHandler
  BY <1>1, <1>2, BookingEdits DEF deliver, BookingStatus
<1>7. confirmDelivery(w) => HandlerOK' /\ OnlyHandler
  BY BeginType, BookingEdits DEF confirmDelivery, Pcs
<1>8. cancelRequest(w) => HandlerOK' /\ OnlyHandler
  BY BeginType, BookingEdits DEF cancelRequest, Pcs, RequestStatus
<1>9. deleteRequest(w) => HandlerOK' /\ OnlyHandler
  BY BeginType, BookingEdits DEF deleteRequest, Pcs
<1>10. HandlerOK' /\ OnlyHandler
  BY <1>3, <1>4, <1>5, <1>6, <1>7, <1>8, <1>9 DEF Start
<1> QED BY <1>10 DEF OnlyHandler, TypeInv, TypeOK, HandlerOK

LEMMA WritesKeepTypes ==
  ASSUME TypeInv, NEW w \in Workers, Continue(w)
  PROVE  TypeInv'
<1>1. CASE BookingSave(w)
  <2>1. booking' \in Booking
    BY <1>1, HeldTypes DEF BookingSave, TypeInv, TypeOK
  <2>2. HandlerOK'
    BY <1>1, HeldTypes, BeginType, FinishType, BookingEdits DEF BookingSave, Pcs
  <2> QED BY <1>1, <2>1, <2>2 DEF BookingSave, TypeInv, TypeOK, HandlerOK
<1>2. CASE RequestRead(w)
  <2>1. handler[w].target \in RequestStatus
    BY <1>2, HeldTypes DEF RequestRead, At
  <2>2. handler[w].target # "NONE"
    BY <2>1 DEF RequestStatus
  <2>3. HandlerOK'
    BY <1>2, <2>1, <2>2, BeginType, FinishType, BookingEdits DEF RequestRead, Pcs
  <2> QED BY <1>2, <2>3 DEF RequestRead, OnlyHandler, TypeInv, TypeOK, HandlerOK
<1>3. CASE RequestSave(w)
  <2>1. request' \in RequestStatus
    BY <1>3, HeldTypes DEF RequestSave, At
  <2>2. HandlerOK'
    BY <1>3, FinishType DEF RequestSave
  <2> QED BY <1>3, <2>1, <2>2 DEF RequestSave, TypeInv, TypeOK, HandlerOK
<1>4. CASE ConfirmCommit(w)
  <2>1. HandlerOK'
    BY <1>4, FinishType DEF ConfirmCommit
  <2>2. booking' \in Booking
    BY <1>4, BookingEdits DEF ConfirmCommit, TypeInv, TypeOK, BookingStatus
  <2>3. request' \in RequestStatus \union {"DELETED"}
    BY <1>4 DEF ConfirmCommit, TypeInv, TypeOK, RequestStatus
  <2>4. trips' \in 0 .. MaxTrips
    BY <1>4, BoundAssumption DEF ConfirmCommit, TypeInv, TypeOK
  <2> QED BY <1>4, <2>1, <2>2, <2>3, <2>4 DEF ConfirmCommit, TypeInv, TypeOK, HandlerOK
<1>5. CASE DeleteCommit(w)
  <2>1. HandlerOK'
    BY <1>5, FinishType DEF DeleteCommit
  <2>2. booking' \in Booking
    BY <1>5, BookingEdits DEF DeleteCommit
  <2> QED BY <1>5, <2>1, <2>2 DEF DeleteCommit, TypeInv, TypeOK, HandlerOK
<1> QED BY <1>1, <1>2, <1>3, <1>4, <1>5 DEF Continue

LEMMA TypeInvStep == TypeInv /\ [Next]_vars => TypeInv'
<1> SUFFICES ASSUME TypeInv, [Next]_vars PROVE TypeInv'
  OBVIOUS
<1> USE DEF TypeInv, TypeOK, HandlerOK
<1>1. CASE UNCHANGED vars
  BY <1>1 DEF vars
<1>2. ASSUME NEW w \in Workers, Start(w) PROVE TypeInv'
  BY <1>2, StartsKeepTypes
<1>3. ASSUME NEW w \in Workers, Continue(w) PROVE TypeInv'
  BY <1>3, WritesKeepTypes
<1>4. ASSUME NEW w \in Workers, StatementFails(w) PROVE TypeInv'
  <2>1. HandlerOK'
    BY <1>4, FinishType DEF StatementFails
  <2> QED BY <1>4, <2>1, BoundAssumption DEF StatementFails, Fault
<1>5. CASE kickSweep
  BY <1>5 DEF kickSweep
<1>6. CASE Sweep
  <2>1. booking' \in Booking
    BY <1>6, BookingEdits DEF Sweep, SweepClaim, SweepRequestRead,
       SweepRequestSave, SweepCount, BookingStatus
  <2>2. trips' \in 0 .. MaxTrips
    BY <1>6, BoundAssumption DEF Sweep, SweepClaim, SweepRequestRead,
       SweepRequestSave, SweepCount
  <2> QED BY <1>6, <2>1, <2>2 DEF Sweep, SweepClaim, SweepRequestRead,
          SweepRequestSave, SweepCount, RequestStatus
<1>7. CASE SweepFails
  BY <1>7, BoundAssumption DEF SweepFails, Fault
<1>8. CASE DayPasses
  BY <1>8, BookingEdits DEF DayPasses, BookingStatus
<1>9. CASE Crash
  <2>1. HandlerOK'
    BY <1>9, IdleType DEF Crash
  <2> QED BY <1>9, <2>1, BoundAssumption DEF Crash, Fault
<1> QED BY <1>1, <1>2, <1>3, <1>4, <1>5, <1>6, <1>7, <1>8, <1>9 DEF Next

(* Every reachable state has the types the module declares, whatever       *)
(* handlers run at the same time.                                          *)
THEOREM TypeCorrect == Spec => []TypeOK
<1>1. TypeInv => TypeOK
  BY DEF TypeInv
<1> QED BY <1>1, TypeInvInit, TypeInvStep, PTL DEF Spec

-----------------------------------------------------------------------------
(* The tables.                                                             *)

(* What the two tables say, row by row.                                    *)
LEMMA BookingRows ==
  ASSUME NEW s, NEW t
  PROVE  Listed(bookingTransitions, s, t) <=>
           \/ s = "CONFIRMED" /\ t \in {"IN_TRANSIT", "CANCELLED", "FAILED"}
           \/ s = "IN_TRANSIT" /\ t \in {"PENDING_CONFIRMATION", "FAILED"}
           \/ s = "PENDING_CONFIRMATION" /\ t = "DELIVERED"
BY DEF Listed, bookingTransitions

LEMMA RequestRows ==
  ASSUME NEW s, NEW t
  PROVE  Listed(requestTransitions, s, t) <=>
           \/ s = "OPEN" /\ t \in {"BIDDING", "CANCELLED", "FAILED"}
           \/ s = "BIDDING" /\ t \in {"BOOKED", "CANCELLED", "FAILED"}
           \/ s = "BOOKED" /\ t \in {"IN_TRANSIT", "CANCELLED"}
           \/ s = "IN_TRANSIT" /\ t \in {"DELIVERED", "FAILED"}
BY DEF Listed, requestTransitions

(* Which statuses the one check lets through, although the enums share     *)
(* four strings: for a request the arrows of its table, for a booking the  *)
(* arrows of its own and one more, from IN_TRANSIT straight to DELIVERED,  *)
(* which is why a confirmation checks the status again in its transaction. *)
THEOREM AssertTransitionExact ==
  /\ \A s, t \in RequestStatus : AssertTransition(s, t) <=> Listed(requestTransitions, s, t)
  /\ \A s, t \in BookingStatus :
       AssertTransition(s, t) <=>
         Listed(bookingTransitions, s, t) \/ (s = "IN_TRANSIT" /\ t = "DELIVERED")
<1>1. ASSUME NEW s \in RequestStatus, NEW t \in RequestStatus
      PROVE  AssertTransition(s, t) <=> Listed(requestTransitions, s, t)
  BY DEF AssertTransition, Listed, requestTransitions, bookingTransitions,
         RequestStatus, BookingStatus
<1>2. ASSUME NEW s \in BookingStatus, NEW t \in BookingStatus
      PROVE  AssertTransition(s, t) <=>
               Listed(bookingTransitions, s, t) \/ (s = "IN_TRANSIT" /\ t = "DELIVERED")
  BY DEF AssertTransition, Listed, requestTransitions, bookingTransitions,
         RequestStatus, BookingStatus
<1> QED BY <1>1, <1>2

(* In the table AssertTransition picks, a request moves along its arrows.  *)
LEMMA RequestArrows ==
  ASSUME NEW t \in {"IN_TRANSIT", "DELIVERED", "FAILED", "CANCELLED"},
         NEW s \in RequestStatus \union {"DELETED"}, AssertTransition(s, t)
  PROVE  Listed(requestTransitions, s, t)
BY DEF AssertTransition, Listed, requestTransitions, bookingTransitions,
       RequestStatus, BookingStatus

(* A booking that may start, deliver, fail or be cancelled moves along the *)
(* arrows of its own table.                                                *)
LEMMA BookingArrows ==
  ASSUME NEW s \in BookingStatus \union {"DELETED"},
         NEW t \in {"IN_TRANSIT", "PENDING_CONFIRMATION", "FAILED", "CANCELLED"},
         AssertTransition(s, t)
  PROVE  Listed(bookingTransitions, s, t)
BY DEF AssertTransition, Listed, requestTransitions, bookingTransitions,
       RequestStatus, BookingStatus

-----------------------------------------------------------------------------
(* Any number of handlers.  A handler may save a booking that others have  *)
(* moved on meanwhile, but only one it loaded before it was delivered; by  *)
(* the time the booking is overdue none of those is left, so that nobody   *)
(* but the sweep and the client's confirmation can write it.               *)

HeldOK(h) ==
  /\ h.pc = "booking_save" =>
       /\ h.row.status \in {"IN_TRANSIT", "PENDING_CONFIRMATION", "FAILED", "CANCELLED"}
       /\ h.row.proof => h.row.status = "PENDING_CONFIRMATION"
       /\ h.row.status = "PENDING_CONFIRMATION" => h.row.proof
       /\ ~h.row.overdue /\ ~h.row.receipt
       /\ h.target = IF h.row.status = "PENDING_CONFIRMATION" THEN "NONE"
                                                              ELSE h.row.status
  /\ h.pc \in {"request_read", "request_save"} =>
       h.target \in {"IN_TRANSIT", "FAILED", "CANCELLED"}

AllHeldOK == \A w \in Workers : HeldOK(handler[w])
NoSaves   == \A w \in Workers : ~At(w, "booking_save")

PaperOK ==
  /\ booking.proof => booking.status \in {"PENDING_CONFIRMATION", "DELIVERED"}
  /\ booking.overdue => booking.proof
  /\ ProofStands

SweepAlone ==
  /\ booking.overdue => NoSaves
  /\ sweep # "off" => booking.overdue \/ booking.status = "DELETED"
  /\ ClaimStands

ClaimInv == TypeInv /\ AllHeldOK /\ PaperOK /\ SweepAlone

LEMMA BeginHolds ==
  ASSUME ClaimInv, NEW w \in Workers, NEW pc, NEW row, NEW target,
         Begin(w, pc, row, target),
         HeldOK([pc |-> pc, row |-> row, target |-> target])
  PROVE  AllHeldOK' /\ (NoSaves /\ pc # "booking_save" => NoSaves')
<1>1. \A u \in Workers :
        handler'[u] = IF u = w THEN [pc |-> pc, row |-> row, target |-> target]
                               ELSE handler[u]
  BY DEF ClaimInv, TypeInv, HandlerOK, Begin
<1> HIDE DEF HeldOK
<1>2. AllHeldOK'
  BY <1>1 DEF ClaimInv, AllHeldOK
<1> QED BY <1>1, <1>2 DEF NoSaves, At

LEMMA FinishHolds ==
  ASSUME ClaimInv, NEW w \in Workers, Finish(w)
  PROVE  AllHeldOK' /\ (NoSaves => NoSaves')
<1>1. \A u \in Workers : handler'[u] = IF u = w THEN Idle ELSE handler[u]
  BY DEF ClaimInv, TypeInv, HandlerOK, Finish
<1>2. HeldOK(Idle) /\ Idle.pc = "idle"
  BY DEF HeldOK, Idle
<1>3. AllHeldOK'
  BY <1>1, <1>2 DEF ClaimInv, AllHeldOK
<1> QED BY <1>1, <1>2, <1>3 DEF NoSaves, At

LEMMA ClaimInvInit == Init => ClaimInv
<1> SUFFICES ASSUME Init PROVE ClaimInv
  OBVIOUS
<1>1. \A w \in Workers : handler[w].pc = "idle"
  BY DEF Init, Idle
<1>2. AllHeldOK
  BY <1>1 DEF AllHeldOK, HeldOK
<1>3. PaperOK /\ SweepAlone
  BY DEF Init, NewBooking, PaperOK, ProofStands, SweepAlone, ClaimStands
<1> QED BY <1>2, <1>3, TypeInvInit DEF ClaimInv

(* What a load that goes on to save has found.                             *)
LEMMA LoadedEarly ==
  ASSUME ClaimInv,
         NEW t \in {"IN_TRANSIT", "PENDING_CONFIRMATION", "FAILED", "CANCELLED"},
         AssertTransition(booking.status, t)
  PROVE  /\ booking.status \in {"CONFIRMED", "IN_TRANSIT"}
         /\ ~booking.proof /\ ~booking.overdue /\ ~booking.receipt
<1>1. booking.status \in BookingStatus \union {"DELETED"}
  BY DEF ClaimInv, TypeInv, TypeOK, Booking
<1>2. booking.status \in {"CONFIRMED", "IN_TRANSIT"}
  BY <1>1, BookingArrows, BookingRows
<1> QED BY <1>2 DEF ClaimInv, PaperOK, ProofStands

(* What a step that begins a handler's work leaves true.                   *)
BeginsWell ==
  /\ AllHeldOK' /\ OnlyHandler
  /\ NoSaves /\ booking.status \notin {"CONFIRMED", "IN_TRANSIT"} => NoSaves'
  /\ booking.overdue => NoSaves'

LEMMA LoadsHold ==
  ASSUME ClaimInv, NEW w \in Workers,
         NEW t \in {"IN_TRANSIT", "PENDING_CONFIRMATION", "FAILED", "CANCELLED"},
         NEW row, row.status = t,
         NEW target, target = IF t = "PENDING_CONFIRMATION" THEN "NONE" ELSE t,
         t = "PENDING_CONFIRMATION" => row.proof,
         row.proof => booking.proof \/ t = "PENDING_CONFIRMATION",
         row.overdue => booking.overdue, row.receipt => booking.receipt,
         Load(w, row, target)
  PROVE  BeginsWell
<1>1. AssertTransition(booking.status, t) /\ OnlyHandler
      /\ Begin(w, "booking_save", row, target)
  BY DEF Load
<1>2. /\ booking.status \in {"CONFIRMED", "IN_TRANSIT"}
      /\ ~booking.proof /\ ~booking.overdue /\ ~booking.receipt
  BY <1>1, LoadedEarly
<1>3. HeldOK([pc |-> "booking_save", row |-> row, target |-> target])
  BY <1>2 DEF HeldOK
<1>4. AllHeldOK'
  BY <1>1, <1>3, BeginHolds
<1> QED BY <1>1, <1>2, <1>4 DEF BeginsWell

LEMMA OthersHold ==
  ASSUME ClaimInv, NEW w \in Workers,
         NEW pc \in {"confirm_commit", "request_save", "delete_commit"},
         NEW target, pc = "request_save" => target = "CANCELLED",
         Begin(w, pc, NewBooking, target), OnlyHandler
  PROVE  BeginsWell
<1>1. HeldOK([pc |-> pc, row |-> NewBooking, target |-> target])
  BY DEF HeldOK
<1>2. AllHeldOK' /\ (NoSaves => NoSaves')
  BY <1>1, BeginHolds
<1> QED BY <1>2 DEF BeginsWell, ClaimInv, SweepAlone

LEMMA StartsHold ==
  ASSUME ClaimInv, NEW w \in Workers, Start(w)
  PROVE  BeginsWell
<1>1. booking \in Booking
  BY DEF ClaimInv, TypeInv, TypeOK
<1>2. ASSUME NEW t \in {"IN_TRANSIT", "FAILED", "CANCELLED"},
             Load(w, [booking EXCEPT !.status = t], t)
      PROVE  BeginsWell
  <2> DEFINE row == [booking EXCEPT !.status = t]
  <2>1. /\ row.status = t /\ row.proof = booking.proof
        /\ row.overdue = booking.overdue /\ row.receipt = booking.receipt
    BY <1>1 DEF Booking
  <2>2. Load(w, row, t)
    BY <1>2
  <2> HIDE DEF row
  <2> QED BY <2>1, <2>2, LoadsHold
<1>3. CASE deliver(w)
  <2> DEFINE row == [booking EXCEPT !.status = "PENDING_CONFIRMATION",
                                    !.proof = TRUE, !.overdue = FALSE]
  <2>1. /\ row.status = "PENDING_CONFIRMATION" /\ row.proof
        /\ ~row.overdue /\ row.receipt = booking.receipt
    BY <1>1 DEF Booking
  <2>2. Load(w, row, "NONE")
    BY <1>3 DEF deliver
  <2> HIDE DEF row
  <2> QED BY <2>1, <2>2, LoadsHold
<1>4. CASE confirmDelivery(w)
  BY <1>4, OthersHold DEF confirmDelivery
<1>5. CASE cancelRequest(w)
  BY <1>5, OthersHold DEF cancelRequest
<1>6. CASE deleteRequest(w)
  BY <1>6, OthersHold DEF deleteRequest
<1>7. CASE start(w)
  BY <1>2, <1>7 DEF start
<1>8. CASE fail(w)
  BY <1>2, <1>8 DEF fail
<1>9. CASE cancel(w)
  BY <1>2, <1>9 DEF cancel
<1> QED BY <1>3, <1>4, <1>5, <1>6, <1>7, <1>8, <1>9 DEF Start

(* A step that leaves the booking and the sweep alone.                     *)
LEMMA UnmovedHolds ==
  ASSUME ClaimInv, UNCHANGED <<booking, sweep>>, booking.overdue => NoSaves'
  PROVE  PaperOK' /\ SweepAlone'
BY DEF ClaimInv, PaperOK, ProofStands, SweepAlone, ClaimStands

LEMMA WritesHold ==
  ASSUME ClaimInv, NEW w \in Workers, Continue(w)
  PROVE  AllHeldOK' /\ PaperOK' /\ SweepAlone' /\ (NoSaves => NoSaves')
<1>1. HeldOK(handler[w])
  BY DEF ClaimInv, AllHeldOK
<1>2. CASE BookingSave(w)
  <2>1. CASE booking.status = "DELETED"
    BY <1>2, <2>1, FinishHolds, UnmovedHolds DEF BookingSave, ClaimInv, SweepAlone
  <2>2. CASE booking.status # "DELETED"
    <3>1. ~NoSaves /\ ~booking.overdue /\ sweep = "off"
      BY <1>2, <2>2 DEF BookingSave, NoSaves, ClaimInv, SweepAlone
    <3>2. /\ handler[w].pc = "booking_save" /\ booking' = handler[w].row /\ sweep' = sweep
      BY <1>2, <2>2 DEF BookingSave, At
    <3>3. PaperOK' /\ SweepAlone'
      BY <1>1, <3>1, <3>2 DEF HeldOK, PaperOK, ProofStands, SweepAlone, ClaimStands
    <3>4. CASE handler[w].target = "NONE"
      BY <1>2, <2>2, <3>1, <3>3, <3>4, FinishHolds DEF BookingSave
    <3>5. CASE handler[w].target # "NONE"
      <4>1. Begin(w, "request_read", NewBooking, handler[w].target)
        BY <1>2, <2>2, <3>5 DEF BookingSave
      <4>2. HeldOK([pc |-> "request_read", row |-> NewBooking,
                    target |-> handler[w].target])
        BY <1>1, <3>2, <3>5 DEF HeldOK
      <4> QED BY <3>1, <3>3, <4>1, <4>2, BeginHolds
    <3> QED BY <3>4, <3>5
  <2> QED BY <2>1, <2>2
<1>3. CASE RequestRead(w)
  <2>1. HeldOK([pc |-> "request_save", row |-> NewBooking, target |-> handler[w].target])
    BY <1>1, <1>3 DEF HeldOK, RequestRead, At
  <2>2. AllHeldOK' /\ (NoSaves => NoSaves')
    BY <1>3, <2>1, BeginHolds, FinishHolds DEF RequestRead
  <2> QED BY <1>3, <2>2, UnmovedHolds DEF RequestRead, OnlyHandler, ClaimInv, SweepAlone
<1>4. CASE RequestSave(w)
  BY <1>4, FinishHolds, UnmovedHolds DEF RequestSave, ClaimInv, SweepAlone
<1>5. CASE ConfirmCommit(w)
  <2>1. AllHeldOK' /\ (NoSaves => NoSaves') /\ sweep' = sweep
    BY <1>5, FinishHolds DEF ConfirmCommit
  <2>2. CASE Claimable /\ AssertTransition(request, "DELIVERED")
    <3>1. /\ booking.status = "PENDING_CONFIRMATION" /\ booking \in Booking
          /\ booking' = [booking EXCEPT !.status = "DELIVERED", !.receipt = TRUE]
      BY <1>5, <2>2 DEF ConfirmCommit, Claimable, ClaimInv, TypeInv, TypeOK
    <3>2. /\ booking'.status = "DELIVERED" /\ booking'.proof = booking.proof
          /\ booking'.overdue = booking.overdue
      BY <3>1 DEF Booking
    <3> QED BY <2>1, <3>1, <3>2 DEF ClaimInv, PaperOK, ProofStands, SweepAlone, ClaimStands
  <2>3. CASE ~(Claimable /\ AssertTransition(request, "DELIVERED"))
    BY <1>5, <2>1, <2>3, UnmovedHolds DEF ConfirmCommit, ClaimInv, SweepAlone
  <2> QED BY <2>2, <2>3
<1>6. CASE DeleteCommit(w)
  <2>1. AllHeldOK' /\ (NoSaves => NoSaves')
    BY <1>6, FinishHolds DEF DeleteCommit
  <2>2. /\ booking'.status = "DELETED" /\ ~booking'.proof /\ ~booking'.overdue
        /\ ~booking'.receipt /\ sweep' = sweep
    BY <1>6 DEF DeleteCommit, NewBooking
  <2> QED BY <2>1, <2>2 DEF PaperOK, ProofStands, SweepAlone, ClaimStands
<1> QED BY <1>2, <1>3, <1>4, <1>5, <1>6 DEF Continue

LEMMA SweepHolds ==
  ASSUME ClaimInv, kickSweep \/ Sweep
  PROVE  PaperOK' /\ SweepAlone'
<1>1. NoSaves' = NoSaves
  BY DEF kickSweep, Sweep, SweepClaim, SweepRequestRead, SweepRequestSave, SweepCount,
         NoSaves, At
<1>2. CASE SweepClaim /\ Claimable
  <2>1. /\ booking.status = "PENDING_CONFIRMATION" /\ booking \in Booking
        /\ booking' = [booking EXCEPT !.status = "DELIVERED"]
        /\ sweep = "claim" /\ sweep' = "read"
    BY <1>2 DEF SweepClaim, Claimable, ClaimInv, TypeInv, TypeOK
  <2>2. /\ booking'.status = "DELIVERED" /\ booking'.proof = booking.proof
        /\ booking'.overdue = booking.overdue /\ booking'.receipt = booking.receipt
    BY <2>1 DEF Booking
  <2> QED BY <1>1, <2>1, <2>2 DEF ClaimInv, PaperOK, ProofStands, SweepAlone, ClaimStands
<1>3. CASE ~(SweepClaim /\ Claimable)
  <2>1. /\ booking' = booking
        /\ sweep' \in {"off", "claim", "read", "save", "count"}
        /\ sweep' # "off" => sweep # "off" \/ booking.overdue
        /\ sweep' \in {"read", "save", "count"} => sweep \in {"read", "save", "count"}
    BY <1>3 DEF kickSweep, Sweep, SweepClaim, SweepRequestRead, SweepRequestSave, SweepCount
  <2> QED BY <1>1, <2>1 DEF ClaimInv, PaperOK, ProofStands, SweepAlone, ClaimStands
<1> QED BY <1>2, <1>3

LEMMA ClaimInvStep == ClaimInv /\ [Next]_vars => ClaimInv'
<1> SUFFICES ASSUME ClaimInv, [Next]_vars PROVE ClaimInv'
  OBVIOUS
<1>1. TypeInv'
  BY TypeInvStep DEF ClaimInv
<1> SUFFICES AllHeldOK' /\ PaperOK' /\ SweepAlone'
  BY <1>1 DEF ClaimInv
<1>2. ASSUME UNCHANGED handler PROVE AllHeldOK' /\ NoSaves' = NoSaves
  BY <1>2 DEF ClaimInv, AllHeldOK, NoSaves, At
<1>3. CASE UNCHANGED vars
  BY <1>2, <1>3, UnmovedHolds DEF vars, ClaimInv, SweepAlone
<1>4. ASSUME NEW w \in Workers, Start(w) PROVE AllHeldOK' /\ PaperOK' /\ SweepAlone'
  BY <1>4, StartsHold, UnmovedHolds DEF BeginsWell, OnlyHandler
<1>5. ASSUME NEW w \in Workers, Continue(w) PROVE AllHeldOK' /\ PaperOK' /\ SweepAlone'
  BY <1>5, WritesHold
<1>6. ASSUME NEW w \in Workers, StatementFails(w)
      PROVE  AllHeldOK' /\ PaperOK' /\ SweepAlone'
  BY <1>6, FinishHolds, UnmovedHolds DEF StatementFails, ClaimInv, SweepAlone
<1>7. CASE kickSweep \/ Sweep
  <2>1. UNCHANGED handler
    BY <1>7 DEF kickSweep, Sweep, SweepClaim, SweepRequestRead, SweepRequestSave, SweepCount
  <2> QED BY <1>2, <1>7, <2>1, SweepHolds
<1>8. CASE SweepFails
  <2>1. UNCHANGED <<handler, booking>> /\ sweep' = "off"
    BY <1>8 DEF SweepFails
  <2> QED BY <1>2, <2>1 DEF ClaimInv, PaperOK, ProofStands, SweepAlone, ClaimStands
<1>9. CASE DayPasses
  <2>1. /\ sweep' = "off" /\ UNCHANGED handler /\ NoSaves /\ booking.proof
        /\ booking \in Booking /\ booking' = [booking EXCEPT !.overdue = TRUE]
    BY <1>9 DEF DayPasses, Quiet, NoSaves, At, ClaimInv, TypeInv, TypeOK
  <2>2. /\ booking'.status = booking.status /\ booking'.proof = booking.proof
        /\ booking'.receipt = booking.receipt
    BY <2>1 DEF Booking
  <2> QED BY <1>2, <2>1, <2>2 DEF ClaimInv, PaperOK, ProofStands, SweepAlone, ClaimStands
<1>10. CASE Crash
  <2>1. \A w \in Workers : handler'[w].pc = "idle"
    BY <1>10 DEF Crash, Idle
  <2>2. AllHeldOK' /\ NoSaves'
    BY <2>1 DEF AllHeldOK, HeldOK, NoSaves, At
  <2>3. booking' = booking /\ sweep' = "off"
    BY <1>10 DEF Crash
  <2> QED BY <2>2, <2>3 DEF ClaimInv, PaperOK, ProofStands, SweepAlone, ClaimStands
<1> QED BY <1>3, <1>4, <1>5, <1>6, <1>7, <1>8, <1>9, <1>10 DEF Next

(* A booking that awaits confirmation or was delivered has the driver's    *)
(* proof, and the client's photo is on delivered bookings only, however    *)
(* many handlers run and whatever fails in between.                        *)
THEOREM ProofStandsHolds == Spec => []ProofStands
<1>1. ClaimInv => ProofStands
  BY DEF ClaimInv, PaperOK
<1> QED BY <1>1, ClaimInvInit, ClaimInvStep, PTL DEF Spec

(* The first writer wins: what the auto-confirm sweep has claimed, no      *)
(* stale save of any number of handlers and no confirmation takes back     *)
(* while the sweep finishes its work.                                      *)
THEOREM ClaimStandsHolds == Spec => []ClaimStands
<1>1. ClaimInv => ClaimStands
  BY DEF ClaimInv, SweepAlone
<1> QED BY <1>1, ClaimInvInit, ClaimInvStep, PTL DEF Spec

-----------------------------------------------------------------------------
(* Two handlers.  Once the trip is counted it cannot be counted again, for *)
(* one of two reasons: the request is at its end and nobody is about to    *)
(* start it, or the booking is and nobody holds an older copy to save.  A  *)
(* third handler may take both away: one about to save the request as      *)
(* IN_TRANSIT and one about to save the booking as PENDING_CONFIRMATION    *)
(* may both outlive the client's confirmation and bring the pair back.     *)

TwoHandlers == \A u, v, w \in Workers : u = v \/ v = w \/ u = w

NoStarts    == \A w \in Workers : ~(At(w, "request_save") /\ handler[w].target = "IN_TRANSIT")
RequestOver == request \in {"DELIVERED", "FAILED", "CANCELLED", "DELETED"} /\ NoStarts
BookingOver == booking.status = "DELETED" \/ (booking.status = "DELIVERED" /\ NoSaves)

Counted ==
  \/ trips = 0
  \/ trips = 1 /\ RequestOver /\ sweep \notin {"save", "count"}
  \/ trips = 1 /\ BookingOver /\ sweep \in {"off", "claim"}

(* Nobody is added to the handlers about to start the request by a step of *)
(* w after which w is not one of them.                                     *)
LEMMA NoStartsKept ==
  ASSUME ClaimInv, NoStarts, NEW w \in Workers, NEW h,
         handler' = [handler EXCEPT ![w] = h],
         ~(h.pc = "request_save" /\ h.target = "IN_TRANSIT")
  PROVE  NoStarts'
<1>1. \A u \in Workers : handler'[u] = IF u = w THEN h ELSE handler[u]
  BY DEF ClaimInv, TypeInv, HandlerOK
<1> QED BY <1>1 DEF NoStarts, At

LEMMA RequestStaysOver ==
  ASSUME ClaimInv, RequestOver, [Next]_vars
  PROVE  RequestOver'
<1>1. NoStarts /\ request \in {"DELIVERED", "FAILED", "CANCELLED", "DELETED"}
  BY DEF RequestOver
<1>2. \A t \in {"IN_TRANSIT", "DELIVERED", "FAILED", "CANCELLED"} :
        ~AssertTransition(request, t)
  BY <1>1, RequestArrows, RequestRows DEF RequestStatus
<1>3. ASSUME NEW w \in Workers, Finish(w) PROVE NoStarts'
  <2>1. ~(Idle.pc = "request_save" /\ Idle.target = "IN_TRANSIT")
    BY DEF Idle
  <2> QED BY <1>1, <1>3, <2>1, NoStartsKept DEF Finish
<1>4. ASSUME NEW w \in Workers, NEW pc, NEW row, NEW target, Begin(w, pc, row, target),
             pc = "request_save" => target # "IN_TRANSIT"
      PROVE  NoStarts'
  <2> DEFINE h == [pc |-> pc, row |-> row, target |-> target]
  <2>1. ~(h.pc = "request_save" /\ h.target = "IN_TRANSIT")
    BY <1>4
  <2>2. handler' = [handler EXCEPT ![w] = h]
    BY <1>4 DEF Begin
  <2> HIDE DEF h
  <2> QED BY <1>1, <2>1, <2>2, NoStartsKept
<1>5. ASSUME UNCHANGED handler PROVE NoStarts'
  BY <1>1, <1>5 DEF NoStarts, At
<1>6. CASE UNCHANGED vars
  BY <1>1, <1>5, <1>6 DEF vars, RequestOver
<1>7. ASSUME NEW w \in Workers, Start(w) PROVE RequestOver'
  <2>1. request' = request
    BY <1>7, StartsHold DEF BeginsWell, OnlyHandler
  <2>2. CASE \E row, target : Load(w, row, target)
    BY <1>1, <1>4, <2>1, <2>2 DEF Load, RequestOver
  <2>3. CASE confirmDelivery(w) \/ cancelRequest(w) \/ deleteRequest(w)
    BY <1>1, <1>4, <2>1, <2>3 DEF confirmDelivery, cancelRequest, deleteRequest, RequestOver
  <2> QED BY <1>7, <2>2, <2>3 DEF Start, start, deliver, fail, cancel
<1>8. ASSUME NEW w \in Workers, Continue(w) PROVE RequestOver'
  <2>1. HeldOK(handler[w])
    BY DEF ClaimInv, AllHeldOK
  <2>2. CASE BookingSave(w)
    <3>1. NoStarts'
      BY <1>3, <1>4, <1>5, <2>2 DEF BookingSave
    <3> QED BY <1>1, <2>2, <3>1 DEF BookingSave, RequestOver
  <2>3. CASE RequestRead(w)
    <3>1. ~AssertTransition(request, handler[w].target)
      BY <1>2, <2>1, <2>3 DEF RequestRead, At, HeldOK
    <3> QED BY <1>1, <1>3, <2>3, <3>1 DEF RequestRead, OnlyHandler, RequestOver
  <2>4. CASE RequestSave(w)
    <3>1. handler[w].target \in {"FAILED", "CANCELLED"}
      BY <1>1, <2>1, <2>4 DEF RequestSave, HeldOK, NoStarts, At
    <3> QED BY <1>3, <2>4, <3>1 DEF RequestSave, RequestOver
  <2>5. CASE ConfirmCommit(w)
    BY <1>1, <1>2, <1>3, <2>5 DEF ConfirmCommit, RequestOver
  <2>6. CASE DeleteCommit(w)
    BY <1>3, <2>6 DEF DeleteCommit, RequestOver
  <2> QED BY <1>8, <2>2, <2>3, <2>4, <2>5, <2>6 DEF Continue
<1>9. ASSUME NEW w \in Workers, StatementFails(w) PROVE RequestOver'
  BY <1>1, <1>3, <1>9 DEF StatementFails, RequestOver
<1>10. CASE kickSweep \/ Sweep \/ SweepFails \/ DayPasses
  BY <1>1, <1>5, <1>10 DEF kickSweep, Sweep, SweepClaim, SweepRequestRead,
     SweepRequestSave, SweepCount, SweepFails, DayPasses, RequestOver
<1>11. CASE Crash
  <2>1. NoStarts'
    BY <1>11 DEF Crash, NoStarts, At, Idle
  <2> QED BY <1>1, <1>11, <2>1 DEF Crash, RequestOver
<1> QED BY <1>6, <1>7, <1>8, <1>9, <1>10, <1>11 DEF Next

LEMMA BookingStaysOver ==
  ASSUME ClaimInv, BookingOver, [Next]_vars
  PROVE  BookingOver'
<1>1. booking \in Booking /\ booking.status \in {"DELETED", "DELIVERED"}
      /\ (booking.status = "DELIVERED" => NoSaves)
  BY DEF BookingOver, ClaimInv, TypeInv, TypeOK
<1>2. ~Claimable
  BY <1>1 DEF Claimable
<1>3. ASSUME booking'.status = booking.status, NoSaves => NoSaves' PROVE BookingOver'
  BY <1>1, <1>3 DEF BookingOver
<1>4. ASSUME UNCHANGED handler PROVE NoSaves => NoSaves'
  BY <1>4 DEF NoSaves, At
<1>5. CASE UNCHANGED vars
  BY <1>3, <1>4, <1>5 DEF vars
<1>6. ASSUME NEW w \in Workers, Start(w) PROVE BookingOver'
  BY <1>1, <1>3, <1>6, StartsHold DEF BeginsWell, OnlyHandler
<1>7. ASSUME NEW w \in Workers, Continue(w) PROVE BookingOver'
  <2>1. NoSaves => NoSaves'
    BY <1>7, WritesHold
  <2>2. CASE BookingSave(w)
    <3>1. booking.status = "DELETED"
      BY <1>1, <2>2 DEF BookingSave, NoSaves
    <3> QED BY <1>3, <2>1, <2>2, <3>1 DEF BookingSave
  <2>3. CASE RequestRead(w) \/ RequestSave(w) \/ ConfirmCommit(w)
    BY <1>2, <1>3, <2>1, <2>3 DEF RequestRead, RequestSave, ConfirmCommit, OnlyHandler
  <2>4. CASE DeleteCommit(w)
    BY <2>4 DEF DeleteCommit, BookingOver
  <2> QED BY <1>7, <2>2, <2>3, <2>4 DEF Continue
<1>8. ASSUME NEW w \in Workers, StatementFails(w) PROVE BookingOver'
  BY <1>3, <1>8, FinishHolds DEF StatementFails
<1>9. CASE kickSweep \/ Sweep \/ SweepFails
  BY <1>2, <1>3, <1>4, <1>9 DEF kickSweep, Sweep, SweepClaim, SweepRequestRead,
     SweepRequestSave, SweepCount, SweepFails
<1>10. CASE DayPasses
  <2>1. booking'.status = booking.status
    BY <1>1, <1>10 DEF DayPasses, Booking
  <2> QED BY <1>3, <1>4, <1>10, <2>1 DEF DayPasses
<1>11. CASE Crash
  BY <1>3, <1>11 DEF Crash, NoSaves, At, Idle
<1> QED BY <1>5, <1>6, <1>7, <1>8, <1>9, <1>10, <1>11 DEF Next

(* Who counts: a confirmation of a booking and a request both on their way,*)
(* or the sweep.                                                           *)
LEMMA WhoCounts ==
  ASSUME [Next]_vars
  PROVE  \/ trips' = trips
         \/ \E w \in Workers : /\ ConfirmCommit(w) /\ trips' = trips + 1
                             /\ Claimable /\ AssertTransition(request, "DELIVERED")
         \/ SweepCount /\ trips' = trips + 1
BY DEF Next, vars, Start, start, deliver, fail, cancel, Load, confirmDelivery, cancelRequest,
       deleteRequest, OnlyHandler, Continue, BookingSave, RequestRead, RequestSave,
       ConfirmCommit, DeleteCommit, StatementFails, kickSweep, Sweep, SweepClaim,
       SweepRequestRead, SweepRequestSave, SweepCount, SweepFails, DayPasses, Crash

(* How the sweep moves.                                                    *)
LEMMA SweepMoves ==
  ASSUME [Next]_vars
  PROVE  /\ sweep' = "save" => sweep = "save" \/ AssertTransition(request, "DELIVERED")
         /\ sweep' = "count" => sweep \in {"save", "count"}
         /\ sweep' \notin {"off", "claim"} =>
              sweep \notin {"off", "claim"} \/ (sweep = "claim" /\ Claimable)
BY DEF Next, vars, Start, start, deliver, fail, cancel, Load, confirmDelivery, cancelRequest,
       deleteRequest, OnlyHandler, Continue, BookingSave, RequestRead, RequestSave,
       ConfirmCommit, DeleteCommit, StatementFails, kickSweep, Sweep, SweepClaim,
       SweepRequestRead, SweepRequestSave, SweepCount, SweepFails, DayPasses, Crash

LEMMA CountedStep ==
  ASSUME TwoHandlers, ClaimInv, Counted, [Next]_vars
  PROVE  Counted'
<1>1. request \in RequestStatus \union {"DELETED"} /\ booking \in Booking
  BY DEF ClaimInv, TypeInv, TypeOK
<1>2. AssertTransition(request, "DELIVERED") => request = "IN_TRANSIT"
  BY <1>1, RequestArrows, RequestRows
<1>3. CASE trips' = trips
  <2>1. CASE trips = 0
    BY <1>3, <2>1 DEF Counted
  <2>2. CASE trips = 1 /\ RequestOver /\ sweep \notin {"save", "count"}
    <3>1. RequestOver'
      BY <2>2, RequestStaysOver
    <3>2. sweep' \notin {"save", "count"}
      BY <1>2, <2>2, SweepMoves DEF RequestOver
    <3> QED BY <1>3, <2>2, <3>1, <3>2 DEF Counted
  <2>3. CASE trips = 1 /\ BookingOver /\ sweep \in {"off", "claim"}
    <3>1. BookingOver'
      BY <2>3, BookingStaysOver
    <3>2. sweep' \in {"off", "claim"}
      BY <2>3, SweepMoves DEF BookingOver, Claimable
    <3> QED BY <1>3, <2>3, <3>1, <3>2 DEF Counted
  <2> QED BY <2>1, <2>2, <2>3 DEF Counted
<1>4. ASSUME NEW w \in Workers, ConfirmCommit(w), trips' = trips + 1, Claimable,
             AssertTransition(request, "DELIVERED")
      PROVE  Counted'
  <2>1. booking.status = "PENDING_CONFIRMATION" /\ request = "IN_TRANSIT"
    BY <1>2, <1>4 DEF Claimable
  <2>2. trips = 0 /\ sweep' \in {"off", "claim"}
    BY <1>4, <2>1 DEF Counted, RequestOver, BookingOver, ConfirmCommit,
       ClaimInv, SweepAlone, ClaimStands, TypeInv, TypeOK
  <2>3. booking'.status = "DELIVERED" /\ request' = "DELIVERED"
    BY <1>1, <1>4 DEF ConfirmCommit, Booking
  <2>4. \A u \in Workers : handler'[u] = IF u = w THEN Idle ELSE handler[u]
    BY <1>4 DEF ConfirmCommit, Finish, ClaimInv, TypeInv, HandlerOK
  <2>5. Idle.pc = "idle"
    BY DEF Idle
  <2>6. CASE \E v \in Workers \ {w} : At(v, "booking_save")
    <3>1. NoStarts'
      BY <2>4, <2>5, <2>6 DEF TwoHandlers, NoStarts, At
    <3> QED BY <1>4, <2>2, <2>3, <3>1 DEF Counted, RequestOver
  <2>7. CASE ~\E v \in Workers \ {w} : At(v, "booking_save")
    <3>1. NoSaves'
      BY <2>4, <2>5, <2>7 DEF NoSaves, At
    <3> QED BY <1>4, <2>2, <2>3, <3>1 DEF Counted, BookingOver
  <2> QED BY <2>6, <2>7
<1>5. CASE SweepCount /\ trips' = trips + 1
  <2>1. sweep = "count" /\ sweep' = "off" /\ booking' = booking /\ handler' = handler
    BY <1>5 DEF SweepCount
  <2>2. trips = 0
    BY <2>1 DEF Counted
  <2>3. BookingOver'
    BY <2>1 DEF ClaimInv, SweepAlone, ClaimStands, BookingOver, NoSaves, At
  <2> QED BY <1>5, <2>1, <2>2, <2>3 DEF Counted
<1> QED BY <1>3, <1>4, <1>5, WhoCounts

(* The driver is credited at most once: with two handlers and the sweep at *)
(* work at the same time, the client's confirmation and the sweep never    *)
(* both count the trip, wherever any of them fails or the process stops.   *)
THEOREM TripsCountedOnceHolds == ASSUME TwoHandlers PROVE Spec => []TripsCountedOnce
<1>1. Init => ClaimInv /\ Counted
  BY ClaimInvInit DEF Init, Counted
<1>2. ClaimInv /\ Counted /\ [Next]_vars => ClaimInv' /\ Counted'
  BY ClaimInvStep, CountedStep
<1>3. ClaimInv /\ Counted => TripsCountedOnce
  BY DEF Counted, TripsCountedOnce
<1> QED BY <1>1, <1>2, <1>3, PTL DEF Spec

-----------------------------------------------------------------------------
(* One handler at a time.  The invariant says what each place in a handler *)
(* and in the sweep may rely on: a handler about to save the booking, or   *)
(* to move the request, finds the other row as its check left it, and the  *)
(* sweep, once it has claimed the booking, is the one to count the trip.   *)

OneHandler == \A u, v \in Workers : u = v

HandlerRelies(h) ==
  /\ h.pc = "booking_save" =>
       /\ Listed(bookingTransitions, booking.status, h.row.status)
       /\ h.row.status \in {"IN_TRANSIT", "PENDING_CONFIRMATION", "FAILED", "CANCELLED"}
       /\ h.row.status = "PENDING_CONFIRMATION" => h.row.proof
       /\ ~h.row.receipt
       /\ h.target = IF h.row.status = "PENDING_CONFIRMATION" THEN "NONE"
                                                              ELSE h.row.status
  /\ h.pc = "request_read" =>
       /\ h.target \in {"IN_TRANSIT", "FAILED", "CANCELLED"}
       /\ booking.status = h.target
  /\ h.pc = "request_save" =>
       /\ Listed(requestTransitions, request, h.target)
       /\ h.target \in {"IN_TRANSIT", "FAILED", "CANCELLED"}
       /\ h.target # "CANCELLED" => booking.status = h.target
  /\ h.pc = "delete_commit" => request = "CANCELLED"

SweepRelies ==
  /\ sweep \in {"read", "save", "count"} =>
       booking.status \in {"DELIVERED", "DELETED"} /\ trips = 0
  /\ sweep = "save" => booking.status = "DELIVERED" /\ request = "IN_TRANSIT"

TripsFollow ==
  trips = 0 \/ (trips = 1 /\ booking.status \in {"DELIVERED", "DELETED"})

RowsAgree ==
  /\ RequestFollowsBooking
  /\ ProofStands
  /\ TripsFollow
  /\ booking.status = "DELETED" => request = "DELETED"

DeliveryInv ==
  /\ TypeInv
  /\ RowsAgree
  /\ SweepRelies
  /\ \A w \in Workers : HandlerRelies(handler[w])

(* An idle handler, or one in confirmDelivery, relies on nothing.          *)
LEMMA FinishRelies ==
  ASSUME OneHandler, TypeInv, NEW w \in Workers, Finish(w)
  PROVE  (\A u \in Workers : HandlerRelies(handler[u]))'
<1>1. \A u \in Workers : handler'[u].pc = "idle"
  BY DEF OneHandler, TypeInv, HandlerOK, Finish, Idle
<1> QED BY <1>1 DEF HandlerRelies

LEMMA BeginRelies ==
  ASSUME OneHandler, TypeInv, NEW w \in Workers, NEW pc, NEW row, NEW target,
         Begin(w, pc, row, target),
         HandlerRelies([pc |-> pc, row |-> row, target |-> target])'
  PROVE  (\A u \in Workers : HandlerRelies(handler[u]))'
<1>1. \A u \in Workers : handler'[u] = [pc |-> pc, row |-> row, target |-> target]
  BY DEF OneHandler, TypeInv, HandlerOK, Begin
<1> QED BY <1>1

LEMMA DeliveryInvInit == Init => DeliveryInv
<1> SUFFICES ASSUME Init PROVE DeliveryInv
  OBVIOUS
<1>1. RowsAgree /\ SweepRelies
  BY DEF Init, RowsAgree, SweepRelies, RequestFollowsBooking, ProofStands,
         TripsFollow, NewBooking
<1>2. \A w \in Workers : handler[w].pc = "idle"
  BY DEF Init, Idle
<1>3. \A w \in Workers : HandlerRelies(handler[w])
  BY <1>2 DEF HandlerRelies
<1> QED BY <1>1, <1>3, TypeInvInit DEF DeliveryInv

(* Loads change no row, and leave the handler what its check found.        *)
LEMMA LoadKeeps ==
  ASSUME OneHandler, DeliveryInv, NEW w \in Workers, Start(w)
  PROVE  (RowsAgree /\ SweepRelies /\ \A u \in Workers : HandlerRelies(handler[u]))'
<1> USE DEF DeliveryInv, OnlyHandler
<1>1. booking \in Booking /\ booking.status \in BookingStatus \union {"DELETED"}
  BY DEF TypeInv, TypeOK, Booking
<1>2. OnlyHandler
  BY DEF Start, start, deliver, fail, cancel, Load, confirmDelivery,
         cancelRequest, deleteRequest
<1>3. (RowsAgree /\ SweepRelies)'
  BY <1>2 DEF RowsAgree, SweepRelies, RequestFollowsBooking, ProofStands, TripsFollow
<1> SUFFICES (\A u \in Workers : HandlerRelies(handler[u]))'
  BY <1>3
<1>4. ASSUME NEW t \in {"IN_TRANSIT", "PENDING_CONFIRMATION", "FAILED", "CANCELLED"},
             NEW row, row.status = t, ~row.receipt,
             t = "PENDING_CONFIRMATION" => row.proof,
             NEW target, target = IF t = "PENDING_CONFIRMATION" THEN "NONE" ELSE t,
             Load(w, row, target)
      PROVE  (\A u \in Workers : HandlerRelies(handler[u]))'
  <2>1. Listed(bookingTransitions, booking.status, t)
    BY <1>1, <1>4, BookingArrows DEF Load
  <2>2. HandlerRelies([pc |-> "booking_save", row |-> row, target |-> target])'
    BY <1>2, <1>4, <2>1 DEF HandlerRelies
  <2> QED BY <1>4, <2>2, BeginRelies DEF Load
<1>5. ASSUME NEW t \in {"IN_TRANSIT", "PENDING_CONFIRMATION", "FAILED", "CANCELLED"},
             AssertTransition(booking.status, t)
      PROVE  ~booking.receipt
  <2>1. Listed(bookingTransitions, booking.status, t)
    BY <1>1, <1>5, BookingArrows
  <2> QED BY <1>1, <2>1 DEF Listed, bookingTransitions, RowsAgree, ProofStands
<1>6. ASSUME NEW t \in {"IN_TRANSIT", "FAILED", "CANCELLED"},
             Load(w, [booking EXCEPT !.status = t], t)
      PROVE  (\A u \in Workers : HandlerRelies(handler[u]))'
  <2>1. [booking EXCEPT !.status = t].status = t
        /\ [booking EXCEPT !.status = t].receipt = booking.receipt
    BY <1>1 DEF Booking
  <2>2. AssertTransition(booking.status, t)
    BY <1>6, <2>1 DEF Load
  <2> HIDE DEF DeliveryInv
  <2> QED BY <1>4, <1>5, <1>6, <2>1, <2>2
<1>7. CASE start(w)
  BY <1>6, <1>7 DEF start
<1>8. CASE fail(w)
  BY <1>6, <1>8 DEF fail
<1>9. CASE cancel(w)
  BY <1>6, <1>9 DEF cancel
<1>10. CASE deliver(w)
  <2> DEFINE row == [booking EXCEPT !.status = "PENDING_CONFIRMATION",
                                    !.proof = TRUE, !.overdue = FALSE]
  <2>1. row.status = "PENDING_CONFIRMATION" /\ row.proof
        /\ row.receipt = booking.receipt
    BY <1>1 DEF Booking
  <2>2. Load(w, row, "NONE")
    BY <1>10 DEF deliver
  <2> HIDE DEF row
  <2>3. ~booking.receipt
    BY <1>5, <2>1, <2>2 DEF Load
  <2> QED BY <1>4, <2>1, <2>2, <2>3
<1>11. CASE confirmDelivery(w)
  BY <1>11, BeginRelies DEF confirmDelivery, HandlerRelies
<1>12. CASE cancelRequest(w)
  <2>1. Listed(requestTransitions, request, "CANCELLED")
    BY <1>12, RequestArrows DEF cancelRequest, TypeInv, TypeOK
  <2>2. HandlerRelies([pc |-> "request_save", row |-> NewBooking,
                       target |-> "CANCELLED"])'
    BY <1>2, <2>1 DEF HandlerRelies
  <2> QED BY <1>12, <2>2, BeginRelies DEF cancelRequest
<1>13. CASE deleteRequest(w)
  <2>1. HandlerRelies([pc |-> "delete_commit", row |-> NewBooking,
                       target |-> "NONE"])'
    BY <1>2, <1>13 DEF HandlerRelies, deleteRequest
  <2> QED BY <1>13, <2>1, BeginRelies DEF deleteRequest
<1> QED BY <1>7, <1>8, <1>9, <1>10, <1>11, <1>12, <1>13 DEF Start

(* The writes of a handler change what its check found and nothing that    *)
(* the sweep relies on.                                                    *)
LEMMA WriteKeeps ==
  ASSUME OneHandler, DeliveryInv, NEW w \in Workers, Continue(w)
  PROVE  (RowsAgree /\ SweepRelies /\ \A u \in Workers : HandlerRelies(handler[u]))'
<1> USE DEF DeliveryInv
<1>1. booking \in Booking /\ booking.status \in BookingStatus \union {"DELETED"}
  BY DEF TypeInv, TypeOK, Booking
<1>2. HandlerRelies(handler[w])
  OBVIOUS
<1>3. CASE BookingSave(w)
  <2> DEFINE h == handler[w]
  <2>1. /\ Listed(bookingTransitions, booking.status, h.row.status)
        /\ h.row.status \in {"IN_TRANSIT", "PENDING_CONFIRMATION", "FAILED", "CANCELLED"}
        /\ h.row.status = "PENDING_CONFIRMATION" => h.row.proof
        /\ ~h.row.receipt
        /\ h.target = IF h.row.status = "PENDING_CONFIRMATION" THEN "NONE"
                                                              ELSE h.row.status
    BY <1>2, <1>3 DEF BookingSave, At, HandlerRelies
  <2>2. booking.status \in {"CONFIRMED", "IN_TRANSIT"}
        /\ (booking.status = "CONFIRMED" => h.row.status # "PENDING_CONFIRMATION")
        /\ (booking.status = "IN_TRANSIT" =>
               h.row.status \in {"PENDING_CONFIRMATION", "FAILED"})
    BY <2>1, BookingRows
  <2>3. /\ booking' = h.row
        /\ UNCHANGED <<request, trips, sweep>>
        /\ IF h.target = "NONE" THEN Finish(w)
           ELSE Begin(w, "request_read", NewBooking, h.target)
    BY <1>3, <2>2 DEF BookingSave
  <2>4. trips = 0 /\ sweep \in {"off", "claim"}
    BY <2>2 DEF RowsAgree, TripsFollow, SweepRelies, TypeInv, TypeOK
  <2>5. (RowsAgree /\ SweepRelies)'
    BY <2>1, <2>2, <2>3, <2>4 DEF RowsAgree, SweepRelies, RequestFollowsBooking,
       ProofStands, TripsFollow
  <2>6. CASE h.target = "NONE"
    BY <2>3, <2>5, <2>6, FinishRelies
  <2>7. CASE h.target # "NONE"
    <3>1. h.target \in {"IN_TRANSIT", "FAILED", "CANCELLED"}
          /\ booking'.status = h.target
      BY <2>1, <2>3, <2>7
    <3>2. PICK t : t = h.target
      OBVIOUS
    <3>3. HandlerRelies([pc |-> "request_read", row |-> NewBooking, target |-> t])'
      BY <3>1, <3>2 DEF HandlerRelies
    <3> QED BY <2>3, <2>5, <2>7, <3>2, <3>3, BeginRelies
  <2> QED BY <2>6, <2>7
<1>4. CASE RequestRead(w)
  <2> PICK t : t = handler[w].target
    OBVIOUS
  <2>1. t \in {"IN_TRANSIT", "FAILED", "CANCELLED"} /\ booking.status = t
    BY <1>2, <1>4 DEF RequestRead, At, HandlerRelies
  <2>2. OnlyHandler
    BY <1>4 DEF RequestRead
  <2>3. (RowsAgree /\ SweepRelies)'
    BY <2>2 DEF OnlyHandler, RowsAgree, SweepRelies, RequestFollowsBooking,
       ProofStands, TripsFollow
  <2>4. CASE AssertTransition(request, t)
    <3>1. Listed(requestTransitions, request, t)
      BY <2>1, <2>4, RequestArrows DEF TypeInv, TypeOK
    <3>2. HandlerRelies([pc |-> "request_save", row |-> NewBooking, target |-> t])'
      BY <2>1, <2>2, <3>1 DEF HandlerRelies, OnlyHandler
    <3> QED BY <1>4, <2>3, <2>4, <3>2, BeginRelies DEF RequestRead
  <2>5. CASE ~AssertTransition(request, t)
    BY <1>4, <2>3, <2>5, FinishRelies DEF RequestRead
  <2> QED BY <2>4, <2>5
<1>5. CASE RequestSave(w)
  <2> DEFINE t == handler[w].target
  <2>1. /\ Listed(requestTransitions, request, t)
        /\ t \in {"IN_TRANSIT", "FAILED", "CANCELLED"}
        /\ t # "CANCELLED" => booking.status = t
    BY <1>2, <1>5 DEF RequestSave, At, HandlerRelies
  <2>2. request' = t /\ UNCHANGED <<booking, trips, sweep>> /\ Finish(w)
    BY <1>5 DEF RequestSave
  <2>3. sweep # "save"
    BY <2>1, RequestRows DEF SweepRelies
  <2>4. booking.status # "DELETED"
    BY <2>1, RequestRows DEF RowsAgree
  <2>5. (RowsAgree /\ SweepRelies)'
    BY <2>1, <2>2, <2>3, <2>4 DEF RowsAgree, SweepRelies, RequestFollowsBooking,
       ProofStands, TripsFollow
  <2> QED BY <2>2, <2>5, FinishRelies
<1>6. CASE ConfirmCommit(w)
  <2>1. Finish(w) /\ sweep' = sweep
    BY <1>6 DEF ConfirmCommit
  <2>2. CASE UNCHANGED <<booking, request, trips>>
    <3>1. (RowsAgree /\ SweepRelies)'
      BY <2>1, <2>2 DEF RowsAgree, SweepRelies, RequestFollowsBooking,
         ProofStands, TripsFollow
    <3> QED BY <2>1, <3>1, FinishRelies
  <2>3. CASE Claimable /\ AssertTransition(request, "DELIVERED")
    <3>1. /\ booking'.status = "DELIVERED" /\ booking'.proof = booking.proof
          /\ request' = "DELIVERED" /\ trips' = trips + 1
      BY <1>1, <1>6, <2>3 DEF ConfirmCommit, Booking
    <3>2. trips = 0 /\ booking.proof /\ sweep \in {"off", "claim"}
      BY <2>3 DEF Claimable, RowsAgree, TripsFollow, ProofStands, SweepRelies,
         TypeInv, TypeOK
    <3>3. (RowsAgree /\ SweepRelies)'
      BY <2>1, <3>1, <3>2 DEF RowsAgree, SweepRelies, RequestFollowsBooking,
         ProofStands, TripsFollow
    <3> QED BY <2>1, <3>3, FinishRelies
  <2> QED BY <1>6, <2>2, <2>3 DEF ConfirmCommit
<1>7. CASE DeleteCommit(w)
  <2>1. request = "CANCELLED"
    BY <1>2, <1>7 DEF DeleteCommit, At, HandlerRelies
  <2>2. /\ booking'.status = "DELETED" /\ ~booking'.receipt
        /\ request' = "DELETED" /\ UNCHANGED <<trips, sweep>> /\ Finish(w)
    BY <1>7 DEF DeleteCommit, NewBooking
  <2>3. (RowsAgree /\ SweepRelies)'
    BY <2>1, <2>2 DEF RowsAgree, SweepRelies, RequestFollowsBooking,
       ProofStands, TripsFollow
  <2> QED BY <2>2, <2>3, FinishRelies
<1> QED BY <1>3, <1>4, <1>5, <1>6, <1>7 DEF Continue

(* The sweep moves a booking that awaits confirmation, which no handler    *)
(* that is about to write relies on.                                       *)
LEMMA SweepKeeps ==
  ASSUME DeliveryInv, Sweep
  PROVE  (RowsAgree /\ SweepRelies /\ \A u \in Workers : HandlerRelies(handler[u]))'
<1> USE DEF DeliveryInv
<1>1. booking \in Booking
  BY DEF TypeInv, TypeOK
<1>2. CASE SweepClaim /\ ~Claimable
  BY <1>2 DEF SweepClaim, RowsAgree, SweepRelies, RequestFollowsBooking,
     ProofStands, TripsFollow, HandlerRelies
<1>3. CASE SweepClaim /\ Claimable
  <2>1. /\ booking'.status = "DELIVERED" /\ booking'.proof = booking.proof
        /\ booking'.receipt = booking.receipt /\ sweep' = "read"
        /\ UNCHANGED <<request, trips, handler>>
    BY <1>1, <1>3 DEF SweepClaim, Booking
  <2>2. booking.status = "PENDING_CONFIRMATION" /\ trips = 0 /\ booking.proof
    BY <1>3 DEF Claimable, RowsAgree, TripsFollow, ProofStands
  <2>3. (RowsAgree /\ SweepRelies)'
    BY <2>1, <2>2 DEF RowsAgree, SweepRelies, RequestFollowsBooking,
       ProofStands, TripsFollow
  <2>4. \A u \in Workers :
          /\ handler[u].pc # "request_read"
          /\ handler[u].pc = "booking_save" =>
               ~Listed(bookingTransitions, booking.status, handler[u].row.status)
                 \/ handler[u].row.status = "DELIVERED"
          /\ handler[u].pc = "request_save" => handler[u].target = "CANCELLED"
    BY <2>2, BookingRows DEF HandlerRelies
  <2>5. (\A u \in Workers : HandlerRelies(handler[u]))'
    BY <2>1, <2>4 DEF HandlerRelies
  <2> QED BY <2>3, <2>5
<1>4. CASE SweepRequestRead
  <2>1. /\ sweep = "read" /\ UNCHANGED <<booking, request, trips, handler>>
        /\ sweep' = IF AssertTransition(request, "DELIVERED") THEN "save" ELSE "off"
    BY <1>4 DEF SweepRequestRead
  <2>2. AssertTransition(request, "DELIVERED") => request = "IN_TRANSIT"
    BY RequestArrows, RequestRows DEF TypeInv, TypeOK
  <2>3. (RowsAgree /\ SweepRelies)'
    BY <2>1, <2>2 DEF RowsAgree, SweepRelies, RequestFollowsBooking,
       ProofStands, TripsFollow
  <2> QED BY <2>1, <2>3 DEF HandlerRelies
<1>5. CASE SweepRequestSave
  <2>1. /\ booking.status = "DELIVERED" /\ request = "IN_TRANSIT" /\ trips = 0
        /\ request' = "DELIVERED" /\ sweep' = "count"
        /\ UNCHANGED <<booking, trips, handler>>
    BY <1>5 DEF SweepRequestSave, SweepRelies
  <2>2. (RowsAgree /\ SweepRelies)'
    BY <2>1 DEF RowsAgree, SweepRelies, RequestFollowsBooking, ProofStands, TripsFollow
  <2>3. \A u \in Workers : handler[u].pc \notin {"request_save", "delete_commit"}
    BY <2>1, RequestRows DEF HandlerRelies
  <2> QED BY <2>1, <2>2, <2>3 DEF HandlerRelies
<1>6. CASE SweepCount
  <2>1. /\ sweep = "count" /\ trips' = trips + 1 /\ sweep' = "off"
        /\ UNCHANGED <<booking, request, handler>>
    BY <1>6 DEF SweepCount
  <2>2. (RowsAgree /\ SweepRelies)'
    BY <2>1 DEF RowsAgree, SweepRelies, RequestFollowsBooking, ProofStands, TripsFollow
  <2> QED BY <2>1, <2>2 DEF HandlerRelies
<1> QED BY <1>2, <1>3, <1>4, <1>5, <1>6 DEF Sweep

LEMMA DeliveryInvStep ==
  ASSUME OneHandler PROVE DeliveryInv /\ [Next]_vars => DeliveryInv'
<1> SUFFICES ASSUME DeliveryInv, [Next]_vars PROVE DeliveryInv'
  OBVIOUS
<1> DEFINE Kept == RowsAgree /\ SweepRelies /\ \A u \in Workers : HandlerRelies(handler[u])
<1>1. TypeInv'
  BY TypeInvStep DEF DeliveryInv
<1> SUFFICES Kept'
  BY <1>1 DEF DeliveryInv
<1>2. CASE UNCHANGED vars
  BY <1>2 DEF vars, DeliveryInv, RowsAgree, SweepRelies, RequestFollowsBooking,
     ProofStands, TripsFollow, HandlerRelies
<1>3. ASSUME NEW w \in Workers, Start(w) PROVE Kept'
  BY <1>3, LoadKeeps
<1>4. ASSUME NEW w \in Workers, Continue(w) PROVE Kept'
  BY <1>4, WriteKeeps
<1>5. ASSUME NEW w \in Workers, StatementFails(w) PROVE Kept'
  <2>1. (RowsAgree /\ SweepRelies)'
    BY <1>5 DEF StatementFails, DeliveryInv, RowsAgree, SweepRelies,
       RequestFollowsBooking, ProofStands, TripsFollow
  <2> QED BY <1>5, <2>1, FinishRelies DEF StatementFails, DeliveryInv
<1>6. CASE kickSweep \/ SweepFails
  BY <1>6 DEF kickSweep, SweepFails, DeliveryInv, RowsAgree, SweepRelies,
     RequestFollowsBooking, ProofStands, TripsFollow, HandlerRelies
<1>7. CASE Sweep
  BY <1>7, SweepKeeps
<1>8. CASE DayPasses
  <2>1. /\ booking'.status = booking.status /\ booking'.proof = booking.proof
        /\ booking'.receipt = booking.receipt
        /\ UNCHANGED <<request, trips, handler, sweep>>
    BY <1>8 DEF DayPasses, DeliveryInv, TypeInv, TypeOK, Booking
  <2> QED BY <2>1 DEF DeliveryInv, RowsAgree, SweepRelies, RequestFollowsBooking,
          ProofStands, TripsFollow, HandlerRelies
<1>9. CASE Crash
  <2>1. UNCHANGED <<booking, request, trips>> /\ sweep' = "off"
        /\ handler' = [w \in Workers |-> Idle]
    BY <1>9 DEF Crash
  <2>2. (RowsAgree /\ SweepRelies)'
    BY <2>1 DEF DeliveryInv, RowsAgree, SweepRelies, RequestFollowsBooking,
       ProofStands, TripsFollow
  <2>3. \A u \in Workers : handler'[u].pc = "idle"
    BY <2>1 DEF Idle
  <2> QED BY <2>2, <2>3 DEF HandlerRelies
<1> QED BY <1>2, <1>3, <1>4, <1>5, <1>6, <1>7, <1>8, <1>9 DEF Next

LEMMA DeliveryInvHolds == ASSUME OneHandler PROVE Spec => []DeliveryInv
BY DeliveryInvInit, DeliveryInvStep, PTL DEF Spec

-----------------------------------------------------------------------------
(* A request is never ahead of its booking, whichever statement of a       *)
(* handler or of the sweep is the last one that got through.               *)
THEOREM RequestFollowsBookingHolds ==
  ASSUME OneHandler PROVE Spec => []RequestFollowsBooking
<1>1. DeliveryInv => RequestFollowsBooking
  BY DEF DeliveryInv, RowsAgree
<1> QED BY <1>1, DeliveryInvHolds, PTL

BookingMoves == booking'.status \in {booking.status, "DELETED"}
                  \/ Listed(bookingTransitions, booking.status, booking'.status)
RequestMoves == request' \in {request, "DELETED"}
                  \/ Listed(requestTransitions, request, request')

LEMMA StepsFollowTables ==
  ASSUME DeliveryInv, [Next]_vars PROVE BookingMoves /\ RequestMoves
<1> USE DEF DeliveryInv, BookingMoves, RequestMoves
<1>1. booking \in Booking /\ request \in RequestStatus \union {"DELETED"}
  BY DEF TypeInv, TypeOK
<1>2. CASE UNCHANGED vars
  BY <1>2 DEF vars
<1>3. ASSUME NEW w \in Workers, Start(w) PROVE BookingMoves /\ RequestMoves
  BY <1>3 DEF Start, start, deliver, fail, cancel, Load, confirmDelivery,
     cancelRequest, deleteRequest, OnlyHandler
<1>4. ASSUME NEW w \in Workers, Continue(w) PROVE BookingMoves /\ RequestMoves
  <2>1. HandlerRelies(handler[w])
    OBVIOUS
  <2>2. CASE BookingSave(w)
    BY <2>1, <2>2 DEF BookingSave, At, HandlerRelies
  <2>3. CASE RequestRead(w)
    BY <2>3 DEF RequestRead, OnlyHandler
  <2>4. CASE RequestSave(w)
    BY <2>1, <2>4 DEF RequestSave, At, HandlerRelies
  <2>5. CASE ConfirmCommit(w)
    <3>1. CASE Claimable /\ AssertTransition(request, "DELIVERED")
      <4>1. booking'.status = "DELIVERED" /\ request' = "DELIVERED"
        BY <1>1, <2>5, <3>1 DEF ConfirmCommit, Booking
      <4>2. Listed(bookingTransitions, booking.status, "DELIVERED")
        BY <3>1, BookingRows DEF Claimable
      <4>3. Listed(requestTransitions, request, "DELIVERED")
        BY <1>1, <3>1, RequestArrows
      <4> QED BY <4>1, <4>2, <4>3
    <3>2. CASE UNCHANGED <<booking, request, trips>>
      BY <3>2
    <3> QED BY <2>5, <3>1, <3>2 DEF ConfirmCommit
  <2>6. CASE DeleteCommit(w)
    BY <2>6 DEF DeleteCommit, NewBooking
  <2> QED BY <1>4, <2>2, <2>3, <2>4, <2>5, <2>6 DEF Continue
<1>5. CASE Sweep
  <2>1. CASE SweepClaim
    <3>1. booking' = booking \/ (Claimable /\ booking'.status = "DELIVERED")
      BY <1>1, <2>1 DEF SweepClaim, Booking
    <3> QED BY <2>1, <3>1, BookingRows DEF SweepClaim, Claimable
  <2>2. CASE SweepRequestSave
    BY <2>2, RequestRows DEF SweepRequestSave, SweepRelies
  <2>3. CASE SweepRequestRead \/ SweepCount
    BY <2>3 DEF SweepRequestRead, SweepCount
  <2> QED BY <1>5, <2>1, <2>2, <2>3 DEF Sweep
<1>6. CASE DayPasses
  BY <1>1, <1>6 DEF DayPasses, Booking
<1>7. CASE kickSweep \/ SweepFails \/ Crash
  BY <1>7 DEF kickSweep, SweepFails, Crash
<1>8. ASSUME NEW w \in Workers, StatementFails(w) PROVE BookingMoves /\ RequestMoves
  BY <1>8 DEF StatementFails
<1> QED BY <1>2, <1>3, <1>4, <1>5, <1>6, <1>7, <1>8 DEF Next

(* Every status written is one arrow away from the status that is there at *)
(* the time of the write, although the check was several statements ago.   *)
THEOREM StatusesFollowTablesHolds == ASSUME OneHandler PROVE Spec => StatusesFollowTables
<1>1. DeliveryInv /\ [Next]_vars => BookingMoves /\ RequestMoves
  BY StepsFollowTables
<1>2. BookingMoves /\ RequestMoves =>
        /\ booking'.status \in {booking.status, "DELETED"}
             \/ Listed(bookingTransitions, booking.status, booking'.status)
        /\ request' \in {request, "DELETED"}
             \/ Listed(requestTransitions, request, request')
  BY DEF BookingMoves, RequestMoves
<1> QED BY <1>1, <1>2, DeliveryInvHolds, PTL DEF Spec, StatusesFollowTables
-----------------------------------------------------------------------------
(* The trip count.  A request that is DELIVERED stays so, no handler being *)
(* able to move or to delete it; the trip is counted in the statement that *)
(* delivers it or in the sweep's next one, which only a failure prevents.  *)

Counting ==
  /\ trips = 1 \/ sweep = "count" => request = "DELIVERED"
  /\ faults = 0 /\ request = "DELIVERED" /\ trips = 0 => sweep = "count"

LEMMA CountingWrites ==
  ASSUME DeliveryInv, Counting, NEW w \in Workers, Continue(w)
  PROVE  Counting'
<1> USE DEF DeliveryInv, Counting
<1>1. HandlerRelies(handler[w]) /\ trips \in {0, 1}
  BY DEF RowsAgree, TripsFollow
<1>2. CASE BookingSave(w) \/ RequestRead(w)
  BY <1>2 DEF BookingSave, RequestRead, OnlyHandler
<1>3. CASE RequestSave(w)
  <2>1. request # "DELIVERED" /\ request' # "DELIVERED"
    BY <1>1, <1>3, RequestRows DEF RequestSave, At, HandlerRelies
  <2> QED BY <1>3, <2>1 DEF RequestSave
<1>4. CASE ConfirmCommit(w)
  <2>1. CASE UNCHANGED <<booking, request, trips>>
    BY <1>4, <2>1 DEF ConfirmCommit
  <2>2. CASE request' = "DELIVERED" /\ trips' = trips + 1
    BY <1>1, <2>2
  <2> QED BY <1>4, <2>1, <2>2 DEF ConfirmCommit
<1>5. CASE DeleteCommit(w)
  <2>1. request # "DELIVERED"
    BY <1>1, <1>5 DEF DeleteCommit, At, HandlerRelies
  <2> QED BY <1>5, <2>1 DEF DeleteCommit
<1> QED BY <1>2, <1>3, <1>4, <1>5 DEF Continue

LEMMA CountingStep ==
  ASSUME DeliveryInv, Counting, [Next]_vars PROVE Counting'
<1> USE DEF DeliveryInv, Counting
<1>1. trips \in {0, 1} /\ faults \in Nat
  BY BoundAssumption DEF RowsAgree, TripsFollow, TypeInv, TypeOK
<1>2. CASE UNCHANGED vars
  BY <1>2 DEF vars
<1>3. ASSUME NEW w \in Workers, Start(w) PROVE Counting'
  BY <1>3 DEF Start, start, deliver, fail, cancel, Load, confirmDelivery,
     cancelRequest, deleteRequest, OnlyHandler
<1>4. ASSUME NEW w \in Workers, Continue(w) PROVE Counting'
  BY <1>4, CountingWrites
<1>5. CASE \/ SweepFails \/ Crash
           \/ \E w \in Workers : StatementFails(w)
  <2>1. faults' # 0 /\ UNCHANGED <<request, trips>> /\ sweep' \in {sweep, "off"}
    BY <1>1, <1>5 DEF SweepFails, Crash, StatementFails, Fault
  <2> QED BY <2>1
<1>6. CASE kickSweep \/ DayPasses \/ SweepClaim \/ SweepRequestRead
  BY <1>6 DEF kickSweep, DayPasses, SweepClaim, SweepRequestRead
<1>7. CASE SweepRequestSave
  BY <1>7 DEF SweepRequestSave
<1>8. CASE SweepCount
  <2>1. trips = 0
    BY <1>8 DEF SweepCount, SweepRelies
  <2> QED BY <1>8, <2>1 DEF SweepCount
<1> QED BY <1>2, <1>3, <1>4, <1>5, <1>6, <1>7, <1>8 DEF Next, Sweep

(* Between handlers and without a failure, a delivered request and booking *)
(* and a trip counted for the driver come together or not at all, whether  *)
(* the client confirmed or the sweep did.                                  *)
THEOREM DeliveredIsCountedHolds ==
  ASSUME OneHandler PROVE Spec => []DeliveredIsCounted
<1>1. Init => Counting
  BY DEF Init, Counting
<1>2. DeliveryInv /\ Counting /\ [Next]_vars => Counting'
  BY CountingStep
<1>3. DeliveryInv /\ Counting => DeliveredIsCounted
  BY DEF DeliveryInv, Counting, RowsAgree, TripsFollow, RequestFollowsBooking,
     DeliveredIsCounted, Quiet
<1> QED BY <1>1, <1>2, <1>3, DeliveryInvHolds, PTL DEF Spec
=============================================================================
