------------------------------ MODULE Bidding -------------------------------
(***************************************************************************)
(* The negotiation over one transport request: the handlers of             *)
(* BidsService, the cancel and delete handlers of RequestsService, and the *)
(* 15-day inactivity sweep, over the rows they share.                      *)
(*                                                                         *)
(* A handler is a sequence of awaited database statements; between two of  *)
(* them the event loop runs any other handler.  Each statement is a step,  *)
(* and what the handler read earlier stays in its snapshot.  A             *)
(* dataSource.transaction is its reads, which take no lock, and one commit *)
(* step for its writes, whose row locks are held to the end.               *)
(*                                                                         *)
(* A definition named Mut... is a defective variant of the one after it;   *)
(* no action uses it.  It is what the property it breaks is tested with.   *)
(***************************************************************************)
EXTENDS Naturals, FiniteSets, StateMachine

CONSTANTS
  Drivers,      \* approved drivers
  BidIds,       \* primary keys the bids table can use (bounds the bids made)
  Workers,      \* requests the HTTP server handles at the same time
  Prices,       \* prices in dinars
  Null,         \* SQL NULL
  MaxIdles,     \* bound: gaps of 15 days without any handler running
  MaxFaults,    \* bound: failed statements and process crashes
  MaxBookings   \* bound: bookings made from one bid

ASSUME NullAssumption == Null \notin Prices \union Drivers \union BidIds
ASSUME BoundAssumption == /\ MaxIdles \in Nat
                          /\ MaxFaults \in Nat
                          /\ MaxBookings \in Nat \ {0}

VARIABLES
  request,   \* the transport_requests row
  bids,      \* the bids table
  bookings,  \* how many rows of the bookings table refer to each bid
  handler,   \* what each HTTP handler holds between two statements
  sweep,     \* the inactivity sweep: "off" is sweepInFlight = false
  idles,     \* 15-day gaps so far
  faults     \* failures so far

vars == <<request, bids, bookings, handler, sweep, idles, faults>>

-----------------------------------------------------------------------------
(* Rows.                                                                   *)

Live   == {"PENDING", "COUNTERED_BY_CLIENT", "COUNTERED_BY_DRIVER"}
Active == Live \union {"ACCEPTED"}

(* "NONE" is a key not used yet, "DELETED" a row that was deleted.         *)
Absent == {"NONE", "DELETED"}

Request == [status : RequestStatus \union {"DELETED"}, stale : BOOLEAN]

Bid == [driver  : Drivers \union {Null},
        status  : BidStatus \union Absent,
        price   : Prices \union {Null},
        counter : Prices \union {Null},
        final   : Prices \union {Null},
        agreed  : Prices \union {Null}]

NoBid == [driver |-> Null, status |-> "NONE", price |-> Null,
          counter |-> Null, final |-> Null, agreed |-> Null]

Rows(table)  == {b \in BidIds : table[b].status \notin Absent}
LiveBids     == {b \in BidIds : bids[b].status \in Live}
Accepted     == {b \in BidIds : bids[b].status = "ACCEPTED"}
UnusedIds    == {b \in BidIds : bids[b].status = "NONE"}

(* The partial unique index of the bids table.                             *)
UniqueActive(table) ==
  \A b, c \in BidIds :
    /\ table[b].status \in Active
    /\ table[c].status \in Active
    /\ table[b].driver = table[c].driver
    => b = c

-----------------------------------------------------------------------------
(* What a handler holds: where it is, the bid it is about, the row it read *)
(* (with the columns it is about to write already set), the request as it  *)
(* read it, the bids it loaded with the request, and its count of live     *)
(* bids being zero.                                                        *)

Pcs == {"idle", "create_check", "create_insert", "create_status",
        "accept_read", "accept_commit", "settle_save", "settle_count",
        "settle_status", "counter_save", "touch", "cancel_save",
        "delete_commit"}

Handler == [pc : Pcs, bid : BidIds \union {Null}, row : Bid,
            req : Request, seen : SUBSET BidIds, none : BOOLEAN]

Idle == [pc |-> "idle", bid |-> Null, row |-> NoBid,
         req |-> [status |-> "OPEN", stale |-> FALSE],
         seen |-> {}, none |-> FALSE]

At(w, pc)     == handler[w].pc = pc
Goto(w, pc)   == handler' = [handler EXCEPT ![w].pc = pc]
Finish(w)     == handler' = [handler EXCEPT ![w] = Idle]
Holds(pc, b, row) == [Idle EXCEPT !.pc = pc, !.bid = b, !.row = row]
Begin(w, held)    == handler' = [handler EXCEPT ![w] = held]

(* The row is written and no longer needed, the request as read still is.  *)
Proceed(w, pc) == Begin(w, [Idle EXCEPT !.pc = pc, !.req = handler[w].req])

Exists == request.status # "DELETED"

(* UPDATE transport_requests ... WHERE id = ...: no row, no effect.        *)
SetRequest(status) ==
  request' = IF Exists THEN [status |-> status, stale |-> FALSE] ELSE request
touchRequestActivity ==
  request' = IF Exists THEN [request EXCEPT !.stale = FALSE] ELSE request

(* repository.save of a bid: every column that differs from the row is     *)
(* written, so the row becomes the handler's copy.  The foreign key and    *)
(* the unique index can refuse it.                                         *)
CanSave(b, row) == Exists /\ UniqueActive([bids EXCEPT ![b] = row])

OnlyHandler == UNCHANGED <<request, bids, bookings, sweep, idles, faults>>
Env         == UNCHANGED <<sweep, idles, faults>>

-----------------------------------------------------------------------------
(* create: a driver bids on the request.                                   *)

Creating == {w \in Workers : handler[w].pc \in {"create_check", "create_insert"}}

CreateLoad(w, d, p) ==
  /\ At(w, "idle")
  /\ request.status \in {"OPEN", "BIDDING"}
  /\ Cardinality(UnusedIds) > Cardinality(Creating)     \* bound of BidIds
  /\ LET row == [NoBid EXCEPT !.driver = d, !.status = "PENDING", !.price = p]
     IN Begin(w, [Holds("create_check", Null, row)
                  EXCEPT !.req.status = request.status])
  /\ OnlyHandler

CreateCheck(w) ==
  /\ At(w, "create_check")
  /\ IF \E b \in BidIds : /\ bids[b].status \in Active
                          /\ bids[b].driver = handler[w].row.driver
     THEN Finish(w)
     ELSE Goto(w, "create_insert")
  /\ OnlyHandler

CreateInsert(w) ==
  /\ At(w, "create_insert")
  /\ \E b \in UnusedIds :
       IF CanSave(b, handler[w].row)
       THEN /\ bids' = [bids EXCEPT ![b] = handler[w].row]
            /\ Proceed(w, "create_status")
       ELSE Finish(w) /\ UNCHANGED bids
  /\ UNCHANGED <<request, bookings>> /\ Env

(* The status decides on the request read in the first step, and the       *)
(* update has no condition on the row it finds.                            *)
CreateStatus(w) ==
  /\ At(w, "create_status")
  /\ IF handler[w].req.status = "OPEN"
     THEN SetRequest("BIDDING")
     ELSE touchRequestActivity
  /\ Finish(w)
  /\ UNCHANGED <<bids, bookings>> /\ Env

-----------------------------------------------------------------------------
(* acceptWithPrice.  The driver accepts a client's counter, the client     *)
(* accepts any other live offer.  The price is the one a first, separate   *)
(* read found, or the bid's own; the status held tells who accepts.        *)

AcceptableBy(actor) ==
  IF actor = "client" THEN {"PENDING", "COUNTERED_BY_DRIVER"}
                      ELSE {"COUNTERED_BY_CLIENT"}

MutAcceptSettled(w, b, actor, override) ==
  IF request.status = "BIDDING"
  THEN LET price == IF override = Null THEN bids[b].price ELSE override
       IN Begin(w, Holds("accept_commit", b,
                         [NoBid EXCEPT !.status = bids[b].status, !.agreed = price]))
  ELSE Finish(w)

acceptWithPrice(w, b, actor, override) ==
  IF /\ request.status = "BIDDING"
     /\ bids[b].status \in AcceptableBy(actor)
  THEN LET price == IF override = Null THEN bids[b].price ELSE override
       IN Begin(w, Holds("accept_commit", b,
                         [NoBid EXCEPT !.status = bids[b].status, !.agreed = price]))
  ELSE Finish(w)

accept(w, b) ==
  /\ At(w, "idle")
  /\ bids[b].status \notin Absent
  /\ acceptWithPrice(w, b, "client", Null)
  /\ OnlyHandler

driverAcceptCounter(w, b) ==
  /\ At(w, "idle")
  /\ bids[b].status = "COUNTERED_BY_CLIENT"
  /\ bids[b].counter # Null
  /\ Begin(w, Holds("accept_read", b,
                    [NoBid EXCEPT !.status = bids[b].status, !.agreed = bids[b].counter]))
  /\ OnlyHandler

clientAcceptDriverFinal(w, b) ==
  /\ At(w, "idle")
  /\ bids[b].status = "COUNTERED_BY_DRIVER"
  /\ bids[b].final # Null
  /\ Begin(w, Holds("accept_read", b,
                    [NoBid EXCEPT !.status = bids[b].status, !.agreed = bids[b].final]))
  /\ OnlyHandler

AcceptRead(w) ==
  /\ At(w, "accept_read")
  /\ LET h == handler[w] IN
       acceptWithPrice(w, h.bid,
         IF h.row.status = "COUNTERED_BY_CLIENT" THEN "driver" ELSE "client",
         h.row.agreed)
  /\ OnlyHandler

(* The transaction's writes: the bid, the other live bids, the booking and *)
(* the request, together or not at all.  The accepted row is written       *)
(* whatever it holds by now; rejected are those live when it is.           *)
MutWonUnpriced(b, price) == [bids EXCEPT ![b].status = "ACCEPTED"]
Won(b, price) == [bids EXCEPT ![b].status = "ACCEPTED", ![b].agreed = price]

MutOnlyPendingRejected(b, table) ==
  [c \in BidIds |-> IF c # b /\ table[c].status = "PENDING"
                    THEN [table[c] EXCEPT !.status = "REJECTED"]
                    ELSE table[c]]

OthersRejected(b, table) ==
  [c \in BidIds |-> IF c # b /\ table[c].status \in Live
                    THEN [table[c] EXCEPT !.status = "REJECTED"]
                    ELSE table[c]]

AcceptCommit(w) ==
  /\ At(w, "accept_commit")
  /\ LET b   == handler[w].bid
         won == Won(b, handler[w].row.agreed)
     IN IF b \in Rows(bids) /\ UniqueActive(won)
        THEN /\ bookings[b] < MaxBookings               \* bound
             /\ bids' = OthersRejected(b, won)
             /\ bookings' = [bookings EXCEPT ![b] = @ + 1]
             /\ request' = [request EXCEPT !.status = "BOOKED"]
        ELSE UNCHANGED <<bids, bookings, request>>
  /\ Finish(w)
  /\ Env

-----------------------------------------------------------------------------
(* reject (by the client) and withdraw (by the driver) differ in the       *)
(* status they write; both put the request back to OPEN when they find no  *)
(* live bid left and had read the request as BIDDING.                      *)

MutSettleAny(w, b, status) ==
  /\ At(w, "idle")
  /\ bids[b].status \in Active
  /\ LET row == [bids[b] EXCEPT !.status = status]
     IN Begin(w, [Holds("settle_save", b, row)
                  EXCEPT !.req.status = request.status])
  /\ OnlyHandler

SettleLoad(w, b, status) ==
  /\ At(w, "idle")
  /\ bids[b].status \in Live
  /\ LET row == [bids[b] EXCEPT !.status = status]
     IN Begin(w, [Holds("settle_save", b, row)
                  EXCEPT !.req.status = request.status])
  /\ OnlyHandler

MutDecline(w, b) == SettleLoad(w, b, "DECLINED")
reject(w, b)   == SettleLoad(w, b, "REJECTED")
withdraw(w, b) == SettleLoad(w, b, "WITHDRAWN")

SaveThen(w, from, to) ==
  /\ At(w, from)
  /\ LET h == handler[w] IN
       IF CanSave(h.bid, h.row)
       THEN bids' = [bids EXCEPT ![h.bid] = h.row] /\ Proceed(w, to)
       ELSE Finish(w) /\ UNCHANGED bids
  /\ UNCHANGED <<request, bookings>> /\ Env

SettleSave(w) == SaveThen(w, "settle_save", "settle_count")

MutCountPending(w) ==
  /\ At(w, "settle_count")
  /\ handler' = [handler EXCEPT ![w].pc = "settle_status",
       ![w].none = \A b \in BidIds : bids[b].status # "PENDING"]
  /\ OnlyHandler

SettleCount(w) ==
  /\ At(w, "settle_count")
  /\ handler' = [handler EXCEPT ![w].pc = "settle_status",
                                ![w].none = (LiveBids = {})]
  /\ OnlyHandler

SettleStatus(w) ==
  /\ At(w, "settle_status")
  /\ IF handler[w].none /\ handler[w].req.status = "BIDDING"
     THEN SetRequest("OPEN")
     ELSE touchRequestActivity
  /\ Finish(w)
  /\ UNCHANGED <<bids, bookings>> /\ Env

-----------------------------------------------------------------------------
(* Counter-offers.  Neither handler looks at the request's status.         *)

clientCounter(w, b, p) ==
  /\ At(w, "idle")
  /\ bids[b].status \in {"PENDING", "COUNTERED_BY_DRIVER"}
  /\ Begin(w, Holds("counter_save", b,
                    [bids[b] EXCEPT !.status = "COUNTERED_BY_CLIENT",
                                    !.counter = p, !.final = Null]))
  /\ OnlyHandler

driverRejectCounter(w, b, p) ==
  /\ At(w, "idle")
  /\ bids[b].status = "COUNTERED_BY_CLIENT"
  /\ Begin(w, Holds("counter_save", b,
                    [bids[b] EXCEPT !.status = "COUNTERED_BY_DRIVER",
                                    !.final = p]))
  /\ OnlyHandler

CounterSave(w) == SaveThen(w, "counter_save", "touch")

Touch(w) ==
  /\ At(w, "touch")
  /\ touchRequestActivity
  /\ Finish(w)
  /\ UNCHANGED <<bids, bookings>> /\ Env

-----------------------------------------------------------------------------
(* RequestsService.cancel saves the request it loaded together with its    *)
(* bids.  The save compares that one-to-many list with the table: a bid    *)
(* made in between would have to lose its request, which the NOT NULL      *)
(* request_id refuses.  A row deleted in between is inserted again.        *)

CancelLoad(w) ==
  /\ At(w, "idle")
  /\ Exists
  /\ AssertTransition(request.status, "CANCELLED")
  /\ Begin(w, [Holds("cancel_save", Null, NoBid)
                EXCEPT !.req = request, !.seen = Rows(bids)])
  /\ OnlyHandler

CancelSave(w) ==
  /\ At(w, "cancel_save")
  /\ request' = IF Rows(bids) \subseteq handler[w].seen
                THEN [handler[w].req EXCEPT !.status = "CANCELLED"]
                ELSE request
  /\ Finish(w)
  /\ UNCHANGED <<bids, bookings>> /\ Env

(* delete of a cancelled request: its bookings, the bids it loaded and the *)
(* row itself go in one transaction; a bid it did not load still refers to *)
(* the row, and the foreign key rolls everything back.                     *)
DeleteLoad(w) ==
  /\ At(w, "idle")
  /\ request.status = "CANCELLED"
  /\ Begin(w, [Holds("delete_commit", Null, NoBid) EXCEPT !.seen = Rows(bids)])
  /\ OnlyHandler

MutDeleteUnlinked(w) ==
  /\ At(w, "delete_commit")
  /\ request' = [status |-> "DELETED", stale |-> FALSE]
  /\ bids' = [b \in BidIds |-> IF b \in handler[w].seen
                               THEN [NoBid EXCEPT !.status = "DELETED"]
                               ELSE bids[b]]
  /\ bookings' = [b \in BidIds |-> 0]
  /\ Finish(w)
  /\ Env

DeleteCommit(w) ==
  /\ At(w, "delete_commit")
  /\ IF Rows(bids) \subseteq handler[w].seen
     THEN /\ request'  = [status |-> "DELETED", stale |-> FALSE]
          /\ bids'     = [b \in BidIds |->
                            IF b \in Rows(bids)
                            THEN [NoBid EXCEPT !.status = "DELETED"]
                            ELSE bids[b]]
          /\ bookings' = [b \in BidIds |-> 0]
     ELSE UNCHANGED <<request, bids, bookings>>
  /\ Finish(w)
  /\ Env

-----------------------------------------------------------------------------
(* The inactivity sweep.  Any list or findOne kicks it unless one is in    *)
(* flight; it selects stale requests, then claims each by a conditional    *)
(* update on the status alone.  Bids keep their status.  Nothing but       *)
(* another kick can tell the tick between the kick and the SELECT, so they *)
(* are one step.                                                           *)

Biddable == request.status \in {"OPEN", "BIDDING"}

MutKickOpenOnly ==
  /\ sweep = "off"
  /\ sweep' = IF request.status = "OPEN" /\ request.stale THEN "selected" ELSE "off"
  /\ UNCHANGED <<request, bids, bookings, handler, idles, faults>>

kickSweep ==
  /\ sweep = "off"
  /\ sweep' = IF Biddable /\ request.stale THEN "selected" ELSE "off"
  /\ UNCHANGED <<request, bids, bookings, handler, idles, faults>>

MutSweepUnconditional ==
  /\ sweep = "selected"
  /\ request' = [request EXCEPT !.status = "FAILED"]
  /\ sweep' = "off"
  /\ UNCHANGED <<bids, bookings, handler, idles, faults>>

SweepClaim ==
  /\ sweep = "selected"
  /\ request' = IF Biddable THEN [request EXCEPT !.status = "FAILED"]
                            ELSE request
  /\ sweep' = "off"
  /\ UNCHANGED <<bids, bookings, handler, idles, faults>>

-----------------------------------------------------------------------------
(* The environment: 15 days pass (no handler or sweep lives that long), a  *)
(* statement of a handler fails, or the process stops.  Rows survive.      *)

Quiet == sweep = "off" /\ \A w \in Workers : At(w, "idle")

IdleGap ==
  /\ Quiet
  /\ Exists /\ ~request.stale
  /\ idles < MaxIdles                                   \* bound
  /\ idles' = idles + 1
  /\ request' = [request EXCEPT !.stale = TRUE]
  /\ UNCHANGED <<bids, bookings, handler, sweep, faults>>

StatementFails(w) ==
  /\ ~At(w, "idle")
  /\ faults < MaxFaults                                 \* bound
  /\ faults' = faults + 1
  /\ Finish(w)
  /\ UNCHANGED <<request, bids, bookings, sweep, idles>>

Crash ==
  /\ ~Quiet
  /\ faults < MaxFaults                                 \* bound
  /\ faults' = faults + 1
  /\ handler' = [w \in Workers |-> Idle]
  /\ sweep' = "off"
  /\ UNCHANGED <<request, bids, bookings, idles>>

-----------------------------------------------------------------------------
Init ==
  /\ request  = [status |-> "OPEN", stale |-> FALSE]
  /\ bids     = [b \in BidIds |-> NoBid]
  /\ bookings = [b \in BidIds |-> 0]
  /\ handler  = [w \in Workers |-> Idle]
  /\ sweep    = "off"
  /\ idles    = 0
  /\ faults   = 0

Start(w) ==
  \/ \E d \in Drivers, p \in Prices : CreateLoad(w, d, p)
  \/ \E b \in BidIds :
       \/ accept(w, b)
       \/ driverAcceptCounter(w, b)
       \/ clientAcceptDriverFinal(w, b)
       \/ reject(w, b)
       \/ withdraw(w, b)
       \/ \E p \in Prices : clientCounter(w, b, p) \/ driverRejectCounter(w, b, p)
  \/ CancelLoad(w)
  \/ DeleteLoad(w)

Continue(w) ==
  \/ CreateCheck(w) \/ CreateInsert(w) \/ CreateStatus(w)
  \/ AcceptRead(w) \/ AcceptCommit(w)
  \/ SettleSave(w) \/ SettleCount(w) \/ SettleStatus(w)
  \/ CounterSave(w) \/ Touch(w)
  \/ CancelSave(w) \/ DeleteCommit(w)

Next ==
  \/ \E w \in Workers : Start(w) \/ Continue(w) \/ StatementFails(w)
  \/ kickSweep \/ SweepClaim
  \/ IdleGap \/ Crash

Spec == Init /\ [][Next]_vars

(* Fairness: statements of the database complete, so a sweep under way     *)
(* goes on, and clients keep polling the lists that kick it.               *)
FairSpec == Spec /\ WF_vars(kickSweep) /\ WF_vars(SweepClaim)

-----------------------------------------------------------------------------
(* Properties.                                                             *)

(* Types of the rows, the handlers and the counters.                       *)
TypeOK ==
  /\ request \in Request
  /\ bids \in [BidIds -> Bid]
  /\ bookings \in [BidIds -> 0 .. MaxBookings]
  /\ handler \in [Workers -> Handler]
  /\ sweep \in {"off", "selected"}
  /\ idles \in 0 .. MaxIdles
  /\ faults \in 0 .. MaxFaults

(* The request is given to one driver: at most one accepted bid, exactly   *)
(* one booking for it and none for the others, and no bid left open beside *)
(* it (acceptWithPrice, "creates booking atomically").                     *)
OneAward ==
  /\ \A b, c \in Accepted : b = c
  /\ \A b \in BidIds : bookings[b] = IF b \in Accepted THEN 1 ELSE 0
  /\ Accepted # {} => LiveBids = {}

(* Between handlers, and as long as no statement failed, the status says   *)
(* what the bids table holds: OPEN means no bid to answer, BIDDING at      *)
(* least one, BOOKED an accepted one.  create, reject and withdraw keep it *)
(* with two separate writes, on either side of the sweep's.                *)
StatusMatchesBids ==
  faults = 0 /\ Quiet =>
    /\ request.status = "OPEN"    => LiveBids = {}  /\ Accepted = {}
    /\ request.status = "BIDDING" => LiveBids # {} /\ Accepted = {}
    /\ request.status = "BOOKED"  => LiveBids = {}  /\ Accepted # {}

(* A foreign key never dangles: a deleted request leaves no bid and no     *)
(* booking, and every booking has its bid, although delete removes the     *)
(* bids it loaded before its transaction began.                            *)
NoOrphans ==
  /\ ~Exists => Rows(bids) = {}
  /\ \A b \in BidIds : bookings[b] > 0 => b \in Rows(bids)

(* No handler holds a copy of the settled (or deleted) bid b.              *)
Closed(b) ==
  /\ bids[b].status \in {"ACCEPTED", "REJECTED", "WITHDRAWN", "DELETED"}
  /\ \A w \in Workers : handler[w].bid # b

(* Whatever handlers overlap, a settled bid is brought back only by a      *)
(* handler that had read it before it was settled: once those are done it  *)
(* keeps its status for as long as its row exists, and no handler that     *)
(* starts later takes it up again.                                         *)
SettledBidsStay ==
  [][\A b \in BidIds : Closed(b) =>
       /\ bids'[b].status \in {bids[b].status, "DELETED"}
       /\ Closed(b)']_vars

(* The inactivity sweep never fails a request booked between its SELECT    *)
(* and its UPDATE: no step takes a booked request to FAILED.               *)
SweepSparesBooked ==
  [][request.status = "BOOKED" => request'.status # "FAILED"]_vars

(* A request open for bids that has seen no activity for 15 days does not  *)
(* stay so as long as the lists are read: the sweep fails it, unless       *)
(* somebody acts on it.                                                    *)
StaleRequestsEnd ==
  (Biddable /\ request.stale) ~> ~(Biddable /\ request.stale)

(* What the code's comments claim and it does not do.                      *)

(* bids.service.ts:32: the sweep "only fails requests that have actually   *)
(* gone idle".                                                             *)
SweepFailsOnlyIdle ==
  [][Biddable /\ request'.status = "FAILED" => request.stale]_vars

(* The status table has no arrow out of CANCELLED or FAILED.               *)
ClosedRequestsStay ==
  [][request.status \in {"CANCELLED", "FAILED"} =>
       request'.status \in {request.status, "DELETED"}]_vars

(* bids.service.ts:472: when the driver accepts the client's counter, the  *)
(* "agreed price is the counter".  It is the counter of the first read,    *)
(* and the transaction looks at the status alone.                          *)
CounterIsAgreed ==
  [][\A w \in Workers :
       LET h == handler[w] IN
         /\ h.pc = "accept_commit" /\ h.row.status = "COUNTERED_BY_CLIENT"
         /\ handler'[w].pc = "idle"
         /\ bids[h.bid].status = "COUNTERED_BY_CLIENT"
         /\ bids'[h.bid].status = "ACCEPTED"
         => bids'[h.bid].agreed = bids[h.bid].counter]_vars

(* bid.entity.ts:38: the price agreed is the latest offer on the table.    *)
Offer(bid) == CASE bid.status = "COUNTERED_BY_CLIENT" -> bid.counter
                [] bid.status = "COUNTERED_BY_DRIVER" -> bid.final
                [] OTHER -> bid.price
LatestOfferIsAgreed ==
  [][\A b \in BidIds :
       bids[b].status \in Live /\ bids'[b].status = "ACCEPTED"
       => bids'[b].agreed = Offer(bids[b])]_vars
=============================================================================
