--------------------------- MODULE BiddingProofs ----------------------------
(***************************************************************************)
(* Theorems about Bidding, for every number of drivers, bids, prices,      *)
(* faults and idle gaps: first what holds for any number of concurrent     *)
(* handlers; then, for one handler at a time, the award, and what rests on *)
(* everything a handler read still being true when it writes: Bidding as   *)
(* an implementation of Deal, and statuses that match the bids.            *)
(***************************************************************************)
EXTENDS BiddingDeal, TLAPS

-----------------------------------------------------------------------------
(* What a handler holds fits the statement it is about to run.  TypeOK     *)
(* alone is not inductive: a save writes the row the handler holds, so     *)
(* that row must be one of the bids table's, with a status the handler     *)
(* set.                                                                    *)
Sound(h) ==
  /\ h.pc \in {"accept_read", "accept_commit", "settle_save", "counter_save"}
       => h.bid \in BidIds
  /\ h.pc \in {"create_check", "create_insert"} => h.row.status = "PENDING"
  /\ h.pc = "settle_save"  => h.row.status \in {"REJECTED", "WITHDRAWN"}
  /\ h.pc = "counter_save" => h.row.status \in Live

HandlerOK == /\ handler \in [Workers -> Handler]
             /\ \A w \in Workers : Sound(handler[w])

TypeInv == TypeOK /\ HandlerOK

-----------------------------------------------------------------------------
(* What handlers hold has the type of a handler.                           *)

LEMMA NoBidType == NoBid \in Bid
BY DEF NoBid, Bid, Absent

LEMMA IdleType == Idle \in Handler
BY NoBidType DEF Idle, Handler, Pcs, Request, RequestStatus

LEMMA HoldsType ==
  ASSUME NEW pc \in Pcs, NEW b \in BidIds \union {Null}, NEW row \in Bid
  PROVE  Holds(pc, b, row) \in Handler
BY IdleType DEF Holds, Handler

LEMMA HandlerEdits ==
  ASSUME NEW h \in Handler
  PROVE  /\ \A s \in RequestStatus \union {"DELETED"} :
              [h EXCEPT !.req.status = s] \in Handler
         /\ \A r \in Request : [h EXCEPT !.req = r] \in Handler
         /\ \A seen \in SUBSET BidIds : [h EXCEPT !.seen = seen] \in Handler
         /\ \A r \in Request, seen \in SUBSET BidIds :
              [h EXCEPT !.req = r, !.seen = seen] \in Handler
         /\ \A pc \in Pcs : [h EXCEPT !.pc = pc] \in Handler
         /\ \A pc \in Pcs, n \in BOOLEAN :
              [h EXCEPT !.pc = pc, !.none = n] \in Handler
BY DEF Handler, Request

LEMMA BidEdits ==
  ASSUME NEW row \in Bid
  PROVE  /\ \A s \in BidStatus : [row EXCEPT !.status = s] \in Bid
         /\ \A s \in BidStatus, p \in Prices \union {Null} :
              /\ [row EXCEPT !.status = s, !.agreed = p] \in Bid
              /\ [row EXCEPT !.status = s, !.final = p] \in Bid
              /\ [row EXCEPT !.status = s, !.counter = p, !.final = Null] \in Bid
         /\ \A p \in Prices \union {Null} : [row EXCEPT !.agreed = p] \in Bid
BY DEF Bid

LEMMA BeginType ==
  ASSUME TypeInv, NEW w \in Workers, NEW held \in Handler, Sound(held), Begin(w, held)
  PROVE  HandlerOK'
BY DEF TypeInv, HandlerOK, Begin

LEMMA FinishType ==
  ASSUME TypeInv, NEW w \in Workers, Finish(w)
  PROVE  HandlerOK'
BY IdleType DEF TypeInv, HandlerOK, Finish, Sound, Idle

LEMMA ProceedType ==
  ASSUME TypeInv, NEW w \in Workers, NEW pc \in {"create_status", "settle_count", "touch"},
         Proceed(w, pc)
  PROVE  HandlerOK'
<1>1. handler[w].req \in Request
  BY DEF TypeInv, TypeOK, Handler
<1>2. [Idle EXCEPT !.pc = pc, !.req = handler[w].req] \in Handler
  BY <1>1, IdleType DEF Handler, Pcs
<1>3. Sound([Idle EXCEPT !.pc = pc, !.req = handler[w].req])
  BY DEF Sound, Idle
<1> QED BY <1>2, <1>3, BeginType DEF Proceed

LEMMA RequestEdits ==
  ASSUME TypeInv
  PROVE  /\ \A s \in RequestStatus : SetRequest(s) => request' \in Request
         /\ touchRequestActivity => request' \in Request
<1>1. request \in Request
  BY DEF TypeInv, TypeOK
<1>2. ASSUME NEW s \in RequestStatus, SetRequest(s) PROVE request' \in Request
  BY <1>1, <1>2 DEF SetRequest, Request
<1>3. ASSUME touchRequestActivity PROVE request' \in Request
  BY <1>1, <1>3 DEF touchRequestActivity, Request
<1> QED BY <1>2, <1>3

LEMMA RowType ==
  ASSUME TypeInv, NEW b \in BidIds
  PROVE  bids[b] \in Bid
BY DEF TypeInv, TypeOK

LEMMA HandlerType ==
  ASSUME TypeInv, NEW w \in Workers
  PROVE  /\ handler[w] \in Handler
         /\ handler[w].row \in Bid
         /\ handler[w].req \in Request
         /\ handler[w].bid \in BidIds \union {Null}
BY DEF TypeInv, TypeOK, Handler

-----------------------------------------------------------------------------
(* The steps that only load something keep the types.                      *)

LEMMA AcceptType ==
  ASSUME TypeInv, NEW w \in Workers, NEW b \in BidIds, NEW actor,
         NEW override \in Prices \union {Null},
         acceptWithPrice(w, b, actor, override)
  PROVE  HandlerOK'
<1> DEFINE price == IF override = Null THEN bids[b].price ELSE override
           row == [NoBid EXCEPT !.status = bids[b].status, !.agreed = price]
<1>1. row \in Bid
  BY RowType, NoBidType DEF Bid
<1>2. Holds("accept_commit", b, row) \in Handler
  BY <1>1, HoldsType DEF Pcs
<1>3. Sound(Holds("accept_commit", b, row))
  BY DEF Sound, Holds, Idle
<1> QED BY <1>2, <1>3, BeginType, FinishType DEF acceptWithPrice

LEMMA LoadsKeepTypes ==
  ASSUME TypeInv, NEW w \in Workers, Start(w)
  PROVE  TypeInv'
<1>1. SUFFICES HandlerOK' /\ OnlyHandler
  BY DEF TypeInv, TypeOK, HandlerOK, OnlyHandler
<1>2. ASSUME NEW d \in Drivers, NEW p \in Prices, CreateLoad(w, d, p)
      PROVE  HandlerOK' /\ OnlyHandler
  <2> DEFINE row == [NoBid EXCEPT !.driver = d, !.status = "PENDING", !.price = p]
  <2>1. row \in Bid
    BY NoBidType DEF Bid, BidStatus
  <2>2. Holds("create_check", Null, row) \in Handler
    BY <2>1, HoldsType DEF Pcs
  <2>3. request.status \in RequestStatus
    BY <1>2 DEF CreateLoad, RequestStatus
  <2>4. [Holds("create_check", Null, row) EXCEPT !.req.status = request.status] \in Handler
    BY <2>2, <2>3, HandlerEdits
  <2> QED BY <1>2, <2>4, BeginType DEF CreateLoad, Sound, Holds, Idle, NoBid
<1>3. ASSUME NEW b \in BidIds, accept(w, b)
      PROVE  HandlerOK' /\ OnlyHandler
  <2>1. acceptWithPrice(w, b, "client", Null) => HandlerOK'
    BY AcceptType
  <2> QED BY <1>3, <2>1 DEF accept
<1>4. ASSUME NEW b \in BidIds, driverAcceptCounter(w, b)
      PROVE  HandlerOK' /\ OnlyHandler
  <2> DEFINE row == [NoBid EXCEPT !.status = bids[b].status, !.agreed = bids[b].counter]
  <2>1. row \in Bid
    BY RowType, NoBidType DEF Bid
  <2>2. Holds("accept_read", b, row) \in Handler
    BY <2>1, HoldsType DEF Pcs
  <2> QED BY <1>4, <2>2, BeginType DEF driverAcceptCounter, Sound, Holds, Idle
<1>5. ASSUME NEW b \in BidIds, clientAcceptDriverFinal(w, b)
      PROVE  HandlerOK' /\ OnlyHandler
  <2> DEFINE row == [NoBid EXCEPT !.status = bids[b].status, !.agreed = bids[b].final]
  <2>1. row \in Bid
    BY RowType, NoBidType DEF Bid
  <2>2. Holds("accept_read", b, row) \in Handler
    BY <2>1, HoldsType DEF Pcs
  <2> QED BY <1>5, <2>2, BeginType DEF clientAcceptDriverFinal, Sound, Holds, Idle
<1>6. ASSUME NEW b \in BidIds, NEW s \in {"REJECTED", "WITHDRAWN"}, SettleLoad(w, b, s)
      PROVE  HandlerOK' /\ OnlyHandler
  <2> DEFINE row == [bids[b] EXCEPT !.status = s]
  <2>1. row \in Bid
    BY RowType, BidEdits DEF BidStatus
  <2>2. Holds("settle_save", b, row) \in Handler
    BY <2>1, HoldsType DEF Pcs
  <2>3. request.status \in RequestStatus \union {"DELETED"}
    BY DEF TypeInv, TypeOK, Request
  <2>4. [Holds("settle_save", b, row) EXCEPT !.req.status = request.status] \in Handler
    BY <2>2, <2>3, HandlerEdits
  <2> QED BY <1>6, <2>4, BeginType, RowType DEF SettleLoad, Sound, Holds, Idle, Bid, Live
<1>7. ASSUME NEW b \in BidIds, NEW p \in Prices, clientCounter(w, b, p)
      PROVE  HandlerOK' /\ OnlyHandler
  <2> DEFINE row == [bids[b] EXCEPT !.status = "COUNTERED_BY_CLIENT",
                                    !.counter = p, !.final = Null]
  <2>1. row \in Bid
    BY RowType, BidEdits DEF BidStatus
  <2>2. Holds("counter_save", b, row) \in Handler
    BY <2>1, HoldsType DEF Pcs
  <2> QED BY <1>7, <2>2, BeginType, RowType DEF clientCounter, Sound, Holds, Idle, Bid, Live
<1>8. ASSUME NEW b \in BidIds, NEW p \in Prices, driverRejectCounter(w, b, p)
      PROVE  HandlerOK' /\ OnlyHandler
  <2> DEFINE row == [bids[b] EXCEPT !.status = "COUNTERED_BY_DRIVER", !.final = p]
  <2>1. row \in Bid
    BY RowType, BidEdits DEF BidStatus
  <2>2. Holds("counter_save", b, row) \in Handler
    BY <2>1, HoldsType DEF Pcs
  <2> QED BY <1>8, <2>2, BeginType, RowType DEF driverRejectCounter, Sound, Holds, Idle, Bid, Live
<1>9. ASSUME CancelLoad(w)
      PROVE  HandlerOK' /\ OnlyHandler
  <2>1. Holds("cancel_save", Null, NoBid) \in Handler
    BY NoBidType, HoldsType DEF Pcs
  <2>2. request \in Request /\ Rows(bids) \in SUBSET BidIds
    BY DEF TypeInv, TypeOK, Rows
  <2>3. [Holds("cancel_save", Null, NoBid)
         EXCEPT !.req = request, !.seen = Rows(bids)] \in Handler
    BY <2>1, <2>2, HandlerEdits
  <2> QED BY <1>9, <2>3, BeginType DEF CancelLoad, Sound, Holds, Idle
<1>10. ASSUME DeleteLoad(w)
       PROVE  HandlerOK' /\ OnlyHandler
  <2>1. Holds("delete_commit", Null, NoBid) \in Handler
    BY NoBidType, HoldsType DEF Pcs
  <2>2. [Holds("delete_commit", Null, NoBid) EXCEPT !.seen = Rows(bids)] \in Handler
    BY <2>1, HandlerEdits DEF Rows
  <2> QED BY <1>10, <2>2, BeginType DEF DeleteLoad, Sound, Holds, Idle
<1> QED BY <1>1, <1>2, <1>3, <1>4, <1>5, <1>6, <1>7, <1>8, <1>9, <1>10
        DEF Start, reject, withdraw
-----------------------------------------------------------------------------
(* The steps that write keep the types.                                    *)

LEMMA WonType ==
  ASSUME TypeInv, NEW b \in BidIds, NEW price \in Prices \union {Null}
  PROVE  OthersRejected(b, Won(b, price)) \in [BidIds -> Bid]
<1>1. bids \in [BidIds -> Bid]
  BY DEF TypeInv, TypeOK
<1>2. Won(b, price) \in [BidIds -> Bid]
  BY <1>1 DEF Won, Bid, BidStatus
<1> QED BY <1>2 DEF OthersRejected, Bid, BidStatus

LEMMA SaveKeepsTypes ==
  ASSUME TypeInv, NEW w \in Workers,
         SettleSave(w) \/ CounterSave(w)
  PROVE  TypeInv'
<1>1. PICK to \in {"settle_count", "touch"} :
        \E from \in {"settle_save", "counter_save"} : SaveThen(w, from, to)
  BY DEF SettleSave, CounterSave
<1>2. handler[w].row \in Bid
  BY HandlerType
<1>3. HandlerOK'
  BY <1>1, ProceedType, FinishType DEF SaveThen
<1>4. bids' \in [BidIds -> Bid]
  BY <1>1, <1>2 DEF SaveThen, TypeInv, TypeOK
<1> QED BY <1>1, <1>3, <1>4 DEF SaveThen, Env, TypeInv, TypeOK, HandlerOK

LEMMA WritesKeepTypes ==
  ASSUME TypeInv, NEW w \in Workers, Continue(w)
  PROVE  TypeInv'
<1>1. CASE CreateCheck(w)
  <2>1. HandlerOK'
    <3>1. CASE Finish(w)
      BY <3>1, FinishType
    <3>2. CASE Goto(w, "create_insert")
      <4> DEFINE held == [handler[w] EXCEPT !.pc = "create_insert"]
      <4>1. handler[w] \in Handler /\ Sound(handler[w]) /\ At(w, "create_check")
        BY <1>1 DEF TypeInv, HandlerOK, CreateCheck
      <4>2. held \in Handler /\ Sound(held)
        BY <4>1 DEF Handler, Sound, Pcs, At
      <4>3. Begin(w, held)
        BY <3>2 DEF Goto, Begin, TypeInv, HandlerOK
      <4> QED BY <4>2, <4>3, BeginType
    <3> QED BY <1>1, <3>1, <3>2 DEF CreateCheck
  <2> QED BY <1>1, <2>1 DEF CreateCheck, OnlyHandler, TypeInv, TypeOK, HandlerOK
<1>2. CASE CreateInsert(w)
  <2>1. handler[w].row \in Bid
    BY HandlerType
  <2>2. HandlerOK'
    BY <1>2, ProceedType, FinishType DEF CreateInsert
  <2>3. bids' \in [BidIds -> Bid]
    BY <1>2, <2>1 DEF CreateInsert, TypeInv, TypeOK
  <2> QED BY <1>2, <2>2, <2>3 DEF CreateInsert, Env, TypeInv, TypeOK, HandlerOK
<1>3. CASE CreateStatus(w)
  <2>1. HandlerOK'
    BY <1>3, FinishType DEF CreateStatus
  <2>2. request' \in Request
    BY <1>3, RequestEdits DEF CreateStatus, RequestStatus
  <2> QED BY <1>3, <2>1, <2>2 DEF CreateStatus, Env, TypeInv, TypeOK, HandlerOK
<1>4. CASE AcceptRead(w)
  <2>1. handler[w].bid \in BidIds /\ handler[w].row.agreed \in Prices \union {Null}
    BY <1>4, HandlerType DEF AcceptRead, At, TypeInv, HandlerOK, Sound, Bid
  <2>2. HandlerOK'
    BY <1>4, <2>1, AcceptType DEF AcceptRead
  <2> QED BY <1>4, <2>2 DEF AcceptRead, OnlyHandler, TypeInv, TypeOK, HandlerOK
<1>5. CASE AcceptCommit(w)
  <2>1. handler[w].bid \in BidIds /\ handler[w].row.agreed \in Prices \union {Null}
    BY <1>5, HandlerType DEF AcceptCommit, At, TypeInv, HandlerOK, Sound, Bid
  <2>2. HandlerOK'
    BY <1>5, FinishType DEF AcceptCommit
  <2>3. OthersRejected(handler[w].bid, Won(handler[w].bid, handler[w].row.agreed))
          \in [BidIds -> Bid]
    BY <2>1, WonType
  <2>4. bids' \in [BidIds -> Bid]
    BY <1>5, <2>3 DEF AcceptCommit, TypeInv, TypeOK
  <2>5. request' \in Request
    BY <1>5 DEF AcceptCommit, TypeInv, TypeOK, Request, RequestStatus
  <2>6. bookings' \in [BidIds -> 0 .. MaxBookings]
    BY <1>5, <2>1, BoundAssumption DEF AcceptCommit, TypeInv, TypeOK
  <2> QED BY <1>5, <2>2, <2>4, <2>5, <2>6 DEF AcceptCommit, Env, TypeInv, TypeOK, HandlerOK
<1>6. CASE SettleSave(w) \/ CounterSave(w)
  BY <1>6, SaveKeepsTypes
<1>7. CASE SettleCount(w)
  <2> DEFINE held == [handler[w] EXCEPT !.pc = "settle_status", !.none = (LiveBids = {})]
  <2>1. handler[w] \in Handler
    BY HandlerType
  <2>2. held \in Handler /\ Sound(held)
    BY <2>1 DEF Handler, Sound, Pcs
  <2>3. Begin(w, held)
    BY <1>7 DEF SettleCount, Begin, TypeInv, HandlerOK
  <2>4. HandlerOK'
    BY <2>2, <2>3, BeginType
  <2> QED BY <1>7, <2>4 DEF SettleCount, OnlyHandler, TypeInv, TypeOK, HandlerOK
<1>8. CASE SettleStatus(w)
  <2>1. HandlerOK'
    BY <1>8, FinishType DEF SettleStatus
  <2>2. request' \in Request
    BY <1>8, RequestEdits DEF SettleStatus, RequestStatus
  <2> QED BY <1>8, <2>1, <2>2 DEF SettleStatus, Env, TypeInv, TypeOK, HandlerOK
<1>9. CASE Touch(w)
  <2>1. HandlerOK' /\ request' \in Request
    BY <1>9, FinishType, RequestEdits DEF Touch
  <2> QED BY <1>9, <2>1 DEF Touch, Env, TypeInv, TypeOK, HandlerOK
<1>10. CASE CancelSave(w)
  <2>1. handler[w].req \in Request /\ request \in Request
    BY HandlerType DEF TypeInv, TypeOK
  <2>2. request' \in Request
    BY <1>10, <2>1 DEF CancelSave, Request, RequestStatus
  <2>3. HandlerOK'
    BY <1>10, FinishType DEF CancelSave
  <2> QED BY <1>10, <2>2, <2>3 DEF CancelSave, Env, TypeInv, TypeOK, HandlerOK
<1>11. CASE DeleteCommit(w)
  <2>1. HandlerOK'
    BY <1>11, FinishType DEF DeleteCommit
  <2>2. [NoBid EXCEPT !.status = "DELETED"] \in Bid
    BY NoBidType DEF Bid, Absent
  <2>3. bids' \in [BidIds -> Bid]
    BY <1>11, <2>2 DEF DeleteCommit, TypeInv, TypeOK
  <2>4. request' \in Request
    <3>1. [status |-> "DELETED", stale |-> FALSE] \in Request /\ request \in Request
      BY DEF TypeInv, TypeOK, Request
    <3>2. request' = [status |-> "DELETED", stale |-> FALSE] \/ request' = request
      BY <1>11 DEF DeleteCommit
    <3> QED BY <3>1, <3>2
  <2>5. bookings' \in [BidIds -> 0 .. MaxBookings]
    <3>1. 0 \in 0 .. MaxBookings /\ bookings \in [BidIds -> 0 .. MaxBookings]
      BY BoundAssumption DEF TypeInv, TypeOK
    <3>2. bookings' = [b \in BidIds |-> 0] \/ bookings' = bookings
      BY <1>11 DEF DeleteCommit
    <3> QED BY <3>1, <3>2
  <2> QED BY <1>11, <2>1, <2>3, <2>4, <2>5 DEF DeleteCommit, Env, TypeInv, TypeOK, HandlerOK
<1> QED BY <1>1, <1>2, <1>3, <1>4, <1>5, <1>6, <1>7, <1>8, <1>9, <1>10, <1>11
        DEF Continue

LEMMA TypeInvInit == Init => TypeInv
<1> SUFFICES ASSUME Init PROVE TypeInv
  OBVIOUS
<1>1. HandlerOK
  BY IdleType DEF Init, HandlerOK, Sound, Idle
<1>2. bids \in [BidIds -> Bid] /\ request \in Request
  BY NoBidType DEF Init, Request, RequestStatus
<1> QED BY <1>1, <1>2, BoundAssumption DEF Init, TypeInv, TypeOK, HandlerOK

LEMMA TypeInvStep == TypeInv /\ [Next]_vars => TypeInv'
<1> SUFFICES ASSUME TypeInv, [Next]_vars PROVE TypeInv'
  OBVIOUS
<1>1. CASE UNCHANGED vars
  BY <1>1 DEF vars, TypeInv, TypeOK, HandlerOK
<1>2. ASSUME NEW w \in Workers, Start(w) PROVE TypeInv'
  BY <1>2, LoadsKeepTypes
<1>3. ASSUME NEW w \in Workers, Continue(w) PROVE TypeInv'
  BY <1>3, WritesKeepTypes
<1>4. ASSUME NEW w \in Workers, StatementFails(w) PROVE TypeInv'
  <2>1. HandlerOK'
    BY <1>4, FinishType DEF StatementFails
  <2>2. faults' \in 0 .. MaxFaults
    BY <1>4, BoundAssumption DEF StatementFails, TypeInv, TypeOK
  <2> QED BY <1>4, <2>1, <2>2 DEF StatementFails, TypeInv, TypeOK, HandlerOK
<1>5. CASE kickSweep
  BY <1>5 DEF kickSweep, TypeInv, TypeOK, HandlerOK
<1>6. CASE SweepClaim
  <2>1. request' \in Request
    BY <1>6 DEF SweepClaim, TypeInv, TypeOK, Request, RequestStatus
  <2> QED BY <1>6, <2>1 DEF SweepClaim, TypeInv, TypeOK, HandlerOK
<1>7. CASE IdleGap
  <2>1. request' \in Request
    BY <1>7 DEF IdleGap, TypeInv, TypeOK, Request
  <2>2. idles' \in 0 .. MaxIdles
    BY <1>7, BoundAssumption DEF IdleGap, TypeInv, TypeOK
  <2> QED BY <1>7, <2>1, <2>2 DEF IdleGap, TypeInv, TypeOK, HandlerOK
<1>8. CASE Crash
  <2>1. HandlerOK'
    BY <1>8, IdleType DEF Crash, HandlerOK, Sound, Idle
  <2>2. faults' \in 0 .. MaxFaults
    BY <1>8, BoundAssumption DEF Crash, TypeInv, TypeOK
  <2> QED BY <1>8, <2>1, <2>2 DEF Crash, TypeInv, TypeOK, HandlerOK
<1> QED BY <1>1, <1>2, <1>3, <1>4, <1>5, <1>6, <1>7, <1>8 DEF Next

(* Every reachable state has the types the modules declare: no handler     *)
(* writes a status outside the enum or a price that is not one.            *)
THEOREM TypeCorrect == Spec => []TypeOK
<1>1. TypeInv => TypeOK
  BY DEF TypeInv
<1> QED BY <1>1, TypeInvInit, TypeInvStep, PTL DEF Spec
-----------------------------------------------------------------------------
(* What writes the bids.                                                   *)

(* A step that is none of these leaves the bids and the bookings alone.    *)
BidWriter(w) == \/ CreateInsert(w) \/ AcceptCommit(w)
                \/ SettleSave(w) \/ CounterSave(w) \/ DeleteCommit(w)

LEMMA BidsChange ==
  ASSUME [Next]_vars, ~UNCHANGED <<bids, bookings>>
  PROVE  \E w \in Workers : BidWriter(w)
<1>1. ASSUME NEW w \in Workers, Start(w) PROVE UNCHANGED <<bids, bookings>>
  BY <1>1 DEF Start, CreateLoad, accept, driverAcceptCounter,
       clientAcceptDriverFinal, reject, withdraw, SettleLoad, clientCounter,
       driverRejectCounter, CancelLoad, DeleteLoad, OnlyHandler
<1>2. ASSUME NEW w \in Workers, Continue(w), ~BidWriter(w)
      PROVE  UNCHANGED <<bids, bookings>>
  BY <1>2 DEF Continue, BidWriter, OnlyHandler, CreateCheck, CreateStatus,
       AcceptRead, SettleCount, SettleStatus, Touch, CancelSave
<1> QED BY <1>1, <1>2 DEF Next, vars, StatementFails, kickSweep, SweepClaim,
                          IdleGap, Crash

LEMMA OthersRejectedStatus ==
  ASSUME NEW b \in BidIds, NEW table \in [BidIds -> Bid]
  PROVE  \A c \in BidIds :
           /\ OthersRejected(b, table)[c].driver = table[c].driver
           /\ OthersRejected(b, table)[c].status =
                IF c # b /\ table[c].status \in Live THEN "REJECTED"
                                                     ELSE table[c].status
BY DEF OthersRejected, Bid

LEMMA WonStatus ==
  ASSUME TypeInv, NEW b \in BidIds, NEW price \in Prices \union {Null}
  PROVE  /\ Won(b, price) \in [BidIds -> Bid]
         /\ \A c \in BidIds : Won(b, price)[c].status =
                               IF c = b THEN "ACCEPTED" ELSE bids[c].status
BY DEF Won, Bid, BidStatus, TypeInv, TypeOK

-----------------------------------------------------------------------------
(* Who writes the request, and what status each writes.                    *)

RequestWriter(w) == \/ CreateStatus(w) \/ AcceptCommit(w) \/ SettleStatus(w)
                    \/ Touch(w) \/ CancelSave(w) \/ DeleteCommit(w)

LEMMA RequestChange ==
  ASSUME [Next]_vars, request' # request
  PROVE  \/ \E w \in Workers : RequestWriter(w)
         \/ SweepClaim \/ IdleGap
<1>1. ASSUME NEW w \in Workers, Start(w) PROVE request' = request
  BY <1>1 DEF Start, CreateLoad, accept, driverAcceptCounter,
       clientAcceptDriverFinal, reject, withdraw, SettleLoad, clientCounter,
       driverRejectCounter, CancelLoad, DeleteLoad, OnlyHandler
<1>2. ASSUME NEW w \in Workers, Continue(w), ~RequestWriter(w)
      PROVE  request' = request
  BY <1>2 DEF Continue, RequestWriter, OnlyHandler, CreateCheck, CreateInsert,
       AcceptRead, SettleCount, SettleSave, CounterSave, SaveThen
<1> QED BY <1>1, <1>2 DEF Next, vars, StatementFails, kickSweep, Crash

LEMMA StatusWritten ==
  ASSUME TypeInv, NEW w \in Workers
  PROVE  /\ CreateStatus(w)  => request'.status \in {request.status, "BIDDING"}
         /\ AcceptCommit(w)  => request'.status \in {request.status, "BOOKED"}
         /\ SettleStatus(w)  => request'.status \in {request.status, "OPEN"}
         /\ Touch(w)         => request'.status = request.status
         /\ CancelSave(w)    => request'.status \in {request.status, "CANCELLED"}
         /\ DeleteCommit(w)  => request'.status \in {request.status, "DELETED"}
<1>1. request \in Request /\ handler[w].req \in Request
  BY HandlerType DEF TypeInv, TypeOK
<1>2. CreateStatus(w) => request'.status \in {request.status, "BIDDING"}
  BY <1>1 DEF CreateStatus, SetRequest, touchRequestActivity, Request
<1>3. AcceptCommit(w) => request'.status \in {request.status, "BOOKED"}
  BY <1>1 DEF AcceptCommit, Request
<1>4. SettleStatus(w) => request'.status \in {request.status, "OPEN"}
  BY <1>1 DEF SettleStatus, SetRequest, touchRequestActivity, Request
<1>5. Touch(w) => request'.status = request.status
  BY <1>1 DEF Touch, touchRequestActivity, Request
<1>6. CancelSave(w) => request'.status \in {request.status, "CANCELLED"}
  BY <1>1 DEF CancelSave, Request
<1>7. DeleteCommit(w) => request'.status \in {request.status, "DELETED"}
  BY <1>1 DEF DeleteCommit
<1> QED BY <1>2, <1>3, <1>4, <1>5, <1>6, <1>7

(* SweepSparesBooked for any number of concurrent handlers: the sweep's    *)
(* update is conditional, and no other statement writes FAILED.            *)
THEOREM SweepSparesBookedHolds == Spec => SweepSparesBooked
<1>1. ASSUME TypeInv, [Next]_vars
      PROVE  [request.status = "BOOKED" => request'.status # "FAILED"]_vars
  <2> SUFFICES ASSUME request.status = "BOOKED", request' # request
               PROVE  request'.status # "FAILED"
    OBVIOUS
  <2>1. ASSUME NEW w \in Workers, RequestWriter(w) PROVE request'.status # "FAILED"
    BY <1>1, <2>1, StatusWritten DEF RequestWriter
  <2>2. CASE SweepClaim
    BY <2>2 DEF SweepClaim, Biddable
  <2>3. CASE IdleGap
    BY <1>1, <2>3 DEF IdleGap, TypeInv, TypeOK, Request
  <2> QED BY <1>1, <2>1, <2>2, <2>3, RequestChange
<1> QED BY <1>1, TypeInvInit, TypeInvStep, PTL DEF Spec, SweepSparesBooked
-----------------------------------------------------------------------------
(* Foreign keys.                                                           *)

LEMMA SaveStatus ==
  ASSUME TypeInv, NEW w \in Workers, SettleSave(w) \/ CounterSave(w)
  PROVE  /\ handler[w].bid \in BidIds
         /\ handler[w].row \in Bid
         /\ handler[w].row.status \notin Absent
         /\ \/ UNCHANGED bids
            \/ Exists /\ bids' = [bids EXCEPT ![handler[w].bid] = handler[w].row]
         /\ UNCHANGED <<request, bookings>>
<1>1. Sound(handler[w])
  BY DEF TypeInv, HandlerOK
<1>2. handler[w].row \in Bid
  BY HandlerType
<1> QED BY <1>1, <1>2 DEF SettleSave, CounterSave, SaveThen, At, CanSave, Sound,
                          Live, Absent

(* NoOrphans for any number of concurrent handlers: every insert and save  *)
(* finds the request there, every booking its bid, and delete takes all    *)
(* rows or none.                                                           *)
THEOREM NoOrphansHolds == Spec => []NoOrphans
<1>1. Init => NoOrphans
  BY DEF Init, NoOrphans, Exists, Rows, NoBid, Absent
<1>2. ASSUME TypeInv, NoOrphans, [Next]_vars PROVE NoOrphans'
  <2> USE DEF NoOrphans, Exists, Rows
  <2>1. ASSUME NEW w \in Workers, CreateInsert(w) PROVE NoOrphans'
    <3>1. handler[w].row.status \notin Absent
      BY <1>2, <2>1 DEF CreateInsert, At, TypeInv, HandlerOK, Sound, Absent
    <3>2. CASE UNCHANGED bids
      BY <1>2, <2>1, <3>2 DEF CreateInsert
    <3>3. CASE ~UNCHANGED bids
      BY <1>2, <2>1, <3>1, <3>3 DEF CreateInsert, CanSave, TypeInv, TypeOK
    <3> QED BY <3>2, <3>3
  <2>2. ASSUME NEW w \in Workers, SettleSave(w) \/ CounterSave(w) PROVE NoOrphans'
    BY <1>2, <2>2, SaveStatus DEF TypeInv, TypeOK
  <2>3. ASSUME NEW w \in Workers, AcceptCommit(w) PROVE NoOrphans'
    <3> DEFINE b   == handler[w].bid
               won == Won(b, handler[w].row.agreed)
    <3>1. CASE UNCHANGED <<bids, bookings, request>>
      BY <1>2, <3>1
    <3>2. CASE ~UNCHANGED <<bids, bookings, request>>
      <4>1. /\ b \in Rows(bids)
            /\ bids' = OthersRejected(b, won)
            /\ bookings' = [bookings EXCEPT ![b] = @ + 1]
            /\ request' = [request EXCEPT !.status = "BOOKED"]
        BY <2>3, <3>2 DEF AcceptCommit
      <4>2. b \in BidIds /\ handler[w].row.agreed \in Prices \union {Null}
        BY <1>2, <4>1, HandlerType DEF Bid
      <4>3. /\ won \in [BidIds -> Bid]
            /\ \A c \in BidIds : won[c].status =
                                   IF c = b THEN "ACCEPTED" ELSE bids[c].status
        BY <1>2, <4>2, WonStatus
      <4> HIDE DEF won
      <4>4. \A c \in BidIds : bids'[c].status \in Absent => bids[c].status \in Absent
        BY <4>1, <4>2, <4>3, OthersRejectedStatus DEF Absent
      <4>5. \A c \in BidIds : bookings'[c] > 0 => c = b \/ bookings[c] > 0
        BY <1>2, <4>1 DEF TypeInv, TypeOK
      <4>6. request'.status = "BOOKED"
        BY <1>2, <4>1 DEF TypeInv, TypeOK, Request
      <4> QED BY <1>2, <4>1, <4>4, <4>5, <4>6
    <3> QED BY <3>1, <3>2
  <2>4. ASSUME NEW w \in Workers, DeleteCommit(w) PROVE NoOrphans'
    <3>1. CASE UNCHANGED <<request, bids, bookings>>
      BY <1>2, <3>1
    <3>2. CASE ~UNCHANGED <<request, bids, bookings>>
      BY <2>4, <3>2 DEF DeleteCommit, NoBid, Absent
    <3> QED BY <3>1, <3>2
  <2>5. ASSUME \A w \in Workers : ~BidWriter(w) PROVE NoOrphans'
    <3>1. UNCHANGED <<bids, bookings>>
      BY <1>2, <2>5, BidsChange
    <3>2. CASE request'.status # "DELETED"
      BY <1>2, <3>1, <3>2
    <3>3. CASE request'.status = "DELETED"
      <4>1. ASSUME request' # request PROVE request.status = "DELETED"
        <5>1. ASSUME NEW w \in Workers, RequestWriter(w)
              PROVE  request.status = "DELETED"
          BY <1>2, <2>5, <3>3, <5>1, StatusWritten DEF RequestWriter, BidWriter
        <5>2. CASE SweepClaim
          BY <1>2, <3>3, <5>2 DEF SweepClaim, TypeInv, TypeOK, Request
        <5>3. CASE IdleGap
          BY <1>2, <3>3, <5>3 DEF IdleGap, TypeInv, TypeOK, Request
        <5> QED BY <1>2, <4>1, <5>1, <5>2, <5>3, RequestChange
      <4> QED BY <1>2, <3>1, <3>3, <4>1
    <3> QED BY <3>2, <3>3
  <2> QED BY <1>2, <2>1, <2>2, <2>3, <2>4, <2>5 DEF BidWriter
<1> QED BY <1>1, <1>2, TypeInvInit, TypeInvStep, PTL DEF Spec
-----------------------------------------------------------------------------
(* Settled bids, for any number of concurrent handlers.                    *)

(* A handler that begins takes up a live bid or none.                      *)
LEMMA LoadsTakeLive ==
  ASSUME TypeInv, NEW w \in Workers, Start(w)
  PROVE  /\ UNCHANGED bids
         /\ \E held : /\ handler' = [handler EXCEPT ![w] = held]
                      /\ \A b \in BidIds : held.bid = b => bids[b].status \in Live
<1> DEFINE Takes(held) == \A b \in BidIds : held.bid = b => bids[b].status \in Live
<1>1. UNCHANGED bids
  BY DEF Start, CreateLoad, accept, driverAcceptCounter, OnlyHandler,
     clientAcceptDriverFinal, reject, withdraw, SettleLoad, clientCounter,
     driverRejectCounter, CancelLoad, DeleteLoad
<1>2. Null \notin BidIds
  BY NullAssumption
<1>3. ASSUME NEW d \in Drivers, NEW p \in Prices, CreateLoad(w, d, p)
      PROVE  \E held : handler' = [handler EXCEPT ![w] = held] /\ Takes(held)
  <2> DEFINE row  == [NoBid EXCEPT !.driver = d, !.status = "PENDING", !.price = p]
             held == [Holds("create_check", Null, row)
                      EXCEPT !.req.status = request.status]
  <2>1. handler' = [handler EXCEPT ![w] = held]
    BY <1>3 DEF CreateLoad, Begin
  <2>2. held.bid = Null
    BY DEF Holds, Idle
  <2> HIDE DEF held
  <2> QED BY <1>2, <2>1, <2>2
<1>4. ASSUME NEW b \in BidIds, NEW pc, NEW row, bids[b].status \in Live,
             Begin(w, Holds(pc, b, row))
      PROVE  \E held : handler' = [handler EXCEPT ![w] = held] /\ Takes(held)
  <2> DEFINE held == Holds(pc, b, row)
  <2>1. handler' = [handler EXCEPT ![w] = held] /\ held.bid = b
    BY <1>4 DEF Begin, Holds, Idle
  <2> HIDE DEF held
  <2> QED BY <1>4, <2>1
<1>5. ASSUME NEW b \in BidIds, NEW s, SettleLoad(w, b, s)
      PROVE  \E held : handler' = [handler EXCEPT ![w] = held] /\ Takes(held)
  <2> DEFINE row  == [bids[b] EXCEPT !.status = s]
             held == [Holds("settle_save", b, row)
                      EXCEPT !.req.status = request.status]
  <2>1. handler' = [handler EXCEPT ![w] = held] /\ bids[b].status \in Live
    BY <1>5 DEF SettleLoad, Begin
  <2>2. held.bid = b
    BY DEF Holds, Idle
  <2> HIDE DEF held
  <2> QED BY <2>1, <2>2
<1>6. ASSUME Finish(w)
      PROVE  \E held : handler' = [handler EXCEPT ![w] = held] /\ Takes(held)
  <2>1. Idle.bid = Null
    BY DEF Idle
  <2> QED BY <1>2, <1>6, <2>1 DEF Finish
<1>7. ASSUME NEW b \in BidIds, accept(w, b)
      PROVE  \E held : handler' = [handler EXCEPT ![w] = held] /\ Takes(held)
  BY <1>4, <1>6, <1>7 DEF accept, acceptWithPrice, AcceptableBy, Live
<1>8. ASSUME NEW b \in BidIds, driverAcceptCounter(w, b) \/ clientAcceptDriverFinal(w, b)
      PROVE  \E held : handler' = [handler EXCEPT ![w] = held] /\ Takes(held)
  BY <1>4, <1>8 DEF driverAcceptCounter, clientAcceptDriverFinal, Live
<1>9. ASSUME NEW b \in BidIds, NEW p \in Prices,
             clientCounter(w, b, p) \/ driverRejectCounter(w, b, p)
      PROVE  \E held : handler' = [handler EXCEPT ![w] = held] /\ Takes(held)
  BY <1>4, <1>9 DEF clientCounter, driverRejectCounter, Live
<1>10. ASSUME CancelLoad(w)
       PROVE  \E held : handler' = [handler EXCEPT ![w] = held] /\ Takes(held)
  <2> DEFINE held == [Holds("cancel_save", Null, NoBid)
                      EXCEPT !.req = request, !.seen = Rows(bids)]
  <2>1. handler' = [handler EXCEPT ![w] = held] /\ held.bid = Null
    BY <1>10 DEF CancelLoad, Begin, Holds, Idle
  <2> HIDE DEF held
  <2> QED BY <1>2, <2>1
<1>11. ASSUME DeleteLoad(w)
       PROVE  \E held : handler' = [handler EXCEPT ![w] = held] /\ Takes(held)
  <2> DEFINE held == [Holds("delete_commit", Null, NoBid) EXCEPT !.seen = Rows(bids)]
  <2>1. handler' = [handler EXCEPT ![w] = held] /\ held.bid = Null
    BY <1>11 DEF DeleteLoad, Begin, Holds, Idle
  <2> HIDE DEF held
  <2> QED BY <1>2, <2>1
<1> QED BY <1>1, <1>3, <1>5, <1>7, <1>8, <1>9, <1>10, <1>11 DEF Start, reject, withdraw

(* A handler that goes on keeps the bid it had or gives it up.             *)
LEMMA KeepsItsBid ==
  ASSUME TypeInv, NEW w \in Workers, Continue(w)
  PROVE  \E held : /\ handler' = [handler EXCEPT ![w] = held]
                   /\ held.bid \in {handler[w].bid, Null}
<1>1. ASSUME Finish(w)
      PROVE  \E held : /\ handler' = [handler EXCEPT ![w] = held]
                       /\ held.bid \in {handler[w].bid, Null}
  <2>1. Idle.bid = Null
    BY DEF Idle
  <2> QED BY <1>1, <2>1 DEF Finish
<1>2. ASSUME NEW pc, Proceed(w, pc)
      PROVE  \E held : /\ handler' = [handler EXCEPT ![w] = held]
                       /\ held.bid \in {handler[w].bid, Null}
  <2> DEFINE held == [Idle EXCEPT !.pc = pc, !.req = handler[w].req]
  <2>1. handler' = [handler EXCEPT ![w] = held] /\ held.bid = Null
    BY <1>2 DEF Proceed, Begin, Idle
  <2> HIDE DEF held
  <2> QED BY <2>1
<1>3. CASE CreateCheck(w) /\ Goto(w, "create_insert")
  <2> DEFINE held == [handler[w] EXCEPT !.pc = "create_insert"]
  <2>1. handler' = [handler EXCEPT ![w] = held] /\ held.bid = handler[w].bid
    BY <1>3 DEF Goto, TypeInv, HandlerOK, Handler
  <2> HIDE DEF held
  <2> QED BY <2>1
<1>4. CASE SettleCount(w)
  <2> DEFINE held == [handler[w] EXCEPT !.pc = "settle_status", !.none = (LiveBids = {})]
  <2>1. handler' = [handler EXCEPT ![w] = held] /\ held.bid = handler[w].bid
    BY <1>4 DEF SettleCount, TypeInv, HandlerOK, Handler
  <2> HIDE DEF held
  <2> QED BY <2>1
<1>5. CASE AcceptRead(w)
  <2>1. PICK row : Finish(w) \/ Begin(w, Holds("accept_commit", handler[w].bid, row))
    BY <1>5 DEF AcceptRead, acceptWithPrice
  <2>2. CASE Begin(w, Holds("accept_commit", handler[w].bid, row))
    <3> DEFINE held == Holds("accept_commit", handler[w].bid, row)
    <3>1. handler' = [handler EXCEPT ![w] = held] /\ held.bid = handler[w].bid
      BY <2>2 DEF Begin, Holds, Idle
    <3> HIDE DEF held
    <3> QED BY <3>1
  <2> QED BY <1>1, <2>1, <2>2
<1> QED BY <1>1, <1>2, <1>3, <1>4, <1>5
        DEF Continue, CreateCheck, CreateInsert, CreateStatus, AcceptCommit, SettleSave,
            CounterSave, SaveThen, SettleStatus, Touch, CancelSave, DeleteCommit

(* What an acceptance leaves of a bid it is not about and that is not live.*)
LEMMA CommitSpares ==
  ASSUME TypeInv, NEW w \in Workers, AcceptCommit(w), NEW b \in BidIds,
         handler[w].bid # b, bids[b].status \notin Live
  PROVE  bids'[b].status = bids[b].status
<1> DEFINE won == Won(handler[w].bid, handler[w].row.agreed)
<1>1. CASE UNCHANGED bids
  BY <1>1
<1>2. CASE ~UNCHANGED bids
  <2>1. handler[w].bid \in BidIds /\ handler[w].row.agreed \in Prices \union {Null}
    BY <1>2, HandlerType DEF AcceptCommit, At, TypeInv, HandlerOK, Sound, Bid
  <2>2. bids' = OthersRejected(handler[w].bid, won)
    BY <1>2 DEF AcceptCommit
  <2>3. won \in [BidIds -> Bid] /\ won[b].status = bids[b].status
    BY <2>1, WonStatus
  <2> HIDE DEF won
  <2> QED BY <2>1, <2>2, <2>3, OthersRejectedStatus
<1> QED BY <1>1, <1>2

(* SettledBidsStay for any number of concurrent handlers.  A row is        *)
(* written by the handler that holds its bid, by an acceptance that finds  *)
(* it live, by an insert that finds no row, or by the deletion of all; and *)
(* nobody takes up a bid that is not live.                                 *)
THEOREM SettledBidsStayHolds == Spec => SettledBidsStay
<1>1. ASSUME TypeInv, [Next]_vars, NEW b \in BidIds, Closed(b)
      PROVE  bids'[b].status \in {bids[b].status, "DELETED"} /\ Closed(b)'
  <2>1. /\ bids[b].status \notin Live \union {"NONE"}
        /\ \A w \in Workers : handler[w].bid # b
        /\ b # Null
        /\ bids \in [BidIds -> Bid] /\ handler \in [Workers -> Handler]
    BY <1>1, NullAssumption DEF Closed, Live, TypeInv, TypeOK, HandlerOK
  <2>2. bids'[b].status \in {bids[b].status, "DELETED"}
    <3> SUFFICES ASSUME ~UNCHANGED bids
                 PROVE  bids'[b].status \in {bids[b].status, "DELETED"}
      OBVIOUS
    <3>1. PICK w \in Workers : BidWriter(w)
      BY <1>1, BidsChange
    <3>2. CASE CreateInsert(w)
      BY <2>1, <3>2 DEF CreateInsert, UnusedIds
    <3>3. CASE SettleSave(w) \/ CounterSave(w)
      BY <1>1, <2>1, <3>3, SaveStatus
    <3>4. CASE AcceptCommit(w)
      BY <1>1, <2>1, <3>4, CommitSpares
    <3>5. CASE DeleteCommit(w)
      BY <3>5 DEF DeleteCommit, NoBid
    <3> QED BY <3>1, <3>2, <3>3, <3>4, <3>5 DEF BidWriter
  <2>3. \A v \in Workers : handler'[v].bid # b
    <3>1. CASE UNCHANGED handler
      BY <2>1, <3>1
    <3>2. ASSUME NEW w \in Workers, Start(w) PROVE \A v \in Workers : handler'[v].bid # b
      BY <1>1, <2>1, <3>2, LoadsTakeLive
    <3>3. ASSUME NEW w \in Workers, Continue(w) PROVE \A v \in Workers : handler'[v].bid # b
      BY <1>1, <2>1, <3>3, KeepsItsBid
    <3>4. ASSUME NEW w \in Workers, StatementFails(w)
          PROVE  \A v \in Workers : handler'[v].bid # b
      BY <2>1, <3>4 DEF StatementFails, Finish, Idle
    <3>5. CASE Crash
      BY <2>1, <3>5 DEF Crash, Idle
    <3> QED BY <1>1, <3>1, <3>2, <3>3, <3>4, <3>5
            DEF Next, vars, kickSweep, SweepClaim, IdleGap
  <2> QED BY <1>1, <2>2, <2>3 DEF Closed
<1>2. TypeInv /\ [Next]_vars =>
        [\A b \in BidIds : Closed(b) =>
           /\ bids'[b].status \in {bids[b].status, "DELETED"}
           /\ Closed(b)']_vars
  BY <1>1
<1> QED BY <1>2, TypeInvInit, TypeInvStep, PTL DEF Spec, SettledBidsStay
-----------------------------------------------------------------------------
(* One handler at a time: the request is given to one driver.  OneAward    *)
(* alone is not inductive; besides, a request open for bids has no award,  *)
(* and neither has one while a handler is between a check of the bids and  *)
(* the write that relies on it.                                            *)

OneHandler == \A u, v \in Workers : u = v

Relying == {"create_check", "create_insert", "create_status", "accept_read",
            "accept_commit", "settle_save", "settle_count", "settle_status",
            "counter_save"}

Unawarded == \A b \in BidIds : bids[b].status # "ACCEPTED"

AwardInv ==
  /\ TypeInv
  /\ OneAward
  /\ request.status \in {"OPEN", "BIDDING"} => Unawarded
  /\ \A w \in Workers : handler[w].pc \in Relying => Unawarded

(* Without an award there is no booking, and a live bid means no award.    *)
LEMMA AwardFacts ==
  ASSUME AwardInv
  PROVE  /\ Unawarded => \A b \in BidIds : bookings[b] = 0
         /\ LiveBids # {} => Unawarded
BY DEF AwardInv, OneAward, Accepted, Unawarded

LEMMA UnawardedIsOne ==
  ASSUME Unawarded, \A b \in BidIds : bookings[b] = 0
  PROVE  OneAward
BY DEF Unawarded, OneAward, Accepted

(* A handler begins to rely on there being no award only when there is     *)
(* none.                                                                   *)
LEMMA LoadsRely ==
  ASSUME AwardInv, NEW w \in Workers, Start(w)
  PROVE  /\ OnlyHandler
         /\ \A v \in Workers : handler'[v].pc \in Relying => Unawarded
<1>1. OnlyHandler
  BY DEF Start, CreateLoad, accept, driverAcceptCounter,
       clientAcceptDriverFinal, reject, withdraw, SettleLoad, clientCounter,
       driverRejectCounter, CancelLoad, DeleteLoad
<1>2. CASE Unawarded
  BY <1>1, <1>2
<1>3. CASE ~Unawarded
  <2>1. /\ request.status \notin {"OPEN", "BIDDING"}
        /\ \A b \in BidIds : bids[b].status \notin Live
    BY <1>3, AwardFacts DEF AwardInv, LiveBids
  <2>2. PICK held : /\ handler' = [handler EXCEPT ![w] = held]
                    /\ held.pc \notin Relying
    <3>1. CASE CancelLoad(w)
      <4> DEFINE held == [Holds("cancel_save", Null, NoBid)
                          EXCEPT !.req = request, !.seen = Rows(bids)]
      <4>1. held.pc = "cancel_save"
        BY DEF Holds, Idle
      <4>2. handler' = [handler EXCEPT ![w] = held]
        BY <3>1 DEF CancelLoad, Begin
      <4> HIDE DEF held
      <4> QED BY <4>1, <4>2 DEF Relying
    <3>2. CASE DeleteLoad(w)
      <4> DEFINE held == [Holds("delete_commit", Null, NoBid)
                          EXCEPT !.seen = Rows(bids)]
      <4>1. held.pc = "delete_commit"
        BY DEF Holds, Idle
      <4>2. handler' = [handler EXCEPT ![w] = held]
        BY <3>2 DEF DeleteLoad, Begin
      <4> HIDE DEF held
      <4> QED BY <4>1, <4>2 DEF Relying
    <3>3. ASSUME NEW b \in BidIds, accept(w, b)
          PROVE  Finish(w)
      BY <2>1, <3>3 DEF accept, acceptWithPrice
    <3>4. Idle.pc \notin Relying
      BY DEF Idle, Relying
    <3> QED BY <2>1, <3>1, <3>2, <3>3, <3>4
            DEF Start, CreateLoad, driverAcceptCounter, Finish,
                clientAcceptDriverFinal, reject, withdraw, SettleLoad,
                clientCounter, driverRejectCounter, Live
  <2>3. handler \in [Workers -> Handler]
    BY DEF AwardInv, TypeInv, HandlerOK
  <2> QED BY <1>1, <1>3, <2>2, <2>3 DEF AwardInv
<1> QED BY <1>2, <1>3

(* The writes of the only handler.                                         *)
LEMMA WritesAward ==
  ASSUME OneHandler, AwardInv, TypeInv', NEW w \in Workers, Continue(w)
  PROVE  AwardInv'
<1>1. \A v \in Workers : v = w
  BY DEF OneHandler
<1>2. handler[w].pc \in Relying => Unawarded /\ \A b \in BidIds : bookings[b] = 0
  BY AwardFacts DEF AwardInv
<1>3. /\ bids \in [BidIds -> Bid]
      /\ bookings \in [BidIds -> 0 .. MaxBookings]
      /\ request \in Request
      /\ handler \in [Workers -> Handler]
      /\ Sound(handler[w])
  BY DEF AwardInv, TypeInv, TypeOK, HandlerOK
<1>4. CASE CreateCheck(w) \/ AcceptRead(w) \/ SettleCount(w)
  <2>1. At(w, "create_check") \/ At(w, "accept_read") \/ At(w, "settle_count")
    BY <1>4 DEF CreateCheck, AcceptRead, SettleCount
  <2>2. OnlyHandler /\ Unawarded
    BY <1>2, <1>4, <2>1 DEF CreateCheck, AcceptRead, SettleCount, At, Relying
  <2> QED BY <2>2 DEF AwardInv, OnlyHandler, Unawarded, OneAward, Accepted, LiveBids
<1>5. CASE CreateInsert(w) \/ SettleSave(w) \/ CounterSave(w)
  <2>1. \/ At(w, "create_insert") \/ At(w, "settle_save")
        \/ At(w, "counter_save")
    BY <1>5 DEF CreateInsert, SettleSave, CounterSave, SaveThen
  <2>2. Unawarded /\ (\A b \in BidIds : bookings[b] = 0)
        /\ handler[w].row.status # "ACCEPTED"
    BY <1>2, <1>3, <2>1 DEF At, Relying, Sound, Live
  <2>3. \/ UNCHANGED bids
        \/ \E b \in BidIds \union {Null} : bids' = [bids EXCEPT ![b] = handler[w].row]
    BY <1>3, <1>5, HandlerType DEF AwardInv, CreateInsert, UnusedIds, SettleSave,
                                   CounterSave, SaveThen
  <2>4. UNCHANGED <<request, bookings>>
    BY <1>5 DEF CreateInsert, SettleSave, CounterSave, SaveThen
  <2>5. Unawarded' /\ \A b \in BidIds : bookings'[b] = 0
    BY <1>3, <2>2, <2>3, <2>4 DEF Unawarded
  <2>6. OneAward'
    BY <2>5 DEF Unawarded, OneAward, Accepted
  <2> QED BY <2>5, <2>6 DEF AwardInv
<1>6. CASE CreateStatus(w) \/ SettleStatus(w)
  <2>1. Unawarded /\ UNCHANGED <<bids, bookings>>
    BY <1>2, <1>6 DEF CreateStatus, SettleStatus, At, Relying
  <2> QED BY <2>1 DEF AwardInv, Unawarded, OneAward, Accepted, LiveBids
<1>7. CASE Touch(w) \/ CancelSave(w)
  <2>1. /\ UNCHANGED <<bids, bookings>>
        /\ handler' = [handler EXCEPT ![w] = Idle]
    BY <1>7 DEF Touch, CancelSave, Finish
  <2>2. request'.status \in {request.status, "CANCELLED"}
    BY <1>7, StatusWritten DEF AwardInv
  <2>3. \A v \in Workers : handler'[v].pc \notin Relying
    BY <1>1, <1>3, <2>1 DEF Idle, Relying
  <2> QED BY <2>1, <2>2, <2>3 DEF AwardInv, Unawarded, OneAward, Accepted, LiveBids
<1>8. CASE AcceptCommit(w)
  <2> DEFINE b   == handler[w].bid
             won == Won(b, handler[w].row.agreed)
  <2>1. Unawarded /\ \A c \in BidIds : bookings[c] = 0
    BY <1>2, <1>8 DEF AcceptCommit, At, Relying
  <2>2. \A v \in Workers : handler'[v].pc \notin Relying
    BY <1>1, <1>3, <1>8 DEF AcceptCommit, Finish, Idle, Relying
  <2>3. CASE UNCHANGED <<bids, bookings, request>>
    BY <2>1, <2>2, <2>3 DEF AwardInv, Unawarded, OneAward, Accepted, LiveBids
  <2>4. CASE ~UNCHANGED <<bids, bookings, request>>
    <3>1. /\ bids' = OthersRejected(b, won)
          /\ bookings' = [bookings EXCEPT ![b] = @ + 1]
          /\ request'.status = "BOOKED"
      BY <1>3, <1>8, <2>4 DEF AcceptCommit, Request
    <3>2. b \in BidIds /\ handler[w].row.agreed \in Prices \union {Null}
      BY <1>3, <1>8, HandlerType DEF AwardInv, AcceptCommit, At, Sound, Bid
    <3>3. /\ won \in [BidIds -> Bid]
          /\ \A c \in BidIds : won[c].status =
                                 IF c = b THEN "ACCEPTED" ELSE bids[c].status
      BY <3>2, WonStatus DEF AwardInv
    <3> HIDE DEF won
    <3>4. \A c \in BidIds :
            /\ bids'[c].status \notin Live
            /\ bids'[c].status = "ACCEPTED" <=> c = b
            /\ bookings'[c] = IF c = b THEN 1 ELSE 0
      <4> SUFFICES ASSUME NEW c \in BidIds
                   PROVE  /\ bids'[c].status \notin Live
                          /\ bids'[c].status = "ACCEPTED" <=> c = b
                          /\ bookings'[c] = IF c = b THEN 1 ELSE 0
        OBVIOUS
      <4>1. bids'[c].status = IF c # b /\ won[c].status \in Live
                              THEN "REJECTED" ELSE won[c].status
        BY <3>1, <3>2, <3>3, OthersRejectedStatus
      <4>2. bids[c].status # "ACCEPTED"
        BY <2>1 DEF Unawarded
      <4>3. bookings'[c] = IF c = b THEN 1 ELSE 0
        BY <1>3, <2>1, <3>1, <3>2
      <4> QED BY <3>2, <3>3, <4>1, <4>2, <4>3 DEF Live
    <3>5. OneAward'
      BY <3>4 DEF OneAward, Accepted, LiveBids
    <3> QED BY <2>2, <3>1, <3>5 DEF AwardInv
  <2> QED BY <2>3, <2>4
<1>9. CASE DeleteCommit(w)
  <2>1. \A v \in Workers : handler'[v].pc \notin Relying
    BY <1>1, <1>3, <1>9 DEF DeleteCommit, Finish, Idle, Relying
  <2>2. CASE UNCHANGED <<request, bids, bookings>>
    BY <2>1, <2>2 DEF AwardInv, Unawarded, OneAward, Accepted, LiveBids
  <2>3. CASE ~UNCHANGED <<request, bids, bookings>>
    <3>1. Unawarded' /\ \A b \in BidIds : bookings'[b] = 0
      BY <1>9, <2>3 DEF DeleteCommit, Unawarded, Rows, NoBid, Absent
    <3>2. OneAward'
      BY <3>1 DEF Unawarded, OneAward, Accepted
    <3> QED BY <2>1, <3>1, <3>2 DEF AwardInv
  <2> QED BY <2>2, <2>3
<1> QED BY <1>4, <1>5, <1>6, <1>7, <1>8, <1>9 DEF Continue

LEMMA AwardInvInit == Init => AwardInv
<1> SUFFICES ASSUME Init PROVE AwardInv
  OBVIOUS
<1>1. Unawarded /\ \A b \in BidIds : bookings[b] = 0
  BY DEF Init, Unawarded, NoBid
<1>2. OneAward
  BY <1>1, UnawardedIsOne
<1> QED BY <1>1, <1>2, TypeInvInit DEF AwardInv

LEMMA AwardInvStep ==
  ASSUME OneHandler, AwardInv, [Next]_vars
  PROVE  AwardInv'
<1>1. TypeInv'
  BY TypeInvStep DEF AwardInv
<1> USE DEF AwardInv, Unawarded, OneAward, Accepted, LiveBids
<1>2. CASE UNCHANGED vars
  BY <1>1, <1>2 DEF vars
<1>3. ASSUME NEW w \in Workers, Start(w) PROVE AwardInv'
  BY <1>1, <1>3, LoadsRely DEF OnlyHandler
<1>4. ASSUME NEW w \in Workers, Continue(w) PROVE AwardInv'
  BY <1>1, <1>4, WritesAward
<1>5. ASSUME NEW w \in Workers, StatementFails(w) PROVE AwardInv'
  <2>1. \A v \in Workers : handler'[v].pc \in Relying => handler[v].pc \in Relying
    BY <1>5 DEF StatementFails, Finish, Idle, Relying, TypeInv, HandlerOK
  <2> QED BY <1>1, <1>5, <2>1 DEF StatementFails
<1>6. CASE kickSweep
  BY <1>1, <1>6 DEF kickSweep
<1>7. CASE SweepClaim
  <2>1. request'.status \in {request.status, "FAILED"}
    BY <1>7 DEF SweepClaim, TypeInv, TypeOK, Request
  <2> QED BY <1>1, <1>7, <2>1 DEF SweepClaim
<1>8. CASE IdleGap
  <2>1. request'.status = request.status
    BY <1>8 DEF IdleGap, TypeInv, TypeOK, Request
  <2> QED BY <1>1, <1>8, <2>1 DEF IdleGap
<1>9. CASE Crash
  <2>1. \A v \in Workers : handler'[v].pc \notin Relying
    BY <1>9 DEF Crash, Idle, Relying
  <2> QED BY <1>1, <1>9, <2>1 DEF Crash
<1> QED BY <1>2, <1>3, <1>4, <1>5, <1>6, <1>7, <1>8, <1>9 DEF Next

LEMMA AwardInvHolds ==
  ASSUME OneHandler
  PROVE  Spec => []AwardInv
<1>1. AwardInv /\ [Next]_vars => AwardInv'
  BY AwardInvStep
<1> QED BY <1>1, AwardInvInit, PTL DEF Spec

(* OneAward when requests are handled one after the other, with the sweep  *)
(* beside them and any statement or the process failing.                   *)
THEOREM OneAwardHolds ==
  ASSUME OneHandler
  PROVE  Spec => []OneAward
<1>1. AwardInv => OneAward
  BY DEF AwardInv
<1> QED BY <1>1, AwardInvHolds, PTL

-----------------------------------------------------------------------------
(* What handler h read, and relies on, holds of the tables.                *)

Undertaking == {"create_check", "create_insert", "counter_save", "settle_save",
                "accept_read", "accept_commit", "cancel_save"}

Stands(h) ==
  /\ h.pc \in {"create_check", "create_insert", "counter_save"} => h.row.price # Null
  /\ h.pc \in {"settle_save", "counter_save", "accept_commit"}
       => bids[h.bid].status \in Live
  /\ h.pc = "accept_read" =>
       /\ h.row.status \in {"COUNTERED_BY_CLIENT", "COUNTERED_BY_DRIVER"}
       /\ bids[h.bid].status = h.row.status
       /\ h.row.agreed = IF h.row.status = "COUNTERED_BY_CLIENT"
                         THEN bids[h.bid].counter ELSE bids[h.bid].final
       /\ h.row.agreed # Null
  /\ h.pc = "accept_commit" => h.row.agreed \in Named(bids[h.bid])
  /\ h.pc = "cancel_save" => Exists

Priced == \A b \in BidIds : bids[b].status \in Live => bids[b].price # Null

BargainInv == Priced /\ \A w \in Workers : Stands(handler[w])

LEMMA IdleStands == \A h : h.pc \notin Undertaking => Stands(h)
BY DEF Stands, Undertaking

-----------------------------------------------------------------------------
(* A handler that begins reads the tables as they are.                     *)

LEMMA AcceptStands ==
  ASSUME TypeInv, Priced, NEW w \in Workers, NEW b \in BidIds, NEW actor,
         NEW override \in Prices \union {Null},
         acceptWithPrice(w, b, actor, override),
         override # Null => override \in Named(bids[b])
  PROVE  \E held : /\ handler' = [handler EXCEPT ![w] = held]
                   /\ Stands(held)
<1>1. CASE Finish(w)
  BY <1>1, IdleStands DEF Finish, Idle, Undertaking
<1>2. CASE ~Finish(w)
  <2> DEFINE price == IF override = Null THEN bids[b].price ELSE override
             held  == Holds("accept_commit", b,
                            [NoBid EXCEPT !.status = bids[b].status, !.agreed = price])
  <2>1. /\ bids[b].status \in AcceptableBy(actor)
        /\ handler' = [handler EXCEPT ![w] = held]
    BY <1>2 DEF acceptWithPrice, Begin
  <2>2. held.pc = "accept_commit" /\ held.bid = b /\ held.row.agreed = price
    BY DEF Holds, Idle, NoBid
  <2>3. bids[b].status \in Live
    BY <2>1 DEF AcceptableBy, Live
  <2>4. price \in Named(bids[b])
    BY <2>3 DEF Named, Priced
  <2> HIDE DEF held, price
  <2>5. Stands(held)
    BY <2>2, <2>3, <2>4 DEF Stands
  <2> QED BY <2>1, <2>5
<1> QED BY <1>1, <1>2

LEMMA LoadsStand ==
  ASSUME TypeInv, Priced, NEW w \in Workers, Start(w)
  PROVE  \E held : handler' = [handler EXCEPT ![w] = held] /\ Stands(held)
<1>1. ASSUME NEW d \in Drivers, NEW p \in Prices, CreateLoad(w, d, p)
      PROVE  \E held : handler' = [handler EXCEPT ![w] = held] /\ Stands(held)
  <2> DEFINE row  == [NoBid EXCEPT !.driver = d, !.status = "PENDING", !.price = p]
             held == [Holds("create_check", Null, row)
                      EXCEPT !.req.status = request.status]
  <2>1. handler' = [handler EXCEPT ![w] = held]
    BY <1>1 DEF CreateLoad, Begin
  <2>2. held.pc = "create_check" /\ held.row.price = p
    BY DEF Holds, Idle, NoBid
  <2> HIDE DEF held
  <2>3. Stands(held)
    BY <2>2, NullAssumption DEF Stands
  <2> QED BY <2>1, <2>3
<1>2. ASSUME NEW b \in BidIds, accept(w, b)
      PROVE  \E held : handler' = [handler EXCEPT ![w] = held] /\ Stands(held)
  BY <1>2, AcceptStands DEF accept
<1>3. ASSUME NEW b \in BidIds, driverAcceptCounter(w, b)
      PROVE  \E held : handler' = [handler EXCEPT ![w] = held] /\ Stands(held)
  <2> DEFINE held == Holds("accept_read", b, [NoBid EXCEPT
                       !.status = bids[b].status, !.agreed = bids[b].counter])
  <2>1. /\ handler' = [handler EXCEPT ![w] = held]
        /\ bids[b].status = "COUNTERED_BY_CLIENT" /\ bids[b].counter # Null
    BY <1>3 DEF driverAcceptCounter, Begin
  <2>2. /\ held.pc = "accept_read" /\ held.bid = b
        /\ held.row.status = bids[b].status /\ held.row.agreed = bids[b].counter
    BY DEF Holds, Idle, NoBid
  <2> HIDE DEF held
  <2>3. Stands(held)
    BY <2>1, <2>2 DEF Stands
  <2> QED BY <2>1, <2>3
<1>4. ASSUME NEW b \in BidIds, clientAcceptDriverFinal(w, b)
      PROVE  \E held : handler' = [handler EXCEPT ![w] = held] /\ Stands(held)
  <2> DEFINE held == Holds("accept_read", b, [NoBid EXCEPT
                       !.status = bids[b].status, !.agreed = bids[b].final])
  <2>1. /\ handler' = [handler EXCEPT ![w] = held]
        /\ bids[b].status = "COUNTERED_BY_DRIVER" /\ bids[b].final # Null
    BY <1>4 DEF clientAcceptDriverFinal, Begin
  <2>2. /\ held.pc = "accept_read" /\ held.bid = b
        /\ held.row.status = bids[b].status /\ held.row.agreed = bids[b].final
    BY DEF Holds, Idle, NoBid
  <2> HIDE DEF held
  <2>3. Stands(held)
    BY <2>1, <2>2 DEF Stands
  <2> QED BY <2>1, <2>3
<1>5. ASSUME NEW b \in BidIds, NEW s, SettleLoad(w, b, s)
      PROVE  \E held : handler' = [handler EXCEPT ![w] = held] /\ Stands(held)
  <2> DEFINE row  == [bids[b] EXCEPT !.status = s]
             held == [Holds("settle_save", b, row)
                      EXCEPT !.req.status = request.status]
  <2>1. handler' = [handler EXCEPT ![w] = held] /\ bids[b].status \in Live
    BY <1>5 DEF SettleLoad, Begin
  <2>2. held.pc = "settle_save" /\ held.bid = b
    BY DEF Holds, Idle
  <2> HIDE DEF held
  <2>3. Stands(held)
    BY <2>1, <2>2 DEF Stands
  <2> QED BY <2>1, <2>3
<1>6. ASSUME NEW b \in BidIds, NEW p \in Prices,
             clientCounter(w, b, p) \/ driverRejectCounter(w, b, p)
      PROVE  \E held : handler' = [handler EXCEPT ![w] = held] /\ Stands(held)
  <2>1. PICK row :
          /\ handler' = [handler EXCEPT ![w] = Holds("counter_save", b, row)]
          /\ row.price = bids[b].price
          /\ bids[b].status \in Live
    BY <1>6, RowType DEF clientCounter, driverRejectCounter, Begin, Live, Bid
  <2> DEFINE held == Holds("counter_save", b, row)
  <2>2. held.pc = "counter_save" /\ held.bid = b /\ held.row = row
    BY DEF Holds, Idle
  <2>3. handler' = [handler EXCEPT ![w] = held]
    BY <2>1
  <2> HIDE DEF held
  <2>4. Stands(held)
    BY <2>1, <2>2 DEF Stands, Priced
  <2> QED BY <2>3, <2>4
<1>7. ASSUME CancelLoad(w)
      PROVE  \E held : handler' = [handler EXCEPT ![w] = held] /\ Stands(held)
  <2> DEFINE held == [Holds("cancel_save", Null, NoBid)
                      EXCEPT !.req = request, !.seen = Rows(bids)]
  <2>1. handler' = [handler EXCEPT ![w] = held] /\ Exists
    BY <1>7 DEF CancelLoad, Begin
  <2>2. held.pc = "cancel_save"
    BY DEF Holds, Idle
  <2> HIDE DEF held
  <2>3. Stands(held)
    BY <2>1, <2>2 DEF Stands
  <2> QED BY <2>1, <2>3
<1>8. ASSUME DeleteLoad(w)
      PROVE  \E held : handler' = [handler EXCEPT ![w] = held] /\ Stands(held)
  <2> DEFINE held == [Holds("delete_commit", Null, NoBid) EXCEPT !.seen = Rows(bids)]
  <2>1. handler' = [handler EXCEPT ![w] = held]
    BY <1>8 DEF DeleteLoad, Begin
  <2>2. held.pc = "delete_commit"
    BY DEF Holds, Idle
  <2> HIDE DEF held
  <2>3. Stands(held)
    BY <2>2, IdleStands DEF Undertaking
  <2> QED BY <2>1, <2>3
<1> QED BY <1>1, <1>2, <1>3, <1>4, <1>5, <1>6, <1>7, <1>8
        DEF Start, reject, withdraw
-----------------------------------------------------------------------------
(* The only handler goes on.                                               *)

LEMMA LeftStands ==
  ASSUME OneHandler, TypeInv, NEW w \in Workers,
         \/ Finish(w)
         \/ \E pc \in {"create_status", "settle_count", "touch"} : Proceed(w, pc)
  PROVE  (\A v \in Workers : Stands(handler[v]))'
<1>1. PICK held : handler' = [handler EXCEPT ![w] = held] /\ held.pc \notin Undertaking
  <2>1. CASE Finish(w)
    <3>1. handler' = [handler EXCEPT ![w] = Idle]
      BY <2>1 DEF Finish
    <3>2. Idle.pc \notin Undertaking
      BY DEF Idle, Undertaking
    <3> QED BY <3>1, <3>2
  <2>2. ASSUME NEW pc \in {"create_status", "settle_count", "touch"}, Proceed(w, pc)
        PROVE  \E held : /\ handler' = [handler EXCEPT ![w] = held]
                         /\ held.pc \notin Undertaking
    <3> DEFINE held == [Idle EXCEPT !.pc = pc, !.req = handler[w].req]
    <3>1. handler' = [handler EXCEPT ![w] = held]
      BY <2>2 DEF Proceed, Begin
    <3>2. held.pc \notin Undertaking
      BY DEF Idle, Undertaking
    <3> HIDE DEF held
    <3> QED BY <3>1, <3>2
  <2> QED BY <2>1, <2>2
<1>2. \A v \in Workers : handler'[v].pc \notin Undertaking
  BY <1>1 DEF OneHandler, TypeInv, HandlerOK
<1> QED BY <1>2 DEF Stands, Undertaking

LEMMA KeptStands ==
  ASSUME OneHandler, TypeInv, NEW w \in Workers, NEW held, Stands(held),
         handler' = [handler EXCEPT ![w] = held], UNCHANGED <<bids, request>>
  PROVE  (\A v \in Workers : Stands(handler[v]))'
<1>1. \A v \in Workers : handler'[v] = held
  BY DEF OneHandler, TypeInv, HandlerOK
<1> QED BY <1>1 DEF Stands, Exists

LEMMA WritesStand ==
  ASSUME OneHandler, TypeInv, BargainInv, NEW w \in Workers, Continue(w)
  PROVE  BargainInv'
<1>1. /\ bids \in [BidIds -> Bid]
      /\ handler \in [Workers -> Handler]
      /\ Sound(handler[w]) /\ Stands(handler[w])
  BY DEF TypeInv, TypeOK, HandlerOK, BargainInv
<1>2. CASE CreateCheck(w)
  <2>1. CASE Finish(w)
    BY <1>2, <2>1, LeftStands DEF CreateCheck, OnlyHandler, BargainInv, Priced
  <2>2. CASE Goto(w, "create_insert")
    <3> DEFINE held == [handler[w] EXCEPT !.pc = "create_insert"]
    <3>1. /\ handler' = [handler EXCEPT ![w] = held]
          /\ UNCHANGED <<bids, request>>
      BY <1>1, <1>2, <2>2 DEF CreateCheck, OnlyHandler, Goto
    <3>2. Stands(held)
      <4>1. held.pc = "create_insert" /\ held.row.price = handler[w].row.price
        BY <1>1 DEF Handler
      <4> HIDE DEF held
      <4> QED BY <1>1, <1>2, <4>1 DEF CreateCheck, At, Stands
    <3> HIDE DEF held
    <3> QED BY <3>1, <3>2, KeptStands DEF BargainInv, Priced
  <2> QED BY <1>2, <2>1, <2>2 DEF CreateCheck
<1>3. CASE CreateInsert(w) \/ SettleSave(w) \/ CounterSave(w)
  <2>1. handler[w].row.status \in Live => handler[w].row.price # Null
    BY <1>1, <1>3 DEF CreateInsert, SettleSave, CounterSave, SaveThen, At,
                      Stands, Sound, Live
  <2>2. \/ UNCHANGED bids
        \/ \E b \in BidIds \union {Null} : bids' = [bids EXCEPT ![b] = handler[w].row]
    BY <1>3, HandlerType DEF CreateInsert, UnusedIds, SettleSave, CounterSave, SaveThen
  <2>3. Priced'
    BY <1>1, <2>1, <2>2 DEF BargainInv, Priced
  <2> QED BY <1>3, <2>3, LeftStands DEF CreateInsert, SettleSave, CounterSave,
                                        SaveThen, BargainInv
<1>4. CASE CreateStatus(w) \/ SettleStatus(w) \/ Touch(w) \/ CancelSave(w)
  BY <1>4, LeftStands DEF CreateStatus, SettleStatus, Touch, CancelSave,
                          BargainInv, Priced
<1>5. CASE AcceptRead(w)
  <2> DEFINE b        == handler[w].bid
             actor    == IF handler[w].row.status = "COUNTERED_BY_CLIENT"
                         THEN "driver" ELSE "client"
             override == handler[w].row.agreed
  <2>1. /\ b \in BidIds
        /\ override \in Prices \union {Null} /\ override \in Named(bids[b])
    BY <1>1, <1>5, HandlerType DEF AcceptRead, At, Sound, Stands, Bid, Named
  <2>2. acceptWithPrice(w, b, actor, override) /\ UNCHANGED <<bids, request>>
    BY <1>5 DEF AcceptRead, OnlyHandler
  <2> HIDE DEF b, actor, override
  <2>3. PICK held : handler' = [handler EXCEPT ![w] = held] /\ Stands(held)
    BY <2>1, <2>2, AcceptStands DEF BargainInv
  <2> QED BY <2>2, <2>3, KeptStands DEF BargainInv, Priced
<1>6. CASE AcceptCommit(w)
  <2>1. (\A v \in Workers : Stands(handler[v]))'
    BY <1>6, LeftStands DEF AcceptCommit
  <2>2. CASE UNCHANGED bids
    BY <2>1, <2>2 DEF BargainInv, Priced
  <2>3. CASE ~UNCHANGED bids
    <3> DEFINE b   == handler[w].bid
               won == Won(b, handler[w].row.agreed)
    <3>1. b \in BidIds /\ handler[w].row.agreed \in Prices \union {Null}
      BY <1>1, <1>6, HandlerType DEF AcceptCommit, At, Sound, Bid
    <3>2. bids' = OthersRejected(b, won)
      BY <1>6, <2>3 DEF AcceptCommit
    <3>3. /\ won \in [BidIds -> Bid]
          /\ won[b].status = "ACCEPTED"
      BY <3>1, WonStatus
    <3> HIDE DEF won
    <3>4. \A c \in BidIds : bids'[c].status \notin Live
      BY <3>1, <3>2, <3>3, OthersRejectedStatus DEF Live
    <3> QED BY <2>1, <3>4 DEF BargainInv, Priced
  <2> QED BY <2>2, <2>3
<1>7. CASE SettleCount(w)
  <2> DEFINE held == [handler[w] EXCEPT !.pc = "settle_status", !.none = (LiveBids = {})]
  <2>1. /\ handler' = [handler EXCEPT ![w] = held]
        /\ UNCHANGED <<bids, request>>
    BY <1>1, <1>7 DEF SettleCount, OnlyHandler
  <2>2. held.pc = "settle_status"
    BY <1>1 DEF Handler
  <2> HIDE DEF held
  <2>3. Stands(held)
    BY <2>2, IdleStands DEF Undertaking
  <2> QED BY <2>1, <2>3, KeptStands DEF BargainInv, Priced
<1>8. CASE DeleteCommit(w)
  <2>1. bids' = bids \/ \A b \in BidIds : bids'[b].status \in Absent
    BY <1>8 DEF DeleteCommit, Rows, NoBid, Absent
  <2>2. Priced'
    BY <2>1 DEF BargainInv, Priced, Absent, Live
  <2> QED BY <1>8, <2>2, LeftStands DEF DeleteCommit, BargainInv
<1> QED BY <1>2, <1>3, <1>4, <1>5, <1>6, <1>7, <1>8 DEF Continue

LEMMA BargainStep ==
  ASSUME OneHandler, TypeInv, BargainInv, [Next]_vars
  PROVE  BargainInv'
<1>1. CASE UNCHANGED vars
  BY <1>1 DEF vars, BargainInv, Priced, Stands, Exists
<1>2. ASSUME NEW w \in Workers, Start(w) PROVE BargainInv'
  <2>1. UNCHANGED <<bids, request>>
    BY <1>2 DEF Start, CreateLoad, accept, driverAcceptCounter, OnlyHandler,
         clientAcceptDriverFinal, reject, withdraw, SettleLoad, clientCounter,
         driverRejectCounter, CancelLoad, DeleteLoad
  <2>2. PICK held : handler' = [handler EXCEPT ![w] = held] /\ Stands(held)
    BY <1>2, LoadsStand DEF BargainInv
  <2> QED BY <2>1, <2>2, KeptStands DEF BargainInv, Priced
<1>3. ASSUME NEW w \in Workers, Continue(w) PROVE BargainInv'
  BY <1>3, WritesStand
<1>4. ASSUME NEW w \in Workers, StatementFails(w) PROVE BargainInv'
  BY <1>4, LeftStands DEF StatementFails, BargainInv, Priced
<1>5. CASE kickSweep
  BY <1>5 DEF kickSweep, BargainInv, Priced, Stands, Exists
<1>6. CASE SweepClaim \/ IdleGap
  <2>1. request'.status \in {request.status, "FAILED"}
    BY <1>6 DEF SweepClaim, IdleGap, TypeInv, TypeOK, Request
  <2>2. UNCHANGED <<bids, handler>>
    BY <1>6 DEF SweepClaim, IdleGap
  <2> QED BY <2>1, <2>2 DEF BargainInv, Priced, Stands, Exists
<1>7. CASE Crash
  <2>1. \A v \in Workers : handler'[v].pc \notin Undertaking
    BY <1>7 DEF Crash, Idle, Undertaking
  <2> QED BY <1>7, <2>1 DEF Crash, BargainInv, Priced, Stands, Undertaking
<1> QED BY <1>1, <1>2, <1>3, <1>4, <1>5, <1>6, <1>7 DEF Next

LEMMA BargainInvHolds ==
  ASSUME OneHandler
  PROVE  Spec => []BargainInv
<1>1. Init => BargainInv
  BY DEF Init, BargainInv, Priced, Stands, Idle, NoBid, Live
<1>2. TypeInv /\ BargainInv /\ [Next]_vars => BargainInv'
  BY BargainStep
<1> QED BY <1>1, <1>2, TypeInvInit, TypeInvStep, PTL DEF Spec
-----------------------------------------------------------------------------
(* What one acceptance, and one save, do to the bids.                      *)

LEMMA AcceptCommitEffect ==
  ASSUME TypeInv, BargainInv, NEW w \in Workers, AcceptCommit(w),
         ~UNCHANGED <<bids, bookings, request>>
  PROVE  /\ handler[w].bid \in BidIds
         /\ bids[handler[w].bid].status \in Live
         /\ handler[w].row.agreed \in Named(bids[handler[w].bid])
         /\ bids'[handler[w].bid].agreed = handler[w].row.agreed
         /\ \A c \in BidIds :
              bids'[c].status = IF c = handler[w].bid THEN "ACCEPTED"
                                ELSE IF bids[c].status \in Live THEN "REJECTED"
                                ELSE bids[c].status
<1> DEFINE b   == handler[w].bid
           won == Won(b, handler[w].row.agreed)
<1>1. /\ b \in BidIds /\ handler[w].row.agreed \in Prices \union {Null}
      /\ bids \in [BidIds -> Bid]
      /\ Stands(handler[w]) /\ handler[w].pc = "accept_commit"
  BY HandlerType DEF AcceptCommit, At, TypeInv, TypeOK, HandlerOK, Sound, Bid, BargainInv
<1>2. bids' = OthersRejected(b, won)
  BY DEF AcceptCommit
<1>3. /\ won \in [BidIds -> Bid]
      /\ \A c \in BidIds : won[c].status = IF c = b THEN "ACCEPTED" ELSE bids[c].status
  BY <1>1, WonStatus
<1>4. won[b].agreed = handler[w].row.agreed
  BY <1>1 DEF Won, Bid
<1> HIDE DEF won
<1>5. bids'[b].agreed = handler[w].row.agreed
  BY <1>1, <1>2, <1>4 DEF OthersRejected
<1>6. \A c \in BidIds : bids'[c].status = IF c = b THEN "ACCEPTED"
                                          ELSE IF bids[c].status \in Live THEN "REJECTED"
                                          ELSE bids[c].status
  BY <1>1, <1>2, <1>3, OthersRejectedStatus DEF Live
<1> QED BY <1>1, <1>5, <1>6 DEF Stands

LEMMA SaveEffect ==
  ASSUME TypeInv, BargainInv, NEW w \in Workers,
         CreateInsert(w) \/ SettleSave(w) \/ CounterSave(w), ~UNCHANGED bids
  PROVE  /\ Exists
         /\ handler[w].row \in Bid
         /\ handler[w].row.status \in Live \union {"REJECTED", "WITHDRAWN"}
         /\ UNCHANGED request
         /\ \E b \in BidIds : /\ bids[b].status \in Live \union {"NONE"}
                              /\ bids' = [bids EXCEPT ![b] = handler[w].row]
<1>1. Sound(handler[w]) /\ Stands(handler[w]) /\ handler[w].row \in Bid
  BY HandlerType DEF TypeInv, HandlerOK, BargainInv
<1>2. CASE CreateInsert(w)
  BY <1>1, <1>2 DEF CreateInsert, UnusedIds, CanSave, Sound, At, Live
<1>3. CASE SettleSave(w) \/ CounterSave(w)
  <2>1. /\ handler[w].bid \in BidIds
        /\ bids[handler[w].bid].status \in Live
        /\ handler[w].row.status \in Live \union {"REJECTED", "WITHDRAWN"}
    BY <1>1, <1>3 DEF SettleSave, CounterSave, SaveThen, At, Sound, Stands
  <2> QED BY <1>1, <1>3, <2>1 DEF SettleSave, CounterSave, SaveThen, CanSave
<1> QED BY <1>2, <1>3
-----------------------------------------------------------------------------
(* Bidding implements Deal.                                                *)

LEMMA PhaseIs ==
  /\ ~Exists                   => Phase = "gone"
  /\ Exists /\ Accepted = {}   => Phase = "open"
  /\ Exists /\ Accepted # {}   => Phase = "struck"
BY DEF Phase

(* No handler brings a deleted request back.                               *)
LEMMA DeletedStays ==
  ASSUME TypeInv, NoOrphans, BargainInv, [Next]_vars, Exists'
  PROVE  Exists
<1> SUFFICES ASSUME request' # request, ~Exists PROVE FALSE
  BY DEF Exists
<1>1. ASSUME NEW w \in Workers, RequestWriter(w) PROVE FALSE
  <2>1. CASE CreateStatus(w) \/ SettleStatus(w) \/ Touch(w)
    BY <2>1 DEF CreateStatus, SettleStatus, Touch, SetRequest, touchRequestActivity
  <2>2. CASE AcceptCommit(w)
    BY <2>2 DEF AcceptCommit, NoOrphans
  <2>3. CASE CancelSave(w)
    BY <2>3 DEF CancelSave, At, BargainInv, Stands
  <2>4. CASE DeleteCommit(w)
    BY <2>4 DEF DeleteCommit, Exists
  <2> QED BY <1>1, <2>1, <2>2, <2>3, <2>4 DEF RequestWriter
<1>2. CASE SweepClaim
  BY <1>2 DEF SweepClaim, Biddable, Exists
<1>3. CASE IdleGap
  BY <1>3 DEF IdleGap
<1> QED BY <1>1, <1>2, <1>3, RequestChange

LEMMA SaveBargains ==
  ASSUME AwardInv, BargainInv, NEW w \in Workers, Exists',
         CreateInsert(w) \/ SettleSave(w) \/ CounterSave(w), ~UNCHANGED bids
  PROVE  \E b \in BidIds : Contract!Bargain(b)
<1>1. /\ Exists /\ UNCHANGED request
      /\ handler[w].row \in Bid
      /\ handler[w].row.status # "ACCEPTED"
  BY SaveEffect DEF AwardInv, Live
<1>2. PICK b \in BidIds : bids' = [bids EXCEPT ![b] = handler[w].row]
  BY SaveEffect DEF AwardInv
<1>3. Unawarded
  BY DEF AwardInv, Relying, CreateInsert, SettleSave, CounterSave, SaveThen, At
<1>4. bids \in [BidIds -> Bid]
  BY DEF AwardInv, TypeInv, TypeOK
<1>5. Accepted = {} /\ Accepted' = {}
  BY <1>1, <1>2, <1>3, <1>4 DEF Unawarded, Accepted
<1>6. UNCHANGED <<Deals, Phase>> /\ Phase = "open"
  <2>1. Deals = {} /\ Deals' = {}
    BY <1>5 DEF Deals
  <2>2. Phase = "open" /\ Phase' = "open"
    BY <1>1, <1>5 DEF Phase
  <2> QED BY <2>1, <2>2
<1>7. \E named \in SUBSET Prices : Offers' = [Offers EXCEPT ![b] = named]
  <2> DEFINE named == IF handler[w].row.status \in Live THEN Named(handler[w].row) ELSE {}
  <2>1. named \in SUBSET Prices
    BY <1>1 DEF Named, Bid
  <2>2. Offers' = [Offers EXCEPT ![b] = named]
    BY <1>2, <1>4 DEF Offers, LiveBids
  <2> QED BY <2>1, <2>2
<1> QED BY <1>6, <1>7 DEF Contract!Bargain

LEMMA AcceptStrikes ==
  ASSUME AwardInv, AwardInv', BargainInv, NEW w \in Workers, Exists, Exists',
         AcceptCommit(w), ~UNCHANGED bids
  PROVE  \E b \in BidIds : Contract!Strike(b)
<1>1. PICK b \in BidIds : b = handler[w].bid
  BY AcceptCommitEffect DEF AwardInv
<1>2. PICK price : price = handler[w].row.agreed
  OBVIOUS
<1>3. /\ b \in LiveBids /\ price \in Named(bids[b])
      /\ bids'[b].agreed = price /\ bids'[b].status = "ACCEPTED"
  BY <1>1, <1>2, AcceptCommitEffect DEF AwardInv, LiveBids
<1>4. Accepted = {} /\ Accepted' = {b}
  BY <1>1, <1>3 DEF AwardInv, OneAward, Accepted
<1>5. LiveBids' = {}
  BY <1>4 DEF AwardInv, OneAward
<1>6. price \in Offers[b]
  BY <1>3 DEF Offers
<1>7. Phase = "open" /\ Phase' = "struck"
  BY <1>4 DEF Phase
<1>8. Offers' = Contract!Nothing
  BY <1>5 DEF Offers, Contract!Nothing
<1>9. Deals' = {<<b, price>>}
  BY <1>3, <1>4 DEF Deals
<1> QED BY <1>6, <1>7, <1>8, <1>9 DEF Contract!Strike

(* One handler at a time, Bidding implements Deal: an acceptance strikes a *)
(* deal at a price on the table, every other write bargains over one bid,  *)
(* a deletion voids, and the rest the parties cannot see.                  *)
THEOREM Refinement ==
  ASSUME OneHandler
  PROVE  Spec => ImplementsDeal
<1>1. Init => Contract!Init
  <2> SUFFICES ASSUME Init PROVE Contract!Init
    OBVIOUS
  <2>1. Accepted = {} /\ LiveBids = {} /\ Exists
    BY DEF Init, Accepted, LiveBids, NoBid, Live, Exists
  <2> QED BY <2>1, PhaseIs DEF Contract!Init, Contract!Nothing, Offers, Deals
<1>2. AwardInv /\ AwardInv' /\ NoOrphans /\ NoOrphans' /\ BargainInv /\ [Next]_vars
        => [Contract!Next]_(Contract!vars)
  <2> SUFFICES ASSUME AwardInv, AwardInv', NoOrphans, NoOrphans', BargainInv, [Next]_vars
               PROVE  Contract!Next \/ UNCHANGED <<Offers, Deals, Phase>>
    BY DEF Contract!vars
  <2>1. CASE ~Exists'
    <3>1. Offers' = Contract!Nothing /\ Deals' = {} /\ Phase' = "gone"
      <4>1. \A b \in BidIds : b \notin LiveBids' /\ b \notin Accepted'
        BY <2>1 DEF NoOrphans, Rows, LiveBids, Accepted, Live, Absent
      <4> QED BY <2>1, <4>1 DEF Offers, Contract!Nothing, Deals, Accepted, Phase
    <3> QED BY <3>1 DEF Contract!Next, Contract!Void
  <2>2. CASE Exists' /\ UNCHANGED bids
    <3>1. Exists
      BY <2>2, DeletedStays DEF AwardInv
    <3> QED BY <2>2, <3>1 DEF Offers, Deals, Phase, LiveBids, Accepted
  <2>3. CASE Exists' /\ ~UNCHANGED bids
    <3>1. Exists
      BY <2>3, DeletedStays DEF AwardInv
    <3>2. PICK w \in Workers : BidWriter(w)
      BY <2>3, BidsChange
    <3>3. CASE CreateInsert(w) \/ SettleSave(w) \/ CounterSave(w)
      BY <2>3, <3>3, SaveBargains DEF Contract!Next
    <3>4. CASE AcceptCommit(w)
      BY <2>3, <3>1, <3>4, AcceptStrikes DEF Contract!Next
    <3>5. CASE DeleteCommit(w)
      BY <2>3, <3>5 DEF DeleteCommit, Exists
    <3> QED BY <3>2, <3>3, <3>4, <3>5 DEF BidWriter
  <2> QED BY <2>1, <2>2, <2>3
<1> QED BY <1>1, <1>2, AwardInvHolds, NoOrphansHolds, BargainInvHolds, PTL
        DEF Spec, ImplementsDeal, Contract!Spec
-----------------------------------------------------------------------------
(* The request's status matches its bids.  Between the two writes of       *)
(* create, reject and withdraw (Midway) it need not; there, what the       *)
(* handler remembers of the request and counted of the bids says how the   *)
(* second write will mend it.  The sweep may have failed the request since *)
(* it was read, and nothing else.                                          *)

Midway == {"create_status", "settle_count", "settle_status"}

Matching ==
  /\ request.status = "OPEN"    => LiveBids = {}  /\ Accepted = {}
  /\ request.status = "BIDDING" => LiveBids # {} /\ Accepted = {}
  /\ request.status = "BOOKED"  => LiveBids = {}  /\ Accepted # {}

Remembers(h) ==
  /\ h.pc \in {"create_check", "create_insert", "create_status"}
       => h.req.status \in {"OPEN", "BIDDING"}
  /\ h.pc \in {"create_check", "create_insert", "settle_save"} \union Midway
       => request.status \in {h.req.status, "FAILED"}
  /\ h.pc = "create_status" => LiveBids # {}
  /\ h.pc \in {"settle_save", "settle_count", "settle_status"}
       => h.req.status \notin {"OPEN", "BOOKED"}
  /\ h.pc = "settle_status" => h.none = (LiveBids = {})

StatusInv ==
  faults = 0 =>
    /\ \A w \in Workers : Remembers(handler[w])
    /\ (\A w \in Workers : handler[w].pc \notin Midway) => Matching

(* Places where a handler remembers nothing of this.                       *)
Recalling == {"create_check", "create_insert", "settle_save"} \union Midway

LEMMA Forgotten ==
  ASSUME OneHandler, TypeInv, NEW w \in Workers, NEW held,
         handler' = [handler EXCEPT ![w] = held], held.pc \notin Recalling, Matching'
  PROVE  StatusInv'
<1>1. \A v \in Workers : handler'[v].pc \notin Recalling
  BY DEF OneHandler, TypeInv, HandlerOK
<1> QED BY <1>1 DEF StatusInv, Remembers, Recalling, Midway

LEMMA FinishMatching ==
  ASSUME OneHandler, TypeInv, NEW w \in Workers, Finish(w), Matching'
  PROVE  StatusInv'
<1>1. Idle.pc \notin Recalling
  BY DEF Idle, Recalling, Midway
<1> QED BY <1>1, Forgotten DEF Finish

LEMMA SameMatching ==
  ASSUME Matching, UNCHANGED bids, request'.status \in {request.status, "CANCELLED", "FAILED"}
  PROVE  Matching'
BY DEF Matching, LiveBids, Accepted

(* A handler begins: what it reads of the request is what it remembers.    *)
LEMMA LoadsRemember ==
  ASSUME OneHandler, TypeInv, NEW w \in Workers, handler[w].pc = "idle", StatusInv, Start(w)
  PROVE  StatusInv'
<1>1. SUFFICES ASSUME faults = 0 PROVE StatusInv'
  BY DEF StatusInv, Start, CreateLoad, accept, driverAcceptCounter, OnlyHandler,
         clientAcceptDriverFinal, reject, withdraw, SettleLoad, clientCounter,
         driverRejectCounter, CancelLoad, DeleteLoad
<1>2. OnlyHandler
  BY DEF Start, CreateLoad, accept, driverAcceptCounter,
         clientAcceptDriverFinal, reject, withdraw, SettleLoad, clientCounter,
         driverRejectCounter, CancelLoad, DeleteLoad
<1>3. Matching /\ Matching'
  <2>1. Matching
    BY <1>1 DEF StatusInv, OneHandler, Midway
  <2> QED BY <1>2, <2>1 DEF OnlyHandler, Matching, LiveBids, Accepted
<1>4. ASSUME NEW held, handler' = [handler EXCEPT ![w] = held],
             held.pc \in {"create_check", "settle_save"},
             held.req.status = request.status,
             held.pc = "create_check" => request.status \in {"OPEN", "BIDDING"},
             held.pc = "settle_save"  => LiveBids # {}
      PROVE  StatusInv'
  <2>1. \A v \in Workers : handler'[v] = held
    BY <1>4 DEF OneHandler, TypeInv, HandlerOK
  <2>2. UNCHANGED request
    BY <1>2 DEF OnlyHandler
  <2>3. held.pc = "settle_save" => request.status \notin {"OPEN", "BOOKED"}
    BY <1>3, <1>4 DEF Matching
  <2> QED BY <1>3, <1>4, <2>1, <2>2, <2>3 DEF StatusInv, Remembers, Midway
<1>5. ASSUME NEW d \in Drivers, NEW p \in Prices, CreateLoad(w, d, p) PROVE StatusInv'
  <2> DEFINE row  == [NoBid EXCEPT !.driver = d, !.status = "PENDING", !.price = p]
             held == [Holds("create_check", Null, row)
                      EXCEPT !.req.status = request.status]
  <2>1. /\ handler' = [handler EXCEPT ![w] = held]
        /\ request.status \in {"OPEN", "BIDDING"}
    BY <1>5 DEF CreateLoad, Begin
  <2>2. held.pc = "create_check" /\ held.req.status = request.status
    BY DEF Holds, Idle
  <2> HIDE DEF held
  <2> QED BY <1>4, <2>1, <2>2
<1>6. ASSUME NEW b \in BidIds, NEW s, SettleLoad(w, b, s) PROVE StatusInv'
  <2> DEFINE row  == [bids[b] EXCEPT !.status = s]
             held == [Holds("settle_save", b, row)
                      EXCEPT !.req.status = request.status]
  <2>1. handler' = [handler EXCEPT ![w] = held] /\ LiveBids # {}
    BY <1>6 DEF SettleLoad, Begin, LiveBids
  <2>2. held.pc = "settle_save" /\ held.req.status = request.status
    BY DEF Holds, Idle
  <2> HIDE DEF held
  <2> QED BY <1>4, <2>1, <2>2
<1>7. ASSUME NEW b \in BidIds, NEW pc \in {"accept_read", "accept_commit", "counter_save"},
             NEW row, Begin(w, Holds(pc, b, row))
      PROVE  StatusInv'
  <2> DEFINE held == Holds(pc, b, row)
  <2>1. handler' = [handler EXCEPT ![w] = held]
    BY <1>7 DEF Begin
  <2>2. held.pc = pc
    BY DEF Holds, Idle
  <2> HIDE DEF held
  <2> QED BY <1>3, <2>1, <2>2, Forgotten DEF Recalling, Midway
<1>8. ASSUME CancelLoad(w) PROVE StatusInv'
  <2> DEFINE held == [Holds("cancel_save", Null, NoBid)
                      EXCEPT !.req = request, !.seen = Rows(bids)]
  <2>1. handler' = [handler EXCEPT ![w] = held]
    BY <1>8 DEF CancelLoad, Begin
  <2>2. held.pc = "cancel_save"
    BY DEF Holds, Idle
  <2> HIDE DEF held
  <2> QED BY <1>3, <2>1, <2>2, Forgotten DEF Recalling, Midway
<1>9. ASSUME DeleteLoad(w) PROVE StatusInv'
  <2> DEFINE held == [Holds("delete_commit", Null, NoBid) EXCEPT !.seen = Rows(bids)]
  <2>1. handler' = [handler EXCEPT ![w] = held]
    BY <1>9 DEF DeleteLoad, Begin
  <2>2. held.pc = "delete_commit"
    BY DEF Holds, Idle
  <2> HIDE DEF held
  <2> QED BY <1>3, <2>1, <2>2, Forgotten DEF Recalling, Midway
<1>10. ASSUME NEW b \in BidIds, accept(w, b) PROVE StatusInv'
  <2>1. CASE Finish(w)
    BY <1>3, <2>1, FinishMatching
  <2>2. CASE ~Finish(w)
    BY <1>7, <1>10, <2>2 DEF accept, acceptWithPrice
  <2> QED BY <2>1, <2>2
<1>11. ASSUME NEW b \in BidIds, driverAcceptCounter(w, b) \/ clientAcceptDriverFinal(w, b)
       PROVE  StatusInv'
  BY <1>7, <1>11 DEF driverAcceptCounter, clientAcceptDriverFinal
<1>12. ASSUME NEW b \in BidIds, NEW p \in Prices,
              clientCounter(w, b, p) \/ driverRejectCounter(w, b, p)
       PROVE  StatusInv'
  BY <1>7, <1>12 DEF clientCounter, driverRejectCounter
<1> QED BY <1>5, <1>6, <1>8, <1>9, <1>10, <1>11, <1>12 DEF Start, reject, withdraw

LEMMA WritesRemember ==
  ASSUME OneHandler, AwardInv, AwardInv', BargainInv, StatusInv, faults = 0,
         NEW w \in Workers, Continue(w)
  PROVE  StatusInv'
<1>1. /\ bids \in [BidIds -> Bid] /\ request \in Request /\ TypeInv
      /\ handler \in [Workers -> Handler]
      /\ Sound(handler[w]) /\ Stands(handler[w]) /\ Remembers(handler[w])
  BY DEF AwardInv, TypeInv, TypeOK, HandlerOK, BargainInv, StatusInv
<1>2. handler[w].pc \notin Midway => Matching
  BY DEF StatusInv, OneHandler
<1>3. handler[w].pc \in Relying => Unawarded
  BY DEF AwardInv
<1>4. ASSUME NEW held, handler' = [handler EXCEPT ![w] = held], Remembers(held)',
             held.pc \in {"create_insert"} \union Midway, held.pc \notin Midway => Matching'
      PROVE  StatusInv'
  <2>1. \A v \in Workers : v = w /\ handler'[v] = held
    BY <1>1, <1>4 DEF OneHandler
  <2> QED BY <1>4, <2>1 DEF StatusInv
<1>5. CASE CreateCheck(w)
  <2>1. OnlyHandler /\ At(w, "create_check")
    BY <1>5 DEF CreateCheck
  <2>2. Matching'
    BY <1>2, <2>1 DEF At, Midway, OnlyHandler, Matching, LiveBids, Accepted
  <2>3. CASE Finish(w)
    BY <1>1, <2>2, <2>3, FinishMatching
  <2>4. CASE Goto(w, "create_insert")
    <3> DEFINE held == [handler[w] EXCEPT !.pc = "create_insert"]
    <3>1. handler' = [handler EXCEPT ![w] = held]
      BY <1>1, <2>4 DEF Goto
    <3>2. held.pc = "create_insert" /\ held.req = handler[w].req
      BY <1>1 DEF Handler
    <3> HIDE DEF held
    <3>3. PICK h : h = held
      OBVIOUS
    <3>4. handler' = [handler EXCEPT ![w] = h] /\ h.pc = "create_insert"
          /\ h.req = handler[w].req
      BY <3>1, <3>2, <3>3
    <3>5. Remembers(h)'
      BY <1>1, <2>1, <3>4 DEF Remembers, OnlyHandler, At, Midway
    <3> QED BY <1>4, <2>2, <3>4, <3>5
  <2> QED BY <1>5, <2>3, <2>4 DEF CreateCheck
<1>6. ASSUME NEW pc \in {"create_status", "settle_count"}, Proceed(w, pc),
             UNCHANGED request, handler[w].pc \in {"create_insert", "settle_save"},
             pc = "create_status" => handler[w].pc = "create_insert" /\ LiveBids' # {},
             pc = "settle_count"  => handler[w].pc = "settle_save"
      PROVE  StatusInv'
  <2>1. PICK h : h = [Idle EXCEPT !.pc = pc, !.req = handler[w].req]
    OBVIOUS
  <2>2. handler' = [handler EXCEPT ![w] = h] /\ h.pc = pc /\ h.req = handler[w].req
    BY <1>6, <2>1 DEF Proceed, Begin, Idle
  <2>3. Remembers(h)'
    BY <1>1, <1>6, <2>2 DEF Remembers, Midway
  <2> QED BY <1>4, <1>6, <2>2, <2>3 DEF Midway
<1>7. CASE CreateInsert(w)
  <2>1. UNCHANGED request /\ At(w, "create_insert")
    BY <1>7 DEF CreateInsert
  <2>2. PICK b \in UnusedIds :
          \/ Finish(w) /\ UNCHANGED bids
          \/ bids' = [bids EXCEPT ![b] = handler[w].row] /\ Proceed(w, "create_status")
    BY <1>7 DEF CreateInsert
  <2>3. CASE Finish(w) /\ UNCHANGED bids
    <3>1. Matching'
      BY <1>2, <2>1, <2>3, SameMatching DEF At, Midway
    <3> QED BY <1>1, <2>3, <3>1, FinishMatching
  <2>4. CASE bids' = [bids EXCEPT ![b] = handler[w].row] /\ Proceed(w, "create_status")
    <3>1. b \in LiveBids'
      BY <1>1, <2>1, <2>4 DEF Sound, At, LiveBids, Live, UnusedIds
    <3> QED BY <1>6, <2>1, <2>4, <3>1 DEF At
  <2> QED BY <2>2, <2>3, <2>4
<1>8. CASE CreateStatus(w)
  <2>1. /\ handler[w].req.status \in {"OPEN", "BIDDING"} /\ LiveBids # {} /\ Unawarded
        /\ request.status \in {handler[w].req.status, "FAILED"}
    BY <1>1, <1>3, <1>8 DEF CreateStatus, At, Remembers, Midway, Relying
  <2>2. request'.status \in {"BIDDING", "FAILED"}
    BY <1>1, <1>8, <2>1 DEF CreateStatus, SetRequest, touchRequestActivity, Exists, Request
  <2>3. Matching'
    BY <1>8, <2>1, <2>2 DEF CreateStatus, Matching, LiveBids, Accepted, Unawarded
  <2> QED BY <1>1, <1>8, <2>3, FinishMatching DEF CreateStatus
<1>9. CASE AcceptRead(w)
  <2>1. OnlyHandler /\ At(w, "accept_read")
    BY <1>9 DEF AcceptRead
  <2>2. Matching'
    BY <1>2, <2>1, SameMatching DEF OnlyHandler, At, Midway
  <2>3. PICK b, row : Finish(w) \/ Begin(w, Holds("accept_commit", b, row))
    BY <1>9 DEF AcceptRead, acceptWithPrice
  <2>4. CASE Begin(w, Holds("accept_commit", b, row))
    <3> DEFINE held == Holds("accept_commit", b, row)
    <3>1. handler' = [handler EXCEPT ![w] = held]
      BY <2>4 DEF Begin
    <3>2. held.pc = "accept_commit"
      BY DEF Holds, Idle
    <3> HIDE DEF held
    <3> QED BY <1>1, <2>2, <3>1, <3>2, Forgotten DEF Recalling, Midway
  <2> QED BY <1>1, <2>2, <2>3, <2>4, FinishMatching
<1>10. CASE AcceptCommit(w)
  <2>1. CASE UNCHANGED <<bids, bookings, request>>
    BY <1>1, <1>2, <1>10, <2>1, SameMatching, FinishMatching DEF AcceptCommit, At, Midway
  <2>2. CASE ~UNCHANGED <<bids, bookings, request>>
    <3>1. Accepted' # {}
      BY <1>1, <1>10, <2>2, AcceptCommitEffect DEF Accepted
    <3>2. LiveBids' = {}
      BY <3>1 DEF AwardInv, OneAward
    <3>3. request'.status = "BOOKED"
      BY <1>1, <1>10, <2>2 DEF AcceptCommit, Request
    <3> QED BY <1>1, <1>10, <3>1, <3>2, <3>3, FinishMatching DEF AcceptCommit, Matching
  <2> QED BY <2>1, <2>2
<1>11. CASE SettleSave(w)
  <2>1. UNCHANGED request /\ At(w, "settle_save")
    BY <1>11 DEF SettleSave, SaveThen
  <2>2. CASE Finish(w) /\ UNCHANGED bids
    BY <1>1, <1>2, <2>1, <2>2, SameMatching, FinishMatching DEF At, Midway
  <2>3. CASE Proceed(w, "settle_count")
    BY <1>6, <2>1, <2>3 DEF At
  <2> QED BY <1>11, <2>2, <2>3 DEF SettleSave, SaveThen
<1>12. CASE SettleCount(w)
  <2>1. OnlyHandler /\ At(w, "settle_count")
    BY <1>12 DEF SettleCount
  <2>2. PICK h : h = [handler[w] EXCEPT !.pc = "settle_status", !.none = (LiveBids = {})]
    OBVIOUS
  <2>3. /\ handler' = [handler EXCEPT ![w] = h]
        /\ h.pc = "settle_status" /\ h.req = handler[w].req /\ h.none = (LiveBids = {})
    BY <1>1, <1>12, <2>2 DEF SettleCount, Handler
  <2>4. LiveBids' = LiveBids
    BY <2>1 DEF OnlyHandler, LiveBids
  <2>5. Remembers(h)'
    BY <1>1, <2>1, <2>3, <2>4 DEF Remembers, OnlyHandler, At, Midway
  <2> QED BY <1>4, <2>3, <2>5 DEF Midway
<1>13. CASE SettleStatus(w)
  <2>1. /\ handler[w].req.status \notin {"OPEN", "BOOKED"} /\ Unawarded
        /\ request.status \in {handler[w].req.status, "FAILED"}
        /\ handler[w].none = (LiveBids = {})
    BY <1>1, <1>3, <1>13 DEF SettleStatus, At, Remembers, Midway, Relying
  <2>2. \/ LiveBids = {} /\ request'.status \notin {"BIDDING", "BOOKED"}
        \/ LiveBids # {} /\ request'.status \notin {"OPEN", "BOOKED"}
    <3>1. CASE handler[w].none /\ handler[w].req.status = "BIDDING"
      <4>1. LiveBids = {}
        BY <2>1, <3>1
      <4>2. Exists /\ SetRequest("OPEN")
        BY <1>13, <2>1, <3>1 DEF SettleStatus, Exists
      <4>3. request'.status = "OPEN"
        BY <4>2 DEF SetRequest
      <4> QED BY <4>1, <4>3
    <3>2. CASE ~(handler[w].none /\ handler[w].req.status = "BIDDING")
      <4>1. request'.status = request.status
        BY <1>1, <1>13, <3>2 DEF SettleStatus, touchRequestActivity, Request
      <4> QED BY <2>1, <3>2, <4>1
    <3> QED BY <3>1, <3>2
  <2>3. Matching'
    BY <1>13, <2>1, <2>2 DEF SettleStatus, Matching, LiveBids, Accepted, Unawarded
  <2> QED BY <1>1, <1>13, <2>3, FinishMatching DEF SettleStatus
<1>14. CASE CounterSave(w)
  <2>1. /\ UNCHANGED request /\ At(w, "counter_save") /\ Matching
        /\ handler[w].bid \in LiveBids /\ handler[w].row.status \in Live
    BY <1>1, <1>2, <1>14, HandlerType DEF CounterSave, SaveThen, At, Midway, Sound,
                                           Stands, LiveBids
  <2>2. CASE Finish(w) /\ UNCHANGED bids
    BY <1>1, <2>1, <2>2, SameMatching, FinishMatching
  <2>3. CASE /\ bids' = [bids EXCEPT ![handler[w].bid] = handler[w].row]
             /\ Proceed(w, "touch")
    <3>1. LiveBids' # {} /\ LiveBids # {}
      BY <1>1, <2>1, <2>3 DEF LiveBids
    <3>2. Accepted' = Accepted
      BY <1>1, <2>1, <2>3 DEF LiveBids, Accepted, Live
    <3>3. Matching'
      BY <2>1, <3>1, <3>2 DEF Matching
    <3> DEFINE held == [Idle EXCEPT !.pc = "touch", !.req = handler[w].req]
    <3>4. handler' = [handler EXCEPT ![w] = held] /\ held.pc = "touch"
      BY <2>3 DEF Proceed, Begin, Idle
    <3> HIDE DEF held
    <3> QED BY <1>1, <3>3, <3>4, Forgotten DEF Recalling, Midway
  <2> QED BY <1>14, <2>2, <2>3 DEF CounterSave, SaveThen
<1>15. CASE Touch(w) \/ CancelSave(w)
  <2>1. Matching /\ UNCHANGED bids /\ Finish(w)
    BY <1>2, <1>15 DEF Touch, CancelSave, At, Midway
  <2>2. request'.status \in {request.status, "CANCELLED"}
    BY <1>1, <1>15, StatusWritten
  <2> QED BY <1>1, <2>1, <2>2, SameMatching, FinishMatching
<1>16. CASE DeleteCommit(w)
  <2>1. Matching'
    <3>1. CASE UNCHANGED <<request, bids>>
      BY <1>2, <1>16, <3>1, SameMatching DEF DeleteCommit, At, Midway
    <3>2. CASE request'.status = "DELETED"
      BY <3>2 DEF Matching
    <3> QED BY <1>16, <3>1, <3>2 DEF DeleteCommit
  <2> QED BY <1>1, <1>16, <2>1, FinishMatching DEF DeleteCommit
<1> QED BY <1>5, <1>7, <1>8, <1>9, <1>10, <1>11, <1>12, <1>13, <1>14, <1>15, <1>16
        DEF Continue

LEMMA StatusInvStep ==
  ASSUME OneHandler, AwardInv, AwardInv', BargainInv, StatusInv, [Next]_vars
  PROVE  StatusInv'
<1>1. /\ TypeInv /\ handler \in [Workers -> Handler] /\ request \in Request
      /\ faults \in Nat
  BY BoundAssumption DEF AwardInv, TypeInv, HandlerOK, TypeOK
<1>2. CASE UNCHANGED vars
  BY <1>2 DEF vars, StatusInv, Remembers, Matching, LiveBids, Accepted
<1>3. ASSUME NEW w \in Workers, Start(w) PROVE StatusInv'
  <2>1. handler[w].pc = "idle"
    BY <1>3 DEF Start, CreateLoad, accept, driverAcceptCounter, At,
         clientAcceptDriverFinal, reject, withdraw, SettleLoad, clientCounter,
         driverRejectCounter, CancelLoad, DeleteLoad
  <2> QED BY <1>1, <1>3, <2>1, LoadsRemember
<1>4. ASSUME NEW w \in Workers, Continue(w) PROVE StatusInv'
  <2>1. CASE faults = 0
    BY <1>4, <2>1, WritesRemember
  <2>2. CASE faults # 0
    <3>1. UNCHANGED faults
      BY <1>4 DEF Continue, CreateCheck, CreateInsert, CreateStatus, AcceptRead,
           AcceptCommit, SettleSave, SettleCount, SettleStatus, CounterSave, Touch,
           CancelSave, DeleteCommit, SaveThen, OnlyHandler, Env
    <3> QED BY <2>2, <3>1 DEF StatusInv
  <2> QED BY <2>1, <2>2
<1>5. ASSUME NEW w \in Workers, StatementFails(w) PROVE StatusInv'
  BY <1>1, <1>5 DEF StatementFails, StatusInv
<1>6. CASE kickSweep
  BY <1>6 DEF kickSweep, StatusInv, Remembers, Matching, LiveBids, Accepted
<1>7. CASE SweepClaim \/ IdleGap
  <2>1. request'.status \in {request.status, "FAILED"}
    BY <1>1, <1>7 DEF SweepClaim, IdleGap, Request
  <2>2. UNCHANGED <<bids, handler, faults>>
    BY <1>7 DEF SweepClaim, IdleGap
  <2>3. LiveBids' = LiveBids
    BY <2>2 DEF LiveBids
  <2>4. Matching => Matching'
    BY <2>1, <2>2, SameMatching
  <2>5. \A w \in Workers : Remembers(handler[w]) => Remembers(handler[w])'
    BY <2>1, <2>2, <2>3 DEF Remembers, Midway
  <2> QED BY <2>2, <2>4, <2>5 DEF StatusInv
<1>8. CASE Crash
  BY <1>1, <1>8 DEF Crash, StatusInv
<1> QED BY <1>2, <1>3, <1>4, <1>5, <1>6, <1>7, <1>8 DEF Next

(* StatusMatchesBids for one handler at a time and no failed statement,    *)
(* although create, reject and withdraw write the bid and the request      *)
(* apart and the sweep may fail the request in between.                    *)
THEOREM StatusMatchesBidsHolds ==
  ASSUME OneHandler
  PROVE  Spec => []StatusMatchesBids
<1>1. Init => StatusInv
  BY DEF Init, StatusInv, Remembers, Midway, Matching, LiveBids, Accepted, Idle,
         NoBid, Live
<1>2. AwardInv /\ AwardInv' /\ BargainInv /\ StatusInv /\ [Next]_vars => StatusInv'
  BY StatusInvStep
<1>3. StatusInv => StatusMatchesBids
  BY DEF StatusInv, StatusMatchesBids, Matching, Quiet, At, Midway
<1> QED BY <1>1, <1>2, <1>3, AwardInvHolds, BargainInvHolds, PTL DEF Spec
=============================================================================
