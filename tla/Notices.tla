------------------------------ MODULE Notices -------------------------------
(***************************************************************************)
(* Notifications and the connection pool.  Every statement takes a         *)
(* connection for its duration; a transaction keeps one until it ends.     *)
(* acceptWithPrice writes its notifications through the pool while its     *)
(* transaction holds a connection; confirmDelivery notifies after its      *)
(* commit, and reject has no transaction.                                  *)
(*                                                                         *)
(* The two updates of the bids in an acceptance are one step here: module  *)
(* Bidding has the rules of acceptance, this one what it holds meanwhile.  *)
(***************************************************************************)
EXTENDS Server

CONSTANTS
  Requests,            \* transport requests with one live bid per driver
  Bidders, NoBidder,   \* drivers, and none
  PoolSize             \* connections of the pool

ASSUME NoticesAssumption ==
  NoBidder \notin Bidders /\ PoolSize \in Nat \ {0} /\ Requests # {}

VARIABLES
  bids,       \* status of the bid of each driver on each request
  deal,       \* the driver of the request's booking, as committed
  told,       \* notifications rows: type, driver, request
  noticeJob   \* what each handler holds between two statements

noticeRows == <<bids, deal, told>>
noticeVars == <<bids, deal, told, noticeJob>>

-----------------------------------------------------------------------------
NoticePcs == {"idle", "reject_load", "reject_save", "reject_notify",
              "award_write", "notify_winner", "notify_rejected", "commit",
              "deliver", "notify_parties"}

BidsOfRequest == [Bidders -> {"live", "rejected", "accepted"}]

(* bids: the bids of the request as the handler's transaction sees them;   *)
(* left: drivers still to be told.                                         *)
NoticeJob == [pc : NoticePcs, request : Requests,
              driver : Bidders \union {NoBidder},
              bids : BidsOfRequest, left : SUBSET Bidders]

AllLive == [d \in Bidders |-> "live"]

NoticeIdle == [pc |-> "idle", request |-> CHOOSE r \in Requests : TRUE,
               driver |-> NoBidder, bids |-> AllLive, left |-> {}]

NoticeAt(w, pc)   == noticeJob[w].pc = pc
NoticeGoto(w, pc) == noticeJob' = [noticeJob EXCEPT ![w].pc = pc]
NoticeFinish(w)   == noticeJob' = [noticeJob EXCEPT ![w] = NoticeIdle]

(* AwardPcs: in the acceptance's transaction; Holding: with a connection.  *)
AwardPcs == {"award_write", "notify_winner", "notify_rejected", "commit"}
MutHolding == AwardPcs \union {"reject_save", "deliver", "notify_parties"}
Holding == AwardPcs \union {"reject_save", "deliver"}

In(pcs) == {w \in Workers : noticeJob[w].pc \in pcs}
Free    == Cardinality(In(Holding)) < PoolSize

(* An acceptance that has written its bids keeps the others from writing   *)
(* them; they wait on their connections.                                   *)
Unlocked(w) ==
  \A x \in In(AwardPcs \ {"award_write"}) \ {w} :
    noticeJob[x].request # noticeJob[w].request

NoticeEnter(w, pc, r, d) ==
  /\ NoticeAt(w, "idle")
  /\ Free
  /\ noticeJob' = [noticeJob EXCEPT ![w] =
       [NoticeIdle EXCEPT !.pc = pc, !.request = r, !.driver = d]]
  /\ Enter(noticeJob)
  /\ UNCHANGED noticeRows

(* NotificationsService.create: one insert, on a connection of its own.    *)
Notify(type, d, r) == Free /\ told' = told \union {<<type, d, r>>}

-----------------------------------------------------------------------------
(* reject; any other write of a bid waits for an acceptance the same way.  *)

reject(w, r, d) ==
  bids[r][d] = "live" /\ NoticeEnter(w, "reject_load", r, d)

RejectLoad(w) ==
  /\ NoticeAt(w, "reject_load")
  /\ Free
  /\ NoticeGoto(w, "reject_save")
  /\ UNCHANGED <<noticeRows, serverVars>>

RejectSave(w) ==
  /\ NoticeAt(w, "reject_save")
  /\ Unlocked(w)
  /\ LET h == noticeJob[w] IN
       bids' = [bids EXCEPT ![h.request][h.driver] = "rejected"]
  /\ NoticeGoto(w, "reject_notify")
  /\ UNCHANGED <<deal, told, serverVars>>

RejectNotify(w) ==
  /\ NoticeAt(w, "reject_notify")
  /\ Notify("bid_rejected", noticeJob[w].driver, noticeJob[w].request)
  /\ NoticeFinish(w)
  /\ UNCHANGED <<bids, deal, serverVars>>

-----------------------------------------------------------------------------
(* acceptWithPrice: the checks, the updates of the bids, the notifications *)
(* through the pool, the commit.                                           *)

accept(w, r, d) ==
  /\ deal[r] = NoBidder /\ bids[r][d] = "live"
  /\ NoticeEnter(w, "award_write", r, d)

AwardWrite(w) ==
  /\ NoticeAt(w, "award_write")
  /\ Unlocked(w)
  /\ LET h == noticeJob[w] IN
       noticeJob' = [noticeJob EXCEPT
         ![w].pc = "notify_winner",
         ![w].bids = [d \in Bidders |->
            IF d = h.driver THEN "accepted"
            ELSE IF bids[h.request][d] = "live" THEN "rejected"
            ELSE bids[h.request][d]]]
  /\ UNCHANGED <<noticeRows, serverVars>>

MutLosers(b) == DOMAIN b
Losers(b) == {d \in DOMAIN b : b[d] = "rejected"}

NotifyWinner(w) ==
  /\ NoticeAt(w, "notify_winner")
  /\ Notify("bid_accepted", noticeJob[w].driver, noticeJob[w].request)
  /\ noticeJob' = [noticeJob EXCEPT ![w].pc = "notify_rejected",
                                    ![w].left = Losers(noticeJob[w].bids)]
  /\ UNCHANGED <<bids, deal, serverVars>>

NotifyRejected(w, d) ==
  /\ NoticeAt(w, "notify_rejected")
  /\ d \in noticeJob[w].left
  /\ Notify("bid_rejected", d, noticeJob[w].request)
  /\ noticeJob' = [noticeJob EXCEPT ![w].left = @ \ {d}]
  /\ UNCHANGED <<bids, deal, serverVars>>

NotifyClient(w) ==
  /\ NoticeAt(w, "notify_rejected")
  /\ noticeJob[w].left = {}
  /\ Notify("booking_created", NoBidder, noticeJob[w].request)
  /\ NoticeGoto(w, "commit")
  /\ UNCHANGED <<bids, deal, serverVars>>

Commit(w) ==
  /\ NoticeAt(w, "commit")
  /\ LET h == noticeJob[w] IN
       /\ bids' = [bids EXCEPT ![h.request] = h.bids]
       /\ deal' = [deal EXCEPT ![h.request] = h.driver]
  /\ NoticeFinish(w)
  /\ UNCHANGED <<told, serverVars>>

-----------------------------------------------------------------------------
(* confirmDelivery: the transaction ends before the parties are told.      *)

confirmDelivery(w, r) ==
  deal[r] # NoBidder /\ NoticeEnter(w, "deliver", r, deal[r])

Deliver(w) ==
  /\ NoticeAt(w, "deliver")
  /\ NoticeGoto(w, "notify_parties")
  /\ UNCHANGED <<noticeRows, serverVars>>

NotifyParties(w) ==
  /\ NoticeAt(w, "notify_parties")
  /\ Notify("booking_delivered", noticeJob[w].driver, noticeJob[w].request)
  /\ NoticeFinish(w)
  /\ UNCHANGED <<bids, deal, serverVars>>

(* A failed statement of a transaction rolls it back; the notifications    *)
(* already written stay.                                                   *)
NoticeFails(w) ==
  /\ ~NoticeAt(w, "idle")
  /\ Fault
  /\ NoticeFinish(w)
  /\ UNCHANGED noticeRows

-----------------------------------------------------------------------------
NoticesInit ==
  /\ bids = [r \in Requests |-> AllLive]
  /\ deal = [r \in Requests |-> NoBidder]
  /\ told = {}
  /\ noticeJob = [w \in Workers |-> NoticeIdle]

NoticeContinue(w) ==
  \/ RejectLoad(w) \/ RejectSave(w) \/ RejectNotify(w)
  \/ AwardWrite(w) \/ NotifyWinner(w) \/ NotifyClient(w) \/ Commit(w)
  \/ \E d \in Bidders : NotifyRejected(w, d)
  \/ Deliver(w) \/ NotifyParties(w)

NoticesNext ==
  \E w \in Workers :
    \/ \E r \in Requests :
         \/ \E d \in Bidders : reject(w, r, d) \/ accept(w, r, d)
         \/ confirmDelivery(w, r)
    \/ NoticeContinue(w) \/ NoticeFails(w)

NoticesSpec ==
  ServerInit /\ NoticesInit /\ [][NoticesNext]_<<noticeVars, serverVars>>

-----------------------------------------------------------------------------
(* Properties.                                                             *)

(* Types of the rows and of what the handlers hold.                        *)
Notice == {"bid_accepted", "bid_rejected", "booking_created",
           "booking_delivered"} \X (Bidders \union {NoBidder}) \X Requests

NoticesTypeOK ==
  /\ bids \in [Requests -> BidsOfRequest]
  /\ deal \in [Requests -> Bidders \union {NoBidder}]
  /\ told \subseteq Notice
  /\ noticeJob \in [Workers -> NoticeJob]

(* What a handler needs for its next statement.                            *)
Ready(w) ==
  LET pc == noticeJob[w].pc IN
    /\ pc \in {"reject_save", "award_write"} => Unlocked(w)
    /\ pc \notin Holding \ {"notify_winner", "notify_rejected", "notify_parties"}
         => Free

Stuck == Busy(noticeJob) # {} /\ \A w \in Busy(noticeJob) : ~Ready(w)

(* If no handler can go on, the pool is exhausted, and every connection is *)
(* kept by an acceptance that waits for another one to tell the drivers, or*)
(* by a handler that waits for the bids of such an acceptance; no two of   *)
(* these are of one request.  Nothing else exhausts the pool for good.     *)
StuckOnlyByAwards ==
  Stuck =>
    /\ ~Free
    /\ \A w \in In(Holding) : \E x \in In({"notify_winner", "notify_rejected"}) :
         {y \in In(AwardPcs \ {"award_write"}) :
            noticeJob[y].request = noticeJob[w].request} = {x}

NoticesQuiet == \A w \in Workers : NoticeAt(w, "idle")

(* Between handlers, drivers have been told exactly what is committed,     *)
(* although they are told before the commit, unless handlers overlapped or *)
(* a statement failed.                                                     *)
ToldOnlyCommitted ==
  solo /\ faults = 0 /\ NoticesQuiet =>
    \A r \in Requests, d \in Bidders :
      /\ <<"bid_accepted", d, r>> \in told <=> deal[r] = d
      /\ <<"bid_rejected", d, r>> \in told <=> bids[r][d] = "rejected"
=============================================================================
