------------------------- MODULE NotificationsProofs -------------------------
(***************************************************************************)
(* Push tokens and notifications, for any number of tokens, pushes in      *)
(* flight, requests, drivers, handlers and connections.                    *)
(***************************************************************************)
EXTENDS Push, Notices, FiniteSetTheorems, TLAPS

-----------------------------------------------------------------------------
(* A push token is not lost.  The invariant says what a push in flight     *)
(* knows: as long as the client has not set its token meanwhile, the token *)
(* it read is the one the client wants, and one it is about to clear is    *)
(* dead or malformed.                                                      *)

pVars == <<pushVars, serverVars>>

(* The strengthening of TokenKept.                                         *)
InFlight ==
  ~raced => \A w \in Workers :
    /\ pushJob[w].pc # "idle" => pushJob[w].token = wanted
    /\ pushJob[w].pc = "clear" => pushJob[w].token \in dead \union Malformed

PushInv == PushTypeOK /\ TokenKept /\ InFlight

LEMMA PushInitial == PushInit => PushInv
<1> SUFFICES ASSUME PushInit PROVE PushInv  OBVIOUS
<1>1. PushIdle \in PushJob /\ PushIdle.pc = "idle"
  BY DEF PushIdle, PushJob, PushPcs
<1> QED
  BY <1>1 DEF PushInit, PushInv, PushTypeOK, TokenKept, InFlight

LEMMA SetToken ==
  ASSUME PushInv, NEW t \in Tokens \union {NoToken}, setPushToken(t)
  PROVE  PushInv'
<1> USE DEF PushInv, setPushToken
<1>1. PushTypeOK'  BY DEF PushTypeOK
<1>2. TokenKept'  BY DEF TokenKept
<1>3. InFlight'
  <2>1. CASE Busy(pushJob) = {}  BY <2>1 DEF InFlight, Busy
  <2>2. CASE Busy(pushJob) # {}  BY <2>2 DEF InFlight, PushTypeOK
  <2> QED  BY <2>1, <2>2
<1> QED  BY <1>1, <1>2, <1>3

LEMMA PushSteps ==
  ASSUME PushInv, NEW w \in Workers,
         sendToUser(w) \/ Answered(w) \/ NotRegistered(w) \/ ClearToken(w)
           \/ PushFails(w)
  PROVE  PushInv'
<1> USE PushAssumption DEF PushInv
<1>1. PushTypeOK'
  BY DEF PushTypeOK, PushJob, PushPcs, PushIdle, PushFinish, sendToUser,
     Answered, NotRegistered, ClearToken, PushFails
<1>2. TokenKept'
  BY DEF PushTypeOK, PushJob, TokenKept, InFlight, sendToUser, Answered,
     NotRegistered, ClearToken, PushFails
<1>3. CASE sendToUser(w)
  BY <1>1, <1>2, <1>3 DEF InFlight, TokenKept, sendToUser, PushTypeOK, PushJob
<1>4. CASE Answered(w)
  BY <1>1, <1>2, <1>4 DEF InFlight, Answered, PushFinish, PushIdle, PushTypeOK
<1>5. CASE NotRegistered(w)
  BY <1>1, <1>2, <1>5 DEF InFlight, NotRegistered, PushTypeOK, PushJob
<1>6. CASE ClearToken(w)
  BY <1>1, <1>2, <1>6 DEF InFlight, ClearToken, PushFinish, PushIdle, PushTypeOK
<1>7. CASE PushFails(w)
  BY <1>1, <1>2, <1>7 DEF InFlight, PushFails, PushFinish, PushIdle, PushTypeOK
<1> QED  BY <1>3, <1>4, <1>5, <1>6, <1>7

LEMMA DeviceDiesKeeps ==
  ASSUME PushInv, NEW t \in Tokens, DeviceDies(t)
  PROVE  PushInv'
  BY DEF PushInv, PushTypeOK, TokenKept, InFlight, DeviceDies

LEMMA PushStep == PushInv /\ [PushNext]_pVars => PushInv'
<1> SUFFICES ASSUME PushInv, [PushNext]_pVars PROVE PushInv'  OBVIOUS
<1>1. CASE PushNext
  BY <1>1, SetToken, PushSteps, DeviceDiesKeeps DEF PushNext
<1>2. CASE UNCHANGED pVars
  BY <1>2 DEF pVars, pushVars, PushInv, PushTypeOK, TokenKept, InFlight
<1> QED  BY <1>1, <1>2

LEMMA PushInvariant == PushSpec => []PushInv
<1>1. ServerInit /\ PushInit => PushInv  BY PushInitial
<1> QED  BY <1>1, PushStep, PTL DEF PushSpec, pVars

(* The token, the devices and the pushes in flight keep their types, for   *)
(* any number of pushes (push.service.ts:34-101).                          *)
THEOREM PushTypeCorrect == PushSpec => []PushTypeOK
<1>1. PushInv => PushTypeOK  BY DEF PushInv
<1> QED  BY <1>1, PushInvariant, PTL

(* Whatever pushes are in flight and however they end, the server takes    *)
(* the client's token away only when its device is dead or it is malformed,*)
(* as long as the client does not set it meanwhile (push.service.ts:92).   *)
THEOREM TokenKeptHolds == PushSpec => []TokenKept
<1>1. PushInv => TokenKept  BY DEF PushInv
<1> QED  BY <1>1, PushInvariant, PTL

-----------------------------------------------------------------------------
(* Notifications and the pool.  What the drivers have been told follows,   *)
(* while handlers neither overlap nor fail, from the rows and from how far *)
(* the one running handler has come (Pair); that only an acceptance can    *)
(* exhaust the pool for good follows from who waits for whom.              *)

nVars == <<noticeVars, serverVars>>

BidderPcs == AwardPcs \union {"reject_load", "reject_save", "reject_notify"}

NoticeHeld == \A w \in Workers :
  noticeJob[w].pc \in BidderPcs => noticeJob[w].driver \in Bidders

(* What the handler that runs alone knows of the rows.                     *)
NoticeSolo(w) ==
  LET h == noticeJob[w] IN
    /\ h.pc \in BidderPcs \ {"reject_notify"} =>
         bids[h.request][h.driver] = "live"
    /\ h.pc \in AwardPcs => deal[h.request] = NoBidder
    /\ h.pc \in AwardPcs \ {"award_write"} =>
         \A d \in Bidders : h.bids[d] =
           IF d = h.driver THEN "accepted"
           ELSE IF bids[h.request][d] = "live" THEN "rejected"
           ELSE bids[h.request][d]
    /\ h.pc = "notify_rejected" => \A d \in h.left : h.bids[d] = "rejected"
    /\ h.pc = "reject_notify" => bids[h.request][h.driver] = "rejected"

(* What it has told so far, beside what is committed.                      *)
Pair(w, r, d) ==
  LET h == noticeJob[w] IN
    /\ <<"bid_accepted", d, r>> \in told <=>
         \/ deal[r] = d
         \/ r = h.request /\ h.pc \in {"notify_rejected", "commit"} /\ d = h.driver
    /\ <<"bid_rejected", d, r>> \in told <=>
         \/ /\ bids[r][d] = "rejected"
            /\ ~(r = h.request /\ h.pc = "reject_notify" /\ d = h.driver)
         \/ /\ r = h.request /\ h.pc \in {"notify_rejected", "commit"}
            /\ h.bids[d] = "rejected"
            /\ h.pc = "notify_rejected" => d \notin h.left

Matches ==
  \A r \in Requests, d \in Bidders :
    /\ <<"bid_accepted", d, r>> \in told <=> deal[r] = d
    /\ <<"bid_rejected", d, r>> \in told <=> bids[r][d] = "rejected"

Telling ==
  solo /\ faults = 0 =>
    /\ \A v, w \in Workers :
         noticeJob[v].pc # "idle" /\ noticeJob[w].pc # "idle" => v = w
    /\ \A w \in Workers : noticeJob[w].pc # "idle" =>
         NoticeSolo(w) /\ \A r \in Requests, d \in Bidders : Pair(w, r, d)
    /\ NoticesQuiet => Matches

(* Acceptances that have written their bids are of different requests.     *)
WrittenPcs == AwardPcs \ {"award_write"}

AwardsApart ==
  \A x, y \in In(WrittenPcs) :
    noticeJob[x].request = noticeJob[y].request => x = y

NoticesInv ==
  ServerTypeOK /\ NoticesTypeOK /\ NoticeHeld /\ AwardsApart /\ Telling

LEMMA NoticeIdleTyped ==
  /\ NoticeIdle \in NoticeJob /\ NoticeIdle.pc = "idle"
  /\ AllLive \in BidsOfRequest
  BY NoticesAssumption
  DEF NoticeIdle, NoticeJob, NoticePcs, AllLive, BidsOfRequest

LEMMA NoticeTyped ==
  ASSUME NEW h \in NoticeJob
  PROVE  /\ h.pc \in NoticePcs /\ h.request \in Requests
         /\ h.driver \in Bidders \union {NoBidder}
         /\ h.bids \in BidsOfRequest /\ h.left \in SUBSET Bidders
  BY DEF NoticeJob

-----------------------------------------------------------------------------
(* The shape of a step: what becomes of the handler's job.                 *)

Beside(w) == \A x \in Workers \ {w} : noticeJob'[x] = noticeJob[x]

LEMMA NoticeEnterShape ==
  ASSUME NoticesTypeOK, ServerTypeOK, NEW w \in Workers, NEW pc \in NoticePcs,
         NEW r \in Requests, NEW d \in Bidders \union {NoBidder},
         NoticeEnter(w, pc, r, d)
  PROVE  /\ NoticesTypeOK' /\ ServerTypeOK' /\ Beside(w) /\ UNCHANGED noticeRows
         /\ noticeJob[w].pc = "idle"
         /\ noticeJob'[w].pc = pc /\ noticeJob'[w].request = r
         /\ noticeJob'[w].driver = d
         /\ UNCHANGED faults /\ (solo' => solo /\ Busy(noticeJob) = {})
<1>1. PICK h : h = [NoticeIdle EXCEPT !.pc = pc, !.request = r, !.driver = d]
  OBVIOUS
<1>2. h \in NoticeJob
  BY <1>1, NoticeIdleTyped DEF NoticeJob
<1>3. h.pc = pc /\ h.request = r /\ h.driver = d
  BY <1>1, NoticeIdleTyped DEF NoticeJob
<1>4. noticeJob' = [noticeJob EXCEPT ![w] = h]  BY <1>1 DEF NoticeEnter
<1>5. noticeJob'[w] = h /\ Beside(w) /\ noticeJob' \in [Workers -> NoticeJob]
  BY <1>2, <1>4 DEF NoticesTypeOK, Beside
<1>6. /\ UNCHANGED noticeRows /\ noticeJob[w].pc = "idle" /\ UNCHANGED faults
      /\ solo' \in BOOLEAN /\ (solo' => solo /\ Busy(noticeJob) = {})
  BY DEF NoticeEnter, Enter, NoticeAt, ServerTypeOK
<1> QED
  BY <1>3, <1>5, <1>6 DEF NoticesTypeOK, ServerTypeOK, noticeRows

LEMMA GotoShape ==
  ASSUME NoticesTypeOK, NEW w \in Workers, NEW pc \in NoticePcs, NoticeGoto(w, pc)
  PROVE  /\ noticeJob' \in [Workers -> NoticeJob] /\ Beside(w)
         /\ noticeJob'[w].pc = pc /\ noticeJob'[w].request = noticeJob[w].request
         /\ noticeJob'[w].driver = noticeJob[w].driver
         /\ noticeJob'[w].bids = noticeJob[w].bids
         /\ noticeJob'[w].left = noticeJob[w].left
<1>1. PICK h : h = [noticeJob[w] EXCEPT !.pc = pc]  OBVIOUS
<1>2. noticeJob[w] \in NoticeJob  BY DEF NoticesTypeOK
<1>3. /\ h \in NoticeJob /\ h.pc = pc /\ h.request = noticeJob[w].request
      /\ h.driver = noticeJob[w].driver /\ h.bids = noticeJob[w].bids
      /\ h.left = noticeJob[w].left
  BY <1>1, <1>2 DEF NoticeJob
<1>4. noticeJob' = [noticeJob EXCEPT ![w] = h]
  BY <1>1 DEF NoticeGoto, NoticesTypeOK
<1> QED  BY <1>3, <1>4 DEF NoticesTypeOK, Beside

LEMMA FinishShape ==
  ASSUME NoticesTypeOK, NEW w \in Workers, NoticeFinish(w)
  PROVE  /\ noticeJob' \in [Workers -> NoticeJob] /\ Beside(w)
         /\ noticeJob'[w].pc = "idle"
  BY NoticeIdleTyped DEF NoticeFinish, NoticesTypeOK, Beside

(* A handler that tells somebody: the new row, and nothing else is told.   *)
LEMMA NotifyShape ==
  ASSUME NEW t, NEW x, NEW q, Notify(t, x, q)
  PROVE  \A s, d, r : <<s, d, r>> \in told' <=>
           <<s, d, r>> \in told \/ (s = t /\ d = x /\ r = q)
  BY DEF Notify

LEMMA WriteShape ==
  ASSUME NoticesTypeOK, NoticeHeld, NEW w \in Workers, AwardWrite(w)
  PROVE  /\ noticeJob' \in [Workers -> NoticeJob] /\ Beside(w)
         /\ noticeJob'[w].pc = "notify_winner"
         /\ noticeJob'[w].request = noticeJob[w].request
         /\ noticeJob'[w].driver = noticeJob[w].driver
         /\ \A d \in Bidders : noticeJob'[w].bids[d] =
              IF d = noticeJob[w].driver THEN "accepted"
              ELSE IF bids[noticeJob[w].request][d] = "live" THEN "rejected"
              ELSE bids[noticeJob[w].request][d]
<1>1. noticeJob[w] \in NoticeJob /\ noticeJob[w].request \in Requests
  BY NoticeTyped DEF NoticesTypeOK
<1>2. PICK b : b = [d \in Bidders |->
            IF d = noticeJob[w].driver THEN "accepted"
            ELSE IF bids[noticeJob[w].request][d] = "live" THEN "rejected"
            ELSE bids[noticeJob[w].request][d]]
  OBVIOUS
<1>3. b \in BidsOfRequest  BY <1>1, <1>2 DEF NoticesTypeOK, BidsOfRequest
<1>4. PICK h : h = [noticeJob[w] EXCEPT !.pc = "notify_winner", !.bids = b]
  OBVIOUS
<1>5. /\ h \in NoticeJob /\ h.pc = "notify_winner"
      /\ h.request = noticeJob[w].request /\ h.driver = noticeJob[w].driver
      /\ h.bids = b
  BY <1>1, <1>3, <1>4 DEF NoticeJob, NoticePcs
<1>6. noticeJob' = [noticeJob EXCEPT ![w] = h]
  BY <1>2, <1>4 DEF AwardWrite, NoticesTypeOK
<1> QED  BY <1>2, <1>5, <1>6 DEF NoticesTypeOK, Beside

LEMMA WinnerShape ==
  ASSUME NoticesTypeOK, NEW w \in Workers, NotifyWinner(w)
  PROVE  /\ noticeJob' \in [Workers -> NoticeJob] /\ Beside(w)
         /\ noticeJob'[w].pc = "notify_rejected"
         /\ noticeJob'[w].request = noticeJob[w].request
         /\ noticeJob'[w].driver = noticeJob[w].driver
         /\ noticeJob'[w].bids = noticeJob[w].bids
         /\ noticeJob'[w].left = {d \in Bidders : noticeJob[w].bids[d] = "rejected"}
<1>1. noticeJob[w] \in NoticeJob /\ DOMAIN noticeJob[w].bids = Bidders
  BY NoticeTyped DEF NoticesTypeOK, BidsOfRequest
<1>2. PICK left : left = {d \in Bidders : noticeJob[w].bids[d] = "rejected"}
  OBVIOUS
<1>3. PICK h : h = [noticeJob[w] EXCEPT !.pc = "notify_rejected", !.left = left]
  OBVIOUS
<1>4. left \in SUBSET Bidders  BY <1>2
<1>5. /\ h \in NoticeJob /\ h.pc = "notify_rejected"
      /\ h.request = noticeJob[w].request /\ h.driver = noticeJob[w].driver
      /\ h.bids = noticeJob[w].bids /\ h.left = left
  BY <1>1, <1>3, <1>4 DEF NoticeJob, NoticePcs
<1>6. noticeJob' = [noticeJob EXCEPT ![w] = h]
  BY <1>1, <1>2, <1>3 DEF NotifyWinner, Losers, NoticesTypeOK
<1> QED  BY <1>2, <1>5, <1>6 DEF NoticesTypeOK, Beside

LEMMA RejectedShape ==
  ASSUME NoticesTypeOK, NEW w \in Workers, NEW d \in Bidders, NotifyRejected(w, d)
  PROVE  /\ noticeJob' \in [Workers -> NoticeJob] /\ Beside(w)
         /\ noticeJob'[w].pc = noticeJob[w].pc
         /\ noticeJob'[w].request = noticeJob[w].request
         /\ noticeJob'[w].driver = noticeJob[w].driver
         /\ noticeJob'[w].bids = noticeJob[w].bids
         /\ noticeJob'[w].left = noticeJob[w].left \ {d}
<1>1. noticeJob[w] \in NoticeJob /\ noticeJob[w].left \in SUBSET Bidders
  BY NoticeTyped DEF NoticesTypeOK
<1>2. PICK h : h = [noticeJob[w] EXCEPT !.left = @ \ {d}]  OBVIOUS
<1>3. /\ h \in NoticeJob /\ h.pc = noticeJob[w].pc
      /\ h.request = noticeJob[w].request /\ h.driver = noticeJob[w].driver
      /\ h.bids = noticeJob[w].bids /\ h.left = noticeJob[w].left \ {d}
  BY <1>1, <1>2 DEF NoticeJob
<1>4. noticeJob' = [noticeJob EXCEPT ![w] = h]
  BY <1>2 DEF NotifyRejected, NoticesTypeOK
<1> QED  BY <1>3, <1>4 DEF NoticesTypeOK, Beside

-----------------------------------------------------------------------------
(* Types, and the driver a handler works for.                              *)

LEMMA NoticeTypesContinue ==
  ASSUME NoticesTypeOK, ServerTypeOK, NoticeHeld,
         NEW w \in Workers, NoticeContinue(w)
  PROVE  /\ NoticesTypeOK' /\ ServerTypeOK' /\ NoticeHeld' /\ Beside(w)
         /\ UNCHANGED serverVars /\ noticeJob[w].pc # "idle"
<1>0. /\ noticeJob[w] \in NoticeJob /\ noticeJob[w].request \in Requests
      /\ noticeJob[w].driver \in Bidders \union {NoBidder}
      /\ noticeJob[w].bids \in BidsOfRequest
  BY NoticeTyped DEF NoticesTypeOK
<1>1. SUFFICES /\ NoticesTypeOK' /\ Beside(w)
               /\ UNCHANGED serverVars /\ noticeJob[w].pc # "idle"
               /\ noticeJob'[w].pc \in BidderPcs =>
                    noticeJob'[w].driver \in Bidders
  BY DEF NoticeHeld, Beside, ServerTypeOK, serverVars
<1>2. CASE RejectLoad(w)
  <2>1. NoticeGoto(w, "reject_save") /\ noticeJob[w].pc = "reject_load"
        /\ UNCHANGED <<noticeRows, serverVars>>
    BY <1>2 DEF RejectLoad, NoticeAt
  <2> QED  BY <2>1, GotoShape DEF NoticePcs, NoticesTypeOK, noticeRows, NoticeHeld, BidderPcs
<1>3. CASE RejectSave(w)
  <2>1. NoticeGoto(w, "reject_notify") /\ noticeJob[w].pc = "reject_save"
        /\ UNCHANGED <<deal, told, serverVars>>
    BY <1>3 DEF RejectSave, NoticeAt
  <2>2. bids' = [bids EXCEPT ![noticeJob[w].request][noticeJob[w].driver] = "rejected"]
    BY <1>3 DEF RejectSave
  <2>3. bids' \in [Requests -> BidsOfRequest]
    BY <1>0, <2>2 DEF NoticesTypeOK, BidsOfRequest
  <2> QED  BY <2>1, <2>3, GotoShape DEF NoticePcs, NoticesTypeOK, NoticeHeld, BidderPcs
<1>4. CASE RejectNotify(w)
  <2>1. NoticeFinish(w) /\ noticeJob[w].pc = "reject_notify"
        /\ UNCHANGED <<bids, deal, serverVars>>
    BY <1>4 DEF RejectNotify, NoticeAt
  <2>2. told' \subseteq Notice
    BY <1>0, <1>4 DEF RejectNotify, Notify, NoticesTypeOK, Notice
  <2> QED  BY <2>1, <2>2, FinishShape DEF NoticesTypeOK, BidderPcs, AwardPcs
<1>5. CASE AwardWrite(w)
  <2>1. noticeJob[w].pc = "award_write" /\ UNCHANGED <<noticeRows, serverVars>>
    BY <1>5 DEF AwardWrite, NoticeAt
  <2> QED  BY <1>5, <2>1, WriteShape DEF NoticesTypeOK, noticeRows, NoticeHeld, BidderPcs, AwardPcs
<1>6. CASE NotifyWinner(w)
  <2>1. noticeJob[w].pc = "notify_winner" /\ UNCHANGED <<bids, deal, serverVars>>
    BY <1>6 DEF NotifyWinner, NoticeAt
  <2>2. told' \subseteq Notice
    BY <1>0, <1>6 DEF NotifyWinner, Notify, NoticesTypeOK, Notice
  <2> QED  BY <1>6, <2>1, <2>2, WinnerShape DEF NoticesTypeOK, NoticeHeld, BidderPcs, AwardPcs
<1>7. CASE NotifyClient(w)
  <2>1. noticeJob[w].pc = "notify_rejected" /\ NoticeGoto(w, "commit")
        /\ UNCHANGED <<bids, deal, serverVars>>
    BY <1>7 DEF NotifyClient, NoticeAt
  <2>2. told' \subseteq Notice
    BY <1>0, <1>7 DEF NotifyClient, Notify, NoticesTypeOK, Notice
  <2> QED  BY <2>1, <2>2, GotoShape DEF NoticePcs, NoticesTypeOK, NoticeHeld, BidderPcs, AwardPcs
<1>8. CASE Commit(w)
  <2>1. noticeJob[w].pc = "commit" /\ NoticeFinish(w) /\ UNCHANGED <<told, serverVars>>
    BY <1>8 DEF Commit, NoticeAt
  <2>2. /\ bids' = [bids EXCEPT ![noticeJob[w].request] = noticeJob[w].bids]
        /\ deal' = [deal EXCEPT ![noticeJob[w].request] = noticeJob[w].driver]
    BY <1>8 DEF Commit
  <2>3. /\ bids' \in [Requests -> BidsOfRequest]
        /\ deal' \in [Requests -> Bidders \union {NoBidder}]
    BY <1>0, <2>2 DEF NoticesTypeOK
  <2> QED  BY <2>1, <2>3, FinishShape DEF NoticesTypeOK, BidderPcs, AwardPcs
<1>9. CASE \E d \in Bidders : NotifyRejected(w, d)
  <2>1. PICK d \in Bidders : NotifyRejected(w, d)  BY <1>9
  <2>2. noticeJob[w].pc = "notify_rejected" /\ UNCHANGED <<bids, deal, serverVars>>
    BY <2>1 DEF NotifyRejected, NoticeAt
  <2>3. told' \subseteq Notice
    BY <1>0, <2>1 DEF NotifyRejected, Notify, NoticesTypeOK, Notice
  <2> QED  BY <2>1, <2>2, <2>3, RejectedShape DEF NoticesTypeOK, NoticeHeld, BidderPcs, AwardPcs
<1>10. CASE Deliver(w)
  <2>1. noticeJob[w].pc = "deliver" /\ NoticeGoto(w, "notify_parties")
        /\ UNCHANGED <<noticeRows, serverVars>>
    BY <1>10 DEF Deliver, NoticeAt
  <2> QED  BY <2>1, GotoShape DEF NoticePcs, NoticesTypeOK, noticeRows, BidderPcs, AwardPcs
<1>11. CASE NotifyParties(w)
  <2>1. NoticeFinish(w) /\ noticeJob[w].pc = "notify_parties"
        /\ UNCHANGED <<bids, deal, serverVars>>
    BY <1>11 DEF NotifyParties, NoticeAt
  <2>2. told' \subseteq Notice
    BY <1>0, <1>11 DEF NotifyParties, Notify, NoticesTypeOK, Notice
  <2> QED  BY <2>1, <2>2, FinishShape DEF NoticesTypeOK, BidderPcs, AwardPcs
<1> QED
  BY <1>2, <1>3, <1>4, <1>5, <1>6, <1>7, <1>8, <1>9, <1>10, <1>11 DEF NoticeContinue

(* The three ways in: who enters, and for which driver.                    *)
Enters(w, pc, r, d) ==
  /\ NoticeEnter(w, pc, r, d)
  /\ \/ pc = "reject_load" /\ d \in Bidders /\ bids[r][d] = "live"
     \/ /\ pc = "award_write" /\ d \in Bidders
        /\ bids[r][d] = "live" /\ deal[r] = NoBidder
     \/ pc = "deliver" /\ d = deal[r]

LEMMA NoticeTypesEnters ==
  ASSUME NoticesTypeOK, ServerTypeOK, NoticeHeld, NEW w \in Workers,
         NEW pc, NEW r \in Requests, NEW d, Enters(w, pc, r, d)
  PROVE  /\ NoticesTypeOK' /\ ServerTypeOK' /\ NoticeHeld' /\ Beside(w)
         /\ UNCHANGED noticeRows
         /\ noticeJob[w].pc = "idle"
         /\ noticeJob'[w].pc = pc /\ noticeJob'[w].request = r
         /\ noticeJob'[w].driver = d
         /\ UNCHANGED faults /\ (solo' => solo /\ Busy(noticeJob) = {})
<1>1. pc \in NoticePcs /\ d \in Bidders \union {NoBidder}
  BY DEF Enters, NoticePcs, NoticesTypeOK
<1>2. pc \in BidderPcs => d \in Bidders
  BY DEF Enters, BidderPcs, AwardPcs
<1>3. NoticeEnter(w, pc, r, d)  BY DEF Enters
<1>4. /\ NoticesTypeOK' /\ ServerTypeOK' /\ Beside(w) /\ UNCHANGED noticeRows
      /\ noticeJob[w].pc = "idle"
      /\ noticeJob'[w].pc = pc /\ noticeJob'[w].request = r
      /\ noticeJob'[w].driver = d
      /\ UNCHANGED faults /\ (solo' => solo /\ Busy(noticeJob) = {})
  BY <1>1, <1>3, NoticeEnterShape
<1> QED  BY <1>2, <1>4 DEF NoticeHeld, Beside

LEMMA NoticeTypesFails ==
  ASSUME NoticesTypeOK, ServerTypeOK, NoticeHeld, NEW w \in Workers, NoticeFails(w)
  PROVE  /\ NoticesTypeOK' /\ ServerTypeOK' /\ NoticeHeld' /\ faults' # 0
<1>1. /\ NoticeFinish(w) /\ UNCHANGED noticeRows /\ UNCHANGED solo
      /\ faults' = faults + 1 /\ faults < MaxFaults
  BY DEF NoticeFails, Fault
<1>2. ServerTypeOK' /\ faults' # 0
  BY <1>1, ServerAssumption DEF ServerTypeOK
<1> QED
  BY <1>1, <1>2, FinishShape
  DEF NoticesTypeOK, noticeRows, NoticeHeld, Beside, BidderPcs, AwardPcs

LEMMA NoticeCases ==
  ASSUME NoticesTypeOK, NoticesNext
  PROVE  \E w \in Workers :
           \/ \E r \in Requests : \E pc, d : Enters(w, pc, r, d)
           \/ NoticeContinue(w) \/ NoticeFails(w)
<1>1. PICK w \in Workers :
        \/ \E r \in Requests :
             \/ \E d \in Bidders : reject(w, r, d) \/ accept(w, r, d)
             \/ confirmDelivery(w, r)
        \/ NoticeContinue(w) \/ NoticeFails(w)
  BY DEF NoticesNext
<1>2. ASSUME NEW r \in Requests, NEW d \in Bidders, reject(w, r, d)
      PROVE  Enters(w, "reject_load", r, d)
  BY <1>2 DEF reject, Enters
<1>3. ASSUME NEW r \in Requests, NEW d \in Bidders, accept(w, r, d)
      PROVE  Enters(w, "award_write", r, d)
  BY <1>3 DEF accept, Enters
<1>4. ASSUME NEW r \in Requests, confirmDelivery(w, r)
      PROVE  Enters(w, "deliver", r, deal[r])
  BY <1>4 DEF confirmDelivery, Enters
<1> QED  BY <1>1, <1>2, <1>3, <1>4

-----------------------------------------------------------------------------
(* Telling is kept: a handler that runs alone goes on from what it knows.  *)

AllPairs(w) == \A r \in Requests, d \in Bidders : Pair(w, r, d)

LEMMA TellingOnward ==
  ASSUME Telling, NEW w \in Workers, Beside(w), noticeJob[w].pc # "idle",
         UNCHANGED serverVars,
         NoticeSolo(w) /\ AllPairs(w) =>
           /\ noticeJob'[w].pc # "idle" => NoticeSolo(w)' /\ AllPairs(w)'
           /\ noticeJob'[w].pc = "idle" => Matches'
  PROVE  Telling'
<1> SUFFICES ASSUME solo', faults' = 0
             PROVE  /\ \A v, x \in Workers :
                         noticeJob'[v].pc # "idle" /\ noticeJob'[x].pc # "idle" => v = x
                    /\ \A x \in Workers : noticeJob'[x].pc # "idle" =>
                         NoticeSolo(x)' /\ AllPairs(x)'
                    /\ NoticesQuiet' => Matches'
  BY DEF Telling, AllPairs
<1>1. solo /\ faults = 0  BY DEF serverVars
<1>2. NoticeSolo(w) /\ AllPairs(w)  BY <1>1 DEF Telling, AllPairs
<1>3. \A x \in Workers \ {w} : noticeJob'[x].pc = "idle"
  BY <1>1 DEF Telling, Beside
<1>4. /\ noticeJob'[w].pc # "idle" => NoticeSolo(w)' /\ AllPairs(w)'
      /\ noticeJob'[w].pc = "idle" => Matches'
  BY <1>2
<1>5. NoticesQuiet' => noticeJob'[w].pc = "idle"
  BY DEF NoticesQuiet, NoticeAt
<1> QED  BY <1>3, <1>4, <1>5

LEMMA TellingEnters ==
  ASSUME NoticesInv, NEW w \in Workers,
         NEW pc, NEW r \in Requests, NEW d, Enters(w, pc, r, d)
  PROVE  Telling'
<1> SUFFICES ASSUME solo', faults' = 0
             PROVE  /\ \A v, x \in Workers :
                         noticeJob'[v].pc # "idle" /\ noticeJob'[x].pc # "idle" => v = x
                    /\ \A x \in Workers : noticeJob'[x].pc # "idle" =>
                         NoticeSolo(x)' /\ AllPairs(x)'
                    /\ NoticesQuiet' => Matches'
  BY DEF Telling, AllPairs
<1>1. /\ Beside(w) /\ UNCHANGED <<bids, deal, told>>
      /\ noticeJob'[w].pc = pc /\ noticeJob'[w].request = r
      /\ noticeJob'[w].driver = d
      /\ solo /\ faults = 0 /\ Busy(noticeJob) = {}
  BY NoticeTypesEnters DEF NoticesInv, noticeRows
<1>2. \A x \in Workers : noticeJob[x].pc = "idle"
  BY <1>1 DEF Busy
<1>3. Matches  BY <1>1, <1>2 DEF NoticesInv, Telling, NoticesQuiet, NoticeAt
<1>4. \A x \in Workers \ {w} : noticeJob'[x].pc = "idle"
  BY <1>1, <1>2 DEF Beside
<1>5. pc \in {"reject_load", "award_write", "deliver"}  BY DEF Enters
<1>6. NoticeSolo(w)'
  BY <1>1, <1>5 DEF NoticeSolo, Enters, BidderPcs, AwardPcs
<1>7. AllPairs(w)'
  BY <1>1, <1>3, <1>5 DEF AllPairs, Pair, Matches
<1>8. ~NoticesQuiet'  BY <1>1, <1>5 DEF NoticesQuiet, NoticeAt
<1> QED  BY <1>4, <1>6, <1>7, <1>8

LEMMA TellingContinue ==
  ASSUME NoticesInv, NEW w \in Workers, NoticeContinue(w)
  PROVE  Telling'
<1>0. /\ noticeJob[w] \in NoticeJob /\ noticeJob[w].request \in Requests
      /\ noticeJob[w].driver \in Bidders \union {NoBidder}
      /\ noticeJob[w].bids \in BidsOfRequest
      /\ noticeJob[w].left \in SUBSET Bidders
      /\ noticeJob[w].pc \in BidderPcs => noticeJob[w].driver \in Bidders
      /\ bids \in [Requests -> BidsOfRequest]
      /\ deal \in [Requests -> Bidders \union {NoBidder}]
      /\ NoticesTypeOK /\ NoticeHeld
  BY NoticeTyped DEF NoticesInv, NoticesTypeOK, NoticeHeld
<1>1. /\ Beside(w) /\ noticeJob[w].pc # "idle" /\ UNCHANGED serverVars
      /\ Telling
  BY NoticeTypesContinue DEF NoticesInv
<1>2. SUFFICES ASSUME NoticeSolo(w), AllPairs(w)
               PROVE  /\ noticeJob'[w].pc # "idle" => NoticeSolo(w)' /\ AllPairs(w)'
                      /\ noticeJob'[w].pc = "idle" => Matches'
  BY <1>1, TellingOnward
<1>3. CASE RejectLoad(w)
  <2>1. NoticeGoto(w, "reject_save") /\ noticeJob[w].pc = "reject_load"
        /\ UNCHANGED <<bids, deal, told>>
    BY <1>3 DEF RejectLoad, NoticeAt, noticeRows
  <2>2. /\ noticeJob'[w].pc = "reject_save"
        /\ noticeJob'[w].request = noticeJob[w].request
        /\ noticeJob'[w].driver = noticeJob[w].driver
    BY <1>0, <2>1, GotoShape DEF NoticePcs
  <2>3. NoticeSolo(w)'
    BY <1>2, <2>1, <2>2 DEF NoticeSolo, BidderPcs, AwardPcs
  <2>4. AllPairs(w)'  BY <1>2, <2>1, <2>2 DEF AllPairs, Pair
  <2> QED  BY <2>2, <2>3, <2>4
<1>4. CASE RejectSave(w)
  <2>1. NoticeGoto(w, "reject_notify") /\ noticeJob[w].pc = "reject_save"
        /\ UNCHANGED <<deal, told>>
        /\ bids' = [bids EXCEPT ![noticeJob[w].request][noticeJob[w].driver] = "rejected"]
    BY <1>4 DEF RejectSave, NoticeAt
  <2>2. /\ noticeJob'[w].pc = "reject_notify"
        /\ noticeJob'[w].request = noticeJob[w].request
        /\ noticeJob'[w].driver = noticeJob[w].driver
    BY <1>0, <2>1, GotoShape DEF NoticePcs
  <2>3. noticeJob[w].driver \in Bidders
        /\ bids[noticeJob[w].request][noticeJob[w].driver] = "live"
    BY <1>0, <1>2, <2>1 DEF NoticeSolo, BidderPcs, AwardPcs
  <2>4. \A r \in Requests, d \in Bidders : bids'[r][d] =
          IF r = noticeJob[w].request /\ d = noticeJob[w].driver
          THEN "rejected" ELSE bids[r][d]
    BY <1>0, <2>1, <2>3 DEF BidsOfRequest
  <2>5. NoticeSolo(w)'
    BY <1>0, <2>2, <2>3, <2>4 DEF NoticeSolo, BidderPcs, AwardPcs
  <2>6. ASSUME NEW r \in Requests, NEW d \in Bidders  PROVE Pair(w, r, d)'
    <3>1. Pair(w, r, d)  BY <1>2 DEF AllPairs
    <3> QED  BY <2>1, <2>2, <2>3, <2>4, <3>1 DEF Pair
  <2> QED  BY <2>2, <2>5, <2>6 DEF AllPairs
<1>5. CASE RejectNotify(w)
  <2>1. NoticeFinish(w) /\ noticeJob[w].pc = "reject_notify"
        /\ UNCHANGED <<bids, deal>>
        /\ Notify("bid_rejected", noticeJob[w].driver, noticeJob[w].request)
    BY <1>5 DEF RejectNotify, NoticeAt
  <2>2. noticeJob'[w].pc = "idle"  BY <1>0, <2>1, FinishShape
  <2>3. bids[noticeJob[w].request][noticeJob[w].driver] = "rejected"
    BY <1>2, <2>1 DEF NoticeSolo
  <2>4. \A s, d, r : <<s, d, r>> \in told' <=>
          \/ <<s, d, r>> \in told
          \/ s = "bid_rejected" /\ d = noticeJob[w].driver /\ r = noticeJob[w].request
    BY <2>1, NotifyShape
  <2>5. ASSUME NEW r \in Requests, NEW d \in Bidders
        PROVE  /\ <<"bid_accepted", d, r>> \in told' <=> deal'[r] = d
               /\ <<"bid_rejected", d, r>> \in told' <=> bids'[r][d] = "rejected"
    <3>1. Pair(w, r, d)  BY <1>2 DEF AllPairs
    <3>2. /\ <<"bid_accepted", d, r>> \in told' <=>
               <<"bid_accepted", d, r>> \in told
          /\ <<"bid_rejected", d, r>> \in told' <=>
               <<"bid_rejected", d, r>> \in told
                 \/ (d = noticeJob[w].driver /\ r = noticeJob[w].request)
      BY <2>4
    <3> QED  BY <2>1, <2>3, <3>1, <3>2 DEF Pair
  <2> QED  BY <2>2, <2>5 DEF Matches
<1>6. CASE AwardWrite(w)
  <2>1. noticeJob[w].pc = "award_write" /\ UNCHANGED <<bids, deal, told>>
    BY <1>6 DEF AwardWrite, NoticeAt, noticeRows
  <2>2. /\ noticeJob'[w].pc = "notify_winner"
        /\ noticeJob'[w].request = noticeJob[w].request
        /\ noticeJob'[w].driver = noticeJob[w].driver
        /\ \A d \in Bidders : noticeJob'[w].bids[d] =
              IF d = noticeJob[w].driver THEN "accepted"
              ELSE IF bids[noticeJob[w].request][d] = "live" THEN "rejected"
              ELSE bids[noticeJob[w].request][d]
    BY <1>0, <1>6, WriteShape
  <2>3. NoticeSolo(w)'
    BY <1>2, <2>1, <2>2 DEF NoticeSolo, BidderPcs, AwardPcs
  <2>4. ASSUME NEW r \in Requests, NEW d \in Bidders  PROVE Pair(w, r, d)'
    <3>1. Pair(w, r, d)  BY <1>2 DEF AllPairs
    <3> QED  BY <2>1, <2>2, <3>1 DEF Pair
  <2> QED  BY <2>2, <2>3, <2>4 DEF AllPairs
<1>7. CASE NotifyWinner(w)
  <2>1. noticeJob[w].pc = "notify_winner" /\ UNCHANGED <<bids, deal>>
        /\ Notify("bid_accepted", noticeJob[w].driver, noticeJob[w].request)
    BY <1>7 DEF NotifyWinner, NoticeAt
  <2>2. /\ noticeJob'[w].pc = "notify_rejected"
        /\ noticeJob'[w].request = noticeJob[w].request
        /\ noticeJob'[w].driver = noticeJob[w].driver
        /\ noticeJob'[w].bids = noticeJob[w].bids
        /\ noticeJob'[w].left = {d \in Bidders : noticeJob[w].bids[d] = "rejected"}
    BY <1>0, <1>7, WinnerShape
  <2>3. NoticeSolo(w)'
    BY <1>2, <2>1, <2>2 DEF NoticeSolo, BidderPcs, AwardPcs
  <2>4. \A s, d, r : <<s, d, r>> \in told' <=>
          \/ <<s, d, r>> \in told
          \/ s = "bid_accepted" /\ d = noticeJob[w].driver /\ r = noticeJob[w].request
    BY <2>1, NotifyShape
  <2>5. ASSUME NEW r \in Requests, NEW d \in Bidders  PROVE Pair(w, r, d)'
    <3>1. Pair(w, r, d)  BY <1>2 DEF AllPairs
    <3>2. /\ <<"bid_accepted", d, r>> \in told' <=>
               <<"bid_accepted", d, r>> \in told
                 \/ (d = noticeJob[w].driver /\ r = noticeJob[w].request)
          /\ <<"bid_rejected", d, r>> \in told' <=>
               <<"bid_rejected", d, r>> \in told
      BY <2>4
    <3> QED  BY <2>1, <2>2, <3>1, <3>2 DEF Pair
  <2> QED  BY <2>2, <2>3, <2>5 DEF AllPairs
<1>8. CASE NotifyClient(w)
  <2>1. noticeJob[w].pc = "notify_rejected" /\ UNCHANGED <<bids, deal>>
        /\ noticeJob[w].left = {} /\ NoticeGoto(w, "commit")
        /\ Notify("booking_created", NoBidder, noticeJob[w].request)
    BY <1>8 DEF NotifyClient, NoticeAt
  <2>2. /\ noticeJob'[w].pc = "commit"
        /\ noticeJob'[w].request = noticeJob[w].request
        /\ noticeJob'[w].driver = noticeJob[w].driver
        /\ noticeJob'[w].bids = noticeJob[w].bids
    BY <1>0, <2>1, GotoShape DEF NoticePcs
  <2>3. NoticeSolo(w)'
    BY <1>2, <2>1, <2>2 DEF NoticeSolo, BidderPcs, AwardPcs
  <2>4. \A s, d, r : <<s, d, r>> \in told' <=>
          \/ <<s, d, r>> \in told
          \/ s = "booking_created" /\ d = NoBidder /\ r = noticeJob[w].request
    BY <2>1, NotifyShape
  <2>5. ASSUME NEW r \in Requests, NEW d \in Bidders  PROVE Pair(w, r, d)'
    <3>1. Pair(w, r, d)  BY <1>2 DEF AllPairs
    <3>2. /\ <<"bid_accepted", d, r>> \in told' <=>
               <<"bid_accepted", d, r>> \in told
          /\ <<"bid_rejected", d, r>> \in told' <=>
               <<"bid_rejected", d, r>> \in told
      BY <2>4
    <3> QED  BY <2>1, <2>2, <3>1, <3>2 DEF Pair
  <2> QED  BY <2>2, <2>3, <2>5 DEF AllPairs
<1>9. CASE Commit(w)
  <2>1. noticeJob[w].pc = "commit" /\ NoticeFinish(w) /\ UNCHANGED told
        /\ bids' = [bids EXCEPT ![noticeJob[w].request] = noticeJob[w].bids]
        /\ deal' = [deal EXCEPT ![noticeJob[w].request] = noticeJob[w].driver]
    BY <1>9 DEF Commit, NoticeAt
  <2>2. noticeJob'[w].pc = "idle"  BY <1>0, <2>1, FinishShape
  <2>3. /\ noticeJob[w].driver \in Bidders
        /\ bids[noticeJob[w].request][noticeJob[w].driver] = "live"
        /\ deal[noticeJob[w].request] = NoBidder
        /\ \A d \in Bidders : noticeJob[w].bids[d] =
             IF d = noticeJob[w].driver THEN "accepted"
             ELSE IF bids[noticeJob[w].request][d] = "live" THEN "rejected"
             ELSE bids[noticeJob[w].request][d]
    BY <1>0, <1>2, <2>1 DEF NoticeSolo, BidderPcs, AwardPcs
  <2>4. \A r \in Requests :
          /\ bids'[r] = IF r = noticeJob[w].request THEN noticeJob[w].bids ELSE bids[r]
          /\ deal'[r] = IF r = noticeJob[w].request THEN noticeJob[w].driver ELSE deal[r]
    BY <1>0, <2>1
  <2>5. ASSUME NEW r \in Requests, NEW d \in Bidders
        PROVE  /\ <<"bid_accepted", d, r>> \in told' <=> deal'[r] = d
               /\ <<"bid_rejected", d, r>> \in told' <=> bids'[r][d] = "rejected"
    <3>1. Pair(w, r, d)  BY <1>2 DEF AllPairs
    <3>2. CASE r = noticeJob[w].request
      <4>1. <<"bid_accepted", d, r>> \in told' <=> deal'[r] = d
        BY <2>1, <2>3, <2>4, <3>1, <3>2, NoticesAssumption DEF Pair
      <4>2. bids[r][d] = "rejected" => noticeJob[w].bids[d] = "rejected"
        BY <2>3, <3>2
      <4>3. <<"bid_rejected", d, r>> \in told' <=> bids'[r][d] = "rejected"
        BY <2>1, <2>4, <3>1, <3>2, <4>2 DEF Pair
      <4> QED  BY <4>1, <4>3
    <3>3. CASE r # noticeJob[w].request
      BY <2>1, <2>4, <3>1, <3>3 DEF Pair
    <3> QED  BY <3>2, <3>3
  <2>6. Matches'  BY <2>5 DEF Matches
  <2> QED  BY <2>2, <2>6
<1>10. CASE \E e \in Bidders : NotifyRejected(w, e)
  <2>0. PICK e \in Bidders : NotifyRejected(w, e)  BY <1>10
  <2>1. noticeJob[w].pc = "notify_rejected" /\ UNCHANGED <<bids, deal>>
        /\ e \in noticeJob[w].left
        /\ Notify("bid_rejected", e, noticeJob[w].request)
    BY <2>0 DEF NotifyRejected, NoticeAt
  <2>2. /\ noticeJob'[w].pc = "notify_rejected"
        /\ noticeJob'[w].request = noticeJob[w].request
        /\ noticeJob'[w].driver = noticeJob[w].driver
        /\ noticeJob'[w].bids = noticeJob[w].bids
        /\ noticeJob'[w].left = noticeJob[w].left \ {e}
    BY <1>0, <2>0, <2>1, RejectedShape
  <2>3. NoticeSolo(w)'
    BY <1>2, <2>1, <2>2 DEF NoticeSolo, BidderPcs, AwardPcs
  <2>4. \A s, d, r : <<s, d, r>> \in told' <=>
          \/ <<s, d, r>> \in told
          \/ s = "bid_rejected" /\ d = e /\ r = noticeJob[w].request
    BY <2>1, NotifyShape
  <2>5. noticeJob[w].bids[e] = "rejected"
    BY <1>2, <2>1 DEF NoticeSolo
  <2>6. ASSUME NEW r \in Requests, NEW d \in Bidders  PROVE Pair(w, r, d)'
    <3>1. Pair(w, r, d)  BY <1>2 DEF AllPairs
    <3>2. /\ <<"bid_accepted", d, r>> \in told' <=>
               <<"bid_accepted", d, r>> \in told
          /\ <<"bid_rejected", d, r>> \in told' <=>
               <<"bid_rejected", d, r>> \in told
                 \/ (d = e /\ r = noticeJob[w].request)
      BY <2>4
    <3> QED  BY <2>1, <2>2, <2>5, <3>1, <3>2 DEF Pair
  <2> QED  BY <2>2, <2>3, <2>6 DEF AllPairs
<1>11. CASE Deliver(w)
  <2>1. NoticeGoto(w, "notify_parties") /\ noticeJob[w].pc = "deliver"
        /\ UNCHANGED <<bids, deal, told>>
    BY <1>11 DEF Deliver, NoticeAt, noticeRows
  <2>2. /\ noticeJob'[w].pc = "notify_parties"
        /\ noticeJob'[w].request = noticeJob[w].request
        /\ noticeJob'[w].driver = noticeJob[w].driver
    BY <1>0, <2>1, GotoShape DEF NoticePcs
  <2>3. NoticeSolo(w)'
    BY <2>2 DEF NoticeSolo, BidderPcs, AwardPcs
  <2>4. AllPairs(w)'  BY <1>2, <2>1, <2>2 DEF AllPairs, Pair
  <2> QED  BY <2>2, <2>3, <2>4
<1>12. CASE NotifyParties(w)
  <2>1. NoticeFinish(w) /\ noticeJob[w].pc = "notify_parties"
        /\ UNCHANGED <<bids, deal>>
        /\ Notify("booking_delivered", noticeJob[w].driver, noticeJob[w].request)
    BY <1>12 DEF NotifyParties, NoticeAt
  <2>2. noticeJob'[w].pc = "idle"  BY <1>0, <2>1, FinishShape
  <2>4. \A s, d, r : <<s, d, r>> \in told' <=>
          \/ <<s, d, r>> \in told
          \/ s = "booking_delivered" /\ d = noticeJob[w].driver /\ r = noticeJob[w].request
    BY <2>1, NotifyShape
  <2>5. ASSUME NEW r \in Requests, NEW d \in Bidders
        PROVE  /\ <<"bid_accepted", d, r>> \in told' <=> deal'[r] = d
               /\ <<"bid_rejected", d, r>> \in told' <=> bids'[r][d] = "rejected"
    <3>1. Pair(w, r, d)  BY <1>2 DEF AllPairs
    <3>2. /\ <<"bid_accepted", d, r>> \in told' <=>
               <<"bid_accepted", d, r>> \in told
          /\ <<"bid_rejected", d, r>> \in told' <=>
               <<"bid_rejected", d, r>> \in told
      BY <2>4
    <3> QED  BY <2>1, <3>1, <3>2 DEF Pair
  <2> QED  BY <2>2, <2>5 DEF Matches
<1> QED
  BY <1>3, <1>4, <1>5, <1>6, <1>7, <1>8, <1>9, <1>10, <1>11, <1>12
  DEF NoticeContinue

-----------------------------------------------------------------------------
LEMMA ApartEnters ==
  ASSUME NoticesTypeOK, ServerTypeOK, NoticeHeld, AwardsApart, NEW w \in Workers,
         NEW pc, NEW r \in Requests, NEW d, Enters(w, pc, r, d)
  PROVE  AwardsApart'
<1>1. Beside(w) /\ noticeJob'[w].pc = pc  BY NoticeTypesEnters
<1>2. pc \notin WrittenPcs  BY DEF Enters, WrittenPcs, AwardPcs
<1> QED  BY <1>1, <1>2 DEF AwardsApart, In, Beside

LEMMA ApartFails ==
  ASSUME NoticesTypeOK, AwardsApart, NEW w \in Workers, NoticeFails(w)
  PROVE  AwardsApart'
<1>1. Beside(w) /\ noticeJob'[w].pc = "idle"
  BY FinishShape DEF NoticeFails
<1>2. "idle" \notin WrittenPcs  BY DEF WrittenPcs, AwardPcs
<1> QED  BY <1>1, <1>2 DEF AwardsApart, In, Beside

(* Only the write of the bids makes an acceptance one that keeps others    *)
(* out, and it waits for the others of its request.                        *)
LEMMA ApartContinue ==
  ASSUME NoticesTypeOK, ServerTypeOK, NoticeHeld, AwardsApart,
         NEW w \in Workers, NoticeContinue(w)
  PROVE  AwardsApart'
<1>1. Beside(w)  BY NoticeTypesContinue
<1>2. CASE AwardWrite(w)
  <2>1. noticeJob'[w].request = noticeJob[w].request
    BY <1>2, WriteShape
  <2>2. \A x \in Workers \ {w} : noticeJob[x].pc \in WrittenPcs =>
          noticeJob[x].request # noticeJob[w].request
    BY <1>2 DEF AwardWrite, Unlocked, In, WrittenPcs
  <2> QED  BY <1>1, <2>1, <2>2 DEF AwardsApart, In, Beside
<1>3. CASE ~AwardWrite(w)
  <2>1. noticeJob'[w].pc \in WrittenPcs =>
          /\ noticeJob[w].pc \in WrittenPcs
          /\ noticeJob'[w].request = noticeJob[w].request
    <3>1. CASE RejectLoad(w) \/ RejectSave(w) \/ Deliver(w)
      <4>1. PICK pc \in {"reject_save", "reject_notify", "notify_parties"} :
              NoticeGoto(w, pc)
        BY <3>1 DEF RejectLoad, RejectSave, Deliver
      <4>2. noticeJob'[w].pc = pc  BY <4>1, GotoShape DEF NoticePcs
      <4> QED  BY <4>2 DEF WrittenPcs, AwardPcs
    <3>2. CASE RejectNotify(w) \/ Commit(w) \/ NotifyParties(w)
      <4>1. NoticeFinish(w)  BY <3>2 DEF RejectNotify, Commit, NotifyParties
      <4> QED  BY <4>1, FinishShape DEF WrittenPcs, AwardPcs
    <3>3. CASE NotifyWinner(w)
      <4>1. noticeJob[w].pc = "notify_winner"
        BY <3>3 DEF NotifyWinner, NoticeAt
      <4> QED  BY <3>3, <4>1, WinnerShape DEF WrittenPcs, AwardPcs
    <3>4. CASE NotifyClient(w)
      <4>1. noticeJob[w].pc = "notify_rejected" /\ NoticeGoto(w, "commit")
        BY <3>4 DEF NotifyClient, NoticeAt
      <4> QED  BY <4>1, GotoShape DEF NoticePcs, WrittenPcs, AwardPcs
    <3>5. CASE \E d \in Bidders : NotifyRejected(w, d)
      BY <3>5, RejectedShape
    <3> QED
      BY <1>3, <3>1, <3>2, <3>3, <3>4, <3>5 DEF NoticeContinue
  <2> QED  BY <1>1, <2>1 DEF AwardsApart, In, Beside
<1> QED  BY <1>2, <1>3

LEMMA NoticesInvInit ==
  ASSUME ServerTypeOK, NoticesInit
  PROVE  NoticesInv
<1>1. NoticesTypeOK
  BY NoticeIdleTyped DEF NoticesInit, NoticesTypeOK
<1>2. \A w \in Workers : noticeJob[w].pc = "idle"
  BY NoticeIdleTyped DEF NoticesInit
<1>3. NoticeHeld  BY <1>2 DEF NoticeHeld, BidderPcs, AwardPcs
<1>4. Matches
  BY NoticesAssumption DEF NoticesInit, Matches, AllLive
<1>5. Telling  BY <1>2, <1>4 DEF Telling
<1>6. AwardsApart  BY <1>2 DEF AwardsApart, In, WrittenPcs, AwardPcs
<1> QED  BY <1>1, <1>3, <1>5, <1>6 DEF NoticesInv

LEMMA NoticesInvStep ==
  ASSUME NoticesInv, [NoticesNext]_<<noticeVars, serverVars>>
  PROVE  NoticesInv'
<1>0. /\ NoticesTypeOK /\ ServerTypeOK /\ NoticeHeld
      /\ AwardsApart /\ Telling
  BY DEF NoticesInv
<1>1. CASE UNCHANGED <<noticeVars, serverVars>>
  <2>1. UNCHANGED <<bids, deal, told, noticeJob, solo, faults>>
    BY <1>1 DEF noticeVars, serverVars
  <2>2. NoticesTypeOK' /\ ServerTypeOK' /\ NoticeHeld'
    BY <1>0, <2>1 DEF NoticesTypeOK, ServerTypeOK, NoticeHeld
  <2>3. Telling'
    BY <1>0, <2>1 DEF Telling, NoticeSolo, Pair, Matches, NoticesQuiet, NoticeAt
  <2>4. AwardsApart'  BY <1>0, <2>1 DEF AwardsApart, In
  <2> QED  BY <2>2, <2>3, <2>4 DEF NoticesInv
<1>2. CASE NoticesNext
  <2>1. PICK w \in Workers :
           \/ \E r \in Requests : \E pc, d : Enters(w, pc, r, d)
           \/ NoticeContinue(w) \/ NoticeFails(w)
    BY <1>0, <1>2, NoticeCases
  <2>2. CASE \E r \in Requests : \E pc, d : Enters(w, pc, r, d)
    <3>1. PICK r \in Requests : \E pc, d : Enters(w, pc, r, d)  BY <2>2
    <3>2. PICK pc, d : Enters(w, pc, r, d)  BY <3>1
    <3>3. NoticesTypeOK' /\ ServerTypeOK' /\ NoticeHeld'
      BY <1>0, <3>2, NoticeTypesEnters
    <3>4. AwardsApart'  BY <1>0, <3>2, ApartEnters
    <3>5. Telling'  BY <3>2, TellingEnters
    <3> QED  BY <3>3, <3>4, <3>5 DEF NoticesInv
  <2>3. CASE NoticeContinue(w)
    <3>1. NoticesTypeOK' /\ ServerTypeOK' /\ NoticeHeld'
      BY <1>0, <2>3, NoticeTypesContinue
    <3>2. Telling'  BY <2>3, TellingContinue
    <3>3. AwardsApart'  BY <1>0, <2>3, ApartContinue
    <3> QED  BY <3>1, <3>2, <3>3 DEF NoticesInv
  <2>4. CASE NoticeFails(w)
    <3>1. NoticesTypeOK' /\ ServerTypeOK' /\ NoticeHeld' /\ faults' # 0
      BY <1>0, <2>4, NoticeTypesFails
    <3>2. AwardsApart'  BY <1>0, <2>4, ApartFails
    <3> QED  BY <3>1, <3>2 DEF NoticesInv, Telling
  <2> QED  BY <2>1, <2>2, <2>3, <2>4
<1> QED  BY <1>1, <1>2

LEMMA NoticesInvariant == NoticesSpec => []NoticesInv
<1>1. ServerInit /\ NoticesInit => NoticesInv
  BY NoticesInvInit, ServerAssumption DEF ServerInit, ServerTypeOK
<1>2. NoticesInv /\ [NoticesNext]_<<noticeVars, serverVars>> => NoticesInv'
  BY NoticesInvStep
<1> QED  BY <1>1, <1>2, PTL DEF NoticesSpec

LEMMA StuckInAwards ==
  ASSUME AwardsApart, Stuck
  PROVE  /\ ~Free
         /\ \A w \in In(Holding) :
              \E x \in In({"notify_winner", "notify_rejected"}) :
                {y \in In(WrittenPcs) :
                   noticeJob[y].request = noticeJob[w].request} = {x}
<1>0. /\ Busy(noticeJob) # {}
      /\ \A w \in Workers : noticeJob[w].pc # "idle" => ~Ready(w)
  BY DEF Stuck, Busy
<1>1. ASSUME Free  PROVE FALSE
  <2>1. PICK x \in Workers : noticeJob[x].pc # "idle" /\ ~Ready(x)
    BY <1>0 DEF Busy
  <2>2. ~Unlocked(x)  BY <1>1, <2>1 DEF Ready
  <2>3. PICK y \in Workers : noticeJob[y].pc \in AwardPcs \ {"award_write"}
    BY <2>2 DEF Unlocked, In
  <2>4. Ready(y)  BY <1>1, <2>3 DEF Ready, AwardPcs
  <2>5. noticeJob[y].pc # "idle"  BY <2>3 DEF AwardPcs
  <2> QED  BY <1>0, <2>4, <2>5
<1>2. ASSUME NEW w \in In(Holding)
      PROVE  \E x \in In({"notify_winner", "notify_rejected"}) :
                {y \in In(WrittenPcs) :
                   noticeJob[y].request = noticeJob[w].request} = {x}
  <2>1. w \in Workers /\ noticeJob[w].pc \in Holding /\ ~Ready(w)
    BY <1>0 DEF In, Holding, AwardPcs
  <2>2. PICK x \in Workers : /\ noticeJob[x].pc \in WrittenPcs
                             /\ noticeJob[x].request = noticeJob[w].request
    <3>1. CASE noticeJob[w].pc \in {"notify_winner", "notify_rejected"}
      BY <2>1, <3>1 DEF WrittenPcs, AwardPcs
    <3>2. CASE noticeJob[w].pc \notin {"notify_winner", "notify_rejected"}
      <4>1. ~Unlocked(w)  BY <2>1, <3>2 DEF Ready, Holding, AwardPcs
      <4> QED  BY <4>1 DEF Unlocked, In, WrittenPcs
    <3> QED  BY <3>1, <3>2
  <2>3. noticeJob[x].pc # "commit"
    <3>1. SUFFICES ASSUME noticeJob[x].pc = "commit"  PROVE FALSE  OBVIOUS
    <3>2. Ready(x)  BY <3>1 DEF Ready, Holding, AwardPcs
    <3> QED  BY <1>0, <3>1, <3>2
  <2>4. x \in In({"notify_winner", "notify_rejected"}) /\ x \in In(WrittenPcs)
    BY <2>2, <2>3 DEF In, WrittenPcs, AwardPcs
  <2>5. {y \in In(WrittenPcs) :
           noticeJob[y].request = noticeJob[w].request} = {x}
    BY <2>2, <2>4 DEF AwardsApart
  <2> QED  BY <2>4, <2>5
<1> QED  BY <1>1, <1>2

(* What the invariant gives.                                               *)
LEMMA NoticesPromises ==
  ASSUME NoticesInv
  PROVE  ServerTypeOK /\ NoticesTypeOK /\ ToldOnlyCommitted /\ StuckOnlyByAwards
<1>1. ToldOnlyCommitted
  BY DEF NoticesInv, Telling, Matches, ToldOnlyCommitted
<1>2. StuckOnlyByAwards
  BY StuckInAwards DEF NoticesInv, StuckOnlyByAwards, WrittenPcs
<1> QED  BY <1>1, <1>2 DEF NoticesInv

-----------------------------------------------------------------------------
(* The rows and the handlers of notifications have their types.            *)
THEOREM NoticesTypeCorrect == NoticesSpec => [](ServerTypeOK /\ NoticesTypeOK)
<1>1. NoticesInv => ServerTypeOK /\ NoticesTypeOK  BY NoticesPromises
<1> QED  BY <1>1, NoticesInvariant, PTL

(* Once every handler has ended, the drivers have been told exactly what   *)
(* acceptWithPrice and reject have committed, unless handlers overlapped   *)
(* or a statement failed: telling them before the commit is harmless then. *)
THEOREM ToldOnlyCommittedHolds == NoticesSpec => []ToldOnlyCommitted
<1>1. NoticesInv => ToldOnlyCommitted  BY NoticesPromises
<1> QED  BY <1>1, NoticesInvariant, PTL

(* If no handler can go on, the pool is exhausted, and each connection is  *)
(* kept for the one acceptance of a request that waits, inside its         *)
(* transaction, for a second connection: the handlers that use one         *)
(* connection at a time never block each other for good.                   *)
THEOREM StuckOnlyByAwardsHolds == NoticesSpec => []StuckOnlyByAwards
<1>1. NoticesInv => StuckOnlyByAwards  BY NoticesPromises
<1> QED  BY <1>1, NoticesInvariant, PTL
=============================================================================
