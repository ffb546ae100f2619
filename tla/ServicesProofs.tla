--------------------------- MODULE ServicesProofs ---------------------------
(***************************************************************************)
(* The services keep, with their steps interleaved in any way, what each   *)
(* was proved to keep alone.  They write different rows; what they share   *)
(* is the history of overlaps and failures, which the others only let grow *)
(* (Later), and no service's invariant is lost when it grows.              *)
(***************************************************************************)
EXTENDS Services, OtpProofs, DriversProofs, RatingsProofs, NotificationsProofs,
        ListingsProofs

EachHolds ==
  /\ ServerTypeOK
  /\ OtpInv /\ DriversInv /\ RatingsInv /\ PushInv /\ NoticesInv /\ ListingsInv

Later == ServerTypeOK' /\ (solo' => solo) /\ faults <= faults'

LEMMA EachHoldsInit == Start => EachHolds
<1> SUFFICES ASSUME Start PROVE EachHolds
  OBVIOUS
<1>1. ServerTypeOK
  BY ServerAssumption DEF Start, ServerInit, ServerTypeOK
<1> QED
  BY <1>1, OtpInvInit, DriversInvInit, RatingsInitial, PushInitial, NoticesInvInit,
     ListingsInitial DEF Start, EachHolds

-----------------------------------------------------------------------------
(* What a service does to the history.                                     *)

LEMMA LaterShape ==
  ASSUME ServerTypeOK,
         \/ UNCHANGED serverVars
         \/ \E b \in BOOLEAN : solo' = (solo /\ b) /\ faults' = faults
         \/ Fault
  PROVE  Later
BY ServerAssumption DEF ServerTypeOK, serverVars, Fault, Later

LEMMA LaterCodes ==
  ASSUME ServerTypeOK, OtpNext PROVE Later
<1>1. ASSUME NEW w \in Workers, OtpStart(w) PROVE Later
  <2>1. Enter(otpJob)
    BY <1>1 DEF OtpStart, requestOtp, verifyRegisterOtp, verifyLoginOtp,
       requestPhoneChangeOtp, verifyPhoneChangeOtp, OtpEnter
  <2> QED BY <2>1, LaterShape DEF Enter
<1>2. ASSUME NEW w \in Workers, OtpContinue(w) PROVE Later
  <2>1. UNCHANGED serverVars
    BY <1>2 DEF OtpContinue, TakenRead, CapRead, CapAdd, RequestUser, OtpRead,
       OtpDelete, OtpInsert, CodeRefused, WrongCode, RightCode, Compare, AttemptSave,
       CodeDelete, AccountRead, AccountInsert, TokenInsert, PhoneUpdate
  <2> QED BY <2>1, LaterShape
<1>3. ASSUME NEW w \in Workers, OtpFails(w) PROVE Later
  BY <1>3, LaterShape DEF OtpFails
<1>4. CASE Clock
  <2>1. UNCHANGED serverVars
    BY <1>4 DEF Clock, CooldownEnds, Expires, Ages, WindowSlides, FifteenDays
  <2> QED BY <2>1, LaterShape
<1> QED BY <1>1, <1>2, <1>3, <1>4 DEF OtpNext

LEMMA LaterDrivers ==
  ASSUME ServerTypeOK, DriversNext PROVE Later
<1>1. \/ UNCHANGED serverVars
      \/ \E b \in BOOLEAN : solo' = (solo /\ b) /\ faults' = faults
      \/ Fault
  BY DEF DriversNext, DriverStart, DriverContinue, DriverFails, DriverEnter, Enter,
     applyAsDriver, approveDriver, rejectDriver, Decide, updateStatus,
     handleLocationUpdate, getNearbyDrivers, AppliedRead, ProfileInsert, RoleUpdate,
     ProfileSave, StatusRead, PresenceWrite, PresenceUpsert, CellUpdate, EventInsert,
     ProfilesRead, refresh, RideMoves, Delivered, serverVars
<1> QED BY <1>1, LaterShape

LEMMA LaterRatings ==
  ASSUME ServerTypeOK, RatingsNext PROVE Later
<1>1. \/ UNCHANGED serverVars
      \/ \E b \in BOOLEAN : solo' = (solo /\ b) /\ faults' = faults
      \/ Fault
  BY DEF RatingsNext, RatingContinue, RatingEnter, create, ExistingRead,
     RatingInsert, Aggregate, UserUpdate, ProfileFind, ProfileUpdate, LoadProfile,
     SaveProfile, RatingFails, BookingEnds, ProfileCreated, Enter, serverVars
<1> QED BY <1>1, LaterShape

LEMMA LaterPush ==
  ASSUME ServerTypeOK, PushNext PROVE Later
<1>1. \/ UNCHANGED serverVars
      \/ \E b \in BOOLEAN : solo' = (solo /\ b) /\ faults' = faults
      \/ Fault
  BY DEF PushNext, setPushToken, sendToUser, Answered, NotRegistered, ClearToken,
     PushFails, DeviceDies, Enter, serverVars
<1> QED BY <1>1, LaterShape

LEMMA LaterNotices ==
  ASSUME ServerTypeOK, NoticesNext PROVE Later
<1>1. \/ UNCHANGED serverVars
      \/ \E b \in BOOLEAN : solo' = (solo /\ b) /\ faults' = faults
      \/ Fault
  BY DEF NoticesNext, reject, accept, confirmDelivery, NoticeEnter, Enter,
     NoticeContinue, RejectLoad, RejectSave, RejectNotify, AwardWrite, NotifyWinner,
     NotifyRejected, NotifyClient, Commit, Deliver, NotifyParties, NoticeFails,
     serverVars
<1> QED BY <1>1, LaterShape

-----------------------------------------------------------------------------
(* What another service does: the rows and handlers of this one stay, and  *)
(* the history grows.                                                      *)

LEMMA OtpLater ==
  ASSUME OtpInv, UNCHANGED otpVars, Later PROVE OtpInv'
<1>0. /\ UNCHANGED <<otps, issued, users, window, otpJob>>
      /\ solo' => solo
      /\ faults \in Nat /\ faults' \in Nat /\ faults <= faults'
  BY ServerAssumption DEF otpVars, Later, OtpInv, OtpCore, ServerTypeOK
<1>1. OtpCore'
  <2>1. OtpTypeOK' /\ ServerTypeOK'
    BY <1>0 DEF OtpInv, OtpCore, OtpTypeOK, Later
  <2>2. Future' /\ PhoneProved'
    BY <1>0 DEF OtpInv, OtpCore, Facts, Future, PhoneProved
  <2>3. CapInv'
    BY <1>0 DEF OtpInv, OtpCore, Facts, CapInv, Adding, OtpAt
  <2>4. \A w \in Workers : HeldOK(w)'
    BY <1>0 DEF OtpInv, OtpCore, Facts, HeldOK
  <2>5. PaidInv'
    BY <1>0 DEF OtpInv, OtpCore, PaidInv, Paying
  <2> QED BY <2>1, <2>2, <2>3, <2>4, <2>5 DEF OtpCore, Facts
<1>2. SUFFICES ASSUME solo' PROVE Serial'
  BY <1>1 DEF OtpInv, Serial
<1>3. Serial /\ solo
  BY <1>0, <1>2 DEF OtpInv
<1>4. \A c \in Codes : CodeOK(c)'
  <2>1. SUFFICES ASSUME NEW c \in Codes PROVE CodeOK(c)'
    OBVIOUS
  <2>2. CodeOK(c) /\ otps[c] \in Otp
    BY <1>3 DEF Serial, OtpInv, OtpCore, OtpTypeOK
  <2>3. otps[c].tries \in Nat /\ otps[c].attempts \in Nat /\ MaxAttempts \in Nat
    BY <2>2, OtpTyped, OtpAssumption
  <2>4. (Counting(c)' <=> Counting(c)) /\ (Winning(c)' <=> Winning(c))
    BY <1>0 DEF Counting, Winning
  <2> QED BY <1>0, <2>2, <2>3, <2>4 DEF CodeOK
<1>5. ASSUME NEW w \in Workers, otpJob'[w].pc # "idle" PROVE SoloOK(w)'
  <2>1. SoloOK(w)
    BY <1>0, <1>3, <1>5 DEF Serial
  <2>2. /\ otpJob[w].attempts \in Nat
        /\ \A c \in Codes : otps[c].tries \in Nat
    BY OtpTyped, OtpJobTyped, OtpAssumption DEF OtpInv, OtpCore, OtpTypeOK
  <2>3. otpJob[w].pc \in {"attempt_save", "code_delete"} => otpJob[w].code \in Codes
    BY DEF OtpInv, OtpCore, Facts, HeldOK, Winners
  <2>4. \A p : Registered(p)' <=> Registered(p)
    BY <1>0 DEF Registered, Holders
  <2> QED BY <1>0, <2>1, <2>2, <2>3, <2>4 DEF SoloOK, Winners
<1>6. OneRow' /\ \A v, w \in Workers :
                  otpJob'[v].pc # "idle" /\ otpJob'[w].pc # "idle" => v = w
  BY <1>0, <1>3 DEF Serial, OneRow
<1> QED BY <1>4, <1>5, <1>6 DEF Serial

LEMMA DriversLater ==
  ASSUME DriversInv, UNCHANGED driverVars, Later PROVE DriversInv'
<1>1. /\ UNCHANGED <<role, passes, profile, presence, ride, approved, lone, driverJob>>
      /\ ServerTypeOK' /\ (solo' => solo) /\ (faults' = 0 => faults = 0)
  BY ServerAssumption DEF driverVars, Later, DriversInv, ServerTypeOK
<1>2. DriversTypeOK' /\ Core'
  BY <1>1 DEF DriversInv, DriversTypeOK, Core, TripsNeverInvented, PassNeedsProfile,
     OnlineWasApproved, ApprovedWas, Whole, HoldsOK, HasProfile, Trip, DriverAt
<1>3. Solitary'
  BY <1>1 DEF DriversInv, Solitary, MidwayOK, Settled, DriversQuiet, DriverAt
<1>4. LoneWrote'
  BY <1>1 DEF DriversInv, LoneWrote, Wrote
<1> QED BY <1>1, <1>2, <1>3, <1>4 DEF DriversInv

LEMMA RatingsLater ==
  ASSUME RatingsInv, UNCHANGED ratingVars PROVE RatingsInv'
BY DEF RatingsInv, ratingVars, RatingsTypeOK, RatesEnded, AloneKnows,
   Alone, Knows

LEMMA PushLater ==
  ASSUME PushInv, UNCHANGED pushVars PROVE PushInv'
BY DEF PushInv, pushVars, PushTypeOK, TokenKept, InFlight

LEMMA NoticesLater ==
  ASSUME NoticesInv, UNCHANGED noticeVars, Later PROVE NoticesInv'
<1>1. /\ UNCHANGED <<bids, deal, told, noticeJob>>
      /\ ServerTypeOK' /\ (solo' => solo) /\ (faults' = 0 => faults = 0)
  BY ServerAssumption DEF noticeVars, Later, NoticesInv, ServerTypeOK
<1>2. NoticesTypeOK' /\ NoticeHeld' /\ AwardsApart'
  BY <1>1 DEF NoticesInv, NoticesTypeOK, NoticeHeld, AwardsApart, In
<1>3. Telling'
  BY <1>1 DEF NoticesInv, Telling, NoticeSolo, Pair, Matches, NoticesQuiet, NoticeAt
<1> QED BY <1>1, <1>2, <1>3 DEF NoticesInv

LEMMA ListingsLater ==
  ASSUME ListingsInv, UNCHANGED listVars PROVE ListingsInv'
BY ListingsStep

-----------------------------------------------------------------------------
(* The invariant of the services together.                                 *)

LEMMA EachHoldsStep ==
  ASSUME EachHolds, [Step]_serviceVars PROVE EachHolds'
<1>0. /\ ServerTypeOK /\ OtpInv /\ DriversInv /\ RatingsInv /\ PushInv
      /\ NoticesInv /\ ListingsInv
  BY DEF EachHolds
<1>1. CASE RunCodes
  <2>1. Later  BY <1>0, <1>1, LaterCodes DEF RunCodes
  <2>2. OtpInv'  BY <1>0, <1>1, OtpInvStep DEF RunCodes
  <2> QED
    BY <1>0, <1>1, <2>1, <2>2, DriversLater, RatingsLater, PushLater, NoticesLater,
       ListingsLater DEF RunCodes, EachHolds, Later
<1>2. CASE RunDrivers
  <2>1. Later  BY <1>0, <1>2, LaterDrivers DEF RunDrivers
  <2>2. DriversInv'  BY <1>0, <1>2, DriversInvStep DEF RunDrivers
  <2> QED
    BY <1>0, <1>2, <2>1, <2>2, OtpLater, RatingsLater, PushLater, NoticesLater,
       ListingsLater DEF RunDrivers, EachHolds, Later
<1>3. CASE RunRatings
  <2>1. Later  BY <1>0, <1>3, LaterRatings DEF RunRatings
  <2>2. RatingsInv'  BY <1>0, <1>3, RatingsStep DEF RunRatings
  <2> QED
    BY <1>0, <1>3, <2>1, <2>2, OtpLater, DriversLater, PushLater, NoticesLater,
       ListingsLater DEF RunRatings, EachHolds, Later
<1>4. CASE RunPush
  <2>1. Later  BY <1>0, <1>4, LaterPush DEF RunPush
  <2>2. PushInv'  BY <1>0, <1>4, PushStep DEF RunPush
  <2> QED
    BY <1>0, <1>4, <2>1, <2>2, OtpLater, DriversLater, RatingsLater, NoticesLater,
       ListingsLater DEF RunPush, EachHolds, Later
<1>5. CASE RunNotices
  <2>1. Later  BY <1>0, <1>5, LaterNotices DEF RunNotices
  <2>2. NoticesInv'  BY <1>0, <1>5, NoticesInvStep DEF RunNotices
  <2> QED
    BY <1>0, <1>5, <2>1, <2>2, OtpLater, DriversLater, RatingsLater, PushLater,
       ListingsLater DEF RunNotices, EachHolds, Later
<1>6. CASE RunLists \/ UNCHANGED serviceVars
  <2>1. /\ UNCHANGED <<otpVars, driverVars, ratingVars, pushVars, noticeVars>>
        /\ UNCHANGED serverVars /\ [ListingsNext]_listVars
    BY <1>6 DEF RunLists, serviceVars
  <2>2. Later  BY <1>0, <2>1, LaterShape
  <2>3. ListingsInv'  BY <1>0, <2>1, ListingsStep
  <2> QED
    BY <1>0, <2>1, <2>2, <2>3, OtpLater, DriversLater, RatingsLater, PushLater,
       NoticesLater DEF EachHolds, Later
<1> QED BY <1>1, <1>2, <1>3, <1>4, <1>5, <1>6 DEF Step

LEMMA EachHoldsAlways == Together => []EachHolds
<1>1. EachHolds /\ [Step]_serviceVars => EachHolds'
  BY EachHoldsStep
<1> QED BY <1>1, EachHoldsInit, PTL DEF Together

(* What each service promises.                                             *)
Promises ==
  /\ PhoneProved /\ CapHolds /\ GivenForRightCode
  /\ GuessesBounded /\ CodeUsedOnce /\ SpentCodeBuys /\ OneCodePerPhone
  /\ TripsNeverInvented /\ PassNeedsProfile /\ OnlineWasApproved
  /\ ApplicationWhole /\ PresenceAgrees /\ SearchMatchesHeatmap
  /\ TokenKept /\ ToldOnlyCommitted /\ StuckOnlyByAwards
  /\ SearchStopsAtFirst /\ PagesPartition

LEMMA EachPromises ==
  ASSUME EachHolds
  PROVE  /\ Promises
         /\ ServerTypeOK /\ OtpTypeOK /\ DriversTypeOK /\ RatingsTypeOK
         /\ PushTypeOK /\ NoticesTypeOK /\ ListingsTypeOK
BY OtpPromises, DriversPromises, NoticesPromises, ListingsPromises
   DEF EachHolds, RatingsInv, PushInv, Promises

LEMMA HealsBeside ==
  ASSUME EachHolds, [Step]_serviceVars
  PROVE  /\ [\A w \in Workers : Heals(w)]_<<ratingVars, serverVars>>
         /\ [\A w \in Workers : Placed(w)]_<<driverVars, serverVars>>
<1>1. [\A w \in Workers : Heals(w)]_<<ratingVars, serverVars>>
  <2>1. CASE RunRatings
    BY <2>1, HealStep DEF RunRatings, EachHolds, rVars
  <2>2. CASE ~RunRatings
    <3>1. UNCHANGED ratingVars
      BY <2>2 DEF Step, RunCodes, RunDrivers, RunPush, RunNotices, RunLists, serviceVars
    <3>2. ASSUME NEW w \in Workers PROVE Heals(w)
      BY <3>1 DEF Heals, ratingVars
    <3> QED BY <3>2
  <2> QED BY <2>1, <2>2
<1>2. [\A w \in Workers : Placed(w)]_<<driverVars, serverVars>>
  <2>1. CASE RunDrivers
    BY <2>1, PlacedStep DEF RunDrivers, EachHolds, dVars
  <2>2. CASE ~RunDrivers
    <3>1. UNCHANGED driverVars
      BY <2>2 DEF Step, RunCodes, RunRatings, RunPush, RunNotices, RunLists, serviceVars
    <3>2. ASSUME NEW w \in Workers PROVE Placed(w)
      BY <3>1 DEF Placed, driverVars
    <3> QED BY <3>2
  <2> QED BY <2>1, <2>2
<1> QED BY <1>1, <1>2

-----------------------------------------------------------------------------
(* What was proved of each service alone holds of all of them, whichever   *)
(* way their steps interleave: none needs the others to be silent.         *)
THEOREM ServicesKeepPromises == Together => []Promises /\ RatingHeals /\ PresenceHeals
<1>1. EachHolds => Promises
  BY EachPromises
<1>2. EachHolds /\ [Step]_serviceVars =>
        /\ [\A w \in Workers : Heals(w)]_<<ratingVars, serverVars>>
        /\ [\A w \in Workers : Placed(w)]_<<driverVars, serverVars>>
  BY HealsBeside
<1> QED BY <1>1, <1>2, EachHoldsAlways, PTL DEF Together, RatingHeals, PresenceHeals

(* The behaviours TLC checks, of one service each, are among those of the  *)
(* services together.                                                      *)
THEOREM AloneIsTogether == Spec => Together
<1>1. Init => Start
  BY DEF Init
<1>2. [Next]_vars => [Step]_serviceVars
  BY DEF Next, vars, SerialCodes, RacingCodes, Step
<1> QED BY <1>1, <1>2, PTL DEF Spec, Together

(* The rows, the handlers and the answers of all services keep their types.*)
THEOREM ServicesTypeCorrect == Spec => []TypeOK
<1>1. Init => part \in Parts
  BY DEF Init
<1>2. part \in Parts /\ [Next]_vars => (part \in Parts)'
  BY DEF Next, vars, SerialCodes, RacingCodes
<1>3. Spec => [](part \in Parts)
  BY <1>1, <1>2, PTL DEF Spec
<1>4. part \in Parts /\ EachHolds => TypeOK
  BY EachPromises DEF TypeOK
<1> QED BY <1>3, <1>4, AloneIsTogether, EachHoldsAlways, PTL
=============================================================================
