--------------------------- MODULE RatingsProofs ----------------------------
(***************************************************************************)
(* For any number of bookings, handlers and failures: a rating that ran    *)
(* alone mends both averages.  The invariant says what a handler that has  *)
(* run alone so far knows.                                                 *)
(***************************************************************************)
EXTENDS Ratings, TLAPS

rVars == <<ratingVars, serverVars>>

RatingOf == {"existing_read", "rating_insert", "aggregate", "user_update",
             "profile_find", "profile_update"}

RatesEnded ==
  \A w \in Workers :
    ratingJob[w].pc \in {"existing_read", "rating_insert"} =>
      ratingJob[w].booking \in ended

Alone(w) == \A x \in Workers \ {w} : ratingJob[x].pc = "idle"

Knows(w) ==
  /\ ratingJob[w].pc \in {"user_update", "profile_find", "profile_update"} =>
       ratingJob[w].seen = ratings
  /\ ratingJob[w].pc \in {"profile_find", "profile_update"} =>
       average = ratings
  /\ ratingJob[w].pc = "profile_update" => isDriver

(* The strengthening of RatingHeals.                                       *)
AloneKnows ==
  alone => \A w \in Workers :
    ratingJob[w].pc # "idle" => Alone(w) /\ Knows(w)

RatingsInv == RatingsTypeOK /\ RatesEnded /\ AloneKnows

LEMMA IdleTyped == RatingIdle \in RatingJob /\ RatingIdle.pc = "idle"
  BY DEF RatingIdle, RatingJob, RatingPcs, Rows

LEMMA RatingsInitial == RatingsInit => RatingsInv
<1> SUFFICES ASSUME RatingsInit PROVE RatingsInv  OBVIOUS
<1>1. RatingsTypeOK  BY IdleTyped DEF RatingsInit, RatingsTypeOK, Rows
<1>2. RatesEnded /\ AloneKnows
  BY IdleTyped DEF RatingsInit, RatesEnded, AloneKnows
<1> QED  BY <1>1, <1>2 DEF RatingsInv

-----------------------------------------------------------------------------
(* Types.                                                                  *)

LEMMA EnterTyped ==
  ASSUME RatingsTypeOK, NEW w \in Workers, NEW pc \in RatingPcs,
         NEW b \in Bookings \union {NoBooking}, NEW seen \in Rows,
         RatingEnter(w, pc, b, seen)
  PROVE  RatingsTypeOK'
<1>1. [pc |-> pc, booking |-> b, seen |-> seen] \in RatingJob  BY DEF RatingJob
<1> QED  BY <1>1 DEF RatingsTypeOK, RatingEnter, ratingRows

LEMMA ContinueTyped ==
  ASSUME RatingsTypeOK, RatesEnded, NEW w \in Workers,
         RatingContinue(w) \/ RatingFails(w)
  PROVE  RatingsTypeOK'
<1> USE IdleTyped DEF RatingsTypeOK, RatingAt
<1>1. ratingJob[w] \in RatingJob  OBVIOUS
<1>2. ASSUME NEW pc \in RatingPcs
      PROVE  [ratingJob EXCEPT ![w].pc = pc] \in [Workers -> RatingJob]
  BY <1>1 DEF RatingJob
<1>3. [ratingJob EXCEPT ![w] = RatingIdle] \in [Workers -> RatingJob]  OBVIOUS
<1>4. CASE ExistingRead(w)
  BY <1>2, <1>3, <1>4 DEF ExistingRead, RatingFinish, RatingGoto, RatingPcs,
     ratingRows
<1>5. CASE RatingInsert(w)
  <2>1. ratingJob[w].booking \in Bookings  BY <1>5 DEF RatingInsert, RatesEnded
  <2>2. ratings' \in Rows  BY <1>5, <2>1 DEF RatingInsert, Rows
  <2>3. ratingJob' \in [Workers -> RatingJob]
    BY <1>2, <1>3, <1>5 DEF RatingInsert, RatingFinish, RatingGoto, RatingPcs
  <2> QED  BY <1>5, <2>2, <2>3 DEF RatingInsert
<1>6. CASE Aggregate(w)
  <2>1. [ratingJob EXCEPT ![w].pc = "user_update", ![w].seen = ratings]
          \in [Workers -> RatingJob]
    BY <1>1 DEF RatingJob, RatingPcs
  <2> QED  BY <1>6, <2>1 DEF Aggregate, ratingRows
<1>7. CASE UserUpdate(w)
  <2>1. ratingJob[w].seen \in Rows  BY <1>1 DEF RatingJob
  <2> QED  BY <1>2, <1>7, <2>1 DEF UserUpdate, RatingGoto, RatingPcs
<1>8. CASE ProfileFind(w)
  BY <1>2, <1>3, <1>8 DEF ProfileFind, RatingFinish, RatingGoto, RatingPcs,
     ratingRows
<1>9. CASE ProfileUpdate(w) \/ SaveProfile(w)
  <2>1. ratingJob[w].seen \in Rows  BY <1>1 DEF RatingJob
  <2> QED  BY <1>3, <1>9, <2>1 DEF ProfileUpdate, SaveProfile, RatingFinish
<1>10. CASE RatingFails(w)
  BY <1>3, <1>10 DEF RatingFails, RatingFinish, ratingRows
<1> QED
  BY <1>4, <1>5, <1>6, <1>7, <1>8, <1>9, <1>10 DEF RatingContinue

-----------------------------------------------------------------------------
(* One lemma per kind of step.                                             *)

LEMMA CreateStep ==
  ASSUME RatingsInv, NEW w \in Workers, NEW b \in Bookings, create(w, b)
  PROVE  RatingsInv'
<1> USE DEF RatingsInv
<1>1. "existing_read" \in RatingPcs /\ {} \in Rows  BY DEF RatingPcs, Rows
<1>2. RatingsTypeOK'  BY <1>1, EnterTyped DEF create
<1>3. RatesEnded'
  BY DEF RatesEnded, create, RatingEnter, ratingRows, RatingsTypeOK
<1>4. AloneKnows'
  BY DEF AloneKnows, Alone, Knows, Busy, create, RatingEnter, ratingRows, RatingsTypeOK
<1> QED  BY <1>2, <1>3, <1>4

LEMMA LoadStep ==
  ASSUME RatingsInv, NEW w \in Workers, LoadProfile(w)
  PROVE  RatingsInv'
<1> USE DEF RatingsInv
<1>1. "profile_save" \in RatingPcs /\ driverAverage \in Rows
  BY DEF RatingPcs, RatingsTypeOK
<1>2. RatingsTypeOK'  BY <1>1, EnterTyped DEF LoadProfile
<1>3. RatesEnded'
  BY DEF RatesEnded, LoadProfile, RatingEnter, ratingRows, RatingsTypeOK
<1>4. AloneKnows'
  BY DEF AloneKnows, Alone, Knows, Busy, LoadProfile, RatingEnter, ratingRows,
     RatingsTypeOK
<1> QED  BY <1>2, <1>3, <1>4

LEMMA ContinueStep ==
  ASSUME RatingsInv, NEW w \in Workers, RatingContinue(w) \/ RatingFails(w)
  PROVE  RatingsInv'
<1> USE IdleTyped DEF RatingsInv, RatingAt
<1>0. RatingsTypeOK'  BY ContinueTyped
<1>1. RatesEnded'
  <2> USE DEF RatesEnded, RatingsTypeOK, RatingGoto, RatingFinish
  <2>0. /\ ratingJob[w] = [pc |-> ratingJob[w].pc, booking |-> ratingJob[w].booking,
                           seen |-> ratingJob[w].seen]
        /\ RatingIdle.pc = "idle"
    BY DEF RatingJob
  <2> USE <2>0
  <2>1. CASE ExistingRead(w)  BY <2>1 DEF ExistingRead, ratingRows
  <2>2. CASE RatingInsert(w)  BY <2>2 DEF RatingInsert
  <2>3. CASE Aggregate(w)  BY <2>3 DEF Aggregate, ratingRows
  <2>4. CASE UserUpdate(w)  BY <2>4 DEF UserUpdate
  <2>5. CASE ProfileFind(w)  BY <2>5 DEF ProfileFind, ratingRows
  <2>6. CASE ProfileUpdate(w) \/ SaveProfile(w)
    BY <2>6 DEF ProfileUpdate, SaveProfile
  <2>7. CASE RatingFails(w)  BY <2>7 DEF RatingFails, ratingRows
  <2> QED  BY <2>1, <2>2, <2>3, <2>4, <2>5, <2>6, <2>7 DEF RatingContinue
<1>2. AloneKnows'
  <2> SUFFICES ASSUME alone'
               PROVE  /\ ratingJob'[w].pc # "idle" => Knows(w)'
                      /\ Alone(w)'
    <3>1. \A x \in Workers \ {w} : ratingJob'[x] = ratingJob[x]
      BY DEF RatingsTypeOK, RatingContinue, RatingFails, ExistingRead,
         RatingInsert, Aggregate, UserUpdate, ProfileFind, ProfileUpdate,
         SaveProfile, RatingGoto, RatingFinish
    <3> QED  BY <3>1 DEF AloneKnows, Alone
  <2>1. alone /\ ratingJob[w].pc # "idle"
    BY DEF RatingContinue, RatingFails, ExistingRead, RatingInsert, Aggregate,
       UserUpdate, ProfileFind, ProfileUpdate, SaveProfile
  <2>2. Alone(w) /\ Knows(w)  BY <2>1 DEF AloneKnows
  <2>3. ratingJob[w] \in RatingJob  BY DEF RatingsTypeOK
  <2>4. Alone(w)'
    BY <2>2 DEF Alone, RatingsTypeOK, RatingContinue, RatingFails, ExistingRead,
       RatingInsert, Aggregate, UserUpdate, ProfileFind, ProfileUpdate,
       SaveProfile, RatingGoto, RatingFinish
  <2> USE <2>2, <2>3 DEF Knows, RatingsTypeOK, RatingJob, RatingGoto, RatingFinish
  <2>5. CASE ExistingRead(w)  BY <2>4, <2>5 DEF ExistingRead, ratingRows
  <2>6. CASE RatingInsert(w)  BY <2>4, <2>6 DEF RatingInsert
  <2>7. CASE Aggregate(w)  BY <2>4, <2>7 DEF Aggregate, ratingRows
  <2>8. CASE UserUpdate(w)  BY <2>4, <2>8 DEF UserUpdate
  <2>9. CASE ProfileFind(w)  BY <2>4, <2>9 DEF ProfileFind, ratingRows
  <2>10. CASE ProfileUpdate(w) \/ SaveProfile(w)
    BY <2>4, <2>10 DEF ProfileUpdate, SaveProfile
  <2>11. CASE RatingFails(w)  BY <2>4, <2>11 DEF RatingFails
  <2> QED
    BY <2>5, <2>6, <2>7, <2>8, <2>9, <2>10, <2>11 DEF RatingContinue
<1> QED  BY <1>0, <1>1, <1>2

LEMMA OthersStep ==
  ASSUME RatingsInv, (\E b \in Bookings : BookingEnds(b)) \/ ProfileCreated
  PROVE  RatingsInv'
<1>1. CASE ProfileCreated
  BY <1>1 DEF RatingsInv, RatingsTypeOK, RatesEnded,
     AloneKnows, Alone, Knows, ProfileCreated
<1>2. ASSUME NEW b \in Bookings, BookingEnds(b) PROVE RatingsInv'
  BY <1>2 DEF RatingsInv, RatingsTypeOK, RatesEnded,
     AloneKnows, Alone, Knows, BookingEnds
<1> QED  BY <1>1, <1>2

LEMMA RatingsStep == RatingsInv /\ [RatingsNext]_rVars => RatingsInv'
<1> SUFFICES ASSUME RatingsInv, [RatingsNext]_rVars PROVE RatingsInv'  OBVIOUS
<1>1. CASE RatingsNext
  BY <1>1, CreateStep, LoadStep, ContinueStep, OthersStep DEF RatingsNext
<1>2. CASE UNCHANGED rVars
  BY <1>2 DEF rVars, ratingVars, RatingsInv, RatingsTypeOK, RatesEnded, AloneKnows, Alone, Knows
<1> QED  BY <1>1, <1>2

LEMMA RatingHistory == ServerTypeOK /\ [RatingsNext]_rVars => ServerTypeOK'
<1> SUFFICES ASSUME ServerTypeOK, [RatingsNext]_rVars PROVE ServerTypeOK'  OBVIOUS
<1>1. \/ UNCHANGED serverVars
      \/ \E b \in BOOLEAN : solo' = (solo /\ b) /\ faults' = faults
      \/ Fault
  BY DEF rVars, RatingsNext, RatingContinue, RatingEnter, create, ExistingRead,
     RatingInsert, Aggregate, UserUpdate, ProfileFind, ProfileUpdate, LoadProfile,
     SaveProfile, RatingFails, BookingEnds, ProfileCreated, Enter, serverVars
<1> QED  BY <1>1, ServerAssumption DEF ServerTypeOK, serverVars, Fault

LEMMA RatingsInvariant == RatingsSpec => [](ServerTypeOK /\ RatingsInv)
<1>1. ServerInit /\ RatingsInit => ServerTypeOK /\ RatingsInv
  BY RatingsInitial, ServerAssumption DEF ServerInit, ServerTypeOK
<1>2. ServerTypeOK /\ RatingsInv /\ [RatingsNext]_rVars => (ServerTypeOK /\ RatingsInv)'
  BY RatingsStep, RatingHistory
<1> QED  BY <1>1, <1>2, PTL DEF RatingsSpec, rVars

-----------------------------------------------------------------------------
(* The rows and the handlers keep their types (ratings.service.ts:29-115). *)
THEOREM RatingsTypeCorrect == RatingsSpec => []RatingsTypeOK
<1>1. RatingsInv => RatingsTypeOK  BY DEF RatingsInv
<1> QED  BY <1>1, RatingsInvariant, PTL

LEMMA HealStep ==
  ServerTypeOK /\ RatingsInv /\ [RatingsNext]_rVars =>
    [\A w \in Workers : Heals(w)]_rVars
<1> SUFFICES ASSUME ServerTypeOK, RatingsInv, RatingsNext, NEW w \in Workers,
                    alone, UNCHANGED faults,
                    ratingJob[w].pc \in {"profile_find", "profile_update"},
                    ratingJob'[w].pc = "idle"
             PROVE  /\ average' = ratings'
                    /\ isDriver' => driverAverage' = ratings'
  BY DEF Heals
<1> USE DEF RatingsInv, RatingsTypeOK, AloneKnows, Alone, Knows, RatingAt
<1>1. ASSUME NEW x \in Workers, NEW b \in Bookings, create(x, b) PROVE FALSE
  BY <1>1 DEF create, RatingEnter
<1>2. ASSUME NEW x \in Workers, LoadProfile(x) PROVE FALSE
  BY <1>2 DEF LoadProfile, RatingEnter
<1>3. ASSUME NEW x \in Workers, RatingFails(x) PROVE FALSE
  <2>1. Fault  BY <1>3 DEF RatingFails
  <2>2. faults \in Nat  BY ServerAssumption DEF ServerTypeOK
  <2> QED  BY <2>1, <2>2 DEF Fault
<1>4. CASE (\E b \in Bookings : BookingEnds(b)) \/ ProfileCreated
  BY <1>4 DEF BookingEnds, ProfileCreated
<1>5. ASSUME NEW x \in Workers, RatingContinue(x) PROVE ProfileFind(w) \/ ProfileUpdate(w)
  <2>1. x = w
    BY <1>5 DEF RatingContinue, ExistingRead, RatingInsert, Aggregate,
       UserUpdate, ProfileFind, ProfileUpdate, SaveProfile
  <2> QED
    BY <1>5, <2>1 DEF RatingContinue, ExistingRead, RatingInsert, Aggregate,
       UserUpdate, SaveProfile
<1>6. CASE ProfileFind(w)
  <2>1. ratingJob[w] \in RatingJob  OBVIOUS
  <2>2. ~isDriver
    BY <1>6, <2>1 DEF ProfileFind, RatingGoto, RatingJob
  <2> QED  BY <1>6, <2>2 DEF ProfileFind, ratingRows
<1>7. CASE ProfileUpdate(w)  BY <1>7 DEF ProfileUpdate
<1> QED  BY <1>1, <1>2, <1>3, <1>4, <1>5, <1>6, <1>7 DEF RatingsNext

(* A rating that ran alone leaves both averages computed from every row,   *)
(* whatever was lost before it (ratings.service.ts:90-112).                *)
THEOREM RatingHealsHolds == RatingsSpec => RatingHeals
  BY RatingsInvariant, HealStep, PTL DEF RatingsSpec, RatingHeals, rVars
=============================================================================
