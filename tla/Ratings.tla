------------------------------ MODULE Ratings -------------------------------
(***************************************************************************)
(* RatingsService.create, for the ratings one user receives: the ratings   *)
(* rows, and the two copies of their average, in users and, for a driver,  *)
(* in driver_profiles.  An average is known by the rows it was computed    *)
(* from, a row by its booking and the handler that inserted it.            *)
(***************************************************************************)
EXTENDS Server

CONSTANTS
  Bookings, NoBooking   \* whose other party may rate the user, and none

ASSUME RatingsAssumption == NoBooking \notin Bookings

VARIABLES
  ended,         \* bookings in a terminal status
  ratings,       \* the ratings rows
  average,       \* rows behind users.avg_rating and total_ratings
  isDriver,      \* there is a driver_profiles row
  driverAverage, \* rows behind driver_profiles.avg_rating
  alone,         \* history: the handler that runs has run alone
  ratingJob      \* what each handler holds between two statements

ratingRows == <<ended, ratings, average, isDriver, driverAverage>>
ratingVars == <<ended, ratings, average, isDriver, driverAverage, alone, ratingJob>>

-----------------------------------------------------------------------------
RatingPcs == {"idle", "existing_read", "rating_insert", "aggregate",
              "user_update", "profile_find", "profile_update", "profile_save"}

Rows == SUBSET (Bookings \X Workers)

(* seen: the rows behind the average the handler is to write.              *)
RatingJob == [pc : RatingPcs, booking : Bookings \union {NoBooking},
              seen : Rows]

RatingIdle == [pc |-> "idle", booking |-> NoBooking, seen |-> {}]

RatingAt(w, pc)   == ratingJob[w].pc = pc
RatingFinish(w)   == ratingJob' = [ratingJob EXCEPT ![w] = RatingIdle]
RatingGoto(w, pc) == ratingJob' = [ratingJob EXCEPT ![w].pc = pc]

RatingEnter(w, pc, b, seen) ==
  /\ RatingAt(w, "idle")
  /\ ratingJob' = [ratingJob EXCEPT ![w] =
                     [pc |-> pc, booking |-> b, seen |-> seen]]
  /\ alone' = (Busy(ratingJob) = {})
  /\ Enter(ratingJob)
  /\ UNCHANGED ratingRows

RowsOf(b) == {r \in ratings : r[1] = b}

-----------------------------------------------------------------------------
create(w, b) ==
  b \in ended /\ RatingEnter(w, "existing_read", b, {})

ExistingRead(w) ==
  /\ RatingAt(w, "existing_read")
  /\ IF RowsOf(ratingJob[w].booking) # {} THEN RatingFinish(w)
     ELSE RatingGoto(w, "rating_insert")
  /\ UNCHANGED <<ratingRows, alone, serverVars>>

UniqueRating(b) == RowsOf(b) = {}

RatingInsert(w) ==
  /\ RatingAt(w, "rating_insert")
  /\ LET b == ratingJob[w].booking IN
       IF UniqueRating(b)
       THEN ratings' = ratings \union {<<b, w>>} /\ RatingGoto(w, "aggregate")
       ELSE UNCHANGED ratings /\ RatingFinish(w)
  /\ UNCHANGED <<ended, average, isDriver, driverAverage, alone, serverVars>>

MutAggregate(w) ==
  /\ RatingAt(w, "aggregate")
  /\ ratingJob' = [ratingJob EXCEPT ![w].pc = "user_update",
                                    ![w].seen = average \union
                                                  RowsOf(ratingJob[w].booking)]
  /\ UNCHANGED <<ratingRows, alone, serverVars>>

Aggregate(w) ==
  /\ RatingAt(w, "aggregate")
  /\ ratingJob' = [ratingJob EXCEPT ![w].pc = "user_update",
                                    ![w].seen = ratings]
  /\ UNCHANGED <<ratingRows, alone, serverVars>>

UserUpdate(w) ==
  /\ RatingAt(w, "user_update")
  /\ average' = ratingJob[w].seen
  /\ RatingGoto(w, "profile_find")
  /\ UNCHANGED <<ended, ratings, isDriver, driverAverage, alone, serverVars>>

ProfileFind(w) ==
  /\ RatingAt(w, "profile_find")
  /\ IF isDriver THEN RatingGoto(w, "profile_update") ELSE RatingFinish(w)
  /\ UNCHANGED <<ratingRows, alone, serverVars>>

ProfileUpdate(w) ==
  /\ RatingAt(w, "profile_update")
  /\ driverAverage' = ratingJob[w].seen
  /\ RatingFinish(w)
  /\ UNCHANGED <<ended, ratings, average, isDriver, alone, serverVars>>

-----------------------------------------------------------------------------
(* What other services do to these rows: a booking ends, the user applies  *)
(* as a driver, and approve, reject or updateStatus load the profile and   *)
(* save it whole, the average it had when it was loaded included.          *)

BookingEnds(b) ==
  /\ b \notin ended
  /\ ended' = ended \union {b}
  /\ UNCHANGED <<ratings, average, isDriver, driverAverage, alone, ratingJob,
                 serverVars>>

ProfileCreated ==
  /\ ~isDriver
  /\ isDriver' = TRUE
  /\ alone' = FALSE
  /\ Enter(ratingJob)
  /\ UNCHANGED <<ended, ratings, average, driverAverage, ratingJob>>

LoadProfile(w) ==
  /\ isDriver
  /\ RatingEnter(w, "profile_save", NoBooking, driverAverage)

SaveProfile(w) ==
  /\ RatingAt(w, "profile_save")
  /\ driverAverage' = ratingJob[w].seen
  /\ RatingFinish(w)
  /\ UNCHANGED <<ended, ratings, average, isDriver, alone, serverVars>>

RatingFails(w) ==
  /\ ~RatingAt(w, "idle")
  /\ Fault
  /\ RatingFinish(w)
  /\ UNCHANGED <<ratingRows, alone>>

-----------------------------------------------------------------------------
RatingsInit ==
  /\ ended = {}
  /\ ratings = {}
  /\ average = {}
  /\ isDriver = FALSE
  /\ driverAverage = {}
  /\ alone = TRUE
  /\ ratingJob = [w \in Workers |-> RatingIdle]

RatingContinue(w) ==
  \/ ExistingRead(w) \/ RatingInsert(w) \/ Aggregate(w) \/ UserUpdate(w)
  \/ ProfileFind(w) \/ ProfileUpdate(w) \/ SaveProfile(w)

RatingsNext ==
  \/ \E w \in Workers :
       \/ \E b \in Bookings : create(w, b)
       \/ LoadProfile(w) \/ RatingContinue(w) \/ RatingFails(w)
  \/ \E b \in Bookings : BookingEnds(b)
  \/ ProfileCreated

RatingsSpec ==
  ServerInit /\ RatingsInit /\ [][RatingsNext]_<<ratingVars, serverVars>>

-----------------------------------------------------------------------------
(* Properties.                                                             *)

(* Types of the rows and of what the handlers hold.                        *)
RatingsTypeOK ==
  /\ ended \subseteq Bookings
  /\ ratings \in Rows
  /\ average \in Rows
  /\ isDriver \in BOOLEAN
  /\ driverAverage \in Rows
  /\ alone \in BOOLEAN
  /\ ratingJob \in [Workers -> RatingJob]

Heals(w) ==
  /\ alone /\ UNCHANGED faults
  /\ ratingJob[w].pc \in {"profile_find", "profile_update"}
  /\ ratingJob'[w].pc = "idle"
  => /\ average' = ratings'
     /\ isDriver' => driverAverage' = ratings'

(* A rating that ran alone leaves both averages computed from every row,   *)
(* whatever overlaps, failures and lost updates there were before it.      *)
RatingHeals == [][\A w \in Workers : Heals(w)]_<<ratingVars, serverVars>>
=============================================================================
