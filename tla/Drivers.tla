------------------------------ MODULE Drivers -------------------------------
(***************************************************************************)
(* One user who becomes a driver: the application, the administrator's     *)
(* decision, going online and offline, location updates on the tracking    *)
(* socket, and the search for nearby drivers.  The rows are the user's     *)
(* role, the driver_profiles row, and the driver_h3_presence row.          *)
(*                                                                         *)
(* approve, reject and updateStatus load the whole profile and save it;    *)
(* the other handlers write columns.  A definition named Mut... is a       *)
(* defective variant of the one after it that no action uses.              *)
(***************************************************************************)
EXTENDS Server

CONSTANTS
  Cells, NoCell,   \* H3 cells of the fine resolution, and none
  Ring             \* the cells a nearby search covers

ASSUME DriversAssumption == Ring \subseteq Cells /\ NoCell \notin Cells

VARIABLES
  role,        \* users.role
  passes,      \* roles in the tokens and sockets the user holds
  profile,     \* the driver_profiles row, if any
  presence,    \* h3_index of the driver_h3_presence row, if any
  ride,        \* a booking of this driver
  approved,    \* history: an administrator has approved the application
  lone,        \* history: the handler that runs has run alone
  driverJob    \* what each handler holds between two statements

driverVars == <<role, passes, profile, presence, ride, approved, lone, driverJob>>
driverRows == <<role, passes, profile, presence, ride, approved>>

-----------------------------------------------------------------------------
Roles == {"CLIENT", "DRIVER"}
Rides == {"NONE", "CONFIRMED", "IN_TRANSIT", "DELIVERED", "OVER"}

(* status NONE: there is no row.  cell is current_h3_index, trips is       *)
(* total_trips.                                                            *)
Profile == [status : {"NONE", "PENDING", "APPROVED", "REJECTED"},
            online : BOOLEAN, cell : Cells \union {NoCell}, trips : Nat]

NoProfile == [status |-> "NONE", online |-> FALSE, cell |-> NoCell, trips |-> 0]
Applied   == [NoProfile EXCEPT !.status = "PENDING"]

DriverPcs == {"idle", "applied_read", "profile_insert", "role_update",
              "profile_save", "status_read", "presence_write", "event_insert",
              "presence_upsert", "cell_update", "profiles_read"}

(* row: the profile the handler loaded and changed; cell: the position it  *)
(* was sent, none to go offline.                                           *)
DriverJob == [pc : DriverPcs, row : Profile, cell : Cells \union {NoCell}]

DriverIdle == [pc |-> "idle", row |-> NoProfile, cell |-> NoCell]

DriverAt(w, pc)   == driverJob[w].pc = pc
DriverFinish(w)   == driverJob' = [driverJob EXCEPT ![w] = DriverIdle]
DriverGoto(w, pc) == driverJob' = [driverJob EXCEPT ![w].pc = pc]

DriverEnter(w, pc, row, cell) ==
  /\ DriverAt(w, "idle")
  /\ driverJob' = [driverJob EXCEPT ![w] = [pc |-> pc, row |-> row, cell |-> cell]]
  /\ lone' = (Busy(driverJob) = {})
  /\ Enter(driverJob)
  /\ UNCHANGED driverRows

HasProfile == profile.status # "NONE"

-----------------------------------------------------------------------------
(* applyAsDriver, behind the guard that asks for a CLIENT token: the token *)
(* may be older than the role.  The profile's user_id is unique.           *)

applyAsDriver(w) ==
  /\ "CLIENT" \in passes
  /\ DriverEnter(w, IF role = "DRIVER" THEN "applied_read" ELSE "profile_insert",
                 NoProfile, NoCell)

AppliedRead(w) ==
  /\ DriverAt(w, "applied_read")
  /\ IF HasProfile THEN DriverFinish(w) ELSE DriverGoto(w, "profile_insert")
  /\ UNCHANGED <<driverRows, lone, serverVars>>

MutProfileInsert(w) ==
  /\ DriverAt(w, "profile_insert")
  /\ profile' = IF HasProfile THEN profile ELSE Applied
  /\ DriverFinish(w)
  /\ UNCHANGED <<role, passes, presence, ride, approved, lone, serverVars>>

ProfileInsert(w) ==
  /\ DriverAt(w, "profile_insert")
  /\ IF HasProfile
     THEN DriverFinish(w) /\ UNCHANGED profile
     ELSE profile' = Applied /\ DriverGoto(w, "role_update")
  /\ UNCHANGED <<role, passes, presence, ride, approved, lone, serverVars>>

RoleUpdate(w) ==
  /\ DriverAt(w, "role_update")
  /\ role' = "DRIVER"
  /\ DriverFinish(w)
  /\ UNCHANGED <<passes, profile, presence, ride, approved, lone, serverVars>>

(* login and refresh sign a token with the role of the moment; a socket    *)
(* keeps the role of the token it connected with.                          *)
MutRefresh ==
  /\ passes' = passes \union {"DRIVER"}
  /\ UNCHANGED <<role, profile, presence, ride, approved, lone, driverJob, serverVars>>

refresh ==
  /\ passes' = passes \union {role}
  /\ UNCHANGED <<role, profile, presence, ride, approved, lone, driverJob, serverVars>>

-----------------------------------------------------------------------------
(* The administrator's decision, on the whole row.                         *)

Decide(w, status) ==
  /\ HasProfile
  /\ DriverEnter(w, "profile_save", [profile EXCEPT !.status = status], NoCell)

approveDriver(w) == Decide(w, "APPROVED")
rejectDriver(w)  == Decide(w, "REJECTED")

ProfileSave(w) ==
  /\ DriverAt(w, "profile_save")
  /\ profile' = driverJob[w].row
  /\ approved' = (approved \/ driverJob[w].row.status = "APPROVED")
  /\ DriverFinish(w)
  /\ UNCHANGED <<role, passes, presence, ride, lone, serverVars>>

-----------------------------------------------------------------------------
(* updateStatus, behind ApprovedDriverGuard, which reads the profile first.*)

MutCanActivate == "DRIVER" \in passes /\ HasProfile
CanActivate == "DRIVER" \in passes /\ profile.status = "APPROVED"

updateStatus(w, cell) ==
  CanActivate /\ DriverEnter(w, "status_read", NoProfile, cell)

StatusRead(w) ==
  /\ DriverAt(w, "status_read")
  /\ LET cell == driverJob[w].cell IN
       driverJob' = [driverJob EXCEPT
         ![w].pc = "presence_write",
         ![w].row = IF cell = NoCell THEN [profile EXCEPT !.online = FALSE]
                    ELSE [profile EXCEPT !.online = TRUE, !.cell = cell]]
  /\ UNCHANGED <<driverRows, lone, serverVars>>

MutPresenceWrite(w) ==
  /\ DriverAt(w, "presence_write")
  /\ presence' = IF presence = NoCell THEN driverJob[w].cell ELSE presence
  /\ DriverGoto(w, "profile_save")
  /\ UNCHANGED <<role, passes, profile, ride, approved, lone, serverVars>>

(* Going online upserts the presence row, going offline deletes it.        *)
PresenceWrite(w) ==
  /\ DriverAt(w, "presence_write")
  /\ presence' = driverJob[w].cell
  /\ DriverGoto(w, "profile_save")
  /\ UNCHANGED <<role, passes, profile, ride, approved, lone, serverVars>>

-----------------------------------------------------------------------------
(* location_update on the tracking socket: only the booking's status and   *)
(* the socket's role are looked at, not whether the driver is online.      *)
(* Nothing reads the tracking_events rows, which are left out.             *)

handleLocationUpdate(w, cell) ==
  /\ "DRIVER" \in passes
  /\ ride = "IN_TRANSIT"
  /\ DriverEnter(w, "event_insert", NoProfile, cell)

EventInsert(w) ==
  /\ DriverAt(w, "event_insert")
  /\ DriverGoto(w, "presence_upsert")
  /\ UNCHANGED <<driverRows, lone, serverVars>>

PresenceUpsert(w) ==
  /\ DriverAt(w, "presence_upsert")
  /\ presence' = driverJob[w].cell
  /\ DriverGoto(w, "cell_update")
  /\ UNCHANGED <<role, passes, profile, ride, approved, lone, serverVars>>

MutCellUpdate(w) ==
  /\ DriverAt(w, "cell_update")
  /\ DriverFinish(w)
  /\ UNCHANGED <<driverRows, lone, serverVars>>

CellUpdate(w) ==
  /\ DriverAt(w, "cell_update")
  /\ profile' = IF HasProfile THEN [profile EXCEPT !.cell = driverJob[w].cell]
                ELSE profile
  /\ DriverFinish(w)
  /\ UNCHANGED <<role, passes, presence, ride, approved, lone, serverVars>>

-----------------------------------------------------------------------------
(* getNearbyDrivers (and getDriversInZone): the presence rows of the ring  *)
(* first, then the profiles of their drivers.                              *)

getNearbyDrivers(w) ==
  /\ presence \in Ring
  /\ DriverEnter(w, "profiles_read", NoProfile, NoCell)

Listed == profile.online /\ profile.status = "APPROVED"

ProfilesRead(w) ==
  /\ DriverAt(w, "profiles_read")
  /\ DriverFinish(w)
  /\ UNCHANGED <<driverRows, lone, serverVars>>

(* The heatmap counts the driver in the cell the profile has, whatever the *)
(* presence row says; coverage lists the cells with somebody.              *)
HeatCount(cells) == [c \in cells |-> IF Listed /\ profile.cell = c THEN 1 ELSE 0]
Coverage == {c \in Cells : HeatCount(Cells)[c] > 0}

-----------------------------------------------------------------------------
(* The booking's life is that of module Delivery; what matters here is the *)
(* column it increments.                                                   *)

MutRideMoves ==
  /\ \/ ride = "NONE" /\ approved /\ ride' = "CONFIRMED" /\ UNCHANGED profile
     \/ ride = "CONFIRMED" /\ ride' = "IN_TRANSIT" /\ UNCHANGED profile
     \/ /\ ride \in {"CONFIRMED", "IN_TRANSIT"} /\ ride' = "OVER"
        /\ profile' = [profile EXCEPT !.trips = @ + 1]
  /\ Enter(driverJob)
  /\ UNCHANGED <<role, passes, presence, approved, lone, driverJob>>

RideMoves ==
  /\ \/ ride = "NONE" /\ approved /\ ride' = "CONFIRMED"
     \/ ride = "CONFIRMED" /\ ride' = "IN_TRANSIT"
     \/ ride \in {"CONFIRMED", "IN_TRANSIT"} /\ ride' = "OVER"
  /\ Enter(driverJob)
  /\ UNCHANGED <<role, passes, profile, presence, approved, lone, driverJob>>

Delivered ==
  /\ ride = "IN_TRANSIT"
  /\ ride' = "DELIVERED"
  /\ profile' = [profile EXCEPT !.trips = @ + 1]
  /\ Enter(driverJob)
  /\ UNCHANGED <<role, passes, presence, approved, lone, driverJob>>

DriverFails(w) ==
  /\ ~DriverAt(w, "idle")
  /\ Fault
  /\ DriverFinish(w)
  /\ UNCHANGED <<driverRows, lone>>

-----------------------------------------------------------------------------
DriversInit ==
  /\ role = "CLIENT"
  /\ passes = {"CLIENT"}
  /\ profile = NoProfile
  /\ presence = NoCell
  /\ ride = "NONE"
  /\ approved = FALSE
  /\ lone = TRUE
  /\ driverJob = [w \in Workers |-> DriverIdle]

DriverStart(w) ==
  \/ applyAsDriver(w) \/ approveDriver(w) \/ rejectDriver(w)
  \/ \E cell \in Cells \union {NoCell} : updateStatus(w, cell)
  \/ \E cell \in Cells : handleLocationUpdate(w, cell)
  \/ getNearbyDrivers(w)

DriverContinue(w) ==
  \/ AppliedRead(w) \/ ProfileInsert(w) \/ RoleUpdate(w) \/ ProfileSave(w)
  \/ StatusRead(w) \/ PresenceWrite(w) \/ EventInsert(w) \/ PresenceUpsert(w)
  \/ CellUpdate(w) \/ ProfilesRead(w)

DriversNext ==
  \/ \E w \in Workers : DriverStart(w) \/ DriverContinue(w) \/ DriverFails(w)
  \/ refresh \/ RideMoves \/ Delivered

DriversSpec ==
  ServerInit /\ DriversInit /\ [][DriversNext]_<<driverVars, serverVars>>

-----------------------------------------------------------------------------
(* Properties.                                                             *)

(* Types of the rows and of what the handlers hold.                        *)
DriversTypeOK ==
  /\ role \in Roles
  /\ passes \subseteq Roles
  /\ profile \in Profile
  /\ presence \in Cells \union {NoCell}
  /\ ride \in Rides
  /\ approved \in BOOLEAN
  /\ lone \in BOOLEAN
  /\ driverJob \in [Workers -> DriverJob]

DriversQuiet == \A w \in Workers : DriverAt(w, "idle")

(* Between handlers an online driver's presence row and profile name one   *)
(* cell, unless handlers overlapped or failed: they are two writes, in two *)
(* tables, by two services.                                                *)
PresenceAgrees ==
  solo /\ faults = 0 /\ DriversQuiet /\ profile.online => presence = profile.cell

Placed(w) ==
  /\ lone /\ UNCHANGED faults
  /\ driverJob[w].cell # NoCell
  /\ driverJob[w].pc # "idle" /\ driverJob'[w].pc = "idle"
  => presence' = driverJob[w].cell /\ profile'.cell = driverJob[w].cell

(* Going online, or a position sent on the socket, puts the driver in that *)
(* cell in both tables if its handler ran alone, wherever overlapping and  *)
(* failed handlers before it had left the two.                             *)
PresenceHeals == [][\A w \in Workers : Placed(w)]_<<driverVars, serverVars>>

(* The nearby search goes by presence rows, the heatmap by profiles: in a  *)
(* ring they show the same driver, unless handlers overlapped or failed.   *)
SearchMatchesHeatmap ==
  solo /\ faults = 0 =>
    /\ \A w \in Workers : DriverAt(w, "profiles_read") /\ Listed =>
         \E c \in Ring : HeatCount(Ring)[c] = 1
    /\ DriversQuiet /\ Coverage \cap Ring # {} => presence \in Ring

(* A whole-row save that is late can lose the trip counted meanwhile; it   *)
(* never credits a trip that was not delivered.                            *)
TripsNeverInvented == profile.trips <= IF ride = "DELIVERED" THEN 1 ELSE 0

(* Whoever holds or can be given a DRIVER token has a profile.             *)
PassNeedsProfile == "DRIVER" \in passes \union {role} => HasProfile

(* Between handlers the user is a DRIVER exactly if the profile exists,    *)
(* with any number of applications at a time, unless a statement failed.   *)
ApplicationWhole ==
  faults = 0 /\ DriversQuiet => (role = "DRIVER" <=> HasProfile)

(* Nobody is online who was never approved, whatever stale row is saved.   *)
OnlineWasApproved == profile.online => approved
=============================================================================
