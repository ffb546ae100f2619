--------------------------- MODULE DriversProofs ----------------------------
(***************************************************************************)
(* The properties of Drivers, for any cells and any number of handlers and *)
(* failures.  Core is the part of the invariant that no overlap breaks:    *)
(* what a stale row, held between its load and its save, may still say.    *)
(* Solitary is the part under solo and without failures: where between two *)
(* writes presence row and profile may differ.  LoneWrote is the part of a *)
(* handler that runs alone, whatever there was before it.                  *)
(***************************************************************************)
EXTENDS Drivers, TLAPS

dVars == <<driverVars, serverVars>>

Trip == IF ride = "DELIVERED" THEN 1 ELSE 0

OfDriver == {"role_update", "profile_save", "status_read", "presence_write",
             "event_insert", "presence_upsert", "cell_update"}

(* What a handler holds, whatever the others do.                           *)
HoldsOK(w) ==
  LET h == driverJob[w] IN
    /\ h.row.trips <= Trip
    /\ h.pc \in OfDriver => HasProfile
    /\ h.pc \in {"presence_write", "profile_save"} => h.row.status # "NONE"
    /\ h.row.online => approved
    /\ h.pc = "status_read" => approved

ApprovedWas == profile.status = "APPROVED" => approved

Whole == faults = 0 /\ HasProfile =>
           role = "DRIVER" \/ \E w \in Workers : DriverAt(w, "role_update")

Core ==
  /\ TripsNeverInvented /\ PassNeedsProfile /\ OnlineWasApproved
  /\ ApprovedWas /\ Whole
  /\ \A w \in Workers : HoldsOK(w)

(* What a handler that runs alone leaves between its writes.               *)
Settled == profile.online => presence = profile.cell

MidwayOK(w) ==
  LET h == driverJob[w] IN
    /\ h.pc \notin {"presence_write", "profile_save", "cell_update"} => Settled
    /\ h.pc = "presence_write" /\ h.row.online => h.row.cell = h.cell
    /\ h.pc = "profile_save" /\ h.row.online => h.row.cell = presence
    /\ h.pc = "cell_update" => presence = h.cell
    /\ h.pc = "profiles_read" => presence \in Ring

Solitary ==
  solo /\ faults = 0 =>
    /\ \A v, w \in Workers : driverJob[v].pc # "idle" /\ driverJob[w].pc # "idle" => v = w
    /\ \A w \in Workers : driverJob[w].pc # "idle" => MidwayOK(w)
    /\ DriversQuiet => Settled

(* What a handler that was sent a cell and has run alone has written of it.*)
Wrote(w) ==
  LET h == driverJob[w] IN
    h.cell # NoCell =>
      /\ h.pc \in {"status_read", "presence_write", "profile_save",
                   "event_insert", "presence_upsert", "cell_update"}
      /\ h.pc \in {"presence_write", "profile_save"} => h.row.cell = h.cell
      /\ h.pc \in {"profile_save", "cell_update"} => presence = h.cell

LoneWrote ==
  lone => \A w \in Workers : driverJob[w].pc # "idle" =>
    /\ \A x \in Workers \ {w} : driverJob[x].pc = "idle"
    /\ Wrote(w)

DriversInv == ServerTypeOK /\ DriversTypeOK /\ Core /\ Solitary /\ LoneWrote

LEMMA IdleFacts ==
  /\ NoProfile \in Profile /\ NoProfile.status = "NONE" /\ ~NoProfile.online
  /\ NoProfile.trips = 0
  /\ Applied \in Profile /\ Applied.status = "PENDING" /\ ~Applied.online
  /\ Applied.trips = 0
  /\ DriverIdle \in DriverJob /\ DriverIdle.pc = "idle"
  /\ DriverIdle.row = NoProfile /\ DriverIdle.cell = NoCell
  BY DEF NoProfile, Applied, Profile, DriverIdle, DriverJob, DriverPcs

LEMMA JobTyped ==
  ASSUME NEW h \in DriverJob
  PROVE  /\ h.pc \in DriverPcs /\ h.row \in Profile /\ h.cell \in Cells \union {NoCell}
         /\ h.row.trips \in Nat /\ h.row.online \in BOOLEAN
         /\ h.row.cell \in Cells \union {NoCell}
  BY DEF DriverJob, Profile

-----------------------------------------------------------------------------
(* Types.                                                                  *)

LEMMA DriverEnterTyped ==
  ASSUME DriversTypeOK, ServerTypeOK, NEW w \in Workers, NEW pc \in DriverPcs,
         NEW row \in Profile, NEW cell \in Cells \union {NoCell},
         DriverEnter(w, pc, row, cell)
  PROVE  DriversTypeOK' /\ ServerTypeOK'
<1>1. [pc |-> pc, row |-> row, cell |-> cell] \in DriverJob  BY DEF DriverJob
<1> QED
  BY <1>1 DEF DriversTypeOK, ServerTypeOK, DriverEnter, Enter, driverRows

LEMMA DriverStartTyped ==
  ASSUME DriversTypeOK, ServerTypeOK, NEW w \in Workers, DriverStart(w)
  PROVE  DriversTypeOK' /\ ServerTypeOK'
<1>1. CASE applyAsDriver(w)
  BY <1>1, DriverEnterTyped, IdleFacts DEF applyAsDriver, DriverPcs
<1>2. ASSUME NEW status \in {"APPROVED", "REJECTED"}, Decide(w, status)
      PROVE  DriversTypeOK' /\ ServerTypeOK'
  <2>1. [profile EXCEPT !.status = status] \in Profile
    BY DEF DriversTypeOK, Profile
  <2> QED  BY <1>2, <2>1, DriverEnterTyped DEF Decide, DriverPcs
<1>3. ASSUME NEW cell \in Cells \union {NoCell}, updateStatus(w, cell)
      PROVE  DriversTypeOK' /\ ServerTypeOK'
  BY <1>3, DriverEnterTyped, IdleFacts DEF updateStatus, DriverPcs
<1>4. ASSUME NEW cell \in Cells, handleLocationUpdate(w, cell)
      PROVE  DriversTypeOK' /\ ServerTypeOK'
  BY <1>4, DriverEnterTyped, IdleFacts DEF handleLocationUpdate, DriverPcs
<1>5. CASE getNearbyDrivers(w)
  BY <1>5, DriverEnterTyped, IdleFacts DEF getNearbyDrivers, DriverPcs
<1> QED
  BY <1>1, <1>2, <1>3, <1>4, <1>5 DEF DriverStart, approveDriver, rejectDriver

LEMMA DriverContinueTyped ==
  ASSUME DriversTypeOK, ServerTypeOK, NEW w \in Workers,
         DriverContinue(w) \/ DriverFails(w)
  PROVE  DriversTypeOK' /\ ServerTypeOK'
<1> USE IdleFacts DEF DriversTypeOK, ServerTypeOK, serverVars, driverRows
<1>1. driverJob[w] \in DriverJob  OBVIOUS
<1>2. ASSUME NEW pc \in DriverPcs
      PROVE  [driverJob EXCEPT ![w].pc = pc] \in [Workers -> DriverJob]
  BY <1>1 DEF DriverJob
<1>3. [driverJob EXCEPT ![w] = DriverIdle] \in [Workers -> DriverJob]  OBVIOUS
<1>4. CASE AppliedRead(w)
  BY <1>2, <1>3, <1>4 DEF AppliedRead, DriverFinish, DriverGoto, DriverPcs
<1>5. CASE ProfileInsert(w)
  BY <1>2, <1>3, <1>5 DEF ProfileInsert, DriverFinish, DriverGoto, DriverPcs
<1>6. CASE RoleUpdate(w)  BY <1>3, <1>6 DEF RoleUpdate, DriverFinish, Roles
<1>7. CASE ProfileSave(w)
  <2>1. driverJob[w].row \in Profile  BY <1>1 DEF DriverJob
  <2>2. approved' \in BOOLEAN  BY <1>7 DEF ProfileSave
  <2> QED  BY <1>3, <1>7, <2>1, <2>2 DEF ProfileSave, DriverFinish
<1>8. CASE StatusRead(w)
  <2>1. PICK row : row = IF driverJob[w].cell = NoCell
                         THEN [profile EXCEPT !.online = FALSE]
                         ELSE [profile EXCEPT !.online = TRUE,
                                              !.cell = driverJob[w].cell]
    OBVIOUS
  <2>2. row \in Profile  BY <1>1, <2>1 DEF Profile, DriverJob
  <2>3. driverJob' = [driverJob EXCEPT ![w].pc = "presence_write", ![w].row = row]
    BY <1>8, <2>1 DEF StatusRead
  <2>4. driverJob' \in [Workers -> DriverJob]
    BY <1>1, <2>2, <2>3 DEF DriverJob, DriverPcs
  <2> QED  BY <1>8, <2>4 DEF StatusRead
<1>9. CASE PresenceWrite(w)
  <2>1. driverJob[w].cell \in Cells \union {NoCell}  BY <1>1 DEF DriverJob
  <2> QED  BY <1>2, <1>9, <2>1 DEF PresenceWrite, DriverGoto, DriverPcs
<1>10. CASE EventInsert(w)
  BY <1>2, <1>10 DEF EventInsert, DriverGoto, DriverPcs
<1>11. CASE PresenceUpsert(w)
  <2>1. driverJob[w].cell \in Cells \union {NoCell}  BY <1>1 DEF DriverJob
  <2> QED  BY <1>2, <1>11, <2>1 DEF PresenceUpsert, DriverGoto, DriverPcs
<1>12. CASE CellUpdate(w)
  <2>1. driverJob[w].cell \in Cells \union {NoCell}  BY <1>1 DEF DriverJob
  <2>2. [profile EXCEPT !.cell = driverJob[w].cell] \in Profile
    BY <2>1 DEF Profile
  <2> QED  BY <1>3, <1>12, <2>2 DEF CellUpdate, DriverFinish
<1>13. CASE ProfilesRead(w)
  BY <1>3, <1>13 DEF ProfilesRead, DriverFinish
<1>14. CASE DriverFails(w)
  BY <1>3, <1>14, ServerAssumption DEF DriverFails, DriverFinish, Fault
<1> QED
  BY <1>4, <1>5, <1>6, <1>7, <1>8, <1>9, <1>10, <1>11, <1>12, <1>13, <1>14
  DEF DriverContinue

LEMMA DriverOthersTyped ==
  ASSUME DriversTypeOK, ServerTypeOK, refresh \/ RideMoves \/ Delivered
  PROVE  DriversTypeOK' /\ ServerTypeOK'
<1> USE DEF DriversTypeOK, ServerTypeOK, Enter, serverVars
<1>1. CASE refresh  BY <1>1 DEF refresh
<1>2. CASE RideMoves  BY <1>2 DEF RideMoves, Rides
<1>3. CASE Delivered
  <2>1. [profile EXCEPT !.trips = @ + 1] \in Profile  BY DEF Profile
  <2> QED  BY <1>3, <2>1 DEF Delivered, Rides
<1> QED  BY <1>1, <1>2, <1>3

-----------------------------------------------------------------------------
(* Core is kept by every step, overlapping or not.                         *)

LEMMA CoreStart ==
  ASSUME DriversInv, NEW w \in Workers, NEW pc \in DriverPcs, NEW row \in Profile,
         NEW cell \in Cells \union {NoCell}, DriverEnter(w, pc, row, cell),
         row.trips <= Trip, row.online => approved,
         pc \in OfDriver => HasProfile,
         pc = "status_read" => approved,
         pc \in {"presence_write", "profile_save"} => row.status # "NONE",
         pc # "role_update"
  PROVE  Core'
<1> USE DEF DriversInv, Core, DriversTypeOK
<1>1. UNCHANGED driverRows /\ UNCHANGED faults  BY DEF DriverEnter, Enter
<1>2. driverJob'[w] = [pc |-> pc, row |-> row, cell |-> cell]
      /\ \A x \in Workers \ {w} : driverJob'[x] = driverJob[x]
  BY DEF DriverEnter
<1>3. TripsNeverInvented' /\ PassNeedsProfile' /\ OnlineWasApproved' /\ ApprovedWas'
  BY <1>1 DEF driverRows, TripsNeverInvented, PassNeedsProfile,
     OnlineWasApproved, ApprovedWas, HasProfile
<1>4. Whole'
  <2>1. driverJob[w].pc = "idle"  BY DEF DriverEnter, DriverAt
  <2> QED  BY <1>1, <1>2, <2>1 DEF Whole, driverRows, HasProfile, DriverAt
<1>5. HoldsOK(w)'
  BY <1>1, <1>2 DEF HoldsOK, Trip, driverRows, HasProfile
<1>6. ASSUME NEW x \in Workers \ {w} PROVE HoldsOK(x)'
  BY <1>1, <1>2 DEF HoldsOK, Trip, driverRows, HasProfile
<1> QED  BY <1>3, <1>4, <1>5, <1>6

LEMMA CoreStarts ==
  ASSUME DriversInv, NEW w \in Workers, DriverStart(w)
  PROVE  Core'
<1> USE IdleFacts DEF OfDriver, DriverPcs
<1>0. 0 <= Trip  BY DEF Trip
<1>1. CASE applyAsDriver(w)
  BY <1>0, <1>1, CoreStart DEF applyAsDriver
<1>2. ASSUME NEW status \in {"APPROVED", "REJECTED"}, Decide(w, status)
      PROVE  Core'
  <2>1. PICK row : row = [profile EXCEPT !.status = status]  OBVIOUS
  <2>2. /\ row \in Profile /\ row.status # "NONE" /\ row.trips <= Trip
        /\ row.online => approved
    BY <2>1 DEF DriversInv, DriversTypeOK, Profile, Core, TripsNeverInvented, Trip,
       OnlineWasApproved
  <2> QED  BY <1>2, <2>1, <2>2, CoreStart DEF Decide
<1>3. ASSUME NEW cell \in Cells \union {NoCell}, updateStatus(w, cell)
      PROVE  Core'
  <2>1. HasProfile /\ approved
    BY <1>3 DEF updateStatus, CanActivate, HasProfile, DriversInv, Core, ApprovedWas
  <2> QED  BY <1>0, <1>3, <2>1, CoreStart DEF updateStatus
<1>4. ASSUME NEW cell \in Cells, handleLocationUpdate(w, cell)
      PROVE  Core'
  <2>1. HasProfile
    BY <1>4 DEF handleLocationUpdate, DriversInv, Core, PassNeedsProfile
  <2> QED  BY <1>0, <1>4, <2>1, CoreStart DEF handleLocationUpdate
<1>5. CASE getNearbyDrivers(w)
  BY <1>0, <1>5, CoreStart DEF getNearbyDrivers
<1> QED
  BY <1>1, <1>2, <1>3, <1>4, <1>5 DEF DriverStart, approveDriver, rejectDriver

(* What the handlers beside the moving one need of a step.                 *)
Moves(w) ==
  /\ \A x \in Workers \ {w} : driverJob'[x] = driverJob[x]
  /\ HasProfile => HasProfile'
  /\ approved => approved'
  /\ UNCHANGED ride

LEMMA CoreOfMove ==
  ASSUME DriversInv, NEW w \in Workers, Moves(w), UNCHANGED passes,
         HoldsOK(w)', TripsNeverInvented', OnlineWasApproved', ApprovedWas',
         Whole', role' = "DRIVER" => HasProfile'
  PROVE  Core'
<1>1. PassNeedsProfile'
  BY DEF DriversInv, Core, PassNeedsProfile, Moves, DriversTypeOK
<1>2. ASSUME NEW x \in Workers \ {w} PROVE HoldsOK(x)'
  BY DEF DriversInv, Core, HoldsOK, Moves, Trip
<1> QED  BY <1>1, <1>2 DEF Core

(* Steps that leave every row as it is.                                    *)
LEMMA CoreReads ==
  ASSUME DriversInv, NEW w \in Workers,
         AppliedRead(w) \/ EventInsert(w) \/ ProfilesRead(w) \/ DriverFails(w)
  PROVE  Core'
<1> USE IdleFacts DEF DriversInv, DriversTypeOK
<1>1. /\ UNCHANGED driverRows
      /\ \A x \in Workers \ {w} : driverJob'[x] = driverJob[x]
      /\ \/ driverJob'[w] = DriverIdle
         \/ /\ driverJob[w].pc = "applied_read"
            /\ driverJob'[w] = [driverJob[w] EXCEPT !.pc = "profile_insert"]
         \/ /\ driverJob[w].pc = "event_insert"
            /\ driverJob'[w] = [driverJob[w] EXCEPT !.pc = "presence_upsert"]
  BY DEF AppliedRead, EventInsert, ProfilesRead, DriverFails, DriverFinish,
     DriverGoto, DriverAt
<1>2. driverJob[w] \in DriverJob /\ HoldsOK(w) /\ 0 <= Trip
  BY DEF Core, Trip
<1>3. HoldsOK(w)'
  BY <1>1, <1>2, JobTyped DEF HoldsOK, driverRows, Trip, HasProfile, OfDriver,
     DriverJob
<1>4. Whole'
  <2>1. CASE DriverFails(w)
    BY <2>1, ServerAssumption DEF DriverFails, Fault, ServerTypeOK, Whole
  <2>2. CASE ~DriverFails(w)
    <3>1. driverJob[w].pc # "role_update" /\ UNCHANGED faults
      BY <2>2 DEF AppliedRead, EventInsert, ProfilesRead, DriverAt, serverVars
    <3> QED  BY <1>1, <3>1 DEF Whole, Core, driverRows, HasProfile, DriverAt
  <2> QED  BY <2>1, <2>2
<1>5. TripsNeverInvented' /\ OnlineWasApproved' /\ ApprovedWas'
  BY <1>1 DEF Core, driverRows, TripsNeverInvented, OnlineWasApproved, ApprovedWas
<1>6. Moves(w) /\ UNCHANGED passes /\ (role' = "DRIVER" => HasProfile')
  BY <1>1 DEF Moves, driverRows, HasProfile, Core, PassNeedsProfile
<1> QED  BY <1>3, <1>4, <1>5, <1>6, CoreOfMove

LEMMA CorePresence ==
  ASSUME DriversInv, NEW w \in Workers,
         PresenceWrite(w) \/ PresenceUpsert(w) \/ StatusRead(w)
  PROVE  Core'
<1> USE DEF DriversInv, DriversTypeOK
<1>1. /\ UNCHANGED <<role, passes, profile, ride, approved, faults>>
      /\ \A x \in Workers \ {w} : driverJob'[x] = driverJob[x]
      /\ driverJob[w].pc # "role_update"
  BY DEF PresenceWrite, PresenceUpsert, StatusRead, DriverGoto, DriverAt,
     driverRows, serverVars
<1>2. driverJob[w] \in DriverJob /\ HoldsOK(w)  BY DEF Core
<1>3. HoldsOK(w)'
  <2>1. CASE StatusRead(w)
    <3>1. PICK row : row = IF driverJob[w].cell = NoCell
                           THEN [profile EXCEPT !.online = FALSE]
                           ELSE [profile EXCEPT !.online = TRUE,
                                                !.cell = driverJob[w].cell]
      OBVIOUS
    <3>2. driverJob'[w].row = row /\ driverJob'[w].pc = "presence_write"
      BY <1>2, <2>1, <3>1 DEF StatusRead, DriverJob
    <3>3. HasProfile /\ approved /\ profile.trips <= Trip
      BY <1>2, <2>1 DEF StatusRead, HoldsOK, OfDriver, DriverAt, Core,
         TripsNeverInvented, Trip
    <3>4. row.trips = profile.trips /\ row.status = profile.status
      BY <3>1 DEF Profile
    <3> QED  BY <1>1, <3>2, <3>3, <3>4 DEF HoldsOK, Trip, HasProfile
  <2>2. CASE PresenceWrite(w)
    BY <1>1, <1>2, <2>2 DEF PresenceWrite, DriverGoto, DriverAt, HoldsOK, Trip,
       HasProfile, OfDriver, DriverJob
  <2>3. CASE PresenceUpsert(w)
    BY <1>1, <1>2, <2>3 DEF PresenceUpsert, DriverGoto, DriverAt, HoldsOK, Trip,
       HasProfile, OfDriver, DriverJob
  <2> QED  BY <2>1, <2>2, <2>3
<1>4. Whole'
  BY <1>1 DEF Whole, Core, HasProfile, DriverAt
<1>5. TripsNeverInvented' /\ OnlineWasApproved' /\ ApprovedWas'
  BY <1>1 DEF Core, TripsNeverInvented, OnlineWasApproved, ApprovedWas
<1>6. Moves(w) /\ (role' = "DRIVER" => HasProfile')
  BY <1>1 DEF Moves, HasProfile, Core, PassNeedsProfile
<1> QED  BY <1>1, <1>3, <1>4, <1>5, <1>6, CoreOfMove

LEMMA CoreProfile ==
  ASSUME DriversInv, NEW w \in Workers,
         ProfileInsert(w) \/ RoleUpdate(w) \/ ProfileSave(w) \/ CellUpdate(w)
  PROVE  Core'
<1> USE IdleFacts DEF DriversInv, DriversTypeOK
<1>1. driverJob[w] \in DriverJob /\ HoldsOK(w) /\ 0 <= Trip
  BY DEF Core, Trip
<1>2. /\ UNCHANGED <<passes, ride, faults>>
      /\ \A x \in Workers \ {w} : driverJob'[x] = driverJob[x]
  BY DEF ProfileInsert, RoleUpdate, ProfileSave, CellUpdate, DriverFinish,
     DriverGoto, serverVars
<1>3. CASE ProfileInsert(w)
  <2>1. CASE HasProfile
    <3>1. UNCHANGED <<role, profile, approved>> /\ driverJob'[w] = DriverIdle
          /\ driverJob[w].pc # "role_update"
      BY <1>3, <2>1 DEF ProfileInsert, DriverFinish, DriverAt
    <3>2. HoldsOK(w)'
      BY <1>1, <1>2, <3>1 DEF HoldsOK, Trip, OfDriver
    <3>3. Whole' /\ TripsNeverInvented' /\ OnlineWasApproved' /\ ApprovedWas'
      BY <1>2, <3>1 DEF Core, Whole, HasProfile, DriverAt, TripsNeverInvented,
         OnlineWasApproved, ApprovedWas
    <3> QED
      BY <1>2, <2>1, <3>1, <3>2, <3>3, CoreOfMove DEF Moves, HasProfile
  <2>2. CASE ~HasProfile
    <3>1. /\ profile' = Applied /\ UNCHANGED <<role, approved>>
          /\ driverJob'[w] = [driverJob[w] EXCEPT !.pc = "role_update"]
      BY <1>3, <2>2 DEF ProfileInsert, DriverGoto
    <3>2. HasProfile'  BY <3>1 DEF HasProfile
    <3>3. HoldsOK(w)'
      BY <1>1, <1>2, <3>1, <3>2 DEF HoldsOK, Trip, OfDriver, DriverJob
    <3>4. Whole'
      BY <1>1, <3>1 DEF Whole, DriverAt, DriverJob
    <3>5. TripsNeverInvented' /\ OnlineWasApproved' /\ ApprovedWas'
      BY <1>1, <1>2, <3>1 DEF TripsNeverInvented, OnlineWasApproved, ApprovedWas
    <3> QED
      BY <1>2, <3>1, <3>2, <3>3, <3>4, <3>5, CoreOfMove DEF Moves
  <2> QED  BY <2>1, <2>2
<1>4. CASE RoleUpdate(w)
  <2>1. /\ UNCHANGED <<profile, approved>> /\ role' = "DRIVER"
        /\ driverJob'[w] = DriverIdle /\ HasProfile
    BY <1>1, <1>4 DEF RoleUpdate, DriverFinish, HoldsOK, OfDriver, DriverAt
  <2>2. HoldsOK(w)'  BY <1>1, <1>2, <2>1 DEF HoldsOK, Trip, OfDriver
  <2>3. Whole' /\ TripsNeverInvented' /\ OnlineWasApproved' /\ ApprovedWas'
    BY <1>2, <2>1 DEF Core, Whole, TripsNeverInvented, OnlineWasApproved,
       ApprovedWas
  <2> QED  BY <1>2, <2>1, <2>2, <2>3, CoreOfMove DEF Moves, HasProfile
<1>5. CASE ProfileSave(w)
  <2>1. /\ profile' = driverJob[w].row /\ UNCHANGED role
        /\ approved' = (approved \/ driverJob[w].row.status = "APPROVED")
        /\ driverJob'[w] = DriverIdle /\ driverJob[w].pc = "profile_save"
    BY <1>5 DEF ProfileSave, DriverFinish, DriverAt
  <2>2. HasProfile'  BY <1>1, <2>1 DEF HasProfile, HoldsOK
  <2>3. HoldsOK(w)'  BY <1>1, <1>2, <2>1 DEF HoldsOK, Trip, OfDriver
  <2>4. Whole'
    BY <1>1, <1>2, <2>1 DEF Core, Whole, HoldsOK, OfDriver, DriverAt
  <2>5. TripsNeverInvented' /\ OnlineWasApproved' /\ ApprovedWas'
    BY <1>1, <1>2, <2>1 DEF HoldsOK, Trip, TripsNeverInvented,
       OnlineWasApproved, ApprovedWas
  <2> QED  BY <1>2, <2>1, <2>2, <2>3, <2>4, <2>5, CoreOfMove DEF Moves
<1>6. CASE CellUpdate(w)
  <2>1. /\ UNCHANGED <<role, approved>>
        /\ profile'.status = profile.status /\ profile'.online = profile.online
        /\ profile'.trips = profile.trips
        /\ driverJob'[w] = DriverIdle /\ driverJob[w].pc = "cell_update"
    BY <1>6 DEF CellUpdate, DriverFinish, DriverAt, Profile
  <2>2. HoldsOK(w)'  BY <1>1, <1>2, <2>1 DEF HoldsOK, Trip, OfDriver
  <2>3. Whole' /\ TripsNeverInvented' /\ OnlineWasApproved' /\ ApprovedWas'
    BY <1>2, <2>1 DEF Core, Whole, HasProfile, DriverAt, TripsNeverInvented,
       OnlineWasApproved, ApprovedWas
  <2> QED
    BY <1>2, <2>1, <2>2, <2>3, CoreOfMove DEF Moves, HasProfile, Core,
       PassNeedsProfile
<1> QED  BY <1>3, <1>4, <1>5, <1>6

LEMMA CoreOthers ==
  ASSUME DriversInv, refresh \/ RideMoves \/ Delivered
  PROVE  Core'
<1> USE DEF DriversInv, DriversTypeOK, Core, serverVars, Enter
<1>1. CASE refresh
  BY <1>1 DEF refresh, TripsNeverInvented, PassNeedsProfile, OnlineWasApproved,
     ApprovedWas, Whole, HoldsOK, HasProfile, Trip, DriverAt
<1>2. CASE RideMoves
  <2>1. Trip' = Trip /\ ride # "DELIVERED" /\ ride' # "DELIVERED"
    BY <1>2 DEF RideMoves, Trip
  <2> QED
    BY <1>2, <2>1 DEF RideMoves, TripsNeverInvented, PassNeedsProfile,
       OnlineWasApproved, ApprovedWas, Whole, HoldsOK, HasProfile, DriverAt
<1>3. CASE Delivered
  <2>1. /\ Trip = 0 /\ Trip' = 1 /\ profile'.status = profile.status
        /\ profile'.online = profile.online /\ profile'.trips = profile.trips + 1
        /\ profile.trips <= 0 /\ profile.trips \in Nat
        /\ UNCHANGED <<role, passes, approved, driverJob, faults>>
        /\ ride' = "DELIVERED"
    BY <1>3 DEF Delivered, Trip, Profile, TripsNeverInvented
  <2>2. ASSUME NEW w \in Workers PROVE HoldsOK(w)'
    <3>1. driverJob[w].row.trips \in Nat  BY JobTyped
    <3> QED  BY <2>1, <3>1 DEF HoldsOK, HasProfile
  <2>3. TripsNeverInvented' /\ PassNeedsProfile' /\ OnlineWasApproved' /\ ApprovedWas'
        /\ Whole'
    BY <2>1 DEF TripsNeverInvented, PassNeedsProfile, OnlineWasApproved,
       ApprovedWas, Whole, HasProfile, DriverAt
  <2> QED  BY <2>2, <2>3
<1> QED  BY <1>1, <1>2, <1>3

-----------------------------------------------------------------------------
(* Solitary: a handler that starts while solo stays true finds the rows    *)
(* settled; one that goes on has no other beside it.                       *)

LEMMA SolitaryStart ==
  ASSUME DriversInv, NEW w \in Workers, NEW pc \in DriverPcs, NEW row \in Profile,
         NEW cell \in Cells \union {NoCell}, DriverEnter(w, pc, row, cell),
         pc \notin {"presence_write", "cell_update", "idle"},
         pc = "profile_save" /\ row.online => profile.online /\ row.cell = profile.cell,
         pc = "profiles_read" => presence \in Ring
  PROVE  Solitary'
<1> SUFFICES ASSUME solo', faults' = 0
             PROVE  /\ \A v, x \in Workers : driverJob'[v].pc # "idle"
                                             /\ driverJob'[x].pc # "idle" => v = x
                    /\ \A x \in Workers : driverJob'[x].pc # "idle" => MidwayOK(x)'
                    /\ DriversQuiet' => Settled'
  BY DEF Solitary
<1>1. solo /\ faults = 0 /\ Busy(driverJob) = {}
  BY DEF DriverEnter, Enter, DriversInv, ServerTypeOK
<1>2. DriversQuiet  BY <1>1 DEF Busy, DriversQuiet, DriverAt
<1>3. Settled  BY <1>1, <1>2 DEF DriversInv, Solitary
<1>4. /\ driverJob'[w] = [pc |-> pc, row |-> row, cell |-> cell]
      /\ \A x \in Workers \ {w} : driverJob'[x] = driverJob[x]
      /\ UNCHANGED driverRows
  BY DEF DriverEnter, DriversInv, DriversTypeOK
<1>5. \A x \in Workers \ {w} : driverJob'[x].pc = "idle"
  BY <1>2, <1>4 DEF DriversQuiet, DriverAt
<1>6. MidwayOK(w)'
  BY <1>3, <1>4 DEF MidwayOK, Settled, driverRows
<1> QED  BY <1>3, <1>4, <1>5, <1>6 DEF Settled, driverRows

LEMMA SerialStarts ==
  ASSUME DriversInv, NEW w \in Workers, DriverStart(w)
  PROVE  Solitary'
<1> USE IdleFacts DEF DriverPcs
<1>1. CASE applyAsDriver(w)  BY <1>1, SolitaryStart DEF applyAsDriver
<1>2. ASSUME NEW status \in {"APPROVED", "REJECTED"}, Decide(w, status)
      PROVE  Solitary'
  <2>1. PICK row : row = [profile EXCEPT !.status = status]  OBVIOUS
  <2>2. row \in Profile /\ row.online = profile.online /\ row.cell = profile.cell
    BY <2>1 DEF DriversInv, DriversTypeOK, Profile
  <2> QED  BY <1>2, <2>1, <2>2, SolitaryStart DEF Decide
<1>3. ASSUME NEW cell \in Cells \union {NoCell}, updateStatus(w, cell)
      PROVE  Solitary'
  BY <1>3, SolitaryStart DEF updateStatus
<1>4. ASSUME NEW cell \in Cells, handleLocationUpdate(w, cell)
      PROVE  Solitary'
  BY <1>4, SolitaryStart DEF handleLocationUpdate
<1>5. CASE getNearbyDrivers(w)  BY <1>5, SolitaryStart DEF getNearbyDrivers
<1> QED
  BY <1>1, <1>2, <1>3, <1>4, <1>5 DEF DriverStart, approveDriver, rejectDriver

LEMMA SerialMove ==
  ASSUME DriversInv, NEW w \in Workers, ~DriverAt(w, "idle"),
         \A x \in Workers \ {w} : driverJob'[x] = driverJob[x],
         UNCHANGED serverVars,
         MidwayOK(w) => MidwayOK(w)' /\ (driverJob'[w].pc = "idle" => Settled')
  PROVE  Solitary'
<1> SUFFICES ASSUME solo, faults = 0
             PROVE  /\ \A v, x \in Workers : driverJob'[v].pc # "idle"
                                             /\ driverJob'[x].pc # "idle" => v = x
                    /\ \A x \in Workers : driverJob'[x].pc # "idle" => MidwayOK(x)'
                    /\ DriversQuiet' => Settled'
  BY DEF Solitary, serverVars
<1>1. MidwayOK(w) /\ \A x \in Workers \ {w} : driverJob'[x].pc = "idle"
  BY DEF DriversInv, Solitary, DriverAt
<1>2. DriversQuiet' => driverJob'[w].pc = "idle"  BY DEF DriversQuiet, DriverAt
<1> QED  BY <1>1, <1>2

LEMMA SerialContinue ==
  ASSUME DriversInv, NEW w \in Workers, DriverContinue(w)
  PROVE  Solitary'
<1> USE IdleFacts DEF DriversInv, DriversTypeOK
<1>1. driverJob[w] \in DriverJob /\ HoldsOK(w)  BY DEF Core
<1>2. /\ \A x \in Workers \ {w} : driverJob'[x] = driverJob[x]
      /\ UNCHANGED serverVars /\ ~DriverAt(w, "idle")
  BY DEF DriverContinue, AppliedRead, ProfileInsert, RoleUpdate, ProfileSave,
     StatusRead, PresenceWrite, EventInsert, PresenceUpsert, CellUpdate,
     ProfilesRead, DriverFinish, DriverGoto, DriverAt
<1>3. SUFFICES ASSUME MidwayOK(w)
               PROVE  MidwayOK(w)' /\ (driverJob'[w].pc = "idle" => Settled')
  BY <1>2, SerialMove
<1>4. CASE AppliedRead(w) \/ EventInsert(w) \/ ProfilesRead(w) \/ RoleUpdate(w)
  <2>1. UNCHANGED <<profile, presence>>
    BY <1>4 DEF AppliedRead, EventInsert, ProfilesRead, RoleUpdate, driverRows
  <2>2. driverJob'[w].pc \in {"idle", "profile_insert", "presence_upsert"}
        /\ driverJob[w].pc \notin {"presence_write", "profile_save", "cell_update"}
    BY <1>1, <1>4 DEF AppliedRead, EventInsert, ProfilesRead, RoleUpdate,
       DriverFinish, DriverGoto, DriverAt, DriverJob
  <2> QED  BY <1>3, <2>1, <2>2 DEF MidwayOK, Settled
<1>5. CASE ProfileInsert(w)
  <2>1. /\ UNCHANGED presence /\ (profile' = profile \/ profile' = Applied)
        /\ driverJob'[w].pc \in {"idle", "role_update"}
        /\ driverJob[w].pc = "profile_insert"
    BY <1>1, <1>5 DEF ProfileInsert, DriverFinish, DriverGoto, DriverAt, DriverJob
  <2> QED  BY <1>3, <2>1 DEF MidwayOK, Settled
<1>6. CASE ProfileSave(w)
  <2>1. /\ UNCHANGED presence /\ profile' = driverJob[w].row
        /\ driverJob'[w] = DriverIdle /\ driverJob[w].pc = "profile_save"
    BY <1>6 DEF ProfileSave, DriverFinish, DriverAt
  <2> QED  BY <1>3, <2>1 DEF MidwayOK, Settled
<1>7. CASE StatusRead(w)
  <2>1. PICK row : row = IF driverJob[w].cell = NoCell
                         THEN [profile EXCEPT !.online = FALSE]
                         ELSE [profile EXCEPT !.online = TRUE,
                                              !.cell = driverJob[w].cell]
    OBVIOUS
  <2>2. /\ driverJob'[w].row = row /\ driverJob'[w].pc = "presence_write"
        /\ driverJob'[w].cell = driverJob[w].cell
    BY <1>1, <1>7, <2>1 DEF StatusRead, DriverJob
  <2>3. row.online => row.cell = driverJob[w].cell  BY <2>1 DEF Profile
  <2> QED  BY <2>2, <2>3 DEF MidwayOK
<1>8. CASE PresenceWrite(w)
  <2>1. /\ presence' = driverJob[w].cell /\ driverJob[w].pc = "presence_write"
        /\ driverJob'[w] = [driverJob[w] EXCEPT !.pc = "profile_save"]
    BY <1>8 DEF PresenceWrite, DriverGoto, DriverAt
  <2>2. driverJob'[w].pc = "profile_save" /\ driverJob'[w].row = driverJob[w].row
    BY <1>1, <2>1 DEF DriverJob
  <2> QED  BY <1>3, <2>1, <2>2 DEF MidwayOK
<1>9. CASE PresenceUpsert(w)
  <2>1. /\ presence' = driverJob[w].cell
        /\ driverJob'[w] = [driverJob[w] EXCEPT !.pc = "cell_update"]
    BY <1>9 DEF PresenceUpsert, DriverGoto
  <2>2. driverJob'[w].pc = "cell_update" /\ driverJob'[w].cell = driverJob[w].cell
    BY <1>1, <2>1 DEF DriverJob
  <2> QED  BY <2>1, <2>2 DEF MidwayOK
<1>10. CASE CellUpdate(w)
  <2>1. /\ UNCHANGED presence /\ profile' = [profile EXCEPT !.cell = driverJob[w].cell]
        /\ driverJob'[w] = DriverIdle /\ driverJob[w].pc = "cell_update"
    BY <1>1, <1>10 DEF CellUpdate, DriverFinish, DriverAt, HoldsOK, OfDriver
  <2>2. profile'.cell = driverJob[w].cell  BY <2>1 DEF Profile
  <2> QED  BY <1>3, <2>1, <2>2 DEF MidwayOK, Settled
<1> QED
  BY <1>4, <1>5, <1>6, <1>7, <1>8, <1>9, <1>10 DEF DriverContinue

LEMMA SerialOthers ==
  ASSUME DriversInv, refresh \/ RideMoves \/ Delivered
  PROVE  Solitary'
<1>1. CASE refresh
  BY <1>1 DEF refresh, DriversInv, Solitary, MidwayOK, Settled, DriversQuiet,
     DriverAt, serverVars
<1>2. CASE RideMoves \/ Delivered
  <2>1. /\ UNCHANGED <<driverJob, presence, faults>>
        /\ profile'.online = profile.online /\ profile'.cell = profile.cell
        /\ solo' => solo /\ Busy(driverJob) = {}
    BY <1>2 DEF RideMoves, Delivered, Enter, Profile, DriversInv, DriversTypeOK,
       ServerTypeOK
  <2> QED
    BY <2>1 DEF Busy, DriversInv, Solitary, MidwayOK, Settled, DriversQuiet, DriverAt
<1> QED  BY <1>1, <1>2

-----------------------------------------------------------------------------
(* LoneWrote: a handler that runs alone finds between two statements what  *)
(* it wrote.                                                               *)

LEMMA KnowsStart ==
  ASSUME DriversInv, NEW w \in Workers, DriverStart(w)
  PROVE  LoneWrote'
<1>1. PICK pc, row, cell :
        /\ DriverEnter(w, pc, row, cell)
        /\ cell # NoCell => pc \in {"status_read", "event_insert"}
  <2>1. CASE applyAsDriver(w)  BY <2>1 DEF applyAsDriver
  <2>2. ASSUME NEW status, Decide(w, status)
        PROVE  DriverEnter(w, "profile_save", [profile EXCEPT !.status = status], NoCell)
    BY <2>2 DEF Decide
  <2>3. ASSUME NEW cell, updateStatus(w, cell)
        PROVE  DriverEnter(w, "status_read", NoProfile, cell)
    BY <2>3 DEF updateStatus
  <2>4. ASSUME NEW cell, handleLocationUpdate(w, cell)
        PROVE  DriverEnter(w, "event_insert", NoProfile, cell)
    BY <2>4 DEF handleLocationUpdate
  <2>5. CASE getNearbyDrivers(w)  BY <2>5 DEF getNearbyDrivers
  <2> QED
    BY <2>1, <2>2, <2>3, <2>4, <2>5 DEF DriverStart, approveDriver, rejectDriver
<1>2. /\ driverJob'[w] = [pc |-> pc, row |-> row, cell |-> cell]
      /\ \A x \in Workers \ {w} : driverJob'[x] = driverJob[x]
      /\ lone' => \A x \in Workers : driverJob[x].pc = "idle"
  BY <1>1 DEF DriverEnter, Busy, DriversInv, DriversTypeOK
<1>3. Wrote(w)'  BY <1>1, <1>2 DEF Wrote
<1> QED  BY <1>2, <1>3 DEF LoneWrote

LEMMA KnowsContinue ==
  ASSUME DriversInv, NEW w \in Workers, DriverContinue(w) \/ DriverFails(w)
  PROVE  LoneWrote'
<1> USE IdleFacts DEF DriversInv, DriversTypeOK
<1>1. driverJob[w] \in DriverJob /\ HoldsOK(w)  BY DEF Core
<1>2. /\ \A x \in Workers \ {w} : driverJob'[x] = driverJob[x]
      /\ driverJob[w].pc # "idle" /\ UNCHANGED lone
  BY DEF DriverContinue, DriverFails, AppliedRead, ProfileInsert, RoleUpdate,
     ProfileSave, StatusRead, PresenceWrite, EventInsert, PresenceUpsert, CellUpdate,
     ProfilesRead, DriverFinish, DriverGoto, DriverAt
<1>3. SUFFICES ASSUME lone, Wrote(w) PROVE Wrote(w)'
  BY <1>2 DEF LoneWrote
<1>4. CASE DriverFails(w) \/ ProfileSave(w) \/ CellUpdate(w) \/ RoleUpdate(w)
           \/ ProfilesRead(w)
  <2>1. driverJob'[w] = DriverIdle
    BY <1>4 DEF DriverFails, ProfileSave, CellUpdate, RoleUpdate, ProfilesRead,
       DriverFinish
  <2> QED  BY <2>1 DEF Wrote
<1>5. CASE AppliedRead(w) \/ ProfileInsert(w) \/ EventInsert(w)
  <2>1. CASE EventInsert(w)
    <3>1. driverJob'[w] = [driverJob[w] EXCEPT !.pc = "presence_upsert"]
      BY <2>1 DEF EventInsert, DriverGoto
    <3> QED  BY <1>1, <3>1 DEF Wrote, DriverJob
  <2>2. CASE AppliedRead(w) \/ ProfileInsert(w)
    <3>1. driverJob[w].cell = NoCell
      BY <1>3, <2>2 DEF Wrote, AppliedRead, ProfileInsert, DriverAt
    <3>2. driverJob'[w].cell = NoCell
      BY <1>1, <2>2, <3>1 DEF AppliedRead, ProfileInsert, DriverFinish, DriverGoto,
         DriverJob
    <3> QED  BY <3>2 DEF Wrote
  <2> QED  BY <1>5, <2>1, <2>2
<1>6. CASE StatusRead(w)
  <2>1. PICK row : row = IF driverJob[w].cell = NoCell
                         THEN [profile EXCEPT !.online = FALSE]
                         ELSE [profile EXCEPT !.online = TRUE,
                                              !.cell = driverJob[w].cell]
    OBVIOUS
  <2>2. /\ driverJob'[w].row = row /\ driverJob'[w].pc = "presence_write"
        /\ driverJob'[w].cell = driverJob[w].cell
    BY <1>1, <1>6, <2>1 DEF StatusRead, DriverJob
  <2>3. driverJob[w].cell # NoCell => row.cell = driverJob[w].cell
    BY <2>1 DEF Profile
  <2> QED  BY <2>2, <2>3 DEF Wrote
<1>7. CASE PresenceWrite(w)
  <2>1. /\ presence' = driverJob[w].cell /\ driverJob[w].pc = "presence_write"
        /\ driverJob'[w] = [driverJob[w] EXCEPT !.pc = "profile_save"]
    BY <1>7 DEF PresenceWrite, DriverGoto, DriverAt
  <2>2. driverJob'[w].pc = "profile_save" /\ driverJob'[w].row = driverJob[w].row
        /\ driverJob'[w].cell = driverJob[w].cell
    BY <1>1, <2>1 DEF DriverJob
  <2> QED  BY <1>3, <2>1, <2>2 DEF Wrote
<1>8. CASE PresenceUpsert(w)
  <2>1. /\ presence' = driverJob[w].cell
        /\ driverJob'[w] = [driverJob[w] EXCEPT !.pc = "cell_update"]
    BY <1>8 DEF PresenceUpsert, DriverGoto
  <2>2. driverJob'[w].pc = "cell_update" /\ driverJob'[w].cell = driverJob[w].cell
    BY <1>1, <2>1 DEF DriverJob
  <2> QED  BY <2>1, <2>2 DEF Wrote
<1> QED  BY <1>4, <1>5, <1>6, <1>7, <1>8 DEF DriverContinue

LEMMA KnowsStep ==
  ASSUME DriversInv, [DriversNext]_dVars
  PROVE  LoneWrote'
<1>1. CASE refresh \/ RideMoves \/ Delivered \/ UNCHANGED dVars
  <2>1. UNCHANGED <<driverJob, lone, presence>>
    BY <1>1 DEF refresh, RideMoves, Delivered, dVars, driverVars
  <2> QED  BY <2>1 DEF DriversInv, LoneWrote, Wrote
<1> QED  BY <1>1, KnowsStart, KnowsContinue DEF DriversNext

(* The statement a handler of a position ends with.                        *)
LEMMA PlacedStep ==
  ASSUME DriversInv, [DriversNext]_dVars
  PROVE  [\A w \in Workers : Placed(w)]_dVars
<1> SUFFICES ASSUME DriversNext, NEW w \in Workers, lone, UNCHANGED faults,
                    driverJob[w].cell # NoCell, driverJob[w].pc # "idle",
                    driverJob'[w].pc = "idle"
             PROVE  presence' = driverJob[w].cell /\ profile'.cell = driverJob[w].cell
  BY DEF Placed
<1> USE IdleFacts DEF DriversInv, DriversTypeOK
<1>1. driverJob[w] \in DriverJob /\ HoldsOK(w) /\ Wrote(w) /\ faults \in Nat
  BY ServerAssumption DEF Core, LoneWrote, ServerTypeOK
<1>2. DriverContinue(w)
  <2>1. ASSUME NEW x \in Workers, DriverStart(x) PROVE FALSE
    BY <2>1 DEF DriverStart, applyAsDriver, approveDriver, rejectDriver, Decide,
       updateStatus, handleLocationUpdate, getNearbyDrivers, DriverEnter, DriverAt
  <2>2. ASSUME NEW x \in Workers, DriverFails(x) PROVE FALSE
    BY <1>1, <2>2 DEF DriverFails, Fault
  <2>3. ASSUME NEW x \in Workers \ {w}, DriverContinue(x) PROVE FALSE
    BY <2>3 DEF DriverContinue, AppliedRead, ProfileInsert, RoleUpdate, ProfileSave,
       StatusRead, PresenceWrite, EventInsert, PresenceUpsert, CellUpdate,
       ProfilesRead, DriverFinish, DriverGoto
  <2>4. CASE refresh \/ RideMoves \/ Delivered
    BY <2>4 DEF refresh, RideMoves, Delivered
  <2> QED  BY <2>1, <2>2, <2>3, <2>4 DEF DriversNext
<1>3. ProfileSave(w) \/ CellUpdate(w)
  <2>1. driverJob[w].pc \in {"status_read", "presence_write", "profile_save",
                            "event_insert", "presence_upsert", "cell_update"}
    BY <1>1 DEF Wrote
  <2>2. ASSUME NEW pc \in DriverPcs \ {"idle"} PROVE ~DriverGoto(w, pc)
    <3>1. CASE DriverGoto(w, pc)
      <4>1. driverJob'[w] = [driverJob[w] EXCEPT !.pc = pc]  BY <3>1 DEF DriverGoto
      <4> QED  BY <1>1, <4>1 DEF DriverJob
    <3> QED  BY <3>1
  <2>3. ~StatusRead(w)
    BY <1>1 DEF StatusRead, DriverJob
  <2> QED
    BY <1>2, <2>1, <2>2, <2>3 DEF DriverContinue, AppliedRead, ProfileInsert, RoleUpdate,
       PresenceWrite, EventInsert, PresenceUpsert, ProfilesRead, DriverAt, DriverPcs
<1>4. CASE ProfileSave(w)
  BY <1>1, <1>4 DEF ProfileSave, DriverAt, Wrote
<1>5. CASE CellUpdate(w)
  <2>1. HasProfile /\ presence = driverJob[w].cell
    BY <1>1, <1>5 DEF CellUpdate, DriverAt, HoldsOK, OfDriver, Wrote
  <2>2. profile' = [profile EXCEPT !.cell = driverJob[w].cell] /\ UNCHANGED presence
    BY <1>5, <2>1 DEF CellUpdate
  <2> QED  BY <2>1, <2>2 DEF Profile
<1> QED  BY <1>3, <1>4, <1>5

-----------------------------------------------------------------------------
(* The invariant, and what it gives.                                       *)

LEMMA DriversInvInit ==
  ASSUME ServerTypeOK, DriversInit
  PROVE  DriversInv
<1> USE IdleFacts DEF DriversInit
<1>1. DriversTypeOK  BY DEF DriversTypeOK, Roles, Rides
<1>2. Core
  BY DEF Core, TripsNeverInvented, PassNeedsProfile, OnlineWasApproved, ApprovedWas,
     Whole, HoldsOK, HasProfile, Trip, OfDriver, DriverAt
<1>3. Solitary  BY DEF Solitary, MidwayOK, Settled, DriversQuiet, DriverAt
<1>4. LoneWrote  BY DEF LoneWrote
<1> QED  BY <1>1, <1>2, <1>3, <1>4 DEF DriversInv

LEMMA DriversInvStep ==
  ASSUME DriversInv, [DriversNext]_dVars
  PROVE  DriversInv'
<1> USE KnowsStep
<1>1. ASSUME NEW w \in Workers, DriverStart(w) PROVE DriversInv'
  BY <1>1, DriverStartTyped, CoreStarts, SerialStarts DEF DriversInv
<1>2. ASSUME NEW w \in Workers, DriverContinue(w) PROVE DriversInv'
  <2>1. Core'
    BY <1>2, CoreReads, CorePresence, CoreProfile DEF DriverContinue
  <2> QED  BY <1>2, <2>1, DriverContinueTyped, SerialContinue DEF DriversInv
<1>3. ASSUME NEW w \in Workers, DriverFails(w) PROVE DriversInv'
  <2>1. Solitary'
    BY <1>3, ServerAssumption DEF DriverFails, Fault, Solitary, DriversInv, ServerTypeOK
  <2> QED  BY <1>3, <2>1, CoreReads, DriverContinueTyped DEF DriversInv
<1>4. CASE refresh \/ RideMoves \/ Delivered
  BY <1>4, DriverOthersTyped, CoreOthers, SerialOthers DEF DriversInv
<1>5. CASE UNCHANGED dVars
  BY <1>5 DEF dVars, driverVars, serverVars, DriversInv, ServerTypeOK, DriversTypeOK,
     Core, TripsNeverInvented, PassNeedsProfile, OnlineWasApproved, ApprovedWas,
     Whole, HoldsOK, HasProfile, Trip, Solitary, MidwayOK, Settled, DriversQuiet,
     DriverAt
<1> QED  BY <1>1, <1>2, <1>3, <1>4, <1>5 DEF DriversNext

LEMMA DriversInvariant == DriversSpec => []DriversInv
<1>1. ServerInit /\ DriversInit => DriversInv
  BY DriversInvInit, ServerAssumption DEF ServerInit, ServerTypeOK
<1>2. DriversInv /\ [DriversNext]_dVars => DriversInv'  BY DriversInvStep
<1> QED  BY <1>1, <1>2, PTL DEF DriversSpec, dVars

(* What the invariant gives.                                               *)
LEMMA DriversPromises ==
  ASSUME DriversInv
  PROVE  /\ ServerTypeOK /\ DriversTypeOK
         /\ TripsNeverInvented /\ PassNeedsProfile /\ OnlineWasApproved
         /\ ApplicationWhole /\ PresenceAgrees /\ SearchMatchesHeatmap
<1>1. ASSUME solo, faults = 0, NEW w \in Workers,
             DriverAt(w, "profiles_read"), Listed
      PROVE  \E c \in Ring : HeatCount(Ring)[c] = 1
  <2>1. MidwayOK(w)  BY <1>1 DEF DriversInv, Solitary, DriverAt
  <2>2. profile.cell \in Ring
    BY <1>1, <2>1 DEF MidwayOK, Settled, DriverAt, Listed
  <2>3. HeatCount(Ring)[profile.cell] = 1  BY <1>1, <2>2 DEF HeatCount
  <2> QED  BY <2>2, <2>3
<1>2. ASSUME solo, faults = 0, DriversQuiet,
             NEW c \in Coverage \cap Ring
      PROVE  presence \in Ring
  <2>1. Listed /\ profile.cell = c  BY DEF Coverage, HeatCount
  <2> QED  BY <1>2, <2>1 DEF DriversInv, Solitary, Settled, Listed
<1>3. SearchMatchesHeatmap
  BY <1>1, <1>2 DEF SearchMatchesHeatmap
<1>4. TripsNeverInvented /\ PassNeedsProfile /\ OnlineWasApproved
  BY DEF DriversInv, Core
<1>5. ApplicationWhole
  BY DEF DriversInv, Core, Whole, PassNeedsProfile, ApplicationWhole, DriversQuiet,
     DriverAt
<1>6. PresenceAgrees
  BY DEF DriversInv, Solitary, Settled, PresenceAgrees
<1> QED  BY <1>3, <1>4, <1>5, <1>6 DEF DriversInv

(* The rows and what the handlers hold keep their types.                   *)
THEOREM DriversTypeCorrect == DriversSpec => [](ServerTypeOK /\ DriversTypeOK)
<1>1. DriversInv => ServerTypeOK /\ DriversTypeOK  BY DriversPromises
<1> QED  BY <1>1, DriversInvariant, PTL

(* No save, however stale, credits a trip that was not delivered.          *)
THEOREM TripsNeverInventedHolds == DriversSpec => []TripsNeverInvented
<1>1. DriversInv => TripsNeverInvented  BY DriversPromises
<1> QED  BY <1>1, DriversInvariant, PTL

(* A DRIVER token is only given to, and kept by, a user with a profile.    *)
THEOREM PassNeedsProfileHolds == DriversSpec => []PassNeedsProfile
<1>1. DriversInv => PassNeedsProfile  BY DriversPromises
<1> QED  BY <1>1, DriversInvariant, PTL

(* No interleaving of whole-row saves puts a driver online who was never   *)
(* approved.                                                               *)
THEOREM OnlineWasApprovedHolds == DriversSpec => []OnlineWasApproved
<1>1. DriversInv => OnlineWasApproved  BY DriversPromises
<1> QED  BY <1>1, DriversInvariant, PTL

(* Without failures, any number of applications at a time leaves role and  *)
(* profile in step.                                                        *)
THEOREM ApplicationWholeHolds == DriversSpec => []ApplicationWhole
<1>1. DriversInv => ApplicationWhole  BY DriversPromises
<1> QED  BY <1>1, DriversInvariant, PTL

(* Handlers that neither overlap nor fail leave presence row and profile   *)
(* in one cell.                                                            *)
THEOREM PresenceAgreesHolds == DriversSpec => []PresenceAgrees
<1>1. DriversInv => PresenceAgrees  BY DriversPromises
<1> QED  BY <1>1, DriversInvariant, PTL

(* Whatever overlapped or failed before it, a handler that runs alone puts *)
(* the driver in the cell it was sent, in both tables.                     *)
THEOREM PresenceHealsHolds == DriversSpec => PresenceHeals
<1>1. DriversInv /\ [DriversNext]_dVars => [\A w \in Workers : Placed(w)]_dVars
  BY PlacedStep
<1> QED  BY <1>1, DriversInvariant, PTL DEF DriversSpec, PresenceHeals, dVars

(* Handlers that neither overlap nor fail: the nearby search and the       *)
(* heatmap agree.                                                          *)
THEOREM SearchMatchesHeatmapHolds == DriversSpec => []SearchMatchesHeatmap
<1>1. DriversInv => SearchMatchesHeatmap  BY DriversPromises
<1> QED  BY <1>1, DriversInvariant, PTL
=============================================================================
