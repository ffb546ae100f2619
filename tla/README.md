# A TLA+ model of the Deligo backend

Deligo is a NestJS service over PostgreSQL. A client posts a transport request,
drivers bid on it, the two sides may trade counter-offers, an accepted bid
becomes a booking, and the booking is driven, proven with a photo and confirmed.
This directory holds TLA+ modules that model that life of a request and the
services around it (one-time codes, drivers, ratings, notifications, lists), TLC
configurations that check them on small instances, and proofs that TLAPS checks
for every value of the constants. Paths below are relative to `src/`.

## The system

| Part | State | Operations | Hard behaviour | What makes it correct |
|---|---|---|---|---|
| Status tables (`src/common/state-machine.ts`, `enums.ts`) | none | `assertTransition` | two enums share four strings, the table is guessed from the current status | every status change is an arrow |
| Bids (`modules/bids`) | `bids`, and the status and activity time of `transport_requests` | create, accept, reject, withdraw, clientCounter, driverAcceptCounter, driverRejectCounter, clientAcceptDriverFinal | check and write are several statements apart, whole rows are saved back, only accept has a transaction | one award per request, agreed price, status that matches the bids |
| Requests (`modules/requests`) | `transport_requests`, `sweepInFlight` | create, cancel, delete, updateStatus, list and findOne (which kick the sweep), 15-day sweep | the sweep runs beside every handler; delete clears four tables | no orphans, only idle requests fail, idle requests do fail |
| Bookings (`modules/bookings`) | `bookings`, request status, `total_trips`, `sweepInFlight` | start, deliver, confirmDelivery, fail, cancel, 24-hour sweep | two rows and a counter move together, mostly without a transaction; sweep and client race | trips counted once, request follows booking, proof before delivery |
| Ratings (`modules/ratings`) | `ratings`, averages on users and profiles | create | check then insert; aggregate read then written | one rating per rater and booking, averages that match |
| Authentication (`modules/auth`) | `otp_tokens`, `refresh_tokens`, users, a Redis sorted set | request and verify codes, refresh, logout | hourly cap, cooldown, attempts counted by read and save | bounded attempts, a code is used once |
| Users and admin (`modules/users`, `modules/admin`) | users, driver profiles | profile, phone change, application, approval | several writes without a transaction; whole profiles saved back | a profile goes with the driver role, a decision is not lost |
| Presence and tracking (`modules/drivers`, `modules/tracking`) | `driver_h3_presence`, profiles, `tracking_events`, socket rooms | online and offline, location updates, broadcasts | a location update overlapping going offline | presence matches `is_online` |
| Notifications (`modules/notifications`) | `notifications`, `push_token` | create, markRead, push | sent inside a transaction, on another connection; token cleared after a slow call | told only what was committed |
| Lists (`RequestsService.list`, `BookingsService.list`, response envelope) | none | growing search radius, pages, page count | a rung counts and reads in two statements | the first radius with something, every row on one page |
| Zones, H3, guards, uploads, mail, plumbing | none or files | nearby search, heatmap, coverage | search and heatmap read different tables | they show the same drivers |

Components call each other directly: the bids service writes the request's
status, the bookings service calls `RequestsService.updateStatus`, and every
service calls the notifications service. They share the database and nothing
else; there is one Node process, so two handlers interleave wherever one of
them awaits. Reads of lists kick the two sweeps, which run on the same event
loop.

`PROJECT.json` lists every component with its status, and under `hazards` what
is hard to test, line by line. Most hazards come from one shape: a handler reads
a row, awaits, and writes what it decided on the old row.

## Modules

| Module | Models |
|---|---|
| `StateMachine` | the enums, the two tables and `assertTransition` |
| `Bidding` | the negotiation over one request: all handlers of `BidsService`, cancel and delete of `RequestsService`, the inactivity sweep |
| `Delivery` | one booking from acceptance to its end: all handlers of `BookingsService`, cancel and delete of the request behind it, the auto-confirm sweep, the trip count |
| `Deal` | what a negotiation promises the two parties, without rows and handlers: offers, one deal, nothing after it |
| `BiddingDeal` | what the rows of `Bidding` mean as a `Deal` (the refinement mapping) |
| `Server` | what the modules below share: handlers that run statement by statement, failing statements, and the history `solo` |
| `OtpAuth` | one-time codes: all requests and verifications of `AuthService`, and the phone change of `UsersService` |
| `Drivers` | one user becoming a driver: application, approval, role in tokens, online status, location updates, nearby search and heatmap |
| `Ratings` | the ratings one user receives, with both copies of the average |
| `Push` | the push token of a user and the pushes in flight |
| `Notices` | whom acceptance, rejection and confirmation tell, before or after their commit, and the connection pool this runs on |
| `Listings` | the lists of requests and bookings: visibility, search radius, pages, page count |
| `Services` | the six modules above side by side: `Together` interleaves their steps, `Spec` runs one of them in each behaviour |
| `MCBidding`, `MCDelivery`, `MCServices` | the instances TLC checks, with their symmetry |
| `BiddingProofs`, `DeliveryProofs`, `OtpProofs`, `DriversProofs`, `RatingsProofs`, `NotificationsProofs`, `ListingsProofs`, `ServicesProofs` | theorems and proofs; `NotificationsProofs` is about `Push` and `Notices` |

### How code becomes steps

* **An awaited statement is a step.** A handler is a record `handler[w]` with a
  program counter and what it read; `Workers` bounds how many run at once. The
  first step of a handler is its first read together with its checks; a handler
  whose first read makes it throw changes nothing and is left out. Between two
  steps any other handler, the sweep or the environment may act.
* **`dataSource.transaction`** is its reads, which take no lock, and one step
  for all its writes, since row locks are held to the end and a failure undoes
  them together. What this leaves out is a row inserted by somebody else between
  two statements of the transaction, and a deadlock between two transactions,
  which PostgreSQL resolves by failing one of them (`StatementFails`).
* **`repository.save` of a loaded entity** writes the handler's whole copy back,
  with whatever others wrote in between overwritten. TypeORM's own re-read and
  the UPDATE that follows are one step. Saving a row deleted meanwhile inserts it
  again: the foreign keys refuse that for bids and bookings, nothing refuses it
  for requests. `cancel` of a request saves it with its bids loaded, so a bid
  made in between would have its `request_id` set to null, which the column
  refuses: the save fails.
* **`repository.update`** has no effect on a missing row and no condition but
  the id, unless the code adds one, as both sweeps do.
* **PostgreSQL** is modelled from how the entities declare it: the partial unique
  index on bids (`UniqueActive`), foreign keys and NOT NULL.
* **The sweeps**: the kick and the SELECT of the next tick are one step
  (`kickSweep`), since only another kick can tell them apart. `sweep = "off"`
  stands for `sweepInFlight = false`. One request or booking per instance, so a
  sweep has at most one candidate; candidates are independent of each other, each
  in its own try block.
* **Time** is two flags: `request.stale` (idle for 15 days) and `booking.overdue`
  (proof older than 24 hours). They turn true only while no handler or sweep
  runs: none lives that long.
* **Faults**: any statement of a handler or of the booking sweep may fail
  (`StatementFails`, `SweepFails`), and the process may stop between any two
  steps (`Crash`); rows survive, handlers do not.
* **Notifications**, wording, prices beyond equality, photos beyond their
  presence, and authorisation checks are abstracted away.

The services modules follow the same rules, with these differences:

* **A job is what a handler holds**: `otpJob[w]`, `driverJob[w]` and so on, with
  `pc` naming the statement that comes next. There is no separate crash: a
  crash is every running handler failing, and each may fail (`OtpFails`,
  `DriverFails`, ...), as long as `MaxFaults` allows.
* **History variables.** `solo` says that no two handlers of a service have
  overlapped so far, `faults` counts failed statements. A property that a second
  handler can break begins with `solo =>`, one that a failure can break with
  `faults = 0`; the others hold without either. `alone` (Ratings), `lone`
  (Drivers) and `raced` (Push) are the same idea for one handler, and
  `approved`, `wanted`, `stayed`, `tries`, `wins` and `bought` remember what the
  rows no longer show.
* **`OtpAuth`**: a code is its number in the order of `expires_at`; a presented
  code is right or wrong. Its age is `fresh` within the cooldown, then `live`,
  then `expired`; older codes of a phone age first. The two services' copies
  of the same helper are one action, with `kind` telling them apart where they
  differ. `verifyLoginOtp` and `verifyRegisterOtp` end in the same code, as they
  do in the source.
* **`Drivers`**: `approveDriver`, `rejectDriver` and `updateStatus` write back
  the profile they loaded; the application, location updates and deliveries
  write columns. `passes` are the roles of the tokens and sockets the user
  still holds, which may be older than the row. The notification after an
  approval or rejection is left out: it is the handler's last statement, and
  its failure changes none of these rows. The booking's own life is
  `Delivery`'s; here it is four steps (`RideMoves`, `Delivered`).
* **`Ratings`**: an average is known by the set of rows it was computed from, so
  that a stale one is told from a right one without arithmetic.
* **`Push`**: one push per handler, running beside everything else, as the code
  starts it without awaiting it.
* **`Notices`**: a statement takes a connection for its duration, a transaction
  keeps one until it ends, and waiting for a row lock keeps the connection.
  `Holding` and `Free` are the pool, `Unlocked` the row locks. The two updates
  of the bids are one step, since `Bidding` has the rules of acceptance.
* **`Listings`**: requests are numbered by creation, so `created_at` has no ties
  (a tie would leave the order to PostgreSQL). Distances and owners are
  constants; the geometry of H3 is not modelled. The radii still to be tried are
  a set, walked from its least element, as the code filters and walks a sorted
  array. `Sorted` is a choice among the arrangements of a set: the library's
  sort is recursive, which would keep the module from being proved about.
  `ListingsAssumption` is what the DTO validates of page, limit and k.

`Bidding` starts with the request `create` has saved. It ends its interest at
`BOOKED`; `Delivery` starts there. Definitions named `Mut...` are defective
variants of the definition below them. No action uses them: replacing the real
definition by one must violate the property it is paired with in
`PROJECT.json`, which shows that the property can fail.

## Properties and runs

| Run | Instance | Checks |
|---|---|---|
| `bidding_serial` | 2 drivers, 2 bids, 2 prices, 1 handler, 1 idle gap, 1 fault, fairness | `OneAward`, `StatusMatchesBids`, `StaleRequestsEnd`, `ImplementsDeal` |
| `bidding_race` | 2 drivers, 2 bids, 2 handlers, 1 idle gap | `TypeOK`, `NoOrphans`, `SettledBidsStay`, `SweepSparesBooked` |
| `delivery_serial` | 1 handler, 2 faults | `TypeOK`, `RequestFollowsBooking`, `DeliveredIsCounted`, `StatusesFollowTables` |
| `delivery_race` | 2 handlers, 2 faults, fairness | `TripsCountedOnce`, `ProofStands`, `ClaimStands`, `OverdueBookingsClose` |
| `services` | 2 handlers, 1 fault, one service in each behaviour | the 21 properties below |

| Module | Properties of `services` |
|---|---|
| all | `TypeOK`, which bounds the attempts column and the page length too |
| `OtpAuth` | always: `PhoneProved`, `CapHolds` (overlapping requests exceed the cap by at most the handlers besides one), `GivenForRightCode` (a row may be used, revived and used again, but never without a right guess for each use); without overlap: `GuessesBounded`, `CodeUsedOnce`, `OneCodePerPhone`, and without failure too `SpentCodeBuys` |
| `Drivers` | always: `TripsNeverInvented`, `PassNeedsProfile`, `OnlineWasApproved`, `PresenceHeals` (going online or a position sent repairs presence row and profile, if its handler ran alone); without failure: `ApplicationWhole`; without either: `PresenceAgrees`, `SearchMatchesHeatmap` |
| `Ratings` | always: `RatingHeals` (a rating that runs alone repairs whatever went wrong before it) |
| `Push` | `TokenKept`, unless the client sets a token while a push is under way |
| `Notices` | always: `StuckOnlyByAwards`; without overlap or failure: `ToldOnlyCommitted` |
| `Listings` | `SearchStopsAtFirst` while requests come and go, `PagesPartition` |

The hypotheses are needed. With two handlers a code is guessed more often than
`OTP_MAX_ATTEMPTS`, two requests leave two valid codes, a code gives two
sessions, and a wrong guess that overlaps a right one brings a used code back;
an on and an off request leave a driver online without presence. One failed
statement uses up a code for nothing, leaves a client with a profile who can
never apply again, or leaves drivers told of a booking that was rolled back.
`StuckOnlyByAwards` is about a state that is reached: two acceptances, or one
and a rejection waiting for its bids, exhaust a pool of two for good
(`bids.service.ts:285`), as nothing in the code times out.

What the properties do not say: a driver told of a rejection may be told again
(`bids.service.ts:293` selects every rejected bid of the request); a location
update may leave the presence row of a driver who is offline; a rejected driver
stays online until the next status change; the search's pages may stop at
different radii, and a starting radius between two rungs is rounded up, where
the comment at `requests.service.ts:237` says it is the one asked for.

The serial runs say what the code promises when requests are handled one after
the other; the sweep still interleaves with every handler at every statement.
`ImplementsDeal` is `Spec` of `Deal` under the mapping of `BiddingDeal`: the
offers are the prices named on the live bids, the deal is the accepted bid with
its agreed price, the phase follows the request's existence and the award. With
two prices the deal must also be struck at a price named on its bid.

The race runs say what is left when two handlers overlap. That is less: under
two handlers `OneAward`, `StatusMatchesBids`, `ImplementsDeal` and
`StatusesFollowTables` all fail. A counter-offer or a refusal that read a bid
before it was settled saves its whole row over the outcome; `SettledBidsStay`
says that nothing else brings a bid back, so that a settled bid in no handler's
hands keeps its status until its row is deleted. `TripsCountedOnce` holds
for two handlers and fails for three: a start that is about to save the request
and a second deliver that is about to save the booking both outlive a
confirmation, and take request and booking back to where a second confirmation
counts the trip again. With one of them alone, either the request or the booking
stays over. What holds of a booking for any number of handlers is that nobody
delivers it without the driver's proof (`ProofStands`) and that the sweep's
claim is not undone while the sweep finishes its work (`ClaimStands`, the
"first writer wins" of `bookings.service.ts:295-299`): a proof a day old can only
be claimed once every save of the booking has ended.

Seven runs show where the program departs from what its documentation or comments
say; each is a finding in `PROJECT.json`:

| Run | Shows |
|---|---|
| `bidding_double` (`OneAward`, 2 handlers) | two overlapping acceptances both commit: two accepted bids, two bookings |
| `bidding_closed` (`ClosedRequestsStay`, 2 handlers) | a bid that overlaps the cancellation puts a cancelled request back to BIDDING |
| `bidding_idle` (`SweepFailsOnlyIdle`) | a request that became active between the sweep's SELECT and UPDATE is failed |
| `bidding_offer` (`LatestOfferIsAgreed`) | plain accept of a bid the driver has countered books the original price |
| `bidding_counter` (`CounterIsAgreed`, 2 handlers) | the driver accepts a counter that an overlapping one replaces before the transaction commits: the booking is at the first price, the bid shows the second |
| `delivery_fail` (`FailureReachesRequest`) | failing a booking before its start leaves the request BOOKED |
| `delivery_cancel` (`CancelUnwindsBoth`) | cancelling a booked request leaves its booking CONFIRMED |

### Bounds

`BidIds` bounds the bids ever made; two drivers and two bids let a driver
withdraw and bid again, or two bids compete, which is what the award and the
status depend on. Every property about bids speaks of one bid or of two, and the
proofs are for any number. One price suffices where prices are only carried;
`bidding_serial` and `bidding_counter` have two. `MaxBookings` and `MaxTrips`
are 2, one more than what is right, so that a second booking or trip is visible.
One gap of 15 days reaches every stale state; a second would need a request to
survive being stale, which one bid after the gap already shows. Faults are one
or two per run: each property about faults needs one, and `DeliveredIsCounted`
and `StatusMatchesBids` are stated for runs without. Drivers, bids, handlers and
prices are interchangeable, as nothing compares them but for equality; symmetry
is used in safety runs only. `kickSweep` is always enabled when no sweep is in
flight, so TLC's deadlock check, left on, says little about these modules.

`services` checks a sum: a behaviour runs one service and leaves the others at
their initial states. The services share no rows with each other in these models,
and their product is beyond TLC; that each keeps its promises while the others
run too is `ServicesKeepPromises`, proved of `Together`.
One-time codes run twice. `codes` lets handlers follow one another with
`MaxCodes` = 3 codes (the first user's included) and `MaxTries` = 3 guesses,
enough for a code to be replaced after another was exhausted (`MaxAttempts` =
1) and for a phone to move, be registered again and be asked for. `codes race`
lets two handlers overlap at every statement, with `RaceCodes` = 2 and
`RaceTries` = 2, which is one code presented twice and the new code of the same
or another phone. `HourlyCap` = 1 makes the second request the refused one.
`Requests` = 2, `Bidders` = 2 and `PoolSize` = 2 reach the exhausted pool both
ways. Two cells, one in the search's ring, tell a driver found from one not
found. Three requests at distances 7, 1 and 4 put the ladder's rungs between
them, and the queries start at, between and above rungs. Only the handlers are
interchangeable there, and only they are permuted; the run checks two action
properties and no liveness. Deadlock is not checked in `services`: once every
code is issued and guessed the model of the codes stops at its bounds, and the
pool of `Notices` really can stop.

### Fairness

`FairSpec` adds weak fairness of `kickSweep` and of the sweep's statements. The
first holds as long as the apps poll their lists, which is how the code means
the sweeps to be driven; the second as long as the database answers. Nothing is
assumed of users: no client need confirm, no driver need deliver. A failing
sweep is bounded by `MaxFaults`; after its last failure the next kick succeeds.

## Proofs

`tlapm` proves every obligation of the eight proof modules, for all sets of
drivers, bids, prices, phones, tokens, bookings and handlers and all bounds, from
the assumptions named in the modules (`NullAssumption`, `BoundAssumption`,
`ServerAssumption`, `OtpAssumption`, ...) alone.

* **Types** (`TypeCorrect`, both modules, any number of handlers). `TypeOK` is
  not inductive: a handler writes the row it holds. The strengthening says what
  held rows may be (`HandlerOK`, `Sound`).
* **`NoOrphansHolds`, `SweepSparesBookedHolds`** hold for any number of
  concurrent handlers, because the foreign keys or a conditional update enforce
  them at the moment of the write.
* **`SettledBidsStayHolds`** is for any number of concurrent handlers too, from
  types alone. A handler that begins takes up a live bid or none
  (`LoadsTakeLive`), one that goes on keeps the bid it has or gives it up
  (`KeepsItsBid`), and an acceptance leaves the bids it is not about alone
  unless they are live (`CommitSpares`): so nobody comes to hold a settled bid,
  and a settled bid nobody holds is written by nobody but the delete.
* **`OneAwardHolds`** is for one handler at a time (`OneHandler`; the sweep still
  runs beside it). The invariant `AwardInv` adds that no bid is accepted while
  the request is open for bids, and what a handler may rely on at each of its
  places (`Relying`): no acceptance can happen between its check and its write.
* **`Refinement`** rests on `BargainInv`, again for one handler: what a handler
  read of a bid, its status and the price it is about to agree on, still holds
  when it writes (`Stands`). `Refinement` shows `Spec => ImplementsDeal`: a
  successful acceptance maps to `Strike`, each other write of a bid to
  `Bargain`, a deletion to `Void`, and every other step leaves offers, deal and
  phase alone.
* **`StatusMatchesBidsHolds`** needs `StatusInv`, which says how status and bids
  may differ between the two writes of create, reject and withdraw (`Midway`),
  and that only the sweep can have changed the status since the handler read it
  (`Remembers`).
* **`AssertTransitionExact`** settles what the one check of `state-machine.ts`
  lets through, although it guesses the table from strings the two enums share:
  the arrows of the request table for a request, and for a booking the arrows of
  its own table and one more, from `IN_TRANSIT` straight to `DELIVERED`. The
  proofs below must live with that arrow; `confirmDelivery` closes it by testing
  the status again in its transaction (`Claimable`).
* **`ProofStandsHolds`, `ClaimStandsHolds`** are for any number of handlers.
  `ClaimInv` says what the rows in the handlers' hands may be (`HeldOK`: a row
  that awaits confirmation carries its proof, and no handler holds a delivered
  one), and that while the sweep is at work, or a proof is overdue, no handler
  is about to save the booking (`SweepAlone`).
* **`TripsCountedOnceHolds`** is for two handlers (`TwoHandlers`). Once a trip is
  counted, `Counted` says that the request is over and no start is about to save
  it (`RequestOver`), or the booking is over and nothing is about to save it
  (`BookingOver`); each excludes a second confirmation and a second sweep, and of
  the handlers that stand by while a trip is counted one alone can break only
  one of the two.
* **`RequestFollowsBookingHolds`, `StatusesFollowTablesHolds`** follow from
  `DeliveryInv`, for one handler beside the sweep. Its parts: `HandlerRelies` (a
  handler about to save the booking finds it CONFIRMED or IN_TRANSIT, which the
  sweep never touches), `SweepRelies` (once it has claimed the booking, the sweep
  is the only one that can count its trip), `RowsAgree` (the properties
  themselves, and a trip counted only for a delivered booking).
* **`DeliveredIsCountedHolds`** adds `Counting`: a delivered request without a
  failure has its trip counted, or the sweep is just about to count it, and a
  trip is counted for a delivered request only. It stands because no handler
  can move or delete a request that is DELIVERED.

The hypotheses `OneHandler` and `TwoHandlers` are needed: `bidding_double` shows
the award failing with two handlers, and the paragraph on the race runs how a
trip is counted twice with three.

The services' proofs are of two kinds. Where a property holds under any overlap,
its invariant says what every handler may rely on at each of its statements
whatever the others do; where it holds without overlap, the invariant adds that
at most one handler runs and what it knows of the rows it read.

* **`OtpProofs`**. `Facts` is the part for any number of handlers: what a
  handler past its comparison holds is a code of its phone that was presented
  rightly (`HeldOK`), and `CapInv` counts the handlers that saw room below the
  cap and have yet to count themselves, each of which adds at most one
  (`FiniteSetTheorems`). `PaidInv` does the same for `GivenForRightCode`: of
  each code, what it gave and the handlers that are past their right guess of it
  and have yet to give something (`Paying`) are no more than its right guesses.
  `Serial` is the part without overlap: what the running handler knows that
  nobody else can change (`SoloOK`), and how guesses, attempts, wins and faults
  add up for each code (`CodeOK`).
* **`DriversProofs`**. `Core` bounds the profiles that handlers hold as the
  properties bound the row (`HoldsOK`), so that saving a stale one harms
  neither. `Solitary` says how far presence row and profile are apart at each
  statement of `updateStatus` and of a location update (`MidwayOK`).
  `PresenceHeals` needs instead what a handler that has run alone has already
  written, whatever came before it (`LoneWrote`).
* **`RatingsProofs`**. `RatingHeals` needs that while a handler is `alone`, the
  rows it aggregated are still all the rows, and the average it wrote stands.
* **`NotificationsProofs`**. `TokenKept` needs that, unless `raced`, the token a
  push holds is the one the client last set, and is dead or malformed once the
  push is about to clear it. For notifications, `ToldOnlyCommitted` needs how
  far telling may be ahead of the rows at each statement (`Pair`).
  `StuckOnlyByAwards` is an argument about who waits for whom, over the
  invariant that no two acceptances of one request have both written their bids
  (`AwardsApart`).

* **`ListingsProofs`**. `LeastNumber` (a set of numbers has a least one, from
  the library's theorems on well-founded orders) stands in for induction
  throughout: a set with no arrangement, of the fewest elements, would get one
  by putting its last element last (`SortedExists`); the least page that reaches
  a row is the page that shows it (`PagesOfList`). `SearchStopsAtFirst` needs
  that a request present all along is outside every rung that was tried and
  found empty, and that the counted rung is the least of those left.
* **`ServicesProofs`**. `ServicesKeepPromises` puts the invariants side by side
  (`EachHolds`). What the services share is `solo` and `faults`, and the others
  only let overlaps and failures grow (`Later`); no invariant is lost then, since
  `solo` and `faults = 0` are hypotheses only, and the count of guesses allows
  for more failures, not for fewer. `AloneIsTogether` ties this to what TLC
  checks.

Only model-checked: the liveness properties `StaleRequestsEnd` and
`OverdueBookingsClose`, which this prover cannot reach.

## Plan

Done: `StateMachine`, `Bidding`, `Deal` and its refinement, `Delivery`,
`OtpAuth`, `Drivers`, `Ratings`, `Push`, `Notices`, `Listings`, `Services`,
their runs, and proofs of every safety property the runs check. Worth doing
next: a composition of `Bidding` and `Delivery`, and the abstract life of a
booking that `Delivery` implements for one handler.

## Not modelled

* `logout`, `markRead`, profile edits and the avatar: one update each, of a
  column or file that no other operation decides on.
* The expiry and revocation of refresh tokens: tested in the one query that
  uses them.
* Rows of `tracking_events`, socket rooms and broadcasts: written or sent, and
  read by nothing in the service.
* `approveDriver`'s and `rejectDriver`'s notification, and the notifications of
  the other handlers of bids and bookings, which all come after the last write
  of their handler.
* `backfill` of `last_activity_at`, which runs once before the first request.
* H3's geometry, image compression, mail, support, configuration, filters, DTOs
  and controllers: no state, or one call each.
* The stress test: a script that drives the service from outside.
* Liveness of the services: nothing in them has to happen without a user asking
  for it, and a statement that never answers blocks its handler, as no timeout
  is set.
