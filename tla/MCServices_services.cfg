SPECIFICATION Spec
CONSTANTS
  Workers = {w1, w2}
  MaxFaults = 1
  Phones = {p1, p2}
  NoPhone = NoPhone
  Users = {u1, u2}
  NoUser = NoUser
  FirstUser = u1
  FirstPhone = p1
  MaxAttempts = 1
  HourlyCap = 1
  MaxCodes = 3
  MaxTries = 3
  RaceCodes = 2
  RaceTries = 2
  Cells = {c1, c2}
  NoCell = NoCell
  Ring = {c1}
  Bookings = {b1, b2}
  NoBooking = NoBooking
  Tokens = {t1, t2, t3}
  NoToken = NoToken
  Malformed = {t3}
  Requests = {r1, r2}
  Bidders = {d1, d2}
  NoBidder = NoBidder
  PoolSize = 2
  MaxListed = 3
  Owner <- MCOwner
  Carrier <- MCCarrier
  Distance <- MCDistance
  Queries <- MCQueries
SYMMETRY Symmetry
CHECK_DEADLOCK FALSE
INVARIANTS
  TypeOK
  PhoneProved
  CapHolds
  GuessesBounded
  GivenForRightCode
  CodeUsedOnce
  SpentCodeBuys
  OneCodePerPhone
  PresenceAgrees
  SearchMatchesHeatmap
  TripsNeverInvented
  PassNeedsProfile
  ApplicationWhole
  OnlineWasApproved
  TokenKept
  StuckOnlyByAwards
  ToldOnlyCommitted
  SearchStopsAtFirst
  PagesPartition
PROPERTIES
  RatingHeals
  PresenceHeals
