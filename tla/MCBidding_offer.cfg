SPECIFICATION Spec
CONSTANTS
  Drivers = {d1, d2}
  BidIds = {b1, b2}
  Workers = {w1}
  Prices = {p1, p2}
  Null = Null
  MaxIdles = 0
  MaxFaults = 0
  MaxBookings = 2
SYMMETRY Symmetry
PROPERTIES
  LatestOfferIsAgreed
