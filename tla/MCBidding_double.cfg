SPECIFICATION Spec
CONSTANTS
  Drivers = {d1, d2}
  BidIds = {b1, b2}
  Workers = {w1, w2}
  Prices = {p1}
  Null = Null
  MaxIdles = 0
  MaxFaults = 0
  MaxBookings = 2
SYMMETRY Symmetry
INVARIANTS
  OneAward
