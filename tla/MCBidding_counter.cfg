SPECIFICATION Spec
CONSTANTS
  Drivers = {d1}
  BidIds = {b1}
  Workers = {w1, w2}
  Prices = {p1, p2}
  Null = Null
  MaxIdles = 0
  MaxFaults = 0
  MaxBookings = 2
SYMMETRY Symmetry
PROPERTIES
  CounterIsAgreed
