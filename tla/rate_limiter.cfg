SPECIFICATION Spec
CONSTANTS
  h1 = h1
  h2 = h2
  k1 = k1
  k2 = k2
  Thread = {h1, h2}
  Key = {k1, k2}
  Idle = Idle
  Capacity = 3
  Rate = 1
  Cost = 2
  MaxClock = 5
INVARIANTS RateBound
SYMMETRY Symmetry
