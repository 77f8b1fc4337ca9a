SPECIFICATION Spec
CONSTANTS
  h1 = h1
  h2 = h2
  h3 = h3
  a = a
  b = b
  Handler = {h1, h2, h3}
  Id = {a, b}
  NoId = NoId
  Bad = Bad
  Garbled = Garbled
  MaxCuts = 2
INVARIANTS DuplicatesBounded LossBounded
SYMMETRY Symmetry
