\* Three people on one map, one of whom may lose the connection.
CONSTANTS
  Extras = 1
  p1 = p1
  p2 = p2
  p3 = p3
  m1 = m1
  m2 = m2
  Players = {p1, p2, p3}
  Maps = {m1}
  Homes = {m1}
  Limit = 3
  TeamMax = 2
  Walkers = {}
  Pupils = {}
  Readers = {}
  Switchers = {}
  Signers = {}
  Chatters = {}
  Droppers = {p1}
  MayReturn = FALSE
  Nowhere = Nowhere
SPECIFICATION Spec
CHECK_DEADLOCK FALSE
INVARIANTS
  DoorsAreShown
