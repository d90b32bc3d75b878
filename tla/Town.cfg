\* Three people on two maps, each with some of the things there are to do.
CONSTANTS
  Extras = 1
  p1 = p1
  p2 = p2
  p3 = p3
  m1 = m1
  m2 = m2
  Players = {p1, p2, p3}
  Maps = {m1, m2}
  Homes = {m1}
  Limit = 3
  TeamMax = 2
  Walkers = {p3}
  Pupils = {p2}
  Readers = {p3}
  Switchers = {p2}
  Signers = {p3}
  Chatters = {p1, p2}
  Droppers = {p1}
  MayReturn = FALSE
  Nowhere = Nowhere
SPECIFICATION Spec
CONSTRAINT FewAtOnce
CHECK_DEADLOCK FALSE
INVARIANTS
  IconsAreTrue
  
  FightsAreFair
