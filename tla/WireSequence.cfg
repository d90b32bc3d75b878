\* Two connections, at most four numbers between them.
SPECIFICATION FairSpec
CONSTANTS
  Conn = {c1, c2}
  MaxNumber = 4
INVARIANTS
  NumbersRise
PROPERTIES
  NothingLost
  ParkedGoesOut
