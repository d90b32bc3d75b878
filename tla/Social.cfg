\* Three people; one family of arrangements in use at a time (CONSTRAINT Small
\* of MCSocial).
CONSTANTS
  p1 = p1
  p2 = p2
  p3 = p3
  hall = hall
  annexe = annexe
  Players = {p1, p2, p3}
  Nobody = Nobody
  Qualified = {p1}
  Scholars = {p1}
  MaxId = 2
  MemberLimit = 2
  ClublikeLimit = 3
  Slots = {hall, annexe}
  Terms <- OnceATerm
  BookLimit = 1
  Staff = {p1}
SPECIFICATION Spec
CONSTRAINT Small
CHECK_DEADLOCK FALSE
INVARIANTS
  GroupsAreWhole
  PairsAgree
  BooksWithinLimit
