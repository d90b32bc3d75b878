\* Two players, two codes, two connections; the operator works while nobody
\* plays (CONSTRAINT Small of MCAdmission).
CONSTANTS
  p1 = p1
  p2 = p2
  c1 = c1
  c2 = c2
  s1 = s1
  s2 = s2
  Players = {p1, p2}
  Codes = {c1, c2}
  Sockets = {s1, s2}
  Nobody = Nobody
  Fuse = 2
  TokenLimit = 2
  MaxAccount = 2
  MaxEdits = 1
SPECIFICATION Spec
CONSTRAINT Small
CHECK_DEADLOCK FALSE
INVARIANTS
  
  SavesKeepTheirCode
  
PROPERTIES
  SignupRecovers
