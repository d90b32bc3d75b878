\* Two students; one side of school life in use at a time (CONSTRAINT Small of
\* MCStudent).
CONSTANTS
  p1 = p1
  p2 = p2
  a = a
  b = b
  k1 = k1
  k2 = k2
  throw = throw
  feint = feint
  c1 = c1
  c2 = c2
  c3 = c3
  amm = amm
  ksg = ksg
  Players = {p1, p2}
  Nobody = Nobody
  Full = 2
  NeurosisAt = 1
  Slow = 2
  MaxSeated = 2
  Choices = {c1, c2, c3}
  NoAnswer = NoAnswer
  NarrowedSize = 2
  Subjects = {"math", "art"}
  Scores = {0, 1}
  MaxPeriod = 2
  ClubKeys = {a, b}
  Keywords = {k1, k2}
  Skills = {throw, feint}
  SkillClub <- Belongs
  ForSex <- Usable
  Successors <- Leads
  FullScale = 1
  LadderTop = 2
  Decks = {0, 1}
  Uses = {"practice"}
  Granting = {k1, k2}
  MaxBooks = 1
  Candidates = {amm, ksg}
  NoOne = NoOne
  Tutored = {amm}
  NewPlayers = {p1}
  Events = 1
  Needed <- Rungs
  Grants = {1, 2}
  MaxIntimacy = 2
SPECIFICATION Spec
CONSTRAINT Small
SYMMETRY Alike
CHECK_DEADLOCK FALSE
INVARIANTS
  SheetsAreSound
  
  ExamsCountOnce
  
  OneConfession
PROPERTIES
  GrowthIsSteady
  
