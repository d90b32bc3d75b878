\* Three players and two maps; bags only while one of the three is absent.
SPECIFICATION Spec
CONSTANTS
  m1 = m1
  Item = {hat}
  RowMax = 3
  Slot <- MCSlot
  NoUnequip = {}
  NoTrade = {}
  Chara = {a, b, c}
  None = none
  Map = {m1, m2}
  Away = away
SYMMETRY Players
CONSTRAINT Small
INVARIANTS
  TradeIsMutual
  OneApplication
  ServerStateIsShown
  BagsAreKept
PROPERTY
  FairTrade
