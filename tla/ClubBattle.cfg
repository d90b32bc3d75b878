\* One against one, two players or a player and an NPC: any card, any order, any roll, and
\* either may leave or run out of time.
SPECIFICATION FairSpec
CONSTANTS
  a = a
  b = b
  None = None
  Fighter = {a, b}
  Opponents <- MCOpponents
  Team <- MCTeam
  Orders <- MCOrders
  Cards <- MCCards
  MaxVitality = 2
  MaxEnergy = 1
  TurnLimit = 4
CHECK_DEADLOCK FALSE
INVARIANTS
  FightsAreSound
  VerdictForStayers
PROPERTIES
  PlayedOnce
  EveryFightEnds
