\* Two people, two stand-ins, a scenario with the shapes of un184 and un066.
SPECIFICATION Spec
CONSTANTS
  a = a
  b = b
  n1 = n1
  n2 = n2
  None = None
  Chara = {a, b}
  Npcs = {n1, n2}
  F = F
  B = B
  Roles = {0, 1}
  Scratch = {F, B}
  Scene <- MCScene
  MaxRoad = 3
  StepBudget = 18
  LateRefusal = FALSE
INVARIANTS
  OneRoad
  RoomsAreShown
  

  
