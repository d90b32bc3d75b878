------------------------------- MODULE MCTrade -------------------------------
(* Three players, two maps and one kind of item.                           *)
EXTENDS Trade, TLC
CONSTANT m1

MCSlot == [i \in Item |-> 0]
Players == Permutations(Chara)

(* The search goes on from states where nobody has anything, and the       *)
(* question is who is in which window, and from those where one player is  *)
(* absent, the others are in one place and the bags change.                *)
Small ==
  \/ \A c \in Chara : bag[c].held = NoRows
  \/ /\ \E c \in Chara : place[c] = Away /\ bag[c].held = NoRows
     /\ \A c \in Chara : place[c] \in {m1, Away}
=============================================================================
