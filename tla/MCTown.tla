------------------------------- MODULE MCTown -------------------------------
(* Town on a small campus.                                                  *)
EXTENDS Town, TLC
CONSTANTS p1, p2, p3, m1, m2

(* Besides the training rooms and the fights, no more than `Extras` of what *)
(* else can go on -- lessons, chat rooms, signs, reading, a doorway -- goes *)
(* on at once, and then no training room has everybody in it and whoever    *)
(* joins one stays on the side they were given.                             *)
CONSTANT Extras

InUse == <<lesson # {}, \E o \in Players : chats[o] # <<>>, signs # {}, reading # {},
           \E p, q \in Players : place[p] = m1 /\ place[q] = m2>>

Extra == {i \in DOMAIN InUse : InUse[i]}

FewAtOnce ==
  /\ Cardinality(Extra) <= Extras
  /\ Extra # {} => \A l \in Players : /\ Ids(training[l]) # Players
                                       /\ training[l].sideA \subseteq {l}
=============================================================================
