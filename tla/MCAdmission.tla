---------------------------- MODULE MCAdmission ----------------------------
(* Admission with two players, two codes and two connections.              *)
EXTENDS Admission
CONSTANTS p1, p2, c1, c2, s1, s2

(* The search goes on from states in which the operator is not at work     *)
(* while somebody is signing in or playing, one of the two connections is   *)
(* idle or at its first step, and p1 knows the personal key.               *)
Small ==
  /\ draft # Nobody => Live = {} /\ desk = <<>>
  /\ Live # {} => Len(desk) <= 1 /\ table = rows
  /\ \A i \in DOMAIN desk : desk[i].by # Nobody /\ (desk[i].by = p1 => desk[i].who = p1)
  /\ socket[s2] # Nobody => socket[s1] # Nobody
  /\ index[c2] # 0 => index[c1] # 0 \/ edits > 0
=============================================================================
