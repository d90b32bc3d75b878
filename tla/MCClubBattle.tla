---------------------------- MODULE MCClubBattle ----------------------------
(* Values for the runs of ClubBattle: see README for the bounds.           *)
EXTENDS ClubBattle, TLC

CONSTANTS a, b

Plain ==
  [skill |-> FALSE, attack |-> 1, defence |-> 1, trait |-> "none", cost |-> 0,
   heal |-> 0, friendly |-> FALSE, whole |-> FALSE, ailment |-> "none"]
Mirror == [Plain EXCEPT !.attack = 2, !.trait = "reflect"]
Riposte == [Plain EXCEPT !.trait = "counter"]
Lullaby == [Plain EXCEPT !.skill = TRUE, !.attack = 0, !.ailment = "sleep", !.cost = 1]
Hush == [Lullaby EXCEPT !.ailment = "silence", !.attack = 1]

MCCards == {Mirror, Riposte, Lullaby, Hush}
MCTeam == [f \in Fighter |-> IF f = a THEN 0 ELSE 1]
MCOpponents == {{}, {b}}
MCOrders == {<<a, b>>, <<b, a>>}
=============================================================================
