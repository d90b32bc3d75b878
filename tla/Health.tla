------------------------------- MODULE Health -------------------------------
(***************************************************************************)
(* Stress and what it does to a body (server/stress.py, the ability sheet  *)
(* of server/ability.py, the vitals of server/mps_session.py).  Whatever a *)
(* character does charges the sheet; a charge of somebody who was already  *)
(* over the line may break them, and two ways of breaking make a third.    *)
(* Only a stress of nothing makes healthy again.                           *)
(*                                                                         *)
(* Stress is counted in lessons and the line is drawn at NeurosisAt of     *)
(* them; a point sat off costs Slow spells of sitting, or one spell in a   *)
(* healing place.                                                          *)
(***************************************************************************)
EXTENDS Online

CONSTANTS Full, NeurosisAt, Slow,
          MaxSeated   \* bound: spells of sitting that are still owed

ASSUME HealthAssumption ==
  NeurosisAt \in 1..Full /\ Full \in Nat /\ Slow \in Nat \ {0} /\ MaxSeated \in Nat

Healthy == "healthy"
Conditions == {Healthy, "neurosis", "injury", "doctor stop"}

VARIABLES
  sheet,   \* on disk, AbilitySheet: stress and condition
  seat     \* session.pose, the place sat at, and the time owed since sat_at

healthVars == <<sheet, seat>>
Standing == [at |-> "nowhere", owed |-> 0]

HealthInit ==
  /\ sheet = [p \in Players |-> [stress |-> 0, condition |-> Healthy]]
  /\ seat = [p \in Players |-> Standing]

Neurotic(p) == sheet[p].condition \in {"neurosis", "doctor stop"}
-----------------------------------------------------------------------------
(* worsen: what one more complaint makes of a condition.                   *)
Worsen(condition, added) ==
  IF condition \in {"doctor stop", added} \/ added = Healthy THEN condition
  ELSE IF condition = Healthy THEN added ELSE "doctor stop"

(* charge: the sheets one activity may leave.  It is the stress they began *)
(* with that is judged, and over the line it is a matter of luck.          *)
Charged(s, amount, into) ==
  LET stress == IF s.stress + amount > Full THEN Full ELSE s.stress + amount IN
  {[stress |-> stress, condition |-> c] :
     c \in IF s.stress >= NeurosisAt THEN {s.condition, Worsen(s.condition, into)}
           ELSE {s.condition}}

AfterLesson(s) == Charged(s, 1, "neurosis")        \* and an exam
AfterClubActivity(s) == Charged(s, 1, "injury")
AfterGousei(s) == Charged(s, 1, Healthy)           \* charges, never breaks

(* relieve, and the same two lines of the helping skills: taking off       *)
(* stress, and at nothing the complaint with it.                           *)
Relieved(s, amount) ==
  LET left == IF amount > s.stress THEN 0 ELSE s.stress - amount
  IN [stress |-> left, condition |-> IF left = 0 THEN Healthy ELSE s.condition]

-----------------------------------------------------------------------------
(* recover: what sitting is worth; the spells not worth a point stay owed. *)
Rate(at) == IF at = "healing" THEN 1 ELSE Slow
Rested(s, where) ==
  LET points == where.owed \div Rate(where.at)
      counts == where.at # "nowhere" /\ s.stress > 0
                /\ (s.condition = Healthy \/ where.at = "healing")
      off == IF ~counts THEN 0 ELSE IF points > s.stress THEN s.stress ELSE points
  IN [sheet |-> IF off > 0 THEN Relieved(s, off) ELSE s,
      seat |-> [where EXCEPT !.owed = @ - off * Rate(where.at)]]

(* _drain_vitals, on every packet that arrives.                            *)
DrainVitals(p) ==
  /\ p \in online
  /\ sheet' = [sheet EXCEPT ![p] = Rested(@, seat[p]).sheet]
  /\ seat' = [seat EXCEPT ![p] = Rested(sheet[p], @).seat]

(* 0x4806 sitting down: sat_at is now, whatever was owed.                  *)
SitDown(p, at) ==
  /\ p \in online
  /\ seat' = [seat EXCEPT ![p] = [at |-> at, owed |-> 0]]
  /\ UNCHANGED sheet

(* _stand_up: the map the seat was on is gone.                             *)
Stands(p) == seat' = [seat EXCEPT ![p] = Standing]

(* The move casts.                                                         *)
StandUp(p) ==
  /\ seat[p] # Standing /\ Stands(p)
  /\ UNCHANGED sheet

TimePasses(p) ==
  /\ seat[p] # Standing /\ seat[p].owed < MaxSeated
  /\ seat' = [seat EXCEPT ![p].owed = @ + 1]
  /\ UNCHANGED sheet

(* _item_effect of something that takes stress off.                        *)
UseRelief(p) ==
  /\ p \in online
  /\ sheet' = [sheet EXCEPT ![p] = Relieved(@, 1)]
  /\ UNCHANGED seat

HealthGone(who) == seat' = [p \in Players |-> IF p \in who THEN Standing ELSE seat[p]]

-----------------------------------------------------------------------------
(* Type correctness.                                                       *)
HealthTypeOK ==
  /\ sheet \in [Players -> [stress : 0..Full, condition : Conditions]]
  /\ seat \in [Players -> [at : {"nowhere", "healing", "elsewhere"}, owed : 0..MaxSeated]]
  /\ \A p \in Players \ online : seat[p] = Standing

(* Nobody is ill without stress: whatever takes the last of it off, a seat,*)
(* a lunch, a classmate or a thing eaten, cures, and whatever writes a     *)
(* sheet back writes both.  An ill character whose bar is empty could not  *)
(* get well by any means.  stress.py relieve, charge; _relieve.            *)
IllnessHasStress == \A p \in Players : sheet[p].condition # Healthy => sheet[p].stress > 0
=============================================================================
