----------------------------- MODULE MCStudent -----------------------------
(* Student with two people.                                                *)
EXTENDS Student, TLC
CONSTANTS p1, p2, a, b, k1, k2, throw, feint, c1, c2, c3, amm, ksg

Belongs == [s \in {throw, feint} |-> IF s = throw THEN a ELSE b]
Usable == [p \in {p1, p2} |-> {throw, feint}]
Leads == [k \in {k1, k2} |-> IF k = k1 THEN {k2} ELSE {}]

Rungs == [n \in {0} |-> 1]

Alike == Permutations({c1, c2, c3})

(* p1 as p1 began, or in club a with a deck to fight with.                 *)
Fresh == member[p1] = member[p2]
Ready == member[p1] = [member[p2] EXCEPT !.club = a, !.kw[k1] = 0, !.deck[0] = {k1}, !.use[0] = Uses]

InUse == <<seated # {}, \E p \in Players : seat[p] # Standing, days # 0,
           ~(Fresh \/ Ready) \/ screen[p1] # "none" \/ satchel[p1] # satchel[p2],
           love[p1] # [love[p2] EXCEPT !.pending = love[p1].pending] \/ ~AtEase(p1) \/ said[p1] # NothingSaid>>

(* Romance is p1's alone as well: with ksg only once amm has written or    *)
(* confessed, and with amm not all over again.                             *)
Apart ==
  LET amms == love[p1].row[amm]
      ksgs == love[p1].row[ksg] IN
  /\ InUse[5] => p2 \notin online /\ sheet[p1] = sheet[p2] /\ Fresh
  /\ love[p2].row[amm] = NewRow /\ love[p2].row[ksg] = NewRow /\ AtEase(p2) /\ said[p2] = NothingSaid
  /\ ksgs.debut => /\ amms.letter \/ amms.ending
                   /\ amms.day = "older" /\ ~amms.quiet /\ amms.asked # "talk"
  /\ amms.ending /\ love[p1].captured = NoOne => amms.intimacy = 0
  /\ amms.letter => amms.asked # "talk" /\ amms.photos
  /\ scene[p1].what \in {"tutorial", "replay", "meeting", "staff"} => ksgs.intimacy = 0
  /\ ksgs.ending => amms.ending /\ ksgs.day = "older" /\ ksgs.photos
  /\ love[p1].captured # NoOne => scene[p1].what # "meeting"

(* The search goes on from states with one of lessons, seats, exams and    *)
(* clubs in use.  Exam periods and clubs are p1's alone: at most two       *)
(* papers, and a climb in club a only, with the books of one deck and in   *)
(* good health unless nothing was learnt in the club yet.                  *)
Small ==
  /\ Cardinality({i \in DOMAIN InUse : InUse[i]}) <= 1
  /\ \A p \in Players : Len(handedIn[p]) <= 2
  /\ InUse[3] \/ InUse[4] \/ ~Fresh => p2 \notin online /\ sheet[p2].stress = 0
  /\ InUse[3] => sheet[p1].condition \in {Healthy, "neurosis"} /\ Fresh
  /\ InUse[4] => /\ Ready \/ (sheet[p1].condition = Healthy /\ sheet[p1].stress <= 1)
                 /\ member[p1].level[b] = 1 /\ member[p1].waits \subseteq {a}
                 /\ satchel[p1] # satchel[p2] => member[p1].deck = (0 :> {k1} @@ 1 :> {}) /\ member[p1].waits = {}
                 /\ satchel[p1].books[throw] + satchel[p1].books[feint] <= 1
  /\ member[p2].club = NoClub
  /\ member[p1].deck[0] \in {{}, {k1}, {feint}} /\ member[p1].deck[1] \in {{}, {k1}, {throw}, {k2}}
  /\ Apart
=============================================================================
