----------------------------- MODULE StudentProofs -----------------------------
(***************************************************************************)
(* Why a school year keeps its word, for any number of students, classes,  *)
(* subjects, clubs and candidates: sheets and decks stay sound, an exam    *)
(* counts and counts once, what was learnt stays learnt, the right answer  *)
(* stays on the table, nobody an exam bell rang for is turned away, and    *)
(* what was lived through with the candidates stays lived through.         *)
(* The invariant, YearInv, has one part per component; each part is kept by*)
(* the steps of its own component and left alone by the others'.           *)
(***************************************************************************)
EXTENDS Student, SequenceTheorems, WellFoundedInduction, TLAPS

-----------------------------------------------------------------------------
(* Health: the sheet every part of the day writes.                         *)
TheSheets == [stress : 0..Full, condition : Conditions]
TheSeats == [at : {"nowhere", "healing", "elsewhere"}, owed : 0..MaxSeated]
SheetOK(s) == s \in TheSheets /\ (s.condition # Healthy => s.stress > 0)

LEMMA ChargedIsSound ==
  ASSUME NEW s, SheetOK(s), NEW amount \in {0, 1}, NEW into \in Conditions,
         NEW t \in Charged(s, amount, into)
  PROVE  SheetOK(t)
<1> DEFINE stress == IF s.stress + amount > Full THEN Full ELSE s.stress + amount
<1>1. s.stress \in 0..Full /\ s.condition \in Conditions /\ NeurosisAt \in 1..Full /\ Full \in Nat
  BY HealthAssumption DEF SheetOK, TheSheets
<1>2. stress \in 0..Full /\ stress >= s.stress
  BY <1>1
<1>3. Worsen(s.condition, into) \in Conditions
  BY <1>1, Zenon DEF Worsen, Conditions, Healthy
<1>4. PICK c \in {s.condition, Worsen(s.condition, into)} :
        /\ t = [stress |-> stress, condition |-> c]
        /\ c = s.condition \/ s.stress >= NeurosisAt
  BY DEF Charged
<1> HIDE DEF stress
<1>5. t.stress = stress /\ t.condition = c /\ t \in TheSheets
  BY <1>1, <1>2, <1>3, <1>4 DEF TheSheets
<1>6. c # Healthy => stress > 0
  BY <1>1, <1>2, <1>4 DEF SheetOK
<1> QED BY <1>5, <1>6 DEF SheetOK

LEMMA RelievedIsSound ==
  ASSUME NEW s, SheetOK(s), NEW amount \in Nat
  PROVE  SheetOK(Relieved(s, amount)) /\ Relieved(s, amount).condition \in {s.condition, Healthy}
<1> DEFINE left == IF amount > s.stress THEN 0 ELSE s.stress - amount
           c == IF left = 0 THEN Healthy ELSE s.condition
<1>1. s.stress \in 0..Full /\ s.condition \in Conditions /\ Full \in Nat
  BY HealthAssumption DEF SheetOK, TheSheets
<1>2. left \in 0..Full /\ c \in Conditions /\ (c # Healthy => left > 0)
  <2>1. Healthy \in Conditions
    BY Zenon DEF Conditions
  <2> QED BY <1>1, <2>1
<1>3. Relieved(s, amount) = [stress |-> left, condition |-> c]
  BY DEF Relieved
<1>4. c \in {s.condition, Healthy}
  OBVIOUS
<1> HIDE DEF left, c
<1> QED BY <1>2, <1>3, <1>4 DEF SheetOK, TheSheets

(* Whole spells are taken off what is owed.                                *)
LEMMA WholeSpells ==
  ASSUME NEW owed \in Nat, NEW rate \in Nat \ {0}, NEW off \in Nat, off <= owed \div rate
  PROVE  off * rate \in 0..owed
<1>1. (owed \div rate) * rate <= owed
  BY Z3
<1>2. off * rate <= (owed \div rate) * rate
  BY Z3
<1> QED BY <1>1, <1>2, Z3

LEMMA RestedIsSound ==
  ASSUME NEW s, SheetOK(s), NEW where \in TheSeats
  PROVE  /\ SheetOK(Rested(s, where).sheet) /\ Rested(s, where).seat \in TheSeats
         /\ Rested(s, where).sheet.condition \in {s.condition, Healthy}
         /\ Rested(s, where).seat.at = where.at
<1> DEFINE points == where.owed \div Rate(where.at)
           counts == where.at # "nowhere" /\ s.stress > 0
                     /\ (s.condition = Healthy \/ where.at = "healing")
           off == IF ~counts THEN 0 ELSE IF points > s.stress THEN s.stress ELSE points
           rest == where.owed - off * Rate(where.at)
           new == [sheet |-> IF off > 0 THEN Relieved(s, off) ELSE s,
                   seat |-> [where EXCEPT !.owed = @ - off * Rate(where.at)]]
<1>1. s.stress \in Nat /\ where.owed \in 0..MaxSeated /\ MaxSeated \in Nat
  BY HealthAssumption DEF SheetOK, TheSheets, TheSeats
<1>2. Rate(where.at) \in Nat \ {0}
  BY HealthAssumption DEF Rate
<1>3. points \in Nat
  <2>1. \A a \in Nat, b \in Nat \ {0} : a \div b \in Nat
    OBVIOUS
  <2> QED BY <1>1, <1>2, <2>1
<1>4. off \in Nat /\ off <= points
  <2> HIDE DEF points
  <2> QED BY <1>1, <1>3
<1>5. off * Rate(where.at) \in 0..where.owed
  <2> HIDE DEF off
  <2> QED BY <1>1, <1>2, <1>4, WholeSpells
<1>6. rest \in 0..MaxSeated
  <2> DEFINE taken == off * Rate(where.at)
  <2>1. taken \in 0..where.owed
    BY <1>5
  <2> HIDE DEF taken
  <2>2. where.owed - taken \in 0..MaxSeated
    BY <1>1, <2>1
  <2> QED BY <2>2 DEF taken
<1>7. Rested(s, where) = new
  BY DEF Rested
<1>8. new.seat = [where EXCEPT !.owed = rest]
  OBVIOUS
<1>9. new.sheet = IF off > 0 THEN Relieved(s, off) ELSE s
  OBVIOUS
<1> HIDE DEF rest, off, new
<1>10. [where EXCEPT !.owed = rest] \in TheSeats /\ [where EXCEPT !.owed = rest].at = where.at
  BY <1>6 DEF TheSeats
<1>11. SheetOK(new.sheet) /\ new.sheet.condition \in {s.condition, Healthy}
  BY <1>4, <1>9, RelievedIsSound
<1> QED BY <1>7, <1>8, <1>10, <1>11

HealthInv ==
  /\ sheet \in [Players -> TheSheets] /\ \A p \in Players : SheetOK(sheet[p])
  /\ seat \in [Players -> TheSeats] /\ \A p \in Players \ online : seat[p] = Standing

(* A sheet only gets worse for somebody at a desk, over a paper or in a    *)
(* club's window.                                                          *)
Harmless ==
  \A p \in Players : \/ sheet'[p].condition \in {sheet[p].condition, Healthy}
                     \/ p \in seated \/ paper[p] # NoPaper \/ screen[p] # "none"
HealthKept == HealthInv' /\ Harmless

Busy(p) == p \in seated \/ paper[p] # NoPaper \/ screen[p] # "none"

(* One character's sheet is written.                                       *)
LEMMA OneSheet ==
  ASSUME HealthInv, NEW p \in Players, NEW s, SheetOK(s), sheet' = [sheet EXCEPT ![p] = s]
  PROVE  /\ sheet' \in [Players -> TheSheets] /\ \A q \in Players : SheetOK(sheet'[q])
         /\ sheet'[p] = s /\ \A q \in Players \ {p} : sheet'[q] = sheet[q]
<1>1. s \in TheSheets /\ sheet \in [Players -> TheSheets]
  BY DEF SheetOK, HealthInv
<1>2. sheet' \in [Players -> TheSheets]
  BY <1>1
<1>3. sheet'[p] = s /\ \A q \in Players \ {p} : sheet'[q] = sheet[q]
  BY <1>1
<1> QED BY <1>2, <1>3 DEF HealthInv

LEMMA StandingFits == Standing \in TheSeats
BY HealthAssumption DEF Standing, TheSeats

(* Somebody who stands up, stays or goes.                                  *)
LEMMA SeatsStay ==
  ASSUME HealthInv, online' = online, NEW p \in Players, UNCHANGED seat \/ Stands(p)
  PROVE  seat' \in [Players -> TheSeats] /\ \A q \in Players \ online' : seat'[q] = Standing
<1>1. CASE UNCHANGED seat
  BY <1>1 DEF HealthInv
<1>2. CASE Stands(p)
  BY <1>2, StandingFits DEF HealthInv, Stands
<1> QED BY <1>1, <1>2

(* What one activity does: somebody is charged who is busy, or relieved.   *)
LEMMA OneCharged ==
  ASSUME HealthInv, online' = online, NEW p \in Players, NEW q \in Players,
         UNCHANGED seat \/ Stands(q), NEW s, SheetOK(s), sheet' = [sheet EXCEPT ![p] = s],
         Busy(p) \/ s.condition \in {sheet[p].condition, Healthy}
  PROVE  HealthKept
<1>1. /\ sheet' \in [Players -> TheSheets] /\ \A x \in Players : SheetOK(sheet'[x])
      /\ sheet'[p] = s /\ \A x \in Players \ {p} : sheet'[x] = sheet[x]
  BY OneSheet
<1>2. Harmless
  BY <1>1 DEF Harmless, Busy
<1> QED BY <1>1, <1>2, SeatsStay DEF HealthKept, HealthInv

LEMMA NobodyCharged ==
  ASSUME HealthInv, online' = online, NEW p \in Players, UNCHANGED seat \/ Stands(p), UNCHANGED sheet
  PROVE  HealthKept
<1>1. Harmless
  BY DEF Harmless
<1> QED BY <1>1, SeatsStay DEF HealthKept, HealthInv

LEMMA BodyHealth ==
  ASSUME HealthInv, Body
  PROVE  HealthKept
<1>1. online' = online
  BY DEF Body
<1>2. PICK p \in Players :
        \/ DrainVitals(p) \/ StandUp(p) \/ TimePasses(p) \/ UseRelief(p)
        \/ \E at \in {"healing", "elsewhere"} : SitDown(p, at)
  BY DEF Body
<1>3. SheetOK(sheet[p]) /\ seat[p] \in TheSeats
  BY DEF HealthInv
<1>4. CASE DrainVitals(p)
  <2> DEFINE r == Rested(sheet[p], seat[p])
  <2>1. /\ SheetOK(r.sheet) /\ r.seat \in TheSeats
        /\ r.sheet.condition \in {sheet[p].condition, Healthy}
    BY <1>3, RestedIsSound
  <2>2. sheet' = [sheet EXCEPT ![p] = r.sheet] /\ seat' = [seat EXCEPT ![p] = r.seat] /\ p \in online
    BY <1>4 DEF DrainVitals
  <2> HIDE DEF r
  <2>3. /\ sheet' \in [Players -> TheSheets] /\ \A x \in Players : SheetOK(sheet'[x])
        /\ sheet'[p] = r.sheet /\ \A x \in Players \ {p} : sheet'[x] = sheet[x]
    BY <2>1, <2>2, OneSheet
  <2>4. Harmless
    BY <2>1, <2>3 DEF Harmless
  <2>5. seat' \in [Players -> TheSeats] /\ \A q \in Players \ online' : seat'[q] = Standing
    BY <1>1, <2>1, <2>2 DEF HealthInv
  <2> QED BY <2>3, <2>4, <2>5 DEF HealthKept, HealthInv
<1>5. CASE StandUp(p)
  BY <1>1, <1>5, NobodyCharged DEF StandUp
<1>6. CASE TimePasses(p) \/ \E at \in {"healing", "elsewhere"} : SitDown(p, at)
  <2>1. PICK w \in TheSeats : seat' = [seat EXCEPT ![p] = w] /\ p \in online /\ UNCHANGED sheet
    <3>1. CASE TimePasses(p)
      <4>1. [seat[p] EXCEPT !.owed = @ + 1] \in TheSeats
        BY <1>3, <3>1, HealthAssumption DEF TimePasses, TheSeats
      <4>2. p \in online
        BY <3>1 DEF TimePasses, HealthInv
      <4> QED BY <3>1, <4>1, <4>2 DEF TimePasses
    <3>2. ASSUME NEW at \in {"healing", "elsewhere"}, SitDown(p, at)
          PROVE  \E w \in TheSeats : seat' = [seat EXCEPT ![p] = w] /\ p \in online /\ UNCHANGED sheet
      <4>1. [at |-> at, owed |-> 0] \in TheSeats
        BY HealthAssumption DEF TheSeats
      <4> QED BY <3>2, <4>1 DEF SitDown
    <3> QED BY <1>6, <3>1, <3>2
  <2>2. seat' \in [Players -> TheSeats] /\ \A q \in Players \ online' : seat'[q] = Standing
    BY <1>1, <2>1 DEF HealthInv
  <2> QED BY <2>1, <2>2 DEF HealthKept, HealthInv, Harmless
<1>7. CASE UseRelief(p)
  <2>1. SheetOK(Relieved(sheet[p], 1)) /\ Relieved(sheet[p], 1).condition \in {sheet[p].condition, Healthy}
    BY <1>3, RelievedIsSound
  <2> QED BY <1>1, <1>7, <2>1, OneCharged DEF UseRelief
<1> QED BY <1>2, <1>4, <1>5, <1>6, <1>7

LEMMA ConditionsNamed == "neurosis" \in Conditions /\ "injury" \in Conditions /\ Healthy \in Conditions
BY Zenon DEF Conditions

LEMMA LessonHealth ==
  ASSUME HealthInv, Lesson, seated \subseteq Players
  PROVE  HealthKept
<1>1. online' = online
  BY DEF Lesson
<1>2. \A p \in Players : \A t : \A amount \in {0, 1} :
        t \in Charged(sheet[p], amount, "neurosis") => SheetOK(t)
  BY ChargedIsSound, ConditionsNamed DEF HealthInv
<1>3. ASSUME NEW p \in Players, UNCHANGED seat \/ Stands(p), UNCHANGED sheet
      PROVE  HealthKept
  BY <1>1, <1>3, NobodyCharged
<1>4. ASSUME NEW p \in seated, UNCHANGED seat, NEW amount \in {0, 1},
             NEW s \in Charged(sheet[p], amount, "neurosis"), sheet' = [sheet EXCEPT ![p] = s]
      PROVE  HealthKept
  BY <1>1, <1>2, <1>4, OneCharged DEF Busy
<1>5. ASSUME NEW p \in Players, \E packed \in BOOLEAN : LessonStart(p, packed)
      PROVE  HealthKept
  BY <1>3, <1>5 DEF LessonStart
<1>6. ASSUME NEW r \in Choices, Ask(r)
      PROVE  HealthKept
  <2>1. UNCHANGED <<seat, sheet>> /\ \E p : p \in seated
    BY <1>6 DEF Ask, healthVars
  <2> QED BY <1>3, <2>1
<1>7. ASSUME NEW p \in Players, NEW c \in Choices, TakeAnswer(p, c)
      PROVE  HealthKept
  <2>1. UNCHANGED <<seat, sheet>>
    BY <1>7 DEF TakeAnswer, healthVars
  <2> QED BY <1>3, <2>1
<1>8. ASSUME NEW p \in Players, p \in seated, Pays(p), UNCHANGED seat
      PROVE  HealthKept
  BY <1>4, <1>8 DEF Pays
<1>9. ASSUME NEW p \in Players,
             \/ Feeling(p) \/ Concentrate(p)
             \/ \E q \in Players : Cheat(p, q) \/ Teach(p, q)
      PROVE  HealthKept
  <2>1. p \in seated /\ Pays(p) /\ UNCHANGED seat
    BY <1>9 DEF Feeling, Concentrate, Cheat, Teach, MayAsk, AtWork
  <2> QED BY <1>8, <2>1
<1>10. ASSUME NEW p \in Players, LessonEnd(p)
       PROVE  HealthKept
  BY <1>4, <1>10 DEF LessonEnd, AfterLesson
<1>11. ASSUME NEW p \in Players, NEW works \in BOOLEAN, EatLunch(p, works)
       PROVE  HealthKept
  <2>1. p \in seated /\ UNCHANGED seat
    BY <1>11 DEF EatLunch, AtWork
  <2>2. CASE works
    <3>1. sheet' = [sheet EXCEPT ![p] = Relieved(sheet[p], 1)]
      BY <1>11, <2>2 DEF EatLunch
    <3>2. SheetOK(Relieved(sheet[p], 1))
      BY RelievedIsSound DEF HealthInv
    <3> QED BY <1>1, <2>1, <3>1, <3>2, OneCharged DEF Busy
  <2>3. CASE ~ works
    <3>1. \E s \in Charged(sheet[p], 0, "neurosis") : sheet' = [sheet EXCEPT ![p] = s]
      BY <1>11, <2>3 DEF EatLunch
    <3> QED BY <1>4, <2>1, <3>1
  <2> QED BY <2>2, <2>3
<1>12. ASSUME NEW p \in Players, NEW q \in Players, Support(p, q)
       PROVE  HealthKept
  <2>1. p \in seated /\ q \in seated /\ UNCHANGED seat
    BY <1>12 DEF Support, AtWork
  <2>2. PICK mine \in Charged(sheet[p], 0, "neurosis") : sheet' = [Cheered(q) EXCEPT ![p] = mine]
    BY <1>12 DEF Support
  <2>3. SheetOK(mine) /\ SheetOK(Relieved(sheet[q], 1))
    BY <1>2, <2>2, RelievedIsSound DEF HealthInv
  <2>4. mine \in TheSheets /\ Relieved(sheet[q], 1) \in TheSheets
    BY <2>3 DEF SheetOK
  <2>5. Cheered(q) = [sheet EXCEPT ![q] = Relieved(sheet[q], 1)]
    BY DEF Cheered
  <2>6. sheet' \in [Players -> TheSheets]
    BY <2>2, <2>4, <2>5 DEF HealthInv
  <2>7. /\ sheet'[p] = mine /\ (q # p => sheet'[q] = Relieved(sheet[q], 1))
        /\ \A x \in Players \ {p, q} : sheet'[x] = sheet[x]
    BY <2>2, <2>5 DEF HealthInv
  <2>8. \A x \in Players : SheetOK(sheet'[x])
    BY <2>3, <2>7 DEF HealthInv
  <2>9. Harmless
    BY <2>1, <2>7 DEF Harmless
  <2>10. seat' \in [Players -> TheSeats] /\ \A x \in Players \ online' : seat'[x] = Standing
    BY <1>1, <2>1 DEF HealthInv
  <2> QED BY <2>6, <2>8, <2>9, <2>10 DEF HealthKept, HealthInv
<1> QED BY <1>5, <1>6, <1>7, <1>9, <1>10, <1>11, <1>12 DEF Lesson

LEMMA ExamHealth ==
  ASSUME HealthInv, Exam
  PROVE  HealthKept
<1>1. online' = online
  BY DEF Exam
<1>2. ASSUME NEW p \in Players, UNCHANGED seat \/ Stands(p), UNCHANGED sheet
      PROVE  HealthKept
  BY <1>1, <1>2, NobodyCharged
<1>3. ASSUME NEW p \in Players, NEW score \in Scores, ExamPart(p, score)
      PROVE  HealthKept
  <2>1. PICK s \in Charged(sheet[p], 1, "neurosis") : sheet' = [sheet EXCEPT ![p] = s]
    BY <1>3, Zenon DEF ExamPart, AfterLesson
  <2>2. paper[p] # NoPaper /\ UNCHANGED seat
    BY <1>3, Zenon DEF ExamPart
  <2>3. SheetOK(s)
    BY <2>1, ChargedIsSound, ConditionsNamed DEF HealthInv
  <2> QED BY <1>1, <2>1, <2>2, <2>3, OneCharged DEF Busy
<1>4. ASSUME NEW p \in Players,
             (\E s \in Subjects : RingExam(p, s)) \/ ExamStart(p) \/ ExamMissed(p) \/ LookAtCard(p)
      PROVE  HealthKept
  <2>1. (UNCHANGED seat \/ Stands(p)) /\ UNCHANGED sheet
    BY <1>4 DEF RingExam, ExamStart, ExamMissed, LookAtCard, healthVars
  <2> QED BY <1>2, <2>1
<1>5. CASE CalendarMoves
  <2>1. UNCHANGED <<seat, sheet>>
    BY <1>5 DEF CalendarMoves, healthVars
  <2> QED BY <1>1, <2>1 DEF HealthKept, HealthInv, Harmless
<1> QED BY <1>3, <1>4, <1>5 DEF Exam

LEMMA ClubHealth ==
  ASSUME HealthInv, Club
  PROVE  HealthKept
<1>1. online' = online
  BY DEF Club
<1>2. ASSUME NEW p \in Players, UNCHANGED healthVars
      PROVE  HealthKept
  BY <1>1, <1>2, NobodyCharged DEF healthVars
<1>3. ASSUME NEW p \in Players, NEW into \in {"injury", Healthy}, screen[p] # "none",
             \E s \in Charged(sheet[p], 1, into) : sheet' = [sheet EXCEPT ![p] = s], UNCHANGED seat
      PROVE  HealthKept
  <2>1. PICK s \in Charged(sheet[p], 1, into) : sheet' = [sheet EXCEPT ![p] = s]
    BY <1>3
  <2>2. SheetOK(s)
    BY <2>1, ChargedIsSound, ConditionsNamed DEF HealthInv
  <2> QED BY <1>1, <1>3, <2>1, <2>2, OneCharged DEF Busy
<1>4. ASSUME NEW p \in Players, NEW won \in BOOLEAN, BoutEnds(p, won)
      PROVE  HealthKept
  <2>1. /\ screen[p] # "none" /\ UNCHANGED seat
        /\ \E s \in Charged(sheet[p], 1, "injury") : sheet' = [sheet EXCEPT ![p] = s]
    BY <1>4 DEF BoutEnds, BoutPays, AfterClubActivity
  <2> QED BY <1>3, <2>1
<1>5. ASSUME NEW p \in Players, NEW s \in Skills, NEW made \in 0..1, NEW works \in BOOLEAN,
             Gousei(p, s, made, works)
      PROVE  HealthKept
  <2>1. /\ screen[p] # "none" /\ UNCHANGED seat
        /\ \E t \in Charged(sheet[p], 1, Healthy) : sheet' = [sheet EXCEPT ![p] = t]
    BY <1>5 DEF Gousei, Spends, AfterGousei
  <2> QED BY <1>3, <2>1
<1>6. ASSUME NEW p \in Players,
             \/ ClubPart(p) \/ NpcBattleStart(p) \/ GouseiStart(p) \/ LevelCancel(p) \/ GouseiEnd(p)
             \/ \E c \in ClubKeys : ClubEnter(p, c) \/ WaitIsOver(p, c)
             \/ \E k \in Keywords : ScriptKeyword(p, k) \/ PlayCard(p, k)
             \/ \E level \in 0..LadderTop - 1 : NpcBattleInfo(p, level)
             \/ \E d \in Decks, cards \in SUBSET Cards, ticks \in SUBSET Uses :
                  ClubDeckUpdate(p, d, cards, ticks)
      PROVE  HealthKept
  <2>1. UNCHANGED healthVars
    BY <1>6 DEF ClubEnter, ClubPart, NpcBattleStart, GouseiStart, ScriptKeyword, ClubDeckUpdate,
                WaitIsOver, NpcBattleInfo, LevelCancel, GouseiEnd, PlayCard
  <2> QED BY <1>2, <2>1
<1> QED BY <1>4, <1>5, <1>6 DEF Club

(* Connections begin and end.                                              *)
LEMMA GoneHealth ==
  ASSUME HealthInv, NEW who \in SUBSET Players, online' = online \ who, HealthGone(who),
         \/ UNCHANGED sheet
         \/ \E p \in Players : ClubsTorn(p)
  PROVE  HealthKept
<1>1. seat' \in [Players -> TheSeats] /\ \A q \in Players \ online' : seat'[q] = Standing
  BY StandingFits DEF HealthInv, HealthGone
<1>2. CASE UNCHANGED sheet
  BY <1>1, <1>2 DEF HealthKept, HealthInv, Harmless
<1>3. ASSUME NEW p \in Players, ClubsTorn(p), ~ UNCHANGED sheet
      PROVE  HealthKept
  <2>1. /\ screen[p] # "none"
        /\ \E s \in Charged(sheet[p], 1, "injury") : sheet' = [sheet EXCEPT ![p] = s]
    BY <1>3 DEF ClubsTorn, BoutPays, AfterClubActivity
  <2>2. PICK s \in Charged(sheet[p], 1, "injury") : sheet' = [sheet EXCEPT ![p] = s]
    BY <2>1
  <2>3. SheetOK(s)
    BY <2>2, ChargedIsSound, ConditionsNamed DEF HealthInv
  <2>4. /\ sheet' \in [Players -> TheSheets] /\ \A x \in Players : SheetOK(sheet'[x])
        /\ sheet'[p] = s /\ \A x \in Players \ {p} : sheet'[x] = sheet[x]
    BY <2>2, <2>3, OneSheet
  <2>5. Harmless
    BY <2>1, <2>4 DEF Harmless
  <2> QED BY <1>1, <2>4, <2>5 DEF HealthKept, HealthInv
<1> QED BY <1>2, <1>3

(* Who is on the server has a record; who is at a desk is a student.       *)
Here == online \subseteq Players /\ exists \subseteq Players /\ seated \subseteq Players

LEMMA HealthSteps ==
  ASSUME HealthInv, Here, [Next]_vars
  PROVE  HealthKept
<1>1. CASE UNCHANGED vars
  BY <1>1 DEF vars, healthVars, HealthKept, HealthInv, Harmless
<1>2. ASSUME NEW p \in Players, Arrive(p)
      PROVE  HealthKept
  BY <1>2 DEF Arrive, healthVars, HealthKept, HealthInv, Harmless
<1>3. ASSUME NEW p \in Players, Leave(p)
      PROVE  HealthKept
  BY <1>3, GoneHealth DEF Leave, ConnectionsEnd
<1>4. CASE Crash
  <2>1. online' = online \ online /\ HealthGone(online) /\ online \in SUBSET Players
    BY <1>4 DEF Crash, ConnectionsEnd, Here
  <2>2. UNCHANGED sheet \/ \E p \in Players : ClubsTorn(p)
    BY <1>4, <2>1 DEF Crash, ExamPartTorn
  <2> QED BY <2>1, <2>2, GoneHealth
<1>5. CASE Love
  BY <1>5 DEF Love, healthVars, HealthKept, HealthInv, Harmless
<1> QED BY <1>1, <1>2, <1>3, <1>4, <1>5, BodyHealth, LessonHealth, ExamHealth, ClubHealth
        DEF Next, Here

-----------------------------------------------------------------------------
(* Helping: a question and what is left of its choices.                    *)
HelpInv ==
  /\ right \in Choices \cup {NoAnswer}
  /\ reported \in [Players -> Choices \cup {NoAnswer}] /\ narrowed \in [Players -> SUBSET Choices]
  /\ \A p \in Players : /\ right = NoAnswer => reported[p] = NoAnswer
                        /\ right # NoAnswer /\ p \in seated => right \in narrowed[p]

LEMMA LeavingKeepsHelp ==
  ASSUME HelpInv, NEW who, Leaves(who)
  PROVE  HelpInv'
<1>1. right' \in Choices \cup {NoAnswer}
  BY DEF HelpInv, Leaves
<1>2. reported' \in [Players -> Choices \cup {NoAnswer}] /\ narrowed' \in [Players -> SUBSET Choices]
  BY DEF HelpInv, Leaves
<1>3. ASSUME NEW p \in Players
      PROVE  /\ right' = NoAnswer => reported'[p] = NoAnswer
             /\ right' # NoAnswer /\ p \in seated' => right' \in narrowed'[p]
  <2>1. CASE seated \subseteq who
    <3>1. right' = NoAnswer /\ reported'[p] = NoAnswer
      BY <2>1 DEF Leaves
    <3> QED BY <3>1
  <2>2. CASE ~ (seated \subseteq who)
    <3>1. right' = right
      BY <2>2 DEF Leaves
    <3>2. reported'[p] \in {NoAnswer, reported[p]}
      BY DEF Leaves
    <3>3. p \in seated' => p \in seated /\ narrowed'[p] = narrowed[p]
      BY <2>2 DEF Leaves
    <3> QED BY <3>1, <3>2, <3>3 DEF HelpInv
  <2> QED BY <2>1, <2>2
<1> QED BY <1>1, <1>2, <1>3 DEF HelpInv

LEMMA LessonHelp ==
  ASSUME HelpInv, Lesson
  PROVE  HelpInv'
<1>1. ASSUME UNCHANGED helpingVars
      PROVE  HelpInv'
  BY <1>1 DEF helpingVars, HelpInv
<1>2. ASSUME NEW q \in Players, NEW left \in SUBSET narrowed[q],
             right # NoAnswer => right \in left \/ left = narrowed[q],
             narrowed' = [narrowed EXCEPT ![q] = left], UNCHANGED <<right, seated, reported>>
      PROVE  HelpInv'
  BY <1>2 DEF HelpInv
<1>3. ASSUME NEW p \in Players, NEW packed \in BOOLEAN, LessonStart(p, packed)
      PROVE  HelpInv'
  BY <1>3 DEF LessonStart, HelpInv
<1>4. ASSUME NEW r \in Choices, Ask(r)
      PROVE  HelpInv'
  BY <1>4, HelpingAssumption DEF Ask, HelpInv
<1>5. ASSUME NEW p \in Players, NEW c \in Choices, TakeAnswer(p, c)
      PROVE  HelpInv'
  BY <1>5 DEF TakeAnswer, MayAsk, AtWork, HelpInv
<1>6. ASSUME NEW p \in Players, Concentrate(p)
      PROVE  HelpInv'
  <2>1. PICK left \in Narrowings(p) \cup {narrowed[p]} :
          narrowed' = [narrowed EXCEPT ![p] = left] /\ UNCHANGED <<right, seated, reported>>
    BY <1>6 DEF Concentrate
  <2>2. left \in SUBSET narrowed[p] /\ (right \in left \/ left = narrowed[p])
    BY <2>1 DEF Narrowings
  <2> QED BY <1>2, <2>1, <2>2
<1>7. ASSUME NEW p \in Players, NEW q \in Players, Teach(p, q)
      PROVE  HelpInv'
  <2>1. PICK left \in Narrowings(q) \cup {narrowed[q]} :
          narrowed' = [narrowed EXCEPT ![q] = left] /\ UNCHANGED <<right, seated, reported>>
    BY <1>7 DEF Teach
  <2>2. left \in SUBSET narrowed[q] /\ (right \in left \/ left = narrowed[q])
    BY <2>1 DEF Narrowings
  <2> QED BY <1>2, <2>1, <2>2
<1>8. ASSUME NEW p \in Players, Feeling(p) \/ \E q \in Players : Cheat(p, q) \/ Support(p, q)
      PROVE  HelpInv'
  BY <1>1, <1>8 DEF Feeling, Cheat, Support
<1>9. ASSUME NEW p \in Players, NEW works \in BOOLEAN, EatLunch(p, works)
      PROVE  HelpInv'
  BY <1>9 DEF EatLunch, HelpInv
<1>10. ASSUME NEW p \in Players, LessonEnd(p)
       PROVE  HelpInv'
  BY <1>10, LeavingKeepsHelp DEF LessonEnd
<1> QED BY <1>3, <1>4, <1>5, <1>6, <1>7, <1>8, <1>9, <1>10 DEF Lesson

LEMMA HelpSteps ==
  ASSUME HelpInv, [Next]_vars
  PROVE  HelpInv'
<1>1. ASSUME UNCHANGED helpingVars
      PROVE  HelpInv'
  BY <1>1 DEF helpingVars, HelpInv
<1>2. CASE UNCHANGED vars
  BY <1>1, <1>2 DEF vars
<1>3. ASSUME NEW p \in Players, Arrive(p) \/ Leave(p)
      PROVE  HelpInv'
  BY <1>1, <1>3, LeavingKeepsHelp DEF Arrive, Leave, ConnectionsEnd
<1>4. CASE Crash
  BY <1>4, LeavingKeepsHelp DEF Crash, ConnectionsEnd
<1>5. CASE Body \/ Exam \/ Club \/ Love
  BY <1>1, <1>5 DEF Body, Exam, Club, Love
<1> QED BY <1>2, <1>3, <1>4, <1>5, LessonHelp DEF Next

LEMMA HereSteps ==
  ASSUME Here, [Next]_vars
  PROVE  Here'
<1>1. ASSUME UNCHANGED <<online, exists, seated>>
      PROVE  Here'
  BY <1>1 DEF Here
<1>2. CASE UNCHANGED vars
  BY <1>1, <1>2 DEF vars, helpingVars
<1>3. ASSUME NEW p \in Players, Arrive(p) \/ Leave(p)
      PROVE  Here'
  BY <1>3 DEF Arrive, Leave, ConnectionsEnd, Leaves, helpingVars, Here
<1>4. CASE Crash
  BY <1>4 DEF Crash, ConnectionsEnd, Leaves, Here
<1>5. CASE Body \/ Exam \/ Club \/ Love
  BY <1>1, <1>5 DEF Body, Exam, Club, Love, helpingVars
<1>6. CASE Lesson
  <2>1. UNCHANGED <<online, exists>>
    BY <1>6 DEF Lesson
  <2>2. seated' \subseteq Players
    BY <1>6 DEF Lesson, LessonStart, Ask, TakeAnswer, Feeling, Concentrate, Cheat, Teach, Support,
                EatLunch, LessonEnd, Leaves, helpingVars, Here
  <2> QED BY <2>1, <2>2 DEF Here
<1> QED BY <1>2, <1>3, <1>4, <1>5, <1>6 DEF Next

-----------------------------------------------------------------------------
(* Exams: the door of a hall, between its bell and the client's own step.  *)
AtDoor(p) ==
  bell[p] # NoBell =>
    /\ ~ Busy(p) /\ bell[p].during # NoKey
    /\ bell[p].during = Current => ~ Neurotic(p) /\ ~ Taken(p, bell[p].subject)

DoorsInv ==
  /\ days \in Nat
  /\ DOMAIN bell = Players /\ DOMAIN paper = Players /\ DOMAIN screen = Players
  /\ DOMAIN period = Players
  /\ \A p \in Players : AtDoor(p)

(* Somebody who is not let in anywhere, and to whom nothing happens.       *)
LEMMA DoorStays ==
  ASSUME NEW p \in Players, AtDoor(p), Harmless, bell'[p] = bell[p], UNCHANGED days,
         \/ bell[p] = NoBell \/ Busy(p)
         \/ /\ screen'[p] = screen[p] /\ paper'[p] = paper[p] /\ period'[p] = period[p]
            /\ p \in seated' => p \in seated
  PROVE  AtDoor(p)'
<1>1. CASE bell[p] = NoBell
  BY <1>1 DEF AtDoor
<1>2. CASE bell[p] # NoBell
  <2>1. /\ ~ Busy(p) /\ bell[p].during # NoKey
        /\ bell[p].during = Current => ~ Neurotic(p) /\ ~ Taken(p, bell[p].subject)
    BY <1>2 DEF AtDoor
  <2>2. /\ screen'[p] = screen[p] /\ paper'[p] = paper[p] /\ period'[p] = period[p]
        /\ p \in seated' => p \in seated
    BY <1>2, <2>1
  <2>3. ~ Busy(p)'
    BY <2>1, <2>2 DEF Busy
  <2>4. Neurotic(p)' => Neurotic(p)
    <3>1. sheet'[p].condition \in {sheet[p].condition, Healthy}
      BY <2>1 DEF Harmless, Busy
    <3> QED BY <3>1, Zenon DEF Neurotic, Healthy
  <2>5. Current' = Current
    BY DEF Current
  <2>6. Taken(p, bell[p].subject)' => Taken(p, bell[p].subject)
    BY <2>2, <2>5 DEF Taken
  <2> QED BY <2>1, <2>3, <2>4, <2>5, <2>6 DEF AtDoor
<1> QED BY <1>1, <1>2

(* A step after which every bell is as it was and the calendar too.        *)
LEMMA DoorsStay ==
  ASSUME DoorsInv, Harmless, UNCHANGED <<days, bell, paper, period>>, DOMAIN screen' = Players,
         \A p \in Players : \/ bell[p] = NoBell \/ Busy(p)
                            \/ screen'[p] = screen[p] /\ (p \in seated' => p \in seated)
  PROVE  DoorsInv'
<1>1. \A p \in Players : AtDoor(p)'
  BY DoorStays DEF DoorsInv
<1> QED BY <1>1 DEF DoorsInv

LEMMA LessonDoors ==
  ASSUME DoorsInv, Harmless, Lesson
  PROVE  DoorsInv'
<1>1. UNCHANGED <<days, bell, paper, period, screen>>
  BY DEF Lesson, examVars, clubVars
<1>2. \A p \in Players : bell[p] = NoBell \/ (p \in seated' => p \in seated)
  BY DEF Lesson, LessonStart, Ask, TakeAnswer, Feeling, Concentrate, Cheat, Teach, Support,
         EatLunch, LessonEnd, Leaves, helpingVars, Idle
<1> QED BY <1>1, <1>2, DoorsStay DEF DoorsInv

LEMMA ClubDoors ==
  ASSUME DoorsInv, Harmless, Club
  PROVE  DoorsInv'
<1>1. UNCHANGED <<days, bell, paper, period, seated>>
  BY DEF Club, examVars, helpingVars
<1>2. ASSUME NEW p \in Players, bell[p] = NoBell \/ Busy(p),
             UNCHANGED screen \/ \E to : screen' = [screen EXCEPT ![p] = to]
      PROVE  DoorsInv'
  <2>1. DOMAIN screen' = Players /\ \A q \in Players \ {p} : screen'[q] = screen[q]
    BY <1>2 DEF DoorsInv
  <2> QED BY <1>1, <1>2, <2>1, DoorsStay
<1>3. ASSUME NEW p \in Players, Idle(p),
             \/ \E c \in ClubKeys : ClubEnter(p, c)
             \/ ClubPart(p) \/ NpcBattleStart(p) \/ GouseiStart(p)
             \/ \E k \in Keywords : ScriptKeyword(p, k)
             \/ \E d \in Decks, cards \in SUBSET Cards, ticks \in SUBSET Uses :
                  ClubDeckUpdate(p, d, cards, ticks)
      PROVE  DoorsInv'
  <2>1. UNCHANGED screen \/ \E to : screen' = [screen EXCEPT ![p] = to]
    BY <1>3 DEF ClubEnter, ClubPart, NpcBattleStart, GouseiStart, ScriptKeyword, ClubDeckUpdate
  <2> QED BY <1>2, <1>3, <2>1 DEF Idle
<1>4. ASSUME NEW p \in Players, NEW c \in ClubKeys, WaitIsOver(p, c)
      PROVE  DoorsInv'
  <2>1. UNCHANGED screen
    BY <1>4 DEF WaitIsOver
  <2> QED BY <1>1, <2>1, DoorsStay DEF DoorsInv
<1>5. ASSUME NEW p \in Players,
             \/ \E level \in 0..LadderTop - 1 : NpcBattleInfo(p, level)
             \/ LevelCancel(p) \/ GouseiEnd(p)
             \/ \E k \in Keywords : PlayCard(p, k)
             \/ \E won \in BOOLEAN : BoutEnds(p, won)
             \/ \E s \in Skills, made \in 0..1, works \in BOOLEAN : Gousei(p, s, made, works)
      PROVE  DoorsInv'
  <2>1. UNCHANGED screen \/ \E to : screen' = [screen EXCEPT ![p] = to]
    BY <1>5 DEF NpcBattleInfo, LevelCancel, GouseiEnd, PlayCard, BoutEnds, Gousei
  <2>2. screen[p] # "none"
    BY <1>5 DEF NpcBattleInfo, LevelCancel, GouseiEnd, PlayCard, BoutEnds, BoutPays, Gousei, Spends
  <2> QED BY <1>2, <2>1, <2>2 DEF Busy
<1> QED BY <1>3, <1>4, <1>5 DEF Club

LEMMA ExamDoors ==
  ASSUME DoorsInv, Harmless, Exam
  PROVE  DoorsInv'
<1>1. UNCHANGED <<screen, seated>>
  BY DEF Exam, clubVars, helpingVars
<1>2. \A p \in Players : AtDoor(p)
  BY DEF DoorsInv
<1>3. CASE CalendarMoves
  <2>1. UNCHANGED <<bell, paper, period>> /\ days' = days + 1 /\ days \in Nat
    BY <1>3 DEF CalendarMoves, DoorsInv
  <2>2. CASE days % 2 = 0
    <3>1. \A p \in Players : bell'[p] = NoBell
      BY <1>3, <2>1, <2>2 DEF CalendarMoves
    <3> QED BY <1>1, <2>1, <3>1 DEF DoorsInv, AtDoor
  <2>3. CASE days % 2 # 0
    <3>1. days' % 2 # 1
      BY <2>1, <2>3
    <3>2. Current' = NoKey
      BY <3>1 DEF Current
    <3>3. \A p \in Players : AtDoor(p)'
      BY <1>1, <1>2, <2>1, <3>2 DEF AtDoor, Busy
    <3> QED BY <1>1, <2>1, <3>3 DEF DoorsInv
  <2> QED BY <2>2, <2>3
<1>4. ASSUME NEW p \in Players, UNCHANGED days, AtDoor(p)', DOMAIN bell' = Players,
             DOMAIN paper' = Players, DOMAIN period' = Players,
             \A q \in Players \ {p} : /\ bell'[q] = bell[q] /\ paper'[q] = paper[q]
                                      /\ period'[q] = period[q]
      PROVE  DoorsInv'
  <2>1. \A q \in Players \ {p} : AtDoor(q)'
    BY <1>1, <1>2, <1>4, DoorStays
  <2> QED BY <1>1, <1>4, <2>1 DEF DoorsInv
<1>5. ASSUME NEW p \in Players, NEW s \in Subjects, Idle(p), RingExam(p, s)
      PROVE  DoorsInv'
  <2> DEFINE rung == [subject |-> s, during |-> Current]
  <2>1. /\ bell' = [bell EXCEPT ![p] = rung] /\ UNCHANGED <<days, paper, period, sheet>>
        /\ Current # NoKey /\ ~ Neurotic(p) /\ ~ Taken(p, s) /\ paper[p] = NoPaper
    BY <1>5 DEF RingExam, Admits, healthVars
  <2>2. rung.subject = s /\ rung.during = Current
    OBVIOUS
  <2> HIDE DEF rung
  <2>3. bell'[p] = rung /\ DOMAIN bell' = Players /\ \A q \in Players \ {p} : bell'[q] = bell[q]
    BY <2>1 DEF DoorsInv
  <2>4. Current' = Current
    BY <2>1 DEF Current
  <2>5. AtDoor(p)'
    <3>1. ~ Busy(p)'
      BY <1>1, <1>5, <2>1 DEF Busy, Idle
    <3>2. ~ Neurotic(p)' /\ ~ Taken(p, s)'
      <4>1. ~ Neurotic(p)'
        BY <2>1, Zenon DEF Neurotic
      <4>2. ~ Taken(p, s)'
        BY <2>1, <2>4 DEF Taken
      <4> QED BY <4>1, <4>2
    <3> QED BY <2>1, <2>2, <2>3, <2>4, <3>1, <3>2 DEF AtDoor
  <2> QED BY <1>4, <2>1, <2>3, <2>5 DEF DoorsInv
<1>6. ASSUME NEW p \in Players, ExamStart(p) \/ ExamMissed(p)
      PROVE  DoorsInv'
  <2>1. /\ bell' = [bell EXCEPT ![p] = NoBell] /\ UNCHANGED <<days, period>>
        /\ UNCHANGED paper \/ \E x : paper' = [paper EXCEPT ![p] = x]
    BY <1>6 DEF ExamStart, ExamMissed
  <2>2. bell'[p] = NoBell /\ DOMAIN bell' = Players /\ \A q \in Players \ {p} : bell'[q] = bell[q]
    BY <2>1 DEF DoorsInv
  <2>3. DOMAIN paper' = Players /\ \A q \in Players \ {p} : paper'[q] = paper[q]
    BY <2>1 DEF DoorsInv
  <2>4. AtDoor(p)'
    BY <2>2 DEF AtDoor
  <2> QED BY <1>4, <2>1, <2>2, <2>3, <2>4 DEF DoorsInv
<1>7. ASSUME NEW p \in Players, LookAtCard(p)
      PROVE  DoorsInv'
  <2>1. UNCHANGED <<days, bell, paper, period>>
    BY <1>7 DEF LookAtCard
  <2> QED BY <1>1, <2>1, DoorsStay DEF DoorsInv
<1>8. ASSUME NEW p \in Players, NEW score \in Scores, ExamPart(p, score)
      PROVE  DoorsInv'
  <2>1. /\ paper[p] # NoPaper /\ UNCHANGED <<days, bell>>
        /\ \E x : paper' = [paper EXCEPT ![p] = x]
        /\ \E x : period' = [period EXCEPT ![p] = x]
    BY <1>8, Zenon DEF ExamPart
  <2>2. /\ DOMAIN paper' = Players /\ \A q \in Players \ {p} : paper'[q] = paper[q]
        /\ DOMAIN period' = Players /\ \A q \in Players \ {p} : period'[q] = period[q]
    BY <2>1 DEF DoorsInv
  <2>3. AtDoor(p)'
    BY <1>2, <2>1, DoorStays DEF Busy
  <2> QED BY <1>4, <2>1, <2>2, <2>3 DEF DoorsInv
<1> QED BY <1>3, <1>5, <1>6, <1>7, <1>8 DEF Exam

(* Connections begin and end: nobody who comes or goes is at a door.       *)
LEMMA GoneDoors ==
  ASSUME DoorsInv, Harmless, UNCHANGED days, NEW who,
         DOMAIN bell' = Players, DOMAIN paper' = Players,
         DOMAIN period' = Players, DOMAIN screen' = Players,
         \A p \in Players \cap who : bell'[p] = NoBell,
         \A p \in Players \ who :
           /\ bell'[p] = bell[p] /\ paper'[p] = paper[p] /\ period'[p] = period[p]
           /\ screen'[p] = screen[p] /\ (p \in seated' => p \in seated)
  PROVE  DoorsInv'
<1>1. \A p \in Players \cap who : AtDoor(p)'
  BY DEF AtDoor
<1>2. \A p \in Players \ who : AtDoor(p)'
  BY DoorStays DEF DoorsInv
<1> QED BY <1>1, <1>2 DEF DoorsInv

LEMMA ConnectionsEndDoors ==
  ASSUME DoorsInv, Harmless, UNCHANGED days, NEW who, ConnectionsEnd(who)
  PROVE  DoorsInv'
<1>1. /\ DOMAIN bell' = Players /\ DOMAIN paper' = Players
      /\ DOMAIN period' = Players /\ DOMAIN screen' = Players
  BY DEF ConnectionsEnd, ExamsGone, ClubsGone
<1>2. \A p \in Players \cap who : bell'[p] = NoBell
  BY DEF ConnectionsEnd, ExamsGone
<1>3. \A p \in Players \ who :
        /\ bell'[p] = bell[p] /\ paper'[p] = paper[p] /\ period'[p] = period[p]
        /\ screen'[p] = screen[p] /\ (p \in seated' => p \in seated)
  BY DEF ConnectionsEnd, ExamsGone, ClubsGone, Leaves
<1> QED BY <1>1, <1>2, <1>3, GoneDoors

LEMMA DoorsSteps ==
  ASSUME DoorsInv, Harmless, [Next]_vars
  PROVE  DoorsInv'
<1>1. ASSUME UNCHANGED <<days, bell, paper, period, screen, seated>>
      PROVE  DoorsInv'
  BY <1>1, DoorsStay DEF DoorsInv
<1>2. CASE UNCHANGED vars
  BY <1>1, <1>2 DEF vars, examVars, clubVars, helpingVars
<1>3. ASSUME NEW p \in Players, Arrive(p)
      PROVE  DoorsInv'
  <2>1. /\ bell' = [bell EXCEPT ![p] = NoBell] /\ paper' = [paper EXCEPT ![p] = NoPaper]
        /\ \E x : period' = [period EXCEPT ![p] = x]
        /\ UNCHANGED days
    BY <1>3, Zenon DEF Arrive, ExamsLogin
  <2>2. UNCHANGED <<screen, seated>>
    BY <1>3 DEF Arrive, helpingVars, clubVars
  <2>3. /\ DOMAIN bell' = Players /\ DOMAIN paper' = Players
        /\ DOMAIN period' = Players /\ DOMAIN screen' = Players
    BY <2>1, <2>2 DEF DoorsInv
  <2>4. bell'[p] = NoBell
    BY <2>1 DEF DoorsInv
  <2>5. \A q \in Players \ {p} : bell'[q] = bell[q] /\ paper'[q] = paper[q] /\ period'[q] = period[q]
    BY <2>1 DEF DoorsInv
  <2>6. (\A q \in Players \cap {p} : bell'[q] = NoBell)
    BY <2>4
  <2> QED BY <2>1, <2>2, <2>3, <2>5, <2>6, GoneDoors
<1>4. ASSUME NEW p \in Players, Leave(p)
      PROVE  DoorsInv'
  BY <1>4, ConnectionsEndDoors DEF Leave
<1>5. CASE Crash
  <2>1. ConnectionsEnd(online) /\ UNCHANGED days
    BY <1>5 DEF Crash, ExamPartTorn
  <2> QED BY <2>1, ConnectionsEndDoors
<1>6. CASE Body \/ Love
  BY <1>1, <1>6 DEF Body, Love, examVars, clubVars, helpingVars
<1> QED BY <1>2, <1>3, <1>4, <1>5, <1>6, LessonDoors, ExamDoors, ClubDoors DEF Next

-----------------------------------------------------------------------------
(* Clubs: one membership, what it has learnt and the fight it is in.       *)
TheMembers == [club : ClubKeys \cup {NoClub}, waits : SUBSET ClubKeys,
               level : [ClubKeys -> 1..LadderTop], kw : [Keywords -> Unowned..FullScale],
               skill : [Skills -> Unowned..1], deck : [Decks -> SUBSET Cards],
               use : [Decks -> SUBSET Uses]]
TheSatchels == [books : [Skills -> 0..MaxBooks], material : 0..MaxBooks]
TheBouts == [level : {-1} \cup (0..LadderTop - 1), club : ClubKeys \cup {NoClub}]
TheScreens == {"none", "levels", "bout", "gousei"}

(* The decks are what the deck window may make of them.                    *)
MemberOK(p, m) ==
  /\ m \in TheMembers
  /\ \A d \in Decks :
       /\ m.deck[d] \subseteq Owned(m) /\ m.deck[d] \cap Skills \subseteq ForSex[p]
       /\ \A other \in Decks \ {d} : m.use[d] \cap m.use[other] = {}

(* Whoever chooses a level or fights has a club and a deck to fight with,  *)
(* and fights below what the ladder offers.                                *)
Armed(m) == \E d \in Decks : "practice" \in m.use[d] /\ Playable(m, d) # {}
FightOK(m, sc, b) ==
  /\ sc \in TheScreens /\ b \in TheBouts /\ (b # NoBout <=> sc = "bout")
  /\ sc \in {"levels", "bout"} => m.club \in ClubKeys /\ Armed(m)
  /\ sc = "bout" => b.club = m.club /\ b.level \in Nat /\ b.level < m.level[m.club]

ClubFits(p, m, sa, sc, b, here) ==
  /\ MemberOK(p, m) /\ sa \in TheSatchels /\ FightOK(m, sc, b)
  /\ sc # "none" => here

(* What is learnt stays learnt: Grows, for one membership.                 *)
GrowsTo(m, n, sa, sa2, b) ==
  /\ \A k \in Keywords : n.kw[k] >= m.kw[k]
  /\ \A s \in Skills : /\ n.skill[s] >= m.skill[s]
                       /\ n.skill[s] # m.skill[s] => sa2.books[s] = sa.books[s] - 1
  /\ \A c \in ClubKeys :
       \/ n.level[c] = m.level[c]
       \/ n.level[c] = m.level[c] + 1 /\ b = [level |-> m.level[c] - 1, club |-> c]

LEMMA MemberFields ==
  ASSUME NEW p, NEW m, MemberOK(p, m)
  PROVE  /\ m \in TheMembers /\ m.club \in ClubKeys \cup {NoClub} /\ m.waits \subseteq ClubKeys
         /\ m.level \in [ClubKeys -> 1..LadderTop] /\ m.kw \in [Keywords -> Unowned..FullScale]
         /\ m.skill \in [Skills -> Unowned..1] /\ m.deck \in [Decks -> SUBSET Cards]
         /\ m.use \in [Decks -> SUBSET Uses]
BY DEF MemberOK, TheMembers

(* Nothing learnt is touched.                                              *)
LEMMA GrowsNot ==
  ASSUME NEW p, NEW m, MemberOK(p, m), NEW n, n.kw = m.kw, n.skill = m.skill, n.level = m.level,
         NEW sa, NEW sa2, NEW b
  PROVE  GrowsTo(m, n, sa, sa2, b)
<1>1. /\ \A k \in Keywords : m.kw[k] \in Int
      /\ \A s \in Skills : m.skill[s] \in Int
  BY MemberFields DEF Unowned
<1> QED BY <1>1 DEF GrowsTo

(* Somebody with no window of the club's up has no fight.                  *)
LEMMA NoFight ==
  ASSUME NEW p, NEW m, NEW sa, NEW b, NEW here, ClubFits(p, m, sa, "none", b, here)
  PROVE  b = NoBout /\ MemberOK(p, m) /\ sa \in TheSatchels
BY DEF ClubFits, FightOK

LEMMA Peaceful ==
  ASSUME NEW p, NEW m, MemberOK(p, m), NEW sa \in TheSatchels, NEW here
  PROVE  ClubFits(p, m, sa, "none", NoBout, here)
<1>1. NoBout \in TheBouts
  BY DEF NoBout, TheBouts
<1> QED BY <1>1 DEF ClubFits, FightOK, TheScreens

(* A deck stays sound where everything owned stays owned.                  *)
LEMMA DecksStay ==
  ASSUME NEW p, NEW m, MemberOK(p, m), NEW n, n \in TheMembers, n.deck = m.deck, n.use = m.use,
         Owned(m) \subseteq Owned(n)
  PROVE  MemberOK(p, n)
BY DEF MemberOK

(* What decides whether somebody may fight is the club and the decks.      *)
LEMMA ArmedStays ==
  ASSUME NEW m, NEW n, n.deck = m.deck, n.use = m.use, n.club = m.club, Armed(m)
  PROVE  Armed(n)
BY DEF Armed, Playable

(* Memberships as the operations leave them.                               *)
Moved(m, to, waits) == [m EXCEPT !.club = to, !.waits = waits]
Redecked(m, d, cards, ticks) ==
  [m EXCEPT !.deck = [m.deck EXCEPT ![d] = cards], !.use = [m.use EXCEPT ![d] = ticks]]
Taught(m, k) == [m EXCEPT !.kw = [m.kw EXCEPT ![k] = 0]]

LEMMA MovedFields ==
  ASSUME NEW p, NEW m, MemberOK(p, m), NEW to \in ClubKeys \cup {NoClub},
         NEW waits \in SUBSET ClubKeys
  PROVE  LET n == Moved(m, to, waits) IN
         /\ n \in TheMembers /\ n.club = to /\ n.deck = m.deck /\ n.use = m.use
         /\ n.kw = m.kw /\ n.skill = m.skill /\ n.level = m.level
<1>1. m \in TheMembers
  BY MemberFields
<1>2. Moved(m, to, waits) \in TheMembers
  BY <1>1 DEF TheMembers, Moved
<1> QED BY <1>1, <1>2 DEF TheMembers, Moved

LEMMA ChangesClub ==
  ASSUME NEW p, NEW m, MemberOK(p, m), NEW to \in ClubKeys \cup {NoClub},
         NEW waits \in SUBSET ClubKeys, NEW sa, NEW sa2, NEW b
  PROVE  MemberOK(p, Moved(m, to, waits)) /\ GrowsTo(m, Moved(m, to, waits), sa, sa2, b)
<1> DEFINE n == Moved(m, to, waits)
<1>1. /\ n \in TheMembers /\ n.club = to /\ n.deck = m.deck /\ n.use = m.use
      /\ n.kw = m.kw /\ n.skill = m.skill /\ n.level = m.level
  BY MovedFields
<1> HIDE DEF n
<1>2. Owned(n) = Owned(m)
  BY <1>1 DEF Owned
<1>3. MemberOK(p, n)
  BY <1>1, <1>2, DecksStay
<1>4. GrowsTo(m, n, sa, sa2, b)
  BY <1>1, GrowsNot
<1> QED BY <1>3, <1>4 DEF n

LEMMA Redecks ==
  ASSUME NEW p \in Players, NEW d \in Decks, NEW cards \in SUBSET Cards, NEW ticks \in SUBSET Uses,
         MemberOK(p, member[p]), DeckFits(p, d, cards, ticks)
  PROVE  LET n == Redecked(member[p], d, cards, ticks) IN
         MemberOK(p, n) /\ n.kw = member[p].kw /\ n.skill = member[p].skill /\ n.level = member[p].level
<1> DEFINE m == member[p]
           decks == [m.deck EXCEPT ![d] = cards]
           uses == [m.use EXCEPT ![d] = ticks]
           n == Redecked(m, d, cards, ticks)
<1>1. m \in TheMembers /\ m.deck \in [Decks -> SUBSET Cards] /\ m.use \in [Decks -> SUBSET Uses]
  BY MemberFields
<1>2. cards \subseteq Owned(m) /\ cards \cap Skills \subseteq ForSex[p]
      /\ \A other \in Decks \ {d} : ticks \cap m.use[other] = {}
  BY DEF DeckFits
<1>3. /\ decks \in [Decks -> SUBSET Cards] /\ uses \in [Decks -> SUBSET Uses]
      /\ decks[d] = cards /\ uses[d] = ticks
      /\ \A x \in Decks \ {d} : decks[x] = m.deck[x] /\ uses[x] = m.use[x]
  BY <1>1
<1>4. n = [m EXCEPT !.deck = decks, !.use = uses]
  BY DEF Redecked
<1>0. MemberOK(p, m)
  OBVIOUS
<1> HIDE DEF decks, uses, n, m
<1>5. /\ n \in TheMembers /\ n.deck = decks /\ n.use = uses
      /\ n.kw = m.kw /\ n.skill = m.skill /\ n.level = m.level
  BY <1>1, <1>3, <1>4 DEF TheMembers
<1>6. Owned(n) = Owned(m)
  BY <1>5 DEF Owned
<1>7. ASSUME NEW x \in Decks
      PROVE  /\ n.deck[x] \subseteq Owned(n) /\ n.deck[x] \cap Skills \subseteq ForSex[p]
             /\ \A other \in Decks \ {x} : n.use[x] \cap n.use[other] = {}
  <2>1. CASE x = d
    BY <1>2, <1>3, <1>5, <1>6, <2>1
  <2>2. CASE x # d
    <3>1. /\ m.deck[x] \subseteq Owned(m) /\ m.deck[x] \cap Skills \subseteq ForSex[p]
          /\ \A other \in Decks \ {x} : m.use[x] \cap m.use[other] = {}
      BY <1>0 DEF MemberOK
    <3>2. n.deck[x] \subseteq Owned(n) /\ n.deck[x] \cap Skills \subseteq ForSex[p]
      BY <1>3, <1>5, <1>6, <2>2, <3>1
    <3>3. \A other \in Decks \ {x} : n.use[x] \cap n.use[other] = {}
      BY <1>2, <1>3, <1>5, <2>2, <3>1
    <3> QED BY <3>2, <3>3
  <2> QED BY <2>1, <2>2
<1>8. MemberOK(p, n)
  BY <1>5, <1>7 DEF MemberOK
<1> QED BY <1>5, <1>8 DEF n, m

(* A keyword used, or handed over, takes nothing away.                     *)
LEMMA Learns ==
  ASSUME NEW p, NEW m, MemberOK(p, m), NEW kw \in [Keywords -> Unowned..FullScale],
         \A k \in Keywords : kw[k] >= m.kw[k], NEW sa, NEW sa2, NEW b
  PROVE  LET n == [m EXCEPT !.kw = kw] IN
         /\ MemberOK(p, n) /\ GrowsTo(m, n, sa, sa2, b)
         /\ n.club = m.club /\ n.deck = m.deck /\ n.use = m.use /\ n.level = m.level
<1> DEFINE n == [m EXCEPT !.kw = kw]
<1>1. m \in TheMembers /\ m.kw \in [Keywords -> Unowned..FullScale] /\ m.skill \in [Skills -> Unowned..1]
  BY MemberFields
<1>2. /\ n \in TheMembers /\ n.kw = kw /\ n.skill = m.skill /\ n.level = m.level
      /\ n.club = m.club /\ n.deck = m.deck /\ n.use = m.use
  BY <1>1 DEF TheMembers
<1> HIDE DEF n
<1>3. \A k \in Keywords : m.kw[k] # Unowned => kw[k] # Unowned
  BY <1>1, ClubsAssumption DEF Unowned
<1>4. Owned(m) \subseteq Owned(n)
  BY <1>2, <1>3 DEF Owned
<1>5. MemberOK(p, n)
  BY <1>2, <1>4, DecksStay
<1>6. GrowsTo(m, n, sa, sa2, b)
  <2>1. \A s \in Skills : m.skill[s] \in Int
    BY <1>1 DEF Unowned
  <2> QED BY <1>2, <2>1 DEF GrowsTo
<1> QED BY <1>2, <1>5, <1>6 DEF n

LEMMA Masters ==
  ASSUME NEW p, NEW m, MemberOK(p, m), NEW k \in Keywords, NEW sa, NEW sa2, NEW b
  PROVE  LET n == Mastered(m, k) IN
         /\ MemberOK(p, n) /\ GrowsTo(m, n, sa, sa2, b)
         /\ n.club = m.club /\ n.deck = m.deck /\ n.use = m.use /\ n.level = m.level
<1>1. m.kw \in [Keywords -> Unowned..FullScale] /\ FullScale \in Nat
  BY MemberFields, ClubsAssumption
<1>2. CASE m.kw[k] \in {Unowned, FullScale}
  <2>1. Mastered(m, k) = m
    BY <1>2 DEF Mastered
  <2> QED BY <2>1, GrowsNot
<1>3. CASE m.kw[k] \notin {Unowned, FullScale}
  <2> DEFINE after == m.kw[k] + 1
             kw == [x \in Keywords |->
                      IF x = k THEN after
                      ELSE IF after = FullScale /\ x \in Successors[k] /\ m.kw[x] = Unowned THEN 0
                      ELSE m.kw[x]]
  <2>1. after \in Unowned..FullScale /\ after >= m.kw[k]
    BY <1>1, <1>3 DEF Unowned
  <2>2. Mastered(m, k) = [m EXCEPT !.kw = kw]
    BY <1>3 DEF Mastered
  <2>3. \A x \in Keywords : kw[x] \in {after, 0, m.kw[x]} /\ (kw[x] = 0 /\ x # k => m.kw[x] \in {0, Unowned})
                            /\ (x = k => kw[x] = after) /\ (x # k => kw[x] \in {0, m.kw[x]})
    OBVIOUS
  <2>4. kw = [x \in Keywords |-> kw[x]]
    OBVIOUS
  <2> HIDE DEF after, kw
  <2>5. \A x \in Keywords : kw[x] \in Unowned..FullScale /\ kw[x] >= m.kw[x]
    BY <1>1, <2>1, <2>3 DEF Unowned
  <2>6. kw \in [Keywords -> Unowned..FullScale]
    BY <2>4, <2>5
  <2> QED BY <2>2, <2>5, <2>6, Learns
<1> QED BY <1>2, <1>3

LEMMA IsTaught ==
  ASSUME NEW p, NEW m, MemberOK(p, m), NEW k \in Keywords, m.kw[k] = Unowned,
         NEW sa, NEW sa2, NEW b
  PROVE  MemberOK(p, Taught(m, k)) /\ GrowsTo(m, Taught(m, k), sa, sa2, b)
<1> DEFINE kw == [m.kw EXCEPT ![k] = 0]
<1>1. m.kw \in [Keywords -> Unowned..FullScale] /\ FullScale \in Nat
  BY MemberFields, ClubsAssumption
<1>2. kw \in [Keywords -> Unowned..FullScale] /\ \A x \in Keywords : kw[x] >= m.kw[x]
  BY <1>1 DEF Unowned
<1>3. Taught(m, k) = [m EXCEPT !.kw = kw]
  BY DEF Taught
<1> HIDE DEF kw
<1> QED BY <1>2, <1>3, Learns

(* A skill made, and the book it was made of.                              *)
Made(m, s, skill) == [m EXCEPT !.skill = [m.skill EXCEPT ![s] = skill]]
Spent(sa, s) == [sa EXCEPT !.books = [sa.books EXCEPT ![s] = @ - 1], !.material = @ - 1]

LEMMA SpentFits ==
  ASSUME NEW sa \in TheSatchels, NEW s \in Skills, sa.books[s] > 0, sa.material > 0
  PROVE  Spent(sa, s) \in TheSatchels /\ Spent(sa, s).books[s] = sa.books[s] - 1
<1> DEFINE books == [sa.books EXCEPT ![s] = @ - 1]
           material == sa.material - 1
<1>1. sa.books \in [Skills -> 0..MaxBooks] /\ sa.material \in 0..MaxBooks /\ MaxBooks \in Nat
  BY ClubsAssumption DEF TheSatchels
<1>2. books \in [Skills -> 0..MaxBooks] /\ books[s] = sa.books[s] - 1 /\ material \in 0..MaxBooks
  BY <1>1
<1>3. Spent(sa, s) = [sa EXCEPT !.books = books, !.material = material]
  BY DEF Spent
<1> HIDE DEF books, material
<1> QED BY <1>2, <1>3 DEF TheSatchels

LEMMA SkillMade ==
  ASSUME NEW p, NEW m, MemberOK(p, m), NEW s \in Skills, NEW made \in 0..1,
         NEW sa, NEW sa2, sa2.books[s] = sa.books[s] - 1, NEW b
  PROVE  LET n == Granted(m, s, made) IN
         /\ MemberOK(p, n) /\ GrowsTo(m, n, sa, sa2, b)
<1> DEFINE best == IF made > m.skill[s] THEN made ELSE m.skill[s]
           skill == [m.skill EXCEPT ![s] = best]
           n == [m EXCEPT !.skill = skill]
<1>1. m \in TheMembers /\ m.skill \in [Skills -> Unowned..1] /\ m.kw \in [Keywords -> Unowned..FullScale]
  BY MemberFields
<1>2. best \in Unowned..1 /\ best >= m.skill[s] /\ m.skill[s] \in Unowned..1
  BY <1>1 DEF Unowned
<1>3. n = Granted(m, s, made)
  BY <1>1 DEF Granted
<1> HIDE DEF best
<1>4. /\ skill \in [Skills -> Unowned..1] /\ skill[s] = best
      /\ \A x \in Skills \ {s} : skill[x] = m.skill[x]
  BY <1>1, <1>2
<1> HIDE DEF skill
<1>5. /\ n \in TheMembers /\ n.kw = m.kw /\ n.skill = skill /\ n.level = m.level
      /\ n.deck = m.deck /\ n.use = m.use
  BY <1>1, <1>4 DEF TheMembers
<1> HIDE DEF n
<1>6. \A x \in Skills : m.skill[x] # Unowned => skill[x] # Unowned
  BY <1>2, <1>4 DEF Unowned
<1>7. Owned(m) \subseteq Owned(n)
  BY <1>5, <1>6 DEF Owned
<1>8. MemberOK(p, n)
  BY <1>5, <1>7, DecksStay
<1>9. GrowsTo(m, n, sa, sa2, b)
  <2>1. \A k \in Keywords : m.kw[k] \in Int
    BY <1>1 DEF Unowned
  <2>2. \A x \in Skills : skill[x] >= m.skill[x] /\ (skill[x] # m.skill[x] => x = s)
    BY <1>1, <1>2, <1>4 DEF Unowned
  <2> QED BY <1>5, <2>1, <2>2 DEF GrowsTo
<1> QED BY <1>3, <1>8, <1>9

(* A win at the ceiling: one rung of the ladder of the club fought for.    *)
LEMMA RungWon ==
  ASSUME NEW p, NEW m, MemberOK(p, m), NEW b, FightOK(m, "bout", b), NEW sa, NEW sa2
  PROVE  MemberOK(p, Unlocked(m, b)) /\ GrowsTo(m, Unlocked(m, b), sa, sa2, b)
<1>1. CASE Unlocked(m, b) = m
  BY <1>1, GrowsNot
<1>2. CASE Unlocked(m, b) # m
  <2> DEFINE c == b.club
             level == [m.level EXCEPT ![c] = @ + 1]
             n == [m EXCEPT !.level = level]
  <2>1. /\ m \in TheMembers /\ m.level \in [ClubKeys -> 1..LadderTop]
        /\ m.skill \in [Skills -> Unowned..1] /\ m.kw \in [Keywords -> Unowned..FullScale]
    BY MemberFields
  <2>2. b \in TheBouts /\ c \in ClubKeys /\ b.level \in Nat /\ b.level < m.level[c]
    BY DEF FightOK
  <2>3. b.level + 1 >= m.level[c] /\ m.level[c] < LadderTop /\ Unlocked(m, b) = n
    <3>1. ~ (b.level + 1 < m.level[c] \/ m.level[c] >= LadderTop)
      BY <1>2 DEF Unlocked
    <3>2. Unlocked(m, b) = n
      BY <3>1 DEF Unlocked
    <3> QED BY <2>1, <2>2, <3>1, <3>2, ClubsAssumption
  <2>4. b.level = m.level[c] - 1 /\ m.level[c] + 1 \in 1..LadderTop
    BY <2>1, <2>2, <2>3, ClubsAssumption
  <2>5. b = [level |-> m.level[c] - 1, club |-> c]
    BY <2>2, <2>4 DEF TheBouts
  <2> HIDE DEF c
  <2>6. /\ level \in [ClubKeys -> 1..LadderTop] /\ level[c] = m.level[c] + 1
        /\ \A x \in ClubKeys \ {c} : level[x] = m.level[x]
    BY <2>1, <2>2, <2>4
  <2> HIDE DEF level
  <2>7. /\ n \in TheMembers /\ n.kw = m.kw /\ n.skill = m.skill /\ n.level = level
        /\ n.deck = m.deck /\ n.use = m.use
    BY <2>1, <2>6 DEF TheMembers
  <2> HIDE DEF n
  <2>8. Owned(m) \subseteq Owned(n)
    BY <2>7 DEF Owned
  <2>9. MemberOK(p, n)
    BY <2>7, <2>8, DecksStay
  <2>10. GrowsTo(m, n, sa, sa2, b)
    <3>1. /\ \A k \in Keywords : m.kw[k] \in Int
          /\ \A s \in Skills : m.skill[s] \in Int
      BY <2>1 DEF Unowned
    <3>2. \A x \in ClubKeys : \/ level[x] = m.level[x]
                              \/ level[x] = m.level[x] + 1 /\ b = [level |-> m.level[x] - 1, club |-> x]
      BY <2>5, <2>6
    <3> QED BY <2>7, <3>1, <3>2 DEF GrowsTo
  <2> QED BY <2>3, <2>9, <2>10
<1> QED BY <1>1, <1>2

LEMMA SpoilsFit ==
  ASSUME NEW p \in Players, satchel[p] \in TheSatchels, NEW b \in Spoils(p), Carried(b)
  PROVE  b \in TheSatchels
<1> DEFINE sa == satchel[p]
<1>1. sa \in TheSatchels /\ sa.books \in [Skills -> 0..MaxBooks] /\ sa.material \in 0..MaxBooks /\ MaxBooks \in Nat
  BY ClubsAssumption DEF TheSatchels
<1>2. CASE b = sa
  BY <1>1, <1>2
<1>3. CASE b = [sa EXCEPT !.material = @ + 1]
  <2>1. b.material <= MaxBooks
    BY DEF Carried
  <2>2. b.material = sa.material + 1
    BY <1>1, <1>3 DEF TheSatchels
  <2>3. sa.material + 1 \in 0..MaxBooks
    BY <1>1, <2>1, <2>2
  <2> QED BY <1>1, <1>3, <2>3 DEF TheSatchels
<1>4. ASSUME NEW s \in Skills, b = [sa EXCEPT !.books[s] = @ + 1]
      PROVE  b \in TheSatchels
  <2> DEFINE books == [sa.books EXCEPT ![s] = @ + 1]
  <2>1. b = [sa EXCEPT !.books = books] /\ b.books = books
    BY <1>1, <1>4 DEF TheSatchels
  <2>2. books[s] <= MaxBooks /\ books[s] = sa.books[s] + 1
    BY <1>1, <2>1 DEF Carried
  <2>3. books \in [Skills -> 0..MaxBooks]
    BY <1>1, <2>2
  <2> HIDE DEF books
  <2> QED BY <1>1, <2>1, <2>3 DEF TheSatchels
<1> QED BY <1>2, <1>3, <1>4 DEF Spoils

-----------------------------------------------------------------------------
(* Clubs: everybody's.                                                     *)
ClubFitsAt(p) == ClubFits(p, member[p], satchel[p], screen[p], bout[p], p \in online)
ClubsTyped ==
  /\ member \in [Players -> TheMembers] /\ satchel \in [Players -> TheSatchels]
  /\ screen \in [Players -> TheScreens] /\ bout \in [Players -> TheBouts]
ClubsInv == ClubsTyped /\ \A p \in Players : ClubFitsAt(p)

(* What a step owes: the invariant, and nothing of what was learnt.        *)
Learnt(p) == GrowsTo(member[p], member'[p], satchel[p], satchel'[p], bout[p])
ClubsKept == ClubsInv' /\ \A p \in Players : Grows(p)

LEMMA LearntGrows ==
  ASSUME NEW p \in Players, Learnt(p)
  PROVE  Grows(p)
BY DEF Learnt, GrowsTo, Grows

(* One character's step, and nobody else's.                                *)
ClubMoves(p, m, sa, sc, b) ==
  /\ member' = [member EXCEPT ![p] = m] /\ satchel' = [satchel EXCEPT ![p] = sa]
  /\ screen' = [screen EXCEPT ![p] = sc] /\ bout' = [bout EXCEPT ![p] = b]

LEMMA OneInClub ==
  ASSUME ClubsInv, online' = online, NEW p \in Players, NEW m, NEW sa, NEW sc, NEW b,
         ClubMoves(p, m, sa, sc, b), ClubFits(p, m, sa, sc, b, p \in online),
         GrowsTo(member[p], m, satchel[p], sa, bout[p])
  PROVE  ClubsKept
<1>1. m \in TheMembers /\ sa \in TheSatchels /\ sc \in TheScreens /\ b \in TheBouts
  BY DEF ClubFits, MemberOK, FightOK
<1>2. ClubsTyped'
  BY <1>1 DEF ClubsInv, ClubsTyped, ClubMoves
<1>3. member'[p] = m /\ satchel'[p] = sa /\ screen'[p] = sc /\ bout'[p] = b
  BY DEF ClubsInv, ClubsTyped, ClubMoves
<1>4. \A x \in Players \ {p} : /\ member'[x] = member[x] /\ satchel'[x] = satchel[x]
                               /\ screen'[x] = screen[x] /\ bout'[x] = bout[x]
  BY DEF ClubsInv, ClubsTyped, ClubMoves
<1>5. ASSUME NEW x \in Players
      PROVE  ClubFitsAt(x)'
  <2>1. CASE x = p
    BY <1>3, <2>1 DEF ClubFitsAt
  <2>2. CASE x # p
    <3>1. ClubFitsAt(x)
      BY DEF ClubsInv
    <3> QED BY <1>4, <2>2, <3>1, Zenon DEF ClubFitsAt
  <2> QED BY <2>1, <2>2
<1>6. ASSUME NEW x \in Players
      PROVE  Grows(x)
  <2>1. CASE x = p
    BY <1>3, <2>1, LearntGrows DEF Learnt
  <2>2. CASE x # p
    BY <1>4, <2>2 DEF Grows
  <2> QED BY <2>1, <2>2
<1> QED BY <1>2, <1>5, <1>6 DEF ClubsKept, ClubsInv

LEMMA NobodyInClub ==
  ASSUME ClubsInv, UNCHANGED clubVars, UNCHANGED online
  PROVE  ClubsKept
<1>1. ClubsInv'
  BY DEF ClubsInv, ClubsTyped, ClubFitsAt, clubVars
<1>2. \A p \in Players : Grows(p)
  BY DEF Grows, clubVars
<1> QED BY <1>1, <1>2 DEF ClubsKept

LEMMA ClubFields ==
  ASSUME ClubsInv, NEW p \in Players
  PROVE  /\ ClubFits(p, member[p], satchel[p], screen[p], bout[p], p \in online)
         /\ MemberOK(p, member[p]) /\ satchel[p] \in TheSatchels
         /\ FightOK(member[p], screen[p], bout[p])
         /\ screen[p] = "none" => bout[p] = NoBout
         /\ screen[p] # "none" => p \in online
BY DEF ClubsInv, ClubFitsAt, ClubFits, FightOK

(* Somebody with no window of the club's up changes their membership.      *)
LEMMA AtTheDesk ==
  ASSUME ClubsInv, online' = online, NEW p \in Players, screen[p] = "none",
         NEW m, MemberOK(p, m), GrowsTo(member[p], m, satchel[p], satchel[p], bout[p]),
         member' = [member EXCEPT ![p] = m], UNCHANGED <<satchel, screen, bout>>
  PROVE  ClubsKept
<1>1. satchel[p] \in TheSatchels /\ bout[p] = NoBout
  BY ClubFields
<1>2. ClubFits(p, m, satchel[p], "none", NoBout, p \in online)
  BY <1>1, Peaceful
<1>3. ClubMoves(p, m, satchel[p], "none", NoBout)
  BY <1>1 DEF ClubMoves, ClubsInv, ClubsTyped
<1> QED BY <1>2, <1>3, OneInClub

LEMMA JoinsAndParts ==
  ASSUME ClubsInv, online' = online, NEW p \in Players,
         (\E c \in ClubKeys : ClubEnter(p, c)) \/ ClubPart(p)
  PROVE  ClubsKept
<1>1. /\ MemberOK(p, member[p]) /\ member[p] \in TheMembers
      /\ member[p].club \in ClubKeys \cup {NoClub} /\ member[p].waits \subseteq ClubKeys
  BY ClubFields, MemberFields
<1>2. PICK to \in ClubKeys \cup {NoClub}, waits \in SUBSET ClubKeys :
        /\ member' = [member EXCEPT ![p] = Moved(member[p], to, waits)]
        /\ screen[p] = "none" /\ UNCHANGED <<satchel, screen, bout>>
  <2>1. ASSUME NEW c \in ClubKeys, ClubEnter(p, c)
        PROVE  \E to \in ClubKeys \cup {NoClub}, waits \in SUBSET ClubKeys :
                 /\ member' = [member EXCEPT ![p] = Moved(member[p], to, waits)]
                 /\ screen[p] = "none" /\ UNCHANGED <<satchel, screen, bout>>
    <3>1. [member[p] EXCEPT !.club = c] = Moved(member[p], c, member[p].waits)
      BY <1>1 DEF Moved, TheMembers
    <3> QED BY <1>1, <2>1, <3>1 DEF ClubEnter
  <2>2. CASE ClubPart(p)
    <3>1. member[p].waits \cup {member[p].club} \in SUBSET ClubKeys
      BY <1>1, <2>2 DEF ClubPart
    <3>2. member' = [member EXCEPT ![p] = Moved(member[p], NoClub, member[p].waits \cup {member[p].club})]
      BY <1>1, <2>2 DEF ClubPart, Moved, TheMembers
    <3> QED BY <2>2, <3>1, <3>2 DEF ClubPart
  <2> QED BY <2>1, <2>2
<1>3. /\ MemberOK(p, Moved(member[p], to, waits))
      /\ GrowsTo(member[p], Moved(member[p], to, waits), satchel[p], satchel[p], bout[p])
  BY <1>1, ChangesClub
<1> QED BY <1>2, <1>3, AtTheDesk

(* Ten days later, in whatever the character is doing by then.             *)
LEMMA WaitsNoLonger ==
  ASSUME ClubsInv, online' = online, NEW p \in Players, NEW c \in ClubKeys, WaitIsOver(p, c)
  PROVE  ClubsKept
<1> DEFINE m == Moved(member[p], member[p].club, member[p].waits \ {c})
<1>1. /\ MemberOK(p, member[p]) /\ member[p] \in TheMembers
      /\ member[p].club \in ClubKeys \cup {NoClub} /\ member[p].waits \ {c} \in SUBSET ClubKeys
      /\ FightOK(member[p], screen[p], bout[p]) /\ satchel[p] \in TheSatchels
      /\ ClubFits(p, member[p], satchel[p], screen[p], bout[p], p \in online)
  BY ClubFields, MemberFields
<1>2. MemberOK(p, m) /\ GrowsTo(member[p], m, satchel[p], satchel[p], bout[p])
  BY <1>1, ChangesClub
<1>3. m.club = member[p].club /\ m.deck = member[p].deck /\ m.use = member[p].use /\ m.level = member[p].level
  BY <1>1, MovedFields
<1>4. ClubMoves(p, m, satchel[p], screen[p], bout[p])
  BY <1>1 DEF WaitIsOver, ClubMoves, ClubsInv, ClubsTyped, Moved, TheMembers
<1> HIDE DEF m
<1>5. Armed(member[p]) => Armed(m)
  BY <1>3, ArmedStays
<1>6. FightOK(m, screen[p], bout[p])
  BY <1>1, <1>3, <1>5 DEF FightOK
<1>7. ClubFits(p, m, satchel[p], screen[p], bout[p], p \in online)
  BY <1>1, <1>2, <1>6 DEF ClubFits
<1> QED BY <1>2, <1>4, <1>7, OneInClub

LEMMA WritesDeck ==
  ASSUME ClubsInv, online' = online, NEW p \in Players, NEW d \in Decks, NEW cards \in SUBSET Cards,
         NEW ticks \in SUBSET Uses, ClubDeckUpdate(p, d, cards, ticks)
  PROVE  ClubsKept
<1>1. MemberOK(p, member[p]) /\ DeckFits(p, d, cards, ticks)
  BY ClubFields DEF ClubDeckUpdate
<1> DEFINE m == Redecked(member[p], d, cards, ticks)
<1>2. MemberOK(p, m) /\ m.kw = member[p].kw /\ m.skill = member[p].skill /\ m.level = member[p].level
  BY <1>1, Redecks
<1>3. member' = [member EXCEPT ![p] = m]
  BY DEF ClubDeckUpdate, Redecked
<1> HIDE DEF m
<1>4. GrowsTo(member[p], m, satchel[p], satchel[p], bout[p])
  BY <1>1, <1>2, GrowsNot
<1> QED BY <1>2, <1>3, <1>4, AtTheDesk DEF ClubDeckUpdate

LEMMA ScriptTeaches ==
  ASSUME ClubsInv, online' = online, NEW p \in Players, NEW k \in Keywords, ScriptKeyword(p, k)
  PROVE  ClubsKept
<1>1. MemberOK(p, member[p])
  BY ClubFields
<1>2. /\ MemberOK(p, Taught(member[p], k))
      /\ GrowsTo(member[p], Taught(member[p], k), satchel[p], satchel[p], bout[p])
  BY <1>1, IsTaught DEF ScriptKeyword
<1>3. member' = [member EXCEPT ![p] = Taught(member[p], k)]
  BY DEF ScriptKeyword, Taught
<1> QED BY <1>2, <1>3, AtTheDesk DEF ScriptKeyword

(* A window goes up, or down.                                              *)
LEMMA WindowChanges ==
  ASSUME ClubsInv, online' = online, NEW p \in Players, NEW sc, NEW b, ClubMoves(p, member[p], satchel[p], sc, b),
         FightOK(member[p], sc, b), sc = "none" \/ p \in online
  PROVE  ClubsKept
<1>1. MemberOK(p, member[p]) /\ satchel[p] \in TheSatchels
  BY ClubFields
<1>2. ClubFits(p, member[p], satchel[p], sc, b, p \in online)
  BY <1>1 DEF ClubFits
<1>3. GrowsTo(member[p], member[p], satchel[p], satchel[p], bout[p])
  BY <1>1, GrowsNot
<1> QED BY <1>2, <1>3, OneInClub

LEMMA OpensWindow ==
  ASSUME ClubsInv, online' = online, NEW p \in Players,
         \/ NpcBattleStart(p) \/ GouseiStart(p) \/ LevelCancel(p) \/ GouseiEnd(p)
         \/ \E level \in 0..LadderTop - 1 : NpcBattleInfo(p, level)
  PROVE  ClubsKept
<1>1. /\ MemberOK(p, member[p]) /\ FightOK(member[p], screen[p], bout[p]) /\ bout[p] \in TheBouts
      /\ screen[p] = "none" => bout[p] = NoBout
      /\ screen[p] # "none" => p \in online
      /\ member[p].club \in ClubKeys \cup {NoClub} /\ NoBout \in TheBouts
  <2>1. NoBout \in TheBouts
    BY DEF NoBout, TheBouts
  <2> QED BY <2>1, ClubFields, MemberFields DEF FightOK
<1>2. CASE NpcBattleStart(p)
  <2>1. FightOK(member[p], "levels", NoBout)
    <3>1. Armed(member[p])
      BY <1>2 DEF NpcBattleStart, PracticeDecks, Armed
    <3> QED BY <1>1, <1>2, <3>1 DEF NpcBattleStart, FightOK, TheScreens
  <2>2. ClubMoves(p, member[p], satchel[p], "levels", NoBout) /\ p \in online
    BY <1>1, <1>2 DEF NpcBattleStart, ClubMoves, ClubsInv, ClubsTyped
  <2> QED BY <2>1, <2>2, WindowChanges
<1>3. CASE GouseiStart(p)
  <2>1. FightOK(member[p], "gousei", NoBout)
    BY <1>1 DEF FightOK, TheScreens
  <2>2. ClubMoves(p, member[p], satchel[p], "gousei", NoBout) /\ p \in online
    BY <1>1, <1>3 DEF GouseiStart, ClubMoves, ClubsInv, ClubsTyped
  <2> QED BY <2>1, <2>2, WindowChanges
<1>4. CASE LevelCancel(p) \/ GouseiEnd(p)
  <2>1. FightOK(member[p], "none", NoBout)
    BY <1>1 DEF FightOK, TheScreens
  <2>2. bout[p] = NoBout
    BY <1>1, <1>4 DEF LevelCancel, GouseiEnd, FightOK
  <2>3. ClubMoves(p, member[p], satchel[p], "none", NoBout)
    BY <1>4, <2>2 DEF LevelCancel, GouseiEnd, ClubMoves, ClubsInv, ClubsTyped
  <2> QED BY <2>1, <2>3, WindowChanges
<1>5. ASSUME NEW level \in 0..LadderTop - 1, NpcBattleInfo(p, level)
      PROVE  ClubsKept
  <2> DEFINE b == [level |-> level, club |-> member[p].club]
  <2>1. b \in TheBouts /\ b.level = level /\ b.club = member[p].club
    BY <1>1 DEF TheBouts
  <2>2. ClubMoves(p, member[p], satchel[p], "bout", b) /\ p \in online
    BY <1>1, <1>5 DEF NpcBattleInfo, ClubMoves, ClubsInv, ClubsTyped
  <2> HIDE DEF b
  <2>3. b # NoBout
    BY <2>1 DEF NoBout
  <2>4. member[p].club \in ClubKeys /\ Armed(member[p]) /\ level < member[p].level[member[p].club]
    BY <1>1, <1>5 DEF FightOK, NpcBattleInfo
  <2>5. FightOK(member[p], "bout", b)
    BY <2>1, <2>3, <2>4 DEF FightOK, TheScreens
  <2> QED BY <2>2, <2>5, WindowChanges
<1> QED BY <1>2, <1>3, <1>4, <1>5

LEMMA CardPlayed ==
  ASSUME ClubsInv, online' = online, NEW p \in Players, NEW k \in Keywords, PlayCard(p, k)
  PROVE  ClubsKept
<1> DEFINE m == Mastered(member[p], k)
<1>1. /\ MemberOK(p, member[p]) /\ FightOK(member[p], screen[p], bout[p]) /\ satchel[p] \in TheSatchels
      /\ ClubFits(p, member[p], satchel[p], screen[p], bout[p], p \in online)
  BY ClubFields
<1>2. MemberOK(p, m) /\ GrowsTo(member[p], m, satchel[p], satchel[p], bout[p])
  BY <1>1, Masters
<1>3. m.club = member[p].club /\ m.deck = member[p].deck /\ m.use = member[p].use /\ m.level = member[p].level
  BY <1>1, Masters
<1>4. ClubMoves(p, m, satchel[p], screen[p], bout[p])
  BY DEF PlayCard, ClubMoves, ClubsInv, ClubsTyped
<1> HIDE DEF m
<1>5. Armed(member[p]) => Armed(m)
  BY <1>3, ArmedStays
<1>6. FightOK(m, screen[p], bout[p])
  BY <1>1, <1>3, <1>5 DEF FightOK
<1>7. ClubFits(p, m, satchel[p], screen[p], bout[p], p \in online)
  BY <1>1, <1>2, <1>6 DEF ClubFits
<1> QED BY <1>2, <1>4, <1>7, OneInClub

(* What a fight brings home, or as much of it as a crash leaves.           *)
LEMMA Paid ==
  ASSUME ClubsInv, NEW p \in Players, NEW won \in BOOLEAN, NEW written \in 0..2, BoutPays(p, won, written)
  PROVE  \E m, sa : /\ member' = [member EXCEPT ![p] = m] /\ satchel' = [satchel EXCEPT ![p] = sa]
                    /\ MemberOK(p, m) /\ sa \in TheSatchels
                    /\ GrowsTo(member[p], m, satchel[p], sa, bout[p])
<1>1. /\ MemberOK(p, member[p]) /\ FightOK(member[p], "bout", bout[p]) /\ satchel[p] \in TheSatchels
  BY ClubFields DEF BoutPays
<1>2. PICK sa \in TheSatchels : satchel' = [satchel EXCEPT ![p] = sa]
  <2>1. CASE written = 0
    <3>1. satchel' = [satchel EXCEPT ![p] = satchel[p]]
      BY <2>1 DEF BoutPays, ClubsInv, ClubsTyped
    <3> QED BY <1>1, <3>1
  <2>2. CASE written # 0
    <3>1. PICK b \in Spoils(p) : Carried(b) /\ satchel' = [satchel EXCEPT ![p] = b]
      BY <2>2 DEF BoutPays
    <3> QED BY <1>1, <3>1, SpoilsFit
  <2> QED BY <2>1, <2>2
<1>3. PICK m : /\ member' = [member EXCEPT ![p] = m] /\ MemberOK(p, m)
               /\ GrowsTo(member[p], m, satchel[p], sa, bout[p])
  <2>1. CASE written = 2 /\ won
    <3>1. member' = [member EXCEPT ![p] = Unlocked(member[p], bout[p])]
      BY <2>1 DEF BoutPays, AfterBout
    <3> QED BY <1>1, <3>1, RungWon
  <2>2. CASE ~ (written = 2 /\ won)
    <3>1. member' = [member EXCEPT ![p] = member[p]]
      BY <2>2 DEF BoutPays, AfterBout
    <3> QED BY <1>1, <3>1, GrowsNot
  <2> QED BY <2>1, <2>2
<1> QED BY <1>2, <1>3

LEMMA BoutIsOver ==
  ASSUME ClubsInv, online' = online, NEW p \in Players, NEW won \in BOOLEAN, BoutEnds(p, won)
  PROVE  ClubsKept
<1>1. PICK m, sa : /\ member' = [member EXCEPT ![p] = m] /\ satchel' = [satchel EXCEPT ![p] = sa]
                   /\ MemberOK(p, m) /\ sa \in TheSatchels
                   /\ GrowsTo(member[p], m, satchel[p], sa, bout[p])
  BY Paid DEF BoutEnds
<1>2. ClubMoves(p, m, sa, "none", NoBout)
  BY <1>1 DEF BoutEnds, ClubMoves
<1>3. ClubFits(p, m, sa, "none", NoBout, p \in online)
  BY <1>1, Peaceful
<1> QED BY <1>1, <1>2, <1>3, OneInClub

(* The bag after a synthesis is paid for.                                  *)
LEMMA Spending ==
  ASSUME ClubsInv, NEW p \in Players, NEW s \in Skills, Spends(p, s)
  PROVE  /\ satchel' = [satchel EXCEPT ![p] = Spent(satchel[p], s)]
         /\ Spent(satchel[p], s) \in TheSatchels
         /\ Spent(satchel[p], s).books[s] = satchel[p].books[s] - 1
<1>1. satchel[p] \in TheSatchels /\ satchel[p].books[s] > 0 /\ satchel[p].material > 0
  BY ClubFields DEF Spends
<1>2. satchel' = [satchel EXCEPT ![p] = Spent(satchel[p], s)]
  BY DEF Spends, Spent
<1> QED BY <1>1, <1>2, SpentFits

LEMMA Synthesises ==
  ASSUME ClubsInv, online' = online, NEW p \in Players, NEW s \in Skills, NEW made \in 0..1,
         NEW works \in BOOLEAN, Gousei(p, s, made, works)
  PROVE  ClubsKept
<1> DEFINE sa == Spent(satchel[p], s)
<1>1. /\ satchel' = [satchel EXCEPT ![p] = sa] /\ sa \in TheSatchels
      /\ sa.books[s] = satchel[p].books[s] - 1
  BY Spending DEF Gousei
<1>2. MemberOK(p, member[p]) /\ screen[p] = "gousei" /\ bout[p] = NoBout /\ NoBout \in TheBouts /\ p \in online
  <2>1. NoBout \in TheBouts
    BY DEF NoBout, TheBouts
  <2> QED BY <2>1, ClubFields DEF Gousei, Spends, FightOK
<1> HIDE DEF sa
<1>3. PICK m : /\ member' = [member EXCEPT ![p] = m] /\ MemberOK(p, m)
               /\ GrowsTo(member[p], m, satchel[p], sa, bout[p])
  <2>1. CASE works
    <3>1. member' = [member EXCEPT ![p] = Granted(member[p], s, made)]
      BY <2>1 DEF Gousei
    <3> QED BY <1>1, <1>2, <3>1, SkillMade
  <2>2. CASE ~ works
    <3>1. member' = [member EXCEPT ![p] = member[p]]
      BY <2>2 DEF Gousei
    <3> QED BY <1>2, <3>1, GrowsNot
  <2> QED BY <2>1, <2>2
<1>4. ClubMoves(p, m, sa, "gousei", NoBout)
  BY <1>1, <1>2, <1>3 DEF Gousei, ClubMoves, ClubsInv, ClubsTyped
<1>5. ClubFits(p, m, sa, "gousei", NoBout, p \in online)
  BY <1>1, <1>2, <1>3 DEF ClubFits, FightOK, TheScreens
<1> QED BY <1>3, <1>4, <1>5, OneInClub

(* Connections end; a crash may leave half a payout or half a synthesis.   *)
LEMMA ClubsClose ==
  ASSUME ClubsInv, NEW who \in SUBSET Players, online' = online \ who, ClubsGone(who),
         UNCHANGED <<member, satchel>> \/ \E p \in who : ClubsTorn(p)
  PROVE  ClubsKept
<1>1. /\ \A p \in Players : /\ MemberOK(p, member[p]) /\ satchel[p] \in TheSatchels
                            /\ GrowsTo(member[p], member[p], satchel[p], satchel[p], bout[p])
      /\ NoBout \in TheBouts /\ "none" \in TheScreens
  <2>1. NoBout \in TheBouts /\ "none" \in TheScreens
    BY DEF NoBout, TheBouts, TheScreens
  <2> QED BY <2>1, ClubFields, GrowsNot
<1>2. CASE UNCHANGED <<member, satchel>>
  <2>1. ASSUME NEW p \in Players
        PROVE  ClubFitsAt(p)'
    <3>1. CASE p \in who
      <4>1. screen'[p] = "none" /\ bout'[p] = NoBout
        BY <3>1 DEF ClubsGone
      <4>2. ClubFits(p, member[p], satchel[p], "none", NoBout, p \in online')
        BY <1>1, Peaceful
      <4> QED BY <1>2, <4>1, <4>2 DEF ClubFitsAt
    <3>2. CASE p \notin who
      <4>1. screen'[p] = screen[p] /\ bout'[p] = bout[p] /\ (p \in online') = (p \in online)
        BY <3>2 DEF ClubsGone
      <4>2. ClubFitsAt(p)
        BY DEF ClubsInv
      <4> QED BY <1>2, <4>1, <4>2, Zenon DEF ClubFitsAt
    <3> QED BY <3>1, <3>2
  <2>2. ClubsTyped'
    BY <1>1, <1>2 DEF ClubsInv, ClubsTyped, ClubsGone
  <2>3. \A p \in Players : Grows(p)
    BY <1>2 DEF Grows
  <2> QED BY <2>1, <2>2, <2>3 DEF ClubsKept, ClubsInv
<1>3. ASSUME NEW q \in who, ClubsTorn(q)
      PROVE  ClubsKept
  <2>1. PICK m, sa : /\ member' = [member EXCEPT ![q] = m] /\ satchel' = [satchel EXCEPT ![q] = sa]
                     /\ MemberOK(q, m) /\ sa \in TheSatchels
                     /\ GrowsTo(member[q], m, satchel[q], sa, bout[q])
    <3>1. CASE \E won \in BOOLEAN, written \in 0..1 : BoutPays(q, won, written)
      BY <3>1, Paid
    <3>2. ASSUME NEW s \in Skills, Spends(q, s), UNCHANGED member
          PROVE  \E m, sa : /\ member' = [member EXCEPT ![q] = m] /\ satchel' = [satchel EXCEPT ![q] = sa]
                            /\ MemberOK(q, m) /\ sa \in TheSatchels
                            /\ GrowsTo(member[q], m, satchel[q], sa, bout[q])
      <4>1. /\ satchel' = [satchel EXCEPT ![q] = Spent(satchel[q], s)]
            /\ Spent(satchel[q], s) \in TheSatchels
        BY <3>2, Spending
      <4>2. member' = [member EXCEPT ![q] = member[q]]
        BY <3>2 DEF ClubsInv, ClubsTyped
      <4>3. GrowsTo(member[q], member[q], satchel[q], Spent(satchel[q], s), bout[q])
        BY <1>1, GrowsNot
      <4> QED BY <1>1, <4>1, <4>2, <4>3
    <3> QED BY <1>3, <3>1, <3>2 DEF ClubsTorn
  <2>2. m \in TheMembers
    BY <2>1 DEF MemberOK
  <2>3. member'[q] = m /\ satchel'[q] = sa
    BY <2>1 DEF ClubsInv, ClubsTyped
  <2>4. \A p \in Players \ {q} : member'[p] = member[p] /\ satchel'[p] = satchel[p]
    BY <2>1 DEF ClubsInv, ClubsTyped
  <2>5. ClubsTyped'
    <3>1. screen' \in [Players -> TheScreens] /\ bout' \in [Players -> TheBouts]
      BY <1>1 DEF ClubsInv, ClubsTyped, ClubsGone
    <3> QED BY <2>1, <2>2, <3>1 DEF ClubsInv, ClubsTyped
  <2>6. ASSUME NEW p \in Players
        PROVE  ClubFitsAt(p)'
    <3>1. CASE p \in who
      <4>1. screen'[p] = "none" /\ bout'[p] = NoBout
        BY <3>1 DEF ClubsGone
      <4>2. MemberOK(p, member'[p]) /\ satchel'[p] \in TheSatchels
        BY <1>1, <2>1, <2>3, <2>4
      <4>3. ClubFits(p, member'[p], satchel'[p], "none", NoBout, p \in online')
        BY <4>2, Peaceful
      <4> QED BY <4>1, <4>3 DEF ClubFitsAt
    <3>2. CASE p \notin who
      <4>1. /\ screen'[p] = screen[p] /\ bout'[p] = bout[p] /\ (p \in online') = (p \in online)
            /\ member'[p] = member[p] /\ satchel'[p] = satchel[p]
        BY <2>4, <3>2 DEF ClubsGone
      <4>2. ClubFitsAt(p)
        BY DEF ClubsInv
      <4> QED BY <4>1, <4>2, Zenon DEF ClubFitsAt
    <3> QED BY <3>1, <3>2
  <2>7. ASSUME NEW p \in Players
        PROVE  Grows(p)
    <3>1. CASE p = q
      BY <2>1, <2>3, <3>1, LearntGrows DEF Learnt
    <3>2. CASE p # q
      BY <2>4, <3>2 DEF Grows
    <3> QED BY <3>1, <3>2
  <2> QED BY <2>5, <2>6, <2>7 DEF ClubsKept, ClubsInv
<1> QED BY <1>2, <1>3

LEMMA ClubSteps ==
  ASSUME ClubsInv, Club
  PROVE  ClubsKept
<1>1. online' = online
  BY DEF Club
<1>2. ASSUME NEW p \in Players, (\E c \in ClubKeys : ClubEnter(p, c)) \/ ClubPart(p)
      PROVE  ClubsKept
  BY <1>1, <1>2, JoinsAndParts
<1>3. ASSUME NEW p \in Players,
             \/ NpcBattleStart(p) \/ GouseiStart(p) \/ LevelCancel(p) \/ GouseiEnd(p)
             \/ \E level \in 0..LadderTop - 1 : NpcBattleInfo(p, level)
      PROVE  ClubsKept
  BY <1>1, <1>3, OpensWindow
<1>4. ASSUME NEW p \in Players, NEW k \in Keywords, ScriptKeyword(p, k) \/ PlayCard(p, k)
      PROVE  ClubsKept
  BY <1>1, <1>4, ScriptTeaches, CardPlayed
<1>5. ASSUME NEW p \in Players, NEW d \in Decks, NEW cards \in SUBSET Cards, NEW ticks \in SUBSET Uses,
             ClubDeckUpdate(p, d, cards, ticks)
      PROVE  ClubsKept
  BY <1>1, <1>5, WritesDeck
<1>6. ASSUME NEW p \in Players, NEW c \in ClubKeys, WaitIsOver(p, c)
      PROVE  ClubsKept
  BY <1>1, <1>6, WaitsNoLonger
<1>7. ASSUME NEW p \in Players, NEW won \in BOOLEAN, BoutEnds(p, won)
      PROVE  ClubsKept
  BY <1>1, <1>7, BoutIsOver
<1>8. ASSUME NEW p \in Players, NEW s \in Skills, NEW made \in 0..1, NEW works \in BOOLEAN,
             Gousei(p, s, made, works)
      PROVE  ClubsKept
  BY <1>1, <1>8, Synthesises
<1> QED BY <1>2, <1>3, <1>4, <1>5, <1>6, <1>7, <1>8 DEF Club

LEMMA ClubsSteps ==
  ASSUME ClubsInv, Here, [Next]_vars
  PROVE  ClubsKept
<1>1. CASE UNCHANGED vars
  BY <1>1, NobodyInClub DEF vars
<1>2. ASSUME NEW p \in Players, Arrive(p)
      PROVE  ClubsKept
  <2>1. UNCHANGED clubVars /\ online' = online \cup {p}
    BY <1>2 DEF Arrive
  <2>2. ASSUME NEW q \in Players
        PROVE  ClubFitsAt(q)'
    <3>1. ClubFits(q, member[q], satchel[q], screen[q], bout[q], q \in online)
      BY ClubFields
    <3>2. q \in online => q \in online'
      BY <2>1
    <3>3. ClubFits(q, member[q], satchel[q], screen[q], bout[q], q \in online')
      BY <3>1, <3>2 DEF ClubFits
    <3> QED BY <2>1, <3>3 DEF ClubFitsAt, clubVars
  <2> QED BY <2>1, <2>2 DEF clubVars, ClubsKept, ClubsInv, ClubsTyped, Grows
<1>3. ASSUME NEW p \in Players, Leave(p)
      PROVE  ClubsKept
  BY <1>3, ClubsClose DEF Leave, ConnectionsEnd
<1>4. CASE Crash
  <2>1. online' = online \ online /\ ClubsGone(online) /\ online \in SUBSET Players
    BY <1>4 DEF Crash, ConnectionsEnd, Here
  <2>2. UNCHANGED <<member, satchel>> \/ \E p \in online : ClubsTorn(p)
    BY <1>4, <2>1 DEF Crash
  <2> QED BY <2>1, <2>2, ClubsClose
<1>5. CASE Body \/ Lesson \/ Exam \/ Love
  BY <1>5, NobodyInClub DEF Body, Lesson, Exam, Love
<1> QED BY <1>1, <1>2, <1>3, <1>4, <1>5, ClubSteps DEF Next

LEMMA ClubsStart ==
  ASSUME Init
  PROVE  ClubsInv
<1> DEFINE level == [c \in ClubKeys |-> 1]
           kw == [k \in Keywords |-> Unowned]
           skill == [s \in Skills |-> Unowned]
           deck == [d \in Decks |-> {}]
           use == [d \in Decks |-> {}]
           books == [s \in Skills |-> 0]
           m == [club |-> NoClub, waits |-> {}, level |-> level, kw |-> kw, skill |-> skill,
                 deck |-> deck, use |-> use]
           sa == [books |-> books, material |-> 0]
<1>1. /\ member = [p \in Players |-> m] /\ satchel = [p \in Players |-> sa]
      /\ screen = [p \in Players |-> "none"] /\ bout = [p \in Players |-> NoBout]
  BY DEF Init, ClubsInit
<1>2. /\ level \in [ClubKeys -> 1..LadderTop] /\ kw \in [Keywords -> Unowned..FullScale]
      /\ skill \in [Skills -> Unowned..1] /\ books \in [Skills -> 0..MaxBooks] /\ 0 \in 0..MaxBooks
  BY ClubsAssumption DEF Unowned
<1>3. deck \in [Decks -> SUBSET Cards] /\ use \in [Decks -> SUBSET Uses]
      /\ \A d \in Decks : deck[d] = {} /\ use[d] = {}
  OBVIOUS
<1> HIDE DEF level, kw, skill, deck, use, books
<1>4. m \in TheMembers /\ m.deck = deck /\ m.use = use
  BY <1>2, <1>3 DEF TheMembers
<1>5. sa \in TheSatchels
  BY <1>2 DEF TheSatchels
<1> HIDE DEF m, sa
<1>6. \A p \in Players : MemberOK(p, m)
  BY <1>3, <1>4 DEF MemberOK
<1>7. NoBout \in TheBouts /\ "none" \in TheScreens
  BY DEF NoBout, TheBouts, TheScreens
<1>8. ClubsTyped
  BY <1>1, <1>4, <1>5, <1>7 DEF ClubsTyped
<1>9. ASSUME NEW p \in Players
      PROVE  ClubFitsAt(p)
  <2>1. ClubFits(p, m, sa, "none", NoBout, p \in online)
    BY <1>5, <1>6, Peaceful
  <2>2. member[p] = m /\ satchel[p] = sa /\ screen[p] = "none" /\ bout[p] = NoBout
    BY <1>1
  <2> QED BY <2>1, <2>2 DEF ClubFitsAt
<1> QED BY <1>8, <1>9 DEF ClubsInv

LEMMA ClubsSound == ClubsInv => ClubsTypeOK /\ DecksAreSound
<1> SUFFICES ASSUME ClubsInv, NEW p \in Players
             PROVE  /\ member[p].club \in ClubKeys \cup {NoClub} /\ member[p].waits \subseteq ClubKeys
                    /\ \A c \in ClubKeys : member[p].level[c] \in 1..LadderTop
                    /\ \A k \in Keywords : member[p].kw[k] \in Unowned..FullScale
                    /\ Carried(satchel[p])
                    /\ screen[p] # "none" => p \in online
                    /\ bout[p] # NoBout <=> screen[p] = "bout"
                    /\ \A d \in Decks :
                         /\ member[p].deck[d] \subseteq Owned(member[p])
                         /\ member[p].deck[d] \cap Skills \subseteq ForSex[p]
                         /\ \A other \in Decks \ {d} : member[p].use[d] \cap member[p].use[other] = {}
                    /\ bout[p] # NoBout => /\ PracticeDecks(p) # {} /\ bout[p].club = member[p].club
                                           /\ bout[p].level < LadderTop
  BY DEF ClubsTypeOK, DecksAreSound
<1>1. /\ MemberOK(p, member[p]) /\ satchel[p] \in TheSatchels /\ FightOK(member[p], screen[p], bout[p])
      /\ screen[p] # "none" => p \in online
  BY ClubFields
<1>2. /\ member[p].club \in ClubKeys \cup {NoClub} /\ member[p].waits \subseteq ClubKeys
      /\ member[p].level \in [ClubKeys -> 1..LadderTop] /\ member[p].kw \in [Keywords -> Unowned..FullScale]
  BY <1>1, MemberFields
<1>3. Carried(satchel[p])
  <2>1. satchel[p].books \in [Skills -> 0..MaxBooks] /\ satchel[p].material \in 0..MaxBooks
    BY <1>1 DEF TheSatchels
  <2> QED BY <2>1, ClubsAssumption DEF Carried
<1>4. bout[p] # NoBout <=> screen[p] = "bout"
  BY <1>1 DEF FightOK
<1>5. \A d \in Decks :
        /\ member[p].deck[d] \subseteq Owned(member[p])
        /\ member[p].deck[d] \cap Skills \subseteq ForSex[p]
        /\ \A other \in Decks \ {d} : member[p].use[d] \cap member[p].use[other] = {}
  BY <1>1 DEF MemberOK
<1>6. bout[p] # NoBout => /\ PracticeDecks(p) # {} /\ bout[p].club = member[p].club
                          /\ bout[p].level < LadderTop
  <2> SUFFICES ASSUME bout[p] # NoBout
               PROVE  /\ PracticeDecks(p) # {} /\ bout[p].club = member[p].club
                      /\ bout[p].level < LadderTop
    OBVIOUS
  <2>1. /\ member[p].club \in ClubKeys /\ Armed(member[p]) /\ bout[p].club = member[p].club
        /\ bout[p].level \in Nat /\ bout[p].level < member[p].level[member[p].club]
    BY <1>1, <1>4 DEF FightOK
  <2>2. PracticeDecks(p) # {}
    BY <2>1 DEF Armed, PracticeDecks
  <2>3. bout[p].level < LadderTop
    BY <1>2, <2>1, ClubsAssumption
  <2> QED BY <2>1, <2>2, <2>3
<1> QED BY <1>1, <1>2, <1>3, <1>4, <1>5, <1>6

-----------------------------------------------------------------------------
(* Exams: a report card, and what one pass over what it holds does.        *)
TheHeld == [subject : Subjects, score : Scores, period : Keys]
TheMarks == [Subjects -> Scores \cup {-1}]
TheCards == [key : Keys, sat : SUBSET Subjects, held : Seq(TheHeld), last : TheMarks, best : TheMarks]

LEMMA ScoresAreNumbers ==
  ASSUME NEW x \in Scores
  PROVE  x \in Nat /\ x \in Int
<1>1. x \in Nat
  BY ExamsAssumption, Zenon
<1> QED BY <1>1

LEMMA Appended ==
  ASSUME NEW S, NEW seq \in Seq(S), NEW e \in S
  PROVE  /\ Append(seq, e) \in Seq(S) /\ DOMAIN Append(seq, e) = DOMAIN seq \cup {Len(seq) + 1}
         /\ Len(seq) + 1 \notin DOMAIN seq /\ Append(seq, e)[Len(seq) + 1] = e
         /\ \A i \in DOMAIN seq : Append(seq, e)[i] = seq[i]
<1>1. /\ Append(seq, e) \in Seq(S) /\ Len(Append(seq, e)) = Len(seq) + 1
      /\ \A i \in 1..Len(seq) : Append(seq, e)[i] = seq[i]
      /\ Append(seq, e)[Len(seq) + 1] = e
  BY AppendProperties
<1>2. /\ Len(seq) \in Nat /\ DOMAIN seq = 1..Len(seq)
      /\ DOMAIN Append(seq, e) = 1..Len(Append(seq, e))
  BY <1>1
<1> QED BY <1>1, <1>2

LEMMA CardFields ==
  ASSUME NEW c \in TheCards
  PROVE  /\ c.key \in Keys /\ c.sat \in SUBSET Subjects /\ c.held \in Seq(TheHeld)
         /\ c.last \in TheMarks /\ c.best \in TheMarks
         /\ \A i \in DOMAIN c.held : c.held[i] \in TheHeld
         /\ \A s \in Subjects : c.best[s] \in Scores \cup {-1} /\ c.best[s] \in Int
<1>1. /\ c.key \in Keys /\ c.sat \in SUBSET Subjects /\ c.held \in Seq(TheHeld)
      /\ c.last \in TheMarks /\ c.best \in TheMarks
  BY DEF TheCards
<1>2. \A i \in DOMAIN c.held : c.held[i] \in TheHeld
  BY <1>1
<1>3. ASSUME NEW s \in Subjects
      PROVE  c.best[s] \in Scores \cup {-1} /\ c.best[s] \in Int
  <2>1. c.best[s] \in Scores \cup {-1}
    BY <1>1 DEF TheMarks
  <2> QED BY <2>1, ScoresAreNumbers
<1> QED BY <1>1, <1>2, <1>3

(* One more paper is held.                                                 *)
LEMMA Holds ==
  ASSUME NEW c \in TheCards, NEW h \in TheHeld
  PROVE  LET d == HoldExam(c, h.subject, h.score, h.period) IN
         /\ d \in TheCards /\ d.key = c.key /\ d.sat = c.sat /\ d.best = c.best
         /\ d.held = Append(c.held, h)
<1> DEFINE held == Append(c.held, h)
           d == [c EXCEPT !.held = held]
<1>1. h = [subject |-> h.subject, score |-> h.score, period |-> h.period]
  BY DEF TheHeld
<1>2. held \in Seq(TheHeld)
  BY CardFields, Appended
<1>3. HoldExam(c, h.subject, h.score, h.period) = d
  BY <1>1 DEF HoldExam
<1> HIDE DEF held
<1>4. d \in TheCards /\ d.key = c.key /\ d.sat = c.sat /\ d.best = c.best /\ d.held = held
  BY <1>2 DEF TheCards
<1> QED BY <1>3, <1>4 DEF held

(* One more result is filed.                                               *)
LEMMA Records ==
  ASSUME NEW c \in TheCards, NEW subject \in Subjects, NEW score \in Scores
  PROVE  LET d == RecordExam(c, subject, score) IN
         /\ d \in TheCards /\ d.key = c.key /\ d.sat = c.sat /\ d.held = c.held
         /\ d.best[subject] >= score
         /\ \A s \in Subjects : /\ d.best[s] >= c.best[s]
                                /\ d.best[s] = c.best[s] \/ (s = subject /\ d.best[s] = score)
<1> DEFINE top == IF score > c.best[subject] THEN score ELSE c.best[subject]
           best == [c.best EXCEPT ![subject] = top]
           last == [c.last EXCEPT ![subject] = score]
           d == [c EXCEPT !.last = last, !.best = best]
<1>1. c.best \in TheMarks /\ c.last \in TheMarks /\ \A s \in Subjects : c.best[s] \in Int /\ c.best[s] \in Scores \cup {-1}
  BY CardFields
<1>2. /\ top \in Scores \cup {-1} /\ top >= score /\ top >= c.best[subject]
      /\ top = c.best[subject] \/ top = score
  BY <1>1, ScoresAreNumbers
<1>3. RecordExam(c, subject, score) = d
  BY <1>1 DEF RecordExam, TheCards
<1> HIDE DEF top
<1>4. /\ best \in TheMarks /\ last \in TheMarks /\ best[subject] = top
      /\ \A s \in Subjects \ {subject} : best[s] = c.best[s]
  BY <1>1, <1>2 DEF TheMarks
<1> HIDE DEF best, last
<1>5. /\ d \in TheCards /\ d.key = c.key /\ d.sat = c.sat /\ d.held = c.held /\ d.best = best
  BY <1>4 DEF TheCards
<1> HIDE DEF d
<1>6. \A s \in Subjects : /\ d.best[s] >= c.best[s]
                          /\ d.best[s] = c.best[s] \/ (s = subject /\ d.best[s] = score)
  BY <1>1, <1>2, <1>4, <1>5
<1> QED BY <1>2, <1>3, <1>4, <1>5, <1>6

(* What a pass over the first n papers makes of a card.                    *)
Carries(c, h) == \E i \in DOMAIN c.held : c.held[i] = h
Passed(c, d, n) ==
  /\ d \in TheCards /\ d.key = c.key /\ d.sat = c.sat
  /\ \A i \in DOMAIN d.held : \E j \in 1..n : d.held[i] = c.held[j]
  /\ \A s \in Subjects :
       /\ d.best[s] >= c.best[s]
       /\ \/ d.best[s] = c.best[s]
          \/ \E j \in 1..n : /\ PeriodOver(c.held[j].period) /\ c.held[j].subject = s
                             /\ c.held[j].score = d.best[s]
  /\ \A j \in 1..n : d.best[c.held[j].subject] >= c.held[j].score \/ Carries(d, c.held[j])

LEMMA PassStarts ==
  ASSUME NEW c \in TheCards
  PROVE  Passed(c, [c EXCEPT !.held = <<>>], 0)
<1> DEFINE d == [c EXCEPT !.held = <<>>]
<1>0. <<>> \in Seq(TheHeld)
  OBVIOUS
<1>1. d \in TheCards /\ d.key = c.key /\ d.sat = c.sat /\ d.best = c.best /\ d.held = <<>>
  BY <1>0 DEF TheCards
<1>2. DOMAIN d.held = {}
  BY <1>1
<1> HIDE DEF d
<1>3. \A s \in Subjects : d.best[s] >= c.best[s] /\ d.best[s] = c.best[s]
  BY <1>1, CardFields
<1>4. 1..0 = {}
  OBVIOUS
<1> QED BY <1>1, <1>2, <1>3, <1>4 DEF Passed, d

LEMMA PassGoesOn ==
  ASSUME NEW c \in TheCards, NEW d, NEW n \in Nat, n + 1 \in DOMAIN c.held, Passed(c, d, n)
  PROVE  Passed(c, FileOrKeep(d, c.held[n + 1]), n + 1)
<1> DEFINE h == c.held[n + 1]
           e == FileOrKeep(d, h)
<1>1. h \in TheHeld /\ h.subject \in Subjects /\ h.score \in Scores /\ h.score \in Int
  <2>1. h \in TheHeld
    BY CardFields
  <2> HIDE DEF h
  <2>2. h.subject \in Subjects /\ h.score \in Scores
    BY <2>1 DEF TheHeld
  <2> QED BY <2>1, <2>2, ScoresAreNumbers
<1>2. /\ d \in TheCards /\ d.key = c.key /\ d.sat = c.sat
      /\ \A i \in DOMAIN d.held : \E j \in 1..n : d.held[i] = c.held[j]
      /\ \A s \in Subjects : d.best[s] >= c.best[s]
      /\ \A s \in Subjects :
           \/ d.best[s] = c.best[s]
           \/ \E j \in 1..n : /\ PeriodOver(c.held[j].period) /\ c.held[j].subject = s
                              /\ c.held[j].score = d.best[s]
      /\ \A j \in 1..n : d.best[c.held[j].subject] >= c.held[j].score \/ Carries(d, c.held[j])
  BY DEF Passed
<1>3. /\ \A j \in 1..n : j \in 1..(n + 1)
      /\ n + 1 \in 1..(n + 1) /\ \A j \in 1..(n + 1) : j \in 1..n \/ j = n + 1
  OBVIOUS
<1>4. \A s \in Subjects : d.best[s] \in Int /\ c.best[s] \in Int
  BY <1>2, CardFields
<1>5. \A j \in 1..n : c.held[j].subject \in Subjects /\ c.held[j].score \in Int
  <2>1. \A j \in 1..n : j \in DOMAIN c.held
    <3>1. c.held \in Seq(TheHeld)
      BY CardFields
    <3> QED BY <3>1
  <2>2. \A j \in 1..n : c.held[j] \in TheHeld
    BY <2>1, CardFields
  <2>3. \A x \in TheHeld : x.subject \in Subjects /\ x.score \in Scores
    BY DEF TheHeld
  <2> QED BY <2>2, <2>3, ScoresAreNumbers
<1>6. CASE PeriodOver(h.period)
  <2>1. e = RecordExam(d, h.subject, h.score)
    BY <1>6 DEF FileOrKeep
  <2>2. /\ e \in TheCards /\ e.key = d.key /\ e.sat = d.sat /\ e.held = d.held
        /\ e.best[h.subject] >= h.score
    BY <1>1, <1>2, <2>1, Records
  <2>3. \A s \in Subjects : /\ e.best[s] >= d.best[s]
                            /\ e.best[s] = d.best[s] \/ (s = h.subject /\ e.best[s] = h.score)
    BY <1>1, <1>2, <2>1, Records
  <2>4. \A s \in Subjects : e.best[s] \in Int
    BY <2>2, CardFields
  <2> HIDE DEF e
  <2>5. \A i \in DOMAIN e.held : \E j \in 1..(n + 1) : e.held[i] = c.held[j]
    BY <1>2, <1>3, <2>2
  <2>6. ASSUME NEW s \in Subjects
        PROVE  /\ e.best[s] >= c.best[s]
               /\ \/ e.best[s] = c.best[s]
                  \/ \E j \in 1..(n + 1) : /\ PeriodOver(c.held[j].period) /\ c.held[j].subject = s
                                           /\ c.held[j].score = e.best[s]
    <3>1. e.best[s] >= c.best[s]
      BY <1>2, <1>4, <2>3, <2>4
    <3>2. CASE e.best[s] = d.best[s]
      <4> QED BY <1>2, <1>3, <3>1, <3>2
    <3>3. CASE s = h.subject /\ e.best[s] = h.score
      BY <1>3, <1>6, <3>1, <3>3
    <3> QED BY <2>3, <3>2, <3>3
  <2>7. ASSUME NEW j \in 1..(n + 1)
        PROVE  e.best[c.held[j].subject] >= c.held[j].score \/ Carries(e, c.held[j])
    <3>1. CASE j = n + 1
      BY <2>2, <3>1
    <3>2. CASE j \in 1..n
      <4>1. d.best[c.held[j].subject] >= c.held[j].score \/ Carries(d, c.held[j])
        BY <1>2, <3>2
      <4>2. e.best[c.held[j].subject] >= d.best[c.held[j].subject]
        BY <1>5, <2>3, <3>2
      <4>3. Carries(d, c.held[j]) => Carries(e, c.held[j])
        BY <2>2 DEF Carries
      <4>4. /\ e.best[c.held[j].subject] \in Int /\ d.best[c.held[j].subject] \in Int
            /\ c.held[j].score \in Int
        BY <1>4, <1>5, <2>4, <3>2
      <4> QED BY <4>1, <4>2, <4>3, <4>4
    <3> QED BY <1>3, <3>1, <3>2
  <2> QED BY <1>2, <2>2, <2>5, <2>6, <2>7 DEF Passed, e
<1>7. CASE ~ PeriodOver(h.period)
  <2>1. e = HoldExam(d, h.subject, h.score, h.period)
    BY <1>7 DEF FileOrKeep
  <2> HIDE DEF h
  <2>2. /\ e \in TheCards /\ e.key = d.key /\ e.sat = d.sat /\ e.best = d.best
        /\ e.held = Append(d.held, h)
    <3> DEFINE f == HoldExam(d, h.subject, h.score, h.period)
    <3>1. /\ f \in TheCards /\ f.key = d.key /\ f.sat = d.sat /\ f.best = d.best
          /\ f.held = Append(d.held, h)
      BY <1>1, <1>2, Holds
    <3> QED BY <2>1, <3>1
  <2>3. d.held \in Seq(TheHeld)
    BY <1>2, CardFields
  <2>4. /\ DOMAIN e.held = DOMAIN d.held \cup {Len(d.held) + 1}
        /\ e.held[Len(d.held) + 1] = h /\ \A i \in DOMAIN d.held : e.held[i] = d.held[i]
    BY <1>1, <2>2, <2>3, Appended
  <2> HIDE DEF e
  <2>5. \A i \in DOMAIN e.held : \E j \in 1..(n + 1) : e.held[i] = c.held[j]
    BY <1>2, <1>3, <2>4 DEF h
  <2>6. \A x : Carries(d, x) => Carries(e, x)
    BY <2>4 DEF Carries
  <2>7. Carries(e, h)
    BY <2>4 DEF Carries
  <2>8. ASSUME NEW s \in Subjects
        PROVE  /\ e.best[s] >= c.best[s]
               /\ \/ e.best[s] = c.best[s]
                  \/ \E j \in 1..(n + 1) : /\ PeriodOver(c.held[j].period) /\ c.held[j].subject = s
                                           /\ c.held[j].score = e.best[s]
    BY <1>2, <1>3, <2>2
  <2>9. \A j \in 1..(n + 1) : e.best[c.held[j].subject] >= c.held[j].score \/ Carries(e, c.held[j])
    BY <1>2, <1>3, <2>2, <2>6, <2>7 DEF h
  <2> QED BY <1>2, <2>2, <2>5, <2>8, <2>9 DEF Passed, e, h
<1> QED BY <1>6, <1>7
(* A set of numbers has a least.                                         *)
LEMMA Least ==
  ASSUME NEW S \in SUBSET Nat, S # {}
  PROVE  \E n \in S : \A m \in S : n <= m
<1> DEFINE R == {pair \in Nat \X Nat : pair[1] < pair[2]}
<1>1. IsWellFoundedOn(R, Nat)
  BY NatLessThanWellFounded DEF OpToRel
<1>2. \A a, b \in Nat : a < b => <<a, b>> \in R
  OBVIOUS
<1> HIDE DEF R
<1>3. PICK n \in S : \A m \in S : ~ (<<m, n>> \in R)
  BY <1>1, WFMin
<1>4. \A m \in S : ~ (m < n)
  BY <1>2, <1>3
<1> QED BY <1>4

(* The recursion of a pass: there is a function that computes it.          *)
AsFarAs(c, f, m) ==
  f = [i \in 0..m |-> IF i = 0 THEN [c EXCEPT !.held = <<>>] ELSE FileOrKeep(f[i-1], c.held[i])]

LEMMA PassExists ==
  ASSUME NEW c, NEW n \in Nat
  PROVE  \E f : AsFarAs(c, f, n)
<1> DEFINE S == {m \in Nat : \A f : ~ AsFarAs(c, f, m)}
<1>1. CASE S = {}
  BY <1>1
<1>2. CASE S # {}
  <2>1. S \in SUBSET Nat
    OBVIOUS
  <2>2. PICK m \in S : \A k \in S : m <= k
    BY <1>2, <2>1, Least
  <2>3. m # 0
    <3> DEFINE f == [i \in 0..0 |-> [c EXCEPT !.held = <<>>]]
    <3>1. f = [i \in 0..0 |-> IF i = 0 THEN [c EXCEPT !.held = <<>>] ELSE FileOrKeep(f[i-1], c.held[i])]
      <4>1. \A i \in 0..0 : i = 0
        OBVIOUS
      <4> QED BY <4>1
    <3> HIDE DEF f
    <3>2. AsFarAs(c, f, 0)
      BY <3>1 DEF AsFarAs
    <3> QED BY <3>2
  <2>4. m - 1 \in Nat /\ m \in Nat /\ m - 1 \notin S
    BY <2>2, <2>3
  <2>5. PICK f : AsFarAs(c, f, m - 1)
    BY <2>4
  <2> DEFINE g == [i \in 0..m |-> IF i = m THEN FileOrKeep(f[m-1], c.held[m]) ELSE f[i]]
  <2>6. ASSUME NEW i \in 0..m
        PROVE  g[i] = IF i = 0 THEN [c EXCEPT !.held = <<>>] ELSE FileOrKeep(g[i-1], c.held[i])
    <3>1. CASE i = m
      <4>1. g[i] = FileOrKeep(f[m-1], c.held[m]) /\ g[m-1] = f[m-1]
        BY <2>4, <3>1
      <4> HIDE DEF g
      <4> QED BY <2>3, <3>1, <4>1
    <3>2. CASE i # m
      <4>1. i \in 0..(m-1) /\ (i # 0 => i - 1 \in 0..m /\ i - 1 # m)
        BY <2>4, <3>2
      <4>2. g[i] = f[i] /\ (i # 0 => g[i-1] = f[i-1])
        BY <3>2, <4>1
      <4> HIDE DEF g
      <4>3. f[i] = IF i = 0 THEN [c EXCEPT !.held = <<>>] ELSE FileOrKeep(f[i-1], c.held[i])
        BY <2>5, <4>1 DEF AsFarAs
      <4> QED BY <4>2, <4>3
    <3> QED BY <3>1, <3>2
  <2>7. g = [i \in 0..m |-> g[i]]
    OBVIOUS
  <2> HIDE DEF g
  <2>8. AsFarAs(c, g, m)
    BY <2>6, <2>7 DEF AsFarAs
  <2> QED BY <2>2, <2>8
<1> QED BY <1>1, <1>2

LEMMA ReleaseIsAPass ==
  ASSUME NEW c \in TheCards
  PROVE  Passed(c, ReleaseDue(c), Len(c.held))
<1> DEFINE n == Len(c.held)
<1>1. c.held \in Seq(TheHeld) /\ n \in Nat /\ DOMAIN c.held = 1..n
  BY CardFields
<1>2. PICK f : f = CHOOSE g : AsFarAs(c, g, n)
  OBVIOUS
<1>3. AsFarAs(c, f, n)
  BY <1>1, <1>2, PassExists
<1>4. ReleaseDue(c) = f[n]
  BY <1>2 DEF ReleaseDue, AsFarAs
<1> DEFINE S == {m \in 0..n : ~ Passed(c, f[m], m)}
<1>5. S = {}
  <2> SUFFICES ASSUME S # {}
               PROVE  FALSE
    OBVIOUS
  <2>1. S \in SUBSET Nat
    BY <1>1
  <2>2. PICK m \in S : \A k \in S : m <= k
    BY <2>1, Least
  <2>3. m # 0
    <3>1. f[0] = [c EXCEPT !.held = <<>>]
      BY <1>1, <1>3 DEF AsFarAs
    <3> QED BY <2>2, <3>1, PassStarts
  <2>4. m - 1 \in Nat /\ m - 1 \in 0..n /\ (m - 1) + 1 = m /\ m \in 1..n /\ m - 1 \notin S
    BY <1>1, <2>2, <2>3
  <2>5. f[m] = FileOrKeep(f[m-1], c.held[m])
    BY <1>1, <1>3, <2>3, <2>4 DEF AsFarAs
  <2>6. Passed(c, f[m-1], m - 1)
    BY <2>4
  <2>7. Passed(c, FileOrKeep(f[m-1], c.held[(m - 1) + 1]), (m - 1) + 1)
    BY <1>1, <2>4, <2>6, PassGoesOn
  <2> QED BY <2>2, <2>4, <2>5, <2>7
<1> QED BY <1>1, <1>4, <1>5

-----------------------------------------------------------------------------
(* Exams: one student's papers.  `now` is the period in session, `turn` the*)
(* last one there was.                                                     *)
TheSittings == [begun : 1..MaxPeriod, subject : Subjects, score : Scores]
ThePeriods == [key : Keys, sat : SUBSET Subjects]
NoPeriod == [key |-> NoKey, sat |-> {}]
Turn == (days + 1) \div 2

(* A result on the card, or waiting there, was handed in; on the card, in  *)
(* a period that is over.                                                  *)
Backed(hs, h, now) ==
  \E i \in DOMAIN hs :
    /\ hs[i].subject = h.subject /\ hs[i].score = h.score
    /\ hs[i].begun = h.period \/ (h.period = Manual /\ hs[i].begun # now)
OnRecord(hs, s, score, now) ==
  \E i \in DOMAIN hs : hs[i].subject = s /\ hs[i].score = score /\ hs[i].begun # now
Backs(hs, c, now) ==
  /\ \A i \in DOMAIN c.held : Backed(hs, c.held[i], now)
  /\ \A s \in Subjects : c.best[s] >= 0 => OnRecord(hs, s, c.best[s], now)

(* Whatever was handed in in this period is marked as sat.                 *)
Marked(hs, key, sat, now) ==
  \A i \in DOMAIN hs : hs[i].begun = now => key = now /\ hs[i].subject \in sat

(* Nothing was handed in of a period and a subject yet.                    *)
Unsat(hs, key, subject) ==
  \A i \in DOMAIN hs : hs[i].begun # key \/ hs[i].subject # subject
Fresh(hs, key, subject, now, turn) ==
  /\ key \in 1..turn /\ subject \in Subjects /\ now \in {key, NoKey} /\ Unsat(hs, key, subject)
Once(hs) ==
  \A i, j \in DOMAIN hs : i # j => hs[i].begun # hs[j].begun \/ hs[i].subject # hs[j].subject

StudentOK(c, hs, pe, pa, be, here, now, turn) ==
  /\ c \in TheCards /\ hs \in Seq(TheSittings) /\ pe \in ThePeriods
  /\ \A i \in DOMAIN hs : hs[i].begun <= turn
  /\ Backs(hs, c, now) /\ Marked(hs, c.key, c.sat, now) /\ Once(hs)
  /\ here => Marked(hs, pe.key, pe.sat, now)
  /\ pa # NoPaper => here /\ be = NoBell /\ Fresh(hs, pa.begun, pa.subject, now, turn)
  /\ be # NoBell => here /\ Fresh(hs, be.during, be.subject, now, turn)

(* The ranking: what it shows of somebody is on the card, or held there.   *)
TheResults == [period : Keys \ {NoKey}, who : Players, subject : Subjects, score : Scores]
Shown(c, e) ==
  \/ c.best[e.subject] >= e.score
  \/ Carries(c, [subject |-> e.subject, score |-> e.score, period |-> e.period])
ShowsMore(c, d) == \A e \in TheResults : Shown(c, e) => Shown(d, e)

LEMMA HeldOf ==
  ASSUME NEW h \in TheHeld
  PROVE  h = [subject |-> h.subject, score |-> h.score, period |-> h.period]
BY DEF TheHeld

(* Filing what is due keeps all of it.                                     *)
LEMMA ReleaseKeeps ==
  ASSUME NEW c \in TheCards
  PROVE  LET d == ReleaseDue(c) IN
         d \in TheCards /\ d.key = c.key /\ d.sat = c.sat
BY ReleaseIsAPass DEF Passed

LEMMA ReleaseShows ==
  ASSUME NEW c \in TheCards
  PROVE  ShowsMore(c, ReleaseDue(c))
<1> DEFINE d == ReleaseDue(c)
<1>1. Passed(c, d, Len(c.held))
  BY ReleaseIsAPass
<1> HIDE DEF d
<1>2. c.held \in Seq(TheHeld) /\ DOMAIN c.held = 1..Len(c.held)
  BY CardFields
<1>3. ASSUME NEW e \in TheResults, Shown(c, e)
      PROVE  Shown(d, e)
  <2> DEFINE h == [subject |-> e.subject, score |-> e.score, period |-> e.period]
  <2>1. e.subject \in Subjects /\ e.score \in Int
    <3>1. e.subject \in Subjects /\ e.score \in Scores
      BY DEF TheResults
    <3> QED BY <3>1, ScoresAreNumbers
  <2>2. d.best[e.subject] >= c.best[e.subject] /\ d.best[e.subject] \in Int /\ c.best[e.subject] \in Int
    <3>1. d \in TheCards
      BY <1>1 DEF Passed
    <3> QED BY <1>1, <2>1, <3>1, CardFields DEF Passed
  <2>3. CASE c.best[e.subject] >= e.score
    BY <2>1, <2>2, <2>3 DEF Shown
  <2>4. ASSUME NEW j \in DOMAIN c.held, c.held[j] = h
        PROVE  Shown(d, e)
    <3>1. d.best[c.held[j].subject] >= c.held[j].score \/ Carries(d, c.held[j])
      BY <1>1, <1>2 DEF Passed
    <3> QED BY <2>4, <3>1 DEF Shown
  <2> QED BY <1>3, <2>3, <2>4 DEF Shown, Carries
<1> QED BY <1>3 DEF ShowsMore, d

LEMMA ReleaseBacks ==
  ASSUME NEW c \in TheCards, NEW hs \in Seq(TheSittings), Backs(hs, c, Current), Current \in Keys
  PROVE  Backs(hs, ReleaseDue(c), Current)
<1> DEFINE d == ReleaseDue(c)
           n == Len(c.held)
<1>1. Passed(c, d, n)
  BY ReleaseIsAPass
<1> HIDE DEF d
<1>2. c.held \in Seq(TheHeld) /\ DOMAIN c.held = 1..n
  BY CardFields
<1> HIDE DEF n
<1>3. \A i \in DOMAIN d.held : Backed(hs, d.held[i], Current)
  BY <1>1, <1>2 DEF Passed, Backs
<1>4. ASSUME NEW s \in Subjects, d.best[s] >= 0
      PROVE  OnRecord(hs, s, d.best[s], Current)
  <2>1. CASE d.best[s] = c.best[s]
    BY <1>4, <2>1 DEF Backs
  <2>2. ASSUME NEW j \in 1..n, PeriodOver(c.held[j].period), c.held[j].subject = s,
               c.held[j].score = d.best[s]
        PROVE  OnRecord(hs, s, d.best[s], Current)
    <3>1. Backed(hs, c.held[j], Current)
      BY <1>2 DEF Backs
    <3>2. PICK i \in DOMAIN hs : /\ hs[i].subject = s /\ hs[i].score = d.best[s]
                                 /\ \/ hs[i].begun = c.held[j].period
                                    \/ c.held[j].period = Manual /\ hs[i].begun # Current
      BY <2>2, <3>1 DEF Backed
    <3>3. hs[i].begun \in 1..MaxPeriod
      <4>1. hs[i] \in TheSittings
        OBVIOUS
      <4> QED BY <4>1 DEF TheSittings
    <3>4. hs[i].begun # Current
      BY <2>2, <3>2, <3>3 DEF PeriodOver, Manual
    <3> QED BY <3>2, <3>4 DEF OnRecord
  <2> QED BY <1>1, <2>1, <2>2 DEF Passed
<1> QED BY <1>3, <1>4 DEF Backs, d

LEMMA ReleaseFits ==
  ASSUME NEW c, NEW hs, NEW pe, NEW pa, NEW be, NEW here, NEW turn, Current \in Keys,
         StudentOK(c, hs, pe, pa, be, here, Current, turn)
  PROVE  StudentOK(ReleaseDue(c), hs, pe, pa, be, here, Current, turn)
<1>1. /\ c \in TheCards /\ hs \in Seq(TheSittings) /\ Backs(hs, c, Current)
      /\ Marked(hs, c.key, c.sat, Current)
  BY DEF StudentOK
<1>2. Backs(hs, ReleaseDue(c), Current)
  BY <1>1, ReleaseBacks
<1>3. ReleaseDue(c) \in TheCards
  BY <1>1, ReleaseKeeps
<1>4. Marked(hs, ReleaseDue(c).key, ReleaseDue(c).sat, Current)
  BY <1>1, ReleaseKeeps
<1> QED BY <1>2, <1>3, <1>4 DEF StudentOK

LEMMA NoPeriodFits == NoPeriod \in ThePeriods
<1>1. NoKey \in Keys
  BY ExamsAssumption DEF Keys, NoKey
<1> QED BY <1>1 DEF NoPeriod, ThePeriods

(* Somebody who goes leaves everything on paper behind, and nothing else.  *)
LEMMA Drops ==
  ASSUME NEW c, NEW hs, NEW pe, NEW pa, NEW be, NEW here, NEW now, NEW turn,
         StudentOK(c, hs, pe, pa, be, here, now, turn)
  PROVE  StudentOK(c, hs, NoPeriod, NoPaper, NoBell, FALSE, now, turn)
<1>1. NoPeriod \in ThePeriods
  BY NoPeriodFits
<1> QED BY <1>1 DEF StudentOK

(* Somebody who comes takes over what their card says.                     *)
LEMMA TakesSeat ==
  ASSUME NEW c, NEW hs, NEW pe, NEW turn, Current \in Keys,
         StudentOK(c, hs, pe, NoPaper, NoBell, FALSE, Current, turn)
  PROVE  StudentOK(c, hs, SeatOf(c), NoPaper, NoBell, TRUE, Current, turn)
<1>1. c \in TheCards /\ Marked(hs, c.key, c.sat, Current) /\ hs \in Seq(TheSittings)
  BY DEF StudentOK
<1>2. c.key \in Keys /\ c.sat \in SUBSET Subjects
  BY <1>1, CardFields
<1>3. CASE c.key = Current /\ Current # NoKey
  <2>1. SeatOf(c) = [key |-> c.key, sat |-> c.sat]
    BY <1>3 DEF SeatOf
  <2>2. SeatOf(c) \in ThePeriods /\ SeatOf(c).key = c.key /\ SeatOf(c).sat = c.sat
    BY <1>2, <2>1 DEF ThePeriods
  <2>3. Marked(hs, SeatOf(c).key, SeatOf(c).sat, Current)
    BY <1>1, <2>2
  <2> QED BY <2>2, <2>3 DEF StudentOK
<1>4. CASE ~ (c.key = Current /\ Current # NoKey)
  <2>1. SeatOf(c) = NoPeriod
    BY <1>4 DEF SeatOf, NoPeriod
  <2>2. NoPeriod \in ThePeriods
    BY NoPeriodFits
  <2>3. \A i \in DOMAIN hs : hs[i].begun # Current
    <3>1. ASSUME NEW i \in DOMAIN hs
          PROVE  hs[i].begun \in 1..MaxPeriod
      <4>1. hs[i] \in TheSittings
        BY <1>1
      <4> QED BY <4>1 DEF TheSittings
    <3>2. \A i \in DOMAIN hs : hs[i].begun = Current => c.key = Current
      BY <1>1 DEF Marked
    <3> QED BY <1>4, <3>1, <3>2 DEF NoKey
  <2>4. Marked(hs, SeatOf(c).key, SeatOf(c).sat, Current)
    BY <2>3 DEF Marked
  <2> QED BY <2>1, <2>2, <2>4 DEF StudentOK
<1> QED BY <1>3, <1>4

(* The bell of a subject that was not sat rings.                           *)
LEMMA RingsFor ==
  ASSUME NEW c, NEW hs, NEW pe, NEW s \in Subjects, NEW now, NEW turn, now \in 1..turn,
         StudentOK(c, hs, pe, NoPaper, NoBell, TRUE, now, turn), ~ (pe.key = now /\ s \in pe.sat)
  PROVE  StudentOK(c, hs, pe, NoPaper, [subject |-> s, during |-> now], TRUE, now, turn)
<1> DEFINE b == [subject |-> s, during |-> now]
<1>1. b.subject = s /\ b.during = now
  OBVIOUS
<1> HIDE DEF b
<1>2. Unsat(hs, now, s)
  BY DEF StudentOK, Marked, Unsat
<1>3. Fresh(hs, b.during, b.subject, now, turn)
  BY <1>1, <1>2 DEF Fresh
<1> QED BY <1>3 DEF StudentOK, b

(* The paper of the bell is laid out, or the bell has rung in vain.        *)
LEMMA SitsDown ==
  ASSUME NEW c, NEW hs, NEW pe, NEW pa, NEW be, NEW now, NEW turn, be # NoBell,
         StudentOK(c, hs, pe, pa, be, TRUE, now, turn)
  PROVE  /\ StudentOK(c, hs, pe, [subject |-> be.subject, begun |-> be.during], NoBell, TRUE, now, turn)
         /\ StudentOK(c, hs, pe, pa, NoBell, TRUE, now, turn)
<1> DEFINE a == [subject |-> be.subject, begun |-> be.during]
<1>1. a.subject = be.subject /\ a.begun = be.during
  OBVIOUS
<1> HIDE DEF a
<1>2. StudentOK(c, hs, pe, a, NoBell, TRUE, now, turn)
  BY <1>1 DEF StudentOK
<1>3. StudentOK(c, hs, pe, pa, NoBell, TRUE, now, turn)
  BY DEF StudentOK
<1> QED BY <1>2, <1>3 DEF a

(* A sitting more in the history.                                          *)
LEMMA HistoryGrows ==
  ASSUME NEW hs \in Seq(TheSittings), NEW h \in TheSittings, NEW now, NEW turn,
         \A i \in DOMAIN hs : hs[i].begun <= turn, h.begun <= turn,
         Once(hs), Unsat(hs, h.begun, h.subject)
  PROVE  LET gs == Append(hs, h) IN
         /\ gs \in Seq(TheSittings) /\ (\A i \in DOMAIN gs : gs[i].begun <= turn) /\ Once(gs)
         /\ \A c : Backs(hs, c, now) => Backs(gs, c, now)
         /\ \A key, sat : Marked(hs, key, sat, now) /\ (h.begun = now => key = now /\ h.subject \in sat)
                            => Marked(gs, key, sat, now)
         /\ \E i \in DOMAIN gs : gs[i] = h
<1> DEFINE gs == Append(hs, h)
           n == Len(hs) + 1
<1>1. /\ gs \in Seq(TheSittings) /\ DOMAIN gs = DOMAIN hs \cup {n} /\ n \notin DOMAIN hs
      /\ gs[n] = h /\ \A i \in DOMAIN hs : gs[i] = hs[i]
  BY Appended
<1> HIDE DEF gs, n
<1>2. \A i \in DOMAIN gs : gs[i].begun <= turn
  BY <1>1
<1>3. Once(gs)
  BY <1>1 DEF Once, Unsat
<1>4. ASSUME NEW c, Backs(hs, c, now)
      PROVE  Backs(gs, c, now)
  <2>1. \A x : Backed(hs, x, now) => Backed(gs, x, now)
    BY <1>1 DEF Backed
  <2>2. \A s, score : OnRecord(hs, s, score, now) => OnRecord(gs, s, score, now)
    BY <1>1 DEF OnRecord
  <2> QED BY <1>4, <2>1, <2>2 DEF Backs
<1>5. \A key, sat : Marked(hs, key, sat, now) /\ (h.begun = now => key = now /\ h.subject \in sat)
                      => Marked(gs, key, sat, now)
  BY <1>1 DEF Marked
<1> QED BY <1>1, <1>2, <1>3, <1>4, <1>5 DEF gs

(* What a card is written with when a paper is handed in.                  *)
Noted(c, key, sat) == [c EXCEPT !.key = key, !.sat = sat]

LEMMA NotedFields ==
  ASSUME NEW c \in TheCards, NEW key \in Keys, NEW sat \in SUBSET Subjects
  PROVE  LET d == Noted(c, key, sat) IN
         d \in TheCards /\ d.key = key /\ d.sat = sat /\ d.held = c.held /\ d.best = c.best
<1> DEFINE d == Noted(c, key, sat)
<1>1. d \in TheCards
  BY DEF Noted, TheCards
<1>2. d.key = key /\ d.sat = sat /\ d.held = c.held /\ d.best = c.best
  BY DEF Noted, TheCards
<1> QED BY <1>1, <1>2

LEMMA SitFields ==
  ASSUME NEW pe \in ThePeriods, NEW s \in Subjects, Current \in Keys
  PROVE  LET new == Sit(pe, s) IN
         /\ new \in ThePeriods /\ new.key = Current /\ s \in new.sat
         /\ pe.key = Current => pe.sat \subseteq new.sat
<1> DEFINE sat == IF pe.key = Current THEN pe.sat \cup {s} ELSE {s}
<1>1. pe.key \in Keys /\ pe.sat \in SUBSET Subjects
  BY DEF ThePeriods
<1>2. sat \in SUBSET Subjects /\ s \in sat /\ (pe.key = Current => pe.sat \subseteq sat)
  BY <1>1
<1>3. Sit(pe, s) = [key |-> Current, sat |-> sat]
  BY DEF Sit
<1> HIDE DEF sat
<1> QED BY <1>2, <1>3 DEF ThePeriods

(* A paper is handed in: the card is written twice, then filed from.       *)
LEMMA HandsIn ==
  ASSUME NEW c, NEW hs, NEW pe, NEW pa, NEW be, NEW turn, NEW score \in Scores,
         StudentOK(c, hs, pe, pa, be, TRUE, Current, turn), pa # NoPaper, Current \in Keys \ {Manual},
         turn \in 0..MaxPeriod
  PROVE  LET sitting == Sit(pe, pa.subject)
             gs == Append(hs, [begun |-> pa.begun, subject |-> pa.subject, score |-> score])
             w1 == Noted(ReleaseDue(c), sitting.key, sitting.sat)
             key == IF sitting.key = NoKey THEN Manual ELSE sitting.key
             w2 == HoldExam(w1, pa.subject, score, key)
         IN /\ StudentOK(w1, gs, sitting, NoPaper, NoBell, TRUE, Current, turn)
            /\ StudentOK(w2, gs, sitting, NoPaper, NoBell, TRUE, Current, turn)
            /\ ShowsMore(c, w1) /\ ShowsMore(c, w2) /\ w1 \in TheCards /\ w2 \in TheCards
            /\ key \in Keys \ {NoKey}
            /\ Carries(w2, [subject |-> pa.subject, score |-> score, period |-> key])
<1> DEFINE sitting == Sit(pe, pa.subject)
           h == [begun |-> pa.begun, subject |-> pa.subject, score |-> score]
           gs == Append(hs, h)
           c0 == ReleaseDue(c)
           w1 == Noted(c0, sitting.key, sitting.sat)
           key == IF sitting.key = NoKey THEN Manual ELSE sitting.key
           held == [subject |-> pa.subject, score |-> score, period |-> key]
           w2 == HoldExam(w1, pa.subject, score, key)
<1>1. /\ c \in TheCards /\ pe \in ThePeriods /\ be = NoBell /\ hs \in Seq(TheSittings)
      /\ Fresh(hs, pa.begun, pa.subject, Current, turn) /\ Marked(hs, pe.key, pe.sat, Current)
      /\ Once(hs) /\ \A i \in DOMAIN hs : hs[i].begun <= turn
  BY DEF StudentOK
<1>2. /\ pa.begun \in 1..turn /\ pa.begun \in 1..MaxPeriod /\ pa.subject \in Subjects /\ pa.begun <= turn
      /\ Current \in {pa.begun, NoKey} /\ Unsat(hs, pa.begun, pa.subject)
  <2>1. /\ pa.begun \in 1..turn /\ pa.subject \in Subjects /\ Current \in {pa.begun, NoKey}
        /\ Unsat(hs, pa.begun, pa.subject)
    BY <1>1 DEF Fresh
  <2>2. pa.begun \in 1..MaxPeriod /\ pa.begun <= turn
    BY <2>1, ExamsAssumption
  <2> QED BY <2>1, <2>2
<1>3. StudentOK(c0, hs, pe, pa, be, TRUE, Current, turn) /\ c0 \in TheCards /\ Backs(hs, c0, Current)
  <2>1. StudentOK(c0, hs, pe, pa, be, TRUE, Current, turn)
    BY ReleaseFits
  <2> QED BY <2>1 DEF StudentOK
<1>4. /\ sitting \in ThePeriods /\ sitting.key = Current /\ pa.subject \in sitting.sat
      /\ pe.key = Current => pe.sat \subseteq sitting.sat
  BY <1>1, <1>2, SitFields
<1>5. ShowsMore(c, c0)
  BY <1>1, ReleaseShows
<1> HIDE DEF sitting, c0
<1>6. sitting.key \in Keys /\ sitting.sat \in SUBSET Subjects
  BY <1>4 DEF ThePeriods
<1>7. /\ w1 \in TheCards /\ w1.key = Current /\ w1.sat = sitting.sat
      /\ w1.held = c0.held /\ w1.best = c0.best
  BY <1>3, <1>4, <1>6, NotedFields
<1>8. h \in TheSittings /\ h.begun = pa.begun /\ h.subject = pa.subject /\ h.score = score
  BY <1>2 DEF TheSittings
<1>9. Keys = -1..MaxPeriod /\ Manual = 0 /\ NoKey = -1
  BY DEF Keys, Manual, NoKey
<1>10. /\ key \in Keys /\ key # NoKey /\ (key = Manual => Current = NoKey)
       /\ (key # Manual => key = Current)
  BY <1>4, <1>9, ExamsAssumption
<1>11. held \in TheHeld /\ held.subject = pa.subject /\ held.score = score /\ held.period = key
  BY <1>2, <1>10 DEF TheHeld
<1> HIDE DEF w1, h, key, held
<1>12. w2 \in TheCards /\ w2.key = w1.key /\ w2.sat = w1.sat /\ w2.best = w1.best /\ w2.held = Append(w1.held, held)
  <2> DEFINE x == HoldExam(w1, held.subject, held.score, held.period)
  <2>1. /\ x \in TheCards /\ x.key = w1.key /\ x.sat = w1.sat /\ x.best = w1.best
        /\ x.held = Append(w1.held, held)
    BY <1>7, <1>11, Holds
  <2>2. x = w2
    BY <1>11
  <2> QED BY <2>1, <2>2
<1>13. w1.held \in Seq(TheHeld)
  BY <1>7, CardFields
<1>14. /\ DOMAIN w2.held = DOMAIN w1.held \cup {Len(w1.held) + 1}
       /\ w2.held[Len(w1.held) + 1] = held /\ \A i \in DOMAIN w1.held : w2.held[i] = w1.held[i]
  BY <1>11, <1>12, <1>13, Appended
<1> HIDE DEF w2
<1>15. /\ gs \in Seq(TheSittings) /\ (\A i \in DOMAIN gs : gs[i].begun <= turn) /\ Once(gs)
       /\ (Backs(hs, c0, Current) => Backs(gs, c0, Current))
       /\ (\A k, sat : Marked(hs, k, sat, Current) /\ (h.begun = Current => k = Current /\ h.subject \in sat)
                            => Marked(gs, k, sat, Current))
       /\ \E i \in DOMAIN gs : gs[i] = h
  BY <1>1, <1>2, <1>8, HistoryGrows
<1> HIDE DEF gs
<1>16. Marked(hs, Current, sitting.sat, Current)
  BY <1>1, <1>4 DEF Marked
<1>17. Marked(gs, Current, sitting.sat, Current)
  BY <1>4, <1>8, <1>15, <1>16
<1>18. Backs(gs, w1, Current)
  BY <1>3, <1>7, <1>15 DEF Backs
<1>19. Backed(gs, held, Current)
  <2>1. PICK i \in DOMAIN gs : gs[i] = h
    BY <1>15
  <2>2. gs[i].begun = held.period \/ (held.period = Manual /\ gs[i].begun # Current)
    BY <1>2, <1>8, <1>9, <1>10, <1>11, <2>1
  <2> QED BY <1>8, <1>11, <2>1, <2>2 DEF Backed
<1>20. Backs(gs, w2, Current)
  BY <1>12, <1>14, <1>18, <1>19 DEF Backs
<1>21. StudentOK(w1, gs, sitting, NoPaper, NoBell, TRUE, Current, turn)
  BY <1>4, <1>7, <1>15, <1>17, <1>18 DEF StudentOK
<1>22. StudentOK(w2, gs, sitting, NoPaper, NoBell, TRUE, Current, turn)
  BY <1>4, <1>7, <1>12, <1>15, <1>17, <1>20 DEF StudentOK
<1>23. ShowsMore(c, w1)
  <2>1. \A e : Shown(c0, e) => Shown(w1, e)
    BY <1>7 DEF Shown, Carries
  <2> QED BY <1>5, <2>1 DEF ShowsMore
<1>24. ShowsMore(c, w2)
  <2>1. \A e : Shown(w1, e) => Shown(w2, e)
    BY <1>12, <1>14 DEF Shown, Carries
  <2> QED BY <1>23, <2>1 DEF ShowsMore
<1>25. Carries(w2, held)
  BY <1>14 DEF Carries
<1> QED BY <1>7, <1>10, <1>12, <1>21, <1>22, <1>23, <1>24, <1>25
        DEF sitting, gs, w1, w2, key, held, h, c0

(* The calendar goes on.                                                   *)
LEMMA Calendar ==
  ASSUME days \in 0..2 * MaxPeriod
  PROVE  /\ Turn \in 0..MaxPeriod /\ Current \in Keys \ {Manual}
         /\ Current # NoKey => Current \in 1..Turn
<1>1. MaxPeriod \in Nat /\ days \in Nat /\ days <= 2 * MaxPeriod
  BY ExamsAssumption
<1>2. Turn \in 0..MaxPeriod
  BY <1>1 DEF Turn
<1>3. CASE days % 2 = 1
  <2>1. Current = Turn /\ Turn >= 1
    BY <1>1, <1>3 DEF Turn, Current
  <2> QED BY <1>1, <1>2, <2>1 DEF Keys, Manual, NoKey
<1>4. CASE days % 2 # 1
  <2>1. Current = NoKey
    BY <1>4 DEF Current
  <2> QED BY <1>1, <1>2, <2>1 DEF Keys, Manual, NoKey
<1> QED BY <1>3, <1>4

LEMMA Later ==
  ASSUME NEW c, NEW hs, NEW pe, NEW pa, NEW be, NEW here, NEW now, NEW turn \in Nat, NEW now2, NEW turn2,
         StudentOK(c, hs, pe, pa, be, here, now, turn),
         \/ turn2 = turn + 1 /\ now2 = turn2 /\ pa = NoPaper /\ be = NoBell
         \/ turn2 = turn /\ now2 = NoKey
  PROVE  StudentOK(c, hs, pe, pa, be, here, now2, turn2)
<1>1. /\ c \in TheCards /\ hs \in Seq(TheSittings) /\ pe \in ThePeriods
      /\ Backs(hs, c, now) /\ Once(hs) /\ \A i \in DOMAIN hs : hs[i].begun <= turn
  BY DEF StudentOK
<1>2. ASSUME NEW i \in DOMAIN hs
      PROVE  hs[i].begun # now2 /\ hs[i].begun <= turn2
  <2>1. hs[i] \in TheSittings
    BY <1>1
  <2>2. hs[i].begun \in 1..MaxPeriod /\ hs[i].begun <= turn
    BY <1>1, <2>1 DEF TheSittings
  <2> QED BY <2>2 DEF NoKey
<1>3. Marked(hs, c.key, c.sat, now2) /\ Marked(hs, pe.key, pe.sat, now2)
  BY <1>2 DEF Marked
<1>4. Backs(hs, c, now2)
  <2>1. \A x : Backed(hs, x, now) => Backed(hs, x, now2)
    BY <1>2 DEF Backed
  <2>2. \A s, score : OnRecord(hs, s, score, now) => OnRecord(hs, s, score, now2)
    BY <1>2 DEF OnRecord
  <2> QED BY <1>1, <2>1, <2>2 DEF Backs
<1>5. pa # NoPaper => here /\ be = NoBell /\ Fresh(hs, pa.begun, pa.subject, now2, turn2)
  BY DEF StudentOK, Fresh
<1>6. be # NoBell => here /\ Fresh(hs, be.during, be.subject, now2, turn2)
  BY DEF StudentOK, Fresh
<1> QED BY <1>1, <1>2, <1>3, <1>4, <1>5, <1>6 DEF StudentOK

(* Everybody's.                                                            *)
ExamsTyped ==
  /\ days \in 0..2 * MaxPeriod /\ first \subseteq Players /\ papers \subseteq TheResults
  /\ card \in [Players -> TheCards] /\ handedIn \in [Players -> Seq(TheSittings)]
  /\ period \in [Players -> ThePeriods] /\ paper = [x \in Players |-> paper[x]]
  /\ bell = [x \in Players |-> bell[x]]
StudentFits(p) ==
  StudentOK(card[p], handedIn[p], period[p], paper[p], bell[p], p \in online, Current, Turn)
RankingTrue == \A e \in papers : Shown(card[e.who], e)
ExamsInv == ExamsTyped /\ (\A p \in Players : StudentFits(p)) /\ RankingTrue

(* One character's step, and nobody else's.                                *)
ExamMoves(p, c, hs, pe, pa, be) ==
  /\ card' = [card EXCEPT ![p] = c] /\ handedIn' = [handedIn EXCEPT ![p] = hs]
  /\ period' = [period EXCEPT ![p] = pe] /\ paper' = [paper EXCEPT ![p] = pa]
  /\ bell' = [bell EXCEPT ![p] = be] /\ days' = days
  /\ \A x \in Players \ {p} : (x \in online') = (x \in online)

LEMMA OneSits ==
  ASSUME ExamsInv, NEW p \in Players, NEW c, NEW hs, NEW pe, NEW pa, NEW be,
         ExamMoves(p, c, hs, pe, pa, be), first' \subseteq Players,
         StudentOK(c, hs, pe, pa, be, p \in online', Current, Turn), ShowsMore(card[p], c),
         papers' \subseteq TheResults, \A e \in papers' : e \in papers \/ (e.who = p /\ Shown(c, e))
  PROVE  ExamsInv'
<1>1. c \in TheCards /\ hs \in Seq(TheSittings) /\ pe \in ThePeriods
  BY DEF StudentOK
<1>2. ExamsTyped'
  <2>1. days' \in 0..2 * MaxPeriod /\ card' \in [Players -> TheCards]
    BY <1>1 DEF ExamsInv, ExamsTyped, ExamMoves
  <2>3. paper' = [x \in Players |-> paper'[x]] /\ bell' = [x \in Players |-> bell'[x]]
    BY DEF ExamsInv, ExamsTyped, ExamMoves
  <2>2. handedIn' \in [Players -> Seq(TheSittings)] /\ period' \in [Players -> ThePeriods]
    BY <1>1 DEF ExamsInv, ExamsTyped, ExamMoves
  <2> QED BY <2>1, <2>2, <2>3 DEF ExamsTyped
<1>3. card'[p] = c /\ handedIn'[p] = hs /\ period'[p] = pe /\ paper'[p] = pa /\ bell'[p] = be
  BY DEF ExamsInv, ExamsTyped, ExamMoves
<1>4. \A x \in Players \ {p} :
        /\ card'[x] = card[x] /\ handedIn'[x] = handedIn[x] /\ period'[x] = period[x]
        /\ paper'[x] = paper[x] /\ bell'[x] = bell[x] /\ (x \in online') = (x \in online)
  BY DEF ExamsInv, ExamsTyped, ExamMoves
<1>5. Current' = Current /\ Turn' = Turn
  BY DEF ExamMoves, Current, Turn
<1>6. ASSUME NEW x \in Players
      PROVE  StudentFits(x)'
  <2>1. CASE x = p
    BY <1>3, <1>5, <2>1, Zenon DEF StudentFits
  <2>2. CASE x # p
    <3>1. StudentFits(x)
      BY DEF ExamsInv
    <3> QED BY <1>4, <1>5, <2>2, <3>1, Zenon DEF StudentFits
  <2> QED BY <2>1, <2>2
<1>7. ASSUME NEW e \in papers'
      PROVE  Shown(card'[e.who], e)
  <2>1. e \in TheResults /\ e.who \in Players
    <3>1. e \in TheResults
      OBVIOUS
    <3> QED BY <3>1 DEF TheResults
  <2>2. CASE e \in papers
    <3>1. Shown(card[e.who], e)
      BY <2>2 DEF ExamsInv, RankingTrue
    <3>2. CASE e.who = p
      BY <1>3, <2>1, <3>1, <3>2 DEF ShowsMore
    <3>3. CASE e.who # p
      BY <1>4, <2>1, <3>1, <3>3
    <3> QED BY <3>2, <3>3
  <2>3. CASE e.who = p /\ Shown(c, e)
    BY <1>3, <2>3
  <2> QED BY <2>2, <2>3
<1>8. RankingTrue'
  BY <1>7 DEF RankingTrue
<1> QED BY <1>2, <1>6, <1>8 DEF ExamsInv

(* What is not touched is what it was.                                     *)
LEMMA Untouched ==
  ASSUME ExamsInv, NEW p \in Players
  PROVE  /\ card = [card EXCEPT ![p] = card[p]] /\ handedIn = [handedIn EXCEPT ![p] = handedIn[p]]
         /\ period = [period EXCEPT ![p] = period[p]] /\ paper = [paper EXCEPT ![p] = paper[p]]
         /\ bell = [bell EXCEPT ![p] = bell[p]]
<1>1. card = [card EXCEPT ![p] = card[p]]
  BY DEF ExamsInv, ExamsTyped
<1>2. handedIn = [handedIn EXCEPT ![p] = handedIn[p]]
  BY DEF ExamsInv, ExamsTyped
<1>3. period = [period EXCEPT ![p] = period[p]]
  BY DEF ExamsInv, ExamsTyped
<1>4. paper = [paper EXCEPT ![p] = paper[p]]
  BY DEF ExamsInv, ExamsTyped
<1>5. bell = [bell EXCEPT ![p] = bell[p]]
  BY DEF ExamsInv, ExamsTyped
<1> QED BY <1>1, <1>2, <1>3, <1>4, <1>5

LEMMA NobodySits ==
  ASSUME ExamsInv, UNCHANGED examVars, UNCHANGED online
  PROVE  ExamsInv'
<1>1. Current' = Current /\ Turn' = Turn
  BY DEF examVars, Current, Turn
<1>2. /\ days' = days /\ card' = card /\ papers' = papers /\ period' = period /\ paper' = paper
      /\ bell' = bell /\ first' = first /\ handedIn' = handedIn /\ online' = online
  BY DEF examVars
<1>3. \A p \in Players : StudentFits(p)'
  BY <1>1, <1>2 DEF ExamsInv, StudentFits
<1> QED BY <1>2, <1>3 DEF ExamsInv, ExamsTyped, RankingTrue

LEMMA ExamFields ==
  ASSUME ExamsInv, NEW p \in Players
  PROVE  /\ StudentOK(card[p], handedIn[p], period[p], paper[p], bell[p], p \in online, Current, Turn)
         /\ card[p] \in TheCards /\ period[p] \in ThePeriods /\ handedIn[p] \in Seq(TheSittings)
         /\ Turn \in 0..MaxPeriod /\ Current \in Keys \ {Manual} /\ (Current # NoKey => Current \in 1..Turn)
         /\ paper[p] # NoPaper \/ bell[p] # NoBell => p \in online
<1>1. StudentOK(card[p], handedIn[p], period[p], paper[p], bell[p], p \in online, Current, Turn)
  BY DEF ExamsInv, StudentFits
<1>2. /\ card[p] \in TheCards /\ period[p] \in ThePeriods /\ handedIn[p] \in Seq(TheSittings)
      /\ paper[p] # NoPaper \/ bell[p] # NoBell => p \in online
  BY <1>1 DEF StudentOK
<1>3. Turn \in 0..MaxPeriod /\ Current \in Keys \ {Manual} /\ (Current # NoKey => Current \in 1..Turn)
  BY Calendar DEF ExamsInv, ExamsTyped
<1> QED BY <1>1, <1>2, <1>3

LEMMA ArrivesAtSchool ==
  ASSUME ExamsInv, NEW p \in Players, p \notin online, online' = online \cup {p}, ExamsLogin(p)
  PROVE  ExamsInv'
<1> DEFINE c == ReleaseDue(card[p])
<1>1. /\ StudentOK(card[p], handedIn[p], period[p], paper[p], bell[p], FALSE, Current, Turn)
      /\ paper[p] = NoPaper /\ bell[p] = NoBell /\ Current \in Keys /\ card[p] \in TheCards
  <2>1. (p \in online) = FALSE
    OBVIOUS
  <2> QED BY <2>1, ExamFields
<1>2. /\ card' = [card EXCEPT ![p] = c] /\ period' = [period EXCEPT ![p] = SeatOf(c)]
      /\ paper' = [paper EXCEPT ![p] = NoPaper] /\ bell' = [bell EXCEPT ![p] = NoBell]
      /\ UNCHANGED <<days, papers, handedIn>> /\ first' \subseteq first \cup {p}
  BY Zenon DEF ExamsLogin, Scorecard
<1>3. StudentOK(c, handedIn[p], SeatOf(c), NoPaper, NoBell, TRUE, Current, Turn)
  <2>1. StudentOK(c, handedIn[p], period[p], NoPaper, NoBell, FALSE, Current, Turn)
    BY <1>1, ReleaseFits
  <2> QED BY <1>1, <2>1, TakesSeat
<1>4. ShowsMore(card[p], c)
  BY <1>1, ReleaseShows
<1> HIDE DEF c
<1>5. handedIn' = [handedIn EXCEPT ![p] = handedIn[p]]
  BY <1>2, Untouched
<1>6. ExamMoves(p, c, handedIn[p], SeatOf(c), NoPaper, NoBell)
  <2>1. \A x \in Players \ {p} : (x \in online') = (x \in online)
    OBVIOUS
  <2> QED BY <1>2, <1>5, <2>1, Zenon DEF ExamMoves
<1>7. first' \subseteq Players /\ papers' \subseteq TheResults /\ papers' = papers /\ (p \in online') = TRUE
  BY <1>2 DEF ExamsInv, ExamsTyped
<1>8. StudentOK(c, handedIn[p], SeatOf(c), NoPaper, NoBell, p \in online', Current, Turn)
  BY <1>3, <1>7
<1> QED BY <1>4, <1>6, <1>7, <1>8, OneSits

LEMMA CalendarGoesOn ==
  ASSUME ExamsInv, CalendarMoves, online' = online
  PROVE  ExamsInv'
<1>1. /\ days' = days + 1 /\ days \in Nat /\ days < 2 * MaxPeriod /\ days \in 0..2 * MaxPeriod
      /\ MaxPeriod \in Nat
      /\ UNCHANGED <<card, papers, period, paper, bell, first, handedIn>>
  BY ExamsAssumption DEF CalendarMoves, ExamsInv, ExamsTyped
<1>2. Turn \in Nat
  BY <1>1 DEF Turn
<1>3. \/ /\ Turn' = Turn + 1 /\ Current' = Turn' /\ \A p \in Players : paper[p] = NoPaper /\ bell[p] = NoBell
      \/ Turn' = Turn /\ Current' = NoKey
  <2>1. CASE days % 2 = 0
    <3>1. \A p \in Players : paper[p] = NoPaper /\ bell[p] = NoBell
      BY <2>1 DEF CalendarMoves
    <3>2. Turn' = Turn + 1
      BY <1>1, <2>1 DEF Turn
    <3>3. days' % 2 = 1
      BY <1>1, <2>1
    <3>4. Current' = Turn'
      BY <3>3 DEF Turn, Current
    <3> QED BY <3>1, <3>2, <3>4
  <2>2. CASE days % 2 # 0
    <3>1. Turn' = Turn /\ Current' = NoKey
      BY <1>1, <2>2 DEF Turn, Current
    <3> QED BY <3>1
  <2> QED BY <2>1, <2>2
<1>4. ASSUME NEW p \in Players
      PROVE  StudentFits(p)'
  <2>1. StudentOK(card[p], handedIn[p], period[p], paper[p], bell[p], p \in online, Current, Turn)
    BY ExamFields
  <2> DEFINE now == Current'
             turn == Turn'
             here == p \in online
  <2>2. \/ turn = Turn + 1 /\ now = turn /\ paper[p] = NoPaper /\ bell[p] = NoBell
        \/ turn = Turn /\ now = NoKey
    BY <1>3
  <2> HIDE DEF now, turn, here
  <2>3. StudentOK(card[p], handedIn[p], period[p], paper[p], bell[p], here, Current, Turn)
    BY <2>1 DEF here
  <2>4. StudentOK(card[p], handedIn[p], period[p], paper[p], bell[p], here, now, turn)
    BY <1>2, <2>2, <2>3, Later
  <2> QED BY <1>1, <2>4, Zenon DEF StudentFits, now, turn, here
<1>5. days' \in 0..2 * MaxPeriod
  BY <1>1
<1>6. ExamsTyped'
  BY <1>1, <1>5 DEF ExamsInv, ExamsTyped
<1>7. RankingTrue'
  BY <1>1 DEF ExamsInv, RankingTrue
<1> QED BY <1>4, <1>6, <1>7 DEF ExamsInv

LEMMA RingsBell ==
  ASSUME ExamsInv, online' = online, NEW p \in Players, NEW s \in Subjects, RingExam(p, s)
  PROVE  ExamsInv'
<1> DEFINE b == [subject |-> s, during |-> Current]
<1>1. /\ StudentOK(card[p], handedIn[p], period[p], NoPaper, NoBell, TRUE, Current, Turn)
      /\ Current \in 1..Turn /\ card[p] \in TheCards
  <2>1. (p \in online) = TRUE /\ paper[p] = NoPaper /\ bell[p] = NoBell /\ Current # NoKey
    BY DEF RingExam
  <2> QED BY <2>1, ExamFields
<1>2. ~ (period[p].key = Current /\ s \in period[p].sat)
  BY DEF RingExam, Admits, Taken
<1>3. StudentOK(card[p], handedIn[p], period[p], NoPaper, b, TRUE, Current, Turn)
  BY <1>1, <1>2, RingsFor
<1>4. /\ paper[p] = NoPaper /\ bell' = [bell EXCEPT ![p] = b]
      /\ UNCHANGED <<days, card, papers, period, paper, first, handedIn>>
  BY DEF RingExam
<1> HIDE DEF b
<1>7. ExamMoves(p, card[p], handedIn[p], period[p], NoPaper, b)
  BY <1>4, Untouched, Zenon DEF ExamMoves
<1>5. StudentOK(card[p], handedIn[p], period[p], NoPaper, b, p \in online', Current, Turn)
  <2>1. (p \in online') = TRUE
    BY DEF RingExam
  <2> QED BY <1>3, <2>1
<1>6. ShowsMore(card[p], card[p])
  BY DEF ShowsMore
<1> QED BY <1>4, <1>5, <1>6, <1>7, OneSits DEF ExamsInv, ExamsTyped

LEMMA EntersHall ==
  ASSUME ExamsInv, online' = online, NEW p \in Players, ExamStart(p) \/ ExamMissed(p)
  PROVE  ExamsInv'
<1> DEFINE c == ReleaseDue(card[p])
           a == [subject |-> bell[p].subject, begun |-> bell[p].during]
<1>1. /\ StudentOK(card[p], handedIn[p], period[p], paper[p], bell[p], TRUE, Current, Turn)
      /\ bell[p] # NoBell /\ card[p] \in TheCards /\ Current \in Keys /\ (p \in online') = TRUE
  <2>1. bell[p] # NoBell
    BY DEF ExamStart, ExamMissed
  <2>2. (p \in online) = TRUE
    BY <2>1, ExamFields
  <2> QED BY <2>1, <2>2, ExamFields
<1>2. /\ StudentOK(card[p], handedIn[p], period[p], a, NoBell, TRUE, Current, Turn)
      /\ StudentOK(card[p], handedIn[p], period[p], paper[p], NoBell, TRUE, Current, Turn)
  BY <1>1, SitsDown
<1>3. StudentOK(c, handedIn[p], period[p], a, NoBell, TRUE, Current, Turn)
  <2> HIDE DEF a, c
  <2> QED BY <1>1, <1>2, ReleaseFits DEF c
<1>4. ShowsMore(card[p], c) /\ ShowsMore(card[p], card[p])
  BY <1>1, ReleaseShows DEF ShowsMore
<1>5. papers' = papers /\ first' = first /\ papers' \subseteq TheResults /\ first' \subseteq Players
  BY DEF ExamStart, ExamMissed, ExamsInv, ExamsTyped
<1>6. CASE ExamStart(p)
  <2>2. /\ card' = [card EXCEPT ![p] = c] /\ paper' = [paper EXCEPT ![p] = a]
        /\ bell' = [bell EXCEPT ![p] = NoBell] /\ UNCHANGED <<days, period, handedIn>>
    BY <1>6, Zenon DEF ExamStart, Scorecard
  <2> HIDE DEF a, c
  <2>1. ExamMoves(p, c, handedIn[p], period[p], a, NoBell)
    BY <2>2, Untouched, Zenon DEF ExamMoves
  <2> QED BY <1>1, <1>3, <1>4, <1>5, <2>1, OneSits
<1>7. CASE ExamMissed(p)
  <2>2. bell' = [bell EXCEPT ![p] = NoBell] /\ UNCHANGED <<days, card, period, paper, handedIn>>
    BY <1>7 DEF ExamMissed
  <2>1. ExamMoves(p, card[p], handedIn[p], period[p], paper[p], NoBell)
    BY <2>2, Untouched, Zenon DEF ExamMoves
  <2> QED BY <1>1, <1>2, <1>4, <1>5, <2>1, OneSits
<1> QED BY <1>6, <1>7

LEMMA LooksAtCard ==
  ASSUME ExamsInv, online' = online, NEW p \in Players, LookAtCard(p)
  PROVE  ExamsInv'
<1> DEFINE c == ReleaseDue(card[p])
<1>1. /\ StudentOK(card[p], handedIn[p], period[p], paper[p], bell[p], p \in online, Current, Turn)
      /\ card[p] \in TheCards /\ Current \in Keys
  BY ExamFields
<1>2. ShowsMore(card[p], c)
  BY <1>1, ReleaseShows
<1>3. StudentOK(c, handedIn[p], period[p], paper[p], bell[p], p \in online', Current, Turn)
  <2> DEFINE here == p \in online
  <2>1. StudentOK(card[p], handedIn[p], period[p], paper[p], bell[p], here, Current, Turn)
    BY <1>1
  <2>2. here = (p \in online')
    OBVIOUS
  <2> HIDE DEF here
  <2>3. StudentOK(c, handedIn[p], period[p], paper[p], bell[p], here, Current, Turn)
    BY <1>1, <2>1, ReleaseFits
  <2> QED BY <2>2, <2>3
<1>4. ExamMoves(p, c, handedIn[p], period[p], paper[p], bell[p])
  <2>1. card' = [card EXCEPT ![p] = c] /\ UNCHANGED <<days, period, paper, bell, handedIn>>
    BY Zenon DEF LookAtCard, Scorecard
  <2> HIDE DEF c
  <2> QED BY <2>1, Untouched, Zenon DEF ExamMoves
<1>5. papers' = papers /\ first' = first /\ papers' \subseteq TheResults /\ first' \subseteq Players
  BY DEF LookAtCard, ExamsInv, ExamsTyped
<1> HIDE DEF c
<1> QED BY <1>2, <1>3, <1>4, <1>5, OneSits

(* The paper is handed in.                                                 *)
LEMMA ResultFits ==
  ASSUME NEW p \in Players, NEW s \in Subjects, NEW score \in Scores, NEW key \in Keys \ {NoKey},
         NEW w \in TheCards, Carries(w, [subject |-> s, score |-> score, period |-> key]),
         papers \subseteq TheResults
  PROVE  /\ File(key, p, s, score) \subseteq TheResults
         /\ \A e \in File(key, p, s, score) : e \in papers \/ (e.who = p /\ Shown(ReleaseDue(w), e))
<1> DEFINE new == [period |-> key, who |-> p, subject |-> s, score |-> score]
<1>1. new \in TheResults
  BY DEF TheResults
<1>2. new.who = p /\ new.period = key /\ new.subject = s /\ new.score = score
  OBVIOUS
<1>3. \A e \in File(key, p, s, score) : e \in papers \/ e = new
  BY DEF File
<1> HIDE DEF new
<1>4. Shown(w, new)
  BY <1>2 DEF Shown
<1>5. Shown(ReleaseDue(w), new)
  BY <1>1, <1>4, ReleaseShows DEF ShowsMore
<1> QED BY <1>1, <1>2, <1>3, <1>5

LEMMA HandsInPaper ==
  ASSUME ExamsInv, online' = online, NEW p \in Players, NEW score \in Scores, ExamPart(p, score)
  PROVE  ExamsInv'
<1> DEFINE sitting == Sit(period[p], paper[p].subject)
           h == [begun |-> paper[p].begun, subject |-> paper[p].subject, score |-> score]
           gs == Append(handedIn[p], h)
           w1 == Noted(ReleaseDue(card[p]), sitting.key, sitting.sat)
           key == IF sitting.key = NoKey THEN Manual ELSE sitting.key
           w2 == HoldExam(w1, paper[p].subject, score, key)
           held == [subject |-> paper[p].subject, score |-> score, period |-> key]
           c == ReleaseDue(w2)
<1>1. /\ StudentOK(card[p], handedIn[p], period[p], paper[p], bell[p], TRUE, Current, Turn)
      /\ paper[p] # NoPaper /\ Current \in Keys \ {Manual} /\ Turn \in 0..MaxPeriod
      /\ card[p] \in TheCards /\ bell[p] = NoBell /\ paper[p].subject \in Subjects
      /\ (p \in online') = TRUE
  <2>1. paper[p] # NoPaper
    BY DEF ExamPart
  <2>2. (p \in online) = TRUE
    BY <2>1, ExamFields
  <2>3. /\ StudentOK(card[p], handedIn[p], period[p], paper[p], bell[p], TRUE, Current, Turn)
        /\ Current \in Keys \ {Manual} /\ Turn \in 0..MaxPeriod /\ card[p] \in TheCards
    BY <2>2, ExamFields
  <2>4. bell[p] = NoBell /\ paper[p].subject \in Subjects
    BY <2>1, <2>3 DEF StudentOK, Fresh
  <2> QED BY <2>1, <2>2, <2>3, <2>4
<1>2. /\ StudentOK(w2, gs, sitting, NoPaper, NoBell, TRUE, Current, Turn)
      /\ ShowsMore(card[p], w2) /\ w2 \in TheCards /\ key \in Keys \ {NoKey}
      /\ Carries(w2, held)
  BY <1>1, HandsIn
<1>3. /\ card' = [card EXCEPT ![p] = c] /\ handedIn' = [handedIn EXCEPT ![p] = gs]
      /\ period' = [period EXCEPT ![p] = sitting] /\ paper' = [paper EXCEPT ![p] = NoPaper]
      /\ papers' = File(key, p, paper[p].subject, score)
      /\ UNCHANGED <<days, bell, first>>
  <2>1. PartWrites(p, score)[2] = w2 /\ PartWrites(p, score)[3] = key
    BY DEF PartWrites, Noted, Scorecard
  <2>2. /\ card' = [card EXCEPT ![p] = ReleaseDue(PartWrites(p, score)[2])]
        /\ papers' = File(PartWrites(p, score)[3], p, paper[p].subject, score)
    BY Zenon DEF ExamPart
  <2>3. /\ handedIn' = [handedIn EXCEPT ![p] = gs] /\ period' = [period EXCEPT ![p] = sitting]
        /\ paper' = [paper EXCEPT ![p] = NoPaper] /\ UNCHANGED <<days, bell, first>>
    BY DEF ExamPart
  <2> HIDE DEF w2, key, gs, sitting
  <2> QED BY <2>1, <2>2, <2>3, Zenon
<1> HIDE DEF w2, gs, sitting, key
<1>4. StudentOK(c, gs, sitting, NoPaper, NoBell, p \in online', Current, Turn)
  <2>1. StudentOK(c, gs, sitting, NoPaper, NoBell, TRUE, Current, Turn)
    BY <1>1, <1>2, ReleaseFits
  <2> QED BY <1>1, <2>1, Zenon
<1>5. ShowsMore(card[p], c)
  BY <1>2, ReleaseShows DEF ShowsMore
<1>6. /\ papers' \subseteq TheResults
      /\ \A e \in papers' : e \in papers \/ (e.who = p /\ Shown(c, e))
  <2>1. papers \subseteq TheResults
    BY DEF ExamsInv, ExamsTyped
  <2> QED BY <1>1, <1>2, <1>3, <2>1, ResultFits
<1> HIDE DEF c
<1>7. ExamMoves(p, c, gs, sitting, NoPaper, bell[p])
  BY <1>3, Untouched, Zenon DEF ExamMoves
<1>8. first' \subseteq Players
  BY <1>3 DEF ExamsInv, ExamsTyped
<1> QED BY <1>1, <1>4, <1>5, <1>6, <1>7, <1>8, OneSits, Zenon

(* Connections end, and nothing of the exams is written.                   *)
LEMMA ExamsLeave ==
  ASSUME ExamsInv, NEW who \in SUBSET Players, online' = online \ who, ExamsGone(who),
         UNCHANGED <<days, card, papers, first, handedIn>>
  PROVE  ExamsInv'
<1>1. Current' = Current /\ Turn' = Turn
  BY DEF Current, Turn
<1>2. /\ period' = [p \in Players |-> IF p \in who THEN NoPeriod ELSE period[p]]
      /\ paper' = [p \in Players |-> IF p \in who THEN NoPaper ELSE paper[p]]
      /\ bell' = [p \in Players |-> IF p \in who THEN NoBell ELSE bell[p]]
  BY DEF ExamsGone, NoPeriod
<1>3. period' \in [Players -> ThePeriods]
  BY <1>2, NoPeriodFits DEF ExamsInv, ExamsTyped
<1>4. paper' = [p \in Players |-> paper'[p]] /\ bell' = [p \in Players |-> bell'[p]]
  BY <1>2
<1>5. ExamsTyped' /\ RankingTrue'
  BY <1>3, <1>4 DEF ExamsInv, ExamsTyped, RankingTrue
<1>6. ASSUME NEW p \in Players
      PROVE  StudentFits(p)'
  <2>1. StudentOK(card[p], handedIn[p], period[p], paper[p], bell[p], p \in online, Current, Turn)
    BY ExamFields
  <2>2. CASE p \in who
    <3>1. /\ period'[p] = NoPeriod /\ paper'[p] = NoPaper /\ bell'[p] = NoBell
          /\ (p \in online') = FALSE /\ card' = card /\ handedIn' = handedIn
      BY <1>2, <2>2
    <3> DEFINE here == p \in online
    <3>2. StudentOK(card[p], handedIn[p], period[p], paper[p], bell[p], here, Current, Turn)
      BY <2>1
    <3> HIDE DEF here
    <3>3. StudentOK(card[p], handedIn[p], NoPeriod, NoPaper, NoBell, FALSE, Current, Turn)
      BY <3>2, Drops
    <3> QED BY <1>1, <3>1, <3>3, Zenon DEF StudentFits
  <2>3. CASE p \notin who
    <3>1. /\ period'[p] = period[p] /\ paper'[p] = paper[p] /\ bell'[p] = bell[p]
          /\ (p \in online') = (p \in online) /\ card' = card /\ handedIn' = handedIn
      BY <1>2, <2>3
    <3> QED BY <1>1, <2>1, <3>1, Zenon DEF StudentFits
  <2> QED BY <2>2, <2>3
<1> QED BY <1>5, <1>6 DEF ExamsInv

(* The process dies in the middle of a hand-in.                            *)
LEMMA TornCard ==
  ASSUME ExamsInv, NEW p \in online, online \subseteq Players, NEW score \in Scores,
         NEW written \in 1..2, ExamPartTorn(p, score, written)
  PROVE  \E w, gs : /\ card' = [card EXCEPT ![p] = w] /\ handedIn' = [handedIn EXCEPT ![p] = gs]
                    /\ StudentOK(w, gs, NoPeriod, NoPaper, NoBell, FALSE, Current, Turn)
                    /\ ShowsMore(card[p], w) /\ UNCHANGED <<days, papers, first>>
<1> DEFINE sitting == Sit(period[p], paper[p].subject)
           h == [begun |-> paper[p].begun, subject |-> paper[p].subject, score |-> score]
           gs == Append(handedIn[p], h)
           w1 == Noted(ReleaseDue(card[p]), sitting.key, sitting.sat)
           key == IF sitting.key = NoKey THEN Manual ELSE sitting.key
           w2 == HoldExam(w1, paper[p].subject, score, key)
<1>1. /\ StudentOK(card[p], handedIn[p], period[p], paper[p], bell[p], TRUE, Current, Turn)
      /\ paper[p] # NoPaper /\ Current \in Keys \ {Manual} /\ Turn \in 0..MaxPeriod
  <2>1. paper[p] # NoPaper /\ p \in Players /\ (p \in online) = TRUE
    BY DEF ExamPartTorn
  <2>2. /\ StudentOK(card[p], handedIn[p], period[p], paper[p], bell[p], p \in online, Current, Turn)
        /\ Current \in Keys \ {Manual} /\ Turn \in 0..MaxPeriod
    BY <2>1, ExamFields
  <2> QED BY <2>1, <2>2, Zenon
<1>2. /\ StudentOK(w1, gs, sitting, NoPaper, NoBell, TRUE, Current, Turn)
      /\ StudentOK(w2, gs, sitting, NoPaper, NoBell, TRUE, Current, Turn)
      /\ ShowsMore(card[p], w1) /\ ShowsMore(card[p], w2)
  BY <1>1, HandsIn
<1>3. PartWrites(p, score)[1] = w1 /\ PartWrites(p, score)[2] = w2
  BY DEF PartWrites, Noted, Scorecard
<1>4. /\ card' = [card EXCEPT ![p] = PartWrites(p, score)[written]]
      /\ handedIn' = [handedIn EXCEPT ![p] = gs] /\ UNCHANGED <<days, papers, first>>
  BY Zenon DEF ExamPartTorn
<1> HIDE DEF w1, w2, gs, sitting
<1>5. PICK w : w = PartWrites(p, score)[written]
  OBVIOUS
<1>6. w = w1 \/ w = w2
  BY <1>3, <1>5
<1>7. StudentOK(w, gs, sitting, NoPaper, NoBell, TRUE, Current, Turn) /\ ShowsMore(card[p], w)
  BY <1>2, <1>6
<1>8. StudentOK(w, gs, NoPeriod, NoPaper, NoBell, FALSE, Current, Turn)
  BY <1>7, Drops
<1>9. card' = [card EXCEPT ![p] = w]
  BY <1>4, <1>5
<1> QED BY <1>4, <1>7, <1>8, <1>9

LEMMA ExamsCrash ==
  ASSUME ExamsInv, online \subseteq Players, online' = online \ online, ExamsGone(online),
         NEW p \in online, NEW score \in Scores, NEW written \in 1..2, ExamPartTorn(p, score, written)
  PROVE  ExamsInv'
<1>1. PICK w, gs : /\ card' = [card EXCEPT ![p] = w] /\ handedIn' = [handedIn EXCEPT ![p] = gs]
                   /\ StudentOK(w, gs, NoPeriod, NoPaper, NoBell, FALSE, Current, Turn)
                   /\ ShowsMore(card[p], w) /\ UNCHANGED <<days, papers, first>>
  BY TornCard
<1>2. Current' = Current /\ Turn' = Turn /\ p \in Players /\ w \in TheCards /\ gs \in Seq(TheSittings)
  BY <1>1 DEF Current, Turn, StudentOK
<1>3. /\ period' = [x \in Players |-> IF x \in online THEN NoPeriod ELSE period[x]]
      /\ paper' = [x \in Players |-> IF x \in online THEN NoPaper ELSE paper[x]]
      /\ bell' = [x \in Players |-> IF x \in online THEN NoBell ELSE bell[x]]
  BY DEF ExamsGone, NoPeriod
<1>4. /\ card' \in [Players -> TheCards] /\ card'[p] = w /\ \A x \in Players \ {p} : card'[x] = card[x]
  BY <1>1, <1>2 DEF ExamsInv, ExamsTyped
<1>5. /\ handedIn' \in [Players -> Seq(TheSittings)] /\ handedIn'[p] = gs
      /\ \A x \in Players \ {p} : handedIn'[x] = handedIn[x]
  BY <1>1, <1>2 DEF ExamsInv, ExamsTyped
<1>6. period' \in [Players -> ThePeriods]
  BY <1>3, NoPeriodFits DEF ExamsInv, ExamsTyped
<1>7. paper' = [x \in Players |-> paper'[x]] /\ bell' = [x \in Players |-> bell'[x]]
  BY <1>3
<1>8. ExamsTyped'
  BY <1>1, <1>4, <1>5, <1>6, <1>7 DEF ExamsInv, ExamsTyped
<1>9. ASSUME NEW x \in Players
      PROVE  StudentFits(x)'
  <2>1. (x \in online') = FALSE
    OBVIOUS
  <2>2. CASE x = p
    <3>1. period'[x] = NoPeriod /\ paper'[x] = NoPaper /\ bell'[x] = NoBell
      BY <1>3, <2>2
    <3> QED BY <1>1, <1>2, <1>4, <1>5, <2>1, <2>2, <3>1, Zenon DEF StudentFits
  <2>3. CASE x # p
    <3> DEFINE here == x \in online
    <3>1. StudentOK(card[x], handedIn[x], period[x], paper[x], bell[x], here, Current, Turn)
      BY ExamFields
    <3>2. here \in BOOLEAN
      OBVIOUS
    <3>3. /\ here => period'[x] = NoPeriod /\ paper'[x] = NoPaper /\ bell'[x] = NoBell
          /\ ~here => period'[x] = period[x] /\ paper'[x] = paper[x] /\ bell'[x] = bell[x]
      BY <1>3
    <3> HIDE DEF here
    <3>4. StudentOK(card[x], handedIn[x], NoPeriod, NoPaper, NoBell, FALSE, Current, Turn)
      BY <3>1, Drops
    <3>5. /\ paper[x] # NoPaper \/ bell[x] # NoBell => here
      BY <3>1 DEF StudentOK
    <3>6. period'[x] \in ThePeriods
      BY <1>6
    <3>7. StudentOK(card[x], handedIn[x], period'[x], NoPaper, NoBell, FALSE, Current, Turn)
      BY <3>4, <3>6 DEF StudentOK
    <3>8. paper'[x] = NoPaper /\ bell'[x] = NoBell
      BY <3>2, <3>3, <3>5
    <3>9. card'[x] = card[x] /\ handedIn'[x] = handedIn[x]
      BY <1>4, <1>5, <2>3
    <3> QED BY <1>2, <2>1, <3>7, <3>8, <3>9, Zenon DEF StudentFits
  <2> QED BY <2>2, <2>3
<1>10. ASSUME NEW e \in papers'
       PROVE  Shown(card'[e.who], e)
  <2>1. e \in papers /\ e \in TheResults
    BY <1>1 DEF ExamsInv, ExamsTyped
  <2>2. e.who \in Players
    BY <2>1 DEF TheResults
  <2>3. Shown(card[e.who], e)
    BY <2>1 DEF ExamsInv, RankingTrue
  <2>4. CASE e.who = p
    BY <1>1, <1>4, <2>1, <2>3, <2>4 DEF ShowsMore
  <2>5. CASE e.who # p
    BY <1>4, <2>2, <2>3, <2>5
  <2> QED BY <2>4, <2>5
<1>11. RankingTrue'
  BY <1>10 DEF RankingTrue
<1> QED BY <1>8, <1>9, <1>11 DEF ExamsInv

LEMMA ExamsSteps ==
  ASSUME ExamsInv, Here, [Next]_vars
  PROVE  ExamsInv'
<1>1. ASSUME NEW p \in Players, Arrive(p)
      PROVE  ExamsInv'
  <2>1. p \notin online /\ online' = online \cup {p} /\ ExamsLogin(p)
    BY <1>1 DEF Arrive
  <2> QED BY <2>1, ArrivesAtSchool
<1>2. ASSUME NEW p \in Players, Leave(p)
      PROVE  ExamsInv'
  <2>1. /\ online' = online \ {p} /\ ExamsGone({p}) /\ UNCHANGED <<days, card, papers, first, handedIn>>
    BY <1>2 DEF Leave, ConnectionsEnd
  <2> QED BY <2>1, ExamsLeave
<1>3. CASE Crash
  <2>1. online' = online \ online /\ ExamsGone(online) /\ online \subseteq Players
    BY <1>3 DEF Crash, ConnectionsEnd, Here
  <2>2. \/ UNCHANGED <<days, card, papers, first, handedIn>>
        \/ \E p \in online, score \in Scores, written \in 1..2 : ExamPartTorn(p, score, written)
    BY <1>3 DEF Crash
  <2>3. CASE UNCHANGED <<days, card, papers, first, handedIn>>
    BY <2>1, <2>3, ExamsLeave
  <2>4. ASSUME NEW p \in online, NEW score \in Scores, NEW written \in 1..2, ExamPartTorn(p, score, written)
        PROVE  ExamsInv'
    BY <2>1, <2>4, ExamsCrash
  <2> QED BY <2>2, <2>3, <2>4
<1>4. CASE Body \/ Lesson \/ Club \/ Love
  <2>1. UNCHANGED examVars /\ UNCHANGED online
    BY <1>4 DEF Body, Lesson, Club, Love
  <2> QED BY <2>1, NobodySits
<1>5. CASE Exam
  <2>1. online' = online
    BY <1>5 DEF Exam
  <2>2. \/ CalendarMoves
        \/ \E p \in Players :
             \/ \E s \in Subjects : RingExam(p, s)
             \/ ExamStart(p) \/ ExamMissed(p) \/ LookAtCard(p)
             \/ \E score \in Scores : ExamPart(p, score)
    BY <1>5 DEF Exam
  <2>3. CASE CalendarMoves
    BY <2>1, <2>3, CalendarGoesOn
  <2>4. ASSUME NEW p \in Players, NEW s \in Subjects, RingExam(p, s)
        PROVE  ExamsInv'
    BY <2>1, <2>4, RingsBell
  <2>5. ASSUME NEW p \in Players, ExamStart(p) \/ ExamMissed(p)
        PROVE  ExamsInv'
    BY <2>1, <2>5, EntersHall
  <2>6. ASSUME NEW p \in Players, LookAtCard(p)
        PROVE  ExamsInv'
    BY <2>1, <2>6, LooksAtCard
  <2>7. ASSUME NEW p \in Players, NEW score \in Scores, ExamPart(p, score)
        PROVE  ExamsInv'
    BY <2>1, <2>7, HandsInPaper
  <2> QED BY <2>2, <2>3, <2>4, <2>5, <2>6, <2>7
<1>6. CASE UNCHANGED vars
  <2>1. UNCHANGED examVars /\ UNCHANGED online
    BY <1>6 DEF vars
  <2> QED BY <2>1, NobodySits
<1> QED BY <1>1, <1>2, <1>3, <1>4, <1>5, <1>6 DEF Next

LEMMA ExamsStart ==
  ASSUME Init
  PROVE  ExamsInv
<1> DEFINE marks == [s \in Subjects |-> -1]
           c == [key |-> NoKey, sat |-> {}, held |-> <<>>, last |-> marks, best |-> marks]
<1>1. /\ days = 0 /\ papers = {} /\ first = {} /\ handedIn = [p \in Players |-> <<>>]
      /\ card = [p \in Players |-> c] /\ period = [p \in Players |-> NoPeriod]
      /\ paper = [p \in Players |-> NoPaper] /\ bell = [p \in Players |-> NoBell]
  BY DEF Init, ExamsInit, NoPeriod
<1>2. /\ marks \in TheMarks /\ \A s \in Subjects : marks[s] = -1
  BY DEF TheMarks
<1> HIDE DEF marks
<1>3. <<>> \in Seq(TheHeld)
  OBVIOUS
<1>4. <<>> \in Seq(TheSittings)
  OBVIOUS
<1>5. NoKey \in Keys /\ NoPeriod \in ThePeriods /\ 0 \in 0..2 * MaxPeriod
  BY ExamsAssumption, NoPeriodFits DEF Keys, NoKey
<1>6. c \in TheCards /\ c.best = marks /\ c.held = <<>>
  BY <1>2, <1>3, <1>5 DEF TheCards
<1> HIDE DEF c
<1>7. ExamsTyped
  BY <1>1, <1>4, <1>5, <1>6 DEF ExamsTyped
<1>8. Backs(<<>>, c, Current) /\ Once(<<>>)
  BY <1>2, <1>6 DEF Backs, Once
<1>9. \A key, sat : Marked(<<>>, key, sat, Current)
  BY DEF Marked
<1>10. \A i \in DOMAIN <<>> : FALSE
  OBVIOUS
<1>11. ASSUME NEW p \in Players
       PROVE  StudentFits(p)
  <2>1. StudentOK(c, <<>>, NoPeriod, NoPaper, NoBell, p \in online, Current, Turn)
    BY <1>4, <1>5, <1>6, <1>8, <1>9, <1>10 DEF StudentOK
  <2>2. /\ card[p] = c /\ handedIn[p] = <<>> /\ period[p] = NoPeriod
        /\ paper[p] = NoPaper /\ bell[p] = NoBell
    BY <1>1
  <2> QED BY <2>1, <2>2, Zenon DEF StudentFits
<1>12. RankingTrue
  BY <1>1 DEF RankingTrue
<1> QED BY <1>7, <1>11, <1>12 DEF ExamsInv

LEMMA ExamsSound == ExamsInv => ExamsTypeOK /\ ExamsCountOnce
<1> SUFFICES ASSUME ExamsInv
             PROVE  ExamsTypeOK /\ ExamsCountOnce
  OBVIOUS
<1>1. ASSUME NEW p \in Players
      PROVE  /\ period[p].key \in Keys /\ period[p].sat \subseteq Subjects
             /\ card[p].key \in Keys /\ card[p].sat \subseteq Subjects
             /\ \A s \in Subjects : card[p].last[s] \in Scores \cup {-1}
             /\ (paper[p] # NoPaper \/ bell[p] # NoBell) => p \in online
  <2>1. /\ card[p] \in TheCards /\ period[p] \in ThePeriods
        /\ paper[p] # NoPaper \/ bell[p] # NoBell => p \in online
    BY ExamFields
  <2>2. period[p].key \in Keys /\ period[p].sat \subseteq Subjects
    BY <2>1 DEF ThePeriods
  <2>3. card[p].key \in Keys /\ card[p].sat \subseteq Subjects /\ card[p].last \in TheMarks
    BY <2>1, CardFields
  <2>4. \A s \in Subjects : card[p].last[s] \in Scores \cup {-1}
    BY <2>3 DEF TheMarks
  <2> QED BY <2>1, <2>2, <2>3, <2>4
<1>2. ASSUME NEW e \in papers
      PROVE  /\ e.period \in Keys \ {NoKey} /\ e.who \in Players /\ e.score \in Scores
             /\ \/ card[e.who].best[e.subject] >= e.score
                \/ \E i \in DOMAIN card[e.who].held :
                     card[e.who].held[i] = [subject |-> e.subject, score |-> e.score, period |-> e.period]
  <2>1. e \in TheResults /\ Shown(card[e.who], e)
    BY DEF ExamsInv, ExamsTyped, RankingTrue
  <2>2. e.period \in Keys \ {NoKey} /\ e.who \in Players /\ e.score \in Scores
    BY <2>1 DEF TheResults
  <2> QED BY <2>1, <2>2 DEF Shown, Carries
<1>3. ExamsTypeOK
  BY <1>1, <1>2 DEF ExamsTypeOK, ExamsInv, ExamsTyped
<1>4. SatOnce
  <2>1. \A p \in Players : Once(handedIn[p])
    BY ExamFields DEF StudentOK
  <2> QED BY <2>1 DEF SatOnce, Once
<1>5. ASSUME NEW p \in Players, NEW s \in Subjects, card[p].best[s] >= 0
      PROVE  \E i \in DOMAIN handedIn[p] :
               /\ handedIn[p][i].subject = s /\ handedIn[p][i].score = card[p].best[s]
               /\ handedIn[p][i].begun # Current
  <2>1. Backs(handedIn[p], card[p], Current)
    BY ExamFields DEF StudentOK
  <2> QED BY <1>5, <2>1 DEF Backs, OnRecord
<1>6. ResultsAreKept
  BY <1>2, <1>5 DEF ResultsAreKept
<1> QED BY <1>3, <1>4, <1>6 DEF ExamsCountOnce
-----------------------------------------------------------------------------
(* Romance: one candidate's row.                                           *)
TheRows == [debut : BOOLEAN, intimacy : Nat, progress : 0..Events,
            day : {"today", "yesterday", "older"}, best : Nat, letter : BOOLEAN,
            ending : BOOLEAN, album : 0..Events, photos : BOOLEAN,
            asked : {"none", "talk", "main"}, quiet : BOOLEAN, marks : BOOLEAN]

(* Whoever has not been met has no story, and a letter is the end of one.  *)
RowOK(c, r) ==
  /\ r \in TheRows
  /\ r.progress <= r.album
  /\ r.ending /\ c \in Tutored => r.debut
  /\ ~ r.debut => r.intimacy = 0 /\ r.progress = 0 /\ ~ r.letter
  /\ r.letter => r.progress = Events

(* What a row keeps of another: all that was lived through.                *)
Lived(old, new) ==
  /\ new.album >= old.album /\ (old.ending => new.ending) /\ (old.photos => new.photos)
  /\ old.debut => new.debut
  /\ new.intimacy >= old.intimacy /\ new.progress >= old.progress
  /\ old.marks => new.marks

(* Nothing is paid.                                                        *)
Unpaid(old, new) == new.intimacy = old.intimacy /\ new.progress = old.progress


(* The fields of a row that a rewriting leaves alone, but for the named.    *)
LEMMA RowFields ==
  ASSUME NEW c, NEW r, RowOK(c, r)
  PROVE  /\ r \in TheRows /\ r.intimacy \in Nat /\ r.best \in Nat
         /\ r.progress \in 0..Events /\ r.album \in 0..Events /\ r.progress <= r.album
BY DEF RowOK, TheRows

(* A rewriting that touches no field the story is told by.                 *)
Alike(old, new) ==
  /\ new.debut = old.debut /\ new.intimacy = old.intimacy /\ new.progress = old.progress
  /\ new.letter = old.letter /\ new.ending = old.ending /\ new.album = old.album
  /\ (old.photos => new.photos) /\ (old.marks => new.marks)

LEMMA AlikeKeeps ==
  ASSUME NEW c, NEW r, NEW new, RowOK(c, r), new \in TheRows, Alike(r, new)
  PROVE  RowOK(c, new) /\ Lived(r, new) /\ Unpaid(r, new)
<1>1. RowOK(c, new)
  BY DEF RowOK, Alike
<1>2. Unpaid(r, new)
  BY DEF Alike, Unpaid
<1>3. r.intimacy \in Nat /\ r.progress \in Nat /\ r.album \in Nat
  BY RowFields
<1>4. Lived(r, new)
  BY <1>3 DEF Alike, Lived
<1> QED BY <1>1, <1>2, <1>4

Quieted(r) == [r EXCEPT !.quiet = FALSE]
Aged(r) == [r EXCEPT !.day = Past(@)]
Chosen(r, answer) == [r EXCEPT !.asked = answer]

LEMMA RowMarked ==
  ASSUME NEW c, NEW r, RowOK(c, r), NEW answer \in {"none", "talk", "main"},
         NEW new \in {Quieted(r), Aged(r), Chosen(r, answer), AbsorbPhotos(r), AbsorbMarks(r)}
  PROVE  RowOK(c, new) /\ Lived(r, new) /\ Unpaid(r, new)
<1>1. r \in TheRows
  BY RowFields
<1>2. CASE new = Quieted(r)
  <2>1. new \in TheRows
    BY <1>1, <1>2 DEF Quieted, TheRows
  <2>2. Alike(r, new)
    BY <1>1, <1>2 DEF Alike, Quieted, TheRows
  <2> QED BY <2>1, <2>2, AlikeKeeps
<1>3. CASE new = Aged(r)
  <2>1. new \in TheRows
    BY <1>1, <1>3 DEF Aged, Past, TheRows
  <2>2. Alike(r, new)
    BY <1>1, <1>3 DEF Alike, Aged, TheRows
  <2> QED BY <2>1, <2>2, AlikeKeeps
<1>4. CASE new = Chosen(r, answer)
  <2>1. new \in TheRows
    BY <1>1, <1>4 DEF Chosen, TheRows
  <2>2. Alike(r, new)
    BY <1>1, <1>4 DEF Alike, Chosen, TheRows
  <2> QED BY <2>1, <2>2, AlikeKeeps
<1>5. CASE new = AbsorbPhotos(r)
  <2>1. new \in TheRows
    BY <1>1, <1>5 DEF AbsorbPhotos, TheRows
  <2>2. Alike(r, new)
    BY <1>1, <1>5 DEF Alike, AbsorbPhotos, TheRows
  <2> QED BY <2>1, <2>2, AlikeKeeps
<1>6. CASE new = AbsorbMarks(r)
  <2>1. new \in TheRows
    BY <1>1, <1>6 DEF AbsorbMarks, TheRows
  <2>2. Alike(r, new)
    BY <1>1, <1>6 DEF Alike, AbsorbMarks, TheRows
  <2> QED BY <2>1, <2>2, AlikeKeeps
<1> QED BY <1>2, <1>3, <1>4, <1>5, <1>6

Met(r) == [r EXCEPT !.debut = TRUE]
Written(r) == [r EXCEPT !.letter = TRUE]
Confessed(r) == [r EXCEPT !.ending = TRUE]

LEMMA RowMet ==
  ASSUME NEW c, NEW r, RowOK(c, r)
  PROVE  RowOK(c, Met(r)) /\ Lived(r, Met(r)) /\ Unpaid(r, Met(r)) /\ Met(r).debut
<1> DEFINE new == Met(r)
<1>1. r \in TheRows
  BY RowFields
<1>2. new \in TheRows /\ new.debut = TRUE
  BY <1>1 DEF TheRows, Met
<1>3. new.album = r.album /\ new.intimacy = r.intimacy /\ new.progress = r.progress
  BY <1>1 DEF TheRows, Met
<1>4. new.ending = r.ending /\ new.photos = r.photos /\ new.marks = r.marks /\ new.letter = r.letter
  BY <1>1, Zenon DEF TheRows, Met
<1>5. r.intimacy \in Nat /\ r.progress \in Nat /\ r.album \in Nat
  BY RowFields
<1> HIDE DEF new
<1>6. RowOK(c, new)
  BY <1>2, <1>3, <1>4, Zenon DEF RowOK
<1>7. Unpaid(r, new)
  BY <1>3 DEF Unpaid
<1>8. Lived(r, new)
  BY <1>2, <1>3, <1>4, <1>5 DEF Lived
<1> QED BY <1>2, <1>6, <1>7, <1>8 DEF new

LEMMA RowLetter ==
  ASSUME NEW c, NEW r, RowOK(c, r), r.debut, r.progress = Events
  PROVE  RowOK(c, Written(r)) /\ Lived(r, Written(r)) /\ Unpaid(r, Written(r))
<1> DEFINE new == Written(r)
<1>1. r \in TheRows
  BY RowFields
<1>2. new \in TheRows /\ new.letter = TRUE
  BY <1>1 DEF TheRows, Written
<1>3. new.album = r.album /\ new.intimacy = r.intimacy /\ new.progress = r.progress
  BY <1>1 DEF TheRows, Written
<1>4. new.ending = r.ending /\ new.photos = r.photos /\ new.marks = r.marks /\ new.debut = r.debut
  BY <1>1, Zenon DEF TheRows, Written
<1>5. r.intimacy \in Nat /\ r.progress \in Nat /\ r.album \in Nat
  BY RowFields
<1> HIDE DEF new
<1>6. RowOK(c, new)
  BY <1>2, <1>3, <1>4, Zenon DEF RowOK
<1>7. Unpaid(r, new)
  BY <1>3 DEF Unpaid
<1>8. Lived(r, new)
  BY <1>2, <1>3, <1>4, <1>5 DEF Lived
<1> QED BY <1>6, <1>7, <1>8 DEF new

LEMMA RowEnding ==
  ASSUME NEW c, NEW r, RowOK(c, r), r.debut
  PROVE  /\ RowOK(c, Confessed(r)) /\ Lived(r, Confessed(r)) /\ Unpaid(r, Confessed(r))
         /\ Confessed(r).ending
<1> DEFINE new == Confessed(r)
<1>1. r \in TheRows
  BY RowFields
<1>2. new \in TheRows /\ new.ending = TRUE
  BY <1>1 DEF TheRows, Confessed
<1>3. new.album = r.album /\ new.intimacy = r.intimacy /\ new.progress = r.progress
  BY <1>1 DEF TheRows, Confessed
<1>4. new.letter = r.letter /\ new.photos = r.photos /\ new.marks = r.marks /\ new.debut = r.debut
  BY <1>1, Zenon DEF TheRows, Confessed
<1>5. r.intimacy \in Nat /\ r.progress \in Nat /\ r.album \in Nat
  BY RowFields
<1> HIDE DEF new
<1>6. RowOK(c, new)
  BY <1>2, <1>3, <1>4, Zenon DEF RowOK
<1>7. Unpaid(r, new)
  BY <1>3 DEF Unpaid
<1>8. Lived(r, new)
  BY <1>2, <1>3, <1>4, <1>5 DEF Lived
<1> QED BY <1>2, <1>6, <1>7, <1>8 DEF new

(* What a talk or a main event pays.                                       *)
Gains(old, new) ==
  /\ new.debut = old.debut /\ new.progress = old.progress /\ new.intimacy >= old.intimacy
  /\ new.letter = old.letter /\ new.ending = old.ending /\ new.album = old.album
  /\ new.photos = old.photos /\ new.marks = old.marks

LEMMA PaidKeeps ==
  ASSUME NEW c, NEW r, NEW new, RowOK(c, r), r.debut, new \in TheRows, Gains(r, new)
  PROVE  RowOK(c, new) /\ Lived(r, new)
<1>1. RowOK(c, new)
  BY Zenon DEF RowOK, Gains
<1>2. r.intimacy \in Nat /\ r.progress \in Nat /\ r.album \in Nat
  BY RowFields
<1>3. Lived(r, new)
  BY <1>2 DEF Gains, Lived
<1> QED BY <1>1, <1>3

LEMMA RowMain ==
  ASSUME NEW c, NEW r, RowOK(c, r), r.debut, NEW s, s.intimacy = r.intimacy, NEW gain \in Nat
  PROVE  /\ RowOK(c, AbsorbMainEvent(r, s, gain)) /\ Lived(r, AbsorbMainEvent(r, s, gain))
         /\ AbsorbMainEvent(r, s, gain).progress = r.progress
<1> DEFINE new == AbsorbMainEvent(r, s, gain)
<1>1. r \in TheRows /\ r.intimacy \in Nat
  BY RowFields
<1>2. new \in TheRows
  BY <1>1 DEF TheRows, AbsorbMainEvent
<1>3. new.intimacy = r.intimacy + gain /\ new.album = r.album /\ new.progress = r.progress
  BY <1>1 DEF TheRows, AbsorbMainEvent
<1>4. /\ new.letter = r.letter /\ new.photos = r.photos /\ new.marks = r.marks
      /\ new.debut = r.debut /\ new.ending = r.ending
  BY <1>1, Zenon DEF TheRows, AbsorbMainEvent
<1> HIDE DEF new
<1>5. Gains(r, new)
  BY <1>1, <1>3, <1>4 DEF Gains
<1>6. RowOK(c, new) /\ Lived(r, new)
  BY <1>2, <1>5, PaidKeeps
<1> QED BY <1>3, <1>6 DEF new

(* The daily rule, by the server and by the script.                        *)
Daily(old, new) ==
  new.intimacy - old.intimacy <= new.best - (IF new.day = old.day THEN old.best ELSE 0)

(* Either writes the day, the best and the total, and nothing where nothing *)
(* is left of the grant.                                                   *)
DayWritten(r, day, gain, left) ==
  [r EXCEPT !.day = day, !.best = gain, !.intimacy = r.intimacy + left]

LEMMA RowDay ==
  ASSUME NEW c, NEW r, RowOK(c, r), r.debut, NEW gain \in Nat,
         NEW day \in {"today", "yesterday"}, NEW left \in Nat,
         left = gain - (IF r.day = day THEN r.best ELSE 0)
  PROVE  LET new == DayWritten(r, day, gain, left) IN
         /\ RowOK(c, new) /\ Lived(r, new) /\ new.progress = r.progress /\ Daily(r, new)
<1> DEFINE new == DayWritten(r, day, gain, left)
<1>1. r \in TheRows /\ r.intimacy \in Nat /\ r.best \in Nat
  BY RowFields
<1>2. new \in TheRows
  <2> DEFINE sum == r.intimacy + left
  <2>1. sum \in Nat
    BY <1>1
  <2> HIDE DEF sum
  <2>2. [r EXCEPT !.day = day, !.best = gain, !.intimacy = sum] \in TheRows
    BY <1>1, <2>1 DEF TheRows
  <2> QED BY <2>2 DEF DayWritten, sum
<1>3. new.intimacy = r.intimacy + left /\ new.album = r.album /\ new.progress = r.progress
  <2>1. new.intimacy = r.intimacy + left
    <3>1. \A n : [r EXCEPT !.day = day, !.best = gain, !.intimacy = n].intimacy = n
      BY <1>1, Zenon DEF TheRows
    <3> QED BY <3>1 DEF DayWritten
  <2>2. new.album = r.album
    BY <1>1, Zenon DEF TheRows, DayWritten
  <2>3. new.progress = r.progress
    BY <1>1, Zenon DEF TheRows, DayWritten
  <2> QED BY <2>1, <2>2, <2>3
<1>4. /\ new.letter = r.letter /\ new.photos = r.photos /\ new.marks = r.marks
      /\ new.debut = r.debut /\ new.ending = r.ending
  BY <1>1, Zenon DEF TheRows, DayWritten
<1>5. new.day = day /\ new.best = gain
  <2>1. new.day = day
    BY <1>1, Zenon DEF TheRows, DayWritten
  <2>2. new.best = gain
    BY <1>1, Zenon DEF TheRows, DayWritten
  <2> QED BY <2>1, <2>2
<1> HIDE DEF new
<1>6. Gains(r, new)
  BY <1>1, <1>3, <1>4 DEF Gains
<1>7. RowOK(c, new) /\ Lived(r, new)
  BY <1>2, <1>6, PaidKeeps
<1>8. Daily(r, new)
  BY <1>1, <1>3, <1>5 DEF Daily
<1> QED BY <1>3, <1>7, <1>8 DEF new

LEMMA RowStays ==
  ASSUME NEW c, NEW r, RowOK(c, r)
  PROVE  RowOK(c, r) /\ Lived(r, r) /\ Unpaid(r, r)
<1>1. r.intimacy \in Nat /\ r.progress \in Nat /\ r.album \in Nat
  BY RowFields
<1>2. Lived(r, r)
  BY <1>1 DEF Lived
<1> QED BY <1>2 DEF Unpaid

LEMMA RowTalk ==
  ASSUME NEW c, NEW r, RowOK(c, r), r.debut, NEW gain \in Nat
  PROVE  /\ RowOK(c, Talk(r, gain)) /\ Lived(r, Talk(r, gain))
         /\ Talk(r, gain).progress = r.progress
         /\ Talk(r, gain).intimacy > r.intimacy => Daily(r, Talk(r, gain))
<1> DEFINE already == IF r.day = "today" THEN r.best ELSE 0
<1>1. already \in Nat /\ r.intimacy \in Nat
  BY RowFields
<1>2. CASE gain <= already
  <2>1. Talk(r, gain) = r
    BY <1>1, <1>2 DEF Talk, Over
  <2> QED BY <1>1, <2>1, RowStays
<1>3. CASE gain > already
  <2>1. gain - already \in Nat /\ gain - already # 0
    BY <1>1, <1>3
  <2>2. Talk(r, gain) = DayWritten(r, "today", gain, gain - already)
    BY <1>3, <2>1 DEF Talk, Over, DayWritten
  <2> QED BY <2>1, <2>2, RowDay
<1> QED BY <1>1, <1>2, <1>3

LEMMA RowTalkDay ==
  ASSUME NEW c, NEW r, RowOK(c, r), r.debut, NEW gain \in Nat, NEW s,
         s.intimacy = r.intimacy, s.began \in {"today", "yesterday"},
         s.best = IF r.day = s.began THEN r.best ELSE 0
  PROVE  /\ RowOK(c, AbsorbTalkDay(r, s, gain)) /\ Lived(r, AbsorbTalkDay(r, s, gain))
         /\ AbsorbTalkDay(r, s, gain).progress = r.progress
         /\ AbsorbTalkDay(r, s, gain).intimacy > r.intimacy => Daily(r, AbsorbTalkDay(r, s, gain))
<1> DEFINE already == IF r.day = s.began THEN r.best ELSE 0
<1>1. already \in Nat /\ r.intimacy \in Nat
  BY RowFields
<1>2. CASE gain <= already
  <2>1. AbsorbTalkDay(r, s, gain) = r
    BY <1>1, <1>2 DEF AbsorbTalkDay, Over
  <2> QED BY <1>1, <2>1, RowStays
<1>3. CASE gain > already
  <2>1. gain - already \in Nat /\ gain - already # 0
    BY <1>1, <1>3
  <2>2. AbsorbTalkDay(r, s, gain) = DayWritten(r, s.began, gain, gain - already)
    <3>1. Over(gain, r.day, s.best, s.began) = gain - already
      BY <1>3 DEF Over
    <3> HIDE DEF already
    <3> QED BY <2>1, <3>1, Zenon DEF AbsorbTalkDay, DayWritten
  <2> QED BY <2>1, <2>2, RowDay
<1> QED BY <1>1, <1>2, <1>3

(* A rung at a time, and none above the top.                               *)
Climbs(r, x) ==
  /\ x \in TheRows /\ r.progress < Events /\ x.progress = r.progress + 1
  /\ x.album = r.album /\ x.intimacy = r.intimacy
  /\ x.debut = r.debut /\ x.letter = r.letter /\ x.ending = r.ending
  /\ x.photos = r.photos /\ x.marks = r.marks

LEMMA RungSeen ==
  ASSUME NEW c, NEW r, RowOK(c, r), r.debut, NEW x, Climbs(r, x)
  PROVE  /\ RowOK(c, SawUpTo(x)) /\ Lived(r, SawUpTo(x)) /\ SawUpTo(x).intimacy = r.intimacy
         /\ SawUpTo(x).progress = r.progress + 1
<1> DEFINE new == SawUpTo(x)
<1>0. r \in TheRows /\ r.progress \in 0..Events /\ r.album \in 0..Events /\ r.intimacy \in Nat
      /\ Events \in Nat /\ r.progress <= r.album
  BY RowFields, RomanceAssumption
<1> DEFINE top == IF x.progress > x.album THEN x.progress ELSE x.album
<1>1. top \in 0..Events /\ top >= r.album /\ top >= r.progress + 1
  BY <1>0 DEF Climbs, TheRows
<1>2. new = [x EXCEPT !.album = top]
  BY DEF SawUpTo
<1> HIDE DEF top, new
<1>3. new \in TheRows
  BY <1>1, <1>2 DEF TheRows, Climbs
<1>4. new.progress = r.progress + 1 /\ new.album = top /\ new.intimacy = r.intimacy
  BY <1>2 DEF TheRows, Climbs
<1>5. /\ new.debut = r.debut /\ new.letter = r.letter /\ new.ending = r.ending
      /\ new.photos = r.photos /\ new.marks = r.marks
  BY <1>2, Zenon DEF TheRows, Climbs
<1>6. ~ r.letter
  BY <1>0 DEF RowOK, Climbs
<1>7. RowOK(c, new)
  BY <1>1, <1>3, <1>4, <1>5, <1>6 DEF RowOK
<1>8. Lived(r, new)
  BY <1>0, <1>1, <1>4, <1>5 DEF Lived
<1> QED BY <1>4, <1>7, <1>8 DEF new

LEMMA RowRung ==
  ASSUME NEW c, NEW r, RowOK(c, r), r.debut, NEW new \in {SeeMainEvent(r), Booked(r)}
  PROVE  /\ RowOK(c, new) /\ Lived(r, new) /\ new.intimacy = r.intimacy
         /\ new.progress = r.progress \/ new.progress = r.progress + 1
         /\ r.progress = Events => new.progress = r.progress
<1>1. r \in TheRows /\ r.progress \in 0..Events /\ r.album \in 0..Events /\ r.intimacy \in Nat
      /\ Events \in Nat /\ r.progress <= r.album
  BY RowFields, RomanceAssumption
<1>2. CASE new = r
  BY <1>1, <1>2, RowStays
<1>4. CASE new = SeeMainEvent(r) /\ r.progress < Events
  <2> DEFINE x == [r EXCEPT !.progress = @ + 1]
  <2>1. new = SawUpTo(x)
    BY <1>1, <1>4 DEF SeeMainEvent
  <2>2. x \in TheRows /\ x.progress = r.progress + 1 /\ x.album = r.album /\ x.intimacy = r.intimacy
    BY <1>1, <1>4 DEF TheRows
  <2>3. /\ x.debut = r.debut /\ x.letter = r.letter /\ x.ending = r.ending
        /\ x.photos = r.photos /\ x.marks = r.marks
    BY <1>1, Zenon DEF TheRows
  <2> HIDE DEF x
  <2>4. Climbs(r, x)
    BY <1>4, <2>2, <2>3 DEF Climbs
  <2>5. /\ RowOK(c, SawUpTo(x)) /\ Lived(r, SawUpTo(x)) /\ SawUpTo(x).intimacy = r.intimacy
        /\ SawUpTo(x).progress = r.progress + 1
    BY <2>4, RungSeen
  <2> QED BY <1>1, <1>4, <2>1, <2>5
<1>5. CASE new = Booked(r) /\ r.progress < Events /\ new # r
  <2> DEFINE x == [r EXCEPT !.progress = @ + 1, !.quiet = TRUE]
  <2>1. new = SawUpTo(x)
    BY <1>5 DEF Booked
  <2> DEFINE n == r.progress + 1
  <2>2. x \in TheRows /\ x.progress = r.progress + 1 /\ x.album = r.album /\ x.intimacy = r.intimacy
    <3>1. n \in 0..Events
      BY <1>1, <1>5
    <3> HIDE DEF n
    <3>2. [r EXCEPT !.progress = n, !.quiet = TRUE] \in TheRows
      BY <1>1, <3>1 DEF TheRows
    <3>3. LET y == [r EXCEPT !.progress = n, !.quiet = TRUE] IN
          y.progress = n /\ y.album = r.album /\ y.intimacy = r.intimacy
      BY <1>1 DEF TheRows
    <3> QED BY <3>2, <3>3 DEF n
  <2>3. /\ x.debut = r.debut /\ x.letter = r.letter /\ x.ending = r.ending
        /\ x.photos = r.photos /\ x.marks = r.marks
    BY <1>1, Zenon DEF TheRows
  <2> HIDE DEF x
  <2>4. Climbs(r, x)
    BY <1>5, <2>2, <2>3 DEF Climbs
  <2>5. /\ RowOK(c, SawUpTo(x)) /\ Lived(r, SawUpTo(x)) /\ SawUpTo(x).intimacy = r.intimacy
        /\ SawUpTo(x).progress = r.progress + 1
    BY <2>4, RungSeen
  <2> QED BY <1>1, <1>5, <2>1, <2>5
<1>6. r.progress >= Events => new = r
  BY <1>1 DEF SeeMainEvent, Booked
<1> QED BY <1>1, <1>2, <1>4, <1>5, <1>6
-----------------------------------------------------------------------------
(* Romance: one character's record, scene and words.                       *)
TheLoves == [pending : BOOLEAN, row : [Candidates -> TheRows],
             armed : Candidates \cup {NoOne}, captured : Candidates \cup {NoOne}]

(* Only who was met has a letter opened, and none is while one of them has *)
(* confessed.                                                              *)
LoveOK(l) ==
  /\ l \in TheLoves
  /\ \A c \in Candidates : RowOK(c, l.row[c])
  /\ l.armed # NoOne => l.row[l.armed].debut /\ l.captured = NoOne
  /\ l.captured # NoOne => l.row[l.captured].ending

(* A record in which one row is another.                                   *)
WithRow(l, c, r) == [l EXCEPT !.row = [l.row EXCEPT ![c] = r]]

(* A later record, of the same confession.                                 *)
Follows(l, m) ==
  /\ LoveOK(m) /\ m.captured = l.captured
  /\ \A c \in Candidates : Lived(l.row[c], m.row[c])

LEMMA LoveFields ==
  ASSUME NEW l, LoveOK(l)
  PROVE  /\ l \in TheLoves /\ l.row \in [Candidates -> TheRows]
         /\ \A c \in Candidates : RowOK(c, l.row[c]) /\ l.row[c] \in TheRows
         /\ l.armed \in Candidates \cup {NoOne} /\ l.captured \in Candidates \cup {NoOne}
BY DEF LoveOK, TheLoves

LEMMA FollowsItself ==
  ASSUME NEW l, LoveOK(l)
  PROVE  Follows(l, l)
<1>1. \A c \in Candidates : Lived(l.row[c], l.row[c])
  BY LoveFields, RowStays
<1> QED BY <1>1 DEF Follows

LEMMA WithRowFields ==
  ASSUME NEW l, l \in TheLoves, NEW c \in Candidates, NEW r \in TheRows
  PROVE  /\ WithRow(l, c, r) \in TheLoves
         /\ WithRow(l, c, r).armed = l.armed /\ WithRow(l, c, r).captured = l.captured
         /\ WithRow(l, c, r).row[c] = r
         /\ \A x \in Candidates \ {c} : WithRow(l, c, r).row[x] = l.row[x]
<1> DEFINE rows == [l.row EXCEPT ![c] = r]
<1>1. l.row \in [Candidates -> TheRows]
  BY DEF TheLoves
<1>2. rows \in [Candidates -> TheRows] /\ rows[c] = r /\ \A x \in Candidates \ {c} : rows[x] = l.row[x]
  BY <1>1
<1> HIDE DEF rows
<1> DEFINE m == [l EXCEPT !.row = rows]
<1>3. m \in TheLoves /\ m.armed = l.armed /\ m.captured = l.captured /\ m.row = rows
  BY <1>2 DEF TheLoves
<1>4. m = WithRow(l, c, r)
  BY DEF WithRow, rows
<1> QED BY <1>2, <1>3, <1>4

LEMMA OneRow ==
  ASSUME NEW l, LoveOK(l), NEW c \in Candidates, NEW r, RowOK(c, r), Lived(l.row[c], r)
  PROVE  Follows(l, WithRow(l, c, r))
<1> DEFINE m == WithRow(l, c, r)
<1>1. l \in TheLoves /\ r \in TheRows
  BY RowFields DEF LoveOK
<1>2. /\ m \in TheLoves /\ m.armed = l.armed /\ m.captured = l.captured /\ m.row[c] = r
      /\ \A x \in Candidates \ {c} : m.row[x] = l.row[x]
  BY <1>1, WithRowFields
<1> HIDE DEF m
<1>3. \A x \in Candidates : RowOK(x, m.row[x]) /\ Lived(l.row[x], m.row[x])
  BY <1>2, RowStays, LoveFields
<1>4. l.armed # NoOne => m.row[l.armed].debut /\ l.captured = NoOne
  BY <1>3, LoveFields DEF LoveOK, Lived
<1>5. l.captured # NoOne => m.row[l.captured].ending
  BY <1>3, LoveFields DEF LoveOK, Lived
<1>6. LoveOK(m)
  BY <1>2, <1>3, <1>4, <1>5 DEF LoveOK
<1> QED BY <1>2, <1>3, <1>6 DEF Follows, m

LEMMA FollowsTwice ==
  ASSUME NEW l, NEW m, NEW n, LoveOK(l), Follows(l, m), Follows(m, n)
  PROVE  Follows(l, n)
<1>1. \A c \in Candidates : /\ Lived(l.row[c], m.row[c]) /\ Lived(m.row[c], n.row[c])
                            /\ RowOK(c, l.row[c]) /\ RowOK(c, m.row[c]) /\ RowOK(c, n.row[c])
  BY LoveFields DEF Follows
<1>2. ASSUME NEW c \in Candidates
      PROVE  Lived(l.row[c], n.row[c])
  <2>1. /\ l.row[c].intimacy \in Nat /\ l.row[c].progress \in Nat /\ l.row[c].album \in Nat
        /\ m.row[c].intimacy \in Nat /\ m.row[c].progress \in Nat /\ m.row[c].album \in Nat
        /\ n.row[c].intimacy \in Nat /\ n.row[c].progress \in Nat /\ n.row[c].album \in Nat
    BY <1>1, RowFields
  <2> QED BY <1>1, <2>1 DEF Lived
<1> QED BY <1>2 DEF Follows

-----------------------------------------------------------------------------
(* What is said, and what is played.                                       *)
Her == {"talk", "main", "letter"}
TheTalks == [of : Candidates \cup {NoOne}, what : Her \cup {"none", "staff"}]
TheSaid == [key : TheTalks, about : TheTalks, credited : BOOLEAN, out : BOOLEAN]
TheScenes == [of : Candidates \cup {NoOne},
              what : Her \cup {"none", "staff", "tutorial", "meeting", "replay"}, sure : BOOLEAN,
              began : {"today", "yesterday", "older"}, intimacy : Nat, best : Nat]
TheTitles == {"none", "owed", "tutorial", "replay"}

(* An event is with somebody who is on stage, a letter with whom all was   *)
(* lived through.                                                          *)
TalkOK(l, t) ==
  \/ t = NoTalk \/ t = [of |-> NoOne, what |-> "staff"]
  \/ /\ t.of \in Candidates /\ t.what \in Her
     /\ l.captured = NoOne /\ l.row[t.of].debut
     /\ t.what = "letter" => l.row[t.of].progress = Events

(* The shadow was handed what the save still holds.                        *)
SceneOK(l, s) ==
  \/ s = NoScene
  \/ s.of = NoOne /\ s.what = "staff" /\ s.began # "older"
  \/ /\ s.of \in Candidates /\ s.what \in Her \cup {"tutorial", "meeting", "replay"}
     /\ s.began # "older" /\ s.intimacy = l.row[s.of].intimacy
     /\ s.best = IF l.row[s.of].day = s.began THEN l.row[s.of].best ELSE 0

(* What is talked about is what is played; nobody offline plays anything   *)
(* but the ending on the title page.                                       *)
InOneScene(d, s, ti, here) ==
  /\ d.out => d.key = NoTalk
  /\ d.about # NoTalk => s.of = d.about.of /\ s.what = d.about.what /\ d.about.what \in Her
  /\ s.what \in Her => d.about = [of |-> s.of, what |-> s.what]
  /\ ti = "owed" => s = NoScene
  /\ ~ here => d = NothingSaid /\ (s # NoScene => ti = "replay")

Fits(l, d, s, ti, here) ==
  /\ LoveOK(l) /\ d \in TheSaid /\ s \in TheScenes /\ ti \in TheTitles
  /\ TalkOK(l, d.key) /\ TalkOK(l, d.about) /\ SceneOK(l, s)
  /\ InOneScene(d, s, ti, here)

LEMMA NothingFits ==
  /\ NoTalk \in TheTalks /\ NothingSaid \in TheSaid /\ NoScene \in TheScenes
  /\ NothingSaid.key = NoTalk /\ NothingSaid.about = NoTalk /\ NothingSaid.out = FALSE
  /\ NoScene.of = NoOne /\ NoScene.what = "none" /\ NoScene.began = "older"
  /\ NoTalk.of = NoOne /\ NoTalk.what = "none"
BY DEF NoTalk, NothingSaid, NoScene, TheTalks, TheSaid, TheScenes, Her

LEMMA TalkStays ==
  ASSUME NEW l, LoveOK(l), NEW m, Follows(l, m), NEW t, TalkOK(l, t)
  PROVE  TalkOK(m, t)
<1>1. CASE t = NoTalk \/ t = [of |-> NoOne, what |-> "staff"]
  BY <1>1 DEF TalkOK
<1>2. CASE ~ (t = NoTalk \/ t = [of |-> NoOne, what |-> "staff"])
  <2>1. /\ t.of \in Candidates /\ t.what \in Her
        /\ l.captured = NoOne /\ l.row[t.of].debut
        /\ t.what = "letter" => l.row[t.of].progress = Events
    BY <1>2 DEF TalkOK
  <2>2. Lived(l.row[t.of], m.row[t.of]) /\ m.captured = NoOne
    BY <2>1 DEF Follows
  <2>3. m.row[t.of].debut /\ m.row[t.of].progress >= l.row[t.of].progress
    BY <2>1, <2>2 DEF Lived
  <2>4. m.row[t.of].progress \in 0..Events /\ Events \in Nat
    BY <2>1, RowFields, LoveFields, RomanceAssumption DEF Follows
  <2>5. t.what = "letter" => m.row[t.of].progress = Events
    BY <2>1, <2>3, <2>4
  <2> QED BY <2>1, <2>2, <2>3, <2>5 DEF TalkOK
<1> QED BY <1>1, <1>2

(* Nothing is talked about while nothing is played.                        *)
LEMMA NothingAbout ==
  ASSUME NEW l, NEW d, NEW ti, NEW here, Fits(l, d, NoScene, ti, here)
  PROVE  d.about = NoTalk /\ LoveOK(l) /\ d \in TheSaid /\ TalkOK(l, d.key)
<1>1. "none" \notin Her
  BY DEF Her
<1> QED BY <1>1, NothingFits DEF Fits, InOneScene

(* Whoever is in no scene fits whatever the record has become.             *)
LEMMA AtRest ==
  ASSUME NEW m, LoveOK(m), NEW d \in TheSaid, TalkOK(m, d.key), d.about = NoTalk,
         d.out => d.key = NoTalk, NEW ti \in TheTitles, NEW here, here \/ d = NothingSaid
  PROVE  Fits(m, d, NoScene, ti, here)
<1>1. InOneScene(d, NoScene, ti, here)
  BY NothingFits DEF InOneScene, Her
<1>2. TalkOK(m, d.about) /\ SceneOK(m, NoScene)
  BY DEF TalkOK, SceneOK
<1> QED BY <1>1, <1>2, NothingFits DEF Fits

LEMMA LeftAlone ==
  ASSUME NEW m, LoveOK(m), NEW ti \in TheTitles, NEW here
  PROVE  Fits(m, NothingSaid, NoScene, ti, here)
<1>1. TalkOK(m, NoTalk)
  BY DEF TalkOK
<1> QED BY <1>1, NothingFits, AtRest
-----------------------------------------------------------------------------
(* Romance: what one step leaves of a record.                              *)

(* Remembers, for the record l that becomes m.                             *)
Recalls(l, m) ==
  \A c \in Candidates :
    LET old == l.row[c]
        new == m.row[c]
        forgets == l.captured = c /\ m.captured = NoOne
    IN /\ new.album >= old.album /\ (old.ending => new.ending) /\ (old.photos => new.photos)
       /\ forgets \/ /\ old.debut => new.debut
                     /\ new.intimacy >= old.intimacy /\ new.progress >= old.progress
                     /\ old.marks => new.marks

(* PaidOnce, for one candidate's row, who was talked about and who played. *)
PaysOnce(old, new, ended, what, played) ==
  /\ new.progress > old.progress
       => new.progress = old.progress + 1 /\ ended /\ what = "main"
  /\ new.intimacy > old.intimacy
       => /\ ended /\ played \in {"talk", "main"}
          /\ played = "talk" => Daily(old, new)

(* One step of one character.                                              *)
Steps(l, d, s, m, s2) ==
  /\ Recalls(l, m)
  /\ \A c \in Candidates :
       PaysOnce(l.row[c], m.row[c], s.of = c /\ s2 = NoScene, d.about.what, s.what)

LEMMA FollowsRecalls ==
  ASSUME NEW l, NEW m, \A c \in Candidates : Lived(l.row[c], m.row[c])
  PROVE  Recalls(l, m)
BY DEF Recalls, Lived

LEMMA UnpaidPays ==
  ASSUME NEW c, NEW r, RowOK(c, r), NEW new, Unpaid(r, new),
         NEW ended, NEW what, NEW played
  PROVE  PaysOnce(r, new, ended, what, played)
<1>1. r.intimacy \in Nat /\ r.progress \in Nat
  BY RowFields
<1> QED BY <1>1 DEF PaysOnce, Unpaid

(* A record none of whose rows is paid anything.                           *)
LEMMA UnpaidSteps ==
  ASSUME NEW l, LoveOK(l), NEW m, \A c \in Candidates : Unpaid(l.row[c], m.row[c]),
         Recalls(l, m), NEW d, NEW s, NEW s2
  PROVE  Steps(l, d, s, m, s2)
<1>1. ASSUME NEW c \in Candidates
      PROVE  PaysOnce(l.row[c], m.row[c], s.of = c /\ s2 = NoScene, d.about.what, s.what)
  BY <1>1, LoveFields, UnpaidPays
<1> QED BY <1>1 DEF Steps

(* One row rewritten without pay.                                          *)
LEMMA OneRowUnpaid ==
  ASSUME NEW l, LoveOK(l), NEW c \in Candidates, NEW r, RowOK(c, r), Lived(l.row[c], r),
         Unpaid(l.row[c], r), NEW d, NEW s, NEW s2
  PROVE  Follows(l, WithRow(l, c, r)) /\ Steps(l, d, s, WithRow(l, c, r), s2)
<1> DEFINE m == WithRow(l, c, r)
<1>1. Follows(l, m)
  BY OneRow
<1>2. m.row[c] = r /\ \A x \in Candidates \ {c} : m.row[x] = l.row[x]
  BY WithRowFields, RowFields DEF LoveOK
<1> HIDE DEF m
<1>3. \A x \in Candidates : Unpaid(l.row[x], m.row[x])
  BY <1>2 DEF Unpaid
<1>4. Recalls(l, m)
  BY <1>1, FollowsRecalls DEF Follows
<1> QED BY <1>1, <1>3, <1>4, UnpaidSteps DEF m

(* One row paid at the end of her scene.                                   *)
LEMMA OneRowPaid ==
  ASSUME NEW l, LoveOK(l), NEW c \in Candidates, NEW r, RowOK(c, r), Lived(l.row[c], r),
         NEW d, NEW s, s.of = c, PaysOnce(l.row[c], r, TRUE, d.about.what, s.what)
  PROVE  Follows(l, WithRow(l, c, r)) /\ Steps(l, d, s, WithRow(l, c, r), NoScene)
<1> DEFINE m == WithRow(l, c, r)
<1>1. Follows(l, m)
  BY OneRow
<1>2. m.row[c] = r /\ \A x \in Candidates \ {c} : m.row[x] = l.row[x]
  BY WithRowFields, RowFields DEF LoveOK
<1> HIDE DEF m
<1>3. ASSUME NEW x \in Candidates
      PROVE  PaysOnce(l.row[x], m.row[x], s.of = x /\ NoScene = NoScene, d.about.what, s.what)
  <2>1. CASE x = c
    BY <1>2, <2>1 DEF PaysOnce
  <2>2. CASE x # c
    <3>1. Unpaid(l.row[x], m.row[x])
      BY <1>2, <2>2 DEF Unpaid
    <3> QED BY <3>1, LoveFields, UnpaidPays
  <2> QED BY <2>1, <2>2
<1>4. Recalls(l, m)
  BY <1>1, FollowsRecalls DEF Follows
<1> QED BY <1>1, <1>3, <1>4 DEF Steps, m

(* The record as it is, but for what is no row.                            *)
LEMMA SameRows ==
  ASSUME NEW l, LoveOK(l), NEW m, m \in TheLoves, m.row = l.row, m.captured = l.captured,
         m.armed # NoOne => l.row[m.armed].debut /\ l.captured = NoOne, NEW d, NEW s, NEW s2
  PROVE  Follows(l, m) /\ Steps(l, d, s, m, s2)
<1>1. LoveOK(m)
  BY DEF LoveOK
<1>2. Follows(l, m)
  BY <1>1, LoveFields, RowStays DEF Follows
<1>3. Recalls(l, m)
  BY <1>2, FollowsRecalls DEF Follows
<1>4. \A c \in Candidates : Unpaid(l.row[c], m.row[c])
  BY DEF Unpaid
<1> QED BY <1>2, <1>3, <1>4, UnpaidSteps

(* Every row rewritten without pay.                                        *)
LEMMA EveryRow ==
  ASSUME NEW l, LoveOK(l), NEW rows \in [Candidates -> TheRows],
         \A c \in Candidates : /\ RowOK(c, rows[c]) /\ Lived(l.row[c], rows[c])
                               /\ Unpaid(l.row[c], rows[c]),
         NEW d, NEW s, NEW s2
  PROVE  LET m == [l EXCEPT !.row = rows] IN Follows(l, m) /\ Steps(l, d, s, m, s2)
<1> DEFINE m == [l EXCEPT !.row = rows]
<1>1. m \in TheLoves /\ m.armed = l.armed /\ m.captured = l.captured /\ m.row = rows
  BY DEF TheLoves, LoveOK
<1> HIDE DEF m
<1>2. l.armed # NoOne => m.row[l.armed].debut /\ l.captured = NoOne
  BY <1>1, LoveFields DEF LoveOK, Lived
<1>3. l.captured # NoOne => m.row[l.captured].ending
  BY <1>1, LoveFields DEF LoveOK, Lived
<1>4. LoveOK(m)
  BY <1>1, <1>2, <1>3 DEF LoveOK
<1>5. Follows(l, m)
  BY <1>1, <1>4 DEF Follows
<1>6. Recalls(l, m)
  BY <1>5, FollowsRecalls DEF Follows
<1> QED BY <1>1, <1>5, <1>6, UnpaidSteps DEF m
-----------------------------------------------------------------------------
(* Romance: the end of a scene.                                            *)

(* Whose event it is, and what is known of her then.                       *)
LEMMA HerEvent ==
  ASSUME NEW l, NEW d, NEW s, NEW ti, NEW here, Fits(l, d, s, ti, here), s.what \in Her
  PROVE  /\ s.of \in Candidates /\ d.about = [of |-> s.of, what |-> s.what]
         /\ d.about # NoTalk /\ d.about.of = s.of /\ d.about.what = s.what
         /\ l.captured = NoOne /\ l.row[s.of].debut
         /\ s.what = "letter" => l.row[s.of].progress = Events
         /\ s.intimacy = l.row[s.of].intimacy /\ s.began \in {"today", "yesterday"}
         /\ s.best = IF l.row[s.of].day = s.began THEN l.row[s.of].best ELSE 0
<1>1. s # NoScene /\ s.what # "staff" /\ s.what # "none"
  BY NothingFits DEF Her
<1>2. d.about = [of |-> s.of, what |-> s.what]
  BY DEF Fits, InOneScene
<1>3. d.about.of = s.of /\ d.about.what = s.what /\ d.about # NoTalk
  BY <1>1, <1>2, NothingFits
<1>4. d.about # [of |-> NoOne, what |-> "staff"]
  BY <1>1, <1>3
<1>5. /\ s.of \in Candidates /\ l.captured = NoOne /\ l.row[s.of].debut
      /\ s.what = "letter" => l.row[s.of].progress = Events
  BY <1>3, <1>4 DEF Fits, TalkOK
<1>6. /\ s.began # "older" /\ s.intimacy = l.row[s.of].intimacy
      /\ s.best = IF l.row[s.of].day = s.began THEN l.row[s.of].best ELSE 0
  BY <1>1 DEF Fits, SceneOK
<1>7. s.began \in {"today", "yesterday", "older"}
  BY DEF Fits, TheScenes
<1> QED BY <1>2, <1>3, <1>5, <1>6, <1>7

(* The other scenes pay nobody.                                            *)
LEMMA OtherScene ==
  ASSUME NEW l, NEW d, NEW s, NEW ti, NEW here, Fits(l, d, s, ti, here), s.what \notin Her
  PROVE  /\ d.about = NoTalk /\ LoveOK(l)
         /\ s.what \in {"tutorial", "meeting"} => s.of \in Candidates
<1>1. d.about = NoTalk /\ LoveOK(l)
  BY DEF Fits, InOneScene
<1>2. s.what \in {"tutorial", "meeting"} => s.of \in Candidates
  BY NothingFits DEF Fits, SceneOK
<1> QED BY <1>1, <1>2

(* The answers of a main event, with the pictures and the marks.           *)
MainRow(r, s, gain) == AbsorbMainEvent(AbsorbMarks(AbsorbPhotos(r)), s, gain)

LEMMA RowMainEvent ==
  ASSUME NEW c, NEW r, RowOK(c, r), r.debut, NEW s, s.intimacy = r.intimacy, NEW gain \in Nat
  PROVE  /\ RowOK(c, MainRow(r, s, gain)) /\ Lived(r, MainRow(r, s, gain))
         /\ MainRow(r, s, gain).progress = r.progress
<1> DEFINE shown == AbsorbPhotos(r)
           marked == AbsorbMarks(shown)
<1>1. RowOK(c, shown) /\ Lived(r, shown) /\ Unpaid(r, shown)
  BY RowMarked
<1> HIDE DEF shown
<1>2. RowOK(c, marked) /\ Lived(shown, marked) /\ Unpaid(shown, marked)
  BY <1>1, RowMarked
<1> HIDE DEF marked
<1>3. marked.debut /\ s.intimacy = marked.intimacy
  BY <1>1, <1>2 DEF Unpaid, Lived
<1> DEFINE new == AbsorbMainEvent(marked, s, gain)
<1>4. RowOK(c, new) /\ Lived(marked, new) /\ new.progress = marked.progress
  BY <1>2, <1>3, RowMain
<1>5. new = MainRow(r, s, gain)
  BY DEF MainRow, shown, marked
<1> HIDE DEF new
<1>6. /\ r.intimacy \in Nat /\ r.progress \in Nat /\ r.album \in Nat
      /\ shown.intimacy \in Nat /\ shown.progress \in Nat /\ shown.album \in Nat
      /\ marked.intimacy \in Nat /\ marked.progress \in Nat /\ marked.album \in Nat
      /\ new.intimacy \in Nat /\ new.progress \in Nat /\ new.album \in Nat
  BY <1>1, <1>2, <1>4, RowFields
<1>7. Lived(r, new)
  BY <1>1, <1>2, <1>4, <1>6 DEF Lived
<1>8. new.progress = r.progress
  BY <1>1, <1>2, <1>4 DEF Unpaid
<1> QED BY <1>4, <1>5, <1>7, <1>8

(* The record as a row is taken again: rows are written one after another. *)
LEMMA TakenTwice ==
  ASSUME NEW l, l \in TheLoves, NEW c \in Candidates, NEW r \in TheRows, NEW r2 \in TheRows
  PROVE  WithRow(WithRow(l, c, r), c, r2) = WithRow(l, c, r2)
<1>1. l.row \in [Candidates -> TheRows]
  BY DEF TheLoves
<1>2. [[l.row EXCEPT ![c] = r] EXCEPT ![c] = r2] = [l.row EXCEPT ![c] = r2]
  BY <1>1
<1>3. WithRow(l, c, r).row = [l.row EXCEPT ![c] = r]
  BY DEF WithRow, TheLoves
<1>4. WithRow(WithRow(l, c, r), c, r2) = [WithRow(l, c, r) EXCEPT !.row = [l.row EXCEPT ![c] = r2]]
  BY <1>2, <1>3 DEF WithRow
<1> QED BY <1>4 DEF WithRow, TheLoves

(* A main event writes her row three times, and nobody else's.             *)
LEMMA Answered ==
  ASSUME NEW l, l \in TheLoves, NEW s, s.what = "main", s.of \in Candidates,
         RowOK(s.of, l.row[s.of]), l.row[s.of].debut, s.intimacy = l.row[s.of].intimacy,
         NEW opened \in BOOLEAN, NEW gain \in Nat, AbsorbAll(l, s, opened, gain) # l
  PROVE  AbsorbAll(l, s, opened, gain) = WithRow(l, s.of, MainRow(l.row[s.of], s, gain))
<1>2. RowOK(s.of, MainRow(l.row[s.of], s, gain))
  BY RowMainEvent
<1> DEFINE m == AbsorbAll(l, s, opened, gain)
           r == MainRow(l.row[s.of], s, gain)
           shown == AbsorbPhotos(l.row[s.of])
           marked == AbsorbMarks(shown)
           one == WithRow(l, s.of, shown)
           two == WithRow(l, s.of, marked)
<1>3. RowOK(s.of, shown) /\ RowOK(s.of, marked)
  BY RowMarked
<1>4. shown \in TheRows /\ marked \in TheRows /\ r \in TheRows
  BY <1>2, <1>3, RowFields
<1>5. TakeRecord(l, s) = one /\ one.row[s.of] = shown
  <2>1. TakeRecord(l, s) = one
    BY DEF TakeRecord, WithRow
  <2> QED BY <1>4, <2>1, WithRowFields
<1>6. TakeMarks(one, s) = WithRow(one, s.of, marked)
  BY <1>5 DEF TakeMarks, WithRow
<1>7. TakeMarks(one, s) = two /\ two.row[s.of] = marked
  BY <1>4, <1>6, TakenTwice, WithRowFields
<1>8. MainEventCredit(two, s, gain) = WithRow(two, s.of, r)
  BY <1>7 DEF MainEventCredit, WithRow, MainRow
<1>9. m = MainEventCredit(TakeMarks(TakeRecord(l, s), s), s, gain)
  BY DEF AbsorbAll
<1> HIDE DEF shown, marked, r, one, two, m
<1>10. m = WithRow(two, s.of, r)
  BY <1>5, <1>7, <1>8, <1>9
<1> QED BY <1>4, <1>10, TakenTwice DEF two, m, r

LEMMA Absorbs ==
  ASSUME NEW l, NEW d, NEW s, NEW ti, NEW here, Fits(l, d, s, ti, here),
         NEW opened \in BOOLEAN, NEW gain \in Nat
  PROVE  LET m == AbsorbAll(l, s, opened, gain) IN
         Follows(l, m) /\ Steps(l, d, s, m, NoScene)
<1> DEFINE m == AbsorbAll(l, s, opened, gain)
<1>0. LoveOK(l) /\ l \in TheLoves
  BY DEF Fits, LoveOK
<1>1. Follows(l, l) /\ Steps(l, d, s, l, NoScene)
  BY <1>0, SameRows, LoveFields DEF LoveOK
<1>2. CASE m = l
  BY <1>1, <1>2
<1>3. CASE s.what = "talk" /\ m # l
  <2> DEFINE r == AbsorbTalkDay(l.row[s.of], s, gain)
  <2>1. m = WithRow(l, s.of, r)
    BY <1>3 DEF AbsorbAll, WithRow
  <2>2. s.what \in Her
    BY <1>3 DEF Her
  <2>3. RowOK(s.of, l.row[s.of]) /\ l.row[s.of].debut /\ s.of \in Candidates
    BY <1>0, <2>2, HerEvent, LoveFields
  <2>4. /\ RowOK(s.of, r) /\ Lived(l.row[s.of], r) /\ r.progress = l.row[s.of].progress
        /\ r.intimacy > l.row[s.of].intimacy => Daily(l.row[s.of], r)
    <3>1. /\ s.intimacy = l.row[s.of].intimacy /\ s.began \in {"today", "yesterday"}
          /\ s.best = IF l.row[s.of].day = s.began THEN l.row[s.of].best ELSE 0
      BY <2>2, HerEvent
    <3> QED BY <2>3, <3>1, RowTalkDay
  <2> HIDE DEF r
  <2>5. PaysOnce(l.row[s.of], r, TRUE, d.about.what, s.what)
    <3>1. l.row[s.of].progress \in Nat
      BY <2>3, RowFields
    <3> QED BY <1>3, <2>4, <3>1 DEF PaysOnce
  <2> QED BY <1>0, <2>1, <2>3, <2>4, <2>5, OneRowPaid
<1>4. CASE s.what = "main" /\ m # l
  <2> DEFINE r == MainRow(l.row[s.of], s, gain)
  <2>2. s.what \in Her
    BY <1>4 DEF Her
  <2>3. RowOK(s.of, l.row[s.of]) /\ l.row[s.of].debut /\ s.of \in Candidates
    BY <1>0, <2>2, HerEvent, LoveFields
  <2>4. RowOK(s.of, r) /\ Lived(l.row[s.of], r) /\ r.progress = l.row[s.of].progress
    <3>1. s.intimacy = l.row[s.of].intimacy
      BY <2>2, HerEvent
    <3> QED BY <2>3, <3>1, RowMainEvent
  <2>1. m = WithRow(l, s.of, r)
    <3>1. s.intimacy = l.row[s.of].intimacy
      BY <2>2, HerEvent
    <3> QED BY <1>0, <1>4, <2>3, <3>1, Answered
  <2> HIDE DEF r
  <2>5. PaysOnce(l.row[s.of], r, TRUE, d.about.what, s.what)
    <3>1. l.row[s.of].progress \in Nat
      BY <2>3, RowFields
    <3> QED BY <1>4, <2>4, <3>1 DEF PaysOnce
  <2> QED BY <1>0, <2>1, <2>3, <2>4, <2>5, OneRowPaid
<1>5. CASE s.what \in {"tutorial", "meeting"} /\ m # l
  <2>1. s.of \in Candidates
    BY <1>5, OtherScene DEF Her
  <2>2. m = WithRow(l, s.of, Met(l.row[s.of]))
    BY <1>5 DEF AbsorbAll, Absorb, WithRow, Met
  <2> QED BY <1>0, <2>1, <2>2, OneRowUnpaid, RowMet, LoveFields
<1>6. CASE s.what = "letter" /\ m # l
  <2> DEFINE whose == IF opened THEN s.of ELSE NoOne
  <2>1. s.of \in Candidates /\ l.captured = NoOne /\ l.row[s.of].debut
    BY <1>6, HerEvent DEF Her
  <2>2. whose \in Candidates \cup {NoOne} /\ (whose # NoOne => l.row[whose].debut)
    BY <2>1
  <2>3. m = [l EXCEPT !.armed = whose]
    BY <1>6 DEF AbsorbAll, Absorb
  <2> HIDE DEF whose, m
  <2>4. m \in TheLoves /\ m.row = l.row /\ m.captured = l.captured /\ m.armed = whose
    BY <1>0, <2>2, <2>3 DEF TheLoves
  <2> QED BY <1>0, <2>1, <2>2, <2>4, SameRows DEF m
<1>7. m = l \/ s.what \in {"talk", "main", "tutorial", "meeting", "letter"}
  BY DEF AbsorbAll, Absorb
<1> QED BY <1>2, <1>3, <1>4, <1>5, <1>6, <1>7

(* A rung after what the scene wrote: for a main event one, and for a      *)
(* letter none, for all was lived through.                                 *)
LEMMA RungAfter ==
  ASSUME NEW l, NEW d, NEW s, NEW ti, NEW here, Fits(l, d, s, ti, here),
         s.what \in Her, s.what # "talk", NEW m, Follows(l, m), Steps(l, d, s, m, NoScene),
         m.row[s.of].progress = l.row[s.of].progress,
         NEW r \in {SeeMainEvent(m.row[s.of]), Booked(m.row[s.of])}
  PROVE  LET n == WithRow(m, s.of, r) IN Follows(l, n) /\ Steps(l, d, s, n, NoScene)
<1> DEFINE n == WithRow(m, s.of, r)
           old == l.row[s.of]
           mid == m.row[s.of]
<1>1. s.what \in {"main", "letter"}
  BY DEF Her
<1>2. LoveOK(l) /\ LoveOK(m)
  BY DEF Fits, Follows
<1>3. /\ s.of \in Candidates /\ old.debut /\ d.about.what = s.what
      /\ s.what = "letter" => old.progress = Events
  <2>1. s.of \in Candidates /\ l.row[s.of].debut
    BY HerEvent
  <2>2. d.about.what = s.what
    BY HerEvent
  <2>3. s.what = "letter" => l.row[s.of].progress = Events
    BY HerEvent
  <2> QED BY <2>1, <2>2, <2>3
<1>4. RowOK(s.of, old) /\ RowOK(s.of, mid) /\ Lived(old, mid)
  BY <1>2, <1>3, LoveFields DEF Follows
<1>5. mid.debut
  BY <1>3, <1>4 DEF Lived
<1>6. /\ RowOK(s.of, r) /\ Lived(mid, r) /\ r.intimacy = mid.intimacy
      /\ r.progress = mid.progress \/ r.progress = mid.progress + 1
      /\ mid.progress = Events => r.progress = mid.progress
  BY <1>4, <1>5, RowRung
<1>7. Follows(l, n)
  <2>1. Follows(m, n)
    BY <1>2, <1>3, <1>6, OneRow
  <2> QED BY <1>2, <2>1, FollowsTwice
<1>8. n.row[s.of] = r /\ \A x \in Candidates \ {s.of} : n.row[x] = m.row[x]
  BY <1>2, <1>3, <1>6, WithRowFields, RowFields DEF LoveOK
<1>9. PaysOnce(old, r, TRUE, d.about.what, s.what)
  <2>1. PaysOnce(old, mid, s.of = s.of /\ NoScene = NoScene, d.about.what, s.what)
    BY <1>3 DEF Steps
  <2>2. old.progress \in Nat /\ mid.progress = old.progress /\ old.intimacy \in Nat
    BY <1>4, RowFields
  <2>3. r.progress > old.progress => r.progress = old.progress + 1 /\ d.about.what = "main"
    BY <1>1, <1>3, <1>6, <2>2
  <2>4. r.intimacy > old.intimacy => s.what = "main"
    BY <1>1, <1>6, <2>1 DEF PaysOnce
  <2> QED BY <2>3, <2>4 DEF PaysOnce
<1> HIDE DEF n, old, mid
<1>10. ASSUME NEW x \in Candidates
       PROVE  PaysOnce(l.row[x], n.row[x], s.of = x /\ NoScene = NoScene, d.about.what, s.what)
  <2>1. CASE x = s.of
    BY <1>8, <1>9, <2>1 DEF PaysOnce, old
  <2>2. CASE x # s.of
    BY <1>8, <2>2 DEF Steps
  <2> QED BY <2>1, <2>2
<1>11. Recalls(l, n)
  BY <1>7, FollowsRecalls DEF Follows
<1> QED BY <1>7, <1>10, <1>11 DEF Steps, n

LEMMA Credits ==
  ASSUME NEW l, NEW d, NEW s, NEW ti, NEW here, Fits(l, d, s, ti, here),
         NEW opened \in BOOLEAN, NEW gain \in Nat, NEW scripts \in BOOLEAN
  PROVE  LET n == RomanceCredit(AbsorbAll(l, s, opened, gain), d.about, Credited(s), gain, scripts)
         IN  Follows(l, n) /\ Steps(l, d, s, n, NoScene)
<1> DEFINE m == AbsorbAll(l, s, opened, gain)
           n == RomanceCredit(m, d.about, Credited(s), gain, scripts)
<1>1. Follows(l, m) /\ Steps(l, d, s, m, NoScene)
  BY Absorbs
<1>2. LoveOK(l) /\ l \in TheLoves
  BY DEF Fits, LoveOK
<1>3. CASE n = m
  BY <1>1, <1>3
<1>4. CASE s.what \notin Her
  <2>1. d.about = NoTalk
    BY <1>4, OtherScene
  <2>2. n = m
    BY <2>1 DEF RomanceCredit
  <2> QED BY <1>1, <2>2
<1>5. CASE s.what = "talk" /\ n # m
  <2>1. s.what \in Her
    BY <1>5 DEF Her
  <2>2. /\ s.of \in Candidates /\ l.row[s.of].debut
        /\ d.about # NoTalk /\ d.about.of = s.of /\ d.about.what = "talk"
    BY <1>5, <2>1, HerEvent
  <2> DEFINE r == Talk(l.row[s.of], gain)
  <2>3. ~ Credited(s) /\ n = [m EXCEPT !.row[s.of] = Talk(@, gain)]
    BY <1>5, <2>2 DEF RomanceCredit
  <2>4. m = l
    BY <1>5, <2>3 DEF AbsorbAll, Credited
  <2>5. n = WithRow(l, s.of, r)
    BY <2>3, <2>4 DEF WithRow
  <2>6. RowOK(s.of, l.row[s.of])
    BY <1>2, <2>2, LoveFields
  <2>7. /\ RowOK(s.of, r) /\ Lived(l.row[s.of], r) /\ r.progress = l.row[s.of].progress
        /\ r.intimacy > l.row[s.of].intimacy => Daily(l.row[s.of], r)
    BY <2>2, <2>6, RowTalk
  <2> HIDE DEF r, n, m
  <2>8. PaysOnce(l.row[s.of], r, TRUE, d.about.what, s.what)
    <3>1. l.row[s.of].progress \in Nat
      BY <2>6, RowFields
    <3> QED BY <1>5, <2>7, <3>1 DEF PaysOnce
  <2>9. Follows(l, n) /\ Steps(l, d, s, n, NoScene)
    BY <1>2, <2>2, <2>5, <2>7, <2>8, OneRowPaid
  <2> QED BY <2>9 DEF n, m
<1>6. CASE s.what \in {"main", "letter"}
  <2>1. s.what \in Her
    BY <1>6 DEF Her
  <2>2. /\ s.of \in Candidates /\ l.row[s.of].debut
        /\ d.about # NoTalk /\ d.about.of = s.of /\ d.about.what = s.what
        /\ s.intimacy = l.row[s.of].intimacy
    BY <2>1, HerEvent
  <2>3. RowOK(s.of, l.row[s.of])
    BY <1>2, <2>2, LoveFields
  <2>4. m.row[s.of].progress = l.row[s.of].progress
    <3>1. CASE m = l
      BY <3>1
    <3>2. CASE s.what = "main" /\ m # l
      <4>1. m = WithRow(l, s.of, MainRow(l.row[s.of], s, gain))
        BY <1>2, <2>2, <2>3, <3>2, Answered
      <4>2. /\ RowOK(s.of, MainRow(l.row[s.of], s, gain))
            /\ MainRow(l.row[s.of], s, gain).progress = l.row[s.of].progress
        BY <2>2, <2>3, RowMainEvent
      <4>3. MainRow(l.row[s.of], s, gain) \in TheRows
        BY <4>2, RowFields
      <4>4. m.row[s.of] = MainRow(l.row[s.of], s, gain)
        BY <1>2, <2>2, <4>1, <4>3, WithRowFields
      <4> QED BY <4>2, <4>4
    <3>3. CASE s.what = "letter" /\ m # l
      <4>1. m = [l EXCEPT !.armed = IF opened THEN s.of ELSE NoOne]
        BY <3>3 DEF AbsorbAll, Absorb
      <4>2. m.row = l.row
        BY <1>2, <4>1 DEF TheLoves
      <4> QED BY <4>2
    <3> QED BY <1>6, <3>1, <3>2, <3>3
  <2> DEFINE r == IF scripts THEN Booked(m.row[s.of]) ELSE SeeMainEvent(m.row[s.of])
  <2>5. n = WithRow(m, s.of, r)
    BY <1>6, <2>2 DEF RomanceCredit, WithRow
  <2>6. r \in {SeeMainEvent(m.row[s.of]), Booked(m.row[s.of])}
    OBVIOUS
  <2> HIDE DEF r, n, m
  <2>7. Follows(l, WithRow(m, s.of, r)) /\ Steps(l, d, s, WithRow(m, s.of, r), NoScene)
    BY <1>1, <1>6, <2>1, <2>4, <2>6, RungAfter
  <2>8. Follows(l, n) /\ Steps(l, d, s, n, NoScene)
    BY <2>5, <2>7
  <2> QED BY <2>8 DEF n, m
<1> QED BY <1>3, <1>4, <1>5, <1>6 DEF Her

-----------------------------------------------------------------------------
(* Romance: a confession, a re-enrolment, midnight, and a scene's start.   *)
Confession(l) == [SeeEnding(l, l.armed) EXCEPT !.armed = NoOne]

LEMMA Confesses ==
  ASSUME NEW l, LoveOK(l), l.armed # NoOne, NEW d, NEW s, NEW s2
  PROVE  LoveOK(Confession(l)) /\ Steps(l, d, s, Confession(l), s2)
<1> DEFINE c == l.armed
           with == WithRow(l, c, Confessed(l.row[c]))
<1>1. c \in Candidates /\ RowOK(c, l.row[c]) /\ l.row[c].debut /\ l.captured = NoOne /\ l \in TheLoves
  BY LoveFields DEF LoveOK
<1>2. /\ RowOK(c, Confessed(l.row[c])) /\ Lived(l.row[c], Confessed(l.row[c]))
      /\ Unpaid(l.row[c], Confessed(l.row[c])) /\ Confessed(l.row[c]).ending
  BY <1>1, RowEnding
<1>3. LoveOK(with) /\ \A x \in Candidates : Lived(l.row[x], with.row[x])
  BY <1>1, <1>2, OneRow DEF Follows
<1>4. /\ with \in TheLoves /\ with.row[c] = Confessed(l.row[c])
      /\ \A x \in Candidates \ {c} : with.row[x] = l.row[x]
  BY <1>1, <1>2, RowFields, WithRowFields
<1> DEFINE m == [with EXCEPT !.armed = NoOne, !.captured = c]
<1>5. m = Confession(l)
  BY <1>1 DEF Confession, SeeEnding, WithRow, Confessed, TheLoves
<1> HIDE DEF with
<1>6. m \in TheLoves /\ m.row = with.row /\ m.armed = NoOne /\ m.captured = c
  BY <1>1, <1>4 DEF TheLoves
<1> HIDE DEF m
<1>7. LoveOK(m)
  BY <1>2, <1>3, <1>4, <1>6 DEF LoveOK
<1>8. Recalls(l, m)
  BY <1>3, <1>6, FollowsRecalls
<1>9. \A x \in Candidates : Unpaid(l.row[x], m.row[x])
  BY <1>2, <1>4, <1>6 DEF Unpaid
<1>10. Steps(l, d, s, m, s2)
  BY <1>8, <1>9, UnpaidSteps
<1> QED BY <1>5, <1>7, <1>10

(* The row of a new game, with what the title page shows of the old one.   *)
Anew(c, r) == [NewRow EXCEPT !.debut = c \in Tutored, !.ending = r.ending,
                             !.album = r.album, !.photos = r.photos]

LEMMA RowAnew ==
  ASSUME NEW c, NEW r, RowOK(c, r)
  PROVE  /\ RowOK(c, Anew(c, r)) /\ Anew(c, r).album = r.album
         /\ Anew(c, r).ending = r.ending /\ Anew(c, r).photos = r.photos
         /\ Anew(c, r).intimacy = 0 /\ Anew(c, r).progress = 0
<1> DEFINE met == c \in Tutored
           new == [NewRow EXCEPT !.debut = met, !.ending = r.ending,
                                 !.album = r.album, !.photos = r.photos]
<1>1. r \in TheRows /\ r.album \in 0..Events /\ Events \in Nat
  BY RowFields, RomanceAssumption
<1>2. NewRow \in TheRows /\ NewRow.intimacy = 0 /\ NewRow.progress = 0 /\ NewRow.letter = FALSE
  BY <1>1 DEF NewRow, TheRows
<1>3. new = Anew(c, r)
  BY DEF Anew
<1>4. met \in BOOLEAN /\ (met <=> c \in Tutored)
  OBVIOUS
<1> HIDE DEF met
<1>5. new \in TheRows
  BY <1>1, <1>2, <1>4 DEF TheRows
<1>6. new.album = r.album /\ new.intimacy = 0 /\ new.progress = 0
  BY <1>1, <1>2 DEF TheRows
<1>7. new.debut = met
  BY <1>2, Zenon DEF TheRows
<1>8. new.ending = r.ending
  BY <1>2, Zenon DEF TheRows
<1>9. new.photos = r.photos
  BY <1>2, Zenon DEF TheRows
<1>10. new.letter = FALSE
  BY <1>2, Zenon DEF TheRows
<1> HIDE DEF new
<1>11. RowOK(c, new)
  BY <1>1, <1>4, <1>5, <1>6, <1>7, <1>10 DEF RowOK
<1> QED BY <1>3, <1>6, <1>8, <1>9, <1>11

LEMMA Reenrols ==
  ASSUME NEW l, LoveOK(l), l.captured # NoOne, NEW d, NEW s, NEW s2
  PROVE  LoveOK(Reenrolled(l)) /\ Steps(l, d, s, Reenrolled(l), s2)
<1> DEFINE her == l.captured
           row == Anew(her, l.row[her])
           with == WithRow(l, her, row)
           m == [with EXCEPT !.armed = NoOne, !.captured = NoOne]
<1>1. l \in TheLoves /\ her \in Candidates /\ RowOK(her, l.row[her]) /\ l.armed = NoOne
  BY LoveFields DEF LoveOK
<1>2. /\ RowOK(her, row) /\ row.album = l.row[her].album
      /\ row.ending = l.row[her].ending /\ row.photos = l.row[her].photos
      /\ row.intimacy = 0 /\ row.progress = 0
  BY <1>1, RowAnew
<1>3. /\ with \in TheLoves /\ with.row[her] = row
      /\ \A x \in Candidates \ {her} : with.row[x] = l.row[x]
  BY <1>1, <1>2, RowFields, WithRowFields
<1>4. m = Reenrolled(l)
  <2>1. l.armed # her
    BY <1>1, RomanceAssumption
  <2> QED BY <1>1, <2>1 DEF Reenrolled, WithRow, Anew, TheLoves
<1> HIDE DEF row, with
<1>5. m \in TheLoves /\ m.row = with.row /\ m.armed = NoOne /\ m.captured = NoOne
  BY <1>3 DEF TheLoves
<1> HIDE DEF m
<1>6. \A x \in Candidates : RowOK(x, m.row[x])
  BY <1>2, <1>3, <1>5, LoveFields
<1>7. LoveOK(m)
  BY <1>5, <1>6 DEF LoveOK
<1>8. Recalls(l, m)
  <2>1. row.album >= l.row[her].album
    BY <1>1, <1>2, RowFields
  <2>2. \A x \in Candidates : Lived(l.row[x], l.row[x])
    BY RowStays, LoveFields
  <2> QED BY <1>2, <1>3, <1>5, <2>1, <2>2 DEF Recalls, Lived
<1>9. ASSUME NEW x \in Candidates
      PROVE  PaysOnce(l.row[x], m.row[x], s.of = x /\ s2 = NoScene, d.about.what, s.what)
  <2>1. CASE x = her
    <3>1. l.row[her].intimacy \in Nat /\ l.row[her].progress \in Nat
      BY <1>1, RowFields
    <3>2. m.row[x].intimacy = 0 /\ m.row[x].progress = 0
      BY <1>2, <1>3, <1>5, <2>1
    <3> QED BY <2>1, <3>1, <3>2 DEF PaysOnce
  <2>2. CASE x # her
    <3>1. Unpaid(l.row[x], m.row[x])
      BY <1>3, <1>5, <2>2 DEF Unpaid
    <3> QED BY <3>1, LoveFields, UnpaidPays
  <2> QED BY <2>1, <2>2
<1> QED BY <1>4, <1>7, <1>8, <1>9 DEF Steps

(* Whoever is on stage is placed on a map again.                           *)
Placed(l) == [l EXCEPT !.row =
  [c \in Candidates |-> IF c \in OnStage(l) THEN Quieted(l.row[c]) ELSE l.row[c]]]

LEMMA Places ==
  ASSUME NEW l, LoveOK(l), NEW d, NEW s, NEW s2
  PROVE  Follows(l, Placed(l)) /\ Steps(l, d, s, Placed(l), s2)
<1> DEFINE rows == [c \in Candidates |-> IF c \in OnStage(l) THEN Quieted(l.row[c]) ELSE l.row[c]]
<1>1. ASSUME NEW c \in Candidates
      PROVE  RowOK(c, rows[c]) /\ Lived(l.row[c], rows[c]) /\ Unpaid(l.row[c], rows[c])
  <2>1. RowOK(c, l.row[c])
    BY LoveFields
  <2>2. rows[c] = Quieted(l.row[c]) \/ rows[c] = l.row[c]
    OBVIOUS
  <2> HIDE DEF rows
  <2> QED BY <2>1, <2>2, RowMarked, RowStays
<1>2. \A c \in Candidates : rows[c] \in TheRows
  BY <1>1, RowFields
<1>3. rows \in [Candidates -> TheRows]
  BY <1>2
<1>4. Placed(l) = [l EXCEPT !.row = rows]
  BY DEF Placed
<1> HIDE DEF rows
<1> QED BY <1>1, <1>3, <1>4, EveryRow

(* A day older, with the scene that is played over midnight.               *)
Older(l) == [l EXCEPT !.row = [c \in Candidates |-> Aged(l.row[c])]]
OlderScene(s) == [s EXCEPT !.began = Past(@)]

LEMMA Ages ==
  ASSUME NEW l, LoveOK(l), NEW d, NEW s, NEW s2
  PROVE  /\ Follows(l, Older(l)) /\ Steps(l, d, s, Older(l), s2)
         /\ \A c \in Candidates : Older(l).row[c] = Aged(l.row[c])
<1> DEFINE rows == [c \in Candidates |-> Aged(l.row[c])]
<1>1. ASSUME NEW c \in Candidates
      PROVE  RowOK(c, rows[c]) /\ Lived(l.row[c], rows[c]) /\ Unpaid(l.row[c], rows[c])
  <2>1. RowOK(c, l.row[c])
    BY LoveFields
  <2>2. rows[c] = Aged(l.row[c])
    OBVIOUS
  <2> HIDE DEF rows
  <2> QED BY <2>1, <2>2, RowMarked
<1>2. \A c \in Candidates : rows[c] \in TheRows
  BY <1>1, RowFields
<1>3. rows \in [Candidates -> TheRows]
  BY <1>2
<1>4. Older(l) = [l EXCEPT !.row = rows]
  BY DEF Older
<1>5. Older(l).row = rows
  BY <1>4 DEF TheLoves, LoveOK
<1>6. \A c \in Candidates : rows[c] = Aged(l.row[c])
  OBVIOUS
<1> HIDE DEF rows
<1>7. Follows(l, Older(l)) /\ Steps(l, d, s, Older(l), s2)
  BY <1>1, <1>3, <1>4, EveryRow
<1> QED BY <1>5, <1>6, <1>7

(* No scene is played past the midnight after the one it was begun before, *)
(* and the day of a row and that of the scene turn into the past together. *)
LEMMA SceneAges ==
  ASSUME NEW l, NEW d, NEW s, NEW ti, NEW here, Fits(l, d, s, ti, here),
         s.what # "none" => s.began = "today"
  PROVE  Fits(Older(l), d, OlderScene(s), ti, here)
<1> DEFINE t == OlderScene(s)
           m == Older(l)
<1>1. /\ LoveOK(l) /\ s \in TheScenes /\ d \in TheSaid /\ ti \in TheTitles
      /\ TalkOK(l, d.key) /\ TalkOK(l, d.about) /\ SceneOK(l, s) /\ InOneScene(d, s, ti, here)
  BY DEF Fits
<1>2. Follows(l, m) /\ \A c \in Candidates : m.row[c] = Aged(l.row[c])
  BY <1>1, Ages
<1>3. /\ t \in TheScenes /\ t.of = s.of /\ t.what = s.what /\ t.intimacy = s.intimacy
      /\ t.best = s.best /\ t.began = Past(s.began)
  BY <1>1 DEF OlderScene, TheScenes, Past
<1>4. (s = NoScene) <=> (t = NoScene)
  <2>1. s = NoScene => t = NoScene
    <3>1. s = NoScene => t.sure = s.sure /\ t.began = s.began
      BY <1>1, <1>3, NothingFits DEF OlderScene, TheScenes, Past
    <3> QED BY <1>1, <1>3, <3>1 DEF TheScenes
  <2>2. s # NoScene => s.what # "none"
    BY <1>1 DEF SceneOK, Her
  <2> QED BY <1>3, <2>1, <2>2, NothingFits
<1> HIDE DEF t, m
<1>5. SceneOK(m, t)
  <2>1. CASE s = NoScene
    BY <1>4, <2>1 DEF SceneOK
  <2>2. CASE s.of = NoOne /\ s.what = "staff" /\ s # NoScene
    <3>1. t.began = "yesterday"
      BY <1>3, <2>2 DEF Past
    <3> QED BY <1>3, <2>2, <3>1 DEF SceneOK
  <2>3. CASE ~ (s.of = NoOne /\ s.what = "staff") /\ s # NoScene
    <3> DEFINE r == l.row[s.of]
    <3>1. /\ s.of \in Candidates /\ s.what \in Her \cup {"tutorial", "meeting", "replay"}
          /\ s.intimacy = r.intimacy /\ s.best = IF r.day = s.began THEN r.best ELSE 0
      BY <1>1, <2>3 DEF SceneOK
    <3>2. s.began = "today" /\ t.began = "yesterday"
      BY <1>3, <3>1 DEF Past, Her
    <3>3. r \in TheRows /\ r.day \in {"today", "yesterday", "older"}
      BY <1>1, <3>1, LoveFields DEF TheRows
    <3>4. m.row[s.of] = Aged(r)
      BY <1>2, <3>1
    <3> HIDE DEF r
    <3>5. Aged(r).intimacy = r.intimacy /\ Aged(r).best = r.best /\ Aged(r).day = Past(r.day)
      BY <3>3 DEF Aged, TheRows
    <3>6. (r.day = "today") <=> (Past(r.day) = "yesterday")
      BY <3>3 DEF Past
    <3>7. t.best = IF m.row[t.of].day = t.began THEN m.row[t.of].best ELSE 0
      BY <1>3, <3>1, <3>2, <3>4, <3>5, <3>6
    <3>8. t.intimacy = m.row[t.of].intimacy
      BY <1>3, <3>1, <3>4, <3>5
    <3> QED BY <1>3, <3>1, <3>2, <3>7, <3>8 DEF SceneOK
  <2> QED BY <2>1, <2>2, <2>3
<1>6. InOneScene(d, t, ti, here)
  BY <1>1, <1>3, <1>4 DEF InOneScene
<1>7. TalkOK(m, d.key) /\ TalkOK(m, d.about)
  BY <1>1, <1>2, TalkStays
<1> QED BY <1>1, <1>2, <1>3, <1>5, <1>6, <1>7 DEF Fits, Follows, t, m

-----------------------------------------------------------------------------
(* Romance: everybody's.                                                   *)
RomanceTyped ==
  /\ love \in [Players -> TheLoves] /\ said \in [Players -> TheSaid]
  /\ scene \in [Players -> TheScenes] /\ title \in [Players -> TheTitles]

FitsAt(p) == Fits(love[p], said[p], scene[p], title[p], p \in online)
RomanceInv == RomanceTyped /\ \A p \in Players : FitsAt(p)

(* What a step owes: the invariant, and everybody's memories.              *)
RomanceKept == RomanceInv' /\ \A p \in Players : Remembers(p) /\ PaidOnce(p)

LEMMA StepsKeep ==
  ASSUME NEW p \in Players,
         love'[p] # love[p] => Steps(love[p], said[p], scene[p], love'[p], scene'[p])
  PROVE  Remembers(p) /\ PaidOnce(p)
<1>1. CASE love'[p] = love[p]
  BY <1>1 DEF Remembers, PaidOnce
<1>2. CASE Steps(love[p], said[p], scene[p], love'[p], scene'[p])
  <2>1. Remembers(p)
    BY <1>2 DEF Steps, Recalls, Remembers
  <2>2. PaidOnce(p)
    BY <1>2 DEF Steps, PaysOnce, Daily, PaidOnce
  <2> QED BY <2>1, <2>2
<1> QED BY <1>1, <1>2

(* One character's step, and nobody else's.                                *)
Moves(p, l, d, s, ti) ==
  /\ love' = [love EXCEPT ![p] = l] /\ said' = [said EXCEPT ![p] = d]
  /\ scene' = [scene EXCEPT ![p] = s] /\ title' = [title EXCEPT ![p] = ti]
  /\ \A x \in Players \ {p} : (x \in online') = (x \in online)

LEMMA OneMoves ==
  ASSUME RomanceInv, NEW p \in Players, NEW l, NEW d, NEW s, NEW ti, Moves(p, l, d, s, ti),
         Fits(l, d, s, ti, p \in online'),
         l = love[p] \/ Steps(love[p], said[p], scene[p], l, s)
  PROVE  RomanceKept
<1>1. l \in TheLoves /\ d \in TheSaid /\ s \in TheScenes /\ ti \in TheTitles
  BY DEF Fits, LoveOK
<1>2. RomanceTyped'
  BY <1>1 DEF RomanceInv, RomanceTyped, Moves
<1>3. love'[p] = l /\ said'[p] = d /\ scene'[p] = s /\ title'[p] = ti
  BY DEF RomanceInv, RomanceTyped, Moves
<1>4. \A x \in Players \ {p} : /\ love'[x] = love[x] /\ said'[x] = said[x]
                               /\ scene'[x] = scene[x] /\ title'[x] = title[x]
                               /\ (x \in online') = (x \in online)
  BY DEF RomanceInv, RomanceTyped, Moves
<1>5. ASSUME NEW x \in Players
      PROVE  FitsAt(x)'
  <2>1. CASE x = p
    BY <1>3, <2>1 DEF FitsAt
  <2>2. CASE x # p
    <3>1. FitsAt(x)
      BY DEF RomanceInv
    <3> QED BY <1>4, <2>2, <3>1, Zenon DEF FitsAt
  <2> QED BY <2>1, <2>2
<1>6. ASSUME NEW x \in Players
      PROVE  Remembers(x) /\ PaidOnce(x)
  <2>1. love'[x] # love[x] => Steps(love[x], said[x], scene[x], love'[x], scene'[x])
    BY <1>3, <1>4
  <2> QED BY <2>1, StepsKeep
<1> QED BY <1>2, <1>5, <1>6 DEF RomanceKept, RomanceInv

(* Nobody's step.                                                          *)
LEMMA NobodyMoves ==
  ASSUME RomanceInv, UNCHANGED romanceVars, UNCHANGED online
  PROVE  RomanceKept
<1>1. RomanceInv'
  BY DEF RomanceInv, RomanceTyped, FitsAt, romanceVars
<1>2. \A p \in Players : Remembers(p) /\ PaidOnce(p)
  BY DEF Remembers, PaidOnce, romanceVars
<1> QED BY <1>1, <1>2 DEF RomanceKept

(* A character at ease talks about nothing.                                *)
LEMMA EaseFields ==
  ASSUME RomanceInv, NEW p \in Players
  PROVE  /\ Fits(love[p], said[p], scene[p], title[p], p \in online)
         /\ LoveOK(love[p]) /\ said[p] \in TheSaid /\ title[p] \in TheTitles
         /\ scene[p] = NoScene => said[p].about = NoTalk /\ TalkOK(love[p], said[p].key)
         /\ title[p] = "none" /\ p \notin online => scene[p] = NoScene /\ said[p] = NothingSaid
<1>1. Fits(love[p], said[p], scene[p], title[p], p \in online)
  BY DEF RomanceInv, FitsAt
<1>2. scene[p] = NoScene => said[p].about = NoTalk /\ TalkOK(love[p], said[p].key)
  BY <1>1, NothingAbout
<1>3. title[p] = "none" /\ p \notin online => scene[p] = NoScene /\ said[p] = NothingSaid
  BY <1>1 DEF Fits, InOneScene
<1> QED BY <1>1, <1>2, <1>3 DEF Fits

LEMMA ArrivesInLove ==
  ASSUME RomanceInv, NEW p \in Players, p \notin online, online' = online \cup {p}, RomanceLogin(p)
  PROVE  RomanceKept
<1> DEFINE l == DebutTold(love[p])
           ti == IF DebutPending(p) THEN "owed" ELSE "none"
<1>1. LoveOK(love[p]) /\ scene[p] = NoScene /\ title[p] = "none"
  BY EaseFields DEF RomanceLogin
<1>2. l \in TheLoves /\ l.row = love[p].row /\ l.captured = love[p].captured /\ l.armed = love[p].armed
  BY <1>1 DEF DebutTold, LoveOK, TheLoves
<1>3. ti \in TheTitles
  BY DEF TheTitles
<1>4. Moves(p, l, NothingSaid, NoScene, ti)
  BY <1>1 DEF RomanceLogin, Moves, RomanceInv, RomanceTyped
<1> HIDE DEF l, ti
<1>5. Follows(love[p], l) /\ Steps(love[p], said[p], scene[p], l, NoScene)
  BY <1>1, <1>2, SameRows DEF LoveOK
<1>6. Fits(l, NothingSaid, NoScene, ti, p \in online')
  BY <1>3, <1>5, LeftAlone DEF Follows
<1> QED BY <1>4, <1>5, <1>6, OneMoves

LEMMA AsksHer ==
  ASSUME RomanceInv, online' = online, NEW p \in Players, NEW c \in Candidates,
         NEW answer \in {"none", "talk", "main"}, AskTalk(p, c, answer)
  PROVE  RomanceKept
<1> DEFINE r == Chosen(love[p].row[c], answer)
           l == WithRow(love[p], c, r)
           key == IF answer = "none" THEN NoTalk ELSE [of |-> c, what |-> answer]
           d == [said[p] EXCEPT !.key = key]
<1>1. /\ LoveOK(love[p]) /\ said[p] \in TheSaid /\ said[p].about = NoTalk
      /\ scene[p] = NoScene /\ title[p] = "none" /\ ~ said[p].out /\ p \in online
      /\ love[p].captured = NoOne /\ love[p].row[c].debut
  BY EaseFields DEF AskTalk, AtEase, OnStage
<1>2. RowOK(c, love[p].row[c])
  BY <1>1, LoveFields
<1>3. RowOK(c, r) /\ Lived(love[p].row[c], r) /\ Unpaid(love[p].row[c], r)
  BY <1>2, RowMarked
<1>4. Follows(love[p], l) /\ Steps(love[p], said[p], scene[p], l, NoScene)
  BY <1>1, <1>3, OneRowUnpaid
<1>5. key \in TheTalks /\ TalkOK(love[p], key)
  BY <1>1, NothingFits DEF TheTalks, Her, TalkOK
<1>6. Moves(p, l, d, NoScene, "none")
  BY <1>1 DEF AskTalk, Moves, RomanceInv, RomanceTyped, WithRow, Chosen
<1> HIDE DEF key, l, r
<1>7. d \in TheSaid /\ d.key = key /\ d.about = NoTalk /\ (d.out <=> said[p].out)
  BY <1>1, <1>5 DEF TheSaid
<1> HIDE DEF d
<1>8. Fits(l, d, NoScene, "none", p \in online')
  BY <1>1, <1>4, <1>5, <1>7, AtRest, TalkStays DEF Follows, TheTitles
<1> QED BY <1>4, <1>6, <1>8, OneMoves

LEMMA DrawsMap ==
  ASSUME RomanceInv, online' = online, NEW p \in Players, LobbyDataStart(p)
  PROVE  RomanceKept
<1> DEFINE l == Placed(love[p])
<1>1. /\ LoveOK(love[p]) /\ said[p] \in TheSaid /\ said[p].about = NoTalk
      /\ scene[p] = NoScene /\ title[p] = "none" /\ ~ said[p].out /\ p \in online
      /\ TalkOK(love[p], said[p].key)
  BY EaseFields DEF LobbyDataStart, AtEase
<1>2. Follows(love[p], l) /\ Steps(love[p], said[p], scene[p], l, NoScene)
  BY <1>1, Places
<1>3. Moves(p, l, said[p], NoScene, "none")
  BY <1>1 DEF LobbyDataStart, Moves, RomanceInv, RomanceTyped, Placed, Quieted
<1> HIDE DEF l
<1>4. Fits(l, said[p], NoScene, "none", p \in online')
  BY <1>1, <1>2, AtRest, TalkStays DEF Follows, TheTitles
<1> QED BY <1>2, <1>3, <1>4, OneMoves

LEMMA OpensLocker ==
  ASSUME RomanceInv, online' = online, NEW p \in Players, NEW c \in Candidates, OpenLocker(p, c)
  PROVE  RomanceKept
<1> DEFINE l == WithRow(love[p], c, Written(love[p].row[c]))
<1>1. /\ LoveOK(love[p]) /\ said[p] \in TheSaid /\ said[p].about = NoTalk
      /\ scene[p] = NoScene /\ title[p] = "none" /\ ~ said[p].out /\ p \in online
      /\ TalkOK(love[p], said[p].key)
  BY EaseFields DEF OpenLocker, AtEase
<1>2. love[p].row[c].debut /\ love[p].row[c].progress = Events
  BY DEF OpenLocker, LockerSees
<1>3. RowOK(c, love[p].row[c])
  BY <1>1, LoveFields
<1>4. Follows(love[p], l) /\ Steps(love[p], said[p], scene[p], l, NoScene)
  BY <1>1, <1>2, <1>3, RowLetter, OneRowUnpaid
<1>5. Moves(p, l, said[p], NoScene, "none")
  BY <1>1 DEF OpenLocker, Moves, RomanceInv, RomanceTyped, WithRow, Written
<1> HIDE DEF l
<1>6. Fits(l, said[p], NoScene, "none", p \in online')
  BY <1>1, <1>4, AtRest, TalkStays DEF Follows, TheTitles
<1> QED BY <1>4, <1>5, <1>6, OneMoves

LEMMA AsksOther ==
  ASSUME RomanceInv, online' = online, NEW p \in Players,
         AskStaff(p) \/ \E c \in Candidates : AskLetter(p, c)
  PROVE  RomanceKept
<1>1. /\ LoveOK(love[p]) /\ said[p] \in TheSaid /\ said[p].about = NoTalk
      /\ scene[p] = NoScene /\ title[p] = "none" /\ ~ said[p].out /\ p \in online
  BY EaseFields DEF AskStaff, AskLetter, AtEase
<1>2. PICK key \in TheTalks : /\ TalkOK(love[p], key) /\ UNCHANGED <<love, scene, title>>
                              /\ said' = [said EXCEPT ![p] = [said[p] EXCEPT !.key = key]]
  <2>1. CASE AskStaff(p)
    <3>1. [of |-> NoOne, what |-> "staff"] \in TheTalks
      BY DEF TheTalks
    <3>2. TalkOK(love[p], [of |-> NoOne, what |-> "staff"])
      BY DEF TalkOK
    <3> QED BY <2>1, <3>1, <3>2 DEF AskStaff
  <2>2. ASSUME NEW c \in Candidates, AskLetter(p, c)
        PROVE  \E key \in TheTalks :
                 /\ TalkOK(love[p], key) /\ UNCHANGED <<love, scene, title>>
                 /\ said' = [said EXCEPT ![p] = [said[p] EXCEPT !.key = key]]
    <3> DEFINE t == [of |-> c, what |-> "letter"]
    <3>1. t \in TheTalks /\ t.of = c /\ t.what = "letter"
      BY DEF TheTalks, Her
    <3>2. love[p].captured = NoOne /\ love[p].row[c].letter
      BY <2>2 DEF AskLetter, LockerSees
    <3>3. RowOK(c, love[p].row[c])
      BY <1>1, LoveFields
    <3>4. love[p].row[c].debut /\ love[p].row[c].progress = Events
      BY <3>2, <3>3 DEF RowOK
    <3>5. TalkOK(love[p], t)
      BY <3>1, <3>2, <3>4 DEF TalkOK, Her
    <3>6. UNCHANGED <<love, scene, title>> /\ said' = [said EXCEPT ![p] = [said[p] EXCEPT !.key = t]]
      BY <2>2 DEF AskLetter
    <3> QED BY <3>1, <3>5, <3>6
  <2> QED BY <2>1, <2>2
<1> DEFINE d == [said[p] EXCEPT !.key = key]
<1>3. Moves(p, love[p], d, NoScene, "none")
  BY <1>1, <1>2 DEF Moves, RomanceInv, RomanceTyped
<1>4. d \in TheSaid /\ d.key = key /\ d.about = NoTalk /\ (d.out <=> said[p].out)
  BY <1>1, <1>2 DEF TheSaid
<1> HIDE DEF d
<1>5. Fits(love[p], d, NoScene, "none", p \in online')
  BY <1>1, <1>2, <1>4, AtRest DEF TheTitles
<1> QED BY <1>3, <1>5, OneMoves

(* The shadow at the start of a scene.                                     *)
LEMMA SceneBegins ==
  ASSUME NEW p \in Players, LoveOK(love[p]), NEW c \in Candidates, NEW sure \in BOOLEAN,
         NEW what \in Her \cup {"tutorial", "meeting", "replay"}
  PROVE  LET s == Begun(p, c, what, sure) IN
         s \in TheScenes /\ s.of = c /\ s.what = what /\ s # NoScene /\ SceneOK(love[p], s)
<1> DEFINE r == love[p].row[c]
           best == IF r.day = "today" THEN r.best ELSE 0
           s == [of |-> c, what |-> what, sure |-> sure, began |-> "today",
                 intimacy |-> r.intimacy, best |-> best]
<1>1. r.intimacy \in Nat /\ r.best \in Nat /\ c # NoOne
  BY LoveFields, RowFields, RomanceAssumption
<1>2. s = Begun(p, c, what, sure)
  BY <1>1 DEF Begun
<1>3. best \in Nat
  BY <1>1
<1>4. s \in TheScenes
  BY <1>1, <1>3 DEF TheScenes, Her
<1>5. s.of = c /\ s.what = what /\ s.began = "today" /\ s.intimacy = r.intimacy /\ s.best = best
  OBVIOUS
<1> HIDE DEF s
<1>6. SceneOK(love[p], s)
  BY <1>5 DEF SceneOK, Her
<1>7. s # NoScene
  BY <1>5, NothingFits
<1> QED BY <1>2, <1>4, <1>5, <1>6, <1>7

LEMMA StaffBegins ==
  ASSUME NEW p \in Players, NEW sure \in BOOLEAN
  PROVE  LET s == Begun(p, NoOne, "staff", sure) IN
         s \in TheScenes /\ s.of = NoOne /\ s.what = "staff" /\ s.began = "today"
BY DEF Begun, TheScenes

(* The event just answered is played.                                      *)
LEMMA PlaysEvent ==
  ASSUME RomanceInv, online' = online, NEW p \in Players, NEW sure \in BOOLEAN,
         NpcEventStart(p, sure)
  PROVE  RomanceKept
<1> DEFINE key == said[p].key
           about == IF key.what = "staff" THEN NoTalk ELSE key
           out == key.what \in {"letter", "staff"}
           d == [said[p] EXCEPT !.about = about, !.key = NoTalk, !.out = out]
           s == Begun(p, key.of, key.what, sure)
<1>1. /\ LoveOK(love[p]) /\ said[p] \in TheSaid /\ TalkOK(love[p], key)
      /\ scene[p] = NoScene /\ title[p] = "none" /\ p \in online /\ key # NoTalk
  BY EaseFields DEF NpcEventStart, AtEase
<1>2. Moves(p, love[p], d, s, "none")
  BY <1>1 DEF NpcEventStart, Moves, RomanceInv, RomanceTyped
<1>3. key \in TheTalks
  BY <1>1 DEF TheSaid
<1>4. d \in TheSaid /\ d.about = about /\ d.key = NoTalk
  <2>1. about \in TheTalks /\ out \in BOOLEAN
    BY <1>3, NothingFits
  <2> HIDE DEF about, out
  <2>2. d \in TheSaid
    BY <1>1, <2>1, NothingFits DEF TheSaid
  <2>3. d.about = about /\ d.key = NoTalk
    BY <1>1 DEF TheSaid
  <2> QED BY <2>2, <2>3
<1>5. TalkOK(love[p], NoTalk)
  BY DEF TalkOK
<1> HIDE DEF d, s
<1>6. CASE key = [of |-> NoOne, what |-> "staff"]
  <2>1. key.of = NoOne /\ key.what = "staff" /\ about = NoTalk
    BY <1>6
  <2>2. s \in TheScenes /\ s.of = NoOne /\ s.what = "staff" /\ s.began = "today"
    BY <2>1, StaffBegins DEF s
  <2>3. SceneOK(love[p], s)
    BY <2>2 DEF SceneOK
  <2>4. InOneScene(d, s, "none", p \in online')
    BY <1>1, <1>4, <2>1, <2>2 DEF InOneScene, Her
  <2>5. Fits(love[p], d, s, "none", p \in online')
    BY <1>1, <1>4, <1>5, <2>1, <2>2, <2>3, <2>4 DEF Fits, TheTitles
  <2> QED BY <1>2, <2>5, OneMoves
<1>7. CASE key # [of |-> NoOne, what |-> "staff"]
  <2>1. key.of \in Candidates /\ key.what \in Her
    BY <1>1, <1>7 DEF TalkOK
  <2>2. about = key
    BY <2>1 DEF Her
  <2>3. s \in TheScenes /\ s.of = key.of /\ s.what = key.what /\ SceneOK(love[p], s) /\ s # NoScene
    BY <1>1, <2>1, SceneBegins DEF s
  <2>4. key = [of |-> s.of, what |-> s.what]
    BY <1>3, <2>3 DEF TheTalks
  <2>5. InOneScene(d, s, "none", p \in online')
    BY <1>1, <1>4, <2>1, <2>2, <2>3, <2>4 DEF InOneScene
  <2>6. Fits(love[p], d, s, "none", p \in online')
    BY <1>1, <1>4, <1>5, <2>2, <2>3, <2>5 DEF Fits, TheTitles
  <2> QED BY <1>2, <2>6, OneMoves
<1> QED BY <1>6, <1>7

(* A scene of no event: a tutorial, an ending shown again, a meeting.      *)
LEMMA PlaysOther ==
  ASSUME RomanceInv, online' = online, NEW p \in Players, NEW c \in Candidates,
         NEW sure \in BOOLEAN,
         TitleEventStart(p, c, sure) \/ ReplayStart(p, c) \/ MeetingStart(p, c, sure)
  PROVE  RomanceKept
<1>1. /\ LoveOK(love[p]) /\ said[p] \in TheSaid /\ scene[p] = NoScene
      /\ TalkOK(love[p], said[p].key) /\ said[p].about = NoTalk
      /\ InOneScene(said[p], scene[p], title[p], p \in online)
  <2>1. Fits(love[p], said[p], scene[p], title[p], p \in online)
    BY EaseFields
  <2>2. scene[p] = NoScene
    <3>1. CASE TitleEventStart(p, c, sure)
      BY <2>1, <3>1 DEF TitleEventStart, Fits, InOneScene
    <3>2. CASE ReplayStart(p, c)
      BY <3>2, EaseFields DEF ReplayStart
    <3>3. CASE MeetingStart(p, c, sure)
      BY <3>3 DEF MeetingStart, AtEase
    <3> QED BY <3>1, <3>2, <3>3
  <2> QED BY <2>1, <2>2, EaseFields DEF Fits
<1>2. PICK what \in {"tutorial", "meeting", "replay"}, known \in BOOLEAN, ti \in TheTitles :
        /\ Moves(p, love[p], said[p], Begun(p, c, what, known), ti)
        /\ ti # "owed" /\ (p \notin online => ti = "replay")
  <2>1. CASE TitleEventStart(p, c, sure)
    <3>1. Moves(p, love[p], said[p], Begun(p, c, "tutorial", sure), "tutorial") /\ p \in online
      BY <2>1 DEF TitleEventStart, Moves, RomanceInv, RomanceTyped
    <3> QED BY <3>1 DEF TheTitles
  <2>2. CASE ReplayStart(p, c)
    <3>1. Moves(p, love[p], said[p], Begun(p, c, "replay", TRUE), "replay")
      BY <2>2 DEF ReplayStart, Moves, RomanceInv, RomanceTyped
    <3> QED BY <3>1 DEF TheTitles
  <2>3. CASE MeetingStart(p, c, sure)
    <3>1. Moves(p, love[p], said[p], Begun(p, c, "meeting", sure), "none") /\ p \in online
      BY <2>3 DEF MeetingStart, AtEase, Moves, RomanceInv, RomanceTyped
    <3> QED BY <3>1 DEF TheTitles
  <2> QED BY <2>1, <2>2, <2>3
<1> DEFINE s == Begun(p, c, what, known)
<1>3. s \in TheScenes /\ s.what = what /\ SceneOK(love[p], s) /\ s # NoScene
  BY <1>1, <1>2, SceneBegins
<1> HIDE DEF s
<1>4. InOneScene(said[p], s, ti, p \in online')
  BY <1>1, <1>2, <1>3 DEF InOneScene, Her
<1>5. TalkOK(love[p], said[p].about)
  BY <1>1 DEF TalkOK
<1>6. Fits(love[p], said[p], s, ti, p \in online')
  BY <1>1, <1>2, <1>3, <1>4, <1>5 DEF Fits
<1> QED BY <1>2, <1>6, OneMoves DEF s

LEMMA EndsTitle ==
  ASSUME RomanceInv, online' = online, NEW p \in Players, TitleEventEnd(p)
  PROVE  RomanceKept
<1>1. scene[p] = NoScene /\ Fits(love[p], said[p], scene[p], title[p], p \in online)
  BY EaseFields DEF TitleEventEnd
<1>2. Moves(p, love[p], said[p], NoScene, "none")
  BY <1>1 DEF TitleEventEnd, Moves, RomanceInv, RomanceTyped
<1>3. Fits(love[p], said[p], NoScene, "none", p \in online')
  BY <1>1 DEF Fits, InOneScene, TheTitles
<1> QED BY <1>2, <1>3, OneMoves

LEMMA LosesShadow ==
  ASSUME RomanceInv, online' = online, NEW p \in Players, ShadowLost(p)
  PROVE  RomanceKept
<1> DEFINE s == [scene[p] EXCEPT !.sure = FALSE]
<1>1. Fits(love[p], said[p], scene[p], title[p], p \in online) /\ scene[p].sure
  BY EaseFields DEF ShadowLost
<1>2. Moves(p, love[p], said[p], s, title[p])
  BY <1>1 DEF ShadowLost, Moves, RomanceInv, RomanceTyped
<1>3. /\ s \in TheScenes /\ s.of = scene[p].of /\ s.what = scene[p].what
      /\ s.began = scene[p].began /\ s.intimacy = scene[p].intimacy /\ s.best = scene[p].best
  BY <1>1 DEF Fits, TheScenes
<1>4. scene[p] # NoScene
  BY <1>1 DEF NoScene
<1> HIDE DEF s
<1>5. SceneOK(love[p], s)
  BY <1>1, <1>3, <1>4 DEF Fits, SceneOK
<1>6. InOneScene(said[p], s, title[p], p \in online')
  BY <1>1, <1>3, <1>4 DEF Fits, InOneScene
<1>7. Fits(love[p], said[p], s, title[p], p \in online')
  BY <1>1, <1>3, <1>5, <1>6 DEF Fits
<1> QED BY <1>2, <1>7, OneMoves

LEMMA EndsScene ==
  ASSUME RomanceInv, online' = online, NEW p \in Players, NEW opened \in BOOLEAN,
         NEW gain \in Grants, NEW scripts \in BOOLEAN, SceneEnds(p, opened, gain, scripts)
  PROVE  RomanceKept
<1> DEFINE l == RomanceCredit(AbsorbAll(love[p], scene[p], opened, gain), said[p].about,
                              Credited(scene[p]), gain, scripts)
           d == [said[p] EXCEPT !.about = NoTalk]
<1>1. /\ Fits(love[p], said[p], scene[p], title[p], p \in online)
      /\ LoveOK(love[p]) /\ said[p] \in TheSaid /\ title[p] \in TheTitles
      /\ TalkOK(love[p], said[p].key) /\ InOneScene(said[p], scene[p], title[p], p \in online)
  BY EaseFields DEF Fits
<1>2. gain \in Nat
  BY RomanceAssumption
<1>3. Follows(love[p], l) /\ Steps(love[p], said[p], scene[p], l, NoScene)
  BY <1>1, <1>2, Credits
<1>4. Moves(p, l, d, NoScene, title[p])
  BY <1>1 DEF SceneEnds, Moves, RomanceInv, RomanceTyped
<1> HIDE DEF l
<1>5. d \in TheSaid /\ d.about = NoTalk /\ d.key = said[p].key /\ (d.out <=> said[p].out)
  BY <1>1, NothingFits DEF TheSaid
<1>6. said[p] = NothingSaid => d = NothingSaid
  <2>1. d.out = said[p].out /\ d.credited = said[p].credited
    BY <1>1, Zenon DEF TheSaid
  <2> HIDE DEF d
  <2> QED BY <1>1, <1>5, <2>1, NothingFits DEF TheSaid
<1> HIDE DEF d
<1>7. TalkOK(l, d.key) /\ LoveOK(l) /\ (d.out => d.key = NoTalk)
  BY <1>1, <1>3, <1>5, TalkStays DEF Follows, InOneScene
<1>8. p \in online' \/ d = NothingSaid
  BY <1>1, <1>6 DEF InOneScene
<1>9. Fits(l, d, NoScene, title[p], p \in online')
  BY <1>1, <1>5, <1>7, <1>8, AtRest
<1> QED BY <1>3, <1>4, <1>9, OneMoves

LEMMA Interrupts ==
  ASSUME RomanceInv, online' = online, NEW p \in Players, ScriptInterrupt(p)
  PROVE  RomanceKept
<1>1. LoveOK(love[p]) /\ title[p] \in TheTitles
  BY EaseFields
<1>2. Moves(p, love[p], NothingSaid, NoScene, title[p])
  BY <1>1 DEF ScriptInterrupt, Moves, RomanceInv, RomanceTyped
<1>3. Fits(love[p], NothingSaid, NoScene, title[p], p \in online')
  BY <1>1, LeftAlone
<1> QED BY <1>2, <1>3, OneMoves

LEMMA LetOut ==
  ASSUME RomanceInv, online' = online, NEW p \in Players, NpcEventEnd(p)
  PROVE  RomanceKept
<1> DEFINE l == IF love[p].armed = NoOne THEN love[p] ELSE Confession(love[p])
           d == [said[p] EXCEPT !.out = FALSE]
<1>1. /\ LoveOK(love[p]) /\ said[p] \in TheSaid /\ said[p].about = NoTalk
      /\ scene[p] = NoScene /\ title[p] \in TheTitles /\ said[p].out /\ p \in online
      /\ InOneScene(said[p], scene[p], title[p], p \in online)
  BY EaseFields DEF NpcEventEnd, Fits
<1>2. LoveOK(l) /\ (l = love[p] \/ Steps(love[p], said[p], scene[p], l, NoScene))
  BY <1>1, Confesses
<1>3. Moves(p, l, d, NoScene, title[p])
  BY <1>1 DEF NpcEventEnd, Moves, RomanceInv, RomanceTyped, Confession
<1>4. d \in TheSaid /\ d.key = NoTalk /\ d.about = NoTalk /\ d.out = FALSE
  BY <1>1 DEF TheSaid, InOneScene
<1> HIDE DEF l, d
<1>5. Fits(l, d, NoScene, title[p], p \in online')
  <2>1. TalkOK(l, d.key)
    BY <1>4 DEF TalkOK
  <2> QED BY <1>1, <1>2, <1>4, <2>1, AtRest
<1> QED BY <1>2, <1>3, <1>5, OneMoves

LEMMA EnrolsAgain ==
  ASSUME RomanceInv, online' = online, NEW p \in Players, Reenrol(p)
  PROVE  RomanceKept
<1> DEFINE l == Reenrolled(love[p])
<1>1. /\ LoveOK(love[p]) /\ scene[p] = NoScene /\ title[p] = "none" /\ p \notin online
      /\ said[p] = NothingSaid
  BY EaseFields DEF Reenrol
<1>2. LoveOK(l) /\ Steps(love[p], said[p], scene[p], l, NoScene)
  BY <1>1, Reenrols DEF Reenrol
<1>3. Moves(p, l, NothingSaid, NoScene, "none")
  BY <1>1 DEF Reenrol, Moves, RomanceInv, RomanceTyped
<1> HIDE DEF l
<1>4. Fits(l, NothingSaid, NoScene, "none", p \in online')
  BY <1>2, LeftAlone DEF TheTitles
<1> QED BY <1>2, <1>3, <1>4, OneMoves

(* Everybody grows a day older.                                            *)
LEMMA DayPasses ==
  ASSUME RomanceInv, online' = online, Midnight
  PROVE  RomanceKept
<1>1. \A p \in Players : Fits(love[p], said[p], scene[p], title[p], p \in online)
  BY EaseFields
<1>2. \A p \in Players : /\ love'[p] = Older(love[p]) /\ scene'[p] = OlderScene(scene[p])
                         /\ said'[p] = said[p] /\ title'[p] = title[p]
  BY DEF Midnight, Older, OlderScene, Aged
<1>3. \A p \in Players : FitsAt(p)'
  <2>1. \A p \in Players : scene[p].what # "none" => scene[p].began = "today"
    BY DEF Midnight
  <2>2. ASSUME NEW p \in Players
        PROVE  Fits(love'[p], said'[p], scene'[p], title'[p], p \in online)
    <3>1. Fits(Older(love[p]), said[p], OlderScene(scene[p]), title[p], p \in online)
      BY <1>1, <2>1, SceneAges
    <3> QED BY <1>2, <3>1
  <2> QED BY <2>2 DEF FitsAt
<1>4. RomanceTyped'
  <2>1. \A p \in Players : /\ love'[p] \in TheLoves /\ scene'[p] \in TheScenes
    BY <1>3 DEF FitsAt, Fits, LoveOK
  <2>2. love' \in [Players -> TheLoves]
    BY <2>1 DEF Midnight
  <2>3. scene' \in [Players -> TheScenes]
    BY <2>1 DEF Midnight
  <2> QED BY <2>2, <2>3 DEF Midnight, RomanceTyped, RomanceInv
<1>5. ASSUME NEW p \in Players
      PROVE  Remembers(p) /\ PaidOnce(p)
  <2>1. Steps(love[p], said[p], scene[p], love'[p], scene'[p])
    BY <1>1, <1>2, Ages DEF Fits
  <2> QED BY <2>1, StepsKeep
<1> QED BY <1>3, <1>4, <1>5 DEF RomanceInv, RomanceKept

(* Connections end; what the shadow wrote may be all that was saved.       *)
LEMMA GoneInLove ==
  ASSUME RomanceInv, NEW who \in SUBSET Players, RomanceGone(who),
         \A p \in Players \ who : (p \in online') = (p \in online),
         love' = love \/ \E p \in who, opened \in BOOLEAN, gain \in Grants :
                           SceneTorn(p, opened, gain)
  PROVE  RomanceKept
<1>1. \A p \in Players : /\ Fits(love[p], said[p], scene[p], title[p], p \in online)
                         /\ LoveOK(love[p])
  BY EaseFields
<1>2. \A p \in who : said'[p] = NothingSaid /\ scene'[p] = NoScene /\ title'[p] = "none"
  BY DEF RomanceGone
<1>3. \A p \in Players \ who : said'[p] = said[p] /\ scene'[p] = scene[p] /\ title'[p] = title[p]
  BY DEF RomanceGone
<1>4. \A p \in Players : \/ love'[p] = love[p]
                         \/ /\ p \in who /\ Follows(love[p], love'[p])
                            /\ Steps(love[p], said[p], scene[p], love'[p], NoScene)
  <2>1. CASE love' = love
    BY <2>1
  <2>2. ASSUME NEW q \in who, NEW opened \in BOOLEAN, NEW gain \in Grants,
               SceneTorn(q, opened, gain)
        PROVE  \A p \in Players :
                 \/ love'[p] = love[p]
                 \/ /\ p \in who /\ Follows(love[p], love'[p])
                    /\ Steps(love[p], said[p], scene[p], love'[p], NoScene)
    <3> DEFINE l == AbsorbAll(love[q], scene[q], opened, gain)
    <3>1. gain \in Nat /\ q \in Players
      BY RomanceAssumption
    <3>2. Follows(love[q], l) /\ Steps(love[q], said[q], scene[q], l, NoScene)
      BY <1>1, <3>1, Absorbs
    <3>3. love' = [love EXCEPT ![q] = l]
      BY <2>2 DEF SceneTorn
    <3> HIDE DEF l
    <3>4. love'[q] = l /\ \A p \in Players \ {q} : love'[p] = love[p]
      BY <3>1, <3>3 DEF RomanceInv, RomanceTyped
    <3> QED BY <3>2, <3>4
  <2> QED BY <2>1, <2>2
<1>5. ASSUME NEW p \in Players
      PROVE  FitsAt(p)'
  <2>1. CASE p \in who
    <3>1. LoveOK(love'[p])
      BY <1>1, <1>4 DEF Follows
    <3>2. Fits(love'[p], NothingSaid, NoScene, "none", p \in online')
      BY <3>1, LeftAlone DEF TheTitles
    <3> QED BY <1>2, <2>1, <3>2 DEF FitsAt
  <2>2. CASE p \notin who
    <3>1. love'[p] = love[p] /\ (p \in online') = (p \in online)
      BY <1>4, <2>2
    <3> QED BY <1>1, <1>3, <2>2, <3>1, Zenon DEF FitsAt
  <2> QED BY <2>1, <2>2
<1>6. RomanceTyped'
  <2>1. \A p \in Players : /\ love'[p] \in TheLoves /\ said'[p] \in TheSaid
                           /\ scene'[p] \in TheScenes /\ title'[p] \in TheTitles
    BY <1>5 DEF FitsAt, Fits, LoveOK
  <2>2. love' \in [Players -> TheLoves]
    <3>1. \E f : love' = [p \in Players |-> f[p]]
      BY DEF SceneTorn, RomanceInv, RomanceTyped
    <3> QED BY <2>1, <3>1
  <2>3. /\ said' \in [Players -> TheSaid] /\ scene' \in [Players -> TheScenes]
        /\ title' \in [Players -> TheTitles]
    BY <2>1 DEF RomanceGone
  <2> QED BY <2>2, <2>3 DEF RomanceTyped
<1>7. ASSUME NEW p \in Players
      PROVE  Remembers(p) /\ PaidOnce(p)
  <2>1. love'[p] # love[p] => Steps(love[p], said[p], scene[p], love'[p], scene'[p])
    BY <1>2, <1>4
  <2> QED BY <2>1, StepsKeep
<1> QED BY <1>5, <1>6, <1>7 DEF RomanceKept, RomanceInv

(* The start, and what the invariant says.                                 *)
LEMMA RomanceStarts == Init => RomanceInv
<1> SUFFICES ASSUME Init
             PROVE  RomanceInv
  OBVIOUS
<1>1. NewRow \in TheRows /\ \A c \in Candidates : RowOK(c, NewRow)
  <2>1. NewRow \in TheRows
    BY RomanceAssumption DEF NewRow, TheRows
  <2>2. /\ NewRow.progress = 0 /\ NewRow.album = 0 /\ NewRow.intimacy = 0
        /\ NewRow.ending = FALSE /\ NewRow.letter = FALSE
    BY DEF NewRow
  <2> QED BY <2>1, <2>2 DEF RowOK
<1> DEFINE rows == [c \in Candidates |-> NewRow]
           fresh(p) == [pending |-> p \in NewPlayers, row |-> rows,
                        armed |-> NoOne, captured |-> NoOne]
<1>2. rows \in [Candidates -> TheRows] /\ \A c \in Candidates : rows[c] = NewRow
  BY <1>1
<1>3. \A p \in Players : love[p] = fresh(p)
  BY DEF Init, RomanceInit
<1> HIDE DEF rows
<1>4. ASSUME NEW p \in Players
      PROVE  LoveOK(love[p])
  <2> DEFINE new == p \in NewPlayers
  <2>1. love[p] = [pending |-> new, row |-> rows, armed |-> NoOne, captured |-> NoOne]
    BY <1>3
  <2>2. new \in BOOLEAN
    OBVIOUS
  <2> HIDE DEF new
  <2>3. love[p] \in TheLoves /\ love[p].row = rows /\ love[p].armed = NoOne /\ love[p].captured = NoOne
    BY <1>2, <2>1, <2>2 DEF TheLoves
  <2> QED BY <1>1, <1>2, <2>3 DEF LoveOK
<1>5. ASSUME NEW p \in Players
      PROVE  FitsAt(p)
  <2>1. said[p] = NothingSaid /\ scene[p] = NoScene /\ title[p] = "none"
    BY DEF Init, RomanceInit
  <2>2. Fits(love[p], NothingSaid, NoScene, "none", p \in online)
    BY <1>4, LeftAlone DEF TheTitles
  <2> QED BY <2>1, <2>2 DEF FitsAt
<1>6. RomanceTyped
  <2>1. \A p \in Players : /\ love[p] \in TheLoves /\ said[p] \in TheSaid
                           /\ scene[p] \in TheScenes /\ title[p] \in TheTitles
    BY <1>5 DEF FitsAt, Fits, LoveOK
  <2> QED BY <2>1 DEF RomanceTyped, Init, RomanceInit
<1> QED BY <1>5, <1>6 DEF RomanceInv

LEMMA OneConfessionHolds == RomanceInv => OneConfession
<1> SUFFICES ASSUME RomanceInv, NEW p \in Players
             PROVE  LET l == love[p]
                        facing == {said[p].key.what, said[p].about.what, scene[p].what} IN
                    /\ l.captured # NoOne => /\ l.row[l.captured].ending /\ l.armed = NoOne
                                             /\ facing \cap {"talk", "main", "letter"} = {}
                    /\ \A c \in Candidates :
                         /\ l.row[c].album >= l.row[c].progress
                         /\ l.row[c].ending /\ c \in Tutored => l.row[c].debut
                         /\ ~l.row[c].debut => l.row[c].intimacy = 0 /\ l.row[c].progress = 0
                         /\ l.armed = c => l.row[c].debut
  BY DEF OneConfession
<1>1. /\ LoveOK(love[p]) /\ TalkOK(love[p], said[p].key) /\ TalkOK(love[p], said[p].about)
      /\ InOneScene(said[p], scene[p], title[p], p \in online)
  BY DEF RomanceInv, FitsAt, Fits
<1>2. \A t : TalkOK(love[p], t) /\ t.what \in Her => love[p].captured = NoOne
  BY NothingFits DEF TalkOK, Her
<1>3. scene[p].what \in Her => said[p].about.what = scene[p].what
  BY <1>1 DEF InOneScene
<1>4. love[p].captured # NoOne =>
        {said[p].key.what, said[p].about.what, scene[p].what} \cap {"talk", "main", "letter"} = {}
  BY <1>1, <1>2, <1>3 DEF Her
<1>5. love[p].captured # NoOne => love[p].row[love[p].captured].ending /\ love[p].armed = NoOne
  BY <1>1 DEF LoveOK
<1>6. ASSUME NEW c \in Candidates
      PROVE  /\ love[p].row[c].album >= love[p].row[c].progress
             /\ love[p].row[c].ending /\ c \in Tutored => love[p].row[c].debut
             /\ ~love[p].row[c].debut => love[p].row[c].intimacy = 0 /\ love[p].row[c].progress = 0
             /\ love[p].armed = c => love[p].row[c].debut
  <2>1. RowOK(c, love[p].row[c])
    BY <1>1, LoveFields
  <2>2. love[p].row[c].album \in Nat /\ love[p].row[c].progress \in Nat
    BY <2>1, RowFields
  <2>3. love[p].armed = c => love[p].row[c].debut
    BY <1>1, RomanceAssumption DEF LoveOK
  <2> QED BY <2>1, <2>2, <2>3 DEF RowOK
<1> QED BY <1>4, <1>5, <1>6

LEMMA LoveSteps ==
  ASSUME RomanceInv, Love
  PROVE  RomanceKept
<1>1. online' = online
  BY DEF Love
<1>2. CASE Midnight
  BY <1>1, <1>2, DayPasses
<1>3. ASSUME NEW p \in Players, NEW c \in Candidates,
             \/ \E answer \in {"none", "talk", "main"} : AskTalk(p, c, answer)
             \/ OpenLocker(p, c) \/ AskLetter(p, c)
             \/ \E sure \in BOOLEAN :
                  MeetingStart(p, c, sure) \/ TitleEventStart(p, c, sure)
             \/ ReplayStart(p, c)
      PROVE  RomanceKept
  <2>1. ASSUME NEW answer \in {"none", "talk", "main"}, AskTalk(p, c, answer)
        PROVE  RomanceKept
    BY <1>1, <2>1, AsksHer
  <2>2. CASE OpenLocker(p, c)
    BY <1>1, <2>2, OpensLocker
  <2>3. CASE AskLetter(p, c)
    BY <1>1, <2>3, AsksOther
  <2>4. ASSUME NEW sure \in BOOLEAN, MeetingStart(p, c, sure) \/ TitleEventStart(p, c, sure)
        PROVE  RomanceKept
    BY <1>1, <2>4, PlaysOther
  <2>5. CASE ReplayStart(p, c)
    BY <1>1, <2>5, PlaysOther
  <2> QED BY <1>3, <2>1, <2>2, <2>3, <2>4, <2>5
<1>4. ASSUME NEW p \in Players,
             \/ LobbyDataStart(p) \/ AskStaff(p)
             \/ \E sure \in BOOLEAN : NpcEventStart(p, sure)
      PROVE  RomanceKept
  <2>1. CASE LobbyDataStart(p)
    BY <1>1, <2>1, DrawsMap
  <2>2. CASE AskStaff(p)
    BY <1>1, <2>2, AsksOther
  <2>3. ASSUME NEW sure \in BOOLEAN, NpcEventStart(p, sure)
        PROVE  RomanceKept
    BY <1>1, <2>3, PlaysEvent
  <2> QED BY <1>4, <2>1, <2>2, <2>3
<1>5. ASSUME NEW p \in Players, NEW opened \in BOOLEAN, NEW scripts \in BOOLEAN, NEW gain \in Grants,
             SceneEnds(p, opened, gain, scripts)
      PROVE  RomanceKept
  BY <1>1, <1>5, EndsScene
<1>6. ASSUME NEW p \in Players,
             TitleEventEnd(p) \/ ShadowLost(p) \/ ScriptInterrupt(p) \/ NpcEventEnd(p) \/ Reenrol(p)
      PROVE  RomanceKept
  <2>1. CASE TitleEventEnd(p)
    BY <1>1, <2>1, EndsTitle
  <2>2. CASE ShadowLost(p)
    BY <1>1, <2>2, LosesShadow
  <2>3. CASE ScriptInterrupt(p)
    BY <1>1, <2>3, Interrupts
  <2>4. CASE NpcEventEnd(p)
    BY <1>1, <2>4, LetOut
  <2>5. CASE Reenrol(p)
    BY <1>1, <2>5, EnrolsAgain
  <2> QED BY <1>6, <2>1, <2>2, <2>3, <2>4, <2>5
<1> QED BY <1>2, <1>3, <1>4, <1>5, <1>6 DEF Love

LEMMA RomanceSteps ==
  ASSUME RomanceInv, Here, [Next]_vars
  PROVE  RomanceKept
<1>1. CASE UNCHANGED vars
  BY <1>1, NobodyMoves DEF vars
<1>2. ASSUME NEW p \in Players, Arrive(p)
      PROVE  RomanceKept
  BY <1>2, ArrivesInLove DEF Arrive
<1>3. ASSUME NEW p \in Players, Leave(p)
      PROVE  RomanceKept
  <2>1. RomanceGone({p}) /\ love' = love /\ online' = online \ {p}
    BY <1>3 DEF Leave, ConnectionsEnd
  <2> QED BY <2>1, GoneInLove
<1>4. CASE Crash
  <2>1. RomanceGone(Players)
    BY <1>4 DEF Crash
  <2>2. \/ love' = love
        \/ \E p \in Players, opened \in BOOLEAN, gain \in Grants : SceneTorn(p, opened, gain)
    BY <1>4 DEF Crash, Here
  <2> QED BY <2>1, <2>2, GoneInLove
<1>5. CASE Body \/ Lesson \/ Exam \/ Club
  BY <1>5, NobodyMoves DEF Body, Lesson, Exam, Club
<1> QED BY <1>1, <1>2, <1>3, <1>4, <1>5, LoveSteps DEF Next

-----------------------------------------------------------------------------
(* The start.                                                              *)
LEMMA HealthStarts ==
  ASSUME Init
  PROVE  HealthInv /\ Here
<1> DEFINE well == [stress |-> 0, condition |-> Healthy]
<1>1. sheet = [p \in Players |-> well] /\ seat = [p \in Players |-> Standing]
  BY DEF Init, HealthInit
<1>2. SheetOK(well)
  <2>1. 0 \in 0..Full
    BY HealthAssumption
  <2>2. well \in TheSheets
    BY <2>1, ConditionsNamed DEF TheSheets
  <2> QED BY <2>2 DEF SheetOK
<1> HIDE DEF well
<1>3. HealthInv
  BY <1>1, <1>2, StandingFits DEF HealthInv, SheetOK
<1>4. Here
  BY DEF Here, Init, HelpingInit
<1> QED BY <1>3, <1>4

LEMMA HelpStarts ==
  ASSUME Init
  PROVE  HelpInv
BY DEF Init, HelpingInit, HelpInv

LEMMA DoorsStart ==
  ASSUME Init
  PROVE  DoorsInv
BY DEF Init, ExamsInit, ClubsInit, DoorsInv, AtDoor

-----------------------------------------------------------------------------
(* The inductive invariant of a school year, one conjunct per component.   *)
YearInv == HealthInv /\ Here /\ HelpInv /\ DoorsInv /\ ExamsInv /\ ClubsInv /\ RomanceInv

LEMMA YearHolds == Spec => []YearInv
<1>1. Init => YearInv
  BY HealthStarts, HelpStarts, DoorsStart, ExamsStart, ClubsStart, RomanceStarts DEF YearInv
<1>2. ASSUME YearInv, [Next]_vars
      PROVE  YearInv'
  <2>1. HealthInv' /\ Harmless
    BY <1>2, HealthSteps DEF YearInv, HealthKept
  <2>2. DoorsInv'
    BY <1>2, <2>1, DoorsSteps DEF YearInv
  <2>3. HelpInv' /\ Here'
    BY <1>2, HelpSteps, HereSteps DEF YearInv
  <2>4. RomanceInv'
    BY <1>2, RomanceSteps DEF YearInv, RomanceKept
  <2>5. ExamsInv'
    BY <1>2, ExamsSteps DEF YearInv
  <2>6. ClubsInv'
    BY <1>2, ClubsSteps DEF YearInv, ClubsKept
  <2> QED BY <2>1, <2>2, <2>3, <2>4, <2>5, <2>6 DEF YearInv
<1> QED BY <1>1, <1>2, PTL DEF Spec

(* Whatever charges a character, relieves it, cures it or cuts it off in   *)
(* the middle leaves a sheet in its range, and never an illness no seat,   *)
(* lunch or potion could cure; and whatever is learnt, made, forgotten by a*)
(* crash or put together, a deck holds only what is owned, a helping card  *)
(* is ticked on one, and a practice bout is fought with one that can.      *)
(* stress.py charge, relieve; deck.py.                                     *)
THEOREM SheetsStaySound == Spec => []SheetsAreSound
<1>1. HealthInv => HealthTypeOK /\ IllnessHasStress
  BY DEF HealthInv, HealthTypeOK, IllnessHasStress, SheetOK, TheSheets, TheSeats
<1>2. YearInv => SheetsAreSound
  BY <1>1, ExamsSound, ClubsSound DEF YearInv, SheetsAreSound
<1> QED BY <1>2, YearHolds, PTL

(* For any subjects, scores and number of periods: no subject is sat twice *)
(* in a period, whichever of the writes of a hand-in a crash leaves out;   *)
(* no score is on a card before its period is over or without its paper;   *)
(* and whatever the ranking shows of somebody is, or will be, on the card. *)
(* _exam_part, ScoreCard.release_due, ResultBook.file.                     *)
THEOREM ExamsCount == Spec => []ExamsCountOnce
<1>1. YearInv => ExamsCountOnce
  BY ExamsSound DEF YearInv
<1> QED BY <1>1, YearHolds, PTL

(* No step of the year, a crash between two saves included, takes back a   *)
(* card, a skill or a rung of a ladder; a skill is only made for a book,   *)
(* and a rung only won by a bout on the one below.  _battle_mastery,       *)
(* _gousei, _battle_unlock_level.                                          *)
THEOREM GrowthHolds == Spec => GrowthIsSteady
<1>1. YearInv /\ [Next]_vars => [\A p \in Players : Grows(p)]_vars
  BY ClubsSteps DEF YearInv, ClubsKept
<1> QED BY <1>1, YearHolds, PTL DEF Spec, GrowthIsSteady

(* In a class of any size, whatever skills pupils use on themselves and on *)
(* each other, the right answer is among the choices each is left with,    *)
(* and no answer is held over from a question to the next.                 *)
THEOREM AnswersStay == Spec => []AnswerStaysOnTheTable
<1>1. YearInv => AnswerStaysOnTheTable
  BY DEF YearInv, HelpInv, Here, AnswerStaysOnTheTable
<1> QED BY <1>1, YearHolds, PTL

(* Between the bell of an exam and the client's own step to the hall       *)
(* nothing it can do makes the hall refuse it, for any subjects, and       *)
(* however sick the others make themselves meanwhile.                      *)
THEOREM NobodyIsTurnedAway == Spec => []NobodyTurnedAway
<1>1. YearInv => NobodyTurnedAway
  BY DEF YearInv, DoorsInv, AtDoor, NobodyTurnedAway, Refused
<1> QED BY <1>1, YearHolds, PTL

(* For any candidates, and any number of events and tutorials: once one of *)
(* them has confessed no candidate's scene is played and no letter of      *)
(* another's is kept open, and a locker, an album and a tutorial agree     *)
(* with who was ever met.                                                  *)
THEOREM OneConfessionOnly == Spec => []OneConfession
<1>1. YearInv => OneConfession
  BY OneConfessionHolds DEF YearInv
<1> QED BY <1>1, YearHolds, PTL

(* No step of the year, a crash in the middle of a scene's saves included, *)
(* takes back what was lived through or pays a scene twice; only the one   *)
(* re-enrolment forgets, and only her who confessed.                       *)
THEOREM MemoriesAreKept == Spec => MemoriesStay
<1>1. YearInv /\ [Next]_vars => [\A p \in Players : Remembers(p) /\ PaidOnce(p)]_vars
  BY RomanceSteps DEF YearInv, RomanceKept
<1> QED BY <1>1, YearHolds, PTL DEF Spec, MemoriesStay
=============================================================================
