------------------------------- MODULE Exams -------------------------------
(***************************************************************************)
(* Exams (server/exam.py, server/examrank.py, the 0x66xx and 0x6Axx        *)
(* messages of server/mps_session.py).  In an exam period the start bell   *)
(* of a subject lets whoever has not sat it yet into the exam; the paper   *)
(* handed in is marked at once and kept back until the period is over.     *)
(* What was sat is remembered three times: by the connection, by the       *)
(* character's report card on disk and by the ranking of all characters.   *)
(*                                                                         *)
(* The period is decided by the school calendar, which may run faster than *)
(* the clock the ten minutes of a paper run by (TMO_DAY_HOURS), so a       *)
(* period may close at any moment.  It is the factory calendar's; the      *)
(* console, which can hold a period open or shut, is left out.             *)
(***************************************************************************)
EXTENDS Health, Sequences

CONSTANTS
  Subjects,    \* curriculum.SUBJECTS
  Scores,      \* what a marked paper may be worth
  MaxPeriod    \* bound: the calendar's periods that come round

ASSUME ExamsAssumption == Scores \subseteq Nat /\ MaxPeriod \in Nat

NoKey == -1    \* None
Manual == 0    \* Period.MANUAL
Keys == NoKey..MaxPeriod
NoPaper == [subject |-> "none", begun |-> NoKey]

VARIABLES
  days,      \* how far the calendar is: odd within a period, even between two
  card,      \* on disk, the ScoreCard: exam_key, exam_sat, exam_held, scores
  papers,    \* on disk, ResultBook.periods: every marked paper
  period,    \* session.exam: key and sat
  paper,     \* session.exam.paper; begun is the period its bell rang in
  bell,      \* session.bell.rang_subject while its door is open, and the period
  first,     \* on disk, career: who has been first of a ranking
  handedIn   \* history: every paper each character handed in, in order

examVars == <<days, card, papers, period, paper, bell, first, handedIn>>
NoBell == [subject |-> "none", during |-> NoKey]

(* scheduled and Period.current: the key of the period in session.         *)
Current == IF days % 2 = 1 THEN (days + 1) \div 2 ELSE NoKey

(* period_over: the console's period counts as over at once.               *)
PeriodOver(key) == key = Manual \/ key # Current

ExamsInit ==
  /\ days = 0 /\ papers = {} /\ first = {}
  /\ handedIn = [p \in Players |-> <<>>]
  /\ card = [p \in Players |-> [key |-> NoKey, sat |-> {}, held |-> <<>>,
                                last |-> [s \in Subjects |-> -1], best |-> [s \in Subjects |-> -1]]]
  /\ period = [p \in Players |-> [key |-> NoKey, sat |-> {}]]
  /\ paper = [p \in Players |-> NoPaper]
  /\ bell = [p \in Players |-> NoBell]
-----------------------------------------------------------------------------
(* ScoreCard.record_exam: the last score of a subject and the best one.    *)
RecordExam(c, subject, score) ==
  [c EXCEPT !.last[subject] = score, !.best[subject] = IF score > @ THEN score ELSE @]

(* ScoreCard.hold_exam.                                                    *)
HoldExam(c, subject, score, key) ==
  [c EXCEPT !.held = Append(@, [subject |-> subject, score |-> score, period |-> key])]

(* ScoreCard.release_due: one pass over what is held, in the order it was  *)
(* sat, files what was sat in a period that is over and keeps the rest;    *)
(* CharacterStore.scorecard does it on every read.                         *)
FileOrKeep(c, h) ==
  IF PeriodOver(h.period) THEN RecordExam(c, h.subject, h.score)
  ELSE HoldExam(c, h.subject, h.score, h.period)

ReleaseDue(c) ==
  LET upTo[i \in 0..Len(c.held)] ==
        IF i = 0 THEN [c EXCEPT !.held = <<>>] ELSE FileOrKeep(upTo[i-1], c.held[i])
  IN upTo[Len(c.held)]

Scorecard(p) == ReleaseDue(card[p])

(* Period.taken: was this subject sat in the period now in session?        *)
Taken(p, subject) == period[p].key = Current /\ subject \in period[p].sat

(* Period.sit: a mark of another period is not carried over.               *)
Sit(was, subject) ==
  [key |-> Current, sat |-> IF was.key = Current THEN was.sat \cup {subject} ELSE {subject}]

(* ResultBook.file: a second paper in a subject replaces the first.        *)
File(key, p, subject, score) ==
  {e \in papers : ~(e.period = key /\ e.who = p /\ e.subject = subject)}
    \cup {[period |-> key, who |-> p, subject |-> subject, score |-> score]}
-----------------------------------------------------------------------------
(* The calendar goes on.  The next period is months away: nobody sits over *)
(* a paper that long.                                                      *)
CalendarMoves ==
  /\ days < 2 * MaxPeriod
  /\ days % 2 = 0 => \A p \in Players : paper[p] = NoPaper /\ bell[p] = NoBell
  /\ days' = days + 1
  /\ UNCHANGED <<card, papers, period, paper, bell, first, handedIn, healthVars>>

(* ResultBook.firsts: does a ranking that is out have this character first?*)
IsFirst(p) ==
  \E e \in papers : /\ e.who = p /\ PeriodOver(e.period)
                    /\ \A f \in papers : f.period = e.period /\ f.subject = e.subject
                                        => f.score <= e.score

(* Variant: a new connection has sat nothing.                               *)
SeatOfFresh(c) == [key |-> NoKey, sat |-> {}]

(* What the card says of the period in session.                            *)
SeatOf(c) ==
  IF c.key = Current /\ Current # NoKey THEN [key |-> c.key, sat |-> c.sat]
  ELSE [key |-> NoKey, sat |-> {}]

(* The login of 0x0310: what the card says of the period in session, and   *)
(* the honour of having been first.                                        *)
ExamsLogin(p) ==
  LET c == Scorecard(p) IN
  /\ card' = [card EXCEPT ![p] = c]
  /\ period' = [period EXCEPT ![p] = SeatOf(c)]
  /\ paper' = [paper EXCEPT ![p] = NoPaper] /\ bell' = [bell EXCEPT ![p] = NoBell]
  /\ first' = IF IsFirst(p) THEN first \cup {p} ELSE first
  /\ UNCHANGED <<days, papers, handedIn>>

(* A connection ends, or the process with all of them.                     *)
ExamsGone(who) ==
  /\ period' = [p \in Players |-> IF p \in who THEN [key |-> NoKey, sat |-> {}] ELSE period[p]]
  /\ paper' = [p \in Players |-> IF p \in who THEN NoPaper ELSE paper[p]]
  /\ bell' = [p \in Players |-> IF p \in who THEN NoBell ELSE bell[p]]

(* Variant: the illness is left to the door.                               *)
AdmitsIll(p, subject) == ~Taken(p, subject)

(* What _drain_bells asks before it rings.                                 *)
Admits(p, subject) == ~Taken(p, subject) /\ ~Neurotic(p)

(* 0x6601 out of _drain_bells: the start bell of a subject, for whoever    *)
(* stands in the classroom and has not sat it; a client in an exam hall    *)
(* has nothing to do with it.                                              *)
RingExam(p, subject) ==
  /\ p \in online /\ Current # NoKey /\ paper[p] = NoPaper /\ bell[p] = NoBell
  /\ Admits(p, subject)
  /\ bell' = [bell EXCEPT ![p] = [subject |-> subject, during |-> Current]]
  /\ UNCHANGED <<days, card, papers, period, paper, first, handedIn, healthVars>>

(* 0x6602, _exam_ready: the client asks to be let in by itself.  A refusal *)
(* makes it hang up, so nobody may be refused who was rung for; who        *)
(* declined 0x6601 never asks.                                             *)
Refused(p) == Neurotic(p) \/ Taken(p, bell[p].subject)

(* 0x6602 and 0x6A00 of a client that is let in: _exam_ready, which closes *)
(* what the map had open and stands the character up, and _exam_start.     *)
ExamStart(p) ==
  /\ bell[p] # NoBell /\ ~Refused(p)
  /\ card' = [card EXCEPT ![p] = Scorecard(p)]
  /\ paper' = [paper EXCEPT ![p] = [subject |-> bell[p].subject, begun |-> bell[p].during]]
  /\ bell' = [bell EXCEPT ![p] = NoBell]
  /\ Stands(p)
  /\ UNCHANGED <<days, papers, period, first, handedIn, sheet>>

(* A bell that was declined, or whose door has closed.                     *)
ExamMissed(p) ==
  /\ bell[p] # NoBell /\ bell' = [bell EXCEPT ![p] = NoBell]
  /\ UNCHANGED <<days, card, papers, period, paper, first, handedIn, healthVars>>

(* 0x6A05, _exam_part: the sitting goes to the connection and to the card, *)
(* the score to the card and then to the ranking.                          *)
PartWrites(p, score) ==
  LET subject == paper[p].subject
      sitting == Sit(period[p], subject)
      filed == [Scorecard(p) EXCEPT !.key = sitting.key, !.sat = sitting.sat]
      key == IF sitting.key = NoKey THEN Manual ELSE sitting.key
  IN <<filed, HoldExam(filed, subject, score, key), key>>

ExamPart(p, score) ==
  LET w == PartWrites(p, score) IN
  /\ paper[p] # NoPaper
  /\ period' = [period EXCEPT ![p] = Sit(@, paper[p].subject)]
  /\ card' = [card EXCEPT ![p] = ReleaseDue(w[2])]
  /\ papers' = File(w[3], p, paper[p].subject, score)
  /\ handedIn' = [handedIn EXCEPT ![p] =
       Append(@, [begun |-> paper[p].begun, subject |-> paper[p].subject, score |-> score])]
  /\ paper' = [paper EXCEPT ![p] = NoPaper]
  /\ \E s \in AfterLesson(sheet[p]) : sheet' = [sheet EXCEPT ![p] = s]
  /\ UNCHANGED <<days, bell, first, seat>>

(* The process dies between the two writes of the card, or before the      *)
(* ranking's file.                                                         *)
ExamPartTorn(p, score, written) ==
  LET w == PartWrites(p, score) IN
  /\ paper[p] # NoPaper
  /\ card' = [card EXCEPT ![p] = w[written]]
  /\ handedIn' = [handedIn EXCEPT ![p] =
       Append(@, [begun |-> paper[p].begun, subject |-> paper[p].subject, score |-> score])]
  /\ UNCHANGED <<days, papers, first, sheet>>

(* CharacterStore.scorecard: anything that reads a report card, the owner's *)
(* or another's, files what is due.                                        *)
LookAtCard(p) ==
  /\ p \in exists /\ Scorecard(p) # card[p]
  /\ card' = [card EXCEPT ![p] = Scorecard(p)]
  /\ UNCHANGED <<days, papers, period, paper, bell, first, handedIn, healthVars>>

-----------------------------------------------------------------------------
(* Type correctness.                                                       *)
ExamsTypeOK ==
  /\ days \in 0..2 * MaxPeriod /\ first \subseteq Players
  /\ \A e \in papers : e.period \in Keys \ {NoKey} /\ e.who \in Players /\ e.score \in Scores
  /\ \A p \in Players :
       /\ period[p].key \in Keys /\ period[p].sat \subseteq Subjects
       /\ card[p].key \in Keys /\ card[p].sat \subseteq Subjects
       /\ \A s \in Subjects : card[p].last[s] \in Scores \cup {-1}
       /\ (paper[p] # NoPaper \/ bell[p] # NoBell) => p \in online

(* One subject is sat once in a period, whatever happens in between: the   *)
(* connection ends, the process dies at any write of the hand-in, the      *)
(* character comes back.  (A period that closes over a paper files it under*)
(* another key; the subject still cannot be sat again.)                    *)
SatOnce ==
  \A p \in Players : \A i, j \in DOMAIN handedIn[p] :
    i # j => \/ handedIn[p][i].begun # handedIn[p][j].begun
             \/ handedIn[p][i].subject # handedIn[p][j].subject

(* Whoever the exam bell was rung for is let in: what makes a client hang  *)
(* up was asked before the bell, and nothing of the school day that comes  *)
(* in between changes it.  (Unless the period closes in that moment.)      *)
(* _drain_bells, _exam_ready.                                              *)
NobodyTurnedAway == \A p \in Players : bell[p] # NoBell /\ bell[p].during = Current => ~Refused(p)

(* A result stays off the report card until the period it was sat in is    *)
(* over, so no score is on a card that was not handed in before; and what  *)
(* the ranking shows of somebody is on their card too, or waits there.     *)
ResultsAreKept ==
  /\ \A p \in Players, s \in Subjects : card[p].best[s] >= 0 =>
       \E i \in DOMAIN handedIn[p] :
         /\ handedIn[p][i].subject = s /\ handedIn[p][i].score = card[p].best[s]
         /\ handedIn[p][i].begun # Current
  /\ \A e \in papers :
       \/ card[e.who].best[e.subject] >= e.score
       \/ \E i \in DOMAIN card[e.who].held :
            card[e.who].held[i] = [subject |-> e.subject, score |-> e.score, period |-> e.period]
=============================================================================
