------------------------------ MODULE Helping ------------------------------
(***************************************************************************)
(* Helping each other in a lesson (server/lesson_skill.py, the 0x61xx      *)
(* skills of server/mps_session.py).  While a question is open a student   *)
(* may have the choices narrowed, copy a classmate's answer, narrow a      *)
(* classmate's choices, cheer one up or eat a lunch.  Which bell rang and  *)
(* how a question's clock runs is SchoolBell's; here one room asks one     *)
(* question after another of whoever is seated.                            *)
(***************************************************************************)
EXTENDS Health

CONSTANTS Choices, NoAnswer,
          NarrowedSize   \* lesson_skill.narrowed_size of all the choices

ASSUME HelpingAssumption == NoAnswer \notin Choices /\ NarrowedSize \in Nat \ {0}

VARIABLES
  right,      \* Lesson.question: its right choice, NoAnswer while none is open
  seated,     \* Lesson.students: the occupied desks
  reported,   \* Student.reported: the answer given to this question
  narrowed,   \* Student.narrowed: the choices left, all of them before
  lunch       \* Student.lunch

helpingVars == <<right, seated, reported, narrowed, lunch>>

HelpingInit ==
  /\ right = NoAnswer /\ seated = {}
  /\ reported = [p \in Players |-> NoAnswer]
  /\ narrowed = [p \in Players |-> Choices]
  /\ lunch = [p \in Players |-> FALSE]
-----------------------------------------------------------------------------
(* Variant: the right one is not looked for.                               *)
NarrowingsBlind(p) ==
  {left \in SUBSET narrowed[p] : Cardinality(left) = NarrowedSize}

(* narrow: half of the choices, the right one among them.                  *)
Narrowings(p) ==
  {left \in SUBSET narrowed[p] :
     right \in left /\ Cardinality(left) = NarrowedSize}

(* _lesson_skill: at a desk, while a question is open.                     *)
AtWork(p) == p \in seated /\ right # NoAnswer

(* check_common and check_not_narrowed.                                    *)
MayAsk(p) == AtWork(p) /\ reported[p] = NoAnswer
NotNarrowed(p) == narrowed[p] = Choices

(* _lesson_start: a desk, with or without a lunch in the bag.  The map is  *)
(* torn down, so whoever sat stands; _neurotic was asked before.           *)
LessonStart(p, packed) ==
  /\ p \in online \ seated /\ right = NoAnswer /\ ~Neurotic(p)
  /\ seated' = seated \cup {p}
  /\ lunch' = [lunch EXCEPT ![p] = packed]
  /\ Stands(p)
  /\ UNCHANGED <<right, reported, narrowed, sheet>>

(* _ask: the next question, with every desk's answer and choices cleared.  *)
Ask(r) ==
  /\ seated # {} /\ right' = r
  /\ reported' = [p \in Players |-> NoAnswer]
  /\ narrowed' = [p \in Players |-> Choices]
  /\ UNCHANGED <<seated, lunch, healthVars>>

TakeAnswer(p, choice) ==
  /\ MayAsk(p)
  /\ reported' = [reported EXCEPT ![p] = choice]
  /\ UNCHANGED <<right, seated, narrowed, lunch, healthVars>>

(* The stress a skill costs its user, less than a lesson's; it may break   *)
(* them like one.                                                          *)
Pays(p) == \E amount \in {0, 1} : \E s \in Charged(sheet[p], amount, "neurosis") :
             sheet' = [sheet EXCEPT ![p] = s]

(* Intuition, at two strengths: a choice is whispered and nothing else changes.     *)
Feeling(p) ==
  /\ MayAsk(p) /\ Cardinality(narrowed[p]) > 1 /\ Pays(p)
  /\ UNCHANGED <<helpingVars, seat>>

(* Concentration: half of the choices go, if it works out.                 *)
Concentrate(p) ==
  /\ MayAsk(p) /\ NotNarrowed(p) /\ Pays(p)
  /\ \E left \in Narrowings(p) \cup {narrowed[p]} :
       narrowed' = [narrowed EXCEPT ![p] = left]
  /\ UNCHANGED <<right, seated, reported, lunch, seat>>

(* Cheating: the copied choice goes to the cheat's client, which decides   *)
(* with it; it needs an answer to copy.                                    *)
Cheat(p, q) ==
  /\ MayAsk(p) /\ q \in seated /\ reported[q] # NoAnswer /\ Pays(p)
  /\ UNCHANGED <<helpingVars, seat>>

(* Teaching: a classmate's choices are narrowed, at the teacher's cost.    *)
Teach(p, q) ==
  /\ AtWork(p) /\ q \in seated /\ reported[q] = NoAnswer /\ NotNarrowed(q) /\ Pays(p)
  /\ \E left \in Narrowings(q) \cup {narrowed[q]} :
       narrowed' = [narrowed EXCEPT ![q] = left]
  /\ UNCHANGED <<right, seated, reported, lunch, seat>>

(* _relieve, for somebody else: the sheet is written at once.              *)
Cheered(q) == [sheet EXCEPT ![q] = Relieved(@, 1)]

(* Cheering on: the one skill that writes somebody else's sheet.  Cheering *)
(* oneself on writes it twice, and the caller's own copy, read before, is  *)
(* what stays.                                                             *)
Support(p, q) ==
  /\ AtWork(p) /\ q \in seated
  /\ \E mine \in Charged(sheet[p], 0, "neurosis") :
       sheet' = [Cheered(q) EXCEPT ![p] = mine]
  /\ UNCHANGED <<helpingVars, seat>>

(* An early lunch: none without stress, and it may not work.               *)
EatLunch(p, works) ==
  /\ AtWork(p) /\ lunch[p] /\ sheet[p].stress > 0
  /\ lunch' = [lunch EXCEPT ![p] = FALSE]
  /\ IF works THEN sheet' = [sheet EXCEPT ![p] = Relieved(@, 1)]
     ELSE \E s \in Charged(sheet[p], 0, "neurosis") : sheet' = [sheet EXCEPT ![p] = s]
  /\ UNCHANGED <<right, seated, reported, narrowed, seat>>

Leaves(who) ==
  /\ seated' = seated \ who
  /\ lunch' = [p \in Players |-> lunch[p] /\ p \notin who]
  /\ right' = IF seated \subseteq who THEN NoAnswer ELSE right
  /\ reported' = [p \in Players |-> IF p \in who \/ seated \subseteq who THEN NoAnswer ELSE reported[p]]
  /\ narrowed' = [p \in Players |-> IF p \in who \/ seated \subseteq who THEN Choices ELSE narrowed[p]]

(* _lesson_end, for one desk after the other: a lesson's worth of stress.  *)
LessonEnd(p) ==
  /\ p \in seated /\ Leaves({p})
  /\ \E s \in AfterLesson(sheet[p]) : sheet' = [sheet EXCEPT ![p] = s]
  /\ UNCHANGED seat

-----------------------------------------------------------------------------
(* The right answer is always among the choices a student is left with,    *)
(* whoever narrowed them, and an answer is never one to an earlier question.*)
AnswerStaysOnTheTable ==
  \A p \in seated :
    /\ right # NoAnswer => right \in narrowed[p]
    /\ right = NoAnswer => reported[p] = NoAnswer
=============================================================================
