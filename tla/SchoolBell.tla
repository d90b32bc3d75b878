----------------------------- MODULE SchoolBell -----------------------------
(***************************************************************************)
(* The school bell and the lesson it opens: lesson.Bell, lesson.Lesson and *)
(* lesson.Classrooms, with the parts of mps_session.py that ring, admit,   *)
(* seat, ask, mark and file.                                               *)
(*                                                                         *)
(* There is no timer thread.  A session sleeps until a packet comes or     *)
(* until the moment next_wake() names, and runs the same drains either     *)
(* way; a lesson belongs to a room and is driven by whichever member wakes *)
(* first.  Time is counted in ticks and cannot pass a moment some session  *)
(* is to wake for.                                                         *)
(***************************************************************************)
EXTENDS Integers, Sequences

CONSTANTS
  Chara,       \* charaIds
  Place,       \* map ids
  Classroom,   \* Classroom[p]: classroom_of(in_class)
  Timetable,   \* the day's subjects, slot by slot, over and over
  Slot,        \* LESSON_MINUTES
  Pre,         \* PRE_BELL_MINUTES
  Grace,       \* GRACE_SECONDS
  Speech,      \* PROBE["speech_ms"]: the teacher's opening line
  AnswerTime,  \* ANSWER_SECONDS
  Grading,     \* GRADING_SECONDS
  Questions,   \* QUESTIONS_PER_LESSON
  Morning,     \* bound of the model: the tick it starts at
  Evening,     \* bound of the model: the last tick a packet comes in
  Night,       \* bound of the model: the tick the clock stops at
  MaxChanges,  \* bound of the model: how often circumstances change
  HandTimes    \* bound of the model: when an operator types /bell ready

ASSUME TimesAssumption ==
  /\ {Slot, Pre, Speech, AnswerTime, Questions} \subseteq Nat \ {0}
  /\ {Grace, Grading, Morning, Evening, Night, MaxChanges} \subseteq Nat
  /\ Pre < Slot
ASSUME PlacesAssumption == Classroom \in [Chara -> Place]
ASSUME TimetableAssumption == Timetable \in Seq(Nat) /\ Len(Timetable) > 0

VARIABLES
  now,         \* the wall clock
  online,      \* characters at school: sessions with a chara_id
  place,       \* map_id
  option,      \* option[p]: the lesson row of the option screen is ON
  ill,         \* ill[p]: _neurotic
  held,        \* held[p]: dealing, boarded or on the drama screen
  bell,        \* each session's Bell
  school,      \* classrooms, sessions' lessons, report cards, drawn seats
  called,      \* clients that took 0x6000 and are to send 0x6001
  welcome,     \* history: rung by the clock, and nothing changed since
  heard,       \* history: the slots whose bell the clock rang, in order
  hands,       \* history: bells an operator rang
  changes      \* bound of the model: changes of circumstances so far

circumstances == <<online, place, option, ill, held, changes>>
vars == <<now, circumstances, bell, school, called, welcome, heard, hands>>

Never == -1    \* None, for a moment
Nobody == 0    \* None, for a lesson

(***************************************************************************)
(* The timetable.                                                          *)
(***************************************************************************)
SlotStart(t) == (t \div Slot) * Slot
Begins(t) == SlotStart(t) + Slot
SubjectAt(t) == Timetable[((t \div Slot) % Len(Timetable)) + 1]
PreBell(t) == Begins(t) - Pre

(* How long a lesson takes, and that one which begins in a slot ends in it:*)
(* what the code's durations give, but for a bell rung by hand late.       *)
Length == Speech + Questions * AnswerTime + (Questions - 1) * Grading
Timely(t) == t + Grace + Length < Begins(t)
LessonsFit == Grace + Length < Slot /\ \A t \in HandTimes : Timely(t)

(***************************************************************************)
(* Bell.                                                                   *)
(***************************************************************************)
Silent == [pre |-> Never, start |-> Never, rang |-> Never, subject |-> Never]

Rang(b) == [b EXCEPT !.rang = now, !.subject = SubjectAt(now)]

(* The bells of the slot under way are swallowed.                          *)
Primed(b) ==
  [b EXCEPT !.start = SlotStart(now),
            !.pre = IF now >= PreBell(now) THEN Begins(now) ELSE b.pre]

OwesStart(b) == b.start # SlotStart(now)

(* The slot is marked whether or not the bell may go out.                  *)
Polled(b, admits) ==
  [(IF OwesStart(b) /\ admits THEN Rang(b) ELSE b) EXCEPT
     !.start = SlotStart(now),
     !.pre = IF now >= PreBell(now) THEN Begins(now) ELSE b.pre]

(* Variant: the warning before the bell is not looked for.              *)
NextStart(b) == IF OwesStart(b) THEN now ELSE Begins(now)

NextDue(b) ==
  IF OwesStart(b) THEN now
  ELSE IF b.pre # Begins(now)
    THEN IF now > PreBell(now) THEN now ELSE PreBell(now)
    ELSE Begins(now)

(* admit(): why a 0x6001 is turned away.                                   *)
Refusal(p) ==
  CASE ~option[p] -> "lesson off"
    [] option[p] /\ place[p] # Classroom[p] -> "not in classroom"
    [] option[p] /\ place[p] = Classroom[p] /\ ill[p] -> "neurosis"
    [] OTHER -> IF bell[p].rang = Never \/ now - bell[p].rang > Grace
                  THEN "already started" ELSE "none"

(* Variant: the bell does not ask whether its player is ill.            *)
AdmitsIll(p) == option[p] /\ place[p] = Classroom[p] /\ ~held[p]

(* What the drain asks before it lets the bell out.                        *)
Admits(p) == option[p] /\ place[p] = Classroom[p] /\ ~ill[p] /\ ~held[p]

(***************************************************************************)
(* A lesson: what the room owes when its deadline has come.  A student's   *)
(* `reported` is the number of the question answered, the code's choice;   *)
(* every answer given is taken to be right, for a wrong one and none are   *)
(* marked alike.                                                           *)
(***************************************************************************)
Opened(room, subject) ==
  [room |-> room, subject |-> subject, began |-> now, phase |-> "opening",
   due |-> now + Speech, no |-> 0, desks |-> 0, students |-> <<>>]

Members(L) == DOMAIN L.students
Over(L) == L.phase = "over"
NoAnswer == 0

(* join: whoever is seated keeps the desk, a newcomer gets the next one.   *)
Joined(L, p) ==
  IF p \in Members(L) THEN L
  ELSE LET newcomer == [desk |-> L.desks, came |-> L.no, reported |-> NoAnswer,
                        asked |-> 0, right |-> 0]
       IN  [L EXCEPT !.desks = @ + 1,
                     !.students = [q \in Members(L) \union {p} |->
                                     IF q = p THEN newcomer ELSE @[q]]]

Left(L, p) ==
  [L EXCEPT !.students = [q \in Members(L) \ {p} |-> @[q]]]

(* _ask: the next question, open after the lead.                           *)
Ask(L, lead) ==
  [L EXCEPT !.no = @ + 1, !.phase = "asking", !.due = now + lead + AnswerTime,
            !.students = [q \in Members(L) |->
                            [@[q] EXCEPT !.reported = NoAnswer]]]

Marked(L) ==
  LET Mark(s) == [s EXCEPT !.asked = s.asked + 1,
                           !.right = IF s.reported = NoAnswer THEN s.right ELSE s.right + 1]
  IN  [L EXCEPT !.students = [q \in Members(L) |-> Mark(@[q])]]

Pumped(L) ==
  IF Over(L) \/ now < L.due THEN L
  ELSE IF Members(L) = {} THEN [L EXCEPT !.phase = "over"]
  ELSE IF L.phase = "opening" THEN Ask(L, 0)
  ELSE IF L.no >= Questions THEN [Marked(L) EXCEPT !.phase = "over"]
  ELSE Ask(Marked(L), Grading)

(***************************************************************************)
(* The school: every lesson object there has been, the one each room       *)
(* holds, the one each session holds, the report cards, and the seats each *)
(* client has been told to draw.                                           *)
(***************************************************************************)
Desks(L) == {<<q, L.students[q].desk>> : q \in Members(L)}

Close(S, l) ==
  [S EXCEPT !.rooms = [r \in Place |-> IF @[r] = l THEN Nobody ELSE @[r]]]

(* Classrooms.open replaces what is finished, empty or another subject's.  *)
InUse(S, room, subject) ==
  /\ S.rooms[room] # Nobody
  /\ LET L == S.lessons[S.rooms[room]]
     IN  ~Over(L) /\ Members(L) # {} /\ L.subject = subject

(* _lesson_start: sit down in lesson l, 0x6101 to the others, 0x6100 to p. *)
SatDown(S, p, l, before) ==
  LET L == Joined(before, p)
      told == (Members(before) \ {p}) \intersect online
  IN  [S EXCEPT
         !.lessons = [i \in 1..Len(@) \union {l} |-> IF i = l THEN L ELSE @[i]],
         !.rooms[place[p]] = l,
         !.seat[p] = l,
         !.drawn = [q \in Chara |->
            IF q = p THEN Desks(L)
            ELSE IF q \in told /\ p \notin Members(before)
              THEN @[q] \union {<<p, L.students[p].desk>>}
              ELSE @[q]]]

Seated(S, p, subject) ==
  LET room == place[p]
  IN  IF InUse(S, room, subject)
        THEN SatDown(S, p, S.rooms[room], S.lessons[S.rooms[room]])
        ELSE SatDown(S, p, Len(S.lessons) + 1, Opened(room, subject))

(* _lesson_over and _lesson_end: everybody's card, and the room comes down.*)
Filed(S, l) ==
  LET L == S.lessons[l]
      leaving == Members(L) \intersect online
      Card(q, c) == [attended |-> c.attended + 1,
                     asked |-> c.asked + L.students[q].asked,
                     right |-> c.right + L.students[q].right]
  IN  Close([S EXCEPT
        !.card = [q \in Chara |-> IF q \in leaving THEN Card(q, @[q]) ELSE @[q]],
        !.seat = [q \in Chara |-> IF q \in leaving THEN Nobody ELSE @[q]],
        !.drawn = [q \in Chara |-> IF q \in leaving THEN {} ELSE @[q]]], l)

(* _drain_lesson, run by p's session.                                      *)
Driven(S, p) ==
  LET l == S.seat[p]
      T == [S EXCEPT !.lessons[l] = Pumped(@)]
  IN  IF l = Nobody THEN S
      ELSE IF Over(T.lessons[l]) THEN Filed(T, l) ELSE T

(* _lesson_retire: out of the room, 0x6108 to the others.                  *)
Retired(S, p) ==
  LET found == {r \in Place : /\ S.rooms[r] # Nobody
                              /\ p \in Members(S.lessons[S.rooms[r]])}
      l == S.rooms[CHOOSE r \in found : TRUE]
      T == [S EXCEPT !.lessons[l] = Left(@, p),
                     !.drawn = [q \in Chara |->
                        IF q \in Members(S.lessons[l]) \intersect online
                          THEN {row \in @[q] : row[1] # p} ELSE @[q]]]
      U == IF found = {} THEN S
           ELSE IF Members(T.lessons[l]) = {} THEN Close(T, l) ELSE T
  IN  [U EXCEPT !.seat[p] = Nobody, !.drawn[p] = {}]

(***************************************************************************)
(* The drains every packet and every timer ends in: bells, then lesson.    *)
(***************************************************************************)
Drains(p, b, S, waiting, steady) ==
  LET rung == IF OwesStart(b) /\ Admits(p)' THEN {p} ELSE {}
  IN  /\ bell' = [bell EXCEPT ![p] = Polled(b, Admits(p)')]
      /\ called' = waiting \union rung
      /\ welcome' = steady \union rung
      /\ heard' = [q \in Chara |-> IF q \in rung
                     THEN Append(heard[q], SlotStart(now)) ELSE heard[q]]
      /\ school' = Driven(S, p)

(* Variant: a lesson's own deadlines wake nobody.                       *)
AsleepInClass(p) == bell[p].start = Never \/ NextDue(bell[p]) > now

(* next_wake: the moment p's session wakes by itself is yet to come.       *)
Asleep(p) ==
  /\ bell[p].start = Never \/ NextDue(bell[p]) > now
  /\ LET l == school.seat[p]
     IN  l # Nobody => Over(school.lessons[l]) \/ school.lessons[l].due > now

(* Everybody came to school in the slot under way, whose bells were        *)
(* swallowed, and nothing has happened since.                              *)
Init ==
  /\ now = Morning
  /\ online = Chara
  /\ place \in [Chara -> Place]
  /\ option = [p \in Chara |-> TRUE]
  /\ ill = [p \in Chara |-> FALSE]
  /\ held = [p \in Chara |-> FALSE]
  /\ bell = [p \in Chara |-> Primed(Silent)]
  /\ school = [lessons |-> <<>>,
               rooms |-> [r \in Place |-> Nobody],
               seat |-> [p \in Chara |-> Nobody],
               card |-> [p \in Chara |-> [attended |-> 0, asked |-> 0, right |-> 0]],
               drawn |-> [p \in Chara |-> {}]]
  /\ called = {}
  /\ welcome = {}
  /\ heard = [p \in Chara |-> <<>>]
  /\ hands = [p \in Chara |-> 0]
  /\ changes = 0

(* Time passes when no session is to wake now.                             *)
Tick ==
  /\ \A p \in online : Asleep(p)
  /\ now < Night
  /\ now' = now + 1
  /\ UNCHANGED <<circumstances, bell, school, called, welcome, heard, hands>>

Timer(p) ==
  /\ p \in online
  /\ ~Asleep(p)
  /\ UNCHANGED <<now, circumstances, hands>>
  /\ Drains(p, bell[p], school, called, welcome)

Changing ==
  /\ now <= Evening
  /\ changes < MaxChanges
  /\ changes' = changes + 1
  /\ UNCHANGED <<now, hands>>

(* A packet of p that moves what a bell or a door looks at.                *)
Moves(p) ==
  /\ p \in online
  /\ Changing
  /\ UNCHANGED online
  /\ Drains(p, bell[p], school, called, welcome \ {p})

(* Nobody walks about from a desk.                                         *)
Walk(p) ==
  /\ school.seat[p] = Nobody
  /\ \E m \in Place \ {place[p]} : place' = [place EXCEPT ![p] = m]
  /\ UNCHANGED <<option, ill, held>>
  /\ Moves(p)

SetOption(p) ==
  /\ option' = [option EXCEPT ![p] = ~@]
  /\ UNCHANGED <<place, ill, held>>
  /\ Moves(p)

(* Any handler that charges or heals stress past a threshold.              *)
ConditionTurns(p) ==
  /\ ill' = [ill EXCEPT ![p] = ~@]
  /\ UNCHANGED <<place, option, held>>
  /\ Moves(p)

(* A trade, a twoshot, a board or the drama screen is taken up or left.    *)
HoldOrLetGo(p) ==
  /\ school.seat[p] = Nobody
  /\ held' = [held EXCEPT ![p] = ~@]
  /\ UNCHANGED <<place, option, ill>>
  /\ Moves(p)

(* School login, on a fresh connection or on one that logged out before.   *)
Arrive(p) ==
  /\ p \notin online
  /\ Changing
  /\ online' = online \union {p}
  /\ UNCHANGED <<place, option, ill, held>>
  /\ \E b \in {Silent, bell[p]} :
       Drains(p, Primed(b), school, called, welcome)

(* School logout or the end of the connection: no drain follows, for the   *)
(* session has no chara_id any more.                                       *)
Depart(p) ==
  /\ p \in online
  /\ Changing
  /\ online' = online \ {p}
  /\ held' = [held EXCEPT ![p] = FALSE]
  /\ school' = Retired(school, p)
  /\ called' = called \ {p}
  /\ welcome' = welcome \ {p}
  /\ UNCHANGED <<place, option, ill, bell, heard>>

(* The client's 0x6001, sent by itself once 0x6000 has taken its scene.    *)
Ready(p) ==
  /\ now <= Evening
  /\ p \in online \intersect called
  /\ UNCHANGED <<now, circumstances, hands>>
  /\ Drains(p, bell[p],
            IF Refusal(p) = "none" THEN Seated(school, p, bell[p].subject)
                                   ELSE school,
            called \ {p}, welcome)

(* Variant: an answer to the question before still counts.              *)
TakenLate(L, p, q) ==
  /\ L.phase = "asking"
  /\ L.students[p].reported = NoAnswer
  /\ q \in {L.no, L.no - 1}

(* take_answer: once, in time, and for the question that is out.           *)
Taken(L, p, q) ==
  /\ L.phase = "asking"
  /\ L.students[p].reported = NoAnswer
  /\ q = L.no

(* 0x6105 for a question the client was shown, this one or an earlier one. *)
Answer(p) ==
  LET l == school.seat[p]
      L == school.lessons[l]
  IN  /\ now <= Evening
      /\ p \in online
      /\ l # Nobody
      /\ p \in Members(L)
      /\ UNCHANGED <<now, circumstances, hands>>
      /\ \E q \in 1..L.no :
           /\ Taken(L, p, q)
           /\ Drains(p, bell[p],
                [school EXCEPT !.lessons[l].students[p].reported = q],
                called, welcome)

(* An operator's /bell ready, from the chat bar or the console file.       *)
HandRing(p) ==
  /\ now \in HandTimes
  /\ p \in online
  /\ option[p] /\ place[p] = Classroom[p]
  /\ \A q \in Chara : hands[q] = 0    \* bound of the model: one such bell
  /\ hands' = [hands EXCEPT ![p] = 1]
  /\ UNCHANGED <<now, circumstances>>
  /\ Drains(p, Rang(bell[p]), school, called \union {p}, welcome)

Next ==
  \/ Tick
  \/ \E p \in Chara :
       \/ Timer(p) \/ Walk(p) \/ SetOption(p) \/ ConditionTurns(p)
       \/ HoldOrLetGo(p) \/ Arrive(p) \/ Depart(p) \/ Ready(p)
       \/ Answer(p) \/ HandRing(p)

(* A waiting task is woken at its deadline, and the clock goes on.         *)
Fairness == WF_vars(Tick) /\ \A p \in Chara : WF_vars(Timer(p))

Spec == Init /\ [][Next]_vars /\ Fairness
-----------------------------------------------------------------------------
Moment == Nat \union {Never}
(* Every field of every session, bell, lesson and card is what the code    *)
(* takes it for; lessons refer to each other by their number.              *)
TypeOK ==
  /\ now \in Nat
  /\ online \subseteq Chara
  /\ place \in [Chara -> Place]
  /\ option \in [Chara -> BOOLEAN]
  /\ ill \in [Chara -> BOOLEAN]
  /\ held \in [Chara -> BOOLEAN]
  /\ bell \in [Chara -> [pre : Moment, start : Moment, rang : Moment,
                        subject : Moment]]
  /\ DOMAIN school = {"lessons", "rooms", "seat", "card", "drawn"}
  /\ \A l \in 1..Len(school.lessons) :
       LET L == school.lessons[l]
       IN  /\ [L EXCEPT !.students = <<>>] \in
                 [room : Place, subject : Nat, began : Nat, due : Nat,
                  no : 0..Questions, phase : {"opening", "asking", "over"},
                  desks : Nat, students : {<<>>}]
           /\ Members(L) \subseteq Chara
           /\ \A p \in Members(L) :
                L.students[p].desk < L.desks /\ L.students[p].right <= Questions
  /\ school.rooms \in [Place -> 0..Len(school.lessons)]
  /\ school.seat \in [Chara -> 0..Len(school.lessons)]
  /\ called \subseteq online
  /\ welcome \subseteq online
  /\ hands \in [Chara -> 0..1]
  /\ changes \in 0..MaxChanges

(* Ringing at somebody who would be refused logs them out (Bell.poll).  A  *)
(* player rung by the clock whose circumstances have not moved since is    *)
(* let in if the 0x6001 comes within the grace.                            *)
RungMeansWelcome ==
  \A p \in called \intersect welcome :
    now - bell[p].rang <= Grace => Refusal(p) = "none"

(* session.lesson and the room's student list are two records of one fact: *)
(* whoever has a lesson sits in it, it is the one its room holds and it is *)
(* not over; whoever sits in a room's lesson has it.                       *)
SeatsAgree ==
  /\ \A p \in Chara : school.seat[p] # Nobody =>
       LET L == school.lessons[school.seat[p]]
       IN  /\ p \in Members(L)
           /\ ~Over(L)
           /\ school.rooms[L.room] = school.seat[p]
  /\ \A r \in Place : school.rooms[r] # Nobody =>
       \A p \in Members(school.lessons[school.rooms[r]]) :
         school.seat[p] = school.rooms[r]

(* 0x6100 gives the newcomer the room, 0x6101 and 0x6108 keep the others   *)
(* up to date: every client draws exactly the room it sits in, one figure  *)
(* to a desk.                                                              *)
ClientsDrawTheRoom ==
  \A p \in Chara : school.seat[p] # Nobody =>
    LET L == school.lessons[school.seat[p]]
    IN  /\ school.drawn[p] = Desks(L)
        /\ \A a, b \in school.drawn[p] : a[2] = b[2] => a[1] = b[1]

(* An answer counts for the question it named, however late it arrives.    *)
AnswersThisQuestion ==
  \A l \in 1..Len(school.lessons) : \A p \in Members(school.lessons[l]) :
    LET reported == school.lessons[l].students[p].reported
    IN  reported # NoAnswer => reported = school.lessons[l].no

(* Who sat in a lesson that ran to its end was asked every question from   *)
(* the one that was out when they came in, and is credited with no more.   *)
MarksAreWhole ==
  \A l \in 1..Len(school.lessons) :
    LET L == school.lessons[l]
    IN  Over(L) => \A p \in Members(L) :
          /\ L.students[p].asked =
               Questions - (IF L.students[p].came = 0 THEN 0
                            ELSE L.students[p].came - 1)
          /\ L.students[p].right <= L.students[p].asked

(* Bell.next_due names every edge poll looks for: no session at school     *)
(* lets the start of a slot, or the warning before it, go by.              *)
BellsOnTime ==
  \A p \in online :
    /\ now > SlotStart(now) => bell[p].start = SlotStart(now)
    /\ now > PreBell(now) => bell[p].pre = Begins(now)

(* The clock calls nobody twice to one lesson, logins in between or not.   *)
CalledOncePerSlot ==
  \A p \in Chara : \A i, j \in 1..Len(heard[p]) :
    i < j => heard[p][i] < heard[p][j]

(* Attendance counts towards the course: a lesson is filed once, and there *)
(* is no more of it than bells heard.                                      *)
AttendanceWasCalled ==
  \A p \in Chara :
    school.card[p].attended + (IF school.seat[p] = Nobody THEN 0 ELSE 1)
      <= Len(heard[p]) + hands[p]

(* A lesson takes its speech, its questions and the remarks between them,  *)
(* whoever joins or leaves and whichever session drives it.                *)
LessonsKeepTime ==
  \A l \in 1..Len(school.lessons) :
    LET L == school.lessons[l]
    IN  ~Over(L) /\ Members(L) # {} =>
          now <= L.began + Speech + Questions * AnswerTime
                                  + (Questions - 1) * Grading

(* What next_wake names, the drain of that wake settles, whatever it finds *)
(* of the player: nothing is due to p's session once p has been drained    *)
(* ("a now that nothing ever marks would be a loop that never sleeps").    *)
WakesSettle ==
  \A p \in online :
    /\ \A admits \in BOOLEAN : NextDue(Polled(bell[p], admits)) > now
    /\ school.seat[p] # Nobody =>
         LET L == Pumped(school.lessons[school.seat[p]])
         IN  Over(L) \/ L.due > now

(* Whoever sits down gets up: the lesson reaches its end.                  *)
EveryLessonEnds ==
  \A p \in Chara : school.seat[p] # Nobody ~> school.seat[p] = Nobody

(* A classroom is one room to its students' sessions, to itself and on     *)
(* every screen, whoever comes, goes, falls ill or is cut off.             *)
RoomsAreWhole == TypeOK /\ SeatsAgree /\ ClientsDrawTheRoom

(* What is asked, answered and marked in a lesson is one account of it.    *)
MarksAreTrue == AnswersThisQuestion /\ MarksAreWhole

(* The day keeps its timetable: bells, calls, lessons and the wakes that   *)
(* drive them all come when due, once.                                     *)
TimetableKept ==
  BellsOnTime /\ CalledOncePerSlot /\ AttendanceWasCalled /\ LessonsKeepTime /\ WakesSettle

(* The room and the answers given in it are one account of the lesson.     *)
LessonsAreWhole == RoomsAreWhole /\ MarksAreTrue
=============================================================================
