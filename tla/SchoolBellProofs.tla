-------------------------- MODULE SchoolBellProofs --------------------------
(***************************************************************************)
(* School bells and lessons, for any number of players and rooms, any      *)
(* timetable and any durations.                                            *)
(*                                                                         *)
(* First: a player the clock rings for is let in.  What carries it is      *)
(* small: whoever is in `welcome` stands as the drain saw them when it     *)
(* rang, and the ring left its moment behind.  The lessons, the cards and  *)
(* the clock do not matter to it.                                          *)
(*                                                                         *)
(* Then the day itself (LessonsStayWhole, TheDayIsKept), by an invariant   *)
(* that ties bells, lessons, seats, cards and the clock together.          *)
(***************************************************************************)
EXTENDS SchoolBell, SequenceTheorems, TLAPS

Subject == {Timetable[i] : i \in 1..Len(Timetable)} \union {Never}
Bell == [pre : Int, start : Int, rang : Int, subject : Subject]

BellsTyped ==
  /\ now \in Nat
  /\ bell \in [Chara -> Bell]

CircumstancesTyped ==
  /\ place \in [Chara -> Place]
  /\ option \in [Chara -> BOOLEAN]
  /\ ill \in [Chara -> BOOLEAN]
  /\ held \in [Chara -> BOOLEAN]

Standing(p) ==
  /\ p \in online
  /\ option[p] /\ place[p] = Classroom[p] /\ ~ill[p]
  /\ bell[p].rang # Never

WelcomeStands ==
  /\ welcome \subseteq Chara
  /\ \A p \in welcome : Standing(p)

(* The invariant: bells and circumstances are typed, and whoever the clock *)
(* rang for stands as it rang (Bell.poll's `admits`).                      *)
IInv == BellsTyped /\ CircumstancesTyped /\ WelcomeStands

-----------------------------------------------------------------------------
(* The timetable names a subject for every moment (curriculum.subject_at). *)
LEMMA SubjectIsListed ==
  ASSUME NEW t \in Nat
  PROVE  /\ SlotStart(t) \in Int
         /\ Begins(t) \in Int
         /\ SubjectAt(t) \in Subject
<1>1. Slot \in Nat \ {0}
  BY TimesAssumption
<1>2. t \div Slot \in Nat
  BY <1>1
<1>3. SlotStart(t) \in Int /\ Begins(t) \in Int
  BY <1>1, <1>2 DEF SlotStart, Begins
<1>4. Len(Timetable) \in Nat \ {0}
  BY TimetableAssumption
<1>5. ((t \div Slot) % Len(Timetable)) + 1 \in 1..Len(Timetable)
  BY <1>2, <1>4
<1> QED
  BY <1>3, <1>5 DEF SubjectAt, Subject

(* Bell.poll keeps a bell well formed; it leaves the moment it rang alone  *)
(* or makes it now.                                                        *)
LEMMA PollKeeps ==
  ASSUME BellsTyped, NEW b \in Bell, NEW admits \in BOOLEAN
  PROVE  /\ Polled(b, admits) \in Bell
         /\ Polled(b, admits).rang \in {b.rang, now}
         /\ OwesStart(b) /\ admits => Polled(b, admits).rang = now
<1>1. /\ SlotStart(now) \in Int
      /\ Begins(now) \in Int
      /\ SubjectAt(now) \in Subject
      /\ now \in Int
  BY SubjectIsListed DEF BellsTyped
<1>2. Rang(b) \in Bell /\ Rang(b).rang = now
  BY <1>1 DEF Rang, Bell
<1>3. CASE OwesStart(b) /\ admits
  BY <1>1, <1>2, <1>3 DEF Polled, Bell
<1>4. CASE ~(OwesStart(b) /\ admits)
  BY <1>1, <1>4 DEF Polled, Bell
<1> QED
  BY <1>3, <1>4

(* Bell.prime and Bell.rang keep a bell well formed.                       *)
LEMMA PrimeAndRingKeep ==
  ASSUME BellsTyped, NEW b \in Bell
  PROVE  Primed(b) \in Bell /\ Rang(b) \in Bell /\ Rang(b).rang = now
<1>1. /\ SlotStart(now) \in Int
      /\ Begins(now) \in Int
      /\ SubjectAt(now) \in Subject
      /\ now \in Int
  BY SubjectIsListed DEF BellsTyped
<1> QED
  BY <1>1 DEF Primed, Rang, Bell

(* The drains: whoever was steady stands after them, and so does whoever   *)
(* they rang for, provided the steady ones stand once the handler is done. *)
LEMMA DrainsKeep ==
  ASSUME BellsTyped, now' = now, CircumstancesTyped',
         NEW p \in Chara, NEW b \in Bell, NEW S, NEW waiting,
         NEW steady \in SUBSET Chara,
         p \in online',
         \A q \in steady : q \in online' /\ option'[q] /\ place'[q] = Classroom[q] /\ ~ill'[q],
         \A q \in steady : q # p => bell[q].rang # Never,
         p \in steady => b.rang # Never,
         Drains(p, b, S, waiting, steady)
  PROVE  BellsTyped' /\ WelcomeStands'
<1> DEFINE admits == Admits(p)'
           rung == IF OwesStart(b) /\ admits THEN {p} ELSE {}
<1>1. admits \in BOOLEAN
  BY DEF CircumstancesTyped, Admits
<1>2. bell' = [bell EXCEPT ![p] = Polled(b, admits)]
  BY DEF Drains
<1>3. welcome' = steady \union rung
  BY DEF Drains
<1>4. /\ Polled(b, admits) \in Bell
      /\ Polled(b, admits).rang \in {b.rang, now}
      /\ OwesStart(b) /\ admits => Polled(b, admits).rang = now
  BY <1>1, PollKeeps
<1>5. BellsTyped'
  BY <1>2, <1>4 DEF BellsTyped
<1>6. now # Never
  BY DEF BellsTyped, Never
<1>7. ASSUME NEW q \in welcome' PROVE Standing(q)'
  <2>1. CASE q \in rung
    <3>1. q = p /\ OwesStart(b) /\ admits
      BY <2>1
    <3>2. bell'[q].rang = now
      BY <1>2, <1>4, <3>1 DEF BellsTyped
    <3> QED
      BY <1>6, <3>1, <3>2 DEF Standing, Admits
  <2>2. CASE q \in steady
    <3>1. q \in online' /\ option'[q] /\ place'[q] = Classroom[q] /\ ~ill'[q]
      BY <2>2
    <3>2. CASE q = p
      BY <1>2, <1>4, <1>6, <2>2, <3>1, <3>2 DEF Standing, BellsTyped
    <3>3. CASE q # p
      BY <1>2, <2>2, <3>1, <3>3 DEF Standing, BellsTyped
    <3> QED
      BY <3>2, <3>3
  <2> QED
    BY <1>3, <2>1, <2>2
<1> QED
  BY <1>3, <1>5, <1>7 DEF WelcomeStands

-----------------------------------------------------------------------------
LEMMA InitKeeps == Init => IInv
<1> SUFFICES ASSUME Init PROVE IInv
  OBVIOUS
<1>1. now \in Nat
  BY TimesAssumption DEF Init
<1>2. Silent \in Bell
  BY DEF Silent, Bell, Subject, Never
<1>3. /\ SlotStart(now) \in Int
      /\ Begins(now) \in Int
  BY <1>1, SubjectIsListed
<1>4. Primed(Silent) \in Bell
  BY <1>2, <1>3 DEF Primed, Bell
<1>5. BellsTyped
  BY <1>1, <1>4 DEF Init, BellsTyped
<1> QED
  BY <1>5 DEF Init, IInv, CircumstancesTyped, WelcomeStands

(* A packet that changes what the bell looks at takes its player's steady  *)
(* standing away, and nobody else's.                                       *)
LEMMA MoveKeeps ==
  ASSUME IInv, NEW p \in Chara, Moves(p), CircumstancesTyped',
         \A q \in Chara : q # p => /\ option'[q] = option[q]
                                   /\ place'[q] = place[q]
                                   /\ ill'[q] = ill[q]
  PROVE  IInv'
<1>1. /\ now' = now
      /\ online' = online /\ p \in online
      /\ Drains(p, bell[p], school, called, welcome \ {p})
  BY DEF Moves, Changing
<1>2. bell[p] \in Bell /\ welcome \ {p} \in SUBSET Chara
  BY DEF IInv, BellsTyped, WelcomeStands
<1>3. \A q \in welcome \ {p} :
        /\ q \in online' /\ option'[q] /\ place'[q] = Classroom[q] /\ ~ill'[q]
        /\ bell[q].rang # Never
  BY <1>1 DEF IInv, WelcomeStands, Standing
<1>4. BellsTyped' /\ WelcomeStands'
  BY <1>1, <1>2, <1>3, DrainsKeep DEF IInv
<1> QED
  BY <1>4 DEF IInv

(* So does a handler that leaves the circumstances as they are.            *)
LEMMA StayKeeps ==
  ASSUME IInv, NEW p \in Chara, NEW b \in Bell, NEW S, NEW waiting,
         b.rang \in {bell[p].rang, now},
         p \in online, UNCHANGED <<now, circumstances>>,
         Drains(p, b, S, waiting, welcome)
  PROVE  IInv'
<1>1. CircumstancesTyped' /\ now' = now /\ p \in online'
  BY DEF IInv, CircumstancesTyped, circumstances
<1>2. \A q \in welcome :
        /\ q \in online' /\ option'[q] /\ place'[q] = Classroom[q] /\ ~ill'[q]
        /\ bell[q].rang # Never
  BY DEF IInv, WelcomeStands, Standing, circumstances
<1>3. p \in welcome => b.rang # Never
  BY <1>2 DEF IInv, BellsTyped, Never
<1>4. BellsTyped' /\ WelcomeStands'
  BY <1>1, <1>2, <1>3, DrainsKeep DEF IInv, WelcomeStands
<1> QED
  BY <1>1, <1>4 DEF IInv
-----------------------------------------------------------------------------
(* The packets that move what the bell looks at.                           *)
LEMMA CircumstancesKeep ==
  ASSUME IInv, NEW p \in Chara,
         Walk(p) \/ SetOption(p) \/ ConditionTurns(p) \/ HoldOrLetGo(p)
  PROVE  IInv'
<1> USE DEF IInv, CircumstancesTyped
<1>1. CASE Walk(p)
  <2>1. PICK m \in Place \ {place[p]} : place' = [place EXCEPT ![p] = m]
    BY <1>1 DEF Walk
  <2>2. Moves(p) /\ UNCHANGED <<option, ill, held>>
    BY <1>1 DEF Walk
  <2>3. CircumstancesTyped'
    BY <2>1, <2>2
  <2>4. \A q \in Chara : q # p => place'[q] = place[q]
    BY <2>1
  <2> QED
    BY <2>2, <2>3, <2>4, MoveKeeps
<1>2. CASE SetOption(p)
  <2>1. Moves(p) /\ UNCHANGED <<place, ill, held>>
    BY <1>2 DEF SetOption
  <2>2. option' = [option EXCEPT ![p] = ~option[p]]
    BY <1>2 DEF SetOption
  <2>3. CircumstancesTyped'
    BY <2>1, <2>2
  <2>4. \A q \in Chara : q # p => option'[q] = option[q]
    BY <2>2
  <2> QED
    BY <2>1, <2>3, <2>4, MoveKeeps
<1>3. CASE ConditionTurns(p)
  <2>1. Moves(p) /\ UNCHANGED <<place, option, held>>
    BY <1>3 DEF ConditionTurns
  <2>2. ill' = [ill EXCEPT ![p] = ~ill[p]]
    BY <1>3 DEF ConditionTurns
  <2>3. CircumstancesTyped'
    BY <2>1, <2>2
  <2>4. \A q \in Chara : q # p => ill'[q] = ill[q]
    BY <2>2
  <2> QED
    BY <2>1, <2>3, <2>4, MoveKeeps
<1>4. CASE HoldOrLetGo(p)
  <2>1. Moves(p) /\ UNCHANGED <<place, option, ill>>
    BY <1>4 DEF HoldOrLetGo
  <2>2. held' = [held EXCEPT ![p] = ~held[p]]
    BY <1>4 DEF HoldOrLetGo
  <2>3. CircumstancesTyped'
    BY <2>1, <2>2
  <2> QED
    BY <2>1, <2>3, MoveKeeps
<1> QED
  BY <1>1, <1>2, <1>3, <1>4

(* A login brings a bell that may never have rung; nobody is waiting for   *)
(* its character, who was not at school.                                   *)
LEMMA ArriveKeeps ==
  ASSUME IInv, NEW p \in Chara, Arrive(p)
  PROVE  IInv'
<1>1. /\ p \notin online
      /\ online' = online \union {p}
      /\ UNCHANGED <<now, place, option, ill, held>>
  BY DEF Arrive, Changing
<1>2. PICK b \in {Silent, bell[p]} :
        Drains(p, Primed(b), school, called, welcome)
  BY DEF Arrive
<1>3. Silent \in Bell
  BY DEF Silent, Bell, Subject, Never
<1>4. Primed(b) \in Bell
  BY <1>2, <1>3, PrimeAndRingKeep DEF IInv, BellsTyped
<1>5. CircumstancesTyped'
  BY <1>1 DEF IInv, CircumstancesTyped
<1>6. p \notin welcome /\ welcome \in SUBSET Chara
  BY <1>1 DEF IInv, WelcomeStands, Standing
<1>7. \A q \in welcome :
        /\ q \in online' /\ option'[q] /\ place'[q] = Classroom[q] /\ ~ill'[q]
        /\ bell[q].rang # Never
  BY <1>1 DEF IInv, WelcomeStands, Standing
<1>8. BellsTyped' /\ WelcomeStands'
  BY <1>1, <1>2, <1>4, <1>5, <1>6, <1>7, DrainsKeep DEF IInv
<1> QED
  BY <1>5, <1>8 DEF IInv

(* A departure runs no drain, and takes the standing with it.              *)
LEMMA DepartKeeps ==
  ASSUME IInv, NEW p \in Chara, Depart(p)
  PROVE  IInv'
<1>1. /\ online' = online \ {p}
      /\ welcome' = welcome \ {p}
      /\ held' = [held EXCEPT ![p] = FALSE]
      /\ UNCHANGED <<now, place, option, ill, bell>>
  BY DEF Depart, Changing
<1>2. BellsTyped'
  BY <1>1 DEF IInv, BellsTyped
<1>3. CircumstancesTyped'
  BY <1>1 DEF IInv, CircumstancesTyped
<1>4. WelcomeStands'
  BY <1>1 DEF IInv, WelcomeStands, Standing
<1> QED
  BY <1>2, <1>3, <1>4 DEF IInv

(* The wake-ups, the doorkeeper, the answers and the operator's bell.      *)
LEMMA InClassKeeps ==
  ASSUME IInv, NEW p \in Chara,
         Timer(p) \/ Ready(p) \/ Answer(p) \/ HandRing(p)
  PROVE  IInv'
<1>1. bell[p] \in Bell /\ Rang(bell[p]) \in Bell /\ Rang(bell[p]).rang = now
  BY PrimeAndRingKeep DEF IInv, BellsTyped
<1>2. CASE Timer(p)
  <2>1. /\ p \in online /\ UNCHANGED <<now, circumstances>>
        /\ Drains(p, bell[p], school, called, welcome)
    BY <1>2 DEF Timer
  <2> QED
    BY <1>1, <2>1, StayKeeps
<1>3. CASE Ready(p)
  <2> DEFINE S == IF Refusal(p) = "none"
                    THEN Seated(school, p, bell[p].subject) ELSE school
  <2>1. /\ p \in online /\ UNCHANGED <<now, circumstances>>
        /\ Drains(p, bell[p], S, called \ {p}, welcome)
    BY <1>3 DEF Ready
  <2> HIDE DEF S
  <2> QED
    BY <1>1, <2>1, StayKeeps
<1>4. CASE Answer(p)
  <2>1. p \in online /\ UNCHANGED <<now, circumstances>>
    BY <1>4 DEF Answer
  <2>2. \E S : Drains(p, bell[p], S, called, welcome)
    BY <1>4 DEF Answer
  <2> QED
    BY <1>1, <2>1, <2>2, StayKeeps
<1>5. CASE HandRing(p)
  <2>1. /\ p \in online /\ UNCHANGED <<now, circumstances>>
        /\ Drains(p, Rang(bell[p]), school, called \union {p}, welcome)
    BY <1>5 DEF HandRing
  <2> QED
    BY <1>1, <2>1, StayKeeps
<1> QED
  BY <1>2, <1>3, <1>4, <1>5

LEMMA NextKeeps == IInv /\ [Next]_vars => IInv'
<1> SUFFICES ASSUME IInv, [Next]_vars PROVE IInv'
  OBVIOUS
<1>1. CASE Tick
  <2>1. now' = now + 1 /\ UNCHANGED <<circumstances, bell, welcome>>
    BY <1>1 DEF Tick
  <2> QED
    BY <2>1 DEF IInv, BellsTyped, CircumstancesTyped, WelcomeStands, Standing,
                circumstances
<1>2. CASE UNCHANGED vars
  BY <1>2 DEF IInv, BellsTyped, CircumstancesTyped, WelcomeStands, Standing,
              circumstances, vars
<1>3. ASSUME NEW p \in Chara,
             Walk(p) \/ SetOption(p) \/ ConditionTurns(p) \/ HoldOrLetGo(p)
      PROVE  IInv'
  BY <1>3, CircumstancesKeep
<1>4. ASSUME NEW p \in Chara, Arrive(p) PROVE IInv'
  BY <1>4, ArriveKeeps
<1>5. ASSUME NEW p \in Chara, Depart(p) PROVE IInv'
  BY <1>5, DepartKeeps
<1>6. ASSUME NEW p \in Chara,
             Timer(p) \/ Ready(p) \/ Answer(p) \/ HandRing(p)
      PROVE  IInv'
  BY <1>6, InClassKeeps
<1> QED
  BY <1>1, <1>2, <1>3, <1>4, <1>5, <1>6 DEF Next

(* The invariant holds whatever is sent, whenever, and by whomever.        *)
THEOREM InvariantHolds == Spec => []IInv
<1> QED
  BY InitKeeps, NextKeeps, PTL DEF Spec

(* Ringing at somebody who would be refused logs them out: whoever the     *)
(* clock rang for, and whose circumstances have not moved since, is let in *)
(* within the grace (Bell.poll's `admits` against admit's refusals).       *)
THEOREM RungAreWelcome == Spec => []RungMeansWelcome
<1>1. IInv => RungMeansWelcome
  <2> SUFFICES ASSUME IInv, NEW p \in called \intersect welcome,
                      now - bell[p].rang <= Grace
               PROVE  Refusal(p) = "none"
    BY DEF RungMeansWelcome
  <2>1. Standing(p) /\ now \in Nat /\ bell[p].rang \in Int /\ Grace \in Nat
    BY TimesAssumption DEF IInv, BellsTyped, WelcomeStands, Bell
  <2>2. ~(now - bell[p].rang > Grace)
    BY <2>1
  <2> QED
    BY <2>1, <2>2 DEF Standing, Refusal
<1> QED
  BY <1>1, InvariantHolds, PTL
-----------------------------------------------------------------------------
(***************************************************************************)
(* The day: a lesson is one account of who sits where and what was asked,  *)
(* and keeps its time.  What carries it is that a lesson ends in the slot  *)
(* it began in, so a bell always finds its classroom empty or at the same  *)
(* lesson.  That takes lessons shorter than a slot, and an operator who    *)
(* does not ring by hand so late that one runs into the next.              *)
(***************************************************************************)
BellType == [pre : Moment, start : Moment, rang : Moment, subject : Moment]

BellOK(p) ==
  /\ bell[p].rang # Never =>
       /\ bell[p].rang <= now /\ Timely(bell[p].rang)
       /\ bell[p].subject = SubjectAt(bell[p].rang)
  /\ p \in online =>
       /\ bell[p].start # Never
       /\ now > SlotStart(now) => bell[p].start = SlotStart(now)
       /\ now > PreBell(now) => bell[p].pre = Begins(now)

(* The clock has rung for p in rising slots, the last of them marked.      *)
HeardOK(p) ==
  /\ \A i \in 1..Len(heard[p]) :
       /\ heard[p][i] <= SlotStart(now)
       /\ heard[p][i] = SlotStart(now) => bell[p].start = SlotStart(now)
  /\ \A i, j \in 1..Len(heard[p]) : i < j => heard[p][i] < heard[p][j]

Student == [desk : Nat, came : Nat, reported : Nat, asked : Nat, right : Nat]
LessonType ==
  [room : Place, subject : Nat, began : Nat, phase : {"opening", "asking", "over"},
   due : Nat, no : Nat, desks : Nat,
   students : UNION {[Q -> Student] : Q \in SUBSET Chara}]

(* The questions asked and marked so far, and those of them somebody who   *)
(* came in during question `came` has missed.                              *)
Done(L) == IF L.phase = "opening" THEN 0 ELSE IF L.phase = "asking" THEN L.no - 1 ELSE Questions
Missed(came) == IF came = 0 THEN 0 ELSE came - 1

LessonOK(L) ==
  /\ L \in LessonType
  /\ L.no <= Questions
  /\ L.phase = "opening" => L.no = 0
  /\ L.phase = "asking" => L.no >= 1
  /\ \A p \in Members(L) :
       /\ L.students[p].desk < L.desks
       /\ L.students[p].reported \in {NoAnswer, L.no}
       /\ L.students[p].asked + Missed(L.students[p].came) = Done(L)
       /\ L.students[p].right <= L.students[p].asked
  /\ \A p, q \in Members(L) : L.students[p].desk = L.students[q].desk => p = q

(* What a lesson still owes after its next deadline.                       *)
Rest(L) == IF L.phase = "opening" THEN Questions * AnswerTime + (Questions - 1) * Grading
           ELSE (Questions - L.no) * (AnswerTime + Grading)

Live(L) == ~Over(L) /\ Members(L) # {}

InTime(L) == Live(L) =>
  /\ L.began + Length < Begins(L.began) /\ L.subject = SubjectAt(L.began)
  /\ L.began <= now /\ now <= L.due
  /\ L.due + Rest(L) <= L.began + Length

Card == [attended : Nat, asked : Nat, right : Nat]
SchoolType ==
  [lessons : Seq(LessonType), rooms : [Place -> Nat], seat : [Chara -> Nat],
   card : [Chara -> Card], drawn : [Chara -> SUBSET (Chara \X Nat)]]

LessonFits(S, l) ==
  /\ LessonOK(S.lessons[l]) /\ InTime(S.lessons[l])
  /\ ~Over(S.lessons[l]) => \A p \in Members(S.lessons[l]) : S.seat[p] = l
RoomFits(S, r) == S.rooms[r] # Nobody =>
  /\ S.rooms[r] \in 1..Len(S.lessons)
  /\ S.lessons[S.rooms[r]].room = r /\ Live(S.lessons[S.rooms[r]])
SeatFits(S, p) == S.seat[p] # Nobody =>
  /\ S.seat[p] \in 1..Len(S.lessons) /\ p \in online
  /\ p \in Members(S.lessons[S.seat[p]]) /\ ~Over(S.lessons[S.seat[p]])
  /\ S.rooms[place[p]] = S.seat[p]
  /\ S.drawn[p] = Desks(S.lessons[S.seat[p]])

SchoolOK(S) ==
  /\ S \in SchoolType
  /\ \A l \in 1..Len(S.lessons) : LessonFits(S, l)
  /\ \A r \in Place : RoomFits(S, r)
  /\ \A p \in Chara : SeatFits(S, p)

(* A bell heard is a lesson attended, one sat in, or one yet to come to.   *)
Spent(S, p) == S.card[p].attended + (IF S.seat[p] = Nobody THEN 0 ELSE 1)
Credit(p) ==
  Spent(school, p) + (IF p \in called THEN 1 ELSE 0) <= Len(heard[p]) + hands[p]

DayTyped ==
  /\ bell \in [Chara -> BellType] /\ heard \in [Chara -> Seq(Nat)]
  /\ online \subseteq Chara /\ called \subseteq online /\ welcome \subseteq online
  /\ hands \in [Chara -> 0..1] /\ changes \in 0..MaxChanges

DayInv ==
  /\ IInv /\ DayTyped /\ SchoolOK(school)
  /\ \A p \in Chara : BellOK(p) /\ HeardOK(p) /\ Credit(p)
-----------------------------------------------------------------------------
(* Slots.                                                                  *)
LEMMA Times ==
  /\ Slot \in Nat /\ Slot > 0 /\ Pre \in Nat /\ Pre > 0 /\ Pre < Slot /\ Grace \in Nat
  /\ Speech \in Nat /\ Speech > 0 /\ AnswerTime \in Nat /\ AnswerTime > 0 /\ Grading \in Nat
  /\ Questions \in Nat /\ Questions > 0 /\ Length \in Nat
<1>1. \A m, n \in Nat : m * n \in Nat
  OBVIOUS
<1>2. Questions * AnswerTime \in Nat /\ (Questions - 1) * Grading \in Nat
  BY <1>1, TimesAssumption
<1> QED BY <1>2, TimesAssumption DEF Length

LEMMA Multiples ==
  ASSUME NEW q \in Nat, NEW r \in Nat, NEW n \in Nat, q < r
  PROVE  q * n + n <= r * n
<1>1. PICK k \in Nat : r = q + 1 + k
  <2>1. r - q - 1 \in Nat
    OBVIOUS
  <2> QED BY <2>1
<1>2. r * n = q * n + n + k * n
  BY <1>1
<1>3. k * n \in Nat /\ q * n \in Nat
  OBVIOUS
<1> QED BY <1>2, <1>3

LEMMA SlotOf ==
  ASSUME NEW t \in Nat
  PROVE  /\ t \div Slot \in Nat /\ SlotStart(t) = (t \div Slot) * Slot
         /\ SlotStart(t) \in Nat /\ SlotStart(t) <= t /\ t < Begins(t)
         /\ Begins(t) = SlotStart(t) + Slot /\ Begins(t) \in Nat
<1>1. /\ t \div Slot \in Nat
      /\ Slot * (t \div Slot) <= t /\ t < Slot * (t \div Slot) + Slot
  BY Times
<1>2. (t \div Slot) * Slot \in Nat
  BY <1>1, Times
<1>3. Slot * (t \div Slot) = (t \div Slot) * Slot
  BY <1>1, Times
<1> QED BY <1>1, <1>2, <1>3, Times DEF SlotStart, Begins

(* A moment before the next slot is of this one.                           *)
LEMMA SameSlot ==
  ASSUME NEW t \in Nat, NEW u \in Nat, t <= u, u < Begins(t)
  PROVE  /\ SlotStart(u) = SlotStart(t) /\ Begins(u) = Begins(t) /\ SubjectAt(u) = SubjectAt(t)
         /\ PreBell(u) = PreBell(t)
<1> DEFINE q == t \div Slot
           r == u \div Slot
<1>1. /\ q \in Nat /\ q * Slot \in Nat /\ q * Slot <= t /\ u < q * Slot + Slot
      /\ r \in Nat /\ r * Slot \in Nat /\ r * Slot <= u /\ u < r * Slot + Slot
  BY SlotOf
<1>2. SlotStart(t) = q * Slot /\ SlotStart(u) = r * Slot
  BY DEF SlotStart
<1>3. SubjectAt(t) = Timetable[(q % Len(Timetable)) + 1] /\ SubjectAt(u) = Timetable[(r % Len(Timetable)) + 1]
  BY DEF SubjectAt
<1> HIDE DEF q, r
<1>4. ~ (q < r)
  <2>1. q < r => q * Slot + Slot <= r * Slot
    BY <1>1, Times, Multiples
  <2> QED BY <1>1, <2>1, Times
<1>5. ~ (r < q)
  <2>1. r < q => r * Slot + Slot <= q * Slot
    BY <1>1, Times, Multiples
  <2> QED BY <1>1, <2>1, Times
<1>6. q = r
  BY <1>1, <1>4, <1>5
<1> QED BY <1>2, <1>3, <1>6 DEF Begins, PreBell

(* The moment after is of this slot, or the first of the next.             *)
LEMMA NextMoment ==
  ASSUME NEW t \in Nat
  PROVE  \/ t + 1 < Begins(t)
         \/ /\ t + 1 = Begins(t) /\ SlotStart(t + 1) = t + 1 /\ SlotStart(t) < SlotStart(t + 1)
            /\ t + 1 < PreBell(t + 1)
<1>1. /\ SlotStart(t) \in Nat /\ SlotStart(t) <= t /\ t < Begins(t)
      /\ Begins(t) = SlotStart(t) + Slot /\ Begins(t) \in Nat
  BY SlotOf
<1>2. CASE t + 1 < Begins(t)
  BY <1>2
<1>3. CASE ~ (t + 1 < Begins(t))
  <2>1. t + 1 = Begins(t) /\ t + 1 \in Nat
    BY <1>1, <1>3
  <2>2. /\ SlotStart(t+1) \in Nat /\ SlotStart(t+1) <= t + 1 /\ t + 1 < Begins(t+1)
        /\ Begins(t+1) \in Nat
        /\ Begins(t+1) = SlotStart(t+1) + Slot
    BY <2>1, SlotOf
  <2>3. ~ (SlotStart(t+1) < t + 1)
    <3>1. SUFFICES ASSUME SlotStart(t+1) < t + 1
                   PROVE  FALSE
      OBVIOUS
    <3>2. SlotStart(t+1) <= t /\ t < Begins(t+1)
      BY <2>1, <2>2, <3>1
    <3>3. SlotStart(t+1) < Begins(t)
      BY <1>1, <2>2, <3>2
    <3> DEFINE q == t \div Slot
               r == (t + 1) \div Slot
    <3>4. /\ q \in Nat /\ SlotStart(t) = q * Slot /\ r \in Nat /\ SlotStart(t+1) = r * Slot
      BY <2>1, SlotOf
    <3> HIDE DEF q, r
    <3>5. r * Slot + Slot > q * Slot + Slot
      BY <1>1, <2>1, <2>2, <3>4, Times
    <3>6. q < r => q * Slot + Slot <= r * Slot
      BY <3>4, Times, Multiples
    <3>7. r < q => r * Slot + Slot <= q * Slot
      BY <3>4, Times, Multiples
    <3> QED BY <1>1, <2>1, <2>2, <3>1, <3>3, <3>4, <3>5, <3>6, <3>7, Times
  <2>4. SlotStart(t+1) = t + 1
    BY <2>1, <2>2, <2>3
  <2>5. t + 1 < PreBell(t + 1)
    BY <2>1, <2>2, <2>4, Times DEF PreBell
  <2> QED BY <1>1, <2>1, <2>4, <2>5
<1> QED BY <1>2, <1>3

LEMMA StartIsTimely ==
  ASSUME LessonsFit, NEW t \in Nat, SlotStart(t) = t
  PROVE  Timely(t)
BY SlotOf, Times DEF LessonsFit, Timely
-----------------------------------------------------------------------------
(* Lessons.                                                                *)
LEMMA OfLesson ==
  ASSUME NEW L \in LessonType
  PROVE  /\ Members(L) \in SUBSET Chara /\ L.students \in [Members(L) -> Student]
         /\ L.room \in Place /\ L.subject \in Nat /\ L.began \in Nat /\ L.due \in Nat
         /\ L.no \in Nat /\ L.desks \in Nat /\ L.phase \in {"opening", "asking", "over"}
<1>1. /\ L.room \in Place /\ L.subject \in Nat /\ L.began \in Nat /\ L.due \in Nat
      /\ L.no \in Nat /\ L.desks \in Nat /\ L.phase \in {"opening", "asking", "over"}
      /\ L.students \in UNION {[Q -> Student] : Q \in SUBSET Chara}
  BY DEF LessonType
<1>2. PICK Q \in SUBSET Chara : L.students \in [Q -> Student]
  BY <1>1
<1>3. Members(L) = Q
  BY <1>2 DEF Members
<1> QED BY <1>1, <1>2, <1>3

LEMMA OfStudent ==
  ASSUME NEW L \in LessonType, NEW p \in Members(L)
  PROVE  /\ p \in Chara /\ L.students[p] \in Student
         /\ L.students[p].desk \in Nat /\ L.students[p].came \in Nat /\ L.students[p].asked \in Nat
         /\ L.students[p].right \in Nat /\ L.students[p].reported \in Nat
<1>1. p \in Chara /\ L.students[p] \in Student
  BY OfLesson
<1> QED BY <1>1 DEF Student

LEMMA StudentsType ==
  ASSUME NEW Q \in SUBSET Chara, NEW f \in [Q -> Student]
  PROVE  f \in UNION {[R -> Student] : R \in SUBSET Chara}
OBVIOUS

(* A lesson opened at a bell is empty and in time.                         *)
LEMMA OpenedIsOK ==
  ASSUME NEW room \in Place, NEW subject \in Nat, now \in Nat
  PROVE  /\ LessonOK(Opened(room, subject)) /\ ~Over(Opened(room, subject))
         /\ Members(Opened(room, subject)) = {} /\ Opened(room, subject).room = room
         /\ Opened(room, subject).began = now /\ Opened(room, subject).subject = subject
         /\ Opened(room, subject).due = now + Speech /\ Opened(room, subject).phase = "opening"
<1> DEFINE L == Opened(room, subject)
<1>1. /\ L.room = room /\ L.began = now /\ L.subject = subject /\ L.due = now + Speech
      /\ L.phase = "opening" /\ L.no = 0 /\ L.desks = 0 /\ L.students = <<>>
  BY DEF Opened
<1>2. <<>> \in [{} -> Student] /\ DOMAIN <<>> = {} /\ {} \in SUBSET Chara
  OBVIOUS
<1>3. L.students \in UNION {[R -> Student] : R \in SUBSET Chara}
  BY <1>1, <1>2, StudentsType
<1>4. now + Speech \in Nat
  BY Times
<1>5. L \in LessonType
  BY <1>3, <1>4 DEF Opened, LessonType
<1> HIDE DEF L
<1>6. Members(L) = {}
  BY <1>1, <1>2 DEF Members
<1>7. LessonOK(L)
  BY <1>1, <1>5, <1>6, Times DEF LessonOK
<1>8. ~Over(L)
  BY <1>1 DEF Over
<1> QED BY <1>1, <1>6, <1>7, <1>8 DEF L

(* Sitting down.                                                           *)
LEMMA JoinedIsOK ==
  ASSUME NEW L, LessonOK(L), ~Over(L), NEW p \in Chara
  PROVE  /\ LessonOK(Joined(L, p)) /\ Members(Joined(L, p)) = Members(L) \union {p}
         /\ Joined(L, p).room = L.room /\ Joined(L, p).subject = L.subject
         /\ Joined(L, p).began = L.began /\ Joined(L, p).due = L.due
         /\ Joined(L, p).no = L.no /\ Joined(L, p).phase = L.phase
         /\ \A q \in Members(L) : Joined(L, p).students[q] = L.students[q]
<1>0. L \in LessonType
  BY DEF LessonOK
<1>1. CASE p \in Members(L)
  <2>1. Joined(L, p) = L
    BY <1>1 DEF Joined
  <2> QED BY <1>1, <2>1
<1>2. CASE p \notin Members(L)
  <2> DEFINE newcomer == [desk |-> L.desks, came |-> L.no, reported |-> NoAnswer, asked |-> 0, right |-> 0]
             n == L.desks + 1
             f == [q \in Members(L) \union {p} |-> IF q = p THEN newcomer ELSE L.students[q]]
             K == Joined(L, p)
  <2>1. K = [L EXCEPT !.desks = n, !.students = f]
    BY <1>2 DEF Joined
  <2>2. /\ Members(L) \in SUBSET Chara /\ L.students \in [Members(L) -> Student]
        /\ L.no \in Nat /\ L.desks \in Nat /\ L.phase \in {"opening", "asking", "over"}
    BY <1>0, OfLesson
  <2>3. newcomer \in Student
    BY <2>2 DEF Student, NoAnswer
  <2>4. /\ newcomer.desk = L.desks /\ newcomer.came = L.no /\ newcomer.reported = NoAnswer
        /\ newcomer.asked = 0 /\ newcomer.right = 0
    OBVIOUS
  <2> HIDE DEF newcomer, K
  <2>5. /\ f \in [Members(L) \union {p} -> Student] /\ f[p] = newcomer
        /\ \A q \in Members(L) : f[q] = L.students[q]
        /\ DOMAIN f = Members(L) \union {p}
    BY <1>2, <2>2, <2>3
  <2> HIDE DEF f
  <2>6. f \in UNION {[R -> Student] : R \in SUBSET Chara} /\ n \in Nat
    <3>1. Members(L) \union {p} \in SUBSET Chara
      BY <2>2
    <3> QED BY <2>2, <2>5, <3>1, StudentsType
  <2>7. n = L.desks + 1
    OBVIOUS
  <2> HIDE DEF n
  <2>8. K \in LessonType
    BY <1>0, <2>1, <2>6 DEF LessonType
  <2>9. /\ K.students = f /\ K.desks = n /\ K.room = L.room /\ K.subject = L.subject
        /\ K.began = L.began /\ K.due = L.due /\ K.no = L.no /\ K.phase = L.phase
    BY <1>0, <2>1 DEF LessonType
  <2>10. Members(K) = Members(L) \union {p}
    BY <2>5, <2>9 DEF Members
  <2>11. LessonOK(K)
    <3>1. Done(K) = Done(L)
      BY <2>9 DEF Done
    <3>2. ASSUME NEW q \in Members(K)
          PROVE  /\ K.students[q].desk < K.desks
                 /\ K.students[q].reported \in {NoAnswer, K.no}
                 /\ K.students[q].asked + Missed(K.students[q].came) = Done(K)
                 /\ K.students[q].right <= K.students[q].asked
      <4>1. CASE q = p
        <5>1. Missed(L.no) = Done(L)
          BY <2>2 DEF LessonOK, Over, Missed, Done
        <5>2. Done(L) \in Nat
          BY <2>2, Times DEF LessonOK, Done
        <5> QED BY <2>2, <2>4, <2>5, <2>7, <2>9, <3>1, <4>1, <5>1, <5>2
      <4>2. CASE q # p
        <5>1. q \in Members(L) /\ K.students[q] = L.students[q]
          BY <2>5, <2>9, <2>10, <4>2
        <5>2. L.students[q].desk \in Nat
          BY <1>0, <5>1, OfStudent
        <5>3. L.students[q].desk < n
          BY <2>2, <2>7, <5>1, <5>2 DEF LessonOK
        <5> QED BY <2>9, <3>1, <5>1, <5>3 DEF LessonOK
      <4> QED BY <4>1, <4>2
    <3>3. ASSUME NEW q \in Members(K), NEW r \in Members(K), K.students[q].desk = K.students[r].desk
          PROVE  q = r
      <4>1. \A o \in Members(L) : K.students[o] = L.students[o] /\ K.students[o].desk < L.desks /\ K.students[o].desk \in Nat
        BY <1>0, <2>5, <2>9, OfStudent DEF LessonOK
      <4>2. K.students[p].desk = L.desks
        BY <2>4, <2>5, <2>9
      <4>3. CASE q \in Members(L) /\ r \in Members(L)
        BY <3>3, <4>1, <4>3 DEF LessonOK
      <4>4. CASE q = p /\ r \in Members(L)
        BY <2>2, <3>3, <4>1, <4>2, <4>4
      <4>5. CASE r = p /\ q \in Members(L)
        BY <2>2, <3>3, <4>1, <4>2, <4>5
      <4> QED BY <2>10, <4>3, <4>4, <4>5
    <3> QED BY <2>8, <2>9, <3>2, <3>3 DEF LessonOK
  <2> QED BY <2>5, <2>9, <2>10, <2>11 DEF K
<1> QED BY <1>1, <1>2

(* Getting up.                                                             *)
LEMMA LeftIsOK ==
  ASSUME NEW L, LessonOK(L), NEW p \in Chara
  PROVE  /\ LessonOK(Left(L, p)) /\ Members(Left(L, p)) = Members(L) \ {p}
         /\ Left(L, p).room = L.room /\ Left(L, p).subject = L.subject
         /\ Left(L, p).began = L.began /\ Left(L, p).due = L.due
         /\ Left(L, p).no = L.no /\ Left(L, p).phase = L.phase
         /\ \A q \in Members(L) \ {p} : Left(L, p).students[q] = L.students[q]
<1> DEFINE f == [q \in Members(L) \ {p} |-> L.students[q]]
           K == Left(L, p)
<1>0. L \in LessonType
  BY DEF LessonOK
<1>1. K = [L EXCEPT !.students = f]
  BY DEF Left
<1>2. Members(L) \in SUBSET Chara /\ L.students \in [Members(L) -> Student]
  BY <1>0, OfLesson
<1>3. /\ f \in [Members(L) \ {p} -> Student] /\ DOMAIN f = Members(L) \ {p}
      /\ \A q \in Members(L) \ {p} : f[q] = L.students[q]
  BY <1>2
<1> HIDE DEF f, K
<1>4. f \in UNION {[R -> Student] : R \in SUBSET Chara}
  <2>1. Members(L) \ {p} \in SUBSET Chara
    BY <1>2
  <2> QED BY <1>3, <2>1, StudentsType
<1>5. K \in LessonType
  BY <1>0, <1>1, <1>4 DEF LessonType
<1>6. /\ K.students = f /\ K.desks = L.desks /\ K.room = L.room /\ K.subject = L.subject
      /\ K.began = L.began /\ K.due = L.due /\ K.no = L.no /\ K.phase = L.phase
  BY <1>0, <1>1 DEF LessonType
<1>7. Members(K) = Members(L) \ {p} /\ \A q \in Members(K) : q \in Members(L) /\ K.students[q] = L.students[q]
  BY <1>3, <1>6 DEF Members
<1>8. LessonOK(K)
  BY <1>5, <1>6, <1>7 DEF LessonOK, Done
<1> QED BY <1>6, <1>7, <1>8 DEF K
-----------------------------------------------------------------------------
(* What the room owes at its deadline.                                     *)
LEMMA MarkedStudents ==
  ASSUME NEW L \in LessonType
  PROVE  /\ Marked(L) \in LessonType /\ Members(Marked(L)) = Members(L)
         /\ Marked(L).room = L.room /\ Marked(L).subject = L.subject /\ Marked(L).desks = L.desks
         /\ Marked(L).began = L.began /\ Marked(L).due = L.due
         /\ Marked(L).no = L.no /\ Marked(L).phase = L.phase
         /\ \A q \in Members(L) :
              LET s == L.students[q]
                  t == Marked(L).students[q]
              IN  /\ t.desk = s.desk /\ t.came = s.came /\ t.reported = s.reported
                  /\ t.asked = s.asked + 1 /\ t.right \in {s.right, s.right + 1}
<1> DEFINE Mark(s) == [s EXCEPT !.asked = s.asked + 1,
                                !.right = IF s.reported = NoAnswer THEN s.right ELSE s.right + 1]
           new(q) == Mark(L.students[q])
           f == [q \in Members(L) |-> new(q)]
           K == Marked(L)
<1>1. K = [L EXCEPT !.students = f]
  BY Zenon DEF Marked
<1>2. ASSUME NEW q \in Members(L)
      PROVE  /\ new(q) \in Student
             /\ new(q).desk = L.students[q].desk /\ new(q).came = L.students[q].came
             /\ new(q).reported = L.students[q].reported
             /\ new(q).asked = L.students[q].asked + 1
             /\ new(q).right \in {L.students[q].right, L.students[q].right + 1}
  <2>1. L.students[q] \in Student /\ L.students[q].asked \in Nat /\ L.students[q].right \in Nat
    BY OfStudent
  <2>2. /\ L.students[q].asked + 1 \in Nat
        /\ (IF L.students[q].reported = NoAnswer THEN L.students[q].right ELSE L.students[q].right + 1) \in Nat
    BY <2>1
  <2> QED BY <2>1, <2>2 DEF Student
<1> HIDE DEF new
<1>3. /\ f \in [Members(L) -> Student] /\ DOMAIN f = Members(L)
      /\ \A q \in Members(L) : f[q] = new(q)
  BY <1>2
<1> HIDE DEF f, K
<1>4. f \in UNION {[R -> Student] : R \in SUBSET Chara}
  BY <1>3, OfLesson, StudentsType
<1>5. K \in LessonType
  BY <1>1, <1>4 DEF LessonType
<1>6. /\ K.students = f /\ K.desks = L.desks /\ K.room = L.room /\ K.subject = L.subject
      /\ K.began = L.began /\ K.due = L.due /\ K.no = L.no /\ K.phase = L.phase
  BY <1>1 DEF LessonType
<1>7. Members(K) = Members(L)
  BY <1>3, <1>6 DEF Members
<1> QED BY <1>2, <1>3, <1>5, <1>6, <1>7 DEF K

LEMMA AskedStudents ==
  ASSUME NEW L \in LessonType, NEW lead \in Nat, now \in Nat
  PROVE  /\ Ask(L, lead) \in LessonType /\ Members(Ask(L, lead)) = Members(L)
         /\ Ask(L, lead).room = L.room /\ Ask(L, lead).subject = L.subject
         /\ Ask(L, lead).desks = L.desks /\ Ask(L, lead).began = L.began
         /\ Ask(L, lead).due = now + lead + AnswerTime
         /\ Ask(L, lead).no = L.no + 1 /\ Ask(L, lead).phase = "asking"
         /\ \A q \in Members(L) :
              LET s == L.students[q]
                  t == Ask(L, lead).students[q]
              IN  /\ t.desk = s.desk /\ t.came = s.came /\ t.reported = NoAnswer
                  /\ t.asked = s.asked /\ t.right = s.right
<1> DEFINE new(q) == [L.students[q] EXCEPT !.reported = NoAnswer]
           f == [q \in Members(L) |-> new(q)]
           due == now + lead + AnswerTime
           no == L.no + 1
           K == Ask(L, lead)
<1>1. K = [L EXCEPT !.no = no, !.phase = "asking", !.due = due, !.students = f]
  BY DEF Ask
<1>2. ASSUME NEW q \in Members(L)
      PROVE  /\ new(q) \in Student
             /\ new(q).desk = L.students[q].desk /\ new(q).came = L.students[q].came
             /\ new(q).reported = NoAnswer
             /\ new(q).asked = L.students[q].asked /\ new(q).right = L.students[q].right
  <2>1. L.students[q] \in Student /\ NoAnswer \in Nat
    BY OfStudent DEF NoAnswer
  <2> QED BY <2>1 DEF Student
<1> HIDE DEF new
<1>3. /\ f \in [Members(L) -> Student] /\ DOMAIN f = Members(L)
      /\ \A q \in Members(L) : f[q] = new(q)
  BY <1>2
<1>4. due \in Nat /\ no \in Nat
  BY OfLesson, Times
<1>5. due = now + lead + AnswerTime /\ no = L.no + 1
  OBVIOUS
<1> HIDE DEF f, K, due, no
<1>6. f \in UNION {[R -> Student] : R \in SUBSET Chara}
  BY <1>3, OfLesson, StudentsType
<1>7. K \in LessonType
  BY <1>1, <1>4, <1>6 DEF LessonType
<1>8. /\ K.students = f /\ K.desks = L.desks /\ K.room = L.room /\ K.subject = L.subject
      /\ K.began = L.began /\ K.due = due /\ K.no = no /\ K.phase = "asking"
  BY <1>1 DEF LessonType
<1>9. Members(K) = Members(L)
  BY <1>3, <1>8 DEF Members
<1> QED BY <1>2, <1>3, <1>5, <1>7, <1>8, <1>9 DEF K

LEMMA OverIsOK ==
  ASSUME NEW L \in LessonType
  PROVE  LET K == [L EXCEPT !.phase = "over"]
         IN  /\ K \in LessonType /\ Members(K) = Members(L) /\ K.students = L.students
             /\ K.room = L.room /\ K.desks = L.desks /\ K.no = L.no /\ K.phase = "over"
             /\ K.began = L.began /\ K.subject = L.subject
BY DEF LessonType, Members

(* A room that is driven asks, marks or ends, and is owed nothing then.    *)
LEMMA PumpedIsOK ==
  ASSUME now \in Nat, NEW L, LessonOK(L), InTime(L), Live(L)
  PROVE  /\ LessonOK(Pumped(L)) /\ InTime(Pumped(L)) /\ Members(Pumped(L)) = Members(L)
         /\ Pumped(L).room = L.room /\ Desks(Pumped(L)) = Desks(L)
         /\ Over(Pumped(L)) \/ Pumped(L).due > now
<1>0. /\ L \in LessonType /\ ~Over(L) /\ Members(L) # {}
      /\ L.no \in Nat /\ L.due \in Nat /\ L.began \in Nat /\ L.phase \in {"opening", "asking"}
      /\ now <= L.due /\ L.began <= now
      /\ L.began + Length < Begins(L.began) /\ L.subject = SubjectAt(L.began)
  BY OfLesson DEF LessonOK, Live, InTime, Over
<1>d. ASSUME NEW K, Members(K) = Members(L), \A q \in Members(L) : K.students[q].desk = L.students[q].desk
      PROVE  Desks(K) = Desks(L)
  BY <1>d DEF Desks
<1>s. \A q \in Members(L) : /\ L.students[q].asked \in Nat /\ L.students[q].right \in Nat
                            /\ L.students[q].came \in Nat /\ Missed(L.students[q].came) \in Nat
  BY <1>0, OfStudent DEF Missed
<1>1. CASE now < L.due
  <2>1. Pumped(L) = L
    BY <1>0, <1>1 DEF Pumped
  <2> QED BY <1>0, <1>1, <2>1
<1>2. CASE now >= L.due /\ L.phase = "opening"
  <2> DEFINE K == Ask(L, 0)
  <2>1. Pumped(L) = K
    BY <1>0, <1>2 DEF Pumped
  <2>2. /\ K \in LessonType /\ Members(K) = Members(L) /\ K.room = L.room /\ K.subject = L.subject
        /\ K.desks = L.desks /\ K.began = L.began /\ K.due = now + AnswerTime
        /\ K.no = L.no + 1 /\ K.phase = "asking"
        /\ \A q \in Members(L) :
             /\ K.students[q].desk = L.students[q].desk /\ K.students[q].came = L.students[q].came
             /\ K.students[q].reported = NoAnswer
             /\ K.students[q].asked = L.students[q].asked /\ K.students[q].right = L.students[q].right
    BY <1>0, Times, AskedStudents
  <2> HIDE DEF K
  <2>3. L.no = 0 /\ K.no = 1
    BY <1>2, <2>2 DEF LessonOK
  <2>4. Done(K) = 0 /\ Done(L) = 0
    BY <1>2, <2>2, <2>3 DEF Done
  <2>5. LessonOK(K)
    BY <2>2, <2>3, <2>4, Times DEF LessonOK
  <2>6. InTime(K)
    <3>1. K.due + Rest(K) <= K.began + Length
      <4>1. Rest(L) = Questions * AnswerTime + (Questions - 1) * Grading /\ L.due + Rest(L) <= L.began + Length
        BY <1>2 DEF Rest, InTime
      <4>2. Rest(K) = (Questions - 1) * (AnswerTime + Grading)
        BY <2>2, <2>3 DEF Rest
      <4>3. AnswerTime + (Questions - 1) * (AnswerTime + Grading) = Questions * AnswerTime + (Questions - 1) * Grading
        BY Times
      <4>4. K.due = L.due + AnswerTime
        BY <1>0, <1>2, <2>2
      <4>5. (Questions - 1) * (AnswerTime + Grading) \in Int
        BY Times
      <4> QED BY <1>0, <2>2, <4>1, <4>2, <4>3, <4>4, <4>5, Times
    <3>2. K.began <= now /\ now <= K.due
      BY <1>0, <2>2, Times
    <3> QED BY <1>0, <2>2, <3>1, <3>2 DEF InTime
  <2>7. K.due > now
    BY <2>2, Times
  <2> QED BY <1>d, <2>1, <2>2, <2>5, <2>6, <2>7
<1>3. CASE now >= L.due /\ L.phase = "asking" /\ L.no >= Questions
  <2> DEFINE M == Marked(L)
             K == [M EXCEPT !.phase = "over"]
  <2>1. Pumped(L) = K
    BY <1>0, <1>3 DEF Pumped
  <2>2. /\ M \in LessonType /\ Members(M) = Members(L) /\ M.room = L.room /\ M.desks = L.desks /\ M.no = L.no
        /\ \A q \in Members(L) :
             /\ M.students[q].desk = L.students[q].desk /\ M.students[q].came = L.students[q].came
             /\ M.students[q].reported = L.students[q].reported
             /\ M.students[q].asked = L.students[q].asked + 1
             /\ M.students[q].right \in {L.students[q].right, L.students[q].right + 1}
    BY <1>0, MarkedStudents
  <2> HIDE DEF M
  <2>3. /\ K \in LessonType /\ Members(K) = Members(M) /\ K.students = M.students
        /\ K.room = M.room /\ K.desks = M.desks /\ K.no = M.no /\ K.phase = "over"
    BY <2>2, OverIsOK
  <2> HIDE DEF K
  <2>4. Done(K) = Questions /\ Done(L) = Questions - 1 /\ L.no = Questions
    BY <1>0, <1>3, <2>3, Times DEF Done, LessonOK
  <2>5. LessonOK(K)
    <3>1. ASSUME NEW q \in Members(K)
          PROVE  /\ K.students[q].desk < K.desks
                 /\ K.students[q].reported \in {NoAnswer, K.no}
                 /\ K.students[q].asked + Missed(K.students[q].came) = Done(K)
                 /\ K.students[q].right <= K.students[q].asked
      <4>1. /\ L.students[q].desk < L.desks /\ L.students[q].reported \in {NoAnswer, L.no}
            /\ L.students[q].asked + Missed(L.students[q].came) = Done(L)
            /\ L.students[q].right <= L.students[q].asked
        BY <2>2, <2>3 DEF LessonOK
      <4> QED BY <1>s, <2>2, <2>3, <2>4, <4>1, Times
    <3> QED BY <2>2, <2>3, <2>4, <3>1, Times DEF LessonOK
  <2>6. Over(K)
    BY <2>3 DEF Over
  <2>7. InTime(K)
    BY <2>6 DEF InTime, Live
  <2> QED BY <1>d, <2>1, <2>2, <2>3, <2>5, <2>6, <2>7
<1>4. CASE now >= L.due /\ L.phase = "asking" /\ ~ (L.no >= Questions)
  <2> DEFINE M == Marked(L)
             K == Ask(M, Grading)
  <2>1. Pumped(L) = K
    BY <1>0, <1>4 DEF Pumped
  <2>2. /\ M \in LessonType /\ Members(M) = Members(L) /\ M.room = L.room /\ M.desks = L.desks /\ M.no = L.no
        /\ M.subject = L.subject /\ M.began = L.began
        /\ \A q \in Members(L) :
             /\ M.students[q].desk = L.students[q].desk /\ M.students[q].came = L.students[q].came
             /\ M.students[q].asked = L.students[q].asked + 1
             /\ M.students[q].right \in {L.students[q].right, L.students[q].right + 1}
    BY <1>0, MarkedStudents
  <2> HIDE DEF M
  <2>3. /\ K \in LessonType /\ Members(K) = Members(M) /\ K.room = M.room /\ K.subject = M.subject
        /\ K.desks = M.desks /\ K.began = M.began /\ K.due = now + Grading + AnswerTime
        /\ K.no = M.no + 1 /\ K.phase = "asking"
        /\ \A q \in Members(M) :
             /\ K.students[q].desk = M.students[q].desk /\ K.students[q].came = M.students[q].came
             /\ K.students[q].reported = NoAnswer
             /\ K.students[q].asked = M.students[q].asked /\ K.students[q].right = M.students[q].right
    BY <2>2, Times, AskedStudents
  <2> HIDE DEF K
  <2>4. Done(K) = L.no /\ Done(L) = L.no - 1 /\ L.no >= 1 /\ K.no = L.no + 1 /\ K.no <= Questions
    BY <1>0, <1>4, <2>2, <2>3, Times DEF Done, LessonOK
  <2>5. LessonOK(K)
    <3>1. ASSUME NEW q \in Members(K)
          PROVE  /\ K.students[q].desk < K.desks
                 /\ K.students[q].reported \in {NoAnswer, K.no}
                 /\ K.students[q].asked + Missed(K.students[q].came) = Done(K)
                 /\ K.students[q].right <= K.students[q].asked
      <4>1. /\ L.students[q].desk < L.desks
            /\ L.students[q].asked + Missed(L.students[q].came) = Done(L)
            /\ L.students[q].right <= L.students[q].asked
        BY <2>2, <2>3 DEF LessonOK
      <4> QED BY <1>0, <1>s, <2>2, <2>3, <2>4, <4>1, Times
    <3> QED BY <1>0, <2>2, <2>3, <2>4, <3>1, Times DEF LessonOK
  <2>6. InTime(K)
    <3>1. K.due + Rest(K) <= K.began + Length
      <4>1. Rest(L) = (Questions - L.no) * (AnswerTime + Grading) /\ L.due + Rest(L) <= L.began + Length
        BY <1>4, <1>0 DEF Rest, InTime, Live
      <4>2. Rest(K) = (Questions - (L.no + 1)) * (AnswerTime + Grading)
        BY <2>3, <2>4 DEF Rest
      <4>3. AnswerTime + Grading + (Questions - (L.no + 1)) * (AnswerTime + Grading)
              = (Questions - L.no) * (AnswerTime + Grading)
        BY <1>0, Times
      <4>4. K.due = L.due + Grading + AnswerTime
        <5>1. now = L.due
          BY <1>0, <1>4
        <5> QED BY <2>3, <5>1
      <4>5. (Questions - (L.no + 1)) * (AnswerTime + Grading) \in Int
        BY <1>0, Times
      <4> QED BY <1>0, <2>2, <2>3, <4>1, <4>2, <4>3, <4>4, <4>5, Times
    <3>2. K.began <= now /\ now <= K.due
      BY <1>0, <2>2, <2>3, Times
    <3> QED BY <1>0, <2>2, <2>3, <3>1, <3>2 DEF InTime
  <2>7. K.due > now
    BY <2>3, Times
  <2> QED BY <1>d, <2>1, <2>2, <2>3, <2>5, <2>6, <2>7
<1> QED BY <1>0, <1>1, <1>2, <1>3, <1>4
-----------------------------------------------------------------------------
(* The school.                                                             *)
LEMMA OfSchool ==
  ASSUME NEW S \in SchoolType
  PROVE  /\ S.lessons \in Seq(LessonType) /\ S.rooms \in [Place -> Nat] /\ S.seat \in [Chara -> Nat]
         /\ S.card \in [Chara -> Card] /\ S.drawn \in [Chara -> SUBSET (Chara \X Nat)]
         /\ Len(S.lessons) \in Nat /\ DOMAIN S.lessons = 1..Len(S.lessons)
         /\ S.lessons \in [1..Len(S.lessons) -> LessonType]
         /\ \A l \in 1..Len(S.lessons) : S.lessons[l] \in LessonType
<1>1. /\ S.lessons \in Seq(LessonType) /\ S.rooms \in [Place -> Nat] /\ S.seat \in [Chara -> Nat]
      /\ S.card \in [Chara -> Card] /\ S.drawn \in [Chara -> SUBSET (Chara \X Nat)]
  BY DEF SchoolType
<1>2. Len(S.lessons) \in Nat /\ DOMAIN S.lessons = 1..Len(S.lessons) /\ S.lessons \in [1..Len(S.lessons) -> LessonType]
  BY <1>1, LenProperties
<1> QED BY <1>1, <1>2

(* A list of lessons built number by number.                               *)
LEMMA Listed ==
  ASSUME NEW n \in Nat, NEW f \in [1..n -> LessonType]
  PROVE  f \in Seq(LessonType) /\ Len(f) = n
<1>1. f \in Seq(LessonType)
  BY SeqDef
<1>2. Len(f) \in Nat /\ DOMAIN f = 1..Len(f)
  BY <1>1, LenProperties
<1>3. 1..Len(f) = 1..n
  BY <1>2
<1>4. Len(f) = n
  BY <1>2, <1>3
<1> QED BY <1>1, <1>4

LEMMA DesksTyped ==
  ASSUME NEW L \in LessonType
  PROVE  Desks(L) \in SUBSET (Chara \X Nat)
BY OfStudent, OfLesson DEF Desks

(* One lesson opens or changes, and who sits in it.                        *)
LessonMoves(S, T, l) ==
  /\ l \in 1..Len(T.lessons) /\ l # Nobody
  /\ 1..Len(T.lessons) \subseteq 1..Len(S.lessons) \union {l}
  /\ 1..Len(S.lessons) \subseteq 1..Len(T.lessons)
  /\ \A i \in 1..Len(S.lessons) : i # l => T.lessons[i] = S.lessons[i]
  /\ LessonOK(T.lessons[l]) /\ InTime(T.lessons[l])
SitsIn(T, l, p) ==
  /\ p \in online /\ p \in Members(T.lessons[l]) /\ ~Over(T.lessons[l])
  /\ T.rooms[place[p]] = l /\ T.drawn[p] = Desks(T.lessons[l])
SeatsMove(S, T, l) ==
  /\ ~Over(T.lessons[l]) => \A p \in Members(T.lessons[l]) : T.seat[p] = l
  /\ \A p \in Chara : T.seat[p] = l => SitsIn(T, l, p)
  /\ \A p \in Chara : T.seat[p] # Nobody /\ T.seat[p] # l =>
       /\ T.seat[p] = S.seat[p] /\ T.drawn[p] = S.drawn[p]
       /\ T.rooms[place[p]] = S.rooms[place[p]]
  /\ \A p \in Chara : S.seat[p] # Nobody /\ S.seat[p] # l => T.seat[p] = S.seat[p]
RoomsMove(S, T, l) ==
  /\ \A r \in Place : T.rooms[r] # Nobody /\ T.rooms[r] # l => T.rooms[r] = S.rooms[r]
  /\ \A r \in Place : T.rooms[r] = l => T.lessons[l].room = r /\ Live(T.lessons[l])

LEMMA OneLesson ==
  ASSUME NEW S, SchoolOK(S), NEW T \in SchoolType, NEW l,
         LessonMoves(S, T, l), SeatsMove(S, T, l), RoomsMove(S, T, l)
  PROVE  SchoolOK(T)
<1>0. /\ S \in SchoolType /\ \A i \in 1..Len(S.lessons) : LessonFits(S, i)
      /\ \A r \in Place : RoomFits(S, r) /\ \A p \in Chara : SeatFits(S, p)
  BY DEF SchoolOK
<1>1. ASSUME NEW i \in 1..Len(T.lessons)
      PROVE  LessonFits(T, i)
  <2>1. CASE i = l
    BY <2>1 DEF LessonFits, LessonMoves, SeatsMove
  <2>2. CASE i # l
    <3>1. i \in 1..Len(S.lessons) /\ T.lessons[i] = S.lessons[i] /\ i # Nobody
      BY <2>2 DEF Nobody, LessonMoves
    <3>2. LessonFits(S, i)
      BY <1>0, <3>1
    <3>3. Members(S.lessons[i]) \subseteq Chara
      BY <1>0, <3>1, OfSchool, OfLesson
    <3>4. ASSUME ~Over(T.lessons[i]), NEW p \in Members(T.lessons[i])
          PROVE  T.seat[p] = i
      <4>1. p \in Chara /\ S.seat[p] = i
        BY <3>1, <3>2, <3>3, <3>4 DEF LessonFits
      <4> QED BY <2>2, <3>1, <4>1 DEF SeatsMove
    <3> QED BY <3>1, <3>2, <3>4 DEF LessonFits
  <2> QED BY <2>1, <2>2
<1>2. ASSUME NEW r \in Place
      PROVE  RoomFits(T, r)
  <2>1. CASE T.rooms[r] = l
    BY <2>1 DEF RoomFits, RoomsMove, LessonMoves
  <2>2. CASE T.rooms[r] = Nobody
    BY <2>2 DEF RoomFits
  <2>3. CASE T.rooms[r] # l /\ T.rooms[r] # Nobody
    <3>1. T.rooms[r] = S.rooms[r] /\ RoomFits(S, r)
      BY <1>0, <2>3 DEF RoomsMove
    <3>2. /\ S.rooms[r] \in 1..Len(S.lessons)
          /\ S.lessons[S.rooms[r]].room = r /\ Live(S.lessons[S.rooms[r]])
      BY <2>3, <3>1 DEF RoomFits
    <3>3. T.lessons[T.rooms[r]] = S.lessons[S.rooms[r]] /\ T.rooms[r] \in 1..Len(T.lessons)
      BY <2>3, <3>1, <3>2 DEF LessonMoves
    <3> QED BY <3>1, <3>2, <3>3 DEF RoomFits
  <2> QED BY <2>1, <2>2, <2>3
<1>3. ASSUME NEW p \in Chara
      PROVE  SeatFits(T, p)
  <2>1. CASE T.seat[p] = l
    BY <2>1 DEF SeatFits, SeatsMove, SitsIn, LessonMoves
  <2>2. CASE T.seat[p] = Nobody
    BY <2>2 DEF SeatFits
  <2>3. CASE T.seat[p] # l /\ T.seat[p] # Nobody
    <3>0. SeatFits(S, p)
      BY DEF SchoolOK
    <3>1. /\ T.seat[p] = S.seat[p] /\ T.drawn[p] = S.drawn[p]
          /\ T.rooms[place[p]] = S.rooms[place[p]]
      BY <2>3 DEF SeatsMove
    <3>2. /\ S.seat[p] \in 1..Len(S.lessons) /\ p \in online
          /\ p \in Members(S.lessons[S.seat[p]]) /\ ~Over(S.lessons[S.seat[p]])
          /\ S.rooms[place[p]] = S.seat[p] /\ S.drawn[p] = Desks(S.lessons[S.seat[p]])
      BY <2>3, <3>0, <3>1 DEF SeatFits
    <3>3. T.lessons[T.seat[p]] = S.lessons[S.seat[p]] /\ T.seat[p] \in 1..Len(T.lessons)
      BY <2>3, <3>1, <3>2 DEF LessonMoves
    <3> QED BY <3>1, <3>2, <3>3 DEF SeatFits
  <2> QED BY <2>1, <2>2, <2>3
<1> QED BY <1>1, <1>2, <1>3 DEF SchoolOK

(* A lesson in use was opened in the slot under way.                       *)
LEMMA InUseIsToday ==
  ASSUME now \in Nat, NEW L, LessonOK(L), InTime(L), Live(L)
  PROVE  L.subject = SubjectAt(now)
<1>1. /\ L.no \in Nat /\ L.due \in Nat /\ L.began \in Nat /\ L.no <= Questions
      /\ now <= L.due /\ L.began <= now /\ L.due + Rest(L) <= L.began + Length
      /\ L.began + Length < Begins(L.began) /\ L.subject = SubjectAt(L.began)
  BY OfLesson DEF LessonOK, InTime
<1>2. Rest(L) \in Nat
  <2>1. \A m, n \in Nat : m * n \in Nat
    OBVIOUS
  <2>2. Questions - L.no \in Nat /\ AnswerTime + Grading \in Nat /\ Questions - 1 \in Nat
    BY <1>1, Times
  <2>3. (Questions - L.no) * (AnswerTime + Grading) \in Nat
    BY <2>1, <2>2
  <2>4. Questions * AnswerTime \in Nat /\ (Questions - 1) * Grading \in Nat
    BY <2>1, <2>2, Times
  <2> QED BY <2>3, <2>4 DEF Rest
<1>3. now < Begins(L.began)
  <2>1. Begins(L.began) \in Nat
    BY <1>1, SlotOf
  <2> QED BY <1>1, <1>2, <2>1, Times
<1> QED BY <1>1, <1>3, SameSlot

(* The seats of a room nobody has a lesson in.                             *)
LEMMA NobodyInRoom ==
  ASSUME NEW S, SchoolOK(S), NEW p \in Chara, S.rooms[place[p]] = Nobody
  PROVE  S.seat[p] = Nobody
<1>1. SeatFits(S, p)
  BY DEF SchoolOK
<1> QED BY <1>1 DEF SeatFits
-----------------------------------------------------------------------------
(* _lesson_start: whoever is let in joins the room's lesson, or opens one. *)
Rebuilt(S, lessons, rooms, seat, drawn) ==
  [S EXCEPT !.lessons = lessons, !.rooms = rooms, !.seat = seat, !.drawn = drawn]

(* The list of lessons with one of them replaced, or one more at its end.  *)
Relisted(S, L, l) ==
  [i \in 1..Len(S.lessons) \union {l} |-> IF i = l THEN L ELSE S.lessons[i]]

LEMMA ListedAgain ==
  ASSUME NEW S \in SchoolType, NEW L \in LessonType, NEW l \in 1..Len(S.lessons) + 1,
         NEW f, f = Relisted(S, L, l)
  PROVE  /\ f \in Seq(LessonType) /\ f[l] = L /\ l \in 1..Len(f)
         /\ \A i \in 1..Len(S.lessons) : i # l => f[i] = S.lessons[i]
         /\ 1..Len(f) = 1..Len(S.lessons) \union {l}
<1>1. Len(S.lessons) \in Nat /\ \A i \in 1..Len(S.lessons) : S.lessons[i] \in LessonType
  BY OfSchool
<1>2. PICK n \in Nat : n = IF l = Len(S.lessons) + 1 THEN l ELSE Len(S.lessons)
  BY <1>1
<1>3. 1..n = 1..Len(S.lessons) \union {l}
  BY <1>1, <1>2
<1>4. f \in [1..n -> LessonType]
  BY <1>1, <1>3 DEF Relisted
<1>5. f \in Seq(LessonType) /\ Len(f) = n
  BY <1>4, Listed
<1>6. f[l] = L /\ \A i \in 1..Len(S.lessons) : i # l => f[i] = S.lessons[i]
  BY <1>3 DEF Relisted
<1> QED BY <1>3, <1>5, <1>6

Others(S, p, L, before) ==
  [q \in Chara |->
     IF q = p THEN Desks(L)
     ELSE IF q \in (Members(before) \ {p}) \intersect online /\ p \notin Members(before)
       THEN S.drawn[q] \union {<<p, L.students[p].desk>>}
       ELSE S.drawn[q]]

(* A lesson p may sit down in: the one its room holds, or a new one.       *)
Enters(S, p, l, before) ==
  /\ l \in 1..Len(S.lessons) + 1
  /\ LessonOK(before) /\ ~Over(before) /\ before.room = place[p]
  /\ InTime(Joined(before, p))
  /\ \/ /\ l = Len(S.lessons) + 1 /\ Members(before) = {} /\ S.rooms[place[p]] = Nobody
     \/ /\ l \in 1..Len(S.lessons) /\ before = S.lessons[l] /\ S.rooms[place[p]] = l

LEMMA SatDownFields ==
  ASSUME NEW S \in SchoolType, NEW p \in Chara, place[p] \in Place, NEW l \in 1..Len(S.lessons) + 1,
         NEW before, Joined(before, p) \in LessonType, p \in Members(Joined(before, p))
  PROVE  LET T == SatDown(S, p, l, before)
             L == Joined(before, p)
         IN  /\ T \in SchoolType /\ T.rooms = [S.rooms EXCEPT ![place[p]] = l]
             /\ T.seat = [S.seat EXCEPT ![p] = l] /\ T.card = S.card
             /\ T.drawn = Others(S, p, L, before)
             /\ T.lessons = Relisted(S, L, l)
<1> DEFINE L == Joined(before, p)
           lessons == Relisted(S, L, l)
           rooms == [S.rooms EXCEPT ![place[p]] = l]
           seat == [S.seat EXCEPT ![p] = l]
           drawn == Others(S, p, L, before)
           T == SatDown(S, p, l, before)
<1>1. T = Rebuilt(S, lessons, rooms, seat, drawn)
  BY Zenon DEF SatDown, Others, Rebuilt, Relisted
<1>2. /\ S.rooms \in [Place -> Nat] /\ S.seat \in [Chara -> Nat]
      /\ S.drawn \in [Chara -> SUBSET (Chara \X Nat)] /\ l \in Nat
  BY OfSchool
<1>3. lessons \in Seq(LessonType)
  <2>1. L \in LessonType
    OBVIOUS
  <2> HIDE DEF L
  <2> QED BY <2>1, ListedAgain
<1>4. rooms \in [Place -> Nat] /\ seat \in [Chara -> Nat]
  BY <1>2
<1>5. drawn \in [Chara -> SUBSET (Chara \X Nat)]
  <2>1. Desks(L) \in SUBSET (Chara \X Nat) /\ <<p, L.students[p].desk>> \in Chara \X Nat
    BY DesksTyped, OfStudent
  <2>2. \A q \in Chara : S.drawn[q] \in SUBSET (Chara \X Nat)
    BY <1>2
  <2> HIDE DEF L
  <2> QED BY <2>1, <2>2 DEF Others
<1> HIDE DEF lessons, rooms, seat, drawn, T
<1>6. /\ T \in SchoolType /\ T.lessons = lessons /\ T.rooms = rooms /\ T.seat = seat
      /\ T.drawn = drawn /\ T.card = S.card
  BY <1>1, <1>3, <1>4, <1>5 DEF SchoolType, Rebuilt
<1> QED BY <1>6 DEF lessons, rooms, seat, drawn, T
LEMMA SatDownIsOK ==
  ASSUME NEW S, SchoolOK(S), NEW p \in Chara, p \in online, place \in [Chara -> Place],
         NEW l, NEW before, Enters(S, p, l, before)
  PROVE  SchoolOK(SatDown(S, p, l, before))
<1> DEFINE L == Joined(before, p)
           T == SatDown(S, p, l, before)
           room == place[p]
<1>0. S \in SchoolType /\ room \in Place
  BY DEF SchoolOK
<1>1. /\ S.lessons \in Seq(LessonType) /\ S.rooms \in [Place -> Nat] /\ S.seat \in [Chara -> Nat]
      /\ S.drawn \in [Chara -> SUBSET (Chara \X Nat)] /\ Len(S.lessons) \in Nat
  BY <1>0, OfSchool
<1>2. l \in 1..Len(S.lessons) + 1 /\ l # Nobody /\ l \in Nat
  BY <1>1 DEF Enters, Nobody
<1>3. /\ LessonOK(before) /\ ~Over(before) /\ before.room = room
      /\ S.rooms[room] \in {Nobody, l}
  BY DEF Enters
<1>4. \A q \in Members(before) :
        /\ q \in Chara /\ S.seat[q] = l /\ q \in online
        /\ S.drawn[q] = Desks(before) /\ S.rooms[place[q]] = l
  <2>1. CASE Members(before) = {}
    BY <2>1
  <2>2. CASE l \in 1..Len(S.lessons) /\ before = S.lessons[l]
    <3>1. LessonFits(S, l) /\ Members(before) \subseteq Chara
      BY <1>0, <2>2, OfSchool, OfLesson DEF SchoolOK
    <3>2. ASSUME NEW q \in Members(before)
          PROVE  /\ q \in Chara /\ S.seat[q] = l /\ q \in online
                 /\ S.drawn[q] = Desks(before) /\ S.rooms[place[q]] = l
      <4>1. q \in Chara /\ S.seat[q] = l
        BY <1>3, <2>2, <3>1, <3>2 DEF LessonFits
      <4>2. SeatFits(S, q)
        BY <4>1 DEF SchoolOK
      <4> QED BY <1>2, <2>2, <4>1, <4>2 DEF SeatFits
    <3> QED BY <3>2
  <2> QED BY <2>1, <2>2 DEF Enters
<1>5. /\ LessonOK(L) /\ Members(L) = Members(before) \union {p} /\ L.room = room
      /\ L.phase = before.phase
      /\ \A q \in Members(before) : L.students[q] = before.students[q]
  BY <1>3, JoinedIsOK
<1>6. InTime(L) /\ ~Over(L) /\ Live(L) /\ L \in LessonType
  BY <1>3, <1>5 DEF Over, Live, LessonOK, Enters
<1>7. /\ T \in SchoolType /\ T.rooms = [S.rooms EXCEPT ![room] = l]
      /\ T.seat = [S.seat EXCEPT ![p] = l]
      /\ T.drawn = Others(S, p, L, before) /\ T.lessons = Relisted(S, L, l)
  BY <1>0, <1>2, <1>5, <1>6, SatDownFields
<1> HIDE DEF T, L, room
<1>8. /\ T.lessons[l] = L /\ l \in 1..Len(T.lessons)
      /\ \A i \in 1..Len(S.lessons) : i # l => T.lessons[i] = S.lessons[i]
      /\ 1..Len(T.lessons) = 1..Len(S.lessons) \union {l}
  BY <1>0, <1>2, <1>6, <1>7, ListedAgain
<1>9. /\ T.rooms[room] = l /\ \A r \in Place \ {room} : T.rooms[r] = S.rooms[r]
      /\ T.seat[p] = l /\ \A q \in Chara \ {p} : T.seat[q] = S.seat[q]
  BY <1>0, <1>1, <1>7
<1>10. /\ T.drawn[p] = Desks(L)
       /\ \A q \in Chara \ {p} : q \in Members(before) => T.drawn[q] = Desks(L)
       /\ \A q \in Chara \ {p} : q \notin Members(before) => T.drawn[q] = S.drawn[q]
  <2>1. T.drawn[p] = Desks(L)
    BY <1>7 DEF Others
  <2>2. ASSUME NEW q \in Chara, q # p, q \in Members(before)
        PROVE  T.drawn[q] = Desks(L)
    <3>0. S.drawn[q] = Desks(before) /\ q \in online
      BY <1>4, <2>2
    <3>1. CASE p \in Members(before)
      <4>1. Desks(L) = Desks(before)
        BY <1>5, <3>1 DEF Desks
      <4> QED BY <1>7, <2>2, <3>0, <3>1, <4>1 DEF Others
    <3>2. CASE p \notin Members(before)
      <4>1. Desks(L) = Desks(before) \union {<<p, L.students[p].desk>>}
        BY <1>5, <3>2 DEF Desks
      <4> QED BY <1>7, <2>2, <3>0, <3>2, <4>1 DEF Others
    <3> QED BY <3>1, <3>2
  <2>3. \A q \in Chara \ {p} : q \notin Members(before) => T.drawn[q] = S.drawn[q]
    BY <1>7 DEF Others
  <2> QED BY <2>1, <2>2, <2>3
<1>11. S.seat[p] \in {Nobody, l} /\ \A q \in Chara : S.seat[q] = l => q \in Members(before)
  <2>0. \A q \in Chara : SeatFits(S, q)
    BY DEF SchoolOK
  <2>1. S.seat[p] \in {Nobody, l}
    BY <1>3, <2>0 DEF SeatFits, room
  <2>2. ASSUME NEW q \in Chara, S.seat[q] = l
        PROVE  q \in Members(before)
    <3>1. l \in 1..Len(S.lessons) /\ q \in Members(S.lessons[l])
      BY <1>2, <2>0, <2>2 DEF SeatFits
    <3>2. l # Len(S.lessons) + 1
      BY <1>1, <3>1
    <3> QED BY <3>1, <3>2 DEF Enters
  <2> QED BY <2>1, <2>2
<1>12. LessonMoves(S, T, l)
  BY <1>2, <1>5, <1>6, <1>8 DEF LessonMoves
<1>13. ASSUME NEW q \in Chara, T.seat[q] = l
       PROVE  SitsIn(T, l, q)
  <2>1. CASE q = p
    BY <1>5, <1>6, <1>8, <1>9, <1>10, <2>1 DEF SitsIn, room
  <2>2. CASE q # p
    <3>1. S.seat[q] = l /\ q \in Members(before)
      BY <1>9, <1>11, <1>13, <2>2
    <3>2. q \in online /\ S.rooms[place[q]] = l /\ place[q] \in Place /\ q \in Members(L)
      BY <1>4, <1>5, <3>1
    <3>3. T.rooms[place[q]] = l
      BY <1>9, <3>2
    <3> QED BY <1>6, <1>8, <1>10, <2>2, <3>1, <3>2, <3>3 DEF SitsIn
  <2> QED BY <2>1, <2>2
<1>14. SeatsMove(S, T, l)
  <2>1. \A q \in Members(T.lessons[l]) : T.seat[q] = l
    <3>1. T.lessons[l] = L
      BY <1>8
    <3>2. ASSUME NEW q \in Members(L)
          PROVE  T.seat[q] = l
      <4>1. CASE q = p
        BY <1>9, <4>1
      <4>2. CASE q # p
        BY <1>4, <1>5, <1>9, <4>2
      <4> QED BY <4>1, <4>2
    <3> QED BY <3>1, <3>2
  <2>2. ASSUME NEW q \in Chara, T.seat[q] # Nobody, T.seat[q] # l
        PROVE  T.seat[q] = S.seat[q] /\ T.drawn[q] = S.drawn[q] /\ T.rooms[place[q]] = S.rooms[place[q]]
    <3>1. q # p /\ T.seat[q] = S.seat[q]
      BY <1>9, <2>2
    <3>2. SeatFits(S, q)
      BY DEF SchoolOK
    <3>3. S.rooms[place[q]] = S.seat[q] /\ place[q] \in Place
      BY <2>2, <3>1, <3>2 DEF SeatFits
    <3>4. place[q] # room
      BY <1>3, <2>2, <3>1, <3>3
    <3>5. q \notin Members(before)
      BY <1>4, <2>2, <3>1
    <3> QED BY <1>9, <1>10, <3>1, <3>3, <3>4, <3>5
  <2>3. \A q \in Chara : S.seat[q] # Nobody /\ S.seat[q] # l => T.seat[q] = S.seat[q]
    BY <1>9, <1>11
  <2> QED BY <1>13, <2>1, <2>2, <2>3 DEF SeatsMove
<1>15. RoomsMove(S, T, l)
  <2>1. \A r \in Place : T.rooms[r] # Nobody /\ T.rooms[r] # l => T.rooms[r] = S.rooms[r]
    BY <1>9
  <2>2. ASSUME NEW r \in Place, T.rooms[r] = l
        PROVE  T.lessons[l].room = r /\ Live(T.lessons[l])
    <3>1. CASE r = room
      BY <1>5, <1>6, <1>8, <3>1
    <3>2. CASE r # room
      <4>1. S.rooms[r] = l /\ RoomFits(S, r)
        BY <1>9, <2>2, <3>2 DEF SchoolOK
      <4>2. l \in 1..Len(S.lessons) /\ S.lessons[l].room = r
        BY <1>2, <4>1 DEF RoomFits
      <4>3. l # Len(S.lessons) + 1
        BY <1>1, <4>2
      <4> QED BY <1>3, <3>2, <4>2, <4>3 DEF Enters
    <3> QED BY <3>1, <3>2
  <2> QED BY <2>1, <2>2 DEF RoomsMove
<1>16. T \in SchoolType
  BY <1>7
<1>17. SchoolOK(T)
  BY <1>12, <1>14, <1>15, <1>16, OneLesson
<1> QED BY <1>17 DEF T

LEMMA SatDownSpends ==
  ASSUME NEW S, SchoolOK(S), NEW p \in Chara, p \in online, place \in [Chara -> Place],
         NEW l, NEW before, Enters(S, p, l, before), NEW T, T = SatDown(S, p, l, before)
  PROVE  Spent(T, p) <= Spent(S, p) + 1 /\ \A q \in Chara \ {p} : Spent(T, q) = Spent(S, q)
<1>1. S \in SchoolType /\ place[p] \in Place /\ LessonOK(before) /\ ~Over(before)
  BY DEF SchoolOK, Enters
<1>2. Joined(before, p) \in LessonType /\ p \in Members(Joined(before, p))
  BY <1>1, JoinedIsOK DEF LessonOK
<1>3. l \in 1..Len(S.lessons) + 1 /\ l \in Nat
  BY <1>1, OfSchool DEF Enters
<1> DEFINE U == SatDown(S, p, l, before)
           L == Joined(before, p)
<1>4. /\ U \in SchoolType /\ U.rooms = [S.rooms EXCEPT ![place[p]] = l]
      /\ U.seat = [S.seat EXCEPT ![p] = l] /\ U.card = S.card
      /\ U.drawn = Others(S, p, L, before) /\ U.lessons = Relisted(S, L, l)
  BY <1>1, <1>2, <1>3, SatDownFields
<1>5. S.seat \in [Chara -> Nat] /\ S.card \in [Chara -> Card]
  BY <1>1, OfSchool
<1> HIDE DEF U
<1>6. U.seat[p] = l /\ \A q \in Chara \ {p} : U.seat[q] = S.seat[q]
  BY <1>4, <1>5
<1>7. \A q \in Chara : S.card[q].attended \in Nat
  BY <1>5 DEF Card
<1>8. /\ Spent(U, p) <= Spent(S, p) + 1
      /\ \A q \in Chara \ {p} : Spent(U, q) = Spent(S, q)
  BY <1>4, <1>6, <1>7 DEF Spent
<1> QED BY <1>8 DEF U
LEMMA SeatedIsOK ==
  ASSUME NEW S, SchoolOK(S), now \in Nat, NEW p \in Chara, p \in online, place \in [Chara -> Place],
         NEW subject \in Nat, subject = SubjectAt(now), now + Length < Begins(now)
  PROVE  /\ SchoolOK(Seated(S, p, subject))
         /\ Spent(Seated(S, p, subject), p) <= Spent(S, p) + 1
         /\ \A q \in Chara \ {p} : Spent(Seated(S, p, subject), q) = Spent(S, q)
<1> DEFINE room == place[p]
           Result(T) == /\ SchoolOK(T) /\ Spent(T, p) <= Spent(S, p) + 1
                        /\ \A q \in Chara \ {p} : Spent(T, q) = Spent(S, q)
<1>0. S \in SchoolType /\ room \in Place /\ Len(S.lessons) \in Nat
  BY OfSchool DEF SchoolOK
<1>1. ASSUME NEW l, NEW before, Enters(S, p, l, before)
      PROVE  Result(SatDown(S, p, l, before))
  <2>1. SchoolOK(SatDown(S, p, l, before))
    BY <1>1, SatDownIsOK
  <2>2. /\ Spent(SatDown(S, p, l, before), p) <= Spent(S, p) + 1
        /\ \A q \in Chara \ {p} : Spent(SatDown(S, p, l, before), q) = Spent(S, q)
    BY <1>1, SatDownSpends
  <2> QED BY <2>1, <2>2
<1> HIDE DEF room
<1>2. CASE S.rooms[room] # Nobody
  <2> DEFINE l == S.rooms[room]
             before == S.lessons[l]
  <2>1. l \in 1..Len(S.lessons) /\ before.room = room /\ Live(before)
    BY <1>0, <1>2 DEF SchoolOK, RoomFits
  <2>2. LessonOK(before) /\ InTime(before)
    BY <2>1 DEF SchoolOK, LessonFits
  <2>3. before.subject = subject
    BY <2>1, <2>2, InUseIsToday
  <2>4. InUse(S, room, subject)
    BY <1>2, <2>1, <2>3 DEF InUse, Live
  <2>5. /\ Joined(before, p).subject = before.subject /\ Joined(before, p).began = before.began
        /\ Joined(before, p).due = before.due /\ Joined(before, p).no = before.no
        /\ Joined(before, p).phase = before.phase
    BY <2>1, <2>2, JoinedIsOK DEF Live
  <2> HIDE DEF before
  <2>6. InTime(Joined(before, p))
    BY <2>1, <2>2, <2>5 DEF InTime, Rest
  <2>7. Enters(S, p, l, before)
    BY <1>0, <2>1, <2>2, <2>6 DEF Enters, Live, before, room
  <2>8. Result(SatDown(S, p, l, before))
    BY <1>1, <2>7
  <2> QED BY <2>4, <2>8 DEF Seated, before, room
<1>3. CASE S.rooms[room] = Nobody
  <2> DEFINE l == Len(S.lessons) + 1
             before == Opened(room, subject)
  <2>1. /\ LessonOK(before) /\ ~Over(before) /\ Members(before) = {} /\ before.room = room
        /\ before.began = now /\ before.subject = subject /\ before.due = now + Speech
        /\ before.phase = "opening"
    BY <1>0, OpenedIsOK
  <2>2. ~InUse(S, room, subject)
    BY <1>3 DEF InUse
  <2> HIDE DEF before
  <2>3. /\ Joined(before, p).subject = before.subject /\ Joined(before, p).began = before.began
        /\ Joined(before, p).due = before.due /\ Joined(before, p).no = before.no
        /\ Joined(before, p).phase = before.phase
    BY <2>1, JoinedIsOK
  <2>4. InTime(Joined(before, p))
    <3>1. Rest(Joined(before, p)) = Questions * AnswerTime + (Questions - 1) * Grading
      BY <2>1, <2>3 DEF Rest
    <3>2. now + Speech + Rest(Joined(before, p)) = now + Length
      <4>1. \A m, n \in Nat : m * n \in Nat
        OBVIOUS
      <4>2. Questions * AnswerTime \in Nat /\ (Questions - 1) * Grading \in Nat
        BY <4>1, Times
      <4> QED BY <3>1, <4>2, Times DEF Length
    <3>3. now <= now + Speech
      BY Times
    <3> QED BY <2>1, <2>3, <3>2, <3>3, Times DEF InTime
  <2>5. Enters(S, p, l, before)
    BY <1>0, <1>3, <2>1, <2>4 DEF Enters, room
  <2>6. Result(SatDown(S, p, l, before))
    BY <1>1, <2>5
  <2> QED BY <2>2, <2>6 DEF Seated, before, room
<1> QED BY <1>2, <1>3
-----------------------------------------------------------------------------
(* _drain_lesson: the room's lesson goes on, or ends and is filed.         *)
Replaced(S, l, K) == [S EXCEPT !.lessons = [S.lessons EXCEPT ![l] = K]]

LEMMA ReplacedFields ==
  ASSUME NEW S \in SchoolType, NEW l \in 1..Len(S.lessons), NEW K \in LessonType,
         NEW T, T = Replaced(S, l, K)
  PROVE  /\ T \in SchoolType /\ T.rooms = S.rooms /\ T.seat = S.seat /\ T.card = S.card
         /\ T.drawn = S.drawn /\ T.lessons[l] = K /\ Len(T.lessons) = Len(S.lessons)
         /\ \A i \in 1..Len(S.lessons) : i # l => T.lessons[i] = S.lessons[i]
<1> DEFINE a == [S.lessons EXCEPT ![l] = K]
<1>1. Len(S.lessons) \in Nat /\ S.lessons \in [1..Len(S.lessons) -> LessonType]
  BY OfSchool
<1>2. /\ a \in [1..Len(S.lessons) -> LessonType] /\ a[l] = K
      /\ \A i \in 1..Len(S.lessons) : i # l => a[i] = S.lessons[i]
  BY <1>1
<1>3. T = [S EXCEPT !.lessons = a]
  BY DEF Replaced
<1> HIDE DEF a
<1>4. a \in Seq(LessonType) /\ Len(a) = Len(S.lessons)
  BY <1>1, <1>2, Listed
<1>5. /\ T \in SchoolType /\ T.rooms = S.rooms /\ T.seat = S.seat /\ T.card = S.card
      /\ T.drawn = S.drawn /\ T.lessons = a
  BY <1>3, <1>4 DEF SchoolType
<1> QED BY <1>2, <1>4, <1>5

(* The students of a lesson that is not over.                              *)
LEMMA Class ==
  ASSUME NEW S, SchoolOK(S), NEW l \in 1..Len(S.lessons), ~Over(S.lessons[l])
  PROVE  /\ \A q \in Members(S.lessons[l]) :
              q \in Chara /\ S.seat[q] = l /\ q \in online /\ S.drawn[q] = Desks(S.lessons[l])
         /\ \A q \in Chara : S.seat[q] = l => q \in Members(S.lessons[l])
<1>0. S \in SchoolType /\ Len(S.lessons) \in Nat /\ l # Nobody
  BY OfSchool DEF SchoolOK, Nobody
<1>1. LessonFits(S, l) /\ Members(S.lessons[l]) \subseteq Chara
  BY <1>0, OfSchool, OfLesson DEF SchoolOK
<1>2. \A q \in Chara : SeatFits(S, q)
  BY DEF SchoolOK
<1>3. \A q \in Chara : S.seat[q] = l =>
        q \in Members(S.lessons[l]) /\ q \in online /\ S.drawn[q] = Desks(S.lessons[l])
  BY <1>0, <1>2 DEF SeatFits
<1>4. \A q \in Members(S.lessons[l]) : q \in Chara /\ S.seat[q] = l
  BY <1>1 DEF LessonFits
<1> QED BY <1>3, <1>4

Continues(K, L) ==
  /\ LessonOK(K) /\ InTime(K) /\ Members(K) = Members(L) /\ K.room = L.room
  /\ Desks(K) = Desks(L)

LEMMA ReplacedIsOK ==
  ASSUME NEW S, SchoolOK(S), NEW l \in 1..Len(S.lessons), Live(S.lessons[l]),
         NEW K, Continues(K, S.lessons[l]), ~Over(K), NEW T, T = Replaced(S, l, K)
  PROVE  SchoolOK(T)
<1>0. S \in SchoolType /\ Len(S.lessons) \in Nat /\ l # Nobody /\ K \in LessonType
  BY OfSchool DEF SchoolOK, Nobody, Continues, LessonOK
<1>1. /\ T \in SchoolType /\ T.rooms = S.rooms /\ T.seat = S.seat
      /\ T.drawn = S.drawn /\ T.lessons[l] = K /\ Len(T.lessons) = Len(S.lessons)
      /\ \A i \in 1..Len(S.lessons) : i # l => T.lessons[i] = S.lessons[i]
  BY <1>0, ReplacedFields
<1>2. /\ LessonOK(K) /\ InTime(K) /\ Members(K) = Members(S.lessons[l])
      /\ K.room = S.lessons[l].room /\ Desks(K) = Desks(S.lessons[l]) /\ Live(K)
  BY DEF Continues, Live
<1>3. LessonMoves(S, T, l)
  BY <1>0, <1>1, <1>2 DEF LessonMoves
<1>4. SeatsMove(S, T, l)
  <2>1. \A q \in Members(K) : S.seat[q] = l
    BY <1>2, Class DEF Live
  <2>2. ASSUME NEW q \in Chara, S.seat[q] = l
        PROVE  SitsIn(T, l, q)
    <3>1. SeatFits(S, q)
      BY DEF SchoolOK
    <3>2. /\ q \in online /\ q \in Members(S.lessons[l]) /\ S.rooms[place[q]] = l
          /\ S.drawn[q] = Desks(S.lessons[l])
      BY <1>0, <2>2, <3>1 DEF SeatFits
    <3> QED BY <1>1, <1>2, <3>2 DEF SitsIn
  <2> QED BY <1>1, <2>1, <2>2 DEF SeatsMove
<1>5. RoomsMove(S, T, l)
  <2>1. ASSUME NEW r \in Place, S.rooms[r] = l
        PROVE  K.room = r
    <3>1. RoomFits(S, r)
      BY DEF SchoolOK
    <3> QED BY <1>0, <1>2, <2>1, <3>1 DEF RoomFits
  <2> QED BY <1>1, <1>2, <2>1 DEF RoomsMove
<1> QED BY <1>1, <1>3, <1>4, <1>5, OneLesson

FiledSeats(S, leaving) == [q \in Chara |-> IF q \in leaving THEN Nobody ELSE S.seat[q]]
FiledDrawn(S, leaving) == [q \in Chara |-> IF q \in leaving THEN {} ELSE S.drawn[q]]
FiledCards(S, leaving, L) ==
  [q \in Chara |-> IF q \in leaving
     THEN [attended |-> S.card[q].attended + 1, asked |-> S.card[q].asked + L.students[q].asked,
           right |-> S.card[q].right + L.students[q].right]
     ELSE S.card[q]]
ClosedRooms(S, l) == [r \in Place |-> IF S.rooms[r] = l THEN Nobody ELSE S.rooms[r]]

IsFiled(F, S, L, leaving, l) ==
  /\ F \in SchoolType /\ F.lessons = S.lessons /\ F.rooms = ClosedRooms(S, l)
  /\ F.seat = FiledSeats(S, leaving) /\ F.drawn = FiledDrawn(S, leaving)
  /\ F.card = FiledCards(S, leaving, L)

LEMMA FiledFields ==
  ASSUME NEW S \in SchoolType, NEW l \in 1..Len(S.lessons), NEW F, F = Filed(S, l),
         NEW leaving, leaving = Members(S.lessons[l]) \intersect online
  PROVE  IsFiled(F, S, S.lessons[l], leaving, l)
<1> DEFINE rooms == ClosedRooms(S, l)
           seat == FiledSeats(S, leaving)
           drawn == FiledDrawn(S, leaving)
           card == FiledCards(S, leaving, S.lessons[l])
           G == [S EXCEPT !.card = card, !.seat = seat, !.drawn = drawn]
<1>0. /\ S.rooms \in [Place -> Nat] /\ S.seat \in [Chara -> Nat] /\ S.card \in [Chara -> Card]
      /\ S.drawn \in [Chara -> SUBSET (Chara \X Nat)] /\ S.lessons[l] \in LessonType
  BY OfSchool
<1>1. F = Close(G, l)
  BY Zenon DEF Filed, FiledSeats, FiledDrawn, FiledCards
<1>2. rooms \in [Place -> Nat]
  BY <1>0 DEF ClosedRooms, Nobody
<1>3. seat \in [Chara -> Nat] /\ drawn \in [Chara -> SUBSET (Chara \X Nat)]
  BY <1>0 DEF FiledSeats, FiledDrawn, Nobody
<1>4. card \in [Chara -> Card]
  <2>1. ASSUME NEW q \in leaving
        PROVE  [attended |-> S.card[q].attended + 1, asked |-> S.card[q].asked + S.lessons[l].students[q].asked,
                right |-> S.card[q].right + S.lessons[l].students[q].right] \in Card
    <3>1. q \in Chara /\ S.lessons[l].students[q].asked \in Nat /\ S.lessons[l].students[q].right \in Nat
      BY <1>0, OfStudent
    <3>2. S.card[q].attended \in Nat /\ S.card[q].asked \in Nat /\ S.card[q].right \in Nat
      BY <1>0, <3>1 DEF Card
    <3>3. /\ S.card[q].attended + 1 \in Nat
          /\ S.card[q].asked + S.lessons[l].students[q].asked \in Nat
          /\ S.card[q].right + S.lessons[l].students[q].right \in Nat
      <4>1. \A m, n \in Nat : m + n \in Nat
        OBVIOUS
      <4> QED BY <3>1, <3>2, <4>1
    <3> QED BY <3>3 DEF Card
  <2> QED BY <1>0, <2>1 DEF FiledCards
<1>5. G.rooms = S.rooms
  <2> HIDE DEF card, seat, drawn
  <2> QED BY DEF SchoolType
<1>6. Close(G, l) = [G EXCEPT !.rooms = rooms]
  <2> HIDE DEF G
  <2> QED BY <1>5 DEF Close, ClosedRooms
<1> HIDE DEF rooms, seat, drawn, card
<1>7. /\ F \in SchoolType /\ F.lessons = S.lessons /\ F.rooms = rooms
      /\ F.seat = seat /\ F.drawn = drawn /\ F.card = card
  <2>1. /\ G \in SchoolType /\ G.lessons = S.lessons /\ G.seat = seat /\ G.drawn = drawn
        /\ G.card = card
    BY <1>3, <1>4 DEF SchoolType
  <2> HIDE DEF G
  <2> QED BY <1>1, <1>2, <1>6, <2>1 DEF SchoolType
<1> QED BY <1>7 DEF rooms, seat, drawn, card, IsFiled
LEMMA FiledIsOK ==
  ASSUME place \in [Chara -> Place], NEW S, SchoolOK(S), NEW l \in 1..Len(S.lessons), Live(S.lessons[l]),
         NEW K, Continues(K, S.lessons[l]), Over(K), NEW T, T = Replaced(S, l, K),
         NEW F, F = Filed(T, l)
  PROVE  /\ SchoolOK(F) /\ \A q \in Chara : F.seat[q] \in {S.seat[q], Nobody}
         /\ \A q \in Chara : Spent(F, q) = Spent(S, q)
<1> DEFINE leaving == Members(K) \intersect online
<1>0. S \in SchoolType /\ Len(S.lessons) \in Nat /\ l # Nobody /\ K \in LessonType
  BY OfSchool DEF SchoolOK, Nobody, Continues, LessonOK
<1>1. /\ T \in SchoolType /\ T.rooms = S.rooms /\ T.seat = S.seat /\ T.card = S.card
      /\ T.drawn = S.drawn /\ T.lessons[l] = K /\ Len(T.lessons) = Len(S.lessons)
      /\ \A i \in 1..Len(S.lessons) : i # l => T.lessons[i] = S.lessons[i]
  BY <1>0, ReplacedFields
<1>2. /\ LessonOK(K) /\ InTime(K) /\ Members(K) = Members(S.lessons[l]) /\ ~Over(S.lessons[l])
  BY DEF Continues, Live
<1>3. /\ leaving = Members(K) /\ leaving \subseteq Chara
      /\ \A q \in Chara : q \in leaving <=> S.seat[q] = l
  <2>1. \A q \in Members(K) : q \in Chara /\ S.seat[q] = l /\ q \in online
    BY <1>2, Class
  <2>2. \A q \in Chara : S.seat[q] = l => q \in Members(K)
    BY <1>2, Class
  <2> QED BY <2>1, <2>2
<1>4. /\ F \in SchoolType /\ F.lessons = T.lessons /\ F.rooms = ClosedRooms(T, l)
      /\ F.seat = FiledSeats(T, leaving) /\ F.drawn = FiledDrawn(T, leaving)
      /\ F.card = FiledCards(T, leaving, K)
  <2>1. l \in 1..Len(T.lessons)
    BY <1>1
  <2>2. leaving = Members(T.lessons[l]) \intersect online
    BY <1>1
  <2>3. T \in SchoolType /\ T.lessons[l] = K
    BY <1>1
  <2> HIDE DEF leaving
  <2>4. IsFiled(F, T, T.lessons[l], leaving, l)
    BY <2>1, <2>2, <2>3, FiledFields
  <2> QED BY <2>3, <2>4 DEF IsFiled
<1> HIDE DEF leaving
<1>5. \A q \in Chara : /\ S.seat[q] = l => F.seat[q] = Nobody
                       /\ S.seat[q] # l => F.seat[q] = S.seat[q] /\ F.drawn[q] = S.drawn[q]
  <2>1. ASSUME NEW q \in Chara
        PROVE  /\ F.seat[q] = IF q \in leaving THEN Nobody ELSE S.seat[q]
               /\ F.drawn[q] = IF q \in leaving THEN {} ELSE S.drawn[q]
    BY <1>1, <1>4 DEF FiledSeats, FiledDrawn
  <2>2. ASSUME NEW q \in Chara, S.seat[q] = l
        PROVE  F.seat[q] = Nobody
    BY <1>3, <2>1, <2>2
  <2>3. ASSUME NEW q \in Chara, S.seat[q] # l
        PROVE  F.seat[q] = S.seat[q] /\ F.drawn[q] = S.drawn[q]
    BY <1>3, <2>1, <2>3
  <2> QED BY <2>2, <2>3
<1>6. \A r \in Place : /\ S.rooms[r] = l => F.rooms[r] = Nobody
                       /\ S.rooms[r] # l => F.rooms[r] = S.rooms[r]
  BY <1>1, <1>4 DEF ClosedRooms
<1>7. LessonMoves(S, F, l)
  BY <1>0, <1>1, <1>2, <1>4 DEF LessonMoves
<1>8. SeatsMove(S, F, l)
  <2>1. ASSUME NEW q \in Chara, F.seat[q] # Nobody, F.seat[q] # l
        PROVE  F.seat[q] = S.seat[q] /\ F.drawn[q] = S.drawn[q] /\ F.rooms[place[q]] = S.rooms[place[q]]
    <3>1. S.seat[q] # l /\ S.seat[q] # Nobody /\ F.seat[q] = S.seat[q] /\ F.drawn[q] = S.drawn[q]
      BY <1>5, <2>1
    <3>2. SeatFits(S, q)
      BY DEF SchoolOK
    <3>3. S.rooms[place[q]] # l /\ S.rooms[place[q]] # Nobody
      BY <3>1, <3>2 DEF SeatFits
    <3>4. F.rooms[place[q]] = S.rooms[place[q]]
      <4>1. place[q] \in Place
        OBVIOUS
      <4> QED BY <1>6, <3>3, <4>1
    <3> QED BY <3>1, <3>4
  <2>2. F.lessons[l] = K
    BY <1>1, <1>4
  <2> QED BY <1>0, <1>5, <2>1, <2>2 DEF SeatsMove
<1>9. RoomsMove(S, F, l)
  BY <1>0, <1>6 DEF RoomsMove
<1>10. SchoolOK(F)
  BY <1>4, <1>7, <1>8, <1>9, OneLesson
<1>11. ASSUME NEW q \in Chara
       PROVE  Spent(F, q) = Spent(S, q)
  <2>0. S.card[q].attended \in Nat
    BY <1>0, OfSchool DEF Card
  <2>1. CASE S.seat[q] = l
    <3>1. F.card[q].attended = S.card[q].attended + 1
      BY <1>1, <1>3, <1>4, <2>1 DEF FiledCards
    <3> QED BY <1>0, <1>5, <2>0, <2>1, <3>1 DEF Spent
  <2>2. CASE S.seat[q] # l
    <3>1. F.card[q] = S.card[q]
      BY <1>1, <1>3, <1>4, <2>2 DEF FiledCards
    <3> QED BY <1>5, <2>2, <3>1 DEF Spent
  <2> QED BY <2>1, <2>2
<1> QED BY <1>5, <1>10, <1>11

LEMMA DrivenIsOK ==
  ASSUME now \in Nat, place \in [Chara -> Place], NEW S, SchoolOK(S), NEW p \in Chara,
         NEW D, D = Driven(S, p)
  PROVE  /\ SchoolOK(D) /\ \A q \in Chara : D.seat[q] \in {S.seat[q], Nobody}
         /\ \A q \in Chara : Spent(D, q) = Spent(S, q)
<1> DEFINE l == S.seat[p]
           K == Pumped(S.lessons[l])
           T == Replaced(S, l, K)
<1>0. S \in SchoolType
  BY DEF SchoolOK
<1>1. CASE l = Nobody
  <2>1. D = S
    BY <1>1 DEF Driven
  <2> QED BY <2>1
<1>2. CASE l # Nobody
  <2>1. SeatFits(S, p)
    BY DEF SchoolOK
  <2>2. l \in 1..Len(S.lessons) /\ Live(S.lessons[l])
    BY <1>2, <2>1 DEF SeatFits, Live
  <2>3. LessonFits(S, l)
    BY <2>2 DEF SchoolOK
  <2>4. Continues(K, S.lessons[l]) /\ K \in LessonType
    <3> DEFINE L == S.lessons[l]
    <3>1. LessonOK(L) /\ InTime(L) /\ Live(L)
      BY <2>2, <2>3 DEF LessonFits
    <3> HIDE DEF L
    <3>2. /\ LessonOK(Pumped(L)) /\ InTime(Pumped(L)) /\ Members(Pumped(L)) = Members(L)
          /\ Pumped(L).room = L.room /\ Desks(Pumped(L)) = Desks(L)
      BY <3>1, PumpedIsOK
    <3>3. Continues(Pumped(L), L) /\ Pumped(L) \in LessonType
      BY <3>2 DEF Continues, LessonOK
    <3> QED BY <3>3 DEF L
  <2>5. T.lessons[l] = K /\ T.seat = S.seat /\ T.card = S.card
    BY <1>0, <2>2, <2>4, ReplacedFields
  <2>6. D = IF Over(T.lessons[l]) THEN Filed(T, l) ELSE T
    BY Zenon, <1>2 DEF Driven, Replaced
  <2> HIDE DEF l, K, T
  <2>7. CASE Over(K)
    <3>1. D = Filed(T, l)
      BY <2>5, <2>6, <2>7
    <3>2. T = Replaced(S, l, K)
      BY DEF T
    <3> QED BY <2>2, <2>4, <2>7, <3>1, <3>2, FiledIsOK
  <2>8. CASE ~Over(K)
    <3>1. D = T
      BY <2>5, <2>6, <2>8
    <3>2. T = Replaced(S, l, K)
      BY DEF T
    <3>3. SchoolOK(D)
      BY <2>2, <2>4, <2>8, <3>1, <3>2, ReplacedIsOK
    <3> QED BY <2>5, <3>1, <3>3 DEF Spent
  <2> QED BY <2>7, <2>8
<1> QED BY <1>1, <1>2
(* take_answer: one report, for the question that is out.                  *)
LEMMA AnsweredIsOK ==
  ASSUME NEW L, LessonOK(L), InTime(L), L.phase = "asking", NEW p \in Members(L),
         NEW K, K = [L EXCEPT !.students[p].reported = L.no]
  PROVE  Continues(K, L) /\ ~Over(K) /\ K \in LessonType
<1> DEFINE s == [L.students[p] EXCEPT !.reported = L.no]
           f == [L.students EXCEPT ![p] = s]
<1>0. L \in LessonType /\ p \in Chara
  BY OfStudent DEF LessonOK
<1>1. /\ Members(L) \in SUBSET Chara /\ L.students \in [Members(L) -> Student] /\ L.no \in Nat
  BY <1>0, OfLesson
<1>2. K = [L EXCEPT !.students = f]
  OBVIOUS
<1>3. /\ s \in Student /\ s.reported = L.no /\ s.desk = L.students[p].desk
      /\ s.came = L.students[p].came /\ s.asked = L.students[p].asked /\ s.right = L.students[p].right
  <2>1. L.students[p] \in Student
    BY <1>1
  <2> QED BY <1>1, <2>1 DEF Student
<1> HIDE DEF s
<1>4. /\ f \in [Members(L) -> Student] /\ DOMAIN f = Members(L) /\ f[p] = s
      /\ \A q \in Members(L) : q # p => f[q] = L.students[q]
  BY <1>1, <1>3
<1> HIDE DEF f
<1>5. f \in UNION {[R -> Student] : R \in SUBSET Chara}
  BY <1>1, <1>4, StudentsType
<1>6. K \in LessonType
  BY <1>0, <1>2, <1>5 DEF LessonType
<1>7. /\ K.students = f /\ K.desks = L.desks /\ K.room = L.room /\ K.subject = L.subject
      /\ K.began = L.began /\ K.due = L.due /\ K.no = L.no /\ K.phase = L.phase
  BY <1>0, <1>2 DEF LessonType
<1>8. Members(K) = Members(L)
  BY <1>4, <1>7 DEF Members
<1>9. \A q \in Members(L) : /\ K.students[q].desk = L.students[q].desk
                            /\ K.students[q].came = L.students[q].came
                            /\ K.students[q].asked = L.students[q].asked
                            /\ K.students[q].right = L.students[q].right
                            /\ K.students[q].reported \in {L.students[q].reported, L.no}
  <2>1. ASSUME NEW q \in Members(L), q = p
        PROVE  K.students[q] = s
    BY <1>4, <1>7, <2>1
  <2>2. ASSUME NEW q \in Members(L), q # p
        PROVE  K.students[q] = L.students[q]
    BY <1>4, <1>7, <2>2
  <2> QED BY <1>3, <2>1, <2>2
<1>10. LessonOK(K)
  <2>1. Done(K) = Done(L)
    BY <1>7 DEF Done
  <2>2. ASSUME NEW q \in Members(K)
        PROVE  /\ K.students[q].desk < K.desks
               /\ K.students[q].reported \in {NoAnswer, K.no}
               /\ K.students[q].asked + Missed(K.students[q].came) = Done(K)
               /\ K.students[q].right <= K.students[q].asked
    <3>1. /\ L.students[q].desk < L.desks
          /\ L.students[q].reported \in {NoAnswer, L.no}
          /\ L.students[q].asked + Missed(L.students[q].came) = Done(L)
          /\ L.students[q].right <= L.students[q].asked
      BY <1>8, <2>2 DEF LessonOK
    <3> QED BY <1>7, <1>8, <1>9, <2>1, <2>2, <3>1
  <2>3. \A q, r \in Members(K) : K.students[q].desk = K.students[r].desk => q = r
    BY <1>8, <1>9 DEF LessonOK
  <2> QED BY <1>6, <1>7, <2>2, <2>3 DEF LessonOK
<1>11. InTime(K)
  BY <1>7, <1>8 DEF InTime, Live, Over, Rest
<1>12. Desks(K) = Desks(L)
  BY <1>8, <1>9 DEF Desks
<1>13. ~Over(K)
  BY <1>7 DEF Over
<1> QED BY <1>6, <1>7, <1>8, <1>10, <1>11, <1>12, <1>13 DEF Continues

-----------------------------------------------------------------------------
(* _lesson_retire: the seat, and with the last of them the room.           *)
GoneDrawn(S, p, l) ==
  [q \in Chara |-> IF q = p THEN {}
     ELSE IF q \in Members(S.lessons[l]) \intersect online
       THEN {row \in S.drawn[q] : row[1] # p} ELSE S.drawn[q]]

NobodyFound(S, p) ==
  \A r \in Place : ~(S.rooms[r] # Nobody /\ p \in Members(S.lessons[S.rooms[r]]))

HasLeft(D, S, p, l) ==
  /\ D \in SchoolType /\ D.card = S.card /\ D.seat = [S.seat EXCEPT ![p] = Nobody]
  /\ D.drawn = GoneDrawn(S, p, l)
  /\ D.lessons[l] = Left(S.lessons[l], p) /\ Len(D.lessons) = Len(S.lessons)
  /\ \A i \in 1..Len(S.lessons) : i # l => D.lessons[i] = S.lessons[i]
  /\ D.rooms = IF Members(Left(S.lessons[l], p)) = {} THEN ClosedRooms(S, l) ELSE S.rooms
HasNoSeat(D, S, p) ==
  /\ D \in SchoolType /\ D.card = S.card /\ D.seat = [S.seat EXCEPT ![p] = Nobody]
  /\ D.lessons = S.lessons /\ D.rooms = S.rooms /\ D.drawn = [S.drawn EXCEPT ![p] = {}]
OnlyThere(S, p, r) ==
  \A t \in Place : S.rooms[t] # Nobody /\ p \in Members(S.lessons[S.rooms[t]]) => t = r

LEMMA RetiredSeated ==
  ASSUME NEW S \in SchoolType, NEW p \in Chara, NEW r \in Place, NEW l, l = S.rooms[r],
         l \in 1..Len(S.lessons), l # Nobody, p \in Members(S.lessons[l]),
         OnlyThere(S, p, r),
         LessonOK(S.lessons[l]),
         NEW D, D = Retired(S, p)
  PROVE  HasLeft(D, S, p, l)
<1> DEFINE found == {t \in Place : /\ S.rooms[t] # Nobody
                                   /\ p \in Members(S.lessons[S.rooms[t]])}
           K == Left(S.lessons[l], p)
           R == Replaced(S, l, K)
           around == [q \in Chara |->
                        IF q \in Members(S.lessons[l]) \intersect online
                          THEN {row \in S.drawn[q] : row[1] # p} ELSE S.drawn[q]]
           T == [S EXCEPT !.lessons[l] = Left(@, p), !.drawn = around]
           U == IF Members(T.lessons[l]) = {} THEN Close(T, l) ELSE T
<1>1. found = {r}
  BY DEF OnlyThere
<1>2. (CHOOSE t \in found : TRUE) = r
  BY <1>1
<1>3. D = [U EXCEPT !.seat[p] = Nobody, !.drawn[p] = {}]
  <2>1. found # {}
    BY <1>1
  <2> QED BY Zenon, <1>2, <2>1 DEF Retired
<1>4. K \in LessonType
  BY LeftIsOK DEF LessonOK
<1>5. /\ R \in SchoolType /\ R.rooms = S.rooms /\ R.seat = S.seat /\ R.card = S.card
      /\ R.drawn = S.drawn /\ R.lessons[l] = K /\ Len(R.lessons) = Len(S.lessons)
      /\ \A i \in 1..Len(S.lessons) : i # l => R.lessons[i] = S.lessons[i]
  BY <1>4, ReplacedFields
<1>6. T = [R EXCEPT !.drawn = around]
  BY Zenon DEF Replaced
<1> HIDE DEF R, K, found
<1>7. around \in [Chara -> SUBSET (Chara \X Nat)]
  <2>1. \A q \in Chara : S.drawn[q] \in SUBSET (Chara \X Nat)
    BY OfSchool
  <2> QED BY <2>1
<1>8. /\ T \in SchoolType /\ T.rooms = S.rooms /\ T.seat = S.seat /\ T.card = S.card
      /\ T.drawn = around /\ T.lessons = R.lessons
  <2> HIDE DEF around, T
  <2> QED BY <1>5, <1>6, <1>7 DEF SchoolType
<1> DEFINE rooms == IF Members(K) = {} THEN ClosedRooms(S, l) ELSE S.rooms
<1>9. /\ U \in SchoolType /\ U.rooms = rooms /\ U.seat = S.seat /\ U.card = S.card
      /\ U.drawn = around /\ U.lessons = R.lessons
  <2> HIDE DEF around, T
  <2>1. T.lessons[l] = K
    BY <1>5, <1>8
  <2>2. CASE Members(K) = {}
    <3>1. U = [T EXCEPT !.rooms = ClosedRooms(S, l)]
      BY <1>8, <2>1, <2>2 DEF Close, ClosedRooms
    <3>2. ClosedRooms(S, l) \in [Place -> Nat]
      BY OfSchool DEF ClosedRooms, Nobody
    <3> QED BY <1>8, <2>2, <3>1, <3>2 DEF SchoolType
  <2>3. CASE Members(K) # {}
    BY <1>8, <2>1, <2>3
  <2> QED BY <2>2, <2>3
<1> DEFINE seat == [S.seat EXCEPT ![p] = Nobody]
           drawn == [around EXCEPT ![p] = {}]
<1>10. D = [U EXCEPT !.seat = seat, !.drawn = drawn]
  <2> HIDE DEF U, around, T
  <2> QED BY Zenon, <1>3, <1>9
<1>11. seat \in [Chara -> Nat] /\ drawn \in [Chara -> SUBSET (Chara \X Nat)]
  <2>1. S.seat \in [Chara -> Nat]
    BY OfSchool
  <2> HIDE DEF around
  <2> QED BY <1>7, <2>1 DEF Nobody
<1>12. drawn = GoneDrawn(S, p, l)
  BY DEF GoneDrawn
<1> HIDE DEF U, seat, drawn, rooms, T, around
<1>13. /\ D \in SchoolType /\ D.card = S.card /\ D.seat = seat /\ D.drawn = drawn
       /\ D.lessons = R.lessons /\ D.rooms = rooms
  BY <1>9, <1>10, <1>11 DEF SchoolType
<1> QED BY <1>5, <1>12, <1>13 DEF seat, rooms, K, HasLeft

LEMMA RetiredStanding ==
  ASSUME NEW S \in SchoolType, NEW p \in Chara, NobodyFound(S, p), NEW D, D = Retired(S, p)
  PROVE  HasNoSeat(D, S, p)
<1> DEFINE seat == [S.seat EXCEPT ![p] = Nobody]
           drawn == [S.drawn EXCEPT ![p] = {}]
<1>1. {r \in Place : S.rooms[r] # Nobody /\ p \in Members(S.lessons[S.rooms[r]])} = {}
  BY DEF NobodyFound
<1>2. D = [S EXCEPT !.seat = seat, !.drawn = drawn]
  BY Zenon, <1>1 DEF Retired
<1>3. seat \in [Chara -> Nat] /\ drawn \in [Chara -> SUBSET (Chara \X Nat)]
  <2>1. S.seat \in [Chara -> Nat] /\ S.drawn \in [Chara -> SUBSET (Chara \X Nat)]
    BY OfSchool
  <2> QED BY <2>1 DEF Nobody
<1> HIDE DEF seat, drawn
<1>4. /\ D \in SchoolType /\ D.card = S.card /\ D.seat = seat
      /\ D.lessons = S.lessons /\ D.rooms = S.rooms /\ D.drawn = drawn
  BY <1>2, <1>3 DEF SchoolType
<1> QED BY <1>4 DEF seat, drawn, HasNoSeat
LEMMA RetiredIsOK ==
  ASSUME place \in [Chara -> Place], NEW S, SchoolOK(S), NEW p \in Chara, NEW D, D = Retired(S, p)
  PROVE  /\ SchoolOK(D) /\ D.seat[p] = Nobody /\ \A q \in Chara \ {p} : D.seat[q] = S.seat[q]
         /\ \A q \in Chara : Spent(D, q) <= Spent(S, q)
<1>0. /\ S \in SchoolType /\ S.seat \in [Chara -> Nat] /\ place[p] \in Place
      /\ S.drawn \in [Chara -> SUBSET (Chara \X Nat)] /\ Len(S.lessons) \in Nat
      /\ \A q \in Chara : S.card[q].attended \in Nat
  BY OfSchool DEF SchoolOK, Card
<1>1. ASSUME NEW r \in Place, S.rooms[r] # Nobody, p \in Members(S.lessons[S.rooms[r]])
      PROVE  S.seat[p] = S.rooms[r] /\ S.lessons[S.rooms[r]].room = r
  <2>1. /\ S.rooms[r] \in 1..Len(S.lessons) /\ S.lessons[S.rooms[r]].room = r
        /\ ~Over(S.lessons[S.rooms[r]])
    BY <1>1 DEF SchoolOK, RoomFits, Live
  <2> QED BY <1>1, <2>1, Class
<1>2. CASE S.seat[p] = Nobody
  <2>1. NobodyFound(S, p)
    BY <1>1, <1>2 DEF NobodyFound
  <2>2. /\ D \in SchoolType /\ D.card = S.card /\ D.seat = [S.seat EXCEPT ![p] = Nobody]
        /\ D.lessons = S.lessons /\ D.rooms = S.rooms /\ D.drawn = [S.drawn EXCEPT ![p] = {}]
    <3>1. HasNoSeat(D, S, p)
      BY <1>0, <2>1, RetiredStanding
    <3> QED BY <3>1 DEF HasNoSeat
  <2>3. \A q \in Chara : D.seat[q] = S.seat[q] /\ (q # p => D.drawn[q] = S.drawn[q])
    BY <1>0, <1>2, <2>2
  <2>4. ASSUME NEW l \in 1..Len(D.lessons)
        PROVE  LessonFits(D, l)
    <3>1. LessonFits(S, l) /\ Members(S.lessons[l]) \subseteq Chara
      BY <1>0, <2>2, OfSchool, OfLesson DEF SchoolOK
    <3> QED BY <2>2, <2>3, <3>1 DEF LessonFits
  <2>5. ASSUME NEW r \in Place
        PROVE  RoomFits(D, r)
    BY <2>2 DEF SchoolOK, RoomFits
  <2>6. ASSUME NEW q \in Chara
        PROVE  SeatFits(D, q)
    <3>1. SeatFits(S, q)
      BY DEF SchoolOK
    <3>2. CASE q = p
      BY <1>2, <2>3, <3>2 DEF SeatFits
    <3>3. CASE q # p
      BY <2>2, <2>3, <3>1, <3>3 DEF SeatFits
    <3> QED BY <3>2, <3>3
  <2>7. SchoolOK(D)
    BY <2>2, <2>4, <2>5, <2>6 DEF SchoolOK
  <2>8. \A q \in Chara : Spent(D, q) = Spent(S, q)
    BY <2>2, <2>3 DEF Spent
  <2>9. ASSUME NEW q \in Chara
        PROVE  Spent(S, q) \in Nat
    <3>1. S.card[q].attended \in Nat
      BY <1>0
    <3> QED BY <3>1 DEF Spent
  <2> QED BY <1>2, <2>3, <2>7, <2>8, <2>9
<1>3. CASE S.seat[p] # Nobody
  <2> DEFINE l == S.seat[p]
             L == S.lessons[l]
             K == Left(L, p)
  <2>1. SeatFits(S, p)
    BY DEF SchoolOK
  <2>2. /\ l \in 1..Len(S.lessons) /\ l # Nobody /\ p \in Members(L) /\ ~Over(L)
        /\ S.rooms[place[p]] = l
    BY <1>3, <2>1 DEF SeatFits
  <2>3. /\ LessonOK(L) /\ InTime(L) /\ Members(L) \subseteq Chara /\ L \in LessonType
    BY <1>0, <2>2, OfSchool, OfLesson DEF SchoolOK, LessonFits
  <2>4. \A t \in Place : S.rooms[t] # Nobody /\ p \in Members(S.lessons[S.rooms[t]]) => t = place[p]
    <3>1. L.room = place[p]
      BY <1>0, <1>1, <2>2
    <3> QED BY <1>1, <3>1
  <2>5. /\ \A q \in Members(L) : S.seat[q] = l /\ q \in online /\ S.drawn[q] = Desks(L)
        /\ \A q \in Chara : S.seat[q] = l => q \in Members(L)
    BY <2>2, Class
  <2>6. /\ D \in SchoolType /\ D.card = S.card /\ D.seat = [S.seat EXCEPT ![p] = Nobody]
        /\ D.drawn = GoneDrawn(S, p, l)
        /\ D.lessons[l] = K /\ Len(D.lessons) = Len(S.lessons)
        /\ \A i \in 1..Len(S.lessons) : i # l => D.lessons[i] = S.lessons[i]
        /\ D.rooms = IF Members(K) = {} THEN ClosedRooms(S, l) ELSE S.rooms
    <3>1. l = S.rooms[place[p]]
      BY <2>2
    <3>2. OnlyThere(S, p, place[p])
      BY <2>4 DEF OnlyThere
    <3>3. HasLeft(D, S, p, l)
      <4> HIDE DEF l
      <4> QED BY <1>0, <2>2, <2>3, <3>1, <3>2, RetiredSeated DEF L
    <3> QED BY <3>3 DEF HasLeft
  <2>7. /\ LessonOK(K) /\ Members(K) = Members(L) \ {p} /\ K.room = L.room /\ K.subject = L.subject
        /\ K.began = L.began /\ K.due = L.due /\ K.no = L.no /\ K.phase = L.phase
        /\ \A q \in Members(L) \ {p} : K.students[q] = L.students[q]
    BY <2>3, LeftIsOK
  <2> HIDE DEF l, L, K
  <2>8. InTime(K) /\ ~Over(K)
    BY <2>2, <2>3, <2>7 DEF InTime, Live, Over, Rest
  <2>9. /\ D.seat[p] = Nobody /\ \A q \in Chara \ {p} : D.seat[q] = S.seat[q]
    BY <1>0, <2>6
  <2>10. \A q \in Chara \ {p} : /\ q \in Members(L) => D.drawn[q] = Desks(K)
                                /\ q \notin Members(L) => D.drawn[q] = S.drawn[q]
    <3>1. ASSUME NEW q \in Chara, q # p, q \in Members(L)
          PROVE  D.drawn[q] = Desks(K)
      <4>1. D.drawn[q] = {row \in Desks(L) : row[1] # p}
        BY <2>5, <2>6, <3>1 DEF GoneDrawn, L
      <4>2. {row \in Desks(L) : row[1] # p} = Desks(K)
        BY <2>7 DEF Desks
      <4> QED BY <4>1, <4>2
    <3>2. ASSUME NEW q \in Chara, q # p, q \notin Members(L)
          PROVE  D.drawn[q] = S.drawn[q]
      BY <2>6, <3>2 DEF GoneDrawn, L
    <3> QED BY <3>1, <3>2
  <2>11. LessonMoves(S, D, l)
    BY <1>0, <2>2, <2>6, <2>7, <2>8 DEF LessonMoves
  <2>12. \A r \in Place : /\ D.rooms[r] # Nobody => D.rooms[r] = S.rooms[r]
                          /\ S.rooms[r] # l => D.rooms[r] = S.rooms[r]
                          /\ Members(K) = {} => D.rooms[r] # l
                          /\ Members(K) # {} => D.rooms[r] = S.rooms[r]
    BY <2>2, <2>6 DEF ClosedRooms
  <2>13. SeatsMove(S, D, l)
    <3>1. \A q \in Members(K) : D.seat[q] = l
      BY <2>3, <2>5, <2>7, <2>9
    <3>2. ASSUME NEW q \in Chara, D.seat[q] = l
          PROVE  SitsIn(D, l, q)
      <4>1. q # p /\ S.seat[q] = l
        BY <2>2, <2>9, <3>2
      <4>2. q \in Members(L) /\ q \in Members(K) /\ q \in online /\ D.drawn[q] = Desks(K)
        BY <2>5, <2>7, <2>10, <4>1
      <4>3. S.rooms[place[q]] = l /\ place[q] \in Place
        <5>1. SeatFits(S, q)
          BY DEF SchoolOK
        <5> QED BY <2>2, <4>1, <5>1 DEF SeatFits
      <4>4. D.rooms[place[q]] = l
        BY <2>12, <4>2, <4>3
      <4> QED BY <2>6, <2>8, <4>2, <4>4 DEF SitsIn
    <3>3. ASSUME NEW q \in Chara, D.seat[q] # Nobody, D.seat[q] # l
          PROVE  D.seat[q] = S.seat[q] /\ D.drawn[q] = S.drawn[q] /\ D.rooms[place[q]] = S.rooms[place[q]]
      <4>1. q # p /\ D.seat[q] = S.seat[q] /\ S.seat[q] # l /\ S.seat[q] # Nobody
        BY <2>9, <3>3
      <4>2. q \notin Members(L)
        BY <2>5, <4>1
      <4>3. S.rooms[place[q]] # l /\ place[q] \in Place
        <5>1. SeatFits(S, q)
          BY DEF SchoolOK
        <5> QED BY <4>1, <5>1 DEF SeatFits
      <4> QED BY <2>10, <2>12, <4>1, <4>2, <4>3
    <3>4. \A q \in Chara : S.seat[q] # Nobody /\ S.seat[q] # l => D.seat[q] = S.seat[q]
      BY <2>9 DEF l
    <3>5. D.lessons[l] = K
      BY <2>6
    <3> QED BY <3>1, <3>2, <3>3, <3>4, <3>5 DEF SeatsMove
  <2>14. RoomsMove(S, D, l)
    <3>1. ASSUME NEW r \in Place, D.rooms[r] = l
          PROVE  K.room = r /\ Live(K)
      <4>1. S.rooms[r] = l /\ Members(K) # {}
        BY <2>2, <2>12, <3>1
      <4>2. RoomFits(S, r)
        BY DEF SchoolOK
      <4>3. L.room = r
        BY <2>2, <4>1, <4>2 DEF RoomFits, L
      <4> QED BY <2>7, <2>8, <4>1, <4>3 DEF Live
    <3> QED BY <2>6, <2>12, <3>1 DEF RoomsMove
  <2>15. SchoolOK(D)
    <3>1. D \in SchoolType
      BY <2>6
    <3> QED BY <2>11, <2>13, <2>14, <3>1, OneLesson
  <2>16. ASSUME NEW q \in Chara
         PROVE  Spent(D, q) <= Spent(S, q)
    <3>1. S.card[q].attended \in Nat /\ D.card[q].attended = S.card[q].attended
      BY <1>0, <2>6
    <3>2. CASE q = p
      BY <1>3, <2>9, <3>1, <3>2 DEF Spent
    <3>3. CASE q # p
      BY <2>9, <3>1, <3>3 DEF Spent
    <3> QED BY <3>2, <3>3
  <2> QED BY <2>9, <2>15, <2>16
<1> QED BY <1>2, <1>3

(* The school keeps in a world that moves only around who is not seated.   *)
LEMMA WorldMoves ==
  ASSUME NEW S, SchoolOK(S), school' = S, now' = now,
         \A q \in Chara : S.seat[q] # Nobody => place'[q] = place[q] /\ q \in online'
  PROVE  SchoolOK(school)'
<1>1. \A L : InTime(L)' <=> InTime(L)
  BY DEF InTime, Live
<1>2. ASSUME NEW l \in 1..Len(S.lessons)
      PROVE  LessonFits(school, l)'
  <2>1. LessonFits(S, l)
    BY DEF SchoolOK
  <2> QED BY <1>1, <2>1 DEF LessonFits
<1>3. ASSUME NEW r \in Place
      PROVE  RoomFits(school, r)'
  <2>1. RoomFits(S, r)
    BY DEF SchoolOK
  <2> QED BY <2>1 DEF RoomFits
<1>4. ASSUME NEW q \in Chara
      PROVE  SeatFits(school, q)'
  <2>1. SeatFits(S, q)
    BY DEF SchoolOK
  <2> QED BY <2>1 DEF SeatFits
<1>5. (school \in SchoolType)'
  BY DEF SchoolOK
<1> QED BY <1>2, <1>3, <1>4, <1>5 DEF SchoolOK
-----------------------------------------------------------------------------
(* Bells.                                                                  *)
RangFine(b) ==
  b.rang # Never => b.rang <= now /\ Timely(b.rang) /\ b.subject = SubjectAt(b.rang)

LEMMA Subjects ==
  ASSUME NEW t \in Nat
  PROVE  SubjectAt(t) \in Nat
<1>0. Timetable \in Seq(Nat) /\ Len(Timetable) > 0
  BY TimetableAssumption
<1>1. t \div Slot \in Nat /\ Len(Timetable) \in Nat \ {0}
  <2>1. Len(Timetable) \in Nat
    BY <1>0, LenProperties
  <2>2. t \div Slot \in Nat
    BY SlotOf
  <2> QED BY <1>0, <2>1, <2>2
<1>2. ((t \div Slot) % Len(Timetable)) + 1 \in 1..Len(Timetable)
  BY <1>1
<1> QED BY <1>0, <1>2 DEF SubjectAt

LEMMA PolledIsOK ==
  ASSUME now \in Nat, NEW b \in BellType, RangFine(b), NEW admits \in BOOLEAN,
         OwesStart(b) /\ admits => Timely(now), NEW c, c = Polled(b, admits)
  PROVE  /\ c \in BellType /\ RangFine(c) /\ c.start = SlotStart(now)
         /\ now >= PreBell(now) => c.pre = Begins(now)
         /\ ~(OwesStart(b) /\ admits) => c.rang = b.rang
<1>1. /\ SlotStart(now) \in Nat /\ Begins(now) \in Nat /\ SubjectAt(now) \in Nat
  BY SlotOf, Subjects
<1>2. /\ b.pre \in Moment /\ b.start \in Moment /\ b.rang \in Moment /\ b.subject \in Moment
  BY DEF BellType
<1>3. CASE OwesStart(b) /\ admits
  <2>1. c = [pre |-> IF now >= PreBell(now) THEN Begins(now) ELSE b.pre,
             start |-> SlotStart(now), rang |-> now, subject |-> SubjectAt(now)]
    BY <1>3 DEF Polled, Rang, BellType
  <2>2. c \in BellType
    BY <1>1, <1>2, <2>1 DEF BellType, Moment
  <2>3. /\ c.start = SlotStart(now) /\ c.rang = now /\ c.subject = SubjectAt(now)
        /\ now >= PreBell(now) => c.pre = Begins(now)
    BY <2>1
  <2>4. RangFine(c)
    <3>1. Timely(now) /\ now <= now
      BY <1>3
    <3> QED BY Zenon, <2>3, <3>1 DEF RangFine
  <2> QED BY <1>3, <2>2, <2>3, <2>4
<1>4. CASE ~(OwesStart(b) /\ admits)
  <2>1. c = [pre |-> IF now >= PreBell(now) THEN Begins(now) ELSE b.pre,
             start |-> SlotStart(now), rang |-> b.rang, subject |-> b.subject]
    BY <1>4 DEF Polled, BellType
  <2>2. c \in BellType
    BY <1>1, <1>2, <2>1 DEF BellType, Moment
  <2> QED BY <2>1, <2>2 DEF RangFine
<1> QED BY <1>3, <1>4

LEMMA PrimedIsOK ==
  ASSUME now \in Nat, NEW b \in BellType, RangFine(b), NEW c, c = Primed(b)
  PROVE  c \in BellType /\ RangFine(c) /\ c.start = SlotStart(now) /\ ~OwesStart(c)
<1>1. /\ SlotStart(now) \in Nat /\ Begins(now) \in Nat
  BY SlotOf
<1>2. /\ b.pre \in Moment /\ b.start \in Moment /\ b.rang \in Moment /\ b.subject \in Moment
  BY DEF BellType
<1>3. c = [pre |-> IF now >= PreBell(now) THEN Begins(now) ELSE b.pre,
           start |-> SlotStart(now), rang |-> b.rang, subject |-> b.subject]
  BY DEF Primed, BellType
<1>4. c \in BellType
  BY <1>1, <1>2, <1>3 DEF BellType, Moment
<1> QED BY <1>3, <1>4 DEF RangFine, OwesStart

LEMMA RangIsOK ==
  ASSUME now \in Nat, NEW b \in BellType, Timely(now), NEW c, c = Rang(b)
  PROVE  c \in BellType /\ RangFine(c) /\ c.start = b.start
<1>1. SubjectAt(now) \in Nat
  BY Subjects
<1>2. /\ b.pre \in Moment /\ b.start \in Moment
  BY DEF BellType
<1>3. c = [pre |-> b.pre, start |-> b.start, rang |-> now, subject |-> SubjectAt(now)]
  BY DEF Rang, BellType
<1>4. c \in BellType
  BY <1>1, <1>2, <1>3 DEF BellType, Moment
<1> QED BY <1>3, <1>4 DEF RangFine

-----------------------------------------------------------------------------
(* The drains.                                                             *)
HeardFine(s, start) ==
  /\ \A i \in 1..Len(s) : s[i] <= SlotStart(now) /\ (s[i] = SlotStart(now) => start = SlotStart(now))
  /\ \A i, j \in 1..Len(s) : i < j => s[i] < s[j]

LEMMA HeardOnceMore ==
  ASSUME now \in Nat, NEW s \in Seq(Nat), NEW start, HeardFine(s, start), start # SlotStart(now),
         NEW t, t = Append(s, SlotStart(now))
  PROVE  HeardFine(t, SlotStart(now)) /\ t \in Seq(Nat) /\ Len(t) = Len(s) + 1
<1>1. SlotStart(now) \in Nat
  BY SlotOf
<1>2. /\ t \in Seq(Nat) /\ Len(t) = Len(s) + 1 /\ Len(s) \in Nat
      /\ \A i \in 1..Len(s) : t[i] = s[i]
      /\ t[Len(s) + 1] = SlotStart(now)
  BY <1>1, AppendProperties
<1>3. \A i \in 1..Len(s) : s[i] \in Nat /\ s[i] < SlotStart(now)
  <2>1. \A i \in 1..Len(s) : s[i] \in Nat
    BY ElementOfSeq
  <2> QED BY <1>1, <2>1 DEF HeardFine
<1>4. \A i \in 1..Len(t) : i \in 1..Len(s) \/ i = Len(s) + 1
  BY <1>2
<1>5. \A i \in 1..Len(t) : t[i] <= SlotStart(now)
  BY <1>1, <1>2, <1>3, <1>4
<1>6. ASSUME NEW i \in 1..Len(t), NEW j \in 1..Len(t), i < j
      PROVE  t[i] < t[j]
  <2>1. i \in 1..Len(s)
    BY <1>2, <1>6
  <2>2. CASE j \in 1..Len(s)
    BY <1>2, <1>6, <2>1, <2>2 DEF HeardFine
  <2>3. CASE j = Len(s) + 1
    BY <1>2, <1>3, <2>1, <2>3
  <2> QED BY <1>4, <2>2, <2>3
<1> QED BY <1>2, <1>5, <1>6 DEF HeardFine
(* What a handler leaves its drains: the bell of its session, the school,  *)
(* and who is waited for.                                                  *)
BellDue(p, b) ==
  /\ b \in BellType /\ RangFine(b) /\ (OwesStart(b) => Timely(now))
  /\ HeardFine(heard[p], b.start)
Staying(S) == \A q \in Chara : S.seat[q] # Nobody => place'[q] = place[q] /\ q \in online'
Covered(S, waiting) ==
  \A q \in Chara : Spent(S, q) + (IF q \in waiting THEN 1 ELSE 0) <= Len(heard[q]) + hands'[q]

LEMMA SpentTyped ==
  ASSUME NEW S, SchoolOK(S), NEW q \in Chara
  PROVE  Spent(S, q) \in Nat
<1>1. S.card[q].attended \in Nat
  BY OfSchool DEF SchoolOK, Card
<1> QED BY <1>1 DEF Spent

LEMMA DrainsDay ==
  ASSUME DayInv, now' = now, hands' \in [Chara -> 0..1], changes' \in 0..MaxChanges,
         CircumstancesTyped', online' \subseteq Chara,
         NEW p \in Chara, p \in online', \A q \in online' : q # p => q \in online,
         NEW b, BellDue(p, b), NEW S, SchoolOK(S), Staying(S),
         NEW waiting, waiting \subseteq online', NEW steady, steady \subseteq online',
         Covered(S, waiting), Drains(p, b, S, waiting, steady)
  PROVE  /\ DayTyped' /\ SchoolOK(school)'
         /\ \A q \in Chara : BellOK(q)' /\ HeardOK(q)' /\ Credit(q)'
<1> DEFINE admits == Admits(p)'
           c == Polled(b, admits)
           rung == IF OwesStart(b) /\ admits THEN {p} ELSE {}
           D == Driven(S, p)
<1>0. /\ now \in Nat /\ place \in [Chara -> Place] /\ admits \in BOOLEAN
      /\ bell \in [Chara -> BellType] /\ heard \in [Chara -> Seq(Nat)]
      /\ \A q \in Chara : BellOK(q) /\ HeardOK(q)
  BY DEF DayInv, IInv, BellsTyped, CircumstancesTyped, DayTyped, Admits
<1>1. /\ bell' = [bell EXCEPT ![p] = c] /\ called' = waiting \union rung
      /\ welcome' = steady \union rung /\ school' = D
      /\ heard' = [q \in Chara |-> IF q \in rung THEN Append(heard[q], SlotStart(now)) ELSE heard[q]]
  BY Zenon DEF Drains
<1>2. /\ c \in BellType /\ RangFine(c) /\ c.start = SlotStart(now)
      /\ now >= PreBell(now) => c.pre = Begins(now)
  BY <1>0, PolledIsOK DEF BellDue
<1>3. /\ SchoolOK(D) /\ \A q \in Chara : D.seat[q] \in {S.seat[q], Nobody}
      /\ \A q \in Chara : Spent(D, q) = Spent(S, q)
  BY <1>0, DrivenIsOK
<1> HIDE DEF c, D
<1>4. SchoolOK(school)'
  <2>1. \A q \in Chara : D.seat[q] # Nobody => place'[q] = place[q] /\ q \in online'
    BY <1>3 DEF Staying
  <2> QED BY <1>1, <1>3, <2>1, WorldMoves
<1>5. /\ rung \subseteq {p} /\ (p \in rung <=> OwesStart(b) /\ admits)
      /\ \A q \in Chara : q # p => q \notin rung
  OBVIOUS
<1> HIDE DEF rung
<1>6. SlotStart(now) \in Nat /\ Begins(now) \in Nat /\ SlotStart(now) # Never
  <2>1. now \in Nat
    BY <1>0
  <2>2. SlotStart(now) \in Nat /\ Begins(now) \in Nat
    BY <2>1, SlotOf
  <2> QED BY <2>2 DEF Never
<1>7. /\ bell' \in [Chara -> BellType] /\ bell'[p] = c
      /\ \A q \in Chara : q # p => bell'[q] = bell[q] /\ heard'[q] = heard[q]
      /\ p \in rung => heard'[p] = Append(heard[p], SlotStart(now))
      /\ p \notin rung => heard'[p] = heard[p]
  BY <1>0, <1>1, <1>2, <1>5
<1>8. /\ HeardFine(heard'[p], SlotStart(now)) /\ heard'[p] \in Seq(Nat)
      /\ Len(heard'[p]) = Len(heard[p]) + (IF p \in rung THEN 1 ELSE 0)
  <2>0. heard[p] \in Seq(Nat) /\ HeardFine(heard[p], b.start) /\ Len(heard[p]) \in Nat
    BY <1>0 DEF BellDue
  <2>1. CASE p \in rung
    <3>1. b.start # SlotStart(now)
      BY <1>5, <2>1 DEF OwesStart
    <3> QED BY <1>0, <1>7, <2>0, <2>1, <3>1, HeardOnceMore
  <2>2. CASE p \notin rung
    BY <1>7, <2>0, <2>2 DEF HeardFine
  <2> QED BY <2>1, <2>2
<1>9. DayTyped'
  <2>1. heard' \in [Chara -> Seq(Nat)]
    <3>1. \A q \in Chara : heard'[q] \in Seq(Nat)
      BY <1>0, <1>7, <1>8
    <3> QED BY <1>1, <3>1
  <2> QED BY <1>1, <1>5, <1>7, <2>1 DEF DayTyped
<1>10. ASSUME NEW q \in Chara
       PROVE  BellOK(q)' /\ HeardOK(q)'
  <2>1. CASE q = p
    <3>1. BellOK(p)'
      <4>1. /\ c.rang # Never => c.rang <= now /\ Timely(c.rang) /\ c.subject = SubjectAt(c.rang)
            /\ c.start = SlotStart(now) /\ c.start # Never
        BY <1>2, <1>6 DEF RangFine
      <4>2. now > PreBell(now) => c.pre = Begins(now)
        <5>1. PreBell(now) \in Int
          BY <1>6, Times DEF PreBell
        <5> QED BY <1>0, <1>2, <5>1
      <4>3. bell'[p] = c
        BY <1>7
      <4> HIDE DEF admits
      <4> QED BY <4>1, <4>2, <4>3 DEF BellOK
    <3>2. HeardOK(p)'
      <4>1. bell'[p].start = SlotStart(now)
        BY <1>2, <1>7
      <4> QED BY <1>8, <4>1 DEF HeardOK, HeardFine
    <3> QED BY <2>1, <3>1, <3>2
  <2>2. CASE q # p
    <3>1. bell'[q] = bell[q] /\ heard'[q] = heard[q] /\ BellOK(q) /\ HeardOK(q)
          /\ (q \in online' => q \in online)
      BY <1>0, <1>7, <2>2
    <3>2. BellOK(q)'
      BY <3>1 DEF BellOK
    <3>3. HeardOK(q)'
      BY <3>1 DEF HeardOK
    <3> QED BY <3>2, <3>3
  <2> QED BY <2>1, <2>2
<1>11. ASSUME NEW q \in Chara
       PROVE  Credit(q)'
  <2>1. /\ Spent(D, q) = Spent(S, q) /\ Spent(S, q) \in Nat /\ Len(heard[q]) \in Nat /\ hands'[q] \in 0..1
        /\ Spent(S, q) + (IF q \in waiting THEN 1 ELSE 0) <= Len(heard[q]) + hands'[q]
    BY <1>0, <1>3, SpentTyped DEF Covered
  <2>2. Spent(school', q) = Spent(D, q)
    BY <1>1
  <2>3. Len(heard'[q]) = Len(heard[q]) + (IF q \in rung THEN 1 ELSE 0)
    <3>1. CASE q = p
      BY <1>8, <3>1
    <3>2. CASE q # p
      <4>1. q \notin rung /\ heard'[q] = heard[q]
        BY <1>5, <1>7, <3>2
      <4> QED BY <2>1, <4>1
    <3> QED BY <3>1, <3>2
  <2>4. Spent(school', q) + (IF q \in called' THEN 1 ELSE 0) <= Len(heard'[q]) + hands'[q]
    BY <1>1, <2>1, <2>2, <2>3
  <2> QED BY <2>4 DEF Credit, Spent
<1> QED BY <1>4, <1>9, <1>10, <1>11
-----------------------------------------------------------------------------
(* The handlers.                                                           *)
LEMMA DayFacts ==
  ASSUME DayInv
  PROVE  /\ now \in Nat /\ place \in [Chara -> Place] /\ CircumstancesTyped
         /\ bell \in [Chara -> BellType] /\ heard \in [Chara -> Seq(Nat)]
         /\ online \subseteq Chara /\ called \subseteq online /\ welcome \subseteq online
         /\ hands \in [Chara -> 0..1] /\ changes \in 0..MaxChanges /\ SchoolOK(school)
         /\ \A p \in Chara : BellOK(p) /\ HeardOK(p) /\ Credit(p) /\ SeatFits(school, p)
BY DEF DayInv, IInv, BellsTyped, CircumstancesTyped, DayTyped, SchoolOK

LEMMA OwnBell ==
  ASSUME LessonsFit, DayInv, NEW p \in Chara, p \in online
  PROVE  BellDue(p, bell[p])
<1>1. /\ now \in Nat /\ bell[p] \in BellType /\ BellOK(p) /\ HeardOK(p)
  BY DayFacts
<1>2. RangFine(bell[p])
  BY <1>1 DEF BellOK, RangFine
<1>3. HeardFine(heard[p], bell[p].start)
  BY <1>1 DEF HeardOK, HeardFine
<1>4. ASSUME OwesStart(bell[p])
      PROVE  Timely(now)
  <2>1. ~(now > SlotStart(now))
    BY <1>1, <1>4 DEF BellOK, OwesStart
  <2>2. SlotStart(now) = now
    BY <1>1, <2>1, SlotOf
  <2> QED BY <1>1, <2>2, StartIsTimely
<1> QED BY <1>1, <1>2, <1>3, <1>4 DEF BellDue

LEMMA HandBell ==
  ASSUME DayInv, NEW p \in Chara, p \in online, Timely(now)
  PROVE  BellDue(p, Rang(bell[p]))
<1>1. /\ now \in Nat /\ bell[p] \in BellType /\ HeardOK(p)
  BY DayFacts
<1>2. Rang(bell[p]) \in BellType /\ RangFine(Rang(bell[p])) /\ Rang(bell[p]).start = bell[p].start
  BY <1>1, RangIsOK
<1>3. HeardFine(heard[p], bell[p].start)
  BY <1>1 DEF HeardOK, HeardFine
<1> QED BY <1>2, <1>3 DEF BellDue

LEMMA FreshBell ==
  ASSUME DayInv, NEW p \in Chara, NEW b, b \in {Silent, bell[p]}
  PROVE  BellDue(p, Primed(b))
<1>1. /\ now \in Nat /\ bell[p] \in BellType /\ BellOK(p) /\ HeardOK(p)
  BY DayFacts
<1>2. b \in BellType /\ RangFine(b)
  <2>1. CASE b = Silent
    BY <2>1 DEF Silent, BellType, Moment, RangFine
  <2>2. CASE b = bell[p]
    BY <1>1, <2>2 DEF BellOK, RangFine
  <2> QED BY <2>1, <2>2
<1>3. /\ Primed(b) \in BellType /\ RangFine(Primed(b)) /\ Primed(b).start = SlotStart(now)
      /\ ~OwesStart(Primed(b))
  BY <1>1, <1>2, PrimedIsOK
<1>4. HeardFine(heard[p], SlotStart(now))
  BY <1>1 DEF HeardOK, HeardFine
<1> QED BY <1>3, <1>4 DEF BellDue

(* A handler that ends in the drains.                                      *)
LEMMA HandlerDay ==
  ASSUME DayInv, IInv', now' = now, hands' \in [Chara -> 0..1], changes' \in 0..MaxChanges,
         online' \subseteq Chara,
         NEW p \in Chara, p \in online', \A q \in online' : q # p => q \in online,
         NEW b, BellDue(p, b), NEW S, SchoolOK(S), Staying(S),
         NEW waiting, waiting \subseteq online', NEW steady, steady \subseteq online',
         Covered(S, waiting), Drains(p, b, S, waiting, steady)
  PROVE  DayInv'
<1>1. CircumstancesTyped'
  BY DEF IInv
<1>2. /\ DayTyped' /\ SchoolOK(school)'
      /\ \A q \in Chara : BellOK(q)' /\ HeardOK(q)' /\ Credit(q)'
  BY <1>1, DrainsDay
<1> QED BY <1>2 DEF DayInv

LEMMA AsCovered ==
  ASSUME DayInv, hands' = hands
  PROVE  Covered(school, called)
BY DayFacts DEF Covered, Credit

LEMMA AsStaying ==
  ASSUME NEW S, SchoolOK(S), place' = place, online \subseteq online'
  PROVE  Staying(S)
<1>1. \A q \in Chara : SeatFits(S, q)
  BY DEF SchoolOK
<1>2. \A q \in Chara : S.seat[q] # Nobody => q \in online
  BY <1>1 DEF SeatFits
<1> QED BY <1>2 DEF Staying

LEMMA TimerDay ==
  ASSUME LessonsFit, DayInv, IInv', NEW p \in Chara, Timer(p)
  PROVE  DayInv'
<1>1. /\ p \in online /\ UNCHANGED <<now, circumstances, hands>>
      /\ Drains(p, bell[p], school, called, welcome)
  BY DEF Timer
<1>2. now' = now /\ online' = online /\ place' = place /\ hands' = hands /\ changes' = changes
  BY <1>1 DEF circumstances
<1>3. Covered(school, called) /\ Staying(school) /\ BellDue(p, bell[p])
  BY <1>1, <1>2, AsCovered, AsStaying, OwnBell, DayFacts
<1> QED BY <1>1, <1>2, <1>3, DayFacts, HandlerDay

LEMMA MovesDay ==
  ASSUME LessonsFit, DayInv, IInv', NEW p \in Chara, Moves(p),
         \A q \in Chara : school.seat[q] # Nobody => place'[q] = place[q]
  PROVE  DayInv'
<1>1. /\ p \in online /\ now' = now /\ online' = online /\ hands' = hands
      /\ changes' = changes + 1 /\ changes < MaxChanges
      /\ Drains(p, bell[p], school, called, welcome \ {p})
  BY DEF Moves, Changing
<1>2. changes' \in 0..MaxChanges
  <2>1. changes \in 0..MaxChanges /\ MaxChanges \in Nat
    BY DayFacts, TimesAssumption
  <2> QED BY <1>1, <2>1
<1>3. Staying(school)
  <2>1. \A q \in Chara : SeatFits(school, q)
    BY DayFacts
  <2>2. \A q \in Chara : school.seat[q] # Nobody => q \in online
    BY <2>1 DEF SeatFits
  <2> QED BY <1>1, <2>2 DEF Staying
<1>4. Covered(school, called) /\ BellDue(p, bell[p])
  BY <1>1, AsCovered, OwnBell
<1>5. welcome \ {p} \subseteq online'
  BY <1>1, DayFacts
<1> QED BY <1>1, <1>2, <1>3, <1>4, <1>5, DayFacts, HandlerDay

LEMMA CircumstancesDay ==
  ASSUME LessonsFit, DayInv, IInv', NEW p \in Chara,
         Walk(p) \/ SetOption(p) \/ ConditionTurns(p) \/ HoldOrLetGo(p)
  PROVE  DayInv'
<1>1. CASE Walk(p)
  <2>1. /\ school.seat[p] = Nobody /\ Moves(p)
        /\ \E m \in Place : place' = [place EXCEPT ![p] = m]
    BY <1>1 DEF Walk
  <2>2. \A q \in Chara : school.seat[q] # Nobody => place'[q] = place[q]
    BY <2>1, DayFacts
  <2> QED BY <2>1, <2>2, MovesDay
<1>2. CASE SetOption(p)
  <2>1. Moves(p) /\ place' = place
    BY <1>2 DEF SetOption
  <2> QED BY <2>1, MovesDay
<1>3. CASE ConditionTurns(p)
  <2>1. Moves(p) /\ place' = place
    BY <1>3 DEF ConditionTurns
  <2> QED BY <2>1, MovesDay
<1>4. CASE HoldOrLetGo(p)
  <2>1. Moves(p) /\ place' = place
    BY <1>4 DEF HoldOrLetGo
  <2> QED BY <2>1, MovesDay
<1> QED BY <1>1, <1>2, <1>3, <1>4

LEMMA ArriveDay ==
  ASSUME DayInv, IInv', NEW p \in Chara, Arrive(p)
  PROVE  DayInv'
<1>1. /\ now' = now /\ online' = online \union {p} /\ hands' = hands /\ place' = place
      /\ changes' = changes + 1 /\ changes < MaxChanges
  BY DEF Arrive, Changing
<1>2. PICK b \in {Silent, bell[p]} : Drains(p, Primed(b), school, called, welcome)
  BY DEF Arrive
<1>3. changes' \in 0..MaxChanges
  <2>1. changes \in 0..MaxChanges /\ MaxChanges \in Nat
    BY DayFacts, TimesAssumption
  <2> QED BY <1>1, <2>1
<1>4. Covered(school, called) /\ Staying(school) /\ BellDue(p, Primed(b))
  <2>1. online \subseteq online' /\ SchoolOK(school)
    BY <1>1, DayFacts
  <2> QED BY <1>1, <2>1, AsCovered, AsStaying, FreshBell
<1>5. /\ online' \subseteq Chara /\ p \in online' /\ called \subseteq online' /\ welcome \subseteq online'
      /\ \A q \in online' : q # p => q \in online
  BY <1>1, DayFacts
<1> QED BY <1>1, <1>2, <1>3, <1>4, <1>5, DayFacts, HandlerDay

LEMMA HandRingDay ==
  ASSUME LessonsFit, DayInv, IInv', NEW p \in Chara, HandRing(p)
  PROVE  DayInv'
<1>1. /\ now \in HandTimes /\ p \in online /\ \A q \in Chara : hands[q] = 0
      /\ hands' = [hands EXCEPT ![p] = 1] /\ UNCHANGED <<now, circumstances>>
      /\ Drains(p, Rang(bell[p]), school, called \union {p}, welcome)
  BY DEF HandRing
<1>2. now' = now /\ online' = online /\ place' = place /\ changes' = changes
  BY <1>1 DEF circumstances
<1>3. BellDue(p, Rang(bell[p]))
  <2>1. Timely(now)
    BY <1>1 DEF LessonsFit
  <2> QED BY <1>1, <2>1, HandBell
<1>4. Covered(school, called \union {p})
  <2>1. ASSUME NEW q \in Chara
        PROVE  Spent(school, q) + (IF q \in called \union {p} THEN 1 ELSE 0) <= Len(heard[q]) + hands'[q]
    <3>1. Credit(q) /\ Spent(school, q) \in Nat /\ Len(heard[q]) \in Nat /\ hands[q] \in 0..1
      BY DayFacts, SpentTyped
    <3>2. CASE q = p
      <4>1. hands'[q] = 1 /\ hands[q] = 0
        BY <1>1, <3>2, DayFacts
      <4> QED BY <3>1, <4>1 DEF Credit
    <3>3. CASE q # p
      <4>1. hands'[q] = hands[q]
        BY <1>1, <3>3, DayFacts
      <4> QED BY <3>1, <3>3, <4>1 DEF Credit
    <3> QED BY <3>2, <3>3
  <2> QED BY <2>1 DEF Covered
<1>5. Staying(school)
  BY <1>2, DayFacts, AsStaying
<1>6. /\ hands' \in [Chara -> 0..1] /\ called \union {p} \subseteq online' /\ welcome \subseteq online'
      /\ changes' \in 0..MaxChanges /\ online' \subseteq Chara
  BY <1>1, <1>2, DayFacts
<1> QED BY <1>1, <1>2, <1>3, <1>4, <1>5, <1>6, DayFacts, HandlerDay
(* admit: whoever is let in comes in the slot of their bell, and in time   *)
(* for its lesson.                                                         *)
LEMMA LetIn ==
  ASSUME DayInv, NEW p \in Chara, Refusal(p) = "none"
  PROVE  /\ bell[p].subject \in Nat /\ bell[p].subject = SubjectAt(now)
         /\ now + Length < Begins(now)
<1> DEFINE rang == bell[p].rang
<1>1. rang # Never /\ ~(now - rang > Grace)
  BY DEF Refusal
<1>2. /\ now \in Nat /\ bell[p] \in BellType /\ BellOK(p)
  BY DayFacts
<1>3. rang \in Nat /\ rang <= now /\ Timely(rang) /\ bell[p].subject = SubjectAt(rang)
  BY <1>1, <1>2 DEF BellOK, BellType, Moment
<1> HIDE DEF rang
<1>4. now <= rang + Grace /\ rang + Grace + Length < Begins(rang) /\ Begins(rang) \in Nat
  BY <1>1, <1>2, <1>3, SlotOf, Times DEF Timely
<1>5. now < Begins(rang)
  BY <1>2, <1>3, <1>4, Times
<1>6. Begins(now) = Begins(rang) /\ SubjectAt(now) = SubjectAt(rang)
  BY <1>2, <1>3, <1>5, SameSlot
<1>7. now + Length < Begins(rang)
  BY <1>2, <1>3, <1>4, Times
<1> QED BY <1>2, <1>3, <1>6, <1>7, Subjects

LEMMA ReadyDay ==
  ASSUME LessonsFit, DayInv, IInv', NEW p \in Chara, Ready(p)
  PROVE  DayInv'
<1> DEFINE S == IF Refusal(p) = "none" THEN Seated(school, p, bell[p].subject) ELSE school
<1>1. /\ p \in online /\ p \in called /\ UNCHANGED <<now, circumstances, hands>>
      /\ Drains(p, bell[p], S, called \ {p}, welcome)
  BY DEF Ready
<1>2. now' = now /\ online' = online /\ place' = place /\ hands' = hands /\ changes' = changes
  BY <1>1 DEF circumstances
<1>3. /\ SchoolOK(S) /\ Spent(S, p) <= Spent(school, p) + 1
      /\ \A q \in Chara \ {p} : Spent(S, q) = Spent(school, q)
  <2>1. CASE Refusal(p) = "none"
    <3> DEFINE subject == bell[p].subject
    <3>1. subject \in Nat /\ subject = SubjectAt(now) /\ now + Length < Begins(now)
      BY <2>1, LetIn
    <3> HIDE DEF subject
    <3>2. /\ SchoolOK(Seated(school, p, subject))
          /\ Spent(Seated(school, p, subject), p) <= Spent(school, p) + 1
          /\ \A q \in Chara \ {p} : Spent(Seated(school, p, subject), q) = Spent(school, q)
      BY <1>1, <3>1, DayFacts, SeatedIsOK
    <3> QED BY <2>1, <3>2 DEF subject
  <2>2. CASE Refusal(p) # "none"
    <3>1. S = school
      BY <2>2
    <3>2. SchoolOK(school) /\ Spent(school, p) \in Nat
      BY DayFacts, SpentTyped
    <3> HIDE DEF S
    <3> QED BY <3>1, <3>2
  <2> QED BY <2>1, <2>2
<1> HIDE DEF S
<1>4. Covered(S, called \ {p})
  <2>1. ASSUME NEW q \in Chara
        PROVE  Spent(S, q) + (IF q \in called \ {p} THEN 1 ELSE 0) <= Len(heard[q]) + hands'[q]
    <3>1. /\ Credit(q) /\ Spent(school, q) \in Nat /\ Spent(S, q) \in Nat /\ Len(heard[q]) \in Nat
          /\ hands'[q] = hands[q] /\ hands[q] \in 0..1
      BY <1>2, <1>3, DayFacts, SpentTyped
    <3>2. CASE q = p
      BY <1>1, <1>3, <3>1, <3>2 DEF Credit
    <3>3. CASE q # p
      <4>1. Spent(S, q) = Spent(school, q)
        BY <1>3, <3>3
      <4> QED BY <3>1, <3>3, <4>1 DEF Credit
    <3> QED BY <3>2, <3>3
  <2> QED BY <2>1 DEF Covered
<1>5. Staying(S) /\ BellDue(p, bell[p])
  BY <1>1, <1>2, <1>3, AsStaying, OwnBell
<1>6. /\ hands' \in [Chara -> 0..1] /\ called \ {p} \subseteq online' /\ welcome \subseteq online'
      /\ changes' \in 0..MaxChanges /\ online' \subseteq Chara
  BY <1>2, DayFacts
<1> QED BY <1>1, <1>2, <1>3, <1>4, <1>5, <1>6, HandlerDay

LEMMA AnswerDay ==
  ASSUME LessonsFit, DayInv, IInv', NEW p \in Chara, Answer(p)
  PROVE  DayInv'
<1> DEFINE l == school.seat[p]
           L == school.lessons[l]
           K == [L EXCEPT !.students[p].reported = L.no]
           T == Replaced(school, l, K)
<1>1. /\ p \in online /\ l # Nobody /\ p \in Members(L) /\ UNCHANGED <<now, circumstances, hands>>
  BY Zenon DEF Answer
<1>2. /\ L.phase = "asking" /\ Drains(p, bell[p], T, called, welcome)
  <2>1. PICK q \in 1..L.no :
          /\ Taken(L, p, q)
          /\ Drains(p, bell[p], [school EXCEPT !.lessons[l].students[p].reported = q], called, welcome)
    BY Zenon DEF Answer
  <2>2. q = L.no /\ L.phase = "asking"
    BY <2>1 DEF Taken
  <2>3. [school EXCEPT !.lessons[l].students[p].reported = q] = T
    BY Zenon, <2>2 DEF Replaced
  <2> HIDE DEF T, l, L
  <2> QED BY <2>1, <2>2, <2>3
<1>3. now' = now /\ online' = online /\ place' = place /\ hands' = hands /\ changes' = changes
  BY <1>1 DEF circumstances
<1>4. l \in 1..Len(school.lessons) /\ Live(L)
  BY <1>1, DayFacts DEF SeatFits, Live
<1>5. LessonOK(L) /\ InTime(L) /\ school \in SchoolType
  BY <1>4, DayFacts DEF SchoolOK, LessonFits
<1>6. Continues(K, L) /\ ~Over(K) /\ K \in LessonType
  <2> HIDE DEF L
  <2> QED BY <1>1, <1>2, <1>5, AnsweredIsOK
<1> HIDE DEF K, l
<1>7. SchoolOK(T) /\ T.card = school.card /\ T.seat = school.seat
  <2>1. SchoolOK(T)
    BY <1>4, <1>6, DayFacts, ReplacedIsOK
  <2>2. T.card = school.card /\ T.seat = school.seat
    BY <1>4, <1>5, <1>6, ReplacedFields
  <2> QED BY <2>1, <2>2
<1> HIDE DEF T
<1>8. Covered(T, called)
  <2>1. \A q \in Chara : Spent(T, q) = Spent(school, q)
    BY <1>7 DEF Spent
  <2>2. Covered(school, called)
    BY <1>3, AsCovered
  <2> QED BY <2>1, <2>2 DEF Covered
<1>9. Staying(T) /\ BellDue(p, bell[p])
  BY <1>1, <1>3, <1>7, AsStaying, OwnBell
<1>10. /\ hands' \in [Chara -> 0..1] /\ called \subseteq online' /\ welcome \subseteq online'
       /\ changes' \in 0..MaxChanges /\ online' \subseteq Chara
  BY <1>3, DayFacts
<1> QED BY <1>1, <1>2, <1>3, <1>7, <1>8, <1>9, <1>10, HandlerDay

LEMMA DepartDay ==
  ASSUME DayInv, IInv', NEW p \in Chara, Depart(p)
  PROVE  DayInv'
<1> DEFINE D == Retired(school, p)
<1>1. /\ now' = now /\ online' = online \ {p} /\ hands' = hands /\ place' = place
      /\ changes' = changes + 1 /\ changes < MaxChanges /\ bell' = bell /\ heard' = heard
      /\ called' = called \ {p} /\ welcome' = welcome \ {p} /\ school' = D
  BY DEF Depart, Changing
<1>2. /\ SchoolOK(D) /\ D.seat[p] = Nobody /\ \A q \in Chara \ {p} : D.seat[q] = school.seat[q]
      /\ \A q \in Chara : Spent(D, q) <= Spent(school, q)
  BY DayFacts, RetiredIsOK
<1> HIDE DEF D
<1>3. SchoolOK(school)'
  <2>1. ASSUME NEW q \in Chara, D.seat[q] # Nobody
        PROVE  place'[q] = place[q] /\ q \in online'
    <3>1. SeatFits(D, q) /\ q # p
      BY <1>2, <2>1 DEF SchoolOK
    <3> QED BY <1>1, <2>1, <3>1 DEF SeatFits
  <2> QED BY <1>1, <1>2, <2>1, WorldMoves
<1>4. DayTyped'
  <2>1. changes' \in 0..MaxChanges
    <3>1. changes \in 0..MaxChanges /\ MaxChanges \in Nat
      BY DayFacts, TimesAssumption
    <3> QED BY <1>1, <3>1
  <2> QED BY <1>1, <2>1, DayFacts DEF DayTyped
<1>5. ASSUME NEW q \in Chara
      PROVE  BellOK(q)' /\ HeardOK(q)' /\ Credit(q)'
  <2>1. BellOK(q) /\ HeardOK(q) /\ Credit(q) /\ (q \in online' => q \in online)
    BY <1>1, DayFacts
  <2>2. BellOK(q)'
    BY <1>1, <2>1 DEF BellOK
  <2>3. HeardOK(q)'
    BY <1>1, <2>1 DEF HeardOK
  <2>4. Spent(school', q) + (IF q \in called' THEN 1 ELSE 0) <= Len(heard'[q]) + hands'[q]
    <3>1. /\ Spent(D, q) <= Spent(school, q) /\ Spent(D, q) \in Nat /\ Spent(school, q) \in Nat
          /\ Len(heard[q]) \in Nat /\ hands[q] \in 0..1
      BY <1>2, DayFacts, SpentTyped
    <3>2. Spent(school', q) = Spent(D, q)
      BY <1>1
    <3> QED BY <1>1, <2>1, <3>1, <3>2 DEF Credit
  <2> QED BY <2>2, <2>3, <2>4 DEF Credit, Spent
<1> QED BY <1>3, <1>4, <1>5 DEF DayInv
(* Time passes while every session sleeps: no bell and no lesson is due.   *)
LEMMA TickDay ==
  ASSUME DayInv, IInv', Tick
  PROVE  DayInv'
<1>1. /\ now' = now + 1 /\ \A p \in online : Asleep(p)
      /\ UNCHANGED <<circumstances, bell, school, called, welcome, heard, hands>>
  BY DEF Tick
<1>2. /\ online' = online /\ place' = place /\ changes' = changes /\ bell' = bell /\ school' = school
      /\ called' = called /\ welcome' = welcome /\ heard' = heard /\ hands' = hands
  BY <1>1 DEF circumstances
<1>3. /\ now \in Nat /\ now + 1 \in Nat /\ SlotStart(now) \in Nat /\ Begins(now) \in Nat
      /\ SlotStart(now) <= now /\ PreBell(now) \in Int
  <2>1. now \in Nat
    BY DayFacts
  <2>2. SlotStart(now) \in Nat /\ Begins(now) \in Nat /\ SlotStart(now) <= now
    BY <2>1, SlotOf
  <2>3. PreBell(now) \in Int
    BY <2>2, Times DEF PreBell
  <2> QED BY <2>1, <2>2, <2>3
<1>4. \/ SlotStart(now + 1) = SlotStart(now) /\ Begins(now + 1) = Begins(now) /\ PreBell(now + 1) = PreBell(now)
      \/ /\ SlotStart(now + 1) = now + 1 /\ SlotStart(now) < SlotStart(now + 1)
         /\ now + 1 < PreBell(now + 1)
  <2>1. CASE now + 1 < Begins(now)
    BY <1>3, <2>1, SameSlot
  <2>2. CASE ~(now + 1 < Begins(now))
    BY <1>3, <2>2, NextMoment
  <2> QED BY <2>1, <2>2
<1>5. ASSUME NEW p \in Chara
      PROVE  BellOK(p)'
  <2>0. BellOK(p) /\ bell[p] \in BellType
    BY DayFacts
  <2>1. bell[p].rang # Never => bell[p].rang <= now + 1 /\ Timely(bell[p].rang) /\ bell[p].subject = SubjectAt(bell[p].rang)
    <3>1. bell[p].rang \in Moment
      BY <2>0 DEF BellType
    <3> QED BY <1>3, <2>0, <3>1 DEF BellOK, Moment
  <2>2. ASSUME p \in online
        PROVE  /\ bell[p].start # Never
               /\ now + 1 > SlotStart(now + 1) => bell[p].start = SlotStart(now + 1)
               /\ now + 1 > PreBell(now + 1) => bell[p].pre = Begins(now + 1)
    <3>1. bell[p].start # Never
      BY <2>0, <2>2 DEF BellOK
    <3>2. NextDue(bell[p]) > now
      BY <1>1, <2>2, <3>1 DEF Asleep
    <3>3. bell[p].start = SlotStart(now) /\ (bell[p].pre = Begins(now) \/ PreBell(now) > now)
      BY <1>3, <3>2 DEF NextDue, OwesStart
    <3>4. CASE SlotStart(now + 1) = SlotStart(now) /\ Begins(now + 1) = Begins(now) /\ PreBell(now + 1) = PreBell(now)
      BY <1>3, <3>1, <3>3, <3>4
    <3>5. CASE SlotStart(now + 1) = now + 1 /\ now + 1 < PreBell(now + 1)
      <4>1. now + 1 \in Nat /\ PreBell(now + 1) \in Int
        <5>1. Begins(now + 1) \in Nat
          BY <1>3, SlotOf
        <5> QED BY <1>3, <5>1, Times DEF PreBell
      <4> QED BY <3>1, <3>5, <4>1
    <3> QED BY <1>4, <3>4, <3>5
  <2> QED BY <1>1, <1>2, <2>1, <2>2 DEF BellOK
<1>6. ASSUME NEW p \in Chara
      PROVE  HeardOK(p)'
  <2>1. HeardOK(p) /\ heard[p] \in Seq(Nat) /\ BellOK(p)
    BY DayFacts
  <2>2. ASSUME NEW i \in 1..Len(heard[p])
        PROVE  /\ heard[p][i] <= SlotStart(now + 1)
               /\ heard[p][i] = SlotStart(now + 1) => bell[p].start = SlotStart(now + 1)
    <3>1. /\ heard[p][i] \in Nat /\ heard[p][i] <= SlotStart(now)
          /\ heard[p][i] = SlotStart(now) => bell[p].start = SlotStart(now)
      BY <2>1, ElementOfSeq DEF HeardOK
    <3>2. SlotStart(now + 1) \in Nat
      BY <1>3, SlotOf
    <3> QED BY <1>3, <1>4, <3>1, <3>2
  <2>3. \A i, j \in 1..Len(heard[p]) : i < j => heard[p][i] < heard[p][j]
    BY <2>1 DEF HeardOK
  <2> QED BY <1>1, <1>2, <2>2, <2>3 DEF HeardOK
<1>7. ASSUME NEW p \in Chara
      PROVE  Credit(p)'
  <2>1. Credit(p)
    BY DayFacts
  <2> QED BY <1>2, <2>1 DEF Credit, Spent
<1>8. SchoolOK(school)'
  <2>0. school \in SchoolType /\ SchoolOK(school)
    BY DayFacts DEF SchoolOK
  <2>1. ASSUME NEW l \in 1..Len(school.lessons)
        PROVE  LessonFits(school, l)'
    <3> DEFINE L == school.lessons[l]
    <3>1. LessonFits(school, l) /\ L \in LessonType /\ l # Nobody
      BY <2>0, OfSchool DEF SchoolOK, Nobody
    <3>2. ASSUME Live(L)
          PROVE  now + 1 <= L.due
      <4>1. PICK q \in Members(L) : TRUE
        BY <3>2 DEF Live
      <4>2. q \in Chara /\ school.seat[q] = l /\ q \in online
        BY <2>0, <3>2, <4>1, Class DEF Live
      <4>3. L.due > now
        BY <1>1, <3>1, <3>2, <4>2 DEF Asleep, Live
      <4>4. L.due \in Nat
        BY <3>1, OfLesson
      <4> QED BY <1>3, <4>3, <4>4
    <3>3. LessonOK(L) /\ InTime(L) /\ (~Over(L) => \A p \in Members(L) : school.seat[p] = l)
      BY <3>1 DEF LessonFits
    <3>4. L.began \in Nat
      BY <3>1, OfLesson
    <3>5. Live(L) => /\ L.began + Length < Begins(L.began) /\ L.subject = SubjectAt(L.began)
                     /\ L.began <= now + 1 /\ now + 1 <= L.due
                     /\ L.due + Rest(L) <= L.began + Length
      BY <1>3, <3>2, <3>3, <3>4 DEF InTime
    <3>6. school'.lessons[l] = L /\ school'.seat = school.seat
      BY <1>2
    <3> HIDE DEF L
    <3>7. InTime(school.lessons[l])'
      BY <1>1, <3>5, <3>6 DEF InTime, Live
    <3>8. LessonOK(school.lessons[l])'
      BY <3>3, <3>6
    <3> QED BY <3>3, <3>6, <3>7, <3>8 DEF LessonFits
  <2>2. ASSUME NEW r \in Place
        PROVE  RoomFits(school, r)'
    <3>1. RoomFits(school, r)
      BY <2>0 DEF SchoolOK
    <3> QED BY <1>2, <3>1 DEF RoomFits
  <2>3. ASSUME NEW q \in Chara
        PROVE  SeatFits(school, q)'
    <3>1. SeatFits(school, q)
      BY DayFacts
    <3> QED BY <1>2, <3>1 DEF SeatFits
  <2> QED BY <1>2, <2>0, <2>1, <2>2, <2>3 DEF SchoolOK
<1>9. DayTyped'
  BY <1>2, DayFacts DEF DayTyped
<1> QED BY <1>5, <1>6, <1>7, <1>8, <1>9 DEF DayInv
-----------------------------------------------------------------------------
LEMMA DayStarts == Init => DayInv
<1> SUFFICES ASSUME Init
             PROVE  DayInv
  OBVIOUS
<1>0. IInv
  BY InitKeeps
<1>1. /\ now \in Nat /\ place \in [Chara -> Place] /\ online = Chara /\ called = {} /\ welcome = {}
      /\ bell = [p \in Chara |-> Primed(Silent)] /\ heard = [p \in Chara |-> <<>>]
      /\ hands = [p \in Chara |-> 0] /\ changes = 0
  BY TimesAssumption DEF Init
<1>2. /\ school.lessons = <<>> /\ school.rooms = [r \in Place |-> Nobody]
      /\ school.seat = [p \in Chara |-> Nobody]
      /\ school.card = [p \in Chara |-> [attended |-> 0, asked |-> 0, right |-> 0]]
      /\ school.drawn = [p \in Chara |-> {}]
  BY DEF Init
<1>3. Silent \in BellType /\ RangFine(Silent) /\ Silent.pre = Never
  BY DEF Silent, BellType, Moment, RangFine
<1>4. /\ Primed(Silent) \in BellType /\ RangFine(Primed(Silent))
      /\ Primed(Silent).start = SlotStart(now)
  BY <1>1, <1>3, PrimedIsOK
<1>5. now >= PreBell(now) => Primed(Silent).pre = Begins(now)
  BY <1>3 DEF Primed, Silent
<1>6. SlotStart(now) \in Nat /\ Begins(now) \in Nat /\ PreBell(now) \in Int
  <2>1. SlotStart(now) \in Nat /\ Begins(now) \in Nat
    BY <1>1, SlotOf
  <2> QED BY <2>1, Times DEF PreBell
<1>7. <<>> \in Seq(Nat) /\ <<>> \in Seq(LessonType) /\ Len(<<>>) = 0 /\ 1..0 = {}
  OBVIOUS
<1>8. DayTyped
  <2>1. bell \in [Chara -> BellType] /\ heard \in [Chara -> Seq(Nat)] /\ hands \in [Chara -> 0..1]
    BY <1>1, <1>4, <1>7
  <2>2. changes \in 0..MaxChanges
    BY <1>1, TimesAssumption
  <2> QED BY <1>1, <2>1, <2>2 DEF DayTyped
<1>9. ASSUME NEW p \in Chara
      PROVE  BellOK(p) /\ HeardOK(p) /\ Credit(p)
  <2>1. bell[p] = Primed(Silent) /\ heard[p] = <<>> /\ hands[p] = 0 /\ p \notin called
    BY <1>1
  <2>2. BellOK(p)
    <3>1. SlotStart(now) # Never
      BY <1>6 DEF Never
    <3>2. now > PreBell(now) => bell[p].pre = Begins(now)
      BY <1>1, <1>5, <1>6, <2>1
    <3>3. bell[p].start = SlotStart(now) /\ RangFine(bell[p])
      BY <1>4, <2>1
    <3> QED BY <3>1, <3>2, <3>3 DEF BellOK, RangFine
  <2>3. HeardOK(p)
    BY <1>7, <2>1 DEF HeardOK
  <2>4. Credit(p)
    <3>1. school.card[p].attended = 0 /\ school.seat[p] = Nobody
      BY <1>2
    <3>2. Spent(school, p) = 0
      BY <3>1 DEF Spent
    <3> QED BY <1>7, <2>1, <3>2 DEF Credit
  <2> QED BY <2>2, <2>3, <2>4
<1>10. SchoolOK(school)
  <2>1. school \in SchoolType
    <3>1. /\ school.rooms \in [Place -> Nat] /\ school.seat \in [Chara -> Nat]
          /\ school.drawn \in [Chara -> SUBSET (Chara \X Nat)]
      BY <1>2 DEF Nobody
    <3>2. [attended |-> 0, asked |-> 0, right |-> 0] \in Card
      BY DEF Card
    <3>3. school.card \in [Chara -> Card]
      BY <1>2, <3>2
    <3>4. school = [lessons |-> school.lessons, rooms |-> school.rooms, seat |-> school.seat,
                    card |-> school.card, drawn |-> school.drawn]
      BY DEF Init
    <3>5. school.lessons \in Seq(LessonType)
      BY <1>2, <1>7
    <3> QED BY <3>1, <3>3, <3>4, <3>5 DEF SchoolType
  <2>2. \A l \in 1..Len(school.lessons) : LessonFits(school, l)
    BY <1>2, <1>7
  <2>3. \A r \in Place : RoomFits(school, r)
    BY <1>2 DEF RoomFits
  <2>4. \A p \in Chara : SeatFits(school, p)
    BY <1>2 DEF SeatFits
  <2> QED BY <2>1, <2>2, <2>3, <2>4 DEF SchoolOK
<1> QED BY <1>0, <1>8, <1>9, <1>10 DEF DayInv

LEMMA DaySteps == ASSUME LessonsFit PROVE DayInv /\ [Next]_vars => DayInv'
<1> SUFFICES ASSUME DayInv, [Next]_vars
             PROVE  DayInv'
  OBVIOUS
<1>0. IInv'
  BY NextKeeps DEF DayInv
<1>1. CASE Tick
  BY <1>0, <1>1, TickDay
<1>2. CASE UNCHANGED vars
  <2>1. /\ now' = now /\ online' = online /\ place' = place /\ changes' = changes /\ bell' = bell
        /\ school' = school /\ called' = called /\ welcome' = welcome /\ heard' = heard /\ hands' = hands
    BY <1>2 DEF vars, circumstances
  <2>2. DayTyped'
    BY <2>1, DayFacts DEF DayTyped
  <2>3. SchoolOK(school)'
    <3>1. SchoolOK(school) /\ \A q \in Chara : SeatFits(school, q)
      BY DayFacts
    <3>2. \A q \in Chara : school.seat[q] # Nobody => place'[q] = place[q] /\ q \in online'
      BY <2>1, <3>1 DEF SeatFits
    <3> QED BY <2>1, <3>1, <3>2, WorldMoves
  <2>4. ASSUME NEW p \in Chara
        PROVE  BellOK(p)' /\ HeardOK(p)' /\ Credit(p)'
    <3>1. BellOK(p) /\ HeardOK(p) /\ Credit(p)
      BY DayFacts
    <3>2. BellOK(p)'
      BY <2>1, <3>1 DEF BellOK
    <3>3. HeardOK(p)' /\ Credit(p)'
      BY <2>1, <3>1 DEF HeardOK, Credit, Spent
    <3> QED BY <3>2, <3>3
  <2> QED BY <1>0, <2>2, <2>3, <2>4 DEF DayInv
<1>3. ASSUME NEW p \in Chara,
             Walk(p) \/ SetOption(p) \/ ConditionTurns(p) \/ HoldOrLetGo(p)
      PROVE  DayInv'
  BY <1>0, <1>3, CircumstancesDay
<1>4. ASSUME NEW p \in Chara, Arrive(p) PROVE DayInv'
  BY <1>0, <1>4, ArriveDay
<1>5. ASSUME NEW p \in Chara, Depart(p) PROVE DayInv'
  BY <1>0, <1>5, DepartDay
<1>6. ASSUME NEW p \in Chara, Timer(p) PROVE DayInv'
  BY <1>0, <1>6, TimerDay
<1>7. ASSUME NEW p \in Chara, Ready(p) PROVE DayInv'
  BY <1>0, <1>7, ReadyDay
<1>8. ASSUME NEW p \in Chara, Answer(p) PROVE DayInv'
  BY <1>0, <1>8, AnswerDay
<1>9. ASSUME NEW p \in Chara, HandRing(p) PROVE DayInv'
  BY <1>0, <1>9, HandRingDay
<1> QED BY <1>1, <1>2, <1>3, <1>4, <1>5, <1>6, <1>7, <1>8, <1>9 DEF Next
LEMMA DayHolds == ASSUME LessonsFit PROVE Spec => []DayInv
BY DayStarts, DaySteps, PTL DEF Spec

-----------------------------------------------------------------------------
(* What the day promises.                                                  *)
LEMMA LessonMarks ==
  ASSUME NEW L, LessonOK(L)
  PROVE  /\ [L EXCEPT !.students = <<>>] \in
              [room : Place, subject : Nat, began : Nat, due : Nat, no : 0..Questions,
               phase : {"opening", "asking", "over"}, desks : Nat, students : {<<>>}]
         /\ Members(L) \subseteq Chara
         /\ \A p \in Members(L) : L.students[p].desk < L.desks /\ L.students[p].right <= Questions
<1>1. L \in LessonType /\ L.no <= Questions
  BY DEF LessonOK
<1>2. L.no \in 0..Questions /\ Members(L) \subseteq Chara
  BY <1>1, OfLesson, Times
<1>3. [L EXCEPT !.students = <<>>] \in
        [room : Place, subject : Nat, began : Nat, due : Nat, no : 0..Questions,
         phase : {"opening", "asking", "over"}, desks : Nat, students : {<<>>}]
  BY <1>1, <1>2 DEF LessonType
<1>4. ASSUME NEW p \in Members(L)
      PROVE  L.students[p].desk < L.desks /\ L.students[p].right <= Questions
  <2>1. /\ L.students[p].asked + Missed(L.students[p].came) = Done(L)
        /\ L.students[p].right <= L.students[p].asked /\ L.students[p].desk < L.desks
    BY DEF LessonOK
  <2>2. L.students[p].asked \in Nat /\ L.students[p].right \in Nat /\ L.students[p].came \in Nat
    BY <1>1, OfStudent
  <2>3. Missed(L.students[p].came) \in Nat
    BY <2>2 DEF Missed
  <2>4. Done(L) \in Int /\ Done(L) <= Questions
    BY <1>2, Times DEF Done
  <2> QED BY <2>1, <2>2, <2>3, <2>4, Times
<1> QED BY <1>2, <1>3, <1>4

LEMMA TypesHold == DayInv => TypeOK
<1> SUFFICES ASSUME DayInv
             PROVE  TypeOK
  OBVIOUS
<1>1. /\ school \in SchoolType /\ \A l \in 1..Len(school.lessons) : LessonOK(school.lessons[l])
      /\ \A r \in Place : RoomFits(school, r)
      /\ \A p \in Chara : SeatFits(school, p)
  BY DayFacts DEF SchoolOK, LessonFits
<1>2. DOMAIN school = {"lessons", "rooms", "seat", "card", "drawn"}
  BY <1>1 DEF SchoolType
<1>3. school.rooms \in [Place -> 0..Len(school.lessons)] /\ school.seat \in [Chara -> 0..Len(school.lessons)]
  <2>1. school.rooms \in [Place -> Nat] /\ school.seat \in [Chara -> Nat] /\ Len(school.lessons) \in Nat
    BY <1>1, OfSchool
  <2>2. \A r \in Place : school.rooms[r] \in 0..Len(school.lessons)
    BY <1>1, <2>1 DEF RoomFits, Nobody
  <2>3. ASSUME NEW p \in Chara
        PROVE  school.seat[p] \in 0..Len(school.lessons)
    <3>1. school.seat[p] = Nobody \/ school.seat[p] \in 1..Len(school.lessons)
      BY <1>1 DEF SeatFits
    <3> QED BY <2>1, <3>1 DEF Nobody
  <2> QED BY <2>1, <2>2, <2>3
<1>4. bell \in [Chara -> [pre : Moment, start : Moment, rang : Moment, subject : Moment]]
  BY DayFacts DEF BellType
<1>5. ASSUME NEW l \in 1..Len(school.lessons)
      PROVE  LET L == school.lessons[l]
             IN  /\ [L EXCEPT !.students = <<>>] \in
                       [room : Place, subject : Nat, began : Nat, due : Nat,
                        no : 0..Questions, phase : {"opening", "asking", "over"},
                        desks : Nat, students : {<<>>}]
                 /\ Members(L) \subseteq Chara
                 /\ \A p \in Members(L) :
                      L.students[p].desk < L.desks /\ L.students[p].right <= Questions
  BY <1>1, LessonMarks
<1>6. /\ now \in Nat /\ online \subseteq Chara /\ place \in [Chara -> Place] /\ option \in [Chara -> BOOLEAN]
      /\ ill \in [Chara -> BOOLEAN] /\ held \in [Chara -> BOOLEAN] /\ called \subseteq online
      /\ welcome \subseteq online /\ hands \in [Chara -> 0..1] /\ changes \in 0..MaxChanges
  BY DayFacts DEF CircumstancesTyped
<1> QED BY <1>2, <1>3, <1>4, <1>5, <1>6 DEF TypeOK

LEMMA WholeHolds == DayInv => LessonsAreWhole
<1> SUFFICES ASSUME DayInv
             PROVE  LessonsAreWhole
  OBVIOUS
<1>1. /\ school \in SchoolType /\ \A l \in 1..Len(school.lessons) : LessonFits(school, l)
      /\ \A r \in Place : RoomFits(school, r)
      /\ \A p \in Chara : SeatFits(school, p)
  BY DayFacts DEF SchoolOK
<1>2. SeatsAgree
  <2>1. ASSUME NEW p \in Chara, school.seat[p] # Nobody
        PROVE  LET L == school.lessons[school.seat[p]]
               IN  /\ p \in Members(L) /\ ~Over(L) /\ school.rooms[L.room] = school.seat[p]
    <3>1. /\ p \in Members(school.lessons[school.seat[p]]) /\ ~Over(school.lessons[school.seat[p]])
          /\ school.rooms[place[p]] = school.seat[p]
      BY <1>1, <2>1 DEF SeatFits
    <3>2. place[p] \in Place
      BY DayFacts
    <3>3. school.lessons[school.rooms[place[p]]].room = place[p]
      BY <1>1, <2>1, <3>1, <3>2 DEF RoomFits
    <3> QED BY <3>1, <3>3
  <2>2. ASSUME NEW r \in Place, school.rooms[r] # Nobody,
               NEW p \in Members(school.lessons[school.rooms[r]])
        PROVE  school.seat[p] = school.rooms[r]
    <3>1. school.rooms[r] \in 1..Len(school.lessons) /\ ~Over(school.lessons[school.rooms[r]])
      BY <1>1, <2>2 DEF RoomFits, Live
    <3> QED BY <1>1, <2>2, <3>1 DEF LessonFits
  <2> QED BY <2>1, <2>2 DEF SeatsAgree
<1>3. ClientsDrawTheRoom
  <2>1. ASSUME NEW p \in Chara, school.seat[p] # Nobody
        PROVE  LET L == school.lessons[school.seat[p]]
               IN  /\ school.drawn[p] = Desks(L)
                   /\ \A a, b \in school.drawn[p] : a[2] = b[2] => a[1] = b[1]
    <3> DEFINE L == school.lessons[school.seat[p]]
    <3>1. school.drawn[p] = Desks(L) /\ school.seat[p] \in 1..Len(school.lessons)
      BY <1>1, <2>1 DEF SeatFits
    <3>2. LessonOK(L)
      BY <1>1, <3>1 DEF LessonFits
    <3>3. \A a, b \in Desks(L) : a[2] = b[2] => a[1] = b[1]
      <4>1. ASSUME NEW q \in Members(L), NEW r \in Members(L), L.students[q].desk = L.students[r].desk
            PROVE  q = r
        BY <3>2, <4>1 DEF LessonOK
      <4> HIDE DEF L
      <4> QED BY <4>1 DEF Desks
    <3> QED BY <3>1, <3>3
  <2> QED BY <2>1 DEF ClientsDrawTheRoom
<1>4. AnswersThisQuestion
  <2>1. ASSUME NEW l \in 1..Len(school.lessons), NEW p \in Members(school.lessons[l])
        PROVE  school.lessons[l].students[p].reported \in {NoAnswer, school.lessons[l].no}
    BY <1>1 DEF LessonFits, LessonOK
  <2> QED BY <2>1 DEF AnswersThisQuestion
<1>5. MarksAreWhole
  <2>1. ASSUME NEW l \in 1..Len(school.lessons), Over(school.lessons[l]), NEW p \in Members(school.lessons[l])
        PROVE  /\ school.lessons[l].students[p].asked =
                    Questions - (IF school.lessons[l].students[p].came = 0 THEN 0
                                 ELSE school.lessons[l].students[p].came - 1)
               /\ school.lessons[l].students[p].right <= school.lessons[l].students[p].asked
    <3> DEFINE L == school.lessons[l]
    <3>1. LessonOK(L) /\ L \in LessonType /\ L.phase = "over"
      BY <1>1, <2>1 DEF LessonFits, LessonOK, Over
    <3>2. L.students[p].asked \in Nat /\ L.students[p].came \in Nat
      BY <3>1, OfStudent
    <3>3. /\ L.students[p].asked + Missed(L.students[p].came) = Questions
          /\ L.students[p].right <= L.students[p].asked
      BY <3>1 DEF LessonOK, Done
    <3>4. Missed(L.students[p].came) \in Nat
      BY <3>2 DEF Missed
    <3>5. L.students[p].asked = Questions - Missed(L.students[p].came)
      BY <3>2, <3>3, <3>4, Times
    <3> QED BY <3>3, <3>5 DEF Missed
  <2> QED BY <2>1 DEF MarksAreWhole
<1>6. TypeOK
  BY TypesHold
<1> QED BY <1>2, <1>3, <1>4, <1>5, <1>6 DEF LessonsAreWhole, RoomsAreWhole, MarksAreTrue

LEMMA TimetableHolds == DayInv => TimetableKept
<1> SUFFICES ASSUME DayInv
             PROVE  TimetableKept
  OBVIOUS
<1>0. /\ school \in SchoolType /\ \A l \in 1..Len(school.lessons) : LessonFits(school, l)
      /\ \A p \in Chara : SeatFits(school, p) /\ BellOK(p) /\ HeardOK(p) /\ Credit(p)
      /\ now \in Nat /\ online \subseteq Chara
  BY DayFacts DEF SchoolOK
<1>1. BellsOnTime
  BY <1>0 DEF BellsOnTime, BellOK
<1>2. CalledOncePerSlot
  BY <1>0 DEF CalledOncePerSlot, HeardOK
<1>3. AttendanceWasCalled
  <2>1. ASSUME NEW p \in Chara
        PROVE  Spent(school, p) <= Len(heard[p]) + hands[p]
    <3>1. Spent(school, p) \in Nat /\ Len(heard[p]) \in Nat /\ hands[p] \in 0..1 /\ Credit(p)
      BY DayFacts, SpentTyped
    <3> QED BY <3>1 DEF Credit
  <2> QED BY <2>1 DEF AttendanceWasCalled, Spent
<1>4. LessonsKeepTime
  <2>1. ASSUME NEW l \in 1..Len(school.lessons), Live(school.lessons[l])
        PROVE  now <= school.lessons[l].began + Length
    <3> DEFINE L == school.lessons[l]
    <3>1. /\ L \in LessonType /\ L.no <= Questions /\ now <= L.due /\ L.due + Rest(L) <= L.began + Length
      BY <1>0, <2>1 DEF LessonFits, LessonOK, InTime
    <3>2. L.no \in Nat /\ L.due \in Nat /\ L.began \in Nat
      BY <3>1, OfLesson
    <3> HIDE DEF L
    <3>3. Rest(L) \in Nat
      <4>1. \A m, n \in Nat : m * n \in Nat
        OBVIOUS
      <4>2. Questions - L.no \in Nat /\ AnswerTime + Grading \in Nat /\ Questions - 1 \in Nat
        BY <3>1, <3>2, Times
      <4>3. (Questions - L.no) * (AnswerTime + Grading) \in Nat
        BY <4>1, <4>2
      <4>4. Questions * AnswerTime \in Nat /\ (Questions - 1) * Grading \in Nat
        BY <4>1, <4>2, Times
      <4> QED BY <4>3, <4>4 DEF Rest
    <3>4. now <= L.began + Length
      BY <1>0, <3>1, <3>2, <3>3, Times
    <3> QED BY <3>4 DEF L
  <2>2. ASSUME NEW l \in 1..Len(school.lessons), Live(school.lessons[l])
        PROVE  now <= school.lessons[l].began + Speech + Questions * AnswerTime + (Questions - 1) * Grading
    <3>1. now <= school.lessons[l].began + Length /\ school.lessons[l].began \in Nat
      BY <1>0, <2>1, <2>2, OfSchool, OfLesson
    <3>2. Questions * AnswerTime \in Nat /\ (Questions - 1) * Grading \in Nat
      <4>1. \A m, n \in Nat : m * n \in Nat
        OBVIOUS
      <4> QED BY <4>1, Times
    <3>3. PICK a \in Nat, b \in Nat : a = Questions * AnswerTime /\ b = (Questions - 1) * Grading
      BY <3>2
    <3>4. Length = Speech + a + b
      BY <3>3 DEF Length
    <3>5. now <= school.lessons[l].began + Speech + a + b
      <4> DEFINE g == school.lessons[l].began
      <4>1. g \in Nat /\ now <= g + Length
        BY <3>1
      <4> HIDE DEF g
      <4>2. now <= g + Speech + a + b
        BY <1>0, <4>1, <3>4, Times
      <4> QED BY <4>2 DEF g
    <3> QED BY <3>3, <3>5
  <2> QED BY <2>2 DEF LessonsKeepTime, Live
<1>5. WakesSettle
  <2>1. ASSUME NEW p \in online, NEW admits \in BOOLEAN
        PROVE  NextDue(Polled(bell[p], admits)) > now
    <3> DEFINE c == Polled(bell[p], admits)
    <3>1. c.start = SlotStart(now) /\ (now >= PreBell(now) => c.pre = Begins(now))
      BY DayFacts DEF Polled, Rang, BellType
    <3>2. Begins(now) \in Nat /\ now < Begins(now) /\ PreBell(now) \in Int
      <4>1. Begins(now) \in Nat /\ now < Begins(now)
        BY <1>0, SlotOf
      <4> QED BY <4>1, Times DEF PreBell
    <3> HIDE DEF c
    <3>3. NextDue(c) > now
      BY <1>0, <3>1, <3>2 DEF NextDue, OwesStart
    <3> QED BY <3>3 DEF c
  <2>2. ASSUME NEW p \in online, school.seat[p] # Nobody
        PROVE  LET L == Pumped(school.lessons[school.seat[p]])
               IN  Over(L) \/ L.due > now
    <3> DEFINE L == school.lessons[school.seat[p]]
    <3>1. SeatFits(school, p)
      BY <1>0
    <3>2. school.seat[p] \in 1..Len(school.lessons) /\ Live(L)
      BY <2>2, <3>1 DEF SeatFits, Live
    <3>3. LessonOK(L) /\ InTime(L)
      BY <1>0, <3>2 DEF LessonFits
    <3> HIDE DEF L
    <3>4. Over(Pumped(L)) \/ Pumped(L).due > now
      BY <1>0, <3>2, <3>3, PumpedIsOK
    <3> QED BY <3>4 DEF L
  <2> QED BY <2>1, <2>2 DEF WakesSettle
<1> QED BY <1>1, <1>2, <1>3, <1>4, <1>5 DEF TimetableKept

(* A classroom is one room to its students' sessions, to itself and on     *)
(* every screen, and what is asked and marked in it is one account         *)
(* (Classrooms.open, Lesson.join, _lesson_retire, _lesson_over), as long   *)
(* as every lesson ends in the slot it began in.                           *)
THEOREM LessonsStayWhole == ASSUME LessonsFit PROVE Spec => []LessonsAreWhole
BY DayHolds, WholeHolds, PTL

(* Bells, calls, lessons and the wakes that drive them come when due, once *)
(* (Bell.poll, Bell.next_due, Lesson.pump and next_wake), as long as every *)
(* lesson ends in the slot it began in.                                    *)
THEOREM TheDayIsKept == ASSUME LessonsFit PROVE Spec => []TimetableKept
BY DayHolds, TimetableHolds, PTL

=============================================================================
