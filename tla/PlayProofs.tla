----------------------------- MODULE PlayProofs -----------------------------
(***************************************************************************)
(* Why every screen shows the drama party as it is, whatever scenario is   *)
(* played, for any number of people, stand-ins and roles.                  *)
(*                                                                         *)
(* The machine may do what it likes with registers and books; all it has   *)
(* to keep is that a cursor stays inside the scenario and that nobody gets *)
(* a part from it.  The party may lose and take people as it likes; all it *)
(* has to keep is that nobody has two parts and nobody's part is lost.     *)
(***************************************************************************)
EXTENDS Play, FiniteSetTheorems, SequenceTheorems, WellFoundedInduction, TLAPS

(* A member's own cursor.  It is held at a branch only, and then the       *)
(* client waits there.                                                     *)
RunnerFields ==
  {"role", "doing", "at", "begun", "held", "timedOut", "lost", "road", "book", "own"}

RunnerOK(r) ==
  /\ DOMAIN r = RunnerFields
  /\ r.role \in Roles /\ r.at \in DOMAIN Scene
  /\ r.held \in BOOLEAN /\ r.begun \in BOOLEAN
  /\ r.begun => r.doing \in {"box", "pressed", "waits"}
  /\ r.held => r.doing = "waits" /\ ~r.begun /\ Scene[r.at].op = "br"

StageOK(pl) ==
  /\ DOMAIN pl = {"scr", "cur", "reg"} /\ DOMAIN pl.scr = Chara
  /\ \A c \in Chara : InPlay(pl, c) => RunnerOK(pl.scr[c])

(* What the machine may make of a play: it gives nobody a part, leaves     *)
(* everybody theirs, and moves nobody's cursor that is not held.           *)
Onward(pl, q) ==
  /\ StageOK(q)
  /\ \A c \in Chara :
       /\ InPlay(q, c) => InPlay(pl, c) /\ q.scr[c].role = pl.scr[c].role
       /\ InPlay(pl, c) /\ ~pl.scr[c].held => q.scr[c] = pl.scr[c]

-----------------------------------------------------------------------------
LEMMA FirstBad ==
  ASSUME NEW S \in SUBSET Nat, S # {}
  PROVE  \E n \in S : \A m \in S : n <= m
<1> DEFINE R == {pair \in Nat \X Nat : pair[1] < pair[2]}
<1>1. IsWellFoundedOn(R, Nat)
  BY NatLessThanWellFounded DEF OpToRel
<1>2. \A i, j \in Nat : i < j => <<i, j>> \in R
  OBVIOUS
<1> HIDE DEF R
<1>3. PICK n \in S : \A m \in S : ~ (<<m, n>> \in R)
  BY <1>1, WFMin
<1>4. \A m \in S : ~ (m < n)
  BY <1>2, <1>3
<1> QED BY <1>4

(* The four things done over and over.                                     *)
Done(kind, pl, cast, self, s, k) ==
  IF kind = "step" THEN Step(s, self)
  ELSE IF kind = "walk" THEN StepOnce(s, cast, self)
  ELSE IF kind = "turn"
  THEN IF cast[k].npc /\ pl.cur[cast[k].role] # None THEN WalkOne(s, cast, cast[k].role) ELSE s
  ELSE IF cast[k].who \in Stage(s, cast) /\ s.scr[cast[k].who].held
       THEN Branch(Anew(s, cast[k].who), cast, cast[k].who) ELSE s

Running(kind, pl, cast, self, s, n, g) ==
  g = [k \in 0..n |-> IF k = 0 THEN s ELSE Done(kind, pl, cast, self, g[k - 1], k)]

LEMMA RunExtends ==
  ASSUME NEW kind, NEW pl, NEW cast, NEW self, NEW s, NEW n \in Nat, n > 0, NEW g, Running(kind, pl, cast, self, s, n - 1, g)
  PROVE  \E h : Running(kind, pl, cast, self, s, n, h)
<1> DEFINE next(G, i) == Done(kind, pl, cast, self, G, i)
           last == next(g[n - 1], n)
           h == [i \in 0..n |-> IF i = n THEN last ELSE g[i]]
<1>1. g = [i \in 0..(n - 1) |-> IF i = 0 THEN s ELSE next(g[i - 1], i)]
  BY Zenon DEF Running
<1> HIDE DEF next
<1>2. \A i \in 0..(n - 1) : h[i] = g[i]
  OBVIOUS
<1>3. h[n] = last
  OBVIOUS
<1> HIDE DEF last
<1>4. \A i \in 0..n : h[i] = IF i = 0 THEN s ELSE next(h[i - 1], i)
  <2> TAKE i \in 0..n
  <2>1. CASE i = n
    <3>1. n - 1 \in 0..(n - 1) /\ h[n - 1] = g[n - 1]
      BY <1>2
    <3>2. h[n] = next(h[n - 1], n)
      BY <1>3, <3>1 DEF last
    <3> HIDE DEF h
    <3> QED BY <2>1, <3>2
  <2>2. CASE i # n
    <3>1. i \in 0..(n - 1) /\ (i # 0 => i - 1 \in 0..(n - 1))
      BY <2>2
    <3>2. g[i] = IF i = 0 THEN s ELSE next(g[i - 1], i)
      BY <1>1, <3>1
    <3>3. h[i] = g[i] /\ (i # 0 => h[i - 1] = g[i - 1])
      BY <1>2, <3>1
    <3> HIDE DEF h
    <3> QED BY <3>2, <3>3
  <2> QED BY <2>1, <2>2
<1>5. h = [i \in 0..n |-> h[i]]
  OBVIOUS
<1> HIDE DEF h
<1>6. h = [i \in 0..n |-> IF i = 0 THEN s ELSE next(h[i - 1], i)]
  BY <1>4, <1>5
<1>7. Running(kind, pl, cast, self, s, n, h)
  BY <1>6 DEF Running, next
<1> QED BY <1>7

LEMMA RunExists ==
  ASSUME NEW kind, NEW pl, NEW cast, NEW self, NEW s, NEW n \in Nat
  PROVE  \E g : Running(kind, pl, cast, self, s, n, g)
<1> DEFINE Bad == {m \in Nat : ~ \E g : Running(kind, pl, cast, self, s, m, g)}
<1> SUFFICES ASSUME n \in Bad
             PROVE  FALSE
  OBVIOUS
<1>1. PICK m \in Bad : m \in Nat /\ \A i \in Bad : m <= i
  BY FirstBad
<1>2. CASE m = 0
  <2> DEFINE g == [k \in 0..0 |-> s]
  <2>1. g = [k \in 0..0 |-> IF k = 0 THEN s ELSE Done(kind, pl, cast, self, g[k - 1], k)]
    OBVIOUS
  <2>2. Running(kind, pl, cast, self, s, 0, g)
    BY <2>1 DEF Running
  <2> QED BY <1>1, <1>2, <2>2
<1>3. CASE m # 0
  <2>1. m - 1 \in Nat /\ m - 1 \notin Bad
    BY <1>1, <1>3
  <2>2. PICK g : Running(kind, pl, cast, self, s, m - 1, g)
    BY <2>1
  <2>3. \E h : Running(kind, pl, cast, self, s, m, h)
    BY <1>1, <1>3, <2>2, RunExtends
  <2> QED BY <1>1, <2>3
<1> QED BY <1>2, <1>3

(* A run begins with s, and each is made of the one before.                *)
Goes(kind, pl, cast, self, s, n, g) ==
  g[0] = s /\ \A k \in 1..n : k - 1 \in 0..n /\ g[k] = Done(kind, pl, cast, self, g[k - 1], k)

LEMMA RunStep ==
  ASSUME NEW kind, NEW pl, NEW cast, NEW self, NEW s, NEW n \in Nat, NEW g,
         Running(kind, pl, cast, self, s, n, g)
  PROVE  Goes(kind, pl, cast, self, s, n, g)
<1>1. g = [k \in 0..n |-> IF k = 0 THEN s ELSE Done(kind, pl, cast, self, g[k - 1], k)]
  BY DEF Running
<1> DEFINE next(G, i) == Done(kind, pl, cast, self, G, i)
<1>2. g = [k \in 0..n |-> IF k = 0 THEN s ELSE next(g[k - 1], k)]
  BY <1>1
<1> HIDE DEF next
<1>3. g[0] = s /\ \A k \in 1..n : k - 1 \in 0..n /\ g[k] = next(g[k - 1], k)
  BY <1>2
<1> QED BY <1>3 DEF next, Goes

(* What each of them comes to is the last of a run.                        *)
Steps(s, self, n) == Repeated(LAMBDA t : Step(t, self), s, n)

LEMMA StepsRun ==
  ASSUME NEW self, NEW s, NEW n \in Nat
  PROVE  \E g : /\ Running("step", None, None, self, s, n, g)
                /\ Steps(s, self, n) = g[n]
<1> DEFINE g == CHOOSE h : Running("step", None, None, self, s, n, h)
<1>1. Running("step", None, None, self, s, n, g)
  <2>1. \E h : Running("step", None, None, self, s, n, h)
    BY RunExists
  <2> QED BY <2>1
<1>2. Steps(s, self, n) = g[n]
  BY Zenon DEF Steps, Repeated, Running, Done
<1> QED BY <1>1, <1>2

LEMMA WalkRuns ==
  ASSUME NEW pl, NEW cast, NEW role
  PROVE  \E g : /\ Running("walk", None, cast, role, Unheld(pl, cast, role), StepBudget, g)
                /\ WalkOne(pl, cast, role) = g[StepBudget]
<1> DEFINE s == Unheld(pl, cast, role)
           g == CHOOSE h : Running("walk", None, cast, role, s, StepBudget, h)
<1>1. Running("walk", None, cast, role, s, StepBudget, g)
  <2>1. \E h : Running("walk", None, cast, role, s, StepBudget, h)
    BY BudgetAssumption, RunExists
  <2> QED BY <2>1
<1>2. WalkOne(pl, cast, role) = g[StepBudget]
  BY Zenon DEF WalkOne, Repeated, Running, Done
<1> QED BY <1>1, <1>2

LEMMA TurnsRun ==
  ASSUME NEW pl, NEW cast, Len(cast) \in Nat
  PROVE  \E g : /\ Running("turn", pl, cast, None, pl, Len(cast), g)
                /\ Walk(pl, cast) = g[Len(cast)]
<1> DEFINE g == CHOOSE h : Running("turn", pl, cast, None, pl, Len(cast), h)
<1>1. Running("turn", pl, cast, None, pl, Len(cast), g)
  <2>1. \E h : Running("turn", pl, cast, None, pl, Len(cast), h)
    BY RunExists
  <2> QED BY <2>1
<1>2. Walk(pl, cast) = g[Len(cast)]
  BY Zenon DEF Walk, InTurn, Running, Done
<1> QED BY <1>1, <1>2

LEMMA ReleasesRun ==
  ASSUME NEW pl, NEW cast, Len(cast) \in Nat
  PROVE  \E g : /\ Running("release", None, cast, None, pl, Len(cast), g)
                /\ ReleaseHeld(pl, cast) = g[Len(cast)]
<1> DEFINE g == CHOOSE h : Running("release", None, cast, None, pl, Len(cast), h)
<1>1. Running("release", None, cast, None, pl, Len(cast), g)
  <2>1. \E h : Running("release", None, cast, None, pl, Len(cast), h)
    BY RunExists
  <2> QED BY <2>1
<1>2. ReleaseHeld(pl, cast) = g[Len(cast)]
  BY Zenon DEF ReleaseHeld, InTurn, Running, Done
<1> QED BY <1>1, <1>2

-----------------------------------------------------------------------------
(* The machine.  A run moves a cursor and writes registers and books.      *)
LEMMA SceneIsThere ==
  /\ Len(Scene) \in Nat \ {0} /\ DOMAIN Scene = 1..Len(Scene)
  /\ \A i \in DOMAIN Scene : Scene[i].op = "end" <=> i = Len(Scene)
  /\ \A i \in DOMAIN Scene : Scene[i].op \in {"jp", "br", "ba"} => Scene[i].to \in DOMAIN Scene
<1>1. Scene \in Seq(Line) /\ Scene # <<>>
  BY SceneAssumption
<1> HIDE DEF Line
<1>2. Len(Scene) \in Nat \ {0} /\ DOMAIN Scene = 1..Len(Scene)
  BY <1>1
<1> QED BY <1>2, SceneAssumption

LEMMA StopIsThere ==
  ASSUME NEW i \in DOMAIN Scene, NEW self \in Roles
  PROVE  StopFrom(i, self) \in DOMAIN Scene /\ StopFrom(i, self) >= i
<1> DEFINE S == {j \in i..Len(Scene) : ~Silent(j, self)}
<1>1. i \in Nat /\ Len(Scene) \in Nat /\ i <= Len(Scene)
  BY SceneIsThere
<1>2. Len(Scene) \in S
  BY <1>1, SceneIsThere DEF Silent
<1>3. S \in SUBSET Nat
  BY <1>1
<1>4. PICK j \in S : \A k \in S : j <= k
  BY <1>2, <1>3, FirstBad
<1>5. j \in i..Len(Scene) /\ ~Silent(j, self) /\ \A k \in i..(j - 1) : Silent(k, self)
  BY <1>1, <1>4
<1>6. StopFrom(i, self) = CHOOSE m \in i..Len(Scene) :
                            ~Silent(m, self) /\ \A k \in i..(m - 1) : Silent(k, self)
  BY Zenon DEF StopFrom, Stops
<1>7. StopFrom(i, self) \in i..Len(Scene)
  BY <1>5, <1>6, Zenon
<1> QED BY <1>1, <1>7, SceneIsThere

(* s is a cursor and the registers, the cursor at i and otherwise r's.     *)
Moved(s, r, i) ==
  /\ DOMAIN s = {"w", "reg"} /\ DOMAIN s.w = RunnerFields
  /\ s.w.at = i
  /\ s.w.role = r.role /\ s.w.doing = r.doing /\ s.w.begun = r.begun /\ s.w.held = r.held

LEMMA StepMoves ==
  ASSUME NEW s, NEW self, NEW r, NEW i \in Nat, Moved(s, r, i)
  PROVE  Moved(Step(s, self), r, i + 1)
<1> DEFINE on == [s EXCEPT !.w.at = @ + 1]
<1>1. Moved(on, r, i + 1)
  BY DEF Moved, RunnerFields
<1> HIDE DEF on
<1>2. ASSUME NEW b
      PROVE  Moved([on EXCEPT !.w.book = b], r, i + 1)
  BY <1>1 DEF Moved, RunnerFields
<1>3. ASSUME NEW b
      PROVE  Moved([on EXCEPT !.reg = b], r, i + 1)
  BY <1>1 DEF Moved, RunnerFields
<1>4. ASSUME NEW x, NEW v
      PROVE  Moved(Wrote(on, x, v), r, i + 1)
  BY <1>1 DEF Moved, RunnerFields, Wrote
<1>5. Moved([on EXCEPT !.w.book = ArmWalkedBy(@, s.w.at, self)], r, i + 1)
  BY <1>2
<1>6. ASSUME NEW line
      PROVE  Moved(Executed(s, on, line), r, i + 1)
  <2>1. CASE line.op = "decl"
    BY <1>3, <2>1 DEF Executed
  <2>2. CASE line.op = "str"
    BY <1>4, <2>2 DEF Executed
  <2>3. CASE line.op = "eq"
    BY <1>4, <2>3 DEF Executed
  <2>4. CASE line.op \notin {"decl", "str", "eq"}
    BY <1>1, <2>4 DEF Executed
  <2> QED BY <2>1, <2>2, <2>3, <2>4
<1>7. \/ Step(s, self) = on
      \/ Step(s, self) = [on EXCEPT !.w.book = ArmWalkedBy(@, s.w.at, self)]
      \/ \E line : Step(s, self) = Executed(s, on, line)
  BY Zenon DEF Step, on
<1> QED BY <1>1, <1>5, <1>6, <1>7

LEMMA StepsMove ==
  ASSUME NEW s, NEW self, NEW r, NEW i \in Nat, Moved(s, r, i), NEW n \in Nat
  PROVE  Moved(Steps(s, self, n), r, i + n)
<1>1. PICK g : /\ Running("step", None, None, self, s, n, g)
               /\ Steps(s, self, n) = g[n]
  BY StepsRun
<1>2. g[0] = s /\ \A k \in 1..n : k - 1 \in 0..n /\ g[k] = Done("step", None, None, self, g[k - 1], k)
  BY <1>1, RunStep DEF Goes
<1> DEFINE Bad == {k \in 0..n : ~Moved(g[k], r, i + k)}
<1> SUFFICES ASSUME n \in Bad
             PROVE  FALSE
  BY <1>1
<1>3. PICK k \in Bad : \A m \in Bad : k <= m
  <2>1. Bad \in SUBSET Nat /\ Bad # {}
    OBVIOUS
  <2> HIDE DEF Bad
  <2> QED BY <2>1, FirstBad
<1>4. k # 0
  BY <1>2, <1>3
<1>5. k - 1 \in 0..n /\ k - 1 \notin Bad /\ k \in 1..n
  BY <1>3, <1>4
<1>6. Moved(g[k - 1], r, i + (k - 1)) /\ g[k] = Step(g[k - 1], self)
  BY <1>2, <1>5 DEF Done
<1>7. Moved(g[k], r, (i + (k - 1)) + 1)
  BY <1>5, <1>6, StepMoves
<1>8. (i + (k - 1)) + 1 = i + k
  BY <1>5
<1> QED BY <1>3, <1>7, <1>8

(* Follower.at comes to a stop of its part's, and to no other place.       *)
LEMMA AtStops ==
  ASSUME NEW r, RunnerOK(r), NEW reg
  PROVE  Moved(At([w |-> r, reg |-> reg], r.role), r, StopFrom(r.at, r.role))
<1> DEFINE s == [w |-> r, reg |-> reg]
           stop == StopFrom(r.at, r.role)
<1>1. DOMAIN s = {"w", "reg"} /\ s.w = r
  OBVIOUS
<1>2. stop \in Nat /\ r.at \in Nat /\ stop - r.at \in Nat
  BY StopIsThere, SceneIsThere DEF RunnerOK
<1>3. At(s, r.role) = Steps(s, r.role, StopFrom(s.w.at, r.role) - s.w.at)
  BY Zenon DEF At, Steps
<1> HIDE DEF s
<1>4. At(s, r.role) = Steps(s, r.role, stop - r.at)
  BY <1>1, <1>3
<1>5. Moved(s, r, r.at)
  BY <1>1 DEF Moved, RunnerOK
<1> HIDE DEF stop
<1>6. Moved(Steps(s, r.role, stop - r.at), r, r.at + (stop - r.at))
  BY <1>2, <1>5, StepsMove
<1>7. r.at + (stop - r.at) = stop
  BY <1>2
<1> QED BY <1>4, <1>6, <1>7 DEF s, stop

(* recompute_condition ends where it began.                                *)
LEMMA RecomputedStays ==
  ASSUME NEW r, RunnerOK(r), NEW reg, NEW self
  PROVE  Moved(Recomputed([w |-> r, reg |-> reg], self), r, r.at)
<1> DEFINE s == [w |-> r, reg |-> reg]
           here == s.w.at
           rung(j) == \A k \in j..(here - 1) : Scene[k].op \in {"str", "eq"}
           rungs == {j \in 1..here : j >= here - ConditionLookback /\ rung(j)}
           start == CHOOSE j \in rungs : \A k \in rungs : j <= k
           s0 == [s EXCEPT !.w.at = start]
<1>1. DOMAIN s = {"w", "reg"} /\ s.w = r
  OBVIOUS
<1>2. Recomputed(s, self) = Steps(s0, self, here - start)
  BY Zenon DEF Recomputed, Steps
<1>3. here = r.at /\ here \in Nat /\ here >= 1
  BY <1>1, SceneIsThere DEF RunnerOK
<1>4. start \in rungs
  <2>1. here \in rungs
    BY <1>3 DEF ConditionLookback
  <2>2. rungs \in SUBSET Nat
    BY <1>3
  <2> HIDE DEF rungs
  <2>3. \E j \in rungs : \A k \in rungs : j <= k
    BY <2>1, <2>2, FirstBad
  <2> QED BY <2>3
<1>5. start \in Nat /\ here - start \in Nat
  BY <1>3, <1>4
<1> HIDE DEF start, s
<1>6. Moved(s0, r, start)
  BY <1>1 DEF Moved, RunnerOK, RunnerFields
<1> HIDE DEF s0, here
<1>7. Moved(Steps(s0, self, here - start), r, start + (here - start))
  BY <1>5, <1>6, StepsMove
<1>8. start + (here - start) = r.at
  BY <1>3, <1>5
<1> QED BY <1>2, <1>7, <1>8 DEF s

-----------------------------------------------------------------------------
(* The stand-ins: no cursor of theirs is a member's.                       *)
Aside(pl, q) == DOMAIN q = {"scr", "cur", "reg"} /\ q.scr = pl.scr

LEMMA OnceAside ==
  ASSUME NEW pl, NEW cast, NEW role, DOMAIN pl = {"scr", "cur", "reg"}
  PROVE  Aside(pl, StepOnce(pl, cast, role)) /\ Aside(pl, Unheld(pl, cast, role))
<1>1. ASSUME NEW c
      PROVE  Aside(pl, [pl EXCEPT !.cur[role] = c])
  BY DEF Aside
<1>2. ASSUME NEW c, NEW f, NEW v
      PROVE  Aside(pl, [pl EXCEPT !.cur[role] = c, !.reg = v])
  BY DEF Aside
<1>3. ASSUME NEW c, NEW v
      PROVE  Aside(pl, [[pl EXCEPT !.cur[role] = c] EXCEPT !.reg = v])
  BY DEF Aside
<1>4. ASSUME NEW s
      PROVE  Aside(pl, Plays(pl, role, s))
  BY DEF Aside, Plays
<1>5. Aside(pl, pl)
  BY DEF Aside
<1>6. Aside(pl, Unheld(pl, cast, role))
  BY <1>4, <1>5 DEF Unheld
<1>7. Aside(pl, StepOnce(pl, cast, role))
  <2> DEFINE cur == pl.cur[role]
             line == Scene[cur.at]
             Set(c) == [pl EXCEPT !.cur[role] = c]
             Both(c, v) == [Set(c) EXCEPT !.reg = v]
             r == StepOnce(pl, cast, role)
             ending == Set([cur EXCEPT !.done = TRUE])
             meeting == Set([cur EXCEPT !.blocked = TRUE])
             branching == IF Fenced(pl, cast, cur.book, role, cur.at)
                          THEN Set([cur EXCEPT !.held = TRUE])
                          ELSE Set([cur EXCEPT !.at = IF Verdict(cur, pl.reg) = 1 THEN line.to ELSE @ + 1])
             choosing == IF role \in line.of
                         THEN [Set([cur EXCEPT !.at = @ + 1, !.book = Answered(@, cur.at)])
                                 EXCEPT !.reg = ChoseOn(@, role, StandInChoice)]
                         ELSE Set([cur EXCEPT !.at = @ + 1, !.book = WalkedPast(@, cur.at, role)])
             typing == [Set([cur EXCEPT !.at = @ + 1])
                          EXCEPT !.reg = IF role \in line.of THEN TypedOn(@, cur.at) ELSE @]
             flowing == Set([cur EXCEPT !.at = FlowedTo(@)])
             stepping == Plays(pl, role, Step([w |-> cur, reg |-> pl.reg], role))
  <2>1. Aside(pl, ending) /\ Aside(pl, meeting) /\ Aside(pl, flowing) /\ Aside(pl, stepping)
    BY <1>1, <1>4
  <2>2. Aside(pl, branching)
    BY <1>1
  <2>3. Aside(pl, choosing)
    BY <1>1, <1>3
  <2>4. Aside(pl, typing)
    BY <1>3
  <2>5. r = CASE Parked(cur) \/ cur.held -> pl
              [] line.op = "end" -> ending
              [] line.op = "sync" -> meeting
              [] line.op = "br" -> branching
              [] line.op = "select" -> choosing
              [] line.op = "string" -> typing
              [] Flows(line.op) /\ ~Silent(cur.at, role) -> flowing
              [] OTHER -> stepping
    BY Zenon DEF StepOnce
  <2> HIDE DEF ending, meeting, branching, choosing, typing, flowing, stepping, r, cur, line
  <2>6. r \in {pl, ending, meeting, branching, choosing, typing, flowing, stepping}
    BY <2>5
  <2> QED BY <2>1, <2>2, <2>3, <2>4, <2>6, <1>5 DEF r
<1> QED BY <1>6, <1>7

LEMMA WalkOneAside ==
  ASSUME NEW pl, NEW cast, NEW role, DOMAIN pl = {"scr", "cur", "reg"}
  PROVE  Aside(pl, WalkOne(pl, cast, role))
<1> DEFINE s == Unheld(pl, cast, role)
           n == StepBudget
<1>0. Aside(pl, s)
  BY OnceAside
<1> HIDE DEF s
<1>1. PICK g : /\ Running("walk", None, cast, role, s, n, g)
               /\ WalkOne(pl, cast, role) = g[n]
  BY WalkRuns DEF s
<1>2. n \in Nat
  BY BudgetAssumption
<1> HIDE DEF n
<1>3. g[0] = s /\ \A k \in 1..n : k - 1 \in 0..n /\ g[k] = Done("walk", None, cast, role, g[k - 1], k)
  BY <1>1, <1>2, RunStep DEF Goes
<1> DEFINE Bad == {k \in 0..n : ~Aside(pl, g[k])}
<1> SUFFICES ASSUME n \in Bad
             PROVE  FALSE
  BY <1>1, <1>2
<1>4. PICK k \in Bad : \A m \in Bad : k <= m
  <2>1. Bad \in SUBSET Nat /\ Bad # {}
    BY <1>2
  <2> HIDE DEF Bad
  <2> QED BY <2>1, FirstBad
<1>5. k # 0
  BY <1>0, <1>3, <1>4
<1>6. k - 1 \in 0..n /\ k - 1 \notin Bad /\ k \in 1..n
  BY <1>2, <1>4, <1>5
<1>7. Aside(pl, g[k - 1]) /\ g[k] = StepOnce(g[k - 1], cast, role)
  BY <1>3, <1>6 DEF Done
<1>8. Aside(g[k - 1], g[k])
  BY <1>7, OnceAside DEF Aside
<1> QED BY <1>4, <1>7, <1>8 DEF Aside

LEMMA WalkAside ==
  ASSUME NEW pl, NEW cast, Len(cast) \in Nat, DOMAIN pl = {"scr", "cur", "reg"}
  PROVE  Aside(pl, Walk(pl, cast))
<1> DEFINE n == Len(cast)
<1>1. PICK g : Running("turn", pl, cast, None, pl, n, g) /\ Walk(pl, cast) = g[n]
  BY TurnsRun
<1>2. n \in Nat
  OBVIOUS
<1> HIDE DEF n
<1>3. g[0] = pl /\ \A k \in 1..n : k - 1 \in 0..n /\ g[k] = Done("turn", pl, cast, None, g[k - 1], k)
  <2>1. Running("turn", pl, cast, None, pl, n, g)
    BY <1>1
  <2>2. Goes("turn", pl, cast, None, pl, n, g)
    BY <1>2, <2>1, RunStep, Zenon
  <2> QED BY <2>2 DEF Goes
<1> DEFINE Bad == {k \in 0..n : ~Aside(pl, g[k])}
<1> SUFFICES ASSUME n \in Bad
             PROVE  FALSE
  BY <1>1, <1>2
<1>4. PICK k \in Bad : \A m \in Bad : k <= m
  <2>1. Bad \in SUBSET Nat /\ Bad # {}
    BY <1>2
  <2> HIDE DEF Bad
  <2> QED BY <2>1, FirstBad
<1>5. k # 0
  BY <1>3, <1>4 DEF Aside
<1>6. k - 1 \in 0..n /\ k - 1 \notin Bad /\ k \in 1..n
  BY <1>2, <1>4, <1>5
<1>7. Aside(pl, g[k - 1])
  BY <1>6
<1>8. g[k] = g[k - 1] \/ g[k] = WalkOne(g[k - 1], cast, cast[k].role)
  BY <1>3, <1>6 DEF Done
<1>9. Aside(g[k - 1], g[k])
  <2>1. DOMAIN g[k - 1] = {"scr", "cur", "reg"}
    BY <1>7 DEF Aside
  <2>2. CASE g[k] = g[k - 1]
    BY <2>1, <2>2 DEF Aside
  <2>3. CASE g[k] = WalkOne(g[k - 1], cast, cast[k].role)
    BY <2>1, <2>3, WalkOneAside
  <2> QED BY <1>8, <2>2, <2>3
<1> QED BY <1>4, <1>7, <1>9 DEF Aside

(* What keeps the members' cursors keeps the play.                         *)
LEMMA AsideOnward ==
  ASSUME NEW pl, NEW q, StageOK(pl), Aside(pl, q)
  PROVE  Onward(pl, q)
BY DEF StageOK, Aside, Onward, InPlay

LEMMA OnwardOnward ==
  ASSUME NEW pl, NEW q, NEW r, Onward(pl, q), Onward(q, r)
  PROVE  Onward(pl, r)
BY DEF Onward, InPlay

(* One member's cursor changes.                                            *)
Moves(pl, c, r) == [pl EXCEPT !.scr[c] = r]

LEMMA MovesOne ==
  ASSUME NEW pl, StageOK(pl), NEW c \in Chara, NEW r, r # Offstage => RunnerOK(r)
  PROVE  /\ StageOK(Moves(pl, c, r)) /\ Moves(pl, c, r).scr[c] = r
         /\ \A d \in Chara \ {c} : Moves(pl, c, r).scr[d] = pl.scr[d]
BY DEF StageOK, Moves, InPlay

LEMMA MovesOnward ==
  ASSUME NEW pl, StageOK(pl), NEW c \in Chara, InPlay(pl, c), pl.scr[c].held, NEW r,
         RunnerOK(r), r.role = pl.scr[c].role
  PROVE  Onward(pl, Moves(pl, c, r))
BY MovesOne DEF Onward, InPlay

(* A walk that ends in the scenario leaves a cursor as good as it was.     *)
LEMMA MovedFits ==
  ASSUME NEW r, RunnerOK(r), ~r.held, NEW s, NEW i \in DOMAIN Scene, Moved(s, r, i)
  PROVE  /\ RunnerOK(s.w) /\ s.w.role = r.role /\ ~s.w.held
         /\ ~r.begun => ~s.w.begun
BY DEF RunnerOK, Moved

LEMMA FollowsOne ==
  ASSUME NEW pl, StageOK(pl), NEW c \in Chara, NEW s, RunnerOK(s.w)
  PROVE  /\ StageOK(Follows(pl, c, s)) /\ Follows(pl, c, s).scr[c] = s.w
         /\ \A d \in Chara \ {c} : Follows(pl, c, s).scr[d] = pl.scr[d]
BY DEF StageOK, Follows, InPlay

(* A branch computed again is still that branch.                           *)
LEMMA AnewFits ==
  ASSUME NEW pl, StageOK(pl), NEW c \in Chara, InPlay(pl, c), pl.scr[c].held
  PROVE  /\ StageOK(Anew(pl, c)) /\ RunnerOK(Anew(pl, c).scr[c])
         /\ Anew(pl, c).scr[c].role = pl.scr[c].role
         /\ ~Anew(pl, c).scr[c].held /\ ~Anew(pl, c).scr[c].begun
         /\ Scene[Anew(pl, c).scr[c].at].op = "br"
         /\ \A d \in Chara \ {c} : Anew(pl, c).scr[d] = pl.scr[d]
<1> DEFINE r == [pl.scr[c] EXCEPT !.held = FALSE]
           s == Recomputed([w |-> r, reg |-> pl.reg], pl.scr[c].role)
<1>1. /\ RunnerOK(pl.scr[c]) /\ ~pl.scr[c].begun /\ Scene[pl.scr[c].at].op = "br"
  BY DEF StageOK, RunnerOK
<1>2. RunnerOK(r) /\ ~r.held /\ ~r.begun /\ r.role = pl.scr[c].role /\ r.at = pl.scr[c].at
  BY <1>1 DEF RunnerOK, RunnerFields
<1> HIDE DEF r
<1>3. Moved(s, r, r.at)
  BY <1>2, RecomputedStays
<1>4. Anew(pl, c) = Follows(pl, c, s)
  BY Zenon DEF Anew, r, s
<1> HIDE DEF s
<1>5. /\ RunnerOK(s.w) /\ s.w.role = r.role /\ ~s.w.held /\ ~s.w.begun /\ s.w.at = r.at
  BY <1>2, <1>3 DEF RunnerOK, Moved
<1> QED BY <1>1, <1>2, <1>4, <1>5, FollowsOne

(* What a branch makes of one member's cursor, and of nobody else's.       *)
Turns(pl, q, c) ==
  /\ StageOK(q)
  /\ InPlay(q, c) => q.scr[c].role = pl.scr[c].role
  /\ \A d \in Chara \ {c} : q.scr[d] = pl.scr[d]

LEMMA TookTurns ==
  ASSUME NEW pl, StageOK(pl), NEW c \in Chara, RunnerOK(pl.scr[c]),
         ~pl.scr[c].begun, Scene[pl.scr[c].at].op = "br", NEW way
  PROVE  Turns(pl, Took(pl, c, way), c)
<1> DEFINE r == pl.scr[c]
           to == IF way = 1 THEN Scene[r.at].to ELSE r.at + 1
           road == IF Len(r.road) < MaxRoad THEN Append(r.road, way) ELSE r.road
           p1 == [pl EXCEPT !.scr[c].at = to]
           p2 == [p1 EXCEPT !.scr[c].doing = "reading"]
           p3 == [p2 EXCEPT !.scr[c].held = FALSE]
           p4 == [p3 EXCEPT !.scr[c].road = road]
           Same(p) == /\ DOMAIN p = {"scr", "cur", "reg"} /\ DOMAIN p.scr = Chara
                      /\ DOMAIN p.scr[c] = RunnerFields
                      /\ \A d \in Chara \ {c} : p.scr[d] = pl.scr[d]
                      /\ p.scr[c].role = r.role /\ p.scr[c].begun = r.begun
                      /\ p.scr[c].road = r.road
<1>1. to \in DOMAIN Scene
  BY SceneIsThere DEF RunnerOK
<1> HIDE DEF to, road
<1>2. Same(p1) /\ p1.scr[c].at = to
  BY DEF StageOK, RunnerOK, RunnerFields
<1> HIDE DEF p1
<1>3. Same(p2) /\ p2.scr[c].at = to /\ p2.scr[c].doing = "reading"
  BY <1>2 DEF RunnerFields
<1> HIDE DEF p2
<1>4. Same(p3) /\ p3.scr[c].at = to /\ p3.scr[c].doing = "reading" /\ p3.scr[c].held = FALSE
  BY <1>3 DEF RunnerFields
<1> HIDE DEF p3
<1>5. Took(pl, c, way) = p4
  <2>1. Took(pl, c, way) = [pl EXCEPT !.scr[c].at = to, !.scr[c].doing = "reading",
                                      !.scr[c].held = FALSE, !.scr[c].road = road]
    BY Zenon DEF Took, to, road
  <2> QED BY <2>1, Zenon DEF p1, p2, p3
<1>6. /\ DOMAIN p4 = {"scr", "cur", "reg"} /\ DOMAIN p4.scr = Chara
      /\ DOMAIN p4.scr[c] = RunnerFields
      /\ \A d \in Chara \ {c} : p4.scr[d] = pl.scr[d]
      /\ p4.scr[c].role = r.role /\ p4.scr[c].begun = r.begun
      /\ p4.scr[c].at = to /\ p4.scr[c].doing = "reading" /\ p4.scr[c].held = FALSE
  BY <1>4 DEF RunnerFields
<1> HIDE DEF p4
<1>7. RunnerOK(p4.scr[c])
  BY <1>1, <1>6 DEF RunnerOK
<1> QED BY <1>5, <1>6, <1>7 DEF Turns, StageOK, InPlay

LEMMA BranchTurns ==
  ASSUME NEW pl, StageOK(pl), NEW c \in Chara, RunnerOK(pl.scr[c]),
         ~pl.scr[c].begun, Scene[pl.scr[c].at].op = "br", NEW cast, Len(cast) \in Nat
  PROVE  Turns(pl, Branch(pl, cast, c), c)
<1>1. PICK p : Aside(pl, p) /\ Branch(pl, cast, c) = BranchNow(p, cast, c)
  <2>1. Aside(pl, pl) /\ Aside(pl, Walk(pl, cast))
    BY WalkAside DEF StageOK, Aside
  <2>2. \/ Branch(pl, cast, c) = BranchNow(pl, cast, c)
        \/ Branch(pl, cast, c) = BranchNow(Walk(pl, cast), cast, c)
    BY Zenon DEF Branch
  <2> QED BY <2>1, <2>2
<1>2. StageOK(p) /\ p.scr = pl.scr
  BY <1>1 DEF StageOK, Aside, InPlay
<1> DEFINE r == p.scr[c]
           held == [p EXCEPT !.scr[c].held = TRUE, !.scr[c].doing = "waits"]
<1>3. Turns(p, held, c)
  <2>1. /\ DOMAIN held = {"scr", "cur", "reg"} /\ DOMAIN held.scr = Chara
        /\ DOMAIN held.scr[c] = RunnerFields
        /\ \A d \in Chara \ {c} : held.scr[d] = p.scr[d]
        /\ held.scr[c].held = TRUE /\ held.scr[c].doing = "waits"
        /\ held.scr[c].role = r.role /\ held.scr[c].at = r.at /\ held.scr[c].begun = r.begun
    BY <1>2 DEF StageOK, RunnerOK, RunnerFields
  <2> HIDE DEF held
  <2>2. RunnerOK(held.scr[c])
    BY <1>2, <2>1 DEF RunnerOK
  <2> QED BY <1>2, <2>1, <2>2 DEF Turns, StageOK, InPlay
<1>4. Turns(p, Took(p, c, Verdict(r, p.reg)), c)
  BY <1>2, TookTurns
<1>5. BranchNow(p, cast, c) = held \/ BranchNow(p, cast, c) = Took(p, c, Verdict(r, p.reg))
  BY Zenon DEF BranchNow
<1> HIDE DEF held
<1> QED BY <1>1, <1>2, <1>3, <1>4, <1>5 DEF Turns

(* Holding a branch, letting it go or asking it again is Onward.           *)
LEMMA ReleaseOnward ==
  ASSUME online \subseteq Chara, NEW pl, StageOK(pl), NEW cast, Len(cast) \in Nat
  PROVE  Onward(pl, ReleaseHeld(pl, cast))
<1> DEFINE n == Len(cast)
<1>1. PICK g : Running("release", None, cast, None, pl, n, g) /\ ReleaseHeld(pl, cast) = g[n]
  BY ReleasesRun
<1>2. n \in Nat
  OBVIOUS
<1> HIDE DEF n
<1>3. Goes("release", None, cast, None, pl, n, g)
  BY <1>1, <1>2, RunStep, Zenon
<1>4. g[0] = pl /\ \A k \in 1..n : k - 1 \in 0..n /\ g[k] = Done("release", None, cast, None, g[k - 1], k)
  BY <1>3 DEF Goes
<1> DEFINE Bad == {k \in 0..n : ~Onward(pl, g[k])}
<1> SUFFICES ASSUME n \in Bad
             PROVE  FALSE
  BY <1>1, <1>2
<1>5. PICK k \in Bad : \A m \in Bad : k <= m
  <2>1. Bad \in SUBSET Nat /\ Bad # {}
    BY <1>2
  <2> HIDE DEF Bad
  <2> QED BY <2>1, FirstBad
<1>6. Onward(pl, pl)
  BY DEF Onward
<1>7. k # 0
  BY <1>4, <1>5, <1>6
<1>8. k - 1 \in 0..n /\ k - 1 \notin Bad /\ k \in 1..n
  BY <1>2, <1>5, <1>7
<1> DEFINE q == g[k - 1]
           c == cast[k].who
<1>9. Onward(pl, q) /\ StageOK(q)
  BY <1>8 DEF Onward
<1>10. g[k] = IF c \in Stage(q, cast) /\ q.scr[c].held THEN Branch(Anew(q, c), cast, c) ELSE q
  BY <1>4, <1>8 DEF Done
<1> HIDE DEF q, c
<1>11. Onward(q, g[k])
  <2>1. CASE c \in Stage(q, cast) /\ q.scr[c].held
    <3>1. c \in Chara /\ InPlay(q, c)
      BY <2>1 DEF Stage
    <3>2. /\ StageOK(Anew(q, c)) /\ RunnerOK(Anew(q, c).scr[c])
          /\ Anew(q, c).scr[c].role = q.scr[c].role
          /\ ~Anew(q, c).scr[c].begun
          /\ Scene[Anew(q, c).scr[c].at].op = "br"
          /\ \A d \in Chara \ {c} : Anew(q, c).scr[d] = q.scr[d]
      BY <1>9, <2>1, <3>1, AnewFits
    <3>3. Turns(Anew(q, c), Branch(Anew(q, c), cast, c), c)
      BY <3>1, <3>2, BranchTurns
    <3>4. g[k] = Branch(Anew(q, c), cast, c)
      BY <1>10, <2>1
    <3> HIDE DEF Bad
    <3> QED BY <2>1, <3>1, <3>2, <3>3, <3>4 DEF Turns, Onward, InPlay
  <2>2. CASE ~ (c \in Stage(q, cast) /\ q.scr[c].held)
    BY <1>9, <1>10, <2>2 DEF Onward
  <2> QED BY <2>1, <2>2
<1>12. Onward(pl, g[k])
  BY <1>9, <1>11, OnwardOnward
<1> QED BY <1>5, <1>12

LEMMA RunnerInPlay ==
  ASSUME NEW pl, NEW c, RunnerOK(pl.scr[c])
  PROVE  InPlay(pl, c)
<1>1. DOMAIN Offstage = {"doing"}
  BY DEF Offstage
<1> QED BY <1>1 DEF InPlay, RunnerOK, RunnerFields

-----------------------------------------------------------------------------
(* What any step of the play keeps: nobody is given a part, and nobody     *)
(* has another's.                                                          *)
Keeps(pl, q) ==
  /\ StageOK(q)
  /\ \A c \in Chara : InPlay(q, c) => InPlay(pl, c) /\ q.scr[c].role = pl.scr[c].role

LEMMA OnwardKeeps ==
  ASSUME NEW pl, NEW q, Onward(pl, q)
  PROVE  Keeps(pl, q)
BY DEF Onward, Keeps

LEMMA TurnsKeeps ==
  ASSUME NEW pl, NEW q, NEW c \in Chara, Turns(pl, q, c), InPlay(pl, c)
  PROVE  Keeps(pl, q)
BY DEF Turns, Keeps, InPlay

LEMMA KeepsKeeps ==
  ASSUME NEW pl, NEW q, NEW r, Keeps(pl, q), Keeps(q, r)
  PROVE  Keeps(pl, r)
BY DEF Keeps

LEMMA WalkReleaseOnward ==
  ASSUME online \subseteq Chara, NEW pl, StageOK(pl), NEW cast, Len(cast) \in Nat
  PROVE  Onward(pl, WalkAndRelease(pl, cast))
<1>1. Onward(pl, Walk(pl, cast))
  BY WalkAside, AsideOnward DEF StageOK
<1>2. StageOK(Walk(pl, cast))
  BY <1>1 DEF Onward
<1>3. Onward(Walk(pl, cast), ReleaseHeld(Walk(pl, cast), cast))
  BY <1>2, ReleaseOnward
<1> QED BY <1>1, <1>3, OnwardOnward DEF WalkAndRelease

(* Who stands at a barrier comes just past it.                             *)
LEMMA ReleasedFits ==
  ASSUME NEW r, RunnerOK(r), AtSync(r)
  PROVE  RunnerOK(Released(r)) /\ Released(r).role = r.role
<1> DEFINE q == [r EXCEPT !.begun = FALSE, !.doing = "reading", !.at = @ + 1]
<1>1. r.begun /\ Scene[r.at].op = "sync" /\ ~r.held
  BY DEF AtSync, Op, Stop, RunnerOK
<1>2. r.at + 1 \in DOMAIN Scene
  BY <1>1, SceneIsThere DEF RunnerOK
<1>3. /\ DOMAIN q = RunnerFields /\ q.role = r.role /\ q.at = r.at + 1
      /\ q.begun = FALSE /\ q.held = r.held
  BY DEF RunnerOK, RunnerFields
<1>4. Released(r) = q
  BY <1>1, Zenon DEF Released
<1> HIDE DEF q
<1> QED BY <1>1, <1>2, <1>3, <1>4 DEF RunnerOK

LEMMA SetOffKeeps ==
  ASSUME NEW pl, StageOK(pl), NEW S,
         \A c \in S : c \in Chara => InPlay(pl, c) /\ AtSync(pl.scr[c])
  PROVE  Keeps(pl, SetOff(pl, S))
<1> DEFINE scr == [c \in Chara |-> IF c \in S THEN Released(pl.scr[c]) ELSE pl.scr[c]]
           q == SetOff(pl, S)
<1>1. q = [pl EXCEPT !.scr = scr]
  BY Zenon DEF SetOff
<1>2. DOMAIN q = {"scr", "cur", "reg"} /\ q.scr = scr /\ DOMAIN q.scr = Chara
  BY <1>1 DEF StageOK
<1> HIDE DEF q
<1>3. ASSUME NEW c \in Chara, InPlay(q, c)
      PROVE  InPlay(pl, c) /\ RunnerOK(q.scr[c]) /\ q.scr[c].role = pl.scr[c].role
  <2>1. q.scr[c] = IF c \in S THEN Released(pl.scr[c]) ELSE pl.scr[c]
    BY <1>2
  <2>2. CASE c \in S
    <3>1. InPlay(pl, c) /\ AtSync(pl.scr[c]) /\ RunnerOK(pl.scr[c])
      BY <2>2 DEF StageOK
    <3> QED BY <2>1, <2>2, <3>1, ReleasedFits DEF InPlay
  <2>3. CASE c \notin S
    BY <1>3, <2>1, <2>3 DEF StageOK, InPlay
  <2> QED BY <2>2, <2>3
<1> HIDE DEF scr
<1>4. StageOK(q)
  BY <1>2, <1>3 DEF StageOK
<1> QED BY <1>3, <1>4 DEF Keeps, q

LEMMA OpenKeeps ==
  ASSUME NEW pl, StageOK(pl), NEW cast, Len(cast) \in Nat, AllArrived(pl, cast)
  PROVE  Keeps(pl, OpenBarrier(pl, cast))
<1> DEFINE S == Stage(pl, cast)
           q == Walk(pl, cast)
           r == SetOff(q, S)
           t == [r EXCEPT !.cur = [role \in Roles |-> Open(r.cur[role])]]
<1>1. Aside(pl, q) /\ StageOK(q) /\ Keeps(pl, q)
  BY WalkAside, AsideOnward, OnwardKeeps DEF StageOK, Keeps
<1>2. \A c \in S : c \in Chara => InPlay(q, c) /\ AtSync(q.scr[c])
  BY <1>1 DEF AllArrived, Aside, Stage, InPlay
<1>3. OpenBarrier(pl, cast) = Walk(t, cast)
  BY Zenon DEF OpenBarrier, StandInRelease
<1> HIDE DEF q, S
<1>4. Keeps(q, r)
  BY <1>1, <1>2, SetOffKeeps
<1> HIDE DEF r
<1>5. StageOK(r)
  BY <1>4 DEF Keeps
<1>6. Aside(r, t)
  BY <1>5 DEF Aside, StageOK
<1> HIDE DEF t
<1>7. Keeps(r, t) /\ StageOK(t)
  BY <1>5, <1>6, AsideOnward, OnwardKeeps DEF Keeps
<1>8. Keeps(t, Walk(t, cast))
  BY <1>7, WalkAside, AsideOnward, OnwardKeeps DEF StageOK
<1> QED BY <1>1, <1>3, <1>4, <1>7, <1>8, KeepsKeeps

LEMMA UnblockKeeps ==
  ASSUME NEW pl, StageOK(pl), NEW cast, Len(cast) \in Nat
  PROVE  Keeps(pl, Unblock(pl, cast))
<1>1. Keeps(pl, pl)
  BY DEF Keeps
<1> QED BY <1>1, OpenKeeps DEF Unblock

LEMMA ArrivedKeeps ==
  ASSUME online \subseteq Chara, NEW pl, StageOK(pl), Len(Cast) \in Nat
  PROVE  Keeps(pl, Arrived(pl))
BY OpenKeeps, ReleaseOnward, OnwardKeeps DEF Arrived

(* A late answer that is booked changes no more than the books of its      *)
(* member.                                                                 *)
LEMMA SettleFits ==
  ASSUME online \subseteq Chara, NEW pl, StageOK(pl), NEW cast, Len(cast) \in Nat,
         NEW c \in Chara, InPlay(pl, c), pl.scr[c].doing # "waits"
  PROVE  LET q == Settle(pl, cast, c)  r == pl.scr[c]
         IN /\ Keeps(pl, q)
            /\ InPlay(q, c) /\ q.scr[c].doing = r.doing /\ q.scr[c].at = r.at
            /\ q.scr[c].begun = r.begun /\ ~q.scr[c].held /\ q.scr[c].lost = r.lost
<1> DEFINE r == pl.scr[c]
           book == Answered(r.book, r.timedOut)
           p == [pl EXCEPT !.scr[c].timedOut = 0, !.scr[c].book = book]
           q == WalkAndRelease(p, cast)
<1>1. RunnerOK(r) /\ ~r.held
  BY DEF StageOK, RunnerOK, InPlay
<1>2. Settle(pl, cast, c) = pl \/ Settle(pl, cast, c) = q
  <2>1. Settle(pl, cast, c) = IF r.timedOut = 0 THEN pl ELSE q
    BY Zenon DEF Settle
  <2> QED BY <2>1
<1> HIDE DEF book
<1>3. /\ DOMAIN p = {"scr", "cur", "reg"} /\ DOMAIN p.scr = Chara
      /\ DOMAIN p.scr[c] = RunnerFields
      /\ \A d \in Chara \ {c} : p.scr[d] = pl.scr[d]
      /\ p.scr[c].role = r.role /\ p.scr[c].at = r.at /\ p.scr[c].begun = r.begun
      /\ p.scr[c].held = r.held /\ p.scr[c].doing = r.doing /\ p.scr[c].lost = r.lost
  BY <1>1 DEF StageOK, RunnerOK, RunnerFields
<1> HIDE DEF p
<1>4. RunnerOK(p.scr[c])
  BY <1>1, <1>3 DEF RunnerOK
<1>5. Turns(pl, p, c) /\ StageOK(p)
  BY <1>3, <1>4 DEF Turns, StageOK, InPlay
<1>6. Onward(p, q)
  BY <1>5, WalkReleaseOnward
<1> HIDE DEF q
<1>7. Keeps(pl, q)
  BY <1>5, <1>6, TurnsKeeps, OnwardKeeps, KeepsKeeps
<1>8. InPlay(p, c) /\ ~p.scr[c].held => q.scr[c] = p.scr[c]
  BY <1>1, <1>3, <1>6 DEF Onward
<1>10. InPlay(p, c)
  BY <1>4, RunnerInPlay
<1>11. InPlay(q, c) /\ q.scr[c] = p.scr[c]
  BY <1>1, <1>3, <1>8, <1>10 DEF InPlay
<1>9. Keeps(pl, pl)
  BY DEF Keeps
<1> QED BY <1>1, <1>2, <1>3, <1>7, <1>8, <1>9, <1>10, <1>11 DEF r, InPlay

(* The member's cursor catches up with the client that has just reported:  *)
(* it comes to the instruction the client stopped at.                      *)
CaughtUp(pl, q, c) ==
  /\ Keeps(pl, q)
  /\ InPlay(q, c) /\ q.scr[c].doing = "reading" /\ q.scr[c].at = Stop(pl.scr[c])
  /\ ~q.scr[c].begun /\ ~q.scr[c].held

(* What a report begins with: the cursors keep their parts, and that of    *)
(* the member who reports stands where the client does.                    *)
LEMMA SettledCatchesUp ==
  ASSUME online \subseteq Chara, StageOK(play), Len(Cast) \in Nat,
         NEW c \in Chara, Doing(c, "reading")
  PROVE  CaughtUp(play, Settled(c), c)
<1> DEFINE pl == Settle(play, Cast, c)
           r == pl.scr[c]
           s == At([w |-> r, reg |-> pl.reg], r.role)
           lost == [pl EXCEPT !.scr[c].at = Stop(r)]
           q == Settled(c)
<1>1. InPlay(play, c) /\ play.scr[c].doing = "reading" /\ RunnerOK(play.scr[c])
  BY DEF Doing, StageOK
<1>2. /\ Keeps(play, pl)
      /\ InPlay(pl, c) /\ r.doing = "reading" /\ r.at = play.scr[c].at
      /\ r.begun = play.scr[c].begun /\ ~r.held
  BY <1>1, SettleFits
<1>3. q = lost \/ q = Follows(pl, c, s)
  <2>1. q = IF r.lost THEN lost ELSE Follows(pl, c, s)
    BY Zenon DEF Settled, Walked
  <2> HIDE DEF q, lost, s, r
  <2> QED BY <2>1
<1>4. StageOK(pl)
  BY <1>2 DEF Keeps
<1>11. RunnerOK(r) /\ ~r.begun /\ ~r.held /\ r.role = play.scr[c].role
  BY <1>1, <1>2, <1>4 DEF StageOK, RunnerOK, Keeps
<1>12. Stop(r) = Stop(play.scr[c]) /\ Stop(r) = StopFrom(r.at, r.role) /\ Stop(r) \in DOMAIN Scene
  BY <1>1, <1>2, <1>11, StopIsThere DEF Stop, RunnerOK
<1>13. Moved(s, r, Stop(r))
  BY <1>11, <1>12, AtStops
<1> HIDE DEF pl, s
<1>14. Turns(pl, lost, c) /\ RunnerOK(lost.scr[c]) /\ lost.scr[c].doing = "reading" /\ lost.scr[c].at = Stop(r)
      /\ ~lost.scr[c].begun /\ ~lost.scr[c].held
  <2>1. /\ DOMAIN lost = {"scr", "cur", "reg"} /\ DOMAIN lost.scr = Chara
        /\ DOMAIN lost.scr[c] = RunnerFields
        /\ \A d \in Chara \ {c} : lost.scr[d] = pl.scr[d]
        /\ lost.scr[c].role = r.role /\ lost.scr[c].at = Stop(r) /\ lost.scr[c].begun = r.begun
        /\ lost.scr[c].held = r.held /\ lost.scr[c].doing = r.doing
    BY <1>4, <1>11 DEF StageOK, RunnerOK, RunnerFields
  <2> HIDE DEF lost
  <2>2. RunnerOK(lost.scr[c])
    BY <1>11, <1>12, <2>1 DEF RunnerOK
  <2> QED BY <1>2, <1>4, <1>11, <2>1, <2>2 DEF Turns, StageOK, InPlay
<1>15. Turns(pl, Follows(pl, c, s), c) /\ RunnerOK(s.w) /\ Follows(pl, c, s).scr[c] = s.w
  BY <1>4, <1>11, <1>12, <1>13, MovedFits, FollowsOne DEF Turns
<1>16. s.w.doing = "reading" /\ s.w.at = Stop(r) /\ ~s.w.begun /\ ~s.w.held
  BY <1>2, <1>11, <1>13 DEF Moved
<1> HIDE DEF lost, q
<1>17. Turns(pl, q, c) /\ RunnerOK(q.scr[c]) /\ q.scr[c].doing = "reading" /\ q.scr[c].at = Stop(r)
      /\ ~q.scr[c].begun /\ ~q.scr[c].held
  BY <1>3, <1>14, <1>15, <1>16
<1>18. Keeps(play, q)
  BY <1>2, <1>17, TurnsKeeps, KeepsKeeps
<1>19. InPlay(q, c)
  BY <1>17, RunnerInPlay
<1> QED BY <1>12, <1>17, <1>18, <1>19 DEF CaughtUp, q

-----------------------------------------------------------------------------
(* The reports.  Each writes a few fields of one member's cursor.          *)
Edited(pl, q, c) ==
  /\ DOMAIN q = {"scr", "cur", "reg"} /\ DOMAIN q.scr = Chara
  /\ DOMAIN q.scr[c] = RunnerFields /\ q.scr[c].role = pl.scr[c].role
  /\ \A d \in Chara \ {c} : q.scr[d] = pl.scr[d]

LEMMA EditedTurns ==
  ASSUME NEW pl, StageOK(pl), NEW c \in Chara, NEW q, Edited(pl, q, c), RunnerOK(q.scr[c])
  PROVE  Turns(pl, q, c) /\ StageOK(q)
BY DEF Edited, Turns, StageOK, InPlay

(* A client is told to go on from where its cursor stands, or past it.     *)
LEMMA NotTheEnd ==
  ASSUME NEW i \in DOMAIN Scene, Scene[i].op # "end"
  PROVE  i + 1 \in DOMAIN Scene
BY SceneIsThere

LEMMA FlowsOn ==
  ASSUME NEW i \in DOMAIN Scene, Scene[i].op \in {"jp", "ba", "ba_end"}
  PROVE  FlowedTo(i) \in DOMAIN Scene
BY SceneIsThere, NotTheEnd DEF FlowedTo

(* Where the reported instruction is, and what the cursor then is.         *)
LEMMA ComesTo ==
  ASSUME online \subseteq Chara, StageOK(play), Len(Cast) \in Nat,
         NEW c \in Chara, NEW op, Comes(c, op)
  PROVE  LET q == Settled(c)
         IN /\ Keeps(play, q) /\ StageOK(q) /\ InPlay(q, c) /\ RunnerOK(q.scr[c])
            /\ q.scr[c].doing = "reading" /\ ~q.scr[c].begun /\ ~q.scr[c].held
            /\ Scene[q.scr[c].at].op = op
<1>1. CaughtUp(play, Settled(c), c)
  BY SettledCatchesUp DEF Comes
<1> QED BY <1>1 DEF CaughtUp, Comes, Op, Keeps, StageOK

LEMMA OpensKeeps ==
  ASSUME online \subseteq Chara, StageOK(play), Len(Cast) \in Nat,
         NEW c \in Chara, OpensBox(c) \/ OpensText(c)
  PROVE  Keeps(play, play')
<1> DEFINE q == Settled(c)
           p == [q EXCEPT !.scr[c].begun = TRUE, !.scr[c].doing = "box"]
<1>1. (Comes(c, "select") \/ Comes(c, "string")) /\ play' = p
  BY DEF OpensBox, OpensText
<1>2. /\ Keeps(play, q) /\ StageOK(q) /\ InPlay(q, c) /\ RunnerOK(q.scr[c])
      /\ ~q.scr[c].held
  BY <1>1, ComesTo
<1> HIDE DEF q
<1>3. /\ Edited(q, p, c) /\ p.scr[c].begun = TRUE /\ p.scr[c].doing = "box"
      /\ p.scr[c].at = q.scr[c].at /\ p.scr[c].held = q.scr[c].held
  BY <1>2 DEF Edited, StageOK, RunnerOK, RunnerFields
<1> HIDE DEF p
<1>4. RunnerOK(p.scr[c])
  BY <1>2, <1>3 DEF RunnerOK, Edited
<1> QED BY <1>1, <1>2, <1>3, <1>4, EditedTurns, TurnsKeeps, KeepsKeeps

LEMMA PassesBoxKeeps ==
  ASSUME online \subseteq Chara, StageOK(play), Len(Cast) \in Nat,
         NEW c \in Chara, PassesBox(c)
  PROVE  Keeps(play, play')
<1> DEFINE q == Settled(c)
           r == q.scr[c]
           book == WalkedPast(r.book, r.at, r.role)
           past == [r EXCEPT !.at = @ + 1, !.book = book]
           p == [q EXCEPT !.scr[c] = past]
<1>1. Comes(c, "select") /\ play' = p
  BY Zenon DEF PassesBox
<1>2. /\ Keeps(play, q) /\ StageOK(q) /\ InPlay(q, c) /\ RunnerOK(r)
      /\ r.doing = "reading" /\ ~r.begun /\ ~r.held /\ Scene[r.at].op = "select"
  BY <1>1, ComesTo
<1> HIDE DEF q, book
<1>3. r.at + 1 \in DOMAIN Scene
  BY <1>2, NotTheEnd DEF RunnerOK
<1>4. /\ Edited(q, p, c) /\ p.scr[c].begun = r.begun /\ p.scr[c].doing = r.doing
      /\ p.scr[c].at = r.at + 1 /\ p.scr[c].held = r.held
  BY <1>2 DEF Edited, StageOK, RunnerOK, RunnerFields
<1> HIDE DEF p
<1>5. RunnerOK(p.scr[c])
  BY <1>2, <1>3, <1>4 DEF RunnerOK, Edited
<1> QED BY <1>1, <1>2, <1>4, <1>5, EditedTurns, TurnsKeeps, KeepsKeeps

LEMMA PassesKeeps ==
  ASSUME online \subseteq Chara, StageOK(play), Len(Cast) \in Nat,
         NEW c \in Chara, Passes(c)
  PROVE  Keeps(play, play')
<1> DEFINE q == Settled(c)
           r == q.scr[c]
           p == [q EXCEPT !.scr[c].at = FlowedTo(@)]
<1>1. PICK op \in {"jp", "ba", "ba_end"} : Comes(c, op) /\ play' = p
  BY DEF Passes
<1>2. /\ Keeps(play, q) /\ StageOK(q) /\ InPlay(q, c) /\ RunnerOK(r)
      /\ r.doing = "reading" /\ ~r.begun /\ ~r.held /\ Scene[r.at].op = op
  BY <1>1, ComesTo
<1> HIDE DEF q
<1>3. FlowedTo(r.at) \in DOMAIN Scene
  BY <1>2, FlowsOn DEF RunnerOK
<1>4. /\ Edited(q, p, c) /\ p.scr[c].begun = r.begun /\ p.scr[c].doing = r.doing
      /\ p.scr[c].at = FlowedTo(r.at) /\ p.scr[c].held = r.held
  BY <1>2 DEF Edited, StageOK, RunnerOK, RunnerFields
<1> HIDE DEF p
<1>5. RunnerOK(p.scr[c])
  BY <1>2, <1>3, <1>4 DEF RunnerOK, Edited
<1> QED BY <1>1, <1>2, <1>4, <1>5, EditedTurns, TurnsKeeps, KeepsKeeps

LEMMA ArrivesKeeps ==
  ASSUME online \subseteq Chara, StageOK(play), Len(Cast) \in Nat,
         NEW c \in Chara, Arrives(c)
  PROVE  Keeps(play, play')
<1> DEFINE q == Settled(c)
           p == [q EXCEPT !.scr[c].begun = TRUE, !.scr[c].doing = "waits"]
<1>1. Comes(c, "sync") /\ play' = Arrived(p)
  BY DEF Arrives
<1>2. /\ Keeps(play, q) /\ StageOK(q) /\ InPlay(q, c) /\ RunnerOK(q.scr[c])
      /\ ~q.scr[c].held
  BY <1>1, ComesTo
<1> HIDE DEF q
<1>3. /\ Edited(q, p, c) /\ p.scr[c].begun = TRUE /\ p.scr[c].doing = "waits"
      /\ p.scr[c].at = q.scr[c].at /\ p.scr[c].held = q.scr[c].held
  BY <1>2 DEF Edited, StageOK, RunnerOK, RunnerFields
<1> HIDE DEF p
<1>4. RunnerOK(p.scr[c])
  BY <1>2, <1>3 DEF RunnerOK, Edited
<1>5. Keeps(q, p) /\ StageOK(p)
  BY <1>2, <1>3, <1>4, EditedTurns, TurnsKeeps
<1>6. Keeps(p, Arrived(p))
  BY <1>5, ArrivedKeeps
<1> QED BY <1>1, <1>2, <1>5, <1>6, KeepsKeeps

LEMMA BranchesKeeps ==
  ASSUME online \subseteq Chara, StageOK(play), Len(Cast) \in Nat,
         NEW c \in Chara, Branches(c)
  PROVE  Keeps(play, play')
<1> DEFINE q == Settled(c)
<1>1. /\ Comes(c, "br")
      /\ (\E way \in Choices01 : play' = Took(q, c, way)) \/ play' = Branch(q, Cast, c)
  BY DEF Branches
<1>2. /\ Keeps(play, q) /\ StageOK(q) /\ InPlay(q, c) /\ RunnerOK(q.scr[c])
      /\ ~q.scr[c].begun /\ Scene[q.scr[c].at].op = "br"
  BY <1>1, ComesTo
<1> HIDE DEF q
<1>3. Turns(q, play', c)
  BY <1>1, <1>2, TookTurns, BranchTurns
<1> QED BY <1>2, <1>3, TurnsKeeps, KeepsKeeps

(* What a client sends while it plays, without its cursor having to catch  *)
(* up first.                                                               *)
LEMMA BegunStands ==
  ASSUME NEW r, RunnerOK(r), AtBox(r) \/ AtText(r)
  PROVE  r.begun /\ ~r.held /\ r.at + 1 \in DOMAIN Scene
BY NotTheEnd DEF AtBox, AtText, Op, Stop, RunnerOK

LEMMA SaysKeeps ==
  ASSUME StageOK(play), NEW c \in Chara, ReadyOk(c) \/ Presses(c) \/ AnswersLate(c)
  PROVE  Keeps(play, play')
<1> DEFINE r == play.scr[c]
           on == [play EXCEPT !.scr[c].doing = "reading"]
           pressed == [play EXCEPT !.scr[c].doing = "pressed"]
           late == [play EXCEPT !.scr[c].doing = "reading", !.scr[c].lost = TRUE]
<1>1. /\ InPlay(play, c)
      /\ \/ r.doing = "asked" /\ play' = on
         \/ r.doing = "box" /\ play' = pressed
         \/ r.doing = "late" /\ play' = late
  BY DEF ReadyOk, Presses, AnswersLate, Doing
<1>2. RunnerOK(r)
  BY <1>1 DEF StageOK
<1>3. /\ Edited(play, on, c) /\ on.scr[c].begun = r.begun /\ on.scr[c].doing = "reading"
      /\ on.scr[c].at = r.at /\ on.scr[c].held = r.held
  BY <1>2 DEF Edited, StageOK, RunnerOK, RunnerFields
<1>4. /\ Edited(play, pressed, c) /\ pressed.scr[c].begun = r.begun
      /\ pressed.scr[c].doing = "pressed"
      /\ pressed.scr[c].at = r.at /\ pressed.scr[c].held = r.held
  BY <1>2 DEF Edited, StageOK, RunnerOK, RunnerFields
<1>5. /\ Edited(play, late, c) /\ late.scr[c].begun = r.begun /\ late.scr[c].doing = "reading"
      /\ late.scr[c].at = r.at /\ late.scr[c].held = r.held
  BY <1>2 DEF Edited, StageOK, RunnerOK, RunnerFields
<1> HIDE DEF on, pressed, late
<1>6. Edited(play, play', c) /\ RunnerOK(play'.scr[c])
  BY <1>1, <1>2, <1>3, <1>4, <1>5 DEF RunnerOK, Edited
<1> QED BY <1>1, <1>6, EditedTurns, TurnsKeeps

LEMMA AnswersKeeps ==
  ASSUME online \subseteq Chara, StageOK(play), Len(Cast) \in Nat,
         NEW c \in Chara, NEW way, Answers(c, way) \/ Types(c)
  PROVE  Keeps(play, play')
<1> DEFINE r == play.scr[c]
           reg == Chose(c, way)
           book == Answered(r.book, r.at)
           typed == IF r.lost THEN play.reg ELSE TypedOn(play.reg, r.at)
           p == [play EXCEPT !.reg = reg,
                             !.scr[c].begun = FALSE, !.scr[c].doing = "reading",
                             !.scr[c].at = @ + 1, !.scr[c].book = book]
           q == [play EXCEPT !.reg = typed,
                             !.scr[c].begun = FALSE, !.scr[c].doing = "reading",
                             !.scr[c].at = @ + 1]
<1>1. /\ InPlay(play, c) /\ (AtBox(r) \/ AtText(r))
      /\ play' = WalkAndRelease(p, Cast) \/ play' = Walk(q, Cast)
  BY Zenon DEF Answers, Types, Doing
<1>2. RunnerOK(r) /\ ~r.held /\ r.at + 1 \in DOMAIN Scene
  BY <1>1, BegunStands DEF StageOK
<1> HIDE DEF reg, book, typed
<1>3. /\ Edited(play, p, c) /\ p.scr[c].begun = FALSE /\ p.scr[c].doing = "reading"
      /\ p.scr[c].at = r.at + 1 /\ p.scr[c].held = r.held
  BY <1>2 DEF Edited, StageOK, RunnerOK, RunnerFields
<1>4. /\ Edited(play, q, c) /\ q.scr[c].begun = FALSE /\ q.scr[c].doing = "reading"
      /\ q.scr[c].at = r.at + 1 /\ q.scr[c].held = r.held
  BY <1>2 DEF Edited, StageOK, RunnerOK, RunnerFields
<1> HIDE DEF p, q
<1>5. RunnerOK(p.scr[c]) /\ RunnerOK(q.scr[c])
  BY <1>2, <1>3, <1>4 DEF RunnerOK, Edited
<1>6. Keeps(play, p) /\ StageOK(p) /\ Keeps(play, q) /\ StageOK(q)
  BY <1>1, <1>3, <1>4, <1>5, EditedTurns, TurnsKeeps
<1>7. Keeps(p, WalkAndRelease(p, Cast))
  BY <1>6, WalkReleaseOnward, OnwardKeeps
<1>8. Keeps(q, Walk(q, Cast))
  BY <1>6, WalkAside, AsideOnward, OnwardKeeps DEF StageOK
<1> QED BY <1>1, <1>6, <1>7, <1>8, KeepsKeeps

LEMMA TimesOutKeeps ==
  ASSUME online \subseteq Chara, StageOK(play), Len(Cast) \in Nat,
         NEW c \in Chara, TimesOut(c)
  PROVE  Keeps(play, play')
<1> DEFINE r == play.scr[c]
           q == TimedOut(r)
           box == IF AtBox(r) THEN r.at ELSE 0
           now == IF r.doing = "box" THEN "closed" ELSE "late"
           p == [play EXCEPT !.scr[c] = q]
<1>1. /\ InPlay(play, c) /\ (AtBox(r) \/ AtText(r))
      /\ play' = p \/ play' = ReleaseHeld(p, Cast)
  BY Zenon DEF TimesOut
<1>2. RunnerOK(r) /\ ~r.held /\ r.at + 1 \in DOMAIN Scene
  BY <1>1, BegunStands DEF StageOK
<1>3. RunnerOK(q) /\ q.role = r.role
  <2>1. q = [r EXCEPT !.begun = FALSE, !.timedOut = box, !.at = @ + 1, !.doing = now]
    BY Zenon DEF TimedOut
  <2> HIDE DEF box, now
  <2>2. /\ DOMAIN q = RunnerFields /\ q.role = r.role /\ q.at = r.at + 1
        /\ q.begun = FALSE /\ q.held = r.held
    BY <1>2, <2>1 DEF RunnerOK, RunnerFields
  <2> HIDE DEF q
  <2> QED BY <1>2, <2>2 DEF RunnerOK
<1> HIDE DEF q
<1>4. Edited(play, p, c) /\ p.scr[c] = q
  BY <1>3 DEF Edited, StageOK, RunnerOK, RunnerFields
<1> HIDE DEF p
<1>5. Keeps(play, p) /\ StageOK(p)
  BY <1>1, <1>3, <1>4, EditedTurns, TurnsKeeps
<1>6. Keeps(p, ReleaseHeld(p, Cast))
  BY <1>5, ReleaseOnward, OnwardKeeps
<1> QED BY <1>1, <1>5, <1>6, KeepsKeeps

LEMMA DefaultsKeep ==
  ASSUME online \subseteq Chara, StageOK(play), Len(Cast) \in Nat,
         NEW c \in Chara, NEW way, DefaultText(c) \/ Defaults(c, way)
  PROVE  Keeps(play, play')
<1> DEFINE r == play.scr[c]
           chosen == Chose(c, way)
           typed == IF r.lost THEN play.reg ELSE TypedOn(play.reg, r.at - 1)
           p == [play EXCEPT !.reg = chosen, !.scr[c].doing = "reading"]
           q == [play EXCEPT !.reg = typed, !.scr[c].doing = "reading"]
<1>1. /\ InPlay(play, c) /\ r.doing = "closed"
      /\ play' = Settle(p, Cast, c) \/ play' = Walk(q, Cast)
  BY Zenon DEF DefaultText, Defaults, Doing
<1>2. RunnerOK(r) /\ ~r.held /\ ~r.begun
  BY <1>1 DEF StageOK, RunnerOK
<1> HIDE DEF chosen, typed
<1>3. /\ Edited(play, p, c) /\ p.scr[c].begun = r.begun /\ p.scr[c].doing = "reading"
      /\ p.scr[c].at = r.at /\ p.scr[c].held = r.held
  BY <1>2 DEF Edited, StageOK, RunnerOK, RunnerFields
<1>4. /\ Edited(play, q, c) /\ q.scr[c].begun = r.begun /\ q.scr[c].doing = "reading"
      /\ q.scr[c].at = r.at /\ q.scr[c].held = r.held
  BY <1>2 DEF Edited, StageOK, RunnerOK, RunnerFields
<1> HIDE DEF p, q
<1>5. RunnerOK(p.scr[c]) /\ RunnerOK(q.scr[c])
  BY <1>2, <1>3, <1>4 DEF RunnerOK, Edited
<1>6. Keeps(play, p) /\ StageOK(p) /\ Keeps(play, q) /\ StageOK(q)
  BY <1>1, <1>3, <1>4, <1>5, EditedTurns, TurnsKeeps
<1>7. Keeps(p, Settle(p, Cast, c))
  BY <1>3, <1>5, <1>6, RunnerInPlay, SettleFits
<1>8. Keeps(q, Walk(q, Cast))
  BY <1>6, WalkAside, AsideOnward, OnwardKeeps DEF StageOK
<1> QED BY <1>1, <1>6, <1>7, <1>8, KeepsKeeps

(* Who leaves the play has no part in it, and the others have theirs.      *)
LeftBy(pl, q, c) == Keeps(pl, q) /\ ~InPlay(q, c)

LEMMA OffstageKeeps ==
  ASSUME NEW pl, StageOK(pl), NEW c \in Chara
  PROVE  LeftBy(pl, [pl EXCEPT !.scr[c] = Offstage], c)
BY DEF LeftBy, Keeps, StageOK, InPlay

LEMMA LeftFurther ==
  ASSUME NEW pl, NEW q, NEW r, NEW c \in Chara, LeftBy(pl, q, c), Keeps(q, r)
  PROVE  LeftBy(pl, r, c)
BY KeepsKeeps DEF LeftBy, Keeps

-----------------------------------------------------------------------------
(* The party.  Nobody has two parts, nobody's part is another's, and a     *)
(* stand-in is a stand-in.                                                 *)
CastOK(cast) ==
  /\ cast \in Seq(Actor)
  /\ \A i, j \in DOMAIN cast :
       i # j => cast[i].role # cast[j].role /\ cast[i].who # cast[j].who
  /\ \A i \in DOMAIN cast : cast[i].npc <=> cast[i].who \in Npcs

(* The same of the set of actors.                                          *)
LEMMA CastIsFair ==
  ASSUME NEW cast, CastOK(cast)
  PROVE  /\ Range(cast) \subseteq Actor /\ Len(cast) \in Nat /\ DOMAIN cast = 1..Len(cast)
         /\ \A a, b \in Range(cast) : a # b => a.role # b.role /\ a.who # b.who
         /\ \A a \in Range(cast) : a.npc <=> a.who \in Npcs
<1>1. cast \in Seq(Actor)
  BY DEF CastOK
<1> HIDE DEF Actor
<1>2. Len(cast) \in Nat /\ DOMAIN cast = 1..Len(cast) /\ \A i \in DOMAIN cast : cast[i] \in Actor
  BY <1>1
<1> QED BY <1>2 DEF CastOK, Range

LEMMA WithOne ==
  ASSUME NEW cast, CastOK(cast), NEW a \in Actor, a.npc <=> a.who \in Npcs,
         \A b \in Range(cast) : b.role # a.role /\ b.who # a.who
  PROVE  /\ CastOK(Append(cast, a)) /\ Range(Append(cast, a)) = Range(cast) \union {a}
<1> DEFINE more == Append(cast, a)
<1>1. cast \in Seq(Actor)
  BY DEF CastOK
<1> HIDE DEF Actor
<1>2. /\ Len(cast) \in Nat /\ DOMAIN cast = 1..Len(cast)
      /\ more \in Seq(Actor) /\ Len(more) = Len(cast) + 1
      /\ DOMAIN more = 1..(Len(cast) + 1)
      /\ more[Len(cast) + 1] = a /\ \A i \in DOMAIN cast : more[i] = cast[i]
  BY <1>1
<1> HIDE DEF more
<1>3. Range(more) = Range(cast) \union {a}
  <2>1. DOMAIN more = DOMAIN cast \union {Len(cast) + 1}
    BY <1>2
  <2> QED BY <1>2, <2>1 DEF Range
<1>4. \A i \in DOMAIN more : i \in DOMAIN cast \/ i = Len(cast) + 1
  BY <1>2
<1>5. \A i \in DOMAIN cast : cast[i].role # a.role /\ cast[i].who # a.who
  BY DEF Range
<1>6. \A i, j \in DOMAIN more :
        i # j => more[i].role # more[j].role /\ more[i].who # more[j].who
  BY <1>2, <1>4, <1>5 DEF CastOK
<1>7. \A i \in DOMAIN more : more[i].npc <=> more[i].who \in Npcs
  BY <1>2, <1>4 DEF CastOK
<1> QED BY <1>2, <1>3, <1>6, <1>7 DEF CastOK, more

LEMMA Removes ==
  ASSUME NEW S, NEW s \in Seq(S), NEW at \in DOMAIN s
  PROVE  LET less == RemoveAt(s, at)
         IN /\ less \in Seq(S) /\ DOMAIN less = 1..(Len(s) - 1)
            /\ \A k \in DOMAIN less : less[k] = IF k < at THEN s[k] ELSE s[k + 1]
<1> DEFINE left == SubSeq(s, 1, at - 1)
           right == SubSeq(s, at + 1, Len(s))
           less == left \o right
<1>1. /\ at \in Nat /\ Len(s) \in Nat /\ 1 <= at /\ at <= Len(s)
      /\ \A i \in 1..Len(s) : s[i] \in S
  OBVIOUS
<1>2. /\ left \in Seq(S) /\ Len(left) = at - 1
      /\ \A i \in 1..(at - 1) : left[i] = s[i]
  <2>1. \A i \in 1..(at - 1) : s[i] \in S
    BY <1>1
  <2>2. /\ left \in Seq(S) /\ Len(left) = IF 1 <= at - 1 THEN (at - 1) - 1 + 1 ELSE 0
        /\ \A i \in 1..((at - 1) - 1 + 1) : left[i] = s[1 + i - 1]
    BY <1>1, <2>1, SubSeqProperties
  <2> QED BY <1>1, <2>2
<1>3. /\ right \in Seq(S) /\ Len(right) = Len(s) - at
      /\ \A i \in 1..(Len(s) - at) : right[i] = s[at + i]
  <2>1. \A i \in (at + 1)..Len(s) : s[i] \in S
    BY <1>1
  <2>2. /\ right \in Seq(S)
        /\ Len(right) = IF at + 1 <= Len(s) THEN Len(s) - (at + 1) + 1 ELSE 0
        /\ \A i \in 1..(Len(s) - (at + 1) + 1) : right[i] = s[(at + 1) + i - 1]
    BY <1>1, <2>1, SubSeqProperties
  <2> QED BY <1>1, <2>2
<1> HIDE DEF left, right
<1>4. /\ less \in Seq(S) /\ Len(less) = Len(left) + Len(right)
      /\ \A i \in 1..(Len(left) + Len(right)) :
           less[i] = IF i <= Len(left) THEN left[i] ELSE right[i - Len(left)]
  BY <1>2, <1>3, ConcatProperties
<1>5. RemoveAt(s, at) = less
  BY DEF RemoveAt, left, right
<1> HIDE DEF less
<1>6. DOMAIN less = 1..(Len(s) - 1)
  BY <1>1, <1>2, <1>3, <1>4
<1>7. \A k \in 1..(Len(s) - 1) : less[k] = IF k < at THEN s[k] ELSE s[k + 1]
  <2> TAKE k \in 1..(Len(s) - 1)
  <2>0. less[k] = IF k <= at - 1 THEN left[k] ELSE right[k - (at - 1)]
    <3>1. k \in 1..(Len(left) + Len(right))
      BY <1>1, <1>2, <1>3
    <3>2. less[k] = IF k <= Len(left) THEN left[k] ELSE right[k - Len(left)]
      BY <1>4, <3>1
    <3> QED BY <1>2, <3>2
  <2>1. CASE k < at
    BY <1>1, <1>2, <2>0, <2>1
  <2>2. CASE ~ (k < at)
    <3>1. k - (at - 1) \in 1..(Len(s) - at) /\ at + (k - (at - 1)) = k + 1
      BY <1>1, <2>2
    <3>2. less[k] = right[k - (at - 1)]
      BY <1>1, <2>0, <2>2
    <3> QED BY <1>3, <2>2, <3>1, <3>2
  <2> QED BY <2>1, <2>2
<1> QED BY <1>4, <1>5, <1>6, <1>7

LEMMA WithoutOne ==
  ASSUME NEW cast, CastOK(cast), NEW at \in DOMAIN cast
  PROVE  /\ CastOK(RemoveAt(cast, at)) /\ Range(RemoveAt(cast, at)) = Range(cast) \ {cast[at]}
<1> DEFINE less == RemoveAt(cast, at)
           from(k) == IF k < at THEN k ELSE k + 1
<1>1. cast \in Seq(Actor)
  BY DEF CastOK
<1> HIDE DEF Actor
<1>2. /\ Len(cast) \in Nat /\ DOMAIN cast = 1..Len(cast) /\ at \in 1..Len(cast)
      /\ less \in Seq(Actor) /\ DOMAIN less = 1..(Len(cast) - 1)
      /\ \A k \in DOMAIN less : less[k] = IF k < at THEN cast[k] ELSE cast[k + 1]
  BY <1>1, Removes
<1> HIDE DEF less
<1>3. \A k \in DOMAIN less : from(k) \in DOMAIN cast \ {at} /\ less[k] = cast[from(k)]
  BY <1>2
<1>4. \A i, j \in DOMAIN less : i # j => from(i) # from(j)
  BY <1>2
<1>5. \A i \in DOMAIN cast \ {at} : \E k \in DOMAIN less : from(k) = i
  <2> TAKE i \in DOMAIN cast \ {at}
  <2>1. CASE i < at
    <3>1. i \in DOMAIN less /\ from(i) = i
      BY <1>2, <2>1
    <3> QED BY <3>1
  <2>2. CASE ~ (i < at)
    <3>1. i - 1 \in DOMAIN less /\ from(i - 1) = i
      BY <1>2, <2>2
    <3> QED BY <3>1
  <2> QED BY <2>1, <2>2
<1> HIDE DEF from
<1>6. \A i, j \in DOMAIN less :
        i # j => less[i].role # less[j].role /\ less[i].who # less[j].who
  BY <1>3, <1>4 DEF CastOK
<1>7. \A i \in DOMAIN less : less[i].npc <=> less[i].who \in Npcs
  BY <1>3 DEF CastOK
<1>8. Range(less) = {cast[i] : i \in DOMAIN cast \ {at}}
  BY <1>3, <1>5 DEF Range
<1>9. \A i \in DOMAIN cast \ {at} : cast[i] # cast[at]
  BY DEF CastOK
<1>10. Range(less) = Range(cast) \ {cast[at]}
  BY <1>8, <1>9 DEF Range
<1> QED BY <1>2, <1>6, <1>7, <1>10 DEF CastOK, less

(* Who may have the part that is at a place of the cast.                   *)
FitsAt(cast, at, a) ==
  /\ CastOK(cast) /\ at \in DOMAIN cast /\ a \in Actor
  /\ a.npc <=> a.who \in Npcs
  /\ a.role = cast[at].role /\ \A b \in Range(cast) : b.who = a.who => b = cast[at]

Instead(cast, at, a) == [cast EXCEPT ![at] = a]

LEMMA OtherOne ==
  ASSUME NEW cast, NEW at, NEW a, FitsAt(cast, at, a)
  PROVE  /\ CastOK(Instead(cast, at, a))
         /\ Range(Instead(cast, at, a)) = (Range(cast) \ {cast[at]}) \union {a}
<1> DEFINE other == Instead(cast, at, a)
<1>1. /\ cast \in Seq(Actor) /\ CastOK(cast) /\ at \in DOMAIN cast /\ a \in Actor
      /\ a.npc <=> a.who \in Npcs
      /\ a.role = cast[at].role /\ \A b \in Range(cast) : b.who = a.who => b = cast[at]
  BY DEF CastOK, FitsAt
<1> HIDE DEF Actor
<1>2. /\ other \in Seq(Actor) /\ DOMAIN other = DOMAIN cast /\ other[at] = a
      /\ \A i \in DOMAIN cast \ {at} : other[i] = cast[i]
  BY <1>1 DEF Instead
<1> HIDE DEF other
<1>3. \A i \in DOMAIN cast \ {at} : cast[i].role # a.role /\ cast[i].who # a.who
                                    /\ cast[i] # cast[at]
  BY <1>1 DEF CastOK, Range
<1>4. \A i, j \in DOMAIN other :
        i # j => other[i].role # other[j].role /\ other[i].who # other[j].who
  BY <1>1, <1>2, <1>3 DEF CastOK
<1>5. \A i \in DOMAIN other : other[i].npc <=> other[i].who \in Npcs
  BY <1>1, <1>2 DEF CastOK
<1>6. Range(other) = (Range(cast) \ {cast[at]}) \union {a}
  <2>1. Range(other) \subseteq (Range(cast) \ {cast[at]}) \union {a}
    BY <1>1, <1>2, <1>3 DEF Range
  <2>2. (Range(cast) \ {cast[at]}) \union {a} \subseteq Range(other)
    BY <1>1, <1>2 DEF Range
  <2> QED BY <2>1, <2>2
<1> QED BY <1>2, <1>4, <1>5, <1>6 DEF CastOK, other

LEMMA MembersAre ==
  ASSUME NEW cast, CastOK(cast)
  PROVE  /\ \A c \in MembersOf(cast) : c \in Chara
         /\ \A c \in Chara : c \in MembersOf(cast) <=> \E a \in Range(cast) : a.who = c
         /\ \A a \in Range(cast) : ~a.npc => a.who \in MembersOf(cast)
<1>1. \A a \in Range(cast) : a.who \in Chara \union Npcs /\ (a.npc <=> a.who \in Npcs)
  BY CastIsFair DEF Actor
<1> QED BY <1>1, PlayersAssumption DEF MembersOf, People

(* What the invariant is made of: the party, and who is on the stage.      *)
HasPart(cast, c, role) == \E a \in Range(cast) : a.who = c /\ a.role = role

PartyOK ==
  /\ party # None => party \in Party /\ CastOK(party.cast)
  /\ party # None => Members # {} /\ Members \subseteq online

OnStage ==
  /\ StageOK(play)
  /\ \A c \in Chara : InPlay(play, c) =>
       /\ HasPart(Cast, c, play.scr[c].role)
       /\ c \notin browsing /\ party.state = "running"

Crowd == browsing \subseteq online /\ clock \subseteq online /\ online \subseteq Chara

Rooms == DOMAIN shown = Chara /\ \A c \in Members : shown[c] = Room(party)
Screens ==
  /\ DOMAIN listed = Chara
  /\ \A c \in browsing : listed[c] = IF party = None THEN None ELSE Row(party)

IInv == Crowd /\ PartyOK /\ OnStage /\ Rooms /\ Screens

LEMMA CastIsOK ==
  ASSUME PartyOK
  PROVE  /\ CastOK(Cast) /\ Len(Cast) \in Nat
         /\ party # None => Cast = party.cast
         /\ party = None => Cast = <<>> /\ Members = {}
<1>1. CastOK(<<>>)
  BY DEF CastOK
<1>2. CastOK(Cast)
  BY <1>1 DEF Cast, PartyOK
<1>3. Len(Cast) \in Nat
  BY <1>2, CastIsFair
<1>4. MembersOf(<<>>) = {}
  BY DEF MembersOf, People, Range
<1> QED BY <1>2, <1>3, <1>4 DEF Cast, Members

LEMMA ActorIs ==
  ASSUME PartyOK, NEW a \in Range(Cast)
  PROVE  ActorOf(a.who) = a
<1>1. \A b \in Range(Cast) : b.who = a.who => b = a
  BY CastIsOK, CastIsFair
<1> QED BY <1>1 DEF ActorOf

LEMMA MemberSeat ==
  ASSUME PartyOK, NEW c \in Members
  PROVE  /\ c \in Chara /\ c \in online /\ party # None
         /\ ActorOf(c) \in Range(Cast) /\ ActorOf(c).who = c /\ ActorOf(c) \in Actor
         /\ ~ActorOf(c).npc /\ ActorOf(c).role \in Roles
<1>1. CastOK(Cast) /\ party # None
  BY CastIsOK
<1>2. c \in Chara /\ \E a \in Range(Cast) : a.who = c
  BY <1>1, MembersAre DEF Members
<1>3. ActorOf(c) \in Range(Cast) /\ ActorOf(c).who = c
  BY <1>2, ActorIs
<1>4. ActorOf(c) \in Actor /\ (ActorOf(c).npc <=> c \in Npcs)
  BY <1>1, <1>3, CastIsFair
<1>5. c \in online
  BY <1>1 DEF PartyOK
<1> QED BY <1>1, <1>2, <1>3, <1>4, <1>5, PlayersAssumption DEF Actor

(* Who is on the stage is a member, in the part the party gave.            *)
LEMMA StageIsPeopled ==
  ASSUME IInv, NEW c \in Chara, InPlay(play, c)
  PROVE  /\ c \in Members /\ c \in online /\ c \notin browsing
         /\ ActorOf(c).role = play.scr[c].role
         /\ party # None /\ party.state = "running"
<1>1. PICK a \in Range(Cast) : a.who = c /\ a.role = play.scr[c].role
  BY DEF IInv, OnStage, HasPart
<1>2. c \in Members
  BY <1>1, CastIsOK, MembersAre DEF IInv, Members
<1> QED BY <1>1, <1>2, ActorIs, MemberSeat DEF IInv, OnStage

LEMMA InvariantShows ==
  ASSUME IInv
  PROVE  RoomsAreShown
<1>1. ASSUME party # None
      PROVE  /\ party.state \in {"recruiting", "running"}
             /\ Members # {} /\ Members \subseteq online
             /\ \A i, j \in DOMAIN Cast :
                  i # j => Cast[i].role # Cast[j].role /\ Cast[i].who # Cast[j].who
  BY <1>1, CastIsOK DEF IInv, PartyOK, Party, CastOK
<1>2. ASSUME NEW c \in Chara, InPlay(play, c)
      PROVE  /\ c \in Members /\ ActorOf(c).role = play.scr[c].role
             /\ play.scr[c].at \in DOMAIN Scene
  BY <1>2, StageIsPeopled DEF IInv, OnStage, StageOK, RunnerOK
<1> QED BY <1>1, <1>2 DEF RoomsAreShown, TypeOK, IInv, Crowd, Rooms, Screens

(* A room is a room, and so not an empty one.                              *)
LEMMA RoomIsKnown ==
  ASSUME NEW p \in Party, CastOK(p.cast)
  PROVE  Room(p) \in Known /\ Room(p) # None
<1>1. Range(p.cast) \subseteq Actor
  BY CastIsFair
<1>2. Seats(p) \subseteq Roles \X (Chara \union Npcs) \X BOOLEAN
  BY <1>1 DEF Seats, Actor
<1>3. p.leader \in Roles
  BY DEF Party
<1>4. Room(p) \in Known
  BY <1>2, <1>3 DEF Room, Known
<1> QED BY <1>4, PlayersAssumption

LEMMA RoomsDiffer ==
  ASSUME NEW p, NEW seats, NEW leader, Seats(p) = seats, p.leader = leader
  PROVE  Room(p) = [seats |-> seats, leader |-> leader]
BY DEF Room

-----------------------------------------------------------------------------
(* The steps.  First those that leave the party as it is.                  *)
LEMMA PlayedOn ==
  ASSUME IInv, UNCHANGED Onstage, Keeps(play, play'), clock' \subseteq online
  PROVE  IInv'
<1>1. /\ online' = online /\ browsing' = browsing /\ party' = party
      /\ shown' = shown /\ listed' = listed
  BY DEF Onstage
<1>2. Cast' = Cast /\ Members' = Members
  BY <1>1 DEF Cast, Members
<1>3. Crowd' /\ PartyOK' /\ Rooms' /\ Screens'
  BY <1>1, <1>2 DEF IInv, Crowd, PartyOK, Rooms, Screens
<1>4. OnStage'
  <2>1. StageOK(play')
    BY DEF Keeps
  <2>2. ASSUME NEW c \in Chara, InPlay(play', c)
        PROVE  /\ HasPart(Cast, c, play'.scr[c].role)
               /\ c \notin browsing /\ party.state = "running"
    BY <2>2 DEF Keeps, IInv, OnStage
  <2> QED BY <1>1, <1>2, <2>1, <2>2 DEF OnStage
<1> QED BY <1>3, <1>4 DEF IInv

LEMMA Touched ==
  ASSUME IInv, NEW c \in online, Touch(c) \/ UNCHANGED clock \/ clock' = clock \ {c}
  PROVE  clock' \subseteq online
BY DEF Touch, IInv, Crowd

LEMMA ReportsKeep ==
  ASSUME IInv, NEW c \in Chara, Reports(c) \/ ReadyNo(c) \/ TimesOut(c), ~Finishes(c)
  PROVE  IInv'
<1>1. online \subseteq Chara /\ StageOK(play) /\ Len(Cast) \in Nat
  BY CastIsOK DEF IInv, Crowd, OnStage
<1>2. Keeps(play, play')
  <2>1. CASE OpensBox(c) \/ OpensText(c)
    BY <1>1, <2>1, OpensKeeps
  <2>2. CASE PassesBox(c)
    BY <1>1, <2>2, PassesBoxKeeps
  <2>3. CASE Passes(c)
    BY <1>1, <2>3, PassesKeeps
  <2>4. CASE Arrives(c)
    BY <1>1, <2>4, ArrivesKeeps
  <2>5. CASE Branches(c)
    BY <1>1, <2>5, BranchesKeeps
  <2>6. CASE ReadyOk(c) \/ Presses(c) \/ AnswersLate(c)
    BY <1>1, <2>6, SaysKeeps
  <2>7. CASE Types(c) \/ \E way \in Choices01 : Answers(c, way)
    BY <1>1, <2>7, AnswersKeeps
  <2>8. CASE DefaultText(c) \/ \E way \in Choices01 : Defaults(c, way)
    BY <1>1, <2>8, DefaultsKeep
  <2>9. CASE TimesOut(c)
    BY <1>1, <2>9, TimesOutKeeps
  <2>10. CASE ReadyNo(c)
    BY <1>1, <2>10, OffstageKeeps DEF ReadyNo, LeftBy
  <2> QED BY <2>1, <2>2, <2>3, <2>4, <2>5, <2>6, <2>7, <2>8, <2>9, <2>10 DEF Reports
<1>3. InPlay(play, c) /\ UNCHANGED Onstage
      /\ (Touch(c) \/ UNCHANGED clock \/ clock' = clock \ {c})
  BY DEF Reports, OpensBox, OpensText, PassesBox, Passes, Arrives, Branches, ReadyOk,
         Presses, AnswersLate, Types, Answers, DefaultText, Defaults, TimesOut, ReadyNo,
         Comes, Doing
<1> QED BY <1>2, <1>3, StageIsPeopled, Touched, PlayedOn

LEMMA LogKeeps ==
  ASSUME IInv, NEW c \in Chara, Log(c)
  PROVE  IInv'
<1>1. /\ online' = online \union {c} /\ browsing' = browsing /\ party' = party
      /\ play' = play /\ clock' = clock /\ shown' = shown /\ listed' = listed
  BY DEF Log
<1>2. Cast' = Cast /\ Members' = Members
  BY <1>1 DEF Cast, Members
<1> QED BY <1>1, <1>2 DEF IInv, Crowd, PartyOK, OnStage, Rooms, Screens

LEMMA MatchingKeeps ==
  ASSUME IInv, NEW c \in Chara, MatchingStart(c) \/ MatchingEnd(c)
  PROVE  IInv'
<1>1. /\ online' = online /\ party' = party /\ play' = play /\ clock' = clock /\ shown' = shown
  BY DEF MatchingStart, MatchingEnd
<1>2. Cast' = Cast /\ Members' = Members
  BY <1>1 DEF Cast, Members
<1>3. PartyOK' /\ Rooms'
  BY <1>1, <1>2 DEF IInv, PartyOK, Rooms
<1>4. CASE MatchingStart(c)
  <2>1. browsing' = browsing \union {c} /\ c \in online /\ ~InPlay(play, c)
    BY <1>4 DEF MatchingStart
  <2>2. listed' = [listed EXCEPT ![c] = IF party = None THEN None ELSE Row(party)]
    BY <1>4 DEF MatchingStart
  <2>3. Screens'
    BY <1>1, <2>1, <2>2 DEF IInv, Screens
  <2>4. Crowd' /\ OnStage'
    BY <1>1, <1>2, <2>1 DEF IInv, Crowd, OnStage
  <2> QED BY <1>3, <2>3, <2>4 DEF IInv
<1>5. CASE MatchingEnd(c)
  <2>1. browsing' = browsing \ {c} /\ listed' = [listed EXCEPT ![c] = None]
    BY <1>5 DEF MatchingEnd
  <2>2. Screens'
    BY <1>1, <2>1 DEF IInv, Screens
  <2>3. Crowd' /\ OnStage'
    BY <1>1, <1>2, <2>1 DEF IInv, Crowd, OnStage
  <2> QED BY <1>3, <2>2, <2>3 DEF IInv
<1> QED BY <1>4, <1>5

(* Nobody plays before the play begins.                                    *)
LEMMA NobodyPlays ==
  ASSUME IInv, party = None \/ Recruiting
  PROVE  \A c \in Chara : ~InPlay(play, c)
BY StageIsPeopled DEF Recruiting

(* A party that is peopled and fair, and listed, while nobody plays.       *)
LEMMA Recruited ==
  ASSUME IInv, \A c \in Chara : ~InPlay(play, c),
         UNCHANGED <<online, browsing, play, clock>>,
         NEW p \in Party, CastOK(p.cast), MembersOf(p.cast) # {}, MembersOf(p.cast) \subseteq online,
         party' = p, List(p) \/ (UNCHANGED listed /\ party # None /\ Row(party) = Row(p)),
         DOMAIN shown' = Chara, \A c \in MembersOf(p.cast) : shown'[c] = Room(p)
  PROVE  IInv'
<1>1. p # None
  BY PlayersAssumption
<1>2. Cast' = p.cast /\ Members' = MembersOf(p.cast)
  BY <1>1 DEF Cast, Members
<1>3. PartyOK' /\ Rooms'
  BY <1>1, <1>2 DEF PartyOK, Rooms
<1>4. Crowd' /\ OnStage'
  BY <1>2 DEF IInv, Crowd, OnStage
<1>5. Screens'
  BY <1>1 DEF IInv, Screens, List, Crowd
<1> QED BY <1>3, <1>4, <1>5 DEF IInv

LEMMA CreateKeeps ==
  ASSUME IInv, NEW c \in Chara, NEW role \in Roles, Create(c, role)
  PROVE  IInv'
<1> DEFINE a == [role |-> role, who |-> c, ready |-> FALSE, npc |-> FALSE]
           p == [cast |-> <<a>>, leader |-> role, state |-> "recruiting"]
<1>1. /\ c \in browsing /\ party = None /\ party' = p /\ List(p)
      /\ shown' = [d \in Chara |-> IF d \in {c} THEN Roster(p)[d] ELSE shown[d]]
      /\ UNCHANGED <<online, browsing, play, clock>>
  BY DEF Create, Tell
<1>2. a \in Actor /\ a.who = c /\ a.npc = FALSE
  BY DEF Actor
<1> HIDE DEF a
<1>3. CastOK(<<a>>) /\ Range(<<a>>) = {a}
  <2>1. c \notin Npcs
    BY PlayersAssumption
  <2>2. DOMAIN <<a>> = {1} /\ <<a>>[1] = a
    OBVIOUS
  <2>3. <<a>> \in Seq(Actor)
    BY <1>2
  <2> QED BY <1>2, <2>1, <2>2, <2>3 DEF CastOK, Range
<1>4. p \in Party /\ p.cast = <<a>>
  <2>1. <<a>> \in Seq(Actor)
    BY <1>3 DEF CastOK
  <2> QED BY <2>1 DEF Party
<1> HIDE DEF p
<1>5. MembersOf(p.cast) = {c}
  BY <1>2, <1>3, <1>4 DEF MembersOf, People
<1>6. c \in online
  BY <1>1 DEF IInv, Crowd
<1>7. \A d \in Chara : ~InPlay(play, d)
  BY <1>1, NobodyPlays
<1>8. DOMAIN shown' = Chara /\ shown'[c] = Room(p)
  BY <1>1 DEF Roster
<1> QED BY <1>1, <1>3, <1>4, <1>5, <1>6, <1>7, <1>8, Recruited

LEMMA SeatKeeps ==
  ASSUME IInv, Recruiting, NEW a \in Actor, a.role \in Unreserved(party),
         a.npc <=> a.who \in Npcs, \A b \in Range(Cast) : b.who # a.who,
         a.npc \/ a.who \in online, Seat(a)
  PROVE  IInv'
<1> DEFINE more == Append(Cast, a)
           p == [party EXCEPT !.cast = more]
<1>1. party \in Party /\ CastOK(party.cast) /\ Cast = party.cast /\ party # None
      /\ Members # {} /\ Members \subseteq online /\ Members = MembersOf(Cast)
  BY CastIsOK DEF Recruiting, IInv, PartyOK, Members
<1>2. /\ party' = p /\ List(p) /\ UNCHANGED <<online, browsing, play, clock>>
      /\ Tell(MembersOf(p.cast) \intersect online, Roster(p))
  BY <1>1, Zenon DEF Seat
<1>3. \A b \in Range(Cast) : b.role # a.role /\ b.who # a.who
  BY <1>1 DEF Unreserved
<1>4. CastOK(more) /\ Range(more) = Range(Cast) \union {a}
  BY <1>1, <1>3, WithOne
<1> HIDE DEF more
<1>5. p \in Party /\ p.cast = more
  BY <1>1, <1>4 DEF Party, CastOK
<1> HIDE DEF p
<1>6. MembersOf(p.cast) = IF a.npc THEN Members ELSE Members \union {a.who}
  BY <1>1, <1>4, <1>5 DEF MembersOf, People
<1>7. MembersOf(p.cast) # {} /\ MembersOf(p.cast) \subseteq online
  BY <1>1, <1>6
<1>8. \A c \in MembersOf(p.cast) : c \in Chara
  BY <1>4, <1>5, MembersAre
<1>9. DOMAIN shown' = Chara /\ \A c \in MembersOf(p.cast) : shown'[c] = Room(p)
  BY <1>2, <1>7, <1>8 DEF Tell, Roster
<1>10. \A d \in Chara : ~InPlay(play, d)
  BY NobodyPlays
<1> QED BY <1>2, <1>4, <1>5, <1>7, <1>9, <1>10, Recruited

LEMMA JoinKeeps ==
  ASSUME IInv, NEW c \in Chara, NEW role \in Roles, Join(c, role)
  PROVE  IInv'
<1> DEFINE a == [role |-> role, who |-> c, ready |-> FALSE, npc |-> FALSE]
<1>1. c \in browsing /\ c \notin Members /\ Recruiting /\ role \in Unreserved(party) /\ Seat(a)
  BY Zenon DEF Join
<1>2. a \in Actor /\ a.who = c /\ a.npc = FALSE /\ a.role = role
  BY DEF Actor
<1> HIDE DEF a
<1>3. c \notin Npcs /\ c \in online
  BY <1>1, PlayersAssumption DEF IInv, Crowd
<1>4. \A b \in Range(Cast) : b.who # c
  BY <1>1, CastIsOK, MembersAre DEF IInv, Members
<1> QED BY <1>1, <1>2, <1>3, <1>4, SeatKeeps

LEMMA SurrogateKeeps ==
  ASSUME IInv, NEW c \in Chara, NEW role \in Roles, NEW n \in Npcs, Surrogate(c, role, n)
  PROVE  IInv'
<1> DEFINE a == [role |-> role, who |-> n, ready |-> TRUE, npc |-> TRUE]
<1>1. Recruiting /\ role \in Unreserved(party) /\ ~InCast(Cast, n) /\ Seat(a)
  BY Zenon DEF Surrogate
<1>2. a \in Actor /\ a.who = n /\ a.npc = TRUE /\ a.role = role
  BY DEF Actor
<1> HIDE DEF a
<1>3. \A b \in Range(Cast) : b.who # n
  BY <1>1 DEF InCast, Range
<1> QED BY <1>1, <1>2, <1>3, SeatKeeps

(* A seat is known by its role.                                            *)
LEMMA SeatsBut ==
  ASSUME NEW p, CastOK(p.cast), NEW x \in Range(p.cast)
  PROVE  {t \in Seats(p) : t[1] # x.role}
           = {<<a.role, a.who, a.ready>> : a \in Range(p.cast) \ {x}}
<1>1. \A a \in Range(p.cast) : a.role = x.role <=> a = x
  BY CastIsFair
<1> QED BY <1>1 DEF Seats

LEMMA Reseated ==
  ASSUME IInv, party # None, NEW x \in Range(Cast), NEW y, y.role = x.role,
         NEW p, Range(p.cast) = (Range(Cast) \ {x}) \union {y}, p.leader = party.leader
  PROVE  /\ \A d \in Members : Seated(<<y.role, y.who, y.ready>>)[d] = Room(p)
         /\ Unreserved(p) = Unreserved(party)
<1>1. party \in Party /\ CastOK(party.cast) /\ Cast = party.cast
  BY CastIsOK DEF IInv, PartyOK
<1> DEFINE s == <<y.role, y.who, y.ready>>
           rest == {t \in Seats(party) : t[1] # s[1]}
<1>2. rest = {<<a.role, a.who, a.ready>> : a \in Range(party.cast) \ {x}}
  BY <1>1, SeatsBut
<1>3. Seats(p) = rest \union {s}
  BY <1>1, <1>2 DEF Seats
<1>4. ASSUME NEW d \in Members
      PROVE  Seated(s)[d] = Room(p)
  <2>1. shown[d] = Room(party) /\ Room(party) # None /\ d \in Chara
    BY <1>1, RoomIsKnown, MemberSeat DEF IInv, Rooms
  <2>2. Seated(s)[d] = [shown[d] EXCEPT !.seats = {t \in @ : t[1] # s[1]} \union {s}]
    BY <2>1, Zenon DEF Seated
  <2>3. shown[d] = [seats |-> Seats(party), leader |-> party.leader]
    BY <2>1 DEF Room
  <2> HIDE DEF s
  <2>4. Seated(s)[d] = [seats |-> rest \union {s}, leader |-> party.leader]
    BY <2>2, <2>3
  <2> QED BY <1>3, <2>4, RoomsDiffer
<1>5. Unreserved(p) = Unreserved(party)
  BY <1>1 DEF Unreserved
<1> QED BY <1>4, <1>5

LEMMA IndexOf ==
  ASSUME PartyOK, NEW who, InCast(Cast, who)
  PROVE  LET at == CHOOSE i \in DOMAIN Cast : Cast[i].who = who
         IN at \in DOMAIN Cast /\ Cast[at].who = who /\ Cast[at] = ActorOf(who)
<1> DEFINE at == CHOOSE i \in DOMAIN Cast : Cast[i].who = who
<1>1. at \in DOMAIN Cast /\ Cast[at].who = who
  BY DEF InCast
<1> HIDE DEF at
<1>2. Cast[at] \in Range(Cast)
  BY <1>1 DEF Range
<1>3. ActorOf(Cast[at].who) = Cast[at]
  BY <1>2, ActorIs
<1> QED BY <1>1, <1>3 DEF at

LEMMA MemberInCast ==
  ASSUME PartyOK, NEW c \in Members
  PROVE  InCast(Cast, c)
<1>1. ActorOf(c) \in Range(Cast) /\ ActorOf(c).who = c
  BY MemberSeat
<1> QED BY <1>1 DEF InCast, Range

LEMMA ReadyKeeps ==
  ASSUME IInv, NEW c \in Chara, NEW prepare \in BOOLEAN, Ready(c, prepare)
  PROVE  IInv'
<1> DEFINE at == CHOOSE i \in DOMAIN Cast : Cast[i].who = c
           x == Cast[at]
           y == [x EXCEPT !.ready = prepare]
           cast == [Cast EXCEPT ![at] = y]
           p == [party EXCEPT !.cast = cast]
           s == <<ActorOf(c).role, c, prepare>>
<1>1. /\ c \in Members /\ Recruiting
      /\ party' = [party EXCEPT !.cast[at].ready = prepare]
      /\ Tell(Members \intersect online, Seated(s))
      /\ UNCHANGED <<online, browsing, play, clock, listed>>
  BY Zenon DEF Ready
<1>2. /\ party \in Party /\ CastOK(party.cast) /\ CastOK(Cast) /\ Cast = party.cast /\ party # None
      /\ Members # {} /\ Members \subseteq online /\ Members = MembersOf(Cast)
      /\ DOMAIN shown = Chara
  BY <1>1, CastIsOK DEF Recruiting, IInv, PartyOK, Members, Rooms
<1>3. at \in DOMAIN Cast /\ x.who = c /\ x = ActorOf(c) /\ x \in Actor /\ x.npc = FALSE
  <2>1. InCast(Cast, c)
    BY <1>1, MemberInCast DEF IInv
  <2>2. at \in DOMAIN Cast /\ x.who = c /\ x = ActorOf(c)
    BY <2>1, IndexOf DEF IInv
  <2>3. ActorOf(c) \in Actor /\ ~ActorOf(c).npc
    BY <1>1, MemberSeat DEF IInv
  <2> HIDE DEF x, at
  <2> QED BY <2>2, <2>3 DEF Actor
<1>4. party' = p
  BY <1>1, <1>2, <1>3 DEF Party
<1> HIDE DEF at
<1>5. x \in Range(Cast)
  BY <1>3 DEF Range
<1> HIDE DEF x
<1>6. y \in Actor /\ y.role = x.role /\ y.who = c /\ y.npc = FALSE /\ y.ready = prepare
  BY <1>3 DEF Actor
<1> HIDE DEF y
<1>7. CastOK(cast) /\ Range(cast) = (Range(Cast) \ {x}) \union {y}
  <2>1. \A b \in Range(Cast) : b.who = y.who => b = x
    BY <1>2, <1>3, <1>5, <1>6, CastIsFair
  <2>2. y.npc <=> y.who \in Npcs
    BY <1>6, PlayersAssumption
  <2>3. FitsAt(Cast, at, y)
    BY <1>2, <1>3, <1>6, <2>1, <2>2 DEF FitsAt, x
  <2>4. CastOK(cast) /\ Range(cast) = (Range(Cast) \ {Cast[at]}) \union {y}
    <3>1. cast = Instead(Cast, at, y)
      BY DEF Instead
    <3> HIDE DEF cast
    <3> QED BY <2>3, <3>1, OtherOne
  <2> QED BY <2>4 DEF x
<1> HIDE DEF cast
<1>8. p \in Party /\ p.cast = cast /\ p.leader = party.leader /\ p.state = party.state
  BY <1>2, <1>7 DEF Party, CastOK
<1> HIDE DEF p
<1>9. MembersOf(p.cast) = Members
  <2>1. \A d \in Chara : d \in MembersOf(cast) <=> \E a \in Range(cast) : a.who = d
    BY <1>7, MembersAre
  <2>2. \A d \in Chara : d \in Members <=> \E a \in Range(Cast) : a.who = d
    BY <1>2, MembersAre
  <2>3. \A d \in MembersOf(cast) \union Members : d \in Chara
    BY <1>2, <1>7, MembersAre
  <2>4. \A d : (\E a \in Range(cast) : a.who = d) <=> \E a \in Range(Cast) : a.who = d
    BY <1>3, <1>5, <1>6, <1>7
  <2>5. \A d : d \in MembersOf(cast) <=> d \in Members
    BY <2>1, <2>2, <2>3, <2>4
  <2> QED BY <1>8, <2>5
<1>10. s = <<y.role, y.who, y.ready>>
  BY <1>3, <1>6
<1>11. (\A d \in Members : Seated(s)[d] = Room(p)) /\ Unreserved(p) = Unreserved(party)
  BY <1>2, <1>5, <1>6, <1>7, <1>8, <1>10, Reseated
<1> HIDE DEF s
<1>12. Row(party) = Row(p)
  BY <1>8, <1>11 DEF Row
<1>13. DOMAIN shown' = Chara /\ \A d \in MembersOf(p.cast) : shown'[d] = Room(p)
  <2>1. \A d \in Members : d \in Chara
    BY <1>2, MembersAre
  <2> QED BY <1>1, <1>2, <1>9, <1>11, <2>1 DEF Tell
<1>14. \A d \in Chara : ~InPlay(play, d)
  BY <1>1, NobodyPlays
<1> QED BY <1>1, <1>2, <1>4, <1>7, <1>8, <1>9, <1>12, <1>13, <1>14, Recruited

LEMMA RunnerFits ==
  ASSUME NEW role \in Roles
  PROVE  RunnerOK(Runner(role)) /\ Runner(role).role = role
<1> DEFINE r == Runner(role)
<1>1. /\ DOMAIN r = RunnerFields /\ r.role = role /\ r.at = 1 /\ r.held = FALSE
      /\ r.begun = FALSE /\ r.doing = "asked"
  BY DEF Runner, RunnerFields
<1> HIDE DEF r
<1>2. 1 \in DOMAIN Scene
  BY SceneIsThere
<1>3. RunnerOK(r)
  BY <1>1, <1>2 DEF RunnerOK
<1> QED BY <1>1, <1>3 DEF r

LEMMA StartKeeps ==
  ASSUME IInv, NEW c \in Chara, Start(c)
  PROVE  IInv'
<1> DEFINE p == [party EXCEPT !.state = "running"]
           q == Lit(Cast)
<1>1. /\ Recruiting /\ party' = p /\ browsing' = browsing \ Members
      /\ listed' = [d \in Chara |-> IF d \in browsing' THEN Row(p) ELSE None]
      /\ play' = Walk(q, Cast) /\ UNCHANGED <<online, clock, shown>>
  BY DEF Start
<1>2. /\ party \in Party /\ CastOK(party.cast) /\ Cast = party.cast /\ Len(Cast) \in Nat
      /\ Members # {} /\ Members \subseteq online /\ CastOK(Cast) /\ Members = MembersOf(Cast)
  BY <1>1, CastIsOK DEF Recruiting, IInv, PartyOK, Members
<1>3. /\ p \in Party /\ p.cast = party.cast /\ p.state = "running" /\ p.leader = party.leader
      /\ p # None
  BY <1>2, PlayersAssumption DEF Party
<1> HIDE DEF p
<1>4. Cast' = Cast /\ Members' = Members /\ Room(p) = Room(party)
  BY <1>1, <1>2, <1>3 DEF Cast, Members, Room, Seats
<1>5. Crowd' /\ PartyOK'
  BY <1>1, <1>2, <1>3, <1>4 DEF IInv, Crowd, PartyOK
<1>6. Rooms'
  BY <1>1, <1>4 DEF IInv, Rooms
<1>7. Screens'
  <2>1. browsing' \subseteq Chara
    BY <1>1 DEF IInv, Crowd
  <2> QED BY <1>1, <1>3, <2>1 DEF Screens
<1>8. /\ DOMAIN q = {"scr", "cur", "reg"} /\ DOMAIN q.scr = Chara
      /\ \A d \in Chara : q.scr[d] = IF d \in Members \intersect online
                                     THEN Runner((CHOOSE a \in Range(Cast) : a.who = d).role)
                                     ELSE play.scr[d]
  BY <1>2 DEF Lit
<1> HIDE DEF q
<1>9. ASSUME NEW d \in Chara, InPlay(q, d)
      PROVE  /\ d \in Members /\ RunnerOK(q.scr[d])
             /\ HasPart(Cast, d, q.scr[d].role)
  <2>1. ~InPlay(play, d)
    BY <1>1, NobodyPlays
  <2>2. d \in Members
    BY <1>8, <1>9, <2>1 DEF InPlay
  <2>3. ActorOf(d) \in Range(Cast) /\ ActorOf(d).who = d /\ ActorOf(d).role \in Roles
    BY <2>2, MemberSeat DEF IInv
  <2>4. q.scr[d] = Runner(ActorOf(d).role)
    BY <1>2, <1>8, <2>2 DEF ActorOf
  <2> QED BY <2>2, <2>3, <2>4, RunnerFits DEF HasPart
<1>10. StageOK(q)
  BY <1>8, <1>9 DEF StageOK
<1>11. Keeps(q, play')
  BY <1>1, <1>2, <1>10, WalkAside, AsideOnward, OnwardKeeps DEF StageOK
<1>12. OnStage'
  <2>1. ASSUME NEW d \in Chara, InPlay(play', d)
        PROVE  d \in Members /\ HasPart(Cast, d, play'.scr[d].role)
    <3>1. InPlay(q, d) /\ play'.scr[d].role = q.scr[d].role
      BY <1>11, <2>1 DEF Keeps
    <3> QED BY <1>9, <3>1
  <2> QED BY <1>1, <1>3, <1>4, <1>11, <2>1 DEF OnStage, Keeps
<1> QED BY <1>5, <1>6, <1>7, <1>12 DEF IInv

(* The play ends when the last of it has come to its end.                  *)
LEMMA FinishesKeeps ==
  ASSUME IInv, NEW c \in Chara, Finishes(c)
  PROVE  IInv'
<1> DEFINE q == Settled(c)
           on == [q EXCEPT !.scr[c] = Offstage]
           over == [on EXCEPT !.cur = NoCursors]
           p == [party EXCEPT !.state = "recruiting"]
<1>1. /\ Comes(c, "end") /\ clock' = clock \ {c} /\ UNCHANGED <<online, browsing, shown>>
      /\ \/ Stage(on, Cast) = {} /\ party' = p /\ play' = over /\ List(p)
         \/ play' = on /\ UNCHANGED <<party, listed>>
  BY DEF Finishes, PartyEnd
<1>2. online \subseteq Chara /\ StageOK(play) /\ Len(Cast) \in Nat /\ InPlay(play, c)
  BY <1>1, CastIsOK DEF IInv, Crowd, OnStage, Comes, Doing
<1>3. Keeps(play, q) /\ StageOK(q)
  BY <1>1, <1>2, ComesTo
<1> HIDE DEF q
<1>4. LeftBy(q, on, c)
  BY <1>3, OffstageKeeps
<1> HIDE DEF on
<1>5. Keeps(play, on) /\ StageOK(on)
  BY <1>3, <1>4, KeepsKeeps DEF LeftBy, Keeps
<1>6. clock' \subseteq online
  BY <1>1 DEF IInv, Crowd
<1>7. CASE play' = on /\ UNCHANGED <<party, listed>>
  BY <1>1, <1>5, <1>6, <1>7, PlayedOn DEF Onstage
<1>8. CASE Stage(on, Cast) = {} /\ party' = p /\ play' = over /\ List(p)
  <2>1. /\ party \in Party /\ CastOK(party.cast) /\ Cast = party.cast
        /\ Members # {} /\ Members \subseteq online /\ Members = MembersOf(Cast)
    BY <1>2, StageIsPeopled, CastIsOK DEF IInv, PartyOK, Members
  <2>2. /\ p \in Party /\ p.cast = party.cast /\ p.leader = party.leader /\ p # None
    BY <2>1, PlayersAssumption DEF Party
  <2> HIDE DEF p
  <2>3. Cast' = Cast /\ Members' = Members /\ Room(p) = Room(party)
    BY <1>8, <2>1, <2>2 DEF Cast, Members, Room, Seats
  <2>4. Crowd' /\ PartyOK' /\ Rooms'
    BY <1>1, <1>6, <1>8, <2>1, <2>2, <2>3 DEF IInv, Crowd, PartyOK, Rooms
  <2>5. Screens'
    BY <1>1, <1>2, <1>8, <2>2 DEF Screens, List, IInv, Crowd
  <2>6. DOMAIN over = {"scr", "cur", "reg"} /\ over.scr = on.scr
    BY <1>5 DEF StageOK
  <2> HIDE DEF over
  <2>7. StageOK(over)
    BY <1>5, <2>6 DEF StageOK, InPlay
  <2>8. \A d \in Chara : ~InPlay(on, d)
    <3> SUFFICES ASSUME NEW d \in Chara, InPlay(on, d)
                 PROVE  FALSE
      OBVIOUS
    <3>1. InPlay(play, d)
      BY <1>5 DEF Keeps
    <3>2. d \in Members /\ d \in online
      BY <3>1, StageIsPeopled
    <3> QED BY <1>8, <2>1, <3>2 DEF Stage
  <2>9. \A d \in Chara : ~InPlay(play', d)
    BY <1>8, <2>6, <2>8 DEF InPlay
  <2> QED BY <1>8, <2>4, <2>5, <2>7, <2>9 DEF IInv, OnStage
<1> QED BY <1>1, <1>7, <1>8

-----------------------------------------------------------------------------
(* A role is emptied.                                                      *)
LEMMA LongestLeads ==
  ASSUME NEW cast, CastOK(cast), People(cast) # {}
  PROVE  Longest(cast) \in Range(cast) /\ Longest(cast).role \in Roles
<1> DEFINE S == {i \in DOMAIN cast : ~cast[i].npc}
           first == CHOOSE i \in DOMAIN cast : ~cast[i].npc /\ \A j \in 1..(i - 1) : cast[j].npc
<1>1. Len(cast) \in Nat /\ DOMAIN cast = 1..Len(cast) /\ Range(cast) \subseteq Actor
  BY CastIsFair
<1>2. S # {} /\ S \in SUBSET Nat
  BY <1>1 DEF People, Range
<1> HIDE DEF S
<1>3. PICK i \in S : \A j \in S : i <= j
  BY <1>2, FirstBad
<1>4. i \in DOMAIN cast /\ ~cast[i].npc /\ \A j \in 1..(i - 1) : cast[j].npc
  BY <1>1, <1>3 DEF S
<1>5. first \in DOMAIN cast
  BY <1>4
<1> HIDE DEF first
<1>6. cast[first] \in Range(cast)
  BY <1>5 DEF Range
<1>7. Longest(cast) = cast[first]
  BY DEF Longest, first
<1> QED BY <1>1, <1>6, <1>7 DEF Actor

(* What Leave makes of the party and of what the clients show.             *)
Emptied(who) ==
  /\ party' # None => /\ party' \in Party /\ CastOK(party'.cast) /\ Members' # {}
                      /\ party'.state = party.state
  /\ Members' \subseteq Members \ {who}
  /\ \A c \in Chara \ {who} : \A role : HasPart(Cast, c, role) => HasPart(Cast', c, role)
  /\ Rooms'

LEMMA LeaveEmpties ==
  ASSUME IInv, NEW who, InCast(Cast, who), Leave(who)
  PROVE  Emptied(who)
<1> DEFINE at == CHOOSE i \in DOMAIN party.cast : party.cast[i].who = who
           x == party.cast[at]
           cast == RemoveAt(party.cast, at)
           lead == IF x.role = party.leader THEN Longest(cast).role ELSE party.leader
           q == [party EXCEPT !.cast = cast, !.leader = lead]
           p == Parted(party, who)
           role == ActorOf(who).role
           S == (Members \union ({who} \intersect Chara)) \intersect online
           told == [c \in Chara |-> IF c = who THEN None ELSE Left(role, p)[c]]
<1>1. party' = p /\ Tell(S, told)
  BY Zenon DEF Leave
<1>2. /\ party # None /\ party \in Party /\ CastOK(party.cast) /\ Cast = party.cast
      /\ Members \subseteq online /\ Members = MembersOf(party.cast)
  <2>1. party # None
    BY CastIsOK DEF IInv, InCast
  <2> QED BY <2>1, CastIsOK DEF IInv, PartyOK, Members
<1>3. at \in DOMAIN party.cast /\ x.who = who /\ x = ActorOf(who) /\ x \in Range(party.cast)
  <2>1. at \in DOMAIN party.cast /\ x.who = who /\ x = ActorOf(who)
    BY <1>2, IndexOf DEF IInv
  <2> HIDE DEF at
  <2> QED BY <2>1 DEF Range
<1>4. p = IF People(cast) = {} THEN None ELSE q
  <2>1. p = IF People(cast) = {} THEN None
            ELSE [party EXCEPT !.cast = cast,
                               !.leader = IF x.role = @ THEN Longest(cast).role ELSE @]
    BY Zenon DEF Parted
  <2> QED BY <2>1
<1> HIDE DEF at, p
<1>5. CastOK(cast) /\ Range(cast) = Range(party.cast) \ {x}
  BY <1>2, <1>3, WithoutOne
<1> HIDE DEF x, cast
<1>6. lead \in Roles \/ People(cast) = {}
  BY <1>2, <1>5, LongestLeads DEF Party
<1> HIDE DEF lead
<1>7. People(cast) # {} => /\ q \in Party /\ q.cast = cast /\ q.state = party.state
                           /\ q.leader = lead /\ q # None
  BY <1>2, <1>5, <1>6, PlayersAssumption DEF Party, CastOK
<1> HIDE DEF q
<1>8. MembersOf(cast) = MembersOf(party.cast) \ {who}
  <2>1. \A a \in Range(party.cast) : a = x <=> a.who = who
    BY <1>2, <1>3, CastIsFair
  <2> QED BY <1>5, <2>1 DEF MembersOf, People
<1>9. MembersOf(cast) = {} <=> People(cast) = {}
  BY DEF MembersOf
<1>10. CASE People(cast) = {}
  <2>1. party' = None /\ Cast' = <<>> /\ Members' = {}
    <3>1. party' = None
      BY <1>1, <1>4, <1>10
    <3>2. MembersOf(<<>>) = {}
      BY DEF MembersOf, People, Range
    <3> QED BY <3>1, <3>2 DEF Cast, Members
  <2>2. ASSUME NEW c \in Chara \ {who}, NEW part, HasPart(Cast, c, part)
        PROVE  FALSE
    <3>1. c \in MembersOf(party.cast)
      BY <1>2, <2>2, MembersAre DEF HasPart
    <3> QED BY <1>8, <1>9, <1>10, <3>1
  <2>3. DOMAIN shown' = Chara
    BY <1>1 DEF Tell
  <2> QED BY <2>1, <2>2, <2>3 DEF Emptied, Rooms
<1>11. CASE People(cast) # {}
  <2>1. /\ party' = q /\ p = q /\ Cast' = cast /\ Members' = MembersOf(cast)
        /\ party' # None /\ party' \in Party
    BY <1>1, <1>4, <1>7, <1>11 DEF Cast, Members
  <2>2. ASSUME NEW c \in Chara \ {who}, NEW part, HasPart(Cast, c, part)
        PROVE  HasPart(Cast', c, part)
    BY <1>2, <1>3, <1>5, <2>1, <2>2 DEF HasPart
  <2>3. Seats(q) = {s \in Seats(party) : s[1] # role}
    <3>1. {s \in Seats(party) : s[1] # x.role}
             = {<<a.role, a.who, a.ready>> : a \in Range(party.cast) \ {x}}
      BY <1>2, <1>3, SeatsBut
    <3> QED BY <1>3, <1>5, <1>7, <1>11, <3>1 DEF Seats
  <2>4. ASSUME NEW c \in Members'
        PROVE  shown'[c] = Room(q)
    <3>1. c \in Members /\ c # who /\ c \in Chara /\ c \in S
      BY <1>2, <1>8, <2>1, <2>4, MembersAre
    <3>2. shown[c] = Room(party) /\ shown[c] # None
      BY <1>2, <3>1, RoomIsKnown DEF IInv, Rooms
    <3>3. shown'[c] = Left(role, p)[c]
      BY <1>1, <3>1 DEF Tell
    <3>4. Left(role, p)[c] = [seats |-> {s \in shown[c].seats : s[1] # role}, leader |-> p.leader]
      BY <3>1, <3>2 DEF Left
    <3>5. shown[c].seats = Seats(party)
      BY <3>2 DEF Room
    <3> QED BY <2>1, <2>3, <3>3, <3>4, <3>5 DEF Room
  <2>5. DOMAIN shown' = Chara
    BY <1>1 DEF Tell
  <2>6. Rooms'
    BY <2>1, <2>4, <2>5 DEF Rooms
  <2>7. CastOK(party'.cast) /\ Members' # {} /\ party'.state = party.state
        /\ Members' \subseteq Members \ {who}
    BY <1>2, <1>5, <1>7, <1>8, <1>9, <1>11, <2>1
  <2> QED BY <2>1, <2>2, <2>6, <2>7 DEF Emptied
<1> QED BY <1>10, <1>11

(* The ways out of the room.                                               *)
LEMMA NobodysPart ==
  \A c, role : ~HasPart(<<>>, c, role)
BY DEF HasPart, Range

LEMMA MembersOnline ==
  ASSUME PartyOK
  PROVE  Members \subseteq online
BY CastIsOK DEF PartyOK

LEMMA ListShows ==
  ASSUME IInv, List(party'), browsing' \subseteq browsing
  PROVE  Screens'
BY DEF IInv, Screens, List, Crowd

LEMMA EmptiedPeople ==
  ASSUME IInv, NEW who, Emptied(who), Members \ {who} \subseteq online'
  PROVE  PartyOK' /\ Rooms'
<1>1. Members' \subseteq online'
  BY DEF Emptied
<1> QED BY <1>1 DEF Emptied, PartyOK

LEMMA PartKeeps ==
  ASSUME IInv, NEW c \in Chara, Part(c)
  PROVE  IInv'
<1>1. /\ c \in Members /\ c \in browsing /\ Leave(c) /\ List(party')
      /\ play' = Dropped(party', play) /\ UNCHANGED <<online, browsing, clock>>
  BY DEF Part
<1>2. Emptied(c)
  BY <1>1, MemberInCast, LeaveEmpties DEF IInv
<1>3. PartyOK' /\ Rooms' /\ Screens'
  BY <1>1, <1>2, EmptiedPeople, ListShows, MembersOnline DEF IInv
<1>4. Crowd'
  BY <1>1 DEF IInv, Crowd
<1>5. play'.scr = play.scr /\ StageOK(play')
  BY <1>1 DEF Dropped, IInv, OnStage, StageOK, InPlay
<1>6. ASSUME NEW d \in Chara, InPlay(play', d)
      PROVE  /\ HasPart(Cast', d, play'.scr[d].role)
             /\ d \notin browsing' /\ party'.state = "running"
  <2>1. InPlay(play, d) /\ d \notin browsing /\ d # c
    BY <1>1, <1>5, <1>6, StageIsPeopled DEF InPlay
  <2>2. HasPart(Cast, d, play.scr[d].role) /\ party.state = "running"
    BY <2>1 DEF IInv, OnStage
  <2>3. HasPart(Cast', d, play.scr[d].role)
    BY <1>2, <2>1, <2>2 DEF Emptied
  <2>4. party' # None
    BY <2>3, NobodysPart DEF Cast
  <2> QED BY <1>1, <1>2, <1>5, <2>1, <2>2, <2>3, <2>4 DEF Emptied
<1> QED BY <1>3, <1>4, <1>5, <1>6 DEF IInv, OnStage

LEMMA KickKeeps ==
  ASSUME IInv, NEW c \in Chara, NEW who, Kick(c, who)
  PROVE  IInv'
<1>1. /\ Recruiting /\ InCast(Cast, who) /\ Leave(who) /\ List(party')
      /\ UNCHANGED <<online, browsing, play, clock>>
  BY DEF Kick
<1>2. Emptied(who)
  BY <1>1, LeaveEmpties
<1>3. PartyOK' /\ Rooms' /\ Screens'
  BY <1>1, <1>2, EmptiedPeople, ListShows, MembersOnline DEF IInv
<1>4. Crowd'
  BY <1>1 DEF IInv, Crowd
<1>5. \A d \in Chara : ~InPlay(play, d)
  BY <1>1, NobodyPlays
<1>6. OnStage'
  BY <1>1, <1>5 DEF IInv, OnStage
<1> QED BY <1>3, <1>4, <1>6 DEF IInv

(* A member who is lost takes no part any more, and its role is empty.     *)
LEMMA GoneKeeps ==
  ASSUME IInv, NEW c \in Chara, Gone(c), online' = online \ {c}, browsing' = browsing \ {c}
  PROVE  IInv'
<1>1. clock' = clock \ {c}
  BY DEF Gone
<1>2. Crowd'
  BY <1>1 DEF IInv, Crowd
<1>3. CASE c \notin Members
  <2>1. listed' = [listed EXCEPT ![c] = None] /\ UNCHANGED <<party, play, shown>>
    BY <1>3 DEF Gone
  <2>2. Cast' = Cast /\ Members' = Members
    BY <2>1 DEF Cast, Members
  <2>3. PartyOK' /\ Rooms'
    BY <1>3, <2>1, <2>2 DEF IInv, PartyOK, Rooms
  <2>4. Screens' /\ OnStage'
    BY <2>1, <2>2 DEF IInv, Screens, OnStage
  <2> QED BY <1>2, <2>3, <2>4 DEF IInv
<1>4. CASE c \in Members
  <2> DEFINE off == [play EXCEPT !.scr[c] = Offstage]
             left == Dropped(party', off)
  <2>1. /\ Leave(c) /\ play' = IF party' = None THEN left ELSE ReleaseHeld(left, party'.cast)
        /\ listed' = [d \in Chara |-> IF d \notin browsing \ {c} \/ party' = None
                                       THEN None ELSE Row(party')]
    BY <1>4 DEF Gone
  <2>2. Emptied(c)
    BY <1>4, <2>1, MemberInCast, LeaveEmpties DEF IInv
  <2>3. PartyOK' /\ Rooms'
    BY <2>2, EmptiedPeople, MembersOnline DEF IInv
  <2>4. Screens'
    BY <2>1 DEF Screens, IInv, Crowd
  <2>5. LeftBy(play, off, c) /\ StageOK(off)
    BY OffstageKeeps DEF IInv, OnStage, LeftBy, Keeps
  <2> HIDE DEF off
  <2>6. LeftBy(play, left, c) /\ StageOK(left)
    <3>1. left.scr = off.scr /\ DOMAIN left = {"scr", "cur", "reg"}
      BY <2>5 DEF Dropped, StageOK
    <3> HIDE DEF left
    <3> QED BY <2>5, <3>1 DEF LeftBy, Keeps, StageOK, InPlay
  <2> HIDE DEF left
  <2>7. LeftBy(play, play', c)
    <3>1. CASE party' = None
      BY <2>1, <2>6, <3>1
    <3>2. CASE party' # None
      <4>1. Len(party'.cast) \in Nat
        BY <2>2, <3>2, CastIsFair DEF Emptied
      <4>2. Keeps(left, ReleaseHeld(left, party'.cast))
        BY <2>6, <4>1, ReleaseOnward, OnwardKeeps DEF IInv, Crowd
      <4> QED BY <2>1, <2>6, <3>2, <4>2, LeftFurther
    <3> QED BY <3>1, <3>2
  <2>8. ASSUME NEW d \in Chara, InPlay(play', d)
        PROVE  /\ HasPart(Cast', d, play'.scr[d].role)
               /\ d \notin browsing' /\ party'.state = "running"
    <3>1. InPlay(play, d) /\ d # c /\ play'.scr[d].role = play.scr[d].role
      BY <2>7, <2>8 DEF LeftBy, Keeps
    <3>2. HasPart(Cast, d, play.scr[d].role) /\ party.state = "running" /\ d \notin browsing
      BY <3>1 DEF IInv, OnStage
    <3>3. HasPart(Cast', d, play.scr[d].role)
      BY <2>2, <3>1, <3>2 DEF Emptied
    <3>4. party' # None
      BY <3>3, NobodysPart DEF Cast
    <3> QED BY <2>2, <3>1, <3>2, <3>3, <3>4 DEF Emptied
  <2>9. OnStage'
    BY <2>7, <2>8 DEF OnStage, LeftBy, Keeps
  <2> QED BY <1>2, <2>3, <2>4, <2>9 DEF IInv
<1> QED BY <1>3, <1>4

(* There is always a stand-in to spare: each who plays has a role, and the *)
(* member who leaves has one too.                                          *)
LEMMA UnderstudyIsFree ==
  ASSUME PartyOK, NEW c \in Members
  PROVE  Understudy(Cast) \in Npcs /\ ~InCast(Cast, Understudy(Cast))
<1> DEFINE all == Npcs \union {c}
           f == [x \in all |-> ActorOf(x).role]
<1> SUFFICES ASSUME \A n \in Npcs : InCast(Cast, n)
             PROVE  FALSE
  BY DEF Understudy
<1>1. \A x \in all : /\ ActorOf(x) \in Range(Cast) /\ ActorOf(x).who = x
                     /\ ActorOf(x).role \in Roles
  <2> TAKE x \in all
  <2>1. InCast(Cast, x)
    BY MemberInCast
  <2>2. PICK i \in DOMAIN Cast : Cast[i].who = x
    BY <2>1 DEF InCast
  <2>3. Cast[i] \in Range(Cast)
    BY <2>2 DEF Range
  <2>4. ActorOf(x) = Cast[i]
    BY <2>2, <2>3, ActorIs
  <2>5. Cast[i].role \in Roles
    BY <2>3, CastIsOK, CastIsFair DEF Actor
  <2> QED BY <2>2, <2>3, <2>4, <2>5
<1>2. c \notin Npcs
  BY MemberSeat, PlayersAssumption
<1>3. /\ IsFiniteSet(all) /\ IsFiniteSet(Roles) /\ Cardinality(Roles) < Cardinality(all)
  <2>1. IsFiniteSet(all) /\ Cardinality(all) = Cardinality(Npcs) + 1
    BY <1>2, NpcsAssumption, FS_AddElement
  <2>2. Cardinality(Npcs) \in Nat /\ Cardinality(Roles) \in Nat
    BY NpcsAssumption, FS_CardinalityType
  <2> QED BY <2>1, <2>2, NpcsAssumption
<1>4. f \in [all -> Roles]
  BY <1>1
<1> HIDE DEF all
<1>5. PICK x, y \in all : x # y /\ f[x] = f[y]
  <2> HIDE DEF f
  <2> QED BY <1>3, <1>4, FS_PigeonHole
<1>6. ActorOf(x).role = ActorOf(y).role
  BY <1>5
<1>7. ActorOf(x) = ActorOf(y)
  BY <1>1, <1>6, CastIsOK, CastIsFair
<1> QED BY <1>1, <1>5, <1>7

(* The stand-in is put in the leaver's place.                              *)
LEMMA Replaced ==
  ASSUME PartyOK, NEW c \in Members, NEW n \in Npcs, ~InCast(Cast, n)
  PROVE  LET cast == StandsIn(c, n)  x == ActorOf(c)
             y == [x EXCEPT !.who = n, !.npc = TRUE, !.ready = TRUE]
         IN /\ CastOK(cast) /\ Range(cast) = (Range(Cast) \ {x}) \union {y}
            /\ y.role = x.role /\ y.who = n /\ y.ready = TRUE /\ y.npc = TRUE
<1> DEFINE at == CHOOSE i \in DOMAIN Cast : Cast[i].who = c
           x == ActorOf(c)
           y == [x EXCEPT !.who = n, !.npc = TRUE, !.ready = TRUE]
           cast == StandsIn(c, n)
           other == [Cast EXCEPT ![at] = y]
<1>1. CastOK(Cast) /\ x \in Actor /\ x \in Range(Cast) /\ x.who = c
  BY CastIsOK, MemberSeat
<1>2. at \in DOMAIN Cast /\ Cast[at].who = c /\ Cast[at] = x
  BY MemberInCast, IndexOf
<1>3. cast = [i \in DOMAIN Cast |-> IF Cast[i].who = c
                                     THEN [Cast[i] EXCEPT !.who = n, !.npc = TRUE, !.ready = TRUE]
                                     ELSE Cast[i]]
  BY Zenon DEF StandsIn
<1> HIDE DEF at, x, cast
<1>4. \A i \in DOMAIN Cast : Cast[i].who = c <=> i = at
  BY <1>1, <1>2 DEF CastOK
<1>5. y \in Actor /\ y.role = x.role /\ y.who = n /\ y.npc = TRUE /\ y.ready = TRUE
  BY <1>1 DEF Actor
<1>6. cast = other
  <2>1. [Cast[at] EXCEPT !.who = n, !.npc = TRUE, !.ready = TRUE] = y
    BY <1>2
  <2> HIDE DEF y
  <2>2. \A i \in DOMAIN Cast :
          (IF Cast[i].who = c THEN [Cast[i] EXCEPT !.who = n, !.npc = TRUE, !.ready = TRUE]
           ELSE Cast[i]) = IF i = at THEN y ELSE Cast[i]
    BY <1>4, <2>1
  <2>3. Cast = [i \in DOMAIN Cast |-> Cast[i]]
    BY <1>1 DEF CastOK
  <2> QED BY <1>2, <1>3, <2>2, <2>3
<1> HIDE DEF y
<1>7. \A b \in Range(Cast) : b.who = y.who => b = Cast[at]
  BY <1>5 DEF InCast, Range
<1>8. CastOK(other) /\ Range(other) = (Range(Cast) \ {Cast[at]}) \union {y}
  <2>1. y.role = Cast[at].role /\ (y.npc <=> y.who \in Npcs)
    BY <1>2, <1>5
  <2>2. FitsAt(Cast, at, y)
    BY <1>1, <1>2, <1>5, <1>7, <2>1 DEF FitsAt
  <2>3. other = Instead(Cast, at, y)
    BY DEF Instead
  <2> HIDE DEF other
  <2> QED BY <2>2, <2>3, OtherOne
<1> QED BY <1>2, <1>5, <1>6, <1>8 DEF x, y, cast

(* A member who leaves the play keeps the role peopled by a stand-in, and  *)
(* if it was the last the party is over.                                   *)
LEMMA RetiresKeep ==
  ASSUME IInv, NEW c \in Chara, InPlay(play, c), c \in Members, Retires(c),
         online' \subseteq Chara, online \ {c} \subseteq online', browsing' = browsing,
         clock' \subseteq online', browsing \subseteq online'
  PROVE  IInv'
<1> DEFINE n == Understudy(Cast)
           x == ActorOf(c)
           y == [x EXCEPT !.who = n, !.npc = TRUE, !.ready = TRUE]
           cast == StandsIn(c, n)
           cur == Adopted(play.scr[c])
           left == [play EXCEPT !.scr[c] = Offstage, !.cur[x.role] = cur]
           on == Unblock(WalkAndRelease(left, cast), cast)
           p == [party EXCEPT !.cast = cast]
           s == <<x.role, n, TRUE>>
           told == [Seated(s) EXCEPT ![c] = None]
<1>1. /\ party' = IF MembersOf(cast) = {} THEN None ELSE p
      /\ play' = Dropped(party', on)
      /\ IF party' = None THEN List(None) ELSE UNCHANGED listed
      /\ Tell(Members \intersect online, told)
  BY Zenon DEF Retires
<1>2. /\ party \in Party /\ CastOK(party.cast) /\ CastOK(Cast) /\ Cast = party.cast /\ party # None
      /\ Members \subseteq online /\ Members = MembersOf(Cast) /\ party.state = "running"
  BY StageIsPeopled, CastIsOK DEF IInv, PartyOK, Members
<1>3. n \in Npcs /\ ~InCast(Cast, n) /\ x \in Range(Cast) /\ x.who = c /\ c \in Chara
  BY UnderstudyIsFree, MemberSeat DEF IInv
<1> HIDE DEF n
<1>4. /\ CastOK(cast) /\ Range(cast) = (Range(Cast) \ {x}) \union {y}
      /\ y.role = x.role /\ y.who = n /\ y.ready = TRUE /\ y.npc = TRUE
  BY <1>3, Replaced DEF IInv
<1> HIDE DEF y, x, cast, cur
<1>5. MembersOf(cast) = Members \ {c}
  <2>1. \A a \in Range(Cast) : a = x <=> a.who = c
    BY <1>2, <1>3, CastIsFair
  <2> QED BY <1>2, <1>4, <2>1 DEF MembersOf, People
<1>6. /\ p \in Party /\ p.cast = cast /\ p.leader = party.leader /\ p.state = "running"
      /\ p # None
  BY <1>2, <1>4, PlayersAssumption DEF Party, CastOK
<1> HIDE DEF p
<1>7. /\ Cast' = IF party' = None THEN <<>> ELSE cast
      /\ Members' = Members \ {c}
  <2>1. MembersOf(<<>>) = {}
    BY DEF MembersOf, People, Range
  <2> QED BY <1>1, <1>5, <1>6, <2>1 DEF Cast, Members
<1>8. PartyOK'
  <2>1. party' # None => party' = p /\ Members' # {}
    BY <1>1, <1>5, <1>7
  <2>2. Members' \subseteq online'
    BY <1>2, <1>7
  <2> QED BY <1>4, <1>6, <2>1, <2>2 DEF PartyOK
<1>9. Crowd'
  BY DEF Crowd
<1>10. s = <<y.role, y.who, y.ready>>
  BY <1>4
<1>11. (\A d \in Members : Seated(s)[d] = Room(p)) /\ Unreserved(p) = Unreserved(party)
  <2>1. /\ \A d \in Members : Seated(<<y.role, y.who, y.ready>>)[d] = Room(p)
        /\ Unreserved(p) = Unreserved(party)
    BY <1>2, <1>3, <1>4, <1>6, Reseated
  <2> QED BY <1>10, <2>1
<1>12. Rooms'
  <2>1. DOMAIN shown' = Chara
    BY <1>1 DEF Tell
  <2>2. ASSUME NEW d \in Members'
        PROVE  shown'[d] = Room(party')
    <3>1. d \in Members /\ d # c /\ d \in Chara /\ d \in online
      BY <1>2, <1>7, <2>2, MemberSeat DEF IInv
    <3>2. shown'[d] = told[d]
      BY <1>1, <3>1 DEF Tell
    <3>3. told[d] = Seated(s)[d]
      BY <3>1 DEF Seated
    <3>4. party' = p
      BY <1>1, <1>5, <1>7, <2>2
    <3> QED BY <1>11, <3>1, <3>2, <3>3, <3>4
  <2> QED BY <2>1, <2>2 DEF Rooms
<1>13. Screens'
  <2>1. Row(p) = Row(party)
    BY <1>2, <1>6, <1>11 DEF Row
  <2>2. party' = None \/ party' = p
    BY <1>1
  <2> QED BY <1>1, <1>2, <1>6, <2>1, <2>2 DEF IInv, Screens, List, Crowd
<1>14. LeftBy(play, left, c) /\ StageOK(left)
  BY DEF LeftBy, Keeps, StageOK, InPlay, IInv, OnStage
<1> HIDE DEF left
<1>15. LeftBy(play, on, c)
  <2> DEFINE w == WalkAndRelease(left, cast)
  <2>1. Len(cast) \in Nat
    BY <1>4, CastIsFair
  <2>2. Keeps(left, w) /\ StageOK(w)
    BY <1>14, <2>1, WalkReleaseOnward, OnwardKeeps DEF IInv, Crowd, Keeps
  <2> HIDE DEF w
  <2>3. Keeps(w, Unblock(w, cast))
    BY <2>1, <2>2, UnblockKeeps
  <2>4. LeftBy(play, Unblock(w, cast), c)
    BY <1>14, <2>2, <2>3, LeftFurther
  <2> QED BY <2>4 DEF w
<1> HIDE DEF on
<1>16. LeftBy(play, play', c)
  <2>1. play'.scr = on.scr /\ DOMAIN play' = {"scr", "cur", "reg"}
    BY <1>1, <1>15 DEF Dropped, LeftBy, Keeps, StageOK
  <2> QED BY <1>15, <2>1 DEF LeftBy, Keeps, StageOK, InPlay
<1>17. ASSUME NEW d \in Chara, InPlay(play', d)
       PROVE  /\ HasPart(Cast', d, play'.scr[d].role)
              /\ d \notin browsing' /\ party'.state = "running"
  <2>1. InPlay(play, d) /\ d # c /\ play'.scr[d].role = play.scr[d].role
    BY <1>16, <1>17 DEF LeftBy, Keeps
  <2>2. HasPart(Cast, d, play.scr[d].role) /\ d \notin browsing /\ d \in Members
    BY <2>1, StageIsPeopled DEF IInv, OnStage
  <2>3. party' = p /\ Cast' = cast
    BY <1>1, <1>5, <1>6, <1>7, <2>1, <2>2
  <2>4. HasPart(cast, d, play.scr[d].role)
    BY <1>3, <1>4, <2>1, <2>2 DEF HasPart
  <2> QED BY <1>6, <2>1, <2>2, <2>3, <2>4
<1>18. OnStage'
  BY <1>16, <1>17 DEF OnStage, LeftBy, Keeps
<1> QED BY <1>8, <1>9, <1>12, <1>13, <1>18 DEF IInv

LEMMA RetireKeeps ==
  ASSUME IInv, NEW c \in Chara, Retire(c) \/ IdleRetire(c)
  PROVE  IInv'
<1>1. /\ InPlay(play, c) /\ c \in Members /\ Retires(c) /\ UNCHANGED <<online, browsing>>
  BY DEF Retire, IdleRetire
<1>2. clock' = clock \ {c}
  BY <1>1 DEF Retires
<1> QED BY <1>1, <1>2, RetiresKeep DEF IInv, Crowd

LEMMA DisconnectKeeps ==
  ASSUME IInv, NEW c \in Chara, Disconnect(c)
  PROVE  IInv'
<1>1. online' = online \ {c} /\ browsing' = browsing \ {c}
  BY DEF Disconnect
<1>2. CASE InPlay(play, c) /\ c \in Members /\ Retires(c)
  <2>1. c \notin browsing
    BY <1>2, StageIsPeopled
  <2>2. clock' = clock \ {c}
    BY <1>2 DEF Retires
  <2>3. /\ online' \subseteq Chara /\ online \ {c} \subseteq online' /\ browsing' = browsing
        /\ clock' \subseteq online' /\ browsing \subseteq online'
    BY <1>1, <2>1, <2>2 DEF IInv, Crowd
  <2> QED BY <1>2, <2>3, RetiresKeep
<1>3. CASE Gone(c)
  BY <1>1, <1>3, GoneKeeps
<1> QED BY <1>2, <1>3 DEF Disconnect

-----------------------------------------------------------------------------
LEMMA InitRooms ==
  ASSUME Init
  PROVE  IInv
<1>1. /\ online = Chara /\ browsing = {} /\ party = None /\ clock = {}
      /\ play = [scr |-> [c \in Chara |-> Offstage], cur |-> NoCursors, reg |-> NoRegisters]
      /\ shown = [c \in Chara |-> None] /\ listed = [c \in Chara |-> None]
  BY DEF Init
<1>2. Cast = <<>> /\ Members = {}
  BY <1>1 DEF Cast, Members, MembersOf, People, Range
<1>3. DOMAIN play = {"scr", "cur", "reg"} /\ DOMAIN play.scr = Chara
      /\ \A c \in Chara : ~InPlay(play, c)
  BY <1>1 DEF InPlay
<1>4. StageOK(play)
  BY <1>3 DEF StageOK
<1> QED BY <1>1, <1>2, <1>3, <1>4 DEF IInv, Crowd, PartyOK, OnStage, Rooms, Screens

LEMMA NextRooms ==
  ASSUME IInv, [Next]_vars
  PROVE  IInv'
<1>1. CASE UNCHANGED vars
  <2>1. /\ online' = online /\ browsing' = browsing /\ party' = party /\ play' = play
        /\ clock' = clock /\ shown' = shown /\ listed' = listed
    BY <1>1 DEF vars
  <2>2. Cast' = Cast /\ Members' = Members
    BY <2>1 DEF Cast, Members
  <2> QED BY <2>1, <2>2 DEF IInv, Crowd, PartyOK, OnStage, Rooms, Screens
<1>2. CASE Next
  <2>1. PICK c \in Chara : Matching(c) \/ Reports(c) \/ Leaves(c) \/ IdleRetire(c)
    BY <1>2 DEF Next
  <2>2. CASE Matching(c)
    <3>1. CASE Log(c)
      BY <3>1, LogKeeps
    <3>2. CASE MatchingStart(c) \/ MatchingEnd(c)
      BY <3>2, MatchingKeeps
    <3>3. CASE Part(c)
      BY <3>3, PartKeeps
    <3>4. CASE Start(c)
      BY <3>4, StartKeeps
    <3>5. CASE \E role \in Roles : Create(c, role) \/ Join(c, role)
      BY <3>5, CreateKeeps, JoinKeeps
    <3>6. CASE \E role \in Roles, n \in Npcs : Surrogate(c, role, n)
      BY <3>6, SurrogateKeeps
    <3>7. CASE \E prepare \in BOOLEAN : Ready(c, prepare)
      BY <3>7, ReadyKeeps
    <3>8. CASE \E who \in Chara \union Npcs : Kick(c, who)
      BY <3>8, KickKeeps
    <3> QED BY <2>2, <3>1, <3>2, <3>3, <3>4, <3>5, <3>6, <3>7, <3>8 DEF Matching
  <2>3. CASE Reports(c)
    BY <2>3, ReportsKeep, FinishesKeeps
  <2>4. CASE ReadyNo(c) \/ TimesOut(c)
    <3>1. CASE Finishes(c)
      BY <3>1, FinishesKeeps
    <3>2. CASE ~Finishes(c)
      BY <2>4, <3>2, ReportsKeep
    <3> QED BY <3>1, <3>2
  <2>5. CASE Disconnect(c)
    BY <2>5, DisconnectKeeps
  <2>6. CASE Retire(c) \/ IdleRetire(c)
    BY <2>6, RetireKeeps
  <2> QED BY <2>1, <2>2, <2>3, <2>4, <2>5, <2>6 DEF Leaves
<1> QED BY <1>1, <1>2

(* Every member's client draws the party as it is, and every matching      *)
(* screen its row, whoever comes, goes, falls silent or is lost and        *)
(* whatever the scenario has them wait for; and whoever plays is a member  *)
(* who plays the part the party gave it, at a place of the scenario        *)
(* (_drama_push_members, _script_retire, _drama_party_gone; Board.part).   *)
THEOREM RoomsStayShown == Spec => []RoomsAreShown
<1>1. Init => IInv
  BY InitRooms
<1>2. IInv /\ [Next]_vars => IInv'
  BY NextRooms
<1>3. IInv => RoomsAreShown
  BY InvariantShows
<1> QED BY <1>1, <1>2, <1>3, PTL DEF Spec
=============================================================================
