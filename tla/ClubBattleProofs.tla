-------------------------- MODULE ClubBattleProofs --------------------------
(***************************************************************************)
(* One club battle, for any sides and any number of fighters, any cards,   *)
(* any order of speed and any luck.                                        *)
(*                                                                         *)
(* The figures: no blow, trait, skill or affliction takes a fighter out of *)
(* its ranges or lights a lamp it does not put out again.  The turn: who   *)
(* has a deadline, who has a turn to show and who has reported it are      *)
(* decided by the turn, by who has left and by who was done, and by        *)
(* nothing else.                                                           *)
(***************************************************************************)
EXTENDS ClubBattle, WellFoundedInduction, TLAPS

(* One fighter, between turns and within one, where nothing is owed.       *)
Sound(r) ==
  /\ r \in FighterState
  /\ r.lamp = r.ailments \union r.unsaid
  /\ r.clock = 0 <=> r.ailments = {}
  /\ r.unsaid = {} \/ r.ailments = {}
Lit(r) == Sound(r) /\ r.unsaid = {}

AllSound(F) == F \in [Fighter -> FighterState] /\ \A f \in Fighter : Sound(F[f])

FightersSound == AllSound(fighter)

(* A fight waits: for readiness, for commands or for reports.              *)
Waits ==
  /\ open => Active(gone) # {}
  /\ open /\ turn = 0 => ~resolved /\ ~AllReady(ready, gone)
  /\ turn = 0 => window = {} /\ \A f \in Fighter : wire[f] = None
  /\ open /\ turn > 0 => Active(gone) \subseteq ready
  /\ open /\ resolved => ~AllTurnDone(done, gone)
  /\ ~resolved => done = {}
  /\ due = IF open /\ turn > 0 /\ ~resolved THEN Active(gone) ELSE {}
  /\ playing = IF open /\ resolved THEN Active(gone) \ done ELSE {}

Ends ==
  /\ open => winner = None
  /\ winner # None => Active(gone) # {}
  /\ ~open /\ winner = None => Active(gone) = {}
  /\ \A f \in Fighter : paid[f] = IF winner = None \/ f \in Npc THEN 0 ELSE 1

Typed ==
  /\ Npc \in Opponents
  /\ open \in BOOLEAN /\ resolved \in BOOLEAN /\ turn \in 0..TurnLimit
  /\ ready \subseteq Player /\ Npc \subseteq gone /\ gone \subseteq Fighter
  /\ done \subseteq Player
  /\ window \subseteq Player
  /\ winner \in 0..2 \union {None} /\ paid \in [Fighter -> Nat]
  /\ wire \in [Fighter -> Command \union {None}]

IInv == Typed /\ FightersSound /\ Waits /\ Ends

-----------------------------------------------------------------------------
(* One fighter.                                                            *)
LEMMA Cardlike ==
  ASSUME NEW c \in Command
  PROVE  /\ c.card \in Cards /\ c.attacking \in BOOLEAN /\ c.target \in Fighter
         /\ c.card.skill \in BOOLEAN /\ c.card.attack \in Nat /\ c.card.defence \in Nat
         /\ c.card.cost \in Nat /\ c.card.heal \in Nat
         /\ c.card.friendly \in BOOLEAN /\ c.card.whole \in BOOLEAN
         /\ c.card.ailment \in {"none", "cure", "retire"} \union Timed
<1>1. c.card \in Cards /\ c.attacking \in BOOLEAN /\ c.target \in Fighter
  BY DEF Command
<1>2. c.card \in Card
  BY <1>1, CardsAssumption
<1> QED BY <1>1, <1>2 DEF Card

LEMMA Bounds == MaxVitality \in Nat /\ MaxEnergy \in Nat /\ TurnLimit \in Nat /\ TurnLimit > 0
BY BoundsAssumption

LEMMA Fields ==
  ASSUME NEW r, Sound(r)
  PROVE  /\ r.vitality \in 0..MaxVitality /\ r.energy \in 0..MaxEnergy /\ r.clock \in 0..3
         /\ r.ailments \subseteq Timed /\ r.unsaid \subseteq Timed /\ r.lamp \subseteq Timed
         /\ r.command \in Command \union {None}
BY DEF Sound, FighterState

(* A field or two of a sound fighter, written anew.                        *)
LEMMA Vital ==
  ASSUME NEW r, Sound(r), NEW v \in 0..MaxVitality
  PROVE  /\ Sound([r EXCEPT !.vitality = v])
         /\ [r EXCEPT !.vitality = v].command = r.command
         /\ [r EXCEPT !.vitality = v].unsaid = r.unsaid
BY DEF Sound, FighterState

Ill(r, a, k) == [r EXCEPT !.ailments = a, !.lamp = a \union r.unsaid, !.clock = k]

LEMMA Ailing ==
  ASSUME NEW r, Sound(r), NEW a \in SUBSET Timed, NEW k \in 0..3, k = 0 <=> a = {},
         r.unsaid = {} \/ a = {}
  PROVE  Sound(Ill(r, a, k)) /\ Ill(r, a, k).command = r.command /\ Ill(r, a, k).unsaid = r.unsaid
BY DEF Ill, Sound, FighterState

(* r goes on as s within a turn.                                           *)
GoesOn(r, s) == Lit(s) /\ s.command = r.command

LEMMA Cures ==
  ASSUME NEW r, Lit(r)
  PROVE  GoesOn(r, Shown(Cured(r)))
<1>1. Sound(r) /\ r \in FighterState /\ r.unsaid = {}
  BY DEF Lit, Sound
<1>2. Shown(Cured(r)) = Ill(r, {}, 0)
  BY <1>1 DEF Shown, Cured, Ill, FighterState
<1> QED BY <1>1, <1>2, Ailing DEF GoesOn, Lit

LEMMA StruckGoesOn ==
  ASSUME NEW r, Lit(r), NEW n \in Nat
  PROVE  GoesOn(r, Struck(r, n))
<1> DEFINE v == IF n < r.vitality THEN r.vitality - n ELSE 0
           s == [r EXCEPT !.vitality = v]
<1>1. Sound(r) /\ r.unsaid = {}
  BY DEF Lit
<1>2. v \in 0..MaxVitality
  BY <1>1, Fields, Bounds
<1> HIDE DEF v
<1>3. Sound(s) /\ s.command = r.command /\ s.unsaid = {}
  BY <1>1, <1>2, Vital
<1>4. Hurt(r, n) = s
  BY DEF Hurt, v
<1> HIDE DEF s
<1>5. Lit(s)
  BY <1>3 DEF Lit
<1>6. GoesOn(s, WokenOnHit(s))
  BY <1>5, Cures DEF WokenOnHit, GoesOn
<1> QED BY <1>3, <1>4, <1>6 DEF GoesOn, Struck

LEMMA RestoredGoesOn ==
  ASSUME NEW r, Lit(r), NEW n \in Nat
  PROVE  GoesOn(r, Restored(r, n))
<1> DEFINE v == IF r.vitality + n < MaxVitality THEN r.vitality + n ELSE MaxVitality
           s == [r EXCEPT !.vitality = v]
<1>1. Sound(r) /\ r.unsaid = {}
  BY DEF Lit
<1>2. v \in 0..MaxVitality
  BY <1>1, Fields, Bounds
<1> HIDE DEF v
<1>3. Sound(s) /\ s.command = r.command /\ s.unsaid = {}
  BY <1>1, <1>2, Vital
<1>4. Restored(r, n) = s
  BY DEF Restored, v
<1> QED BY <1>3, <1>4 DEF GoesOn, Lit

LEMMA AfflictedGoesOn ==
  ASSUME NEW r, Lit(r), NEW a \in {"cure", "retire"} \union Timed
  PROVE  GoesOn(r, Afflicted(r, a))
<1>1. Sound(r) /\ r.unsaid = {} /\ r \in FighterState /\ r.lamp = r.ailments
  BY DEF Lit, Sound
<1>2. CASE a = "cure"
  BY <1>2, Cures DEF Afflicted
<1>3. CASE a = "retire"
  <2>1. Afflicted(r, a) = [r EXCEPT !.vitality = 0] /\ 0 \in 0..MaxVitality
    BY <1>3, Bounds DEF Afflicted
  <2> QED BY <1>1, <2>1, Vital DEF GoesOn, Lit
<1>4. CASE a \in Timed
  <2> DEFINE k == IF AilmentTurns(a) > r.clock THEN AilmentTurns(a) ELSE r.clock
             m == r.ailments \union {a}
  <2>1. k \in 1..3 /\ m \in SUBSET Timed /\ m # {}
    BY <1>1, <1>4, Fields DEF AilmentTurns
  <2>2. Afflicted(r, a) = Ill(r, m, k)
    BY <1>1, <1>4 DEF Afflicted, Ill, Timed, FighterState
  <2> HIDE DEF k, m
  <2> QED BY <1>1, <2>1, <2>2, Ailing DEF GoesOn, Lit
<1> QED BY <1>2, <1>3, <1>4

-----------------------------------------------------------------------------
(* Everybody, through one action of a turn.                                *)
AllLit(F) == F \in [Fighter -> FighterState] /\ \A f \in Fighter : Lit(F[f])
Onward(F, G) == AllLit(G) /\ \A f \in Fighter : G[f].command = F[f].command

LEMMA OnwardFrom ==
  ASSUME NEW F, AllLit(F)
  PROVE  Onward(F, F)
BY DEF Onward

LEMMA OnwardChain ==
  ASSUME NEW F, NEW G, NEW H, Onward(F, G), Onward(G, H)
  PROVE  Onward(F, H)
BY DEF Onward

LEMMA OnwardOne ==
  ASSUME NEW F, AllLit(F), NEW f \in Fighter, NEW s, GoesOn(F[f], s)
  PROVE  Onward(F, [F EXCEPT ![f] = s])
BY DEF AllLit, Onward, GoesOn, Lit, Sound

LEMMA OnwardAll ==
  ASSUME NEW F, AllLit(F), NEW G, G = [f \in Fighter |-> G[f]],
         \A f \in Fighter : GoesOn(F[f], G[f])
  PROVE  Onward(F, G)
BY DEF AllLit, Onward, GoesOn, Lit, Sound

LEMMA Command_ ==
  ASSUME NEW F, AllLit(F), NEW f \in Fighter
  PROVE  F[f].command \in Command \union {None}
BY Fields DEF AllLit, Lit

LEMMA ShieldIsNat ==
  ASSUME NEW r, r.command \in Command \union {None}
  PROVE  Shield(r) \in Nat
<1>1. CASE r.command = None
  BY <1>1 DEF Shield
<1>2. CASE r.command # None
  <2>1. r.command \in Command
    BY <1>2
  <2> DEFINE d == r.command.card.defence
  <2>2. d \in Nat
    BY <2>1, Cardlike
  <2>3. Shield(r) = d \/ Shield(r) = d \div 2
    BY <1>2 DEF Shield
  <2> HIDE DEF d
  <2> QED BY <2>2, <2>3
<1> QED BY <1>1, <1>2

LEMMA DamageIsNat ==
  ASSUME NEW r, r.command \in Command \union {None}, NEW n \in Nat
  PROVE  Damage(n, r) \in Nat /\ (3 * Damage(n, r)) \div 2 \in Nat
         /\ AtLeast1(Damage(n, r) \div 2) \in Nat
<1>1. Shield(r) \in Nat
  BY ShieldIsNat
<1>2. Damage(n, r) \in Nat
  BY <1>1 DEF Damage, AtLeast1
<1> HIDE DEF Damage
<1>3. \A m \in Nat : (3 * m) \div 2 \in Nat /\ AtLeast1(m \div 2) \in Nat
  BY DEF AtLeast1
<1> QED BY <1>2, <1>3

LEMMA TraitBlowGoesOn ==
  ASSUME NEW F, AllLit(F), NEW f \in Fighter, NEW n \in Nat
  PROVE  Onward(F, TraitBlow(F, f, n))
<1> DEFINE m == (3 * Damage(n, F[f])) \div 2
<1>1. m \in Nat
  BY Command_, DamageIsNat
<1> HIDE DEF m
<1>2. GoesOn(F[f], Struck(F[f], m))
  BY <1>1, StruckGoesOn DEF AllLit
<1>3. TraitBlow(F, f, n) = F \/ TraitBlow(F, f, n) = [F EXCEPT ![f] = Struck(F[f], m)]
  BY DEF TraitBlow, m
<1> QED BY <1>2, <1>3, OnwardFrom, OnwardOne

LEMMA StrikeKeywordGoesOn ==
  ASSUME NEW F, AllLit(F), NEW f \in Fighter, NEW t \in Fighter, NEW reacts,
         F[f].command \in Command
  PROVE  Onward(F, StrikeKeyword(F, f, t, reacts))
<1> DEFINE attack == Power(F[f])
           n == Damage(attack, F[t])
           hit == [F EXCEPT ![t] = Struck(F[t], n)]
<1>1. attack \in Nat
  BY Cardlike DEF Power
<1> HIDE DEF attack
<1>2. n \in Nat
  BY <1>1, Command_, DamageIsNat
<1> HIDE DEF n
<1>3. Onward(F, hit)
  BY <1>2, StruckGoesOn, OnwardOne DEF AllLit
<1>4. Onward(F, TraitBlow(F, f, attack))
  BY <1>1, TraitBlowGoesOn
<1>5. ASSUME Guard(F[t], "counter")
      PROVE  Onward(F, TraitBlow(hit, f, Power(F[t])))
  <2>1. F[t].command \in Command
    BY <1>5, Command_ DEF Guard
  <2>2. Power(F[t]) \in Nat
    BY <2>1, Cardlike DEF Power
  <2>3. Onward(hit, TraitBlow(hit, f, Power(F[t])))
    BY <1>3, <2>2, TraitBlowGoesOn DEF Onward
  <2> QED BY <1>3, <2>3, OnwardChain
<1>6. \/ StrikeKeyword(F, f, t, reacts) \in {F, hit, TraitBlow(F, f, attack)}
      \/ Guard(F[t], "counter") /\ StrikeKeyword(F, f, t, reacts) = TraitBlow(hit, f, Power(F[t]))
  BY Zenon DEF StrikeKeyword, attack, n
<1> HIDE DEF hit
<1> QED BY <1>3, <1>4, <1>5, <1>6, OnwardFrom

LEMMA StrikeSkillGoesOn ==
  ASSUME NEW F, AllLit(F), NEW f \in Fighter, NEW targets, F[f].command \in Command
  PROVE  Onward(F, StrikeSkill(F, f, targets))
<1> DEFINE attack == Power(F[f])
           hit(t) == IF Resists(F, f, t) THEN AtLeast1(Damage(attack, F[t]) \div 2)
                     ELSE Damage(attack, F[t])
           G == StrikeSkill(F, f, targets)
<1>1. attack \in Nat
  BY Cardlike DEF Power
<1>2. G = [t \in Fighter |-> IF t \in targets \ {f} /\ attack > 0
                             THEN Struck(F[t], hit(t)) ELSE F[t]]
  BY Zenon DEF StrikeSkill
<1> HIDE DEF attack, G
<1>3. ASSUME NEW t \in Fighter
      PROVE  GoesOn(F[t], G[t])
  <2>1. hit(t) \in Nat
    BY <1>1, Command_, DamageIsNat
  <2> HIDE DEF hit
  <2>2. GoesOn(F[t], Struck(F[t], hit(t))) /\ GoesOn(F[t], F[t])
    BY <2>1, StruckGoesOn DEF AllLit, GoesOn
  <2>3. G[t] = Struck(F[t], hit(t)) \/ G[t] = F[t]
    BY <1>2
  <2> QED BY <2>2, <2>3
<1>4. G = [t \in Fighter |-> G[t]]
  <2> DEFINE step(t) == IF t \in targets \ {f} /\ attack > 0 THEN Struck(F[t], hit(t)) ELSE F[t]
  <2>1. G = [t \in Fighter |-> step(t)]
    BY <1>2
  <2> HIDE DEF step
  <2> QED BY <2>1
<1> QED BY <1>3, <1>4, OnwardAll DEF G

LEMMA SkillEffectsGoesOn ==
  ASSUME NEW F, AllLit(F), NEW f \in Fighter, NEW targets, NEW reacts, F[f].command \in Command
  PROVE  Onward(F, SkillEffects(F, f, targets, reacts))
<1> DEFINE card == F[f].command.card
           turnedAway(t) == card.ailment # "cure" /\ Resists(F, f, t) /\ t \in reacts
           healed(t) == Restored(F[t], card.heal)
           step(t) == IF t \notin targets THEN F[t]
                      ELSE IF card.ailment = "none" \/ turnedAway(t) THEN healed(t)
                      ELSE Afflicted(healed(t), card.ailment)
           G == SkillEffects(F, f, targets, reacts)
<1>1. G = [t \in Fighter |-> step(t)]
  BY Zenon DEF SkillEffects
<1>2. card.heal \in Nat /\ card.ailment \in {"none", "cure", "retire"} \union Timed
  BY Cardlike
<1> HIDE DEF card
<1>3. ASSUME NEW t \in Fighter
      PROVE  GoesOn(F[t], step(t))
  <2>1. GoesOn(F[t], F[t]) /\ Lit(F[t])
    BY DEF AllLit, GoesOn
  <2>2. GoesOn(F[t], healed(t))
    BY <1>2, <2>1, RestoredGoesOn
  <2> HIDE DEF healed
  <2>3. ASSUME card.ailment # "none"
        PROVE  GoesOn(F[t], Afflicted(healed(t), card.ailment))
    <3>1. card.ailment \in {"cure", "retire"} \union Timed
      BY <1>2, <2>3
    <3>2. Lit(healed(t)) /\ healed(t).command = F[t].command
      BY <2>2 DEF GoesOn
    <3>3. GoesOn(healed(t), Afflicted(healed(t), card.ailment))
      BY <3>1, <3>2, AfflictedGoesOn
    <3> QED BY <3>2, <3>3 DEF GoesOn
  <2> QED BY <2>1, <2>2, <2>3
<1> HIDE DEF step, G
<1>4. \A t \in Fighter : G[t] = step(t)
  BY <1>1
<1>5. G = [t \in Fighter |-> G[t]]
  BY <1>1
<1> QED BY <1>3, <1>4, <1>5, OnwardAll DEF G


Drained(r, e) == [r EXCEPT !.energy = e]

LEMMA Drains ==
  ASSUME NEW r, Lit(r), NEW e \in 0..MaxEnergy
  PROVE  GoesOn(r, Drained(r, e))
BY DEF Drained, GoesOn, Lit, Sound, FighterState

LEMMA PaidGoesOn ==
  ASSUME NEW F, AllLit(F), NEW f \in Fighter, F[f].command \in Command
  PROVE  Onward(F, Paid(F, f))
<1> DEFINE cost == F[f].command.card.cost
           e == F[f].energy - cost
<1>1. cost \in Nat /\ F[f].energy \in 0..MaxEnergy /\ Lit(F[f])
  BY Cardlike, Fields DEF AllLit, Lit
<1> HIDE DEF cost
<1>2. CASE F[f].energy >= cost
  <2>1. e \in 0..MaxEnergy
    BY <1>1, <1>2, Bounds
  <2>2. Paid(F, f) = [F EXCEPT ![f] = Drained(F[f], e)]
    BY <1>2 DEF Paid, Pays, Drained, cost
  <2> HIDE DEF e
  <2>3. GoesOn(F[f], Drained(F[f], e))
    BY <1>1, <2>1, Drains
  <2> DEFINE s == Drained(F[f], e)
  <2> HIDE DEF s
  <2>4. Onward(F, [F EXCEPT ![f] = s])
    BY <2>3, OnwardOne DEF s
  <2> QED BY <2>2, <2>4 DEF s
<1>3. CASE ~(F[f].energy >= cost)
  BY <1>3, OnwardFrom DEF Paid, Pays, cost
<1> QED BY <1>2, <1>3

LEMMA PlayGoesOn ==
  ASSUME NEW F, AllLit(F), NEW f \in Fighter, F[f].command \in Command, NEW luck, NEW reacts
  PROVE  Onward(F, Play(F, f, luck, reacts))
<1> DEFINE c == F[f].command
           S == Paid(F, f)
           targets == SkillTargets(F, f, c.card, c.target)
           struck == IF c.attacking THEN StrikeSkill(S, f, targets) ELSE S
           P == Play(F, f, luck, reacts)
<1>1. P = IF AilmentHolds(F[f]) THEN F
          ELSE IF ~c.card.skill
            THEN IF c.attacking THEN StrikeKeyword(F, f, c.target, reacts) ELSE F
          ELSE IF ~Pays(F[f]) \/ f \notin luck THEN S
          ELSE SkillEffects(struck, f, targets, reacts)
  BY Zenon DEF Play
<1>2. Onward(F, S)
  BY PaidGoesOn
<1>3. c.target \in Fighter
  BY Cardlike
<1>4. Onward(F, StrikeKeyword(F, f, c.target, reacts))
  BY <1>3, StrikeKeywordGoesOn
<1> HIDE DEF S, targets
<1>5. Onward(F, struck)
  <2>1. AllLit(S) /\ S[f].command \in Command
    BY <1>2 DEF Onward
  <2>2. Onward(S, StrikeSkill(S, f, targets))
    BY <2>1, StrikeSkillGoesOn
  <2> QED BY <1>2, <2>2, OnwardChain
<1> HIDE DEF struck
<1>6. Onward(F, SkillEffects(struck, f, targets, reacts))
  <2>1. AllLit(struck) /\ struck[f].command \in Command
    BY <1>5 DEF Onward
  <2>2. Onward(struck, SkillEffects(struck, f, targets, reacts))
    BY <2>1, SkillEffectsGoesOn
  <2> QED BY <1>5, <2>2, OnwardChain
<1>7. Onward(F, F)
  BY OnwardFrom
<1> HIDE DEF P, c
<1>8. P \in {F, S, StrikeKeyword(F, f, c.target, reacts), SkillEffects(struck, f, targets, reacts)}
  BY <1>1, Zenon
<1> QED BY <1>2, <1>4, <1>6, <1>7, <1>8 DEF P

-----------------------------------------------------------------------------
(* Everybody, through a turn.                                              *)
Told(r) == Shown([r EXCEPT !.unsaid = {}])

LEMMA TellsAll ==
  ASSUME NEW r, Sound(r)
  PROVE  GoesOn(r, IF r.unsaid = {} THEN r ELSE Told(r))
<1>1. CASE r.unsaid = {}
  BY <1>1 DEF GoesOn, Lit
<1>2. CASE r.unsaid # {}
  BY <1>2 DEF Told, Shown, GoesOn, Lit, Sound, FighterState
<1> QED BY <1>1, <1>2

LEMMA SaidGoesOn ==
  ASSUME NEW F, AllSound(F)
  PROVE  Onward(F, Said(F))
<1> DEFINE told(f) == IF F[f].unsaid = {} THEN F[f] ELSE Told(F[f])
           G == Said(F)
<1>1. G = [f \in Fighter |-> told(f)]
  BY DEF Said, Told
<1>2. \A f \in Fighter : GoesOn(F[f], told(f))
  BY TellsAll DEF AllSound
<1> HIDE DEF told, G
<1>3. G \in [Fighter -> FighterState]
  BY <1>1, <1>2 DEF GoesOn, Lit, Sound
<1>4. \A f \in Fighter : GoesOn(F[f], G[f])
  BY <1>1, <1>2
<1>5. Onward(F, G)
  BY <1>3, <1>4 DEF Onward, AllLit, GoesOn
<1> QED BY <1>5 DEF G

(* The least of the bad counts, for what holds at each step of a turn.     *)
LEMMA FirstBad ==
  ASSUME NEW S \in SUBSET Nat, S # {}
  PROVE  \E n \in S : n = 0 \/ (n - 1 \in Nat /\ n - 1 \notin S)
<1> DEFINE R == {pair \in Nat \X Nat : pair[1] < pair[2]}
<1>1. IsWellFoundedOn(R, Nat)
  BY NatLessThanWellFounded DEF OpToRel
<1>2. \A i, j \in Nat : i < j => <<i, j>> \in R
  OBVIOUS
<1> HIDE DEF R
<1>3. PICK n \in S : \A m \in S : ~ (<<m, n>> \in R)
  BY <1>1, WFMin
<1>4. \A m \in S : ~ (m < n)
  BY <1>2, <1>3
<1>5. n = 0 \/ n - 1 \in Nat
  BY <1>3
<1> QED BY <1>3, <1>4, <1>5

(* The fighters after the i-th in the order, given those after the one     *)
(* before: what the sequence of a turn's actions is built from.            *)
Then(F, order, luck, reacts, G, i) ==
  IF Acts(F[order[i]]) THEN Play(G, order[i], luck, reacts) ELSE G

Walk(F, order, luck, reacts, g, n) ==
  g = [i \in 0..n |-> IF i = 0 THEN Said(F) ELSE Then(F, order, luck, reacts, g[i - 1], i)]

LEMMA WalkExtends ==
  ASSUME NEW F, NEW order, NEW luck, NEW reacts, NEW n \in Nat, n > 0,
         NEW g, Walk(F, order, luck, reacts, g, n - 1)
  PROVE  \E h : Walk(F, order, luck, reacts, h, n)
<1> DEFINE next(G, i) == Then(F, order, luck, reacts, G, i)
           first == Said(F)
           last == next(g[n - 1], n)
           h == [i \in 0..n |-> IF i = n THEN last ELSE g[i]]
<1>1. g = [i \in 0..(n - 1) |-> IF i = 0 THEN first ELSE next(g[i - 1], i)]
  BY Zenon DEF Walk
<1> HIDE DEF next, first
<1>2. \A i \in 0..(n - 1) : h[i] = g[i]
  OBVIOUS
<1>3. h[n] = last
  OBVIOUS
<1> HIDE DEF last
<1>4. \A i \in 0..n : h[i] = IF i = 0 THEN first ELSE next(h[i - 1], i)
  <2> TAKE i \in 0..n
  <2>1. CASE i = n
    <3>1. n - 1 \in 0..(n - 1) /\ h[n - 1] = g[n - 1]
      BY <1>2
    <3>2. h[n] = next(h[n - 1], n)
      BY <1>3, <3>1 DEF last
    <3> HIDE DEF h
    <3> QED BY <2>1, <3>2
  <2>2. CASE i # n
    <3>1. i \in 0..(n - 1) /\ (i # 0 => i - 1 \in 0..(n - 1))
      BY <2>2
    <3>2. g[i] = IF i = 0 THEN first ELSE next(g[i - 1], i)
      BY <1>1, <3>1
    <3>3. h[i] = g[i] /\ (i # 0 => h[i - 1] = g[i - 1])
      BY <1>2, <3>1
    <3> HIDE DEF h
    <3> QED BY <3>2, <3>3
  <2> QED BY <2>1, <2>2
<1>5. h = [i \in 0..n |-> h[i]]
  OBVIOUS
<1> HIDE DEF h
<1>6. h = [i \in 0..n |-> IF i = 0 THEN first ELSE next(h[i - 1], i)]
  BY <1>4, <1>5
<1>7. Walk(F, order, luck, reacts, h, n)
  BY <1>6 DEF Walk, next, first
<1> QED BY <1>7

LEMMA WalkExists ==
  ASSUME NEW F, NEW order, NEW luck, NEW reacts, NEW n \in Nat
  PROVE  \E g : Walk(F, order, luck, reacts, g, n)
<1> DEFINE Bad == {m \in Nat : ~ \E g : Walk(F, order, luck, reacts, g, m)}
<1> SUFFICES ASSUME n \in Bad
             PROVE  FALSE
  OBVIOUS
<1>1. PICK m \in Bad : m = 0 \/ (m - 1 \in Nat /\ m - 1 \notin Bad)
  BY FirstBad
<1>2. CASE m = 0
  <2> DEFINE g == [i \in 0..0 |-> Said(F)]
  <2>1. g = [i \in 0..0 |-> IF i = 0 THEN Said(F) ELSE Then(F, order, luck, reacts, g[i - 1], i)]
    OBVIOUS
  <2>2. Walk(F, order, luck, reacts, g, 0)
    BY <2>1 DEF Walk
  <2> QED BY <1>1, <1>2, <2>2
<1>3. CASE m # 0
  <2>1. PICK g : Walk(F, order, luck, reacts, g, m - 1)
    BY <1>1, <1>3
  <2>2. \E h : Walk(F, order, luck, reacts, h, m)
    BY <1>1, <1>3, <2>1, WalkExtends
  <2> QED BY <1>1, <2>2
<1> QED BY <1>2, <1>3

LEMMA ActedIsLast ==
  ASSUME NEW F, NEW order \in Seq(Fighter), NEW luck, NEW reacts
  PROVE  \E g : Walk(F, order, luck, reacts, g, Len(order)) /\ Acted(F, order, luck, reacts) = g[Len(order)]
<1> DEFINE g == CHOOSE h : Walk(F, order, luck, reacts, h, Len(order))
<1>0. Len(order) \in Nat
  OBVIOUS
<1>1. Walk(F, order, luck, reacts, g, Len(order))
  <2>1. \E h : Walk(F, order, luck, reacts, h, Len(order))
    BY <1>0, WalkExists
  <2> QED BY <2>1, Zenon
<1>2. Acted(F, order, luck, reacts) = g[Len(order)]
  BY Zenon DEF Acted, Walk, Then
<1> QED BY <1>1, <1>2

LEMMA ActedGoesOn ==
  ASSUME NEW F, AllSound(F), NEW order \in Seq(Fighter), NEW luck, NEW reacts
  PROVE  Onward(F, Acted(F, order, luck, reacts))
<1>1. PICK g : Walk(F, order, luck, reacts, g, Len(order)) /\ Acted(F, order, luck, reacts) = g[Len(order)]
  BY ActedIsLast
<1> DEFINE Bad == {i \in Nat : i <= Len(order) /\ ~Onward(F, g[i])}
<1>2. g = [i \in 0..Len(order) |-> IF i = 0 THEN Said(F) ELSE Then(F, order, luck, reacts, g[i - 1], i)]
  BY <1>1, Zenon DEF Walk
<1>3. Len(order) \in Nat
  OBVIOUS
<1>4. Bad = {}
  <2> SUFFICES ASSUME Bad # {}
               PROVE  FALSE
    OBVIOUS
  <2>1. PICK i \in Bad : i = 0 \/ (i - 1 \in Nat /\ i - 1 \notin Bad)
    BY FirstBad
  <2>2. i \in 0..Len(order) /\ ~Onward(F, g[i])
    BY <1>3, <2>1
  <2>3. CASE i = 0
    <3>1. g[0] = Said(F)
      BY <1>2, <2>2, <2>3
    <3> QED BY <2>2, <2>3, <3>1, SaidGoesOn
  <2>4. CASE i # 0
    <3>1. Onward(F, g[i - 1])
      BY <1>3, <2>1, <2>4
    <3>2. g[i] = Then(F, order, luck, reacts, g[i - 1], i)
      BY <1>2, <2>2, <2>4
    <3>3. order[i] \in Fighter
      BY <2>2, <2>4
    <3>4. ASSUME Acts(F[order[i]])
          PROVE  Onward(F, Play(g[i - 1], order[i], luck, reacts))
      <4> DEFINE G == g[i - 1]
                 f == order[i]
      <4>1. F[f].command \in Command
        BY <3>3, <3>4, Fields DEF AllSound, Acts
      <4>2. AllLit(G) /\ G[f].command = F[f].command
        BY <3>1, <3>3 DEF Onward
      <4> HIDE DEF G, f
      <4>3. f \in Fighter
        BY <3>3 DEF f
      <4>4. Onward(G, Play(G, f, luck, reacts))
        BY <4>1, <4>2, <4>3, PlayGoesOn
      <4>5. Onward(F, G)
        BY <3>1 DEF G
      <4>6. Onward(F, Play(G, f, luck, reacts))
        BY <4>4, <4>5, OnwardChain
      <4> QED BY <4>6 DEF G, f
    <3> QED BY <2>2, <3>1, <3>2, <3>4 DEF Then
  <2> QED BY <2>3, <2>4
<1>5. Onward(F, g[Len(order)])
  BY <1>3, <1>4
<1> QED BY <1>1, <1>5

LEMMA TicksOn ==
  ASSUME NEW r, Sound(r), r.ailments # {}
  PROVE  Sound(Ticked(r)) /\ Ticked(r).command = r.command
BY DEF Ticked, Sound, FighterState

Owing(r) == [Cured(r) EXCEPT !.unsaid = @ \union r.ailments]

Owed(r, a, b, k) == [r EXCEPT !.ailments = b, !.clock = k, !.unsaid = a]

LEMMA OwedIsTyped ==
  ASSUME NEW r \in FighterState, NEW a \in SUBSET Timed, NEW b \in SUBSET Timed, NEW k \in 0..3
  PROVE  Owed(r, a, b, k) \in FighterState /\ Owed(r, a, b, k).lamp = r.lamp /\ Owed(r, a, b, k).unsaid = a
         /\ Owed(r, a, b, k).ailments = b /\ Owed(r, a, b, k).clock = k /\ Owed(r, a, b, k).command = r.command
BY DEF Owed, FighterState

LEMMA OwesOn ==
  ASSUME NEW r, Sound(r), r.ailments # {}
  PROVE  Sound(Owing(r)) /\ Owing(r).command = r.command
<1>1. r \in FighterState /\ r.unsaid = {} /\ r.lamp = r.ailments /\ r.ailments \subseteq Timed
  BY Fields DEF Sound
<1>2. Owing(r) = Owed(r, r.ailments, {}, 0) /\ 0 \in 0..3
  <2>1. Cured(r).unsaid = {}
    BY <1>1 DEF Cured, FighterState
  <2>2. Owing(r) = [Cured(r) EXCEPT !.unsaid = r.ailments]
    BY <2>1 DEF Owing
  <2>3. [Cured(r) EXCEPT !.unsaid = r.ailments] = Owed(r, r.ailments, {}, 0)
    BY <1>1 DEF Cured, Owed, FighterState
  <2> QED BY <2>2, <2>3
<1> QED BY <1>1, <1>2, OwedIsTyped DEF Sound

LEMMA AllSoundFrom ==
  ASSUME NEW G, G = [f \in Fighter |-> G[f]], \A f \in Fighter : Sound(G[f])
  PROVE  AllSound(G)
BY DEF AllSound, Sound

LEMMA WearOffIsSound ==
  ASSUME NEW F, AllLit(F), NEW before
  PROVE  AllSound(WearOff(F, before))
<1> DEFINE step(f) ==
             IF \/ before[f].ailments = {}
                \/ <<F[f].ailments, F[f].clock>> # <<before[f].ailments, before[f].clock>>
             THEN F[f]
             ELSE IF Expiring(before[f]) THEN Shown(Cured(F[f])) ELSE Ticked(F[f])
           G == WearOff(F, before)
<1>1. G = [f \in Fighter |-> step(f)]
  BY Zenon DEF WearOff
<1>2. ASSUME NEW f \in Fighter
      PROVE  Sound(step(f))
  <2>1. Lit(F[f]) /\ Sound(F[f])
    BY DEF AllLit, Lit
  <2>2. Sound(Shown(Cured(F[f])))
    BY <2>1, Cures DEF GoesOn, Lit
  <2>3. F[f].ailments # {} => Sound(Ticked(F[f]))
    BY <2>1, TicksOn
  <2>4. CASE before[f].ailments = {} \/ F[f].ailments # before[f].ailments
    BY <2>1, <2>4
  <2>5. CASE ~(before[f].ailments = {} \/ F[f].ailments # before[f].ailments)
    <3>1. F[f].ailments # {}
      BY <2>5
    <3>2. step(f) \in {F[f], Shown(Cured(F[f])), Ticked(F[f])}
      BY Zenon
    <3> QED BY <2>1, <2>2, <2>3, <3>1, <3>2
  <2> QED BY <2>4, <2>5
<1> HIDE DEF step, G
<1>3. G = [f \in Fighter |-> G[f]] /\ \A f \in Fighter : Sound(G[f])
  BY <1>1, <1>2
<1> QED BY <1>3, AllSoundFrom DEF G

LEMMA IdleTickIsSound ==
  ASSUME NEW F, AllSound(F)
  PROVE  AllSound(IdleTick(F))
<1> DEFINE step(f) ==
             IF F[f].ailments = {} THEN F[f]
             ELSE IF Expiring(F[f]) THEN Owing(F[f]) ELSE Ticked(F[f])
           G == IdleTick(F)
<1>1. G = [f \in Fighter |-> step(f)]
  BY Zenon DEF IdleTick, Owing
<1>2. \A f \in Fighter : Sound(step(f))
  BY TicksOn, OwesOn DEF AllSound
<1> HIDE DEF step, G
<1>3. G = [f \in Fighter |-> G[f]] /\ \A f \in Fighter : Sound(G[f])
  BY <1>1, <1>2
<1> QED BY <1>3, AllSoundFrom DEF G

LEMMA PlayedIsSound ==
  ASSUME NEW F, AllSound(F), NEW order \in Seq(Fighter), NEW luck, NEW reacts
  PROVE  AllSound(Played(F, order, luck, reacts))
<1>1. AllSound(WearOff(Acted(F, order, luck, reacts), F))
  BY ActedGoesOn, WearOffIsSound DEF Onward
<1>2. AllSound(IdleTick(F))
  BY IdleTickIsSound
<1> QED BY <1>1, <1>2 DEF Played

Handed(r, c) == [r EXCEPT !.command = c]

LEMMA Commanded ==
  ASSUME NEW r, Sound(r), NEW c \in Command \union {None}
  PROVE  Sound(Handed(r, c))
BY DEF Handed, Sound, FighterState

LEMMA BeginTurnIsSound ==
  ASSUME NEW F, AllSound(F), NEW hands \in [Npc -> Command \union {None}]
  PROVE  AllSound(BeginTurn(F, hands))
<1> DEFINE c(f) == IF f \in Npc THEN hands[f] ELSE None
           G == BeginTurn(F, hands)
<1>1. G = [f \in Fighter |-> Handed(F[f], c(f))]
  BY DEF BeginTurn, Handed
<1>2. \A f \in Fighter : c(f) \in Command \union {None}
  OBVIOUS
<1> HIDE DEF c, G
<1>3. \A f \in Fighter : Sound(Handed(F[f], c(f)))
  BY <1>2, Commanded DEF AllSound
<1>4. G = [f \in Fighter |-> G[f]] /\ \A f \in Fighter : Sound(G[f])
  BY <1>1, <1>3
<1> QED BY <1>4, AllSoundFrom DEF G

LEMMA OneCommanded ==
  ASSUME NEW F, AllSound(F), NEW f \in Fighter, NEW c \in Command
  PROVE  AllSound([F EXCEPT ![f].command = c])
<1> DEFINE s == Handed(F[f], c)
<1>1. Sound(s)
  BY Commanded DEF AllSound
<1>2. [F EXCEPT ![f].command = c] = [F EXCEPT ![f] = s]
  BY DEF Handed
<1> HIDE DEF s
<1>3. AllSound([F EXCEPT ![f] = s])
  BY <1>1 DEF AllSound, Sound
<1> QED BY <1>2, <1>3

-----------------------------------------------------------------------------
(* What happens to the turn.                                               *)
LEMMA NobodyLate ==
  ASSUME Typed, NEW left, Npc \subseteq left
  PROVE  Online(left) = Active(left) /\ Active(left) \subseteq Player
BY DEF Online, Active, Player

LEMMA Resolves ==
  ASSUME NEW F, AllSound(F), NEW order \in Orders, NEW luck, NEW reacts,
         Resolve(F, order, luck, reacts)
  PROVE  FightersSound' /\ resolved' = TRUE /\ due' = {} /\ window' = {}
<1>1. order \in Seq(Fighter)
  BY OrdersAssumption
<1>2. AllSound(Played(F, order, luck, reacts))
  BY <1>1, PlayedIsSound
<1> QED BY <1>2 DEF Resolve, FightersSound

LEMMA Starts ==
  ASSUME Typed, FightersSound, NEW left, Npc \subseteq left, TurnStart(left)
  PROVE  /\ FightersSound' /\ resolved' \in BOOLEAN
         /\ turn' = turn + 1 /\ done' = {} /\ window' \subseteq Player
         /\ due' = IF resolved' THEN {} ELSE Active(left)
         /\ playing' = IF resolved' THEN Active(left) ELSE {}
         /\ UNCHANGED fight
<1>1. PICK hands \in NpcChooses(fighter) :
        LET F == BeginTurn(fighter, hands)
        IN  /\ turn' = turn + 1
            /\ done' = {}
            /\ IF Sleepers(F, left) # {} /\ AllChosen(F, left)
               THEN /\ playing' = Online(left)
                    /\ \E order \in Orders, luck, reacts \in SUBSET Fighter :
                         Resolve(F, order, luck, reacts)
               ELSE /\ resolved' = FALSE
                    /\ fighter' = F
                    /\ due' = Online(left)
                    /\ window' = {f \in Online(left) : Opens(F[f])}
                    /\ playing' = {}
            /\ UNCHANGED fight
  BY DEF TurnStart
<1> DEFINE F == BeginTurn(fighter, hands)
<1>2. AllSound(F)
  BY BeginTurnIsSound DEF NpcChooses, FightersSound
<1>3. Online(left) = Active(left) /\ Online(left) \subseteq Player
  BY NobodyLate
<1> HIDE DEF F
<1>4. turn' = turn + 1 /\ done' = {} /\ UNCHANGED fight
  BY <1>1
<1>5. CASE Sleepers(F, left) # {} /\ AllChosen(F, left)
  <2>1. PICK order \in Orders, luck, reacts \in SUBSET Fighter : Resolve(F, order, luck, reacts)
    BY <1>1, <1>5 DEF F
  <2>2. playing' = Online(left)
    BY <1>1, <1>5 DEF F
  <2>3. FightersSound' /\ resolved' = TRUE /\ due' = {} /\ window' = {}
    BY <1>2, <2>1, Resolves
  <2> QED BY <1>3, <1>4, <2>2, <2>3
<1>6. CASE ~(Sleepers(F, left) # {} /\ AllChosen(F, left))
  <2>1. resolved' = FALSE /\ fighter' = F /\ due' = Online(left) /\ playing' = {}
        /\ window' = {f \in Online(left) : Opens(F[f])}
    BY <1>1, <1>6 DEF F
  <2>2. FightersSound'
    BY <1>2, <2>1 DEF FightersSound
  <2>3. window' \subseteq Player
    BY <1>3, <2>1
  <2> QED BY <1>3, <1>4, <2>1, <2>2, <2>3
<1> QED BY <1>5, <1>6

LEMMA TurnStarts ==
  ASSUME IInv, open, turn < TurnLimit, NEW left, gone \subseteq left, left \subseteq Fighter,
         Active(left) # {}, Active(left) \subseteq ready', ready' \subseteq Player,
         gone' = left, wire' \in [Fighter -> Command \union {None}], TurnStart(left)
  PROVE  IInv' /\ turn' # turn
<1>1. /\ FightersSound' /\ resolved' \in BOOLEAN
      /\ turn' = turn + 1 /\ done' = {} /\ window' \subseteq Player
      /\ due' = IF resolved' THEN {} ELSE Active(left)
      /\ playing' = IF resolved' THEN Active(left) ELSE {}
      /\ UNCHANGED fight
  BY Starts DEF IInv, Typed
<1>2. Npc' = Npc /\ open' = open /\ winner' = winner /\ paid' = paid /\ Player' = Player
  BY <1>1 DEF fight, Player
<1>3. turn' \in 1..TurnLimit /\ turn' # turn
  BY <1>1, Bounds DEF IInv, Typed
<1>4. Typed'
  BY <1>1, <1>2, <1>3 DEF IInv, Typed
<1>5. Active(gone)' = Active(left)
  BY DEF Active
<1>6. Waits'
  <2>1. ~AllTurnDone(done, gone)'
    BY <1>1, <1>5 DEF AllTurnDone
  <2> QED BY <1>1, <1>2, <1>3, <1>5, <2>1 DEF Waits, IInv
<1>7. Ends'
  BY <1>2, <1>5 DEF Ends, IInv
<1> QED BY <1>1, <1>3, <1>4, <1>6, <1>7 DEF IInv

LEMMA Verdicts ==
  ASSUME NEW F
  PROVE  PvpWinTeam(F) \in 0..2 /\ NpcWinTeam(F) \in 0..2
BY DEF PvpWinTeam, NpcWinTeam, Neither

LEMMA Finishes ==
  ASSUME IInv, open, resolved, NEW left, gone \subseteq left, left \subseteq Fighter,
         Active(left) # {}, ready' = ready, done' \subseteq Player,
         gone' = left, wire' \in [Fighter -> Command \union {None}], Finish
  PROVE  IInv'
<1>1. /\ winner' \in 0..2 /\ winner' # None
      /\ open' = FALSE /\ due' = {} /\ window' = {} /\ playing' = {}
      /\ UNCHANGED <<Npc, turn, resolved, fighter>> /\ Player' = Player
  BY Verdicts, CardsAssumption DEF Finish, Player
<1>2. paid' = [f \in Fighter |-> IF f \in Player THEN paid[f] + 1 ELSE paid[f]]
  BY DEF Finish, Payout
<1>3. \A f \in Fighter : paid[f] = IF f \in Npc THEN 0 ELSE 0
  BY DEF IInv, Ends
<1>4. \A f \in Fighter : paid'[f] = IF f \in Npc THEN 0 ELSE 1
  BY <1>2, <1>3 DEF Player
<1>5. paid' \in [Fighter -> Nat]
  BY <1>2, <1>4
<1>6. Typed'
  BY <1>1, <1>5 DEF IInv, Typed
<1>7. Active(gone)' = Active(left)
  BY DEF Active
<1>8. turn # 0
  BY DEF IInv, Waits
<1>9. Waits'
  BY <1>1, <1>7, <1>8 DEF Waits, IInv
<1>10. Ends'
  BY <1>1, <1>4, <1>7 DEF Ends
<1>11. FightersSound'
  BY <1>1 DEF FightersSound, IInv
<1> QED BY <1>6, <1>9, <1>10, <1>11 DEF IInv

LEMMA NextTurns ==
  ASSUME IInv, open, resolved, NEW left, gone \subseteq left, left \subseteq Fighter,
         Active(left) # {}, Active(left) \subseteq ready, ready' = ready, gone' = left,
         NEW set, set \subseteq Player,
         wire' \in [Fighter -> Command \union {None}], NextTurn(set, left)
  PROVE  IInv' /\ (turn' = turn => fighter' = fighter)
<1>1. CASE Finished(fighter, turn) /\ Finish /\ done' = set
  BY <1>1, Finishes DEF Finish, IInv, Typed, Player
<1>2. CASE ~Finished(fighter, turn) /\ TurnStart(left)
  <2>1. turn < TurnLimit
    BY <1>2, Bounds DEF Finished, IInv, Typed
  <2>2. ready' \subseteq Player
    BY DEF IInv, Typed
  <2> QED BY <1>2, <2>1, <2>2, TurnStarts
<1> QED BY <1>1, <1>2 DEF NextTurn

-----------------------------------------------------------------------------
(* What clients send.                                                      *)
Kept == IInv' /\ (resolved /\ turn' = turn => fighter' = fighter)

LEMMA ReadyKeeps ==
  ASSUME IInv, NEW f \in Fighter, Ready(f)
  PROVE  Kept
<1>1. open /\ f \notin gone \union ready /\ ready' = ready \union {f} /\ gone' = gone /\ wire' = wire
  BY DEF Ready
<1>2. turn = 0 /\ f \in Player /\ f \in Active(gone)
  BY <1>1 DEF IInv, Waits, Typed, Active, Player
<1>3. ready' \subseteq Player /\ wire' \in [Fighter -> Command \union {None}] /\ ~resolved
  BY <1>1, <1>2 DEF IInv, Typed, Waits
<1>4. CASE AllReady(ready \union {f}, gone)
  <2>1. TurnStart(gone)
    BY <1>4 DEF Ready
  <2>2. Active(gone) # {} /\ Active(gone) \subseteq ready'
    BY <1>1, <1>4 DEF AllReady
  <2>3. gone \subseteq Fighter /\ turn < TurnLimit
    BY <1>2, Bounds DEF IInv, Typed
  <2>4. IInv' /\ turn' # turn
    BY <1>1, <1>3, <2>1, <2>2, <2>3, TurnStarts
  <2> QED BY <2>4 DEF Kept
<1>5. CASE ~AllReady(ready \union {f}, gone)
  <2>1. UNCHANGED <<fight, turn, resolved, fighter, done, due, window, playing>>
    BY <1>5 DEF Ready
  <2>2. ~AllReady(ready, gone)' /\ Active(gone)' = Active(gone) /\ Player' = Player
    BY <1>1, <1>5, <2>1 DEF AllReady, Active, Player, fight
  <2>3. Typed'
    BY <1>1, <1>3, <2>1, <2>2 DEF IInv, Typed, fight
  <2>4. Waits'
    BY <1>1, <1>2, <2>1, <2>2 DEF IInv, Waits, fight, AllTurnDone
  <2>5. Ends' /\ FightersSound'
    BY <2>1, <2>2 DEF IInv, Ends, FightersSound, fight
  <2> QED BY <2>1, <2>3, <2>4, <2>5 DEF IInv, Kept
<1> QED BY <1>4, <1>5

LEMMA ChooseKeeps ==
  ASSUME IInv, NEW f \in Fighter, Choose(f)
  PROVE  Kept
<1>1. f \in window /\ window' = window \ {f}
      /\ UNCHANGED <<fight, turn, resolved, fighter, ready, gone, done, due, playing>>
  BY DEF Choose
<1>2. PICK c \in Command : wire' = [wire EXCEPT ![f] = c]
  BY DEF Choose, MayChoose
<1>3. wire' \in [Fighter -> Command \union {None}] /\ turn # 0
  BY <1>1, <1>2 DEF IInv, Typed, Waits
<1>4. Player' = Player /\ Active(gone)' = Active(gone)
  BY <1>1 DEF Player, Active, fight
<1>5. Typed'
  BY <1>1, <1>3, <1>4 DEF IInv, Typed, fight
<1>6. Waits'
  BY <1>1, <1>3, <1>4 DEF IInv, Waits, fight, AllTurnDone, AllReady
<1>7. Ends' /\ FightersSound'
  BY <1>1, <1>4 DEF IInv, Ends, FightersSound, fight
<1> QED BY <1>1, <1>5, <1>6, <1>7 DEF IInv, Kept

(* The turn is played in the middle of it: everybody's deadline goes, and  *)
(* everybody who is there is shown it.                                     *)
LEMMA PlaysOut ==
  ASSUME IInv, open, turn > 0, ~resolved, NEW F, AllSound(F),
         NEW order \in Orders, NEW luck, NEW reacts, Resolve(F, order, luck, reacts),
         playing' = Online(gone), wire' \in [Fighter -> Command \union {None}],
         UNCHANGED <<fight, turn, ready, gone, done>>
  PROVE  Kept
<1>1. FightersSound' /\ resolved' = TRUE /\ due' = {} /\ window' = {}
  BY Resolves
<1>2. Online(gone) = Active(gone)
  BY NobodyLate DEF IInv, Typed
<1>3. Player' = Player /\ Active(gone)' = Active(gone)
  BY DEF Player, Active, fight
<1>4. done = {} /\ Active(gone) # {}
  BY DEF IInv, Waits
<1>5. Typed'
  BY <1>1, <1>3 DEF IInv, Typed, fight
<1>6. ~AllTurnDone(done, gone)'
  BY <1>3, <1>4 DEF AllTurnDone
<1>7. turn # 0
  BY DEF IInv, Typed
<1>8. Waits'
  BY <1>1, <1>2, <1>3, <1>4, <1>6, <1>7 DEF IInv, Waits, fight
<1>9. Ends'
  BY <1>3 DEF IInv, Ends, fight
<1> QED BY <1>1, <1>5, <1>8, <1>9 DEF IInv, Kept

LEMMA ReceiveCommandKeeps ==
  ASSUME IInv, NEW f \in Fighter, ReceiveCommand(f)
  PROVE  Kept
<1> DEFINE F == [fighter EXCEPT ![f].command = wire[f]]
<1>1. wire[f] # None /\ wire' = [wire EXCEPT ![f] = None]
      /\ UNCHANGED <<fight, turn, ready, gone, done>>
  BY DEF ReceiveCommand
<1>2. wire' \in [Fighter -> Command \union {None}] /\ wire[f] \in Command
  BY <1>1 DEF IInv, Typed
<1>3. AllSound(F)
  BY <1>2, OneCommanded DEF IInv, FightersSound
<1>4. turn > 0
  BY <1>1 DEF IInv, Typed, Waits
<1>5. Player' = Player /\ Active(gone)' = Active(gone)
  BY <1>1 DEF Player, Active, fight
<1>6. CASE Accepts(f) /\ AllChosen(F, gone)
  <2>1. PICK order \in Orders, luck, reacts \in SUBSET Fighter : Resolve(F, order, luck, reacts)
    BY <1>6 DEF ReceiveCommand
  <2>2. playing' = Online(gone)
    BY <1>6 DEF ReceiveCommand
  <2>3. open /\ ~resolved
    BY <1>6 DEF Accepts
  <2> HIDE DEF F
  <2> QED BY <1>1, <1>2, <1>3, <1>4, <2>1, <2>2, <2>3, PlaysOut
<1>7. CASE ~(Accepts(f) /\ AllChosen(F, gone))
  <2>1. UNCHANGED <<resolved, due, window, playing>>
        /\ (fighter' = fighter \/ (Accepts(f) /\ fighter' = F))
    BY <1>7 DEF ReceiveCommand
  <2>2. FightersSound' /\ (resolved => fighter' = fighter)
    BY <1>3, <2>1 DEF FightersSound, IInv, Accepts
  <2>3. Typed'
    BY <1>1, <1>2, <1>5, <2>1 DEF IInv, Typed, fight
  <2>4. Waits'
    BY <1>1, <1>4, <1>5, <2>1 DEF IInv, Waits, fight, AllTurnDone, AllReady
  <2>5. Ends'
    BY <1>1, <1>5 DEF IInv, Ends, fight
  <2> QED BY <2>2, <2>3, <2>4, <2>5 DEF IInv, Kept
<1> QED BY <1>6, <1>7

LEMMA DeadlineKeeps ==
  ASSUME IInv, NEW f \in Fighter, Deadline(f)
  PROVE  Kept
<1>1. open /\ turn > 0 /\ ~resolved
  BY DEF Deadline, IInv, Waits
<1>2. playing' = Online(gone) /\ UNCHANGED <<fight, turn, ready, gone, done, wire>>
  BY <1>1 DEF Deadline
<1>3. PICK order \in Orders, luck, reacts \in SUBSET Fighter : Resolve(fighter, order, luck, reacts)
  BY <1>1 DEF Deadline
<1>4. wire' \in [Fighter -> Command \union {None}] /\ AllSound(fighter)
  BY <1>2 DEF IInv, Typed, FightersSound
<1> QED BY <1>1, <1>2, <1>3, <1>4, PlaysOut

LEMMA TurnEndKeeps ==
  ASSUME IInv, NEW f \in Fighter, TurnEnd(f)
  PROVE  Kept
<1> DEFINE set == done \union {f}
<1>1. open /\ resolved /\ f \in Active(gone)
  BY DEF TurnEnd, IInv, Waits
<1>2. UNCHANGED <<ready, gone, wire>> /\ turn # 0 /\ turn > 0
  BY <1>1 DEF TurnEnd, IInv, Waits, Typed
<1>3. gone \subseteq Fighter /\ wire' \in [Fighter -> Command \union {None}] /\ set \subseteq Player
  BY <1>1, <1>2 DEF IInv, Typed, Active, Player
<1>4. CASE AllTurnDone(set, gone)
  <2>1. NextTurn(set, gone)
    BY <1>4 DEF TurnEnd
  <2>2. Active(gone) # {} /\ Active(gone) \subseteq ready
    BY <1>1, <1>2 DEF IInv, Waits
  <2> HIDE DEF set
  <2>3. IInv' /\ (turn' = turn => fighter' = fighter)
    BY <1>1, <1>2, <1>3, <2>1, <2>2, NextTurns
  <2> QED BY <2>3 DEF Kept
<1>5. CASE ~AllTurnDone(set, gone)
  <2>1. done' = set /\ playing' = playing \ {f}
        /\ UNCHANGED <<fight, turn, resolved, fighter, due, window>>
    BY <1>5 DEF TurnEnd
  <2>2. Player' = Player /\ Active(gone)' = Active(gone)
    BY <1>2, <2>1 DEF Player, Active, fight
  <2>3. Typed'
    BY <1>2, <1>3, <2>1, <2>2 DEF IInv, Typed, fight
  <2>4. ~AllTurnDone(done, gone)'
    BY <1>5, <2>1, <2>2 DEF AllTurnDone
  <2>5. Waits'
    BY <1>1, <1>2, <2>1, <2>2, <2>4 DEF IInv, Waits, fight
  <2>6. Ends' /\ FightersSound'
    BY <2>1, <2>2 DEF IInv, Ends, FightersSound, fight
  <2> QED BY <2>1, <2>3, <2>5, <2>6 DEF IInv, Kept
<1> QED BY <1>4, <1>5

LEMMA LeaveKeeps ==
  ASSUME IInv, NEW f \in Fighter, Leave(f)
  PROVE  Kept
<1> DEFINE left == gone \union {f}
<1>1. open /\ f \notin gone /\ gone' = left /\ wire' = [wire EXCEPT ![f] = None] /\ ready' = ready
  BY DEF Leave
<1>2. wire' \in [Fighter -> Command \union {None}] /\ left \subseteq Fighter /\ Npc \subseteq left
  BY <1>1 DEF IInv, Typed
<1>3. Active(left) = Active(gone) \ {f} /\ Active(gone)' = Active(left)
  BY <1>1 DEF Active
<1>4. turn = 0 => \A g \in Fighter : wire'[g] = None
  BY <1>1 DEF IInv, Typed, Waits
<1>5. CASE Active(left) = {}
  <2>1. open' = FALSE /\ due' = {} /\ window' = {} /\ playing' = {}
        /\ UNCHANGED <<Npc, winner, paid, turn, resolved, fighter, done>>
    BY <1>5 DEF Leave
  <2>2. Player' = Player
    BY <2>1 DEF Player
  <2>3. Typed'
    BY <1>1, <1>2, <2>1, <2>2 DEF IInv, Typed
  <2>4. Waits'
    BY <1>4, <2>1 DEF IInv, Waits
  <2>5. Ends' /\ FightersSound'
    BY <1>1, <1>3, <1>5, <2>1 DEF IInv, Ends, FightersSound
  <2> QED BY <2>1, <2>3, <2>4, <2>5 DEF IInv, Kept
<1>6. CASE Active(left) # {} /\ CarryOn(left)
  <2>1. Active(left) \subseteq ready
    BY <1>6 DEF CarryOn, AllReady
  <2>2. CASE turn = 0
    <3>1. TurnStart(left)
      BY <1>6, <2>2 DEF Leave
    <3>2. ready' \subseteq Player /\ turn < TurnLimit
      BY <1>1, <2>2, Bounds DEF IInv, Typed
    <3> HIDE DEF left
    <3>3. gone \subseteq left
      BY DEF left
    <3>4. IInv' /\ turn' # turn
      BY <1>1, <1>2, <1>6, <2>1, <3>1, <3>2, <3>3, TurnStarts
    <3> QED BY <3>4 DEF Kept
  <2>3. CASE turn # 0
    <3>1. NextTurn(done, left) /\ resolved
      BY <1>6, <2>3 DEF Leave, CarryOn
    <3>2. done \subseteq Player /\ gone \subseteq left
      BY DEF IInv, Typed
    <3> HIDE DEF left
    <3>3. IInv' /\ (turn' = turn => fighter' = fighter)
      BY <1>1, <1>2, <1>6, <2>1, <3>1, <3>2, NextTurns
    <3> QED BY <3>3 DEF Kept
  <2> QED BY <2>2, <2>3
<1>7. CASE Active(left) # {} /\ ~CarryOn(left)
  <2>1. due' = due \ {f} /\ window' = window \ {f} /\ playing' = playing \ {f}
        /\ UNCHANGED <<fight, turn, resolved, fighter, done>>
    BY <1>7 DEF Leave
  <2>2. Player' = Player
    BY <2>1 DEF Player, fight
  <2>3. Typed'
    BY <1>1, <1>2, <2>1, <2>2 DEF IInv, Typed, fight
  <2>4. turn = 0 => ~AllReady(ready, gone)'
    BY <1>1, <1>3, <1>7, <2>1 DEF CarryOn, AllReady
  <2>5. turn > 0 /\ resolved => ~AllTurnDone(done, gone)'
    BY <1>1, <1>3, <1>7, <2>1 DEF CarryOn, AllReady, AllTurnDone, IInv, Waits
  <2>6. turn = 0 \/ turn > 0
    BY DEF IInv, Typed
  <2>7. Waits'
    BY <1>1, <1>3, <1>4, <1>7, <2>1, <2>4, <2>5, <2>6 DEF IInv, Waits, fight
  <2>8. Ends' /\ FightersSound'
    BY <1>1, <1>3, <1>7, <2>1 DEF IInv, Ends, FightersSound, fight
  <2> QED BY <2>1, <2>3, <2>7, <2>8 DEF IInv, Kept
<1> QED BY <1>5, <1>6, <1>7

-----------------------------------------------------------------------------
(* Every fight.                                                            *)
LEMMA FreshIsSound == Sound(Fresh)
<1>1. MaxVitality \in 0..MaxVitality /\ MaxEnergy \in 0..MaxEnergy
  BY Bounds
<1> QED BY <1>1 DEF Sound, Fresh, FighterState

LEMMA InitIsRight == Init => IInv
<1> SUFFICES ASSUME Init
             PROVE  IInv
  OBVIOUS
<1>1. Npc \subseteq Fighter /\ Npc # Fighter
  BY FightersAssumption DEF Init
<1>2. Active(gone) # {}
  BY <1>1 DEF Init, Active
<1>3. Typed
  <2>1. 0 \in 0..TurnLimit
    BY Bounds
  <2>2. paid \in [Fighter -> Nat] /\ wire \in [Fighter -> Command \union {None}]
    BY DEF Init
  <2> QED BY <1>1, <2>1, <2>2 DEF Init, Typed
<1>4. Waits
  BY <1>2 DEF Init, Waits, AllReady
<1>5. Ends
  BY DEF Init, Ends
<1>6. fighter = [f \in Fighter |-> fighter[f]] /\ \A f \in Fighter : Sound(fighter[f])
  BY FreshIsSound DEF Init
<1>7. FightersSound
  BY <1>6, AllSoundFrom DEF FightersSound
<1> QED BY <1>3, <1>4, <1>5, <1>7 DEF IInv

LEMMA StutterIsRight ==
  ASSUME IInv, UNCHANGED vars
  PROVE  Kept
<1>1. Player' = Player /\ Active(gone)' = Active(gone)
  BY DEF Player, Active, vars, fight
<1>2. Typed'
  BY <1>1 DEF IInv, Typed, vars, fight
<1>3. Waits'
  BY <1>1 DEF IInv, Waits, vars, fight, AllReady, AllTurnDone
<1>4. Ends' /\ FightersSound'
  BY <1>1 DEF IInv, Ends, FightersSound, vars, fight
<1> QED BY <1>2, <1>3, <1>4 DEF IInv, Kept, vars

LEMMA StepIsRight ==
  ASSUME IInv, [Next]_vars
  PROVE  Kept
<1>1. CASE UNCHANGED vars
  BY <1>1, StutterIsRight
<1>2. CASE Next
  <2>1. PICK f \in Fighter : \/ Ready(f) \/ Choose(f) \/ ReceiveCommand(f)
                             \/ Deadline(f) \/ TurnEnd(f) \/ Leave(f)
    BY <1>2 DEF Next
  <2> QED BY <2>1, ReadyKeeps, ChooseKeeps, ReceiveCommandKeeps, DeadlineKeeps, TurnEndKeeps, LeaveKeeps
<1> QED BY <1>1, <1>2

LEMMA IInvAlways == Spec => []IInv
<1>1. Init => IInv
  BY InitIsRight
<1>2. IInv /\ [Next]_vars => IInv'
  BY StepIsRight DEF Kept
<1> QED BY <1>1, <1>2, PTL DEF Spec

(* Whatever is chosen and whoever leaves, the lamps the clients light are  *)
(* the afflictions the server fights with, no deadline outlives its turn,  *)
(* and an open fight waits for somebody who is there and still owes it     *)
(* something (_battle_ailments_said, _battle_carry_on).                    *)
THEOREM FightsStaySound == Spec => []FightsAreSound
<1>1. IInv => FightsAreSound
  <2> SUFFICES ASSUME IInv
               PROVE  FightsAreSound
    OBVIOUS
  <2>1. due \subseteq Player /\ playing \subseteq Player
    BY DEF IInv, Waits, Typed, Active, Player
  <2>2. TypeOK
    BY <2>1 DEF IInv, Typed, FightersSound, AllSound, TypeOK
  <2>3. LampsTrue
    BY DEF IInv, FightersSound, AllSound, Sound, LampsTrue
  <2>4. DeadlineOfThisTurn
    BY DEF IInv, Waits, DeadlineOfThisTurn
  <2>5. ASSUME open
        PROVE  NoFightStalls
    <3>1. \A f \in Active(gone) : f \in Player /\ f \notin gone
      BY DEF IInv, Typed, Active, Player
    <3>2. CASE turn = 0
      <4>1. PICK f \in Active(gone) : f \notin ready
        BY <2>5, <3>2 DEF IInv, Waits, AllReady
      <4> QED BY <3>1, <3>2, <4>1 DEF NoFightStalls
    <3>3. CASE turn # 0 /\ ~resolved
      <4>1. turn > 0 /\ due = Active(gone) /\ Active(gone) # {}
        BY <2>5, <3>3 DEF IInv, Waits, Typed
      <4> QED BY <3>1, <3>3, <4>1 DEF NoFightStalls
    <3>4. CASE turn # 0 /\ resolved
      <4>1. turn > 0 /\ playing = Active(gone) \ done /\ ~AllTurnDone(done, gone) /\ Active(gone) # {}
        BY <2>5, <3>4 DEF IInv, Waits, Typed
      <4>2. PICK f \in Active(gone) : f \notin done
        BY <4>1 DEF AllTurnDone
      <4> QED BY <3>1, <3>4, <4>1, <4>2 DEF NoFightStalls
    <3>5. resolved \in BOOLEAN
      BY DEF IInv, Typed
    <3> QED BY <3>2, <3>3, <3>4, <3>5
  <2>6. NoFightStalls
    BY <2>5 DEF NoFightStalls
  <2> QED BY <2>2, <2>3, <2>4, <2>6 DEF FightsAreSound, FightersAreShown, TurnsAreDriven
<1> QED BY <1>1, IInvAlways, PTL

(* A fight ends with a verdict exactly when somebody is there to be given  *)
(* one, and then every player in it is paid, once (_battle_finish).        *)
THEOREM VerdictsHold == Spec => []VerdictForStayers
<1>1. IInv => VerdictForStayers
  BY DEF IInv, Ends, VerdictForStayers
<1> QED BY <1>1, IInvAlways, PTL

(* Once a turn is played nothing touches a fighter until the next begins:  *)
(* no late command, no second deadline, nobody's leaving (_battle_resolve). *)
THEOREM TurnsPlayedOnce == Spec => PlayedOnce
<1>1. IInv /\ [Next]_vars => [resolved /\ turn' = turn => fighter' = fighter]_vars
  BY StepIsRight DEF Kept
<1> QED BY <1>1, IInvAlways, PTL DEF Spec, PlayedOnce
=============================================================================
