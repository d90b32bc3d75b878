----------------------------- MODULE ClubBattle -----------------------------
(***************************************************************************)
(* One club battle: clubbattle.Fighter and clubbattle.Battle, with the     *)
(* handlers of mps_session.py that ready it, take the commands of a turn,  *)
(* play the turn, wait for the clients to show it and finish the fight.    *)
(*                                                                         *)
(* Players fight players, or one player fights NPCs whose turns the server *)
(* composes.  A turn is played when everybody who can choose has chosen or *)
(* when a fighter's session sleeps past the deadline; nothing but the      *)
(* clients' own reports starts the next one.  Nothing can be said to a     *)
(* client about an affliction outside the stream of somebody's action, so  *)
(* what ends on a turn nobody acts in is owed until the next one.          *)
(*                                                                         *)
(* Figures are abstracted: mastery, the percentages skills move and the    *)
(* scale of damage are in the cards' own small numbers, the dice are       *)
(* choices, the order of speed is any of Orders.                           *)
(***************************************************************************)
EXTENDS Integers, Sequences, FiniteSets, SequencesExt

CONSTANTS
  Fighter,     \* Battle.fighters, for the whole fight
  Opponents,   \* which of them may be NPCs: {} for a fight among players
  Team,        \* Team[f]: 0 or 1
  Orders,      \* the orders speed may put the fighters in
  Cards,       \* the cards in the decks
  None,        \* no command, no verdict
  MaxVitality, MaxEnergy,
  TurnLimit    \* TURN_LIMIT

Timed == {"sleep", "numb", "silence", "confuse"}
SkipsTurn == {"sleep", "numb", "confuse"}
AilmentTurns(a) == IF a = "silence" THEN 3 ELSE 2

Card == [skill: BOOLEAN, attack: Nat, defence: Nat,
         trait: {"none", "evade", "reflect", "counter", "resist"},
         cost: Nat, heal: Nat, friendly: BOOLEAN, whole: BOOLEAN,
         ailment: {"none", "cure", "retire"} \union Timed]
Command == [card: Cards, attacking: BOOLEAN, target: Fighter]

ASSUME FightersAssumption ==
  /\ IsFiniteSet(Fighter) /\ Team \in [Fighter -> 0..1]
  /\ \A npcs \in Opponents : npcs \subseteq Fighter /\ npcs # Fighter
ASSUME CardsAssumption == Cards \subseteq Card /\ None \notin Command \union 0..2
ASSUME OrdersAssumption ==
  \A order \in Orders : order \in Seq(Fighter)
                        /\ {order[i] : i \in DOMAIN order} = Fighter
ASSUME BoundsAssumption == {MaxVitality, MaxEnergy, TurnLimit} \subseteq Nat \ {0}

VARIABLES
  Npc,         \* the fighters that are NPCs, for the whole fight
  open,        \* the board still holds the battle
  turn,        \* Battle.turn, 0 before the first
  resolved,    \* Battle.resolved
  fighter,     \* fighter[f]: the Fighter, and `lamp`: what clients were shown
  ready,       \* fighters whose Fighter.ready is set
  gone,        \* fighters nothing waits for: NPCs, and players who left
  done,        \* fighters whose Fighter.turn_done is set
  due,         \* sessions whose battle_due is set
  winner,      \* the team of 0x5C1A, None before it
  paid,        \* paid[f]: how often _battle_payout filed f's sheet
  wire,        \* wire[f]: the command f's client has sent, on its way
  window,      \* clients whose command window is open
  playing      \* clients showing a turn they have not reported

fight == <<Npc, open, winner, paid>>
vars == <<fight, turn, resolved, fighter, ready, gone, done, due, wire, window,
          playing>>

Player == Fighter \ Npc
NpcFight == Npc # {}

(***************************************************************************)
(* Fighter.                                                                *)
(***************************************************************************)
Fresh ==
  [vitality |-> MaxVitality, energy |-> MaxEnergy, ailments |-> {}, clock |-> 0,
   unsaid |-> {}, lamp |-> {}, command |-> None]

Retired(r) == r.vitality = 0
Skips(ailments) == ailments \intersect SkipsTurn # {}

WindowShut(r) == Skips(r.ailments) \/ Skips(r.unsaid)

Defending(r) == r.command # None /\ ~r.command.attacking

Hurt(r, amount) == [r EXCEPT !.vitality = IF amount < @ THEN @ - amount ELSE 0]
Restored(r, hp) ==
  [r EXCEPT !.vitality = IF @ + hp < MaxVitality THEN @ + hp ELSE MaxVitality]
Cured(r) == [r EXCEPT !.ailments = {}, !.clock = 0]
Shown(r) == [r EXCEPT !.lamp = {}]           \* 0x5C11 type 17, at the clients

(* Afflictions stack and share the later of their ends; the client is told *)
(* to hold each until type 17.                                             *)
Afflicted(r, a) ==
  CASE a = "cure" -> Shown(Cured(r))
    [] a = "retire" -> [r EXCEPT !.vitality = 0]
    [] OTHER -> [r EXCEPT !.ailments = @ \union {a}, !.lamp = @ \union {a},
                          !.clock = IF AilmentTurns(a) > @ THEN AilmentTurns(a) ELSE @]

(***************************************************************************)
(* Battle: who the fight waits for.                                        *)
(***************************************************************************)
Active(left) == Fighter \ left
Online(left) == Player \ left

AllReady(set, left) == Active(left) # {} /\ Active(left) \subseteq set
AllChosen(F, left) ==
  Active(left) # {} /\ \A f \in Active(left) : F[f].command # None \/ WindowShut(F[f])
(* Variant: reports of those who left are waited for.                   *)
AllTurnDoneAll(set, left) == Fighter \subseteq set

AllTurnDone(set, left) == Active(left) # {} /\ Active(left) \subseteq set

Side(t) == {f \in Fighter : Team[f] = t}
WipedOut(F, t) == Side(t) # {} /\ \A f \in Side(t) : Retired(F[f])
Finished(F, t) == t >= TurnLimit \/ \E side \in 0..1 : WipedOut(F, side)

Left(F, side) == FoldSet(LAMBDA f, sum : sum + F[f].vitality, 0, side)
Dealt(F, side) == Cardinality(side) * MaxVitality - Left(F, side)

(* One foe stands, hurt enough and weaker than the whole side.             *)
OnPoints(F, t) ==
  LET foes == Side(1 - t)
      standing == {f \in foes : ~Retired(F[f])}
  IN  /\ Cardinality(standing) = 1
      /\ Left(F, standing) < Left(F, Side(t))
      /\ 2 * Dealt(F, foes) >= Cardinality(foes) * MaxVitality

Neither == 2

(* A knockout outranks points, and team 0 outranks team 1.                 *)
PvpWinTeam(F) ==
  IF Side(0) = {} \/ Side(1) = {} THEN Neither
  ELSE IF WipedOut(F, 1) THEN 0
  ELSE IF WipedOut(F, 0) THEN 1
  ELSE IF OnPoints(F, 0) THEN 0
  ELSE IF OnPoints(F, 1) THEN 1 ELSE Neither

(* The player is team 0 and loses unless a clause says otherwise.          *)
NpcWinTeam(F) == IF WipedOut(F, 1) \/ OnPoints(F, 0) THEN 0 ELSE 1

(***************************************************************************)
(* One action of a turn.  `luck` holds the fighters whose skill comes off, *)
(* `reacts` those whose defensive trait fires.                             *)
(***************************************************************************)
Guard(r, trait) ==
  r.command # None /\ ~r.command.card.skill /\ r.command.card.trait = trait

Shield(r) ==
  IF r.command = None THEN 0
  ELSE IF Defending(r) THEN r.command.card.defence ELSE r.command.card.defence \div 2

AtLeast1(n) == IF n > 1 THEN n ELSE 1
Damage(attack, r) == AtLeast1(attack - Shield(r))

WokenOnHit(r) ==
  IF ~Retired(r) /\ "sleep" \in r.ailments THEN Shown(Cured(r)) ELSE r

Struck(r, amount) == WokenOnHit(Hurt(r, amount))

(* A reflected or countered blow, half as strong again, on the attacker.   *)
TraitBlow(F, f, attack) ==
  IF Retired(F[f]) THEN F
  ELSE [F EXCEPT ![f] = Struck(@, (3 * Damage(attack, @)) \div 2)]

(* _battle_power: what the chosen card hits with.                          *)
Power(r) == r.command.card.attack

StrikeKeyword(F, f, t, reacts) ==
  LET attack == Power(F[f])
      hit == [F EXCEPT ![t] = Struck(@, Damage(attack, @))]
  IN  IF attack = 0 \/ t = f \/ Retired(F[t]) THEN F
      ELSE IF t \in reacts /\ Guard(F[t], "evade") THEN F
      ELSE IF t \in reacts /\ Guard(F[t], "reflect") THEN TraitBlow(F, f, attack)
      ELSE IF t \in reacts /\ Guard(F[t], "counter") /\ ~Retired(hit[t])
        THEN TraitBlow(hit, f, Power(F[t]))
      ELSE hit

SkillTargets(F, f, card, t) ==
  LET side == {g \in Fighter : ~Retired(F[g]) /\ (Team[g] = Team[f]) = card.friendly}
  IN  IF card.whole THEN side
      ELSE IF t \in side THEN {t}
      ELSE IF card.friendly THEN {f} ELSE {}

Resists(F, f, t) == Team[t] # Team[f] /\ Guard(F[t], "resist")

StrikeSkill(F, f, targets) ==
  LET attack == Power(F[f])
      hit(t) == IF Resists(F, f, t) THEN AtLeast1(Damage(attack, F[t]) \div 2)
                ELSE Damage(attack, F[t])
  IN  [t \in Fighter |-> IF t \in targets \ {f} /\ attack > 0
                         THEN Struck(F[t], hit(t)) ELSE F[t]]

SkillEffects(F, f, targets, reacts) ==
  LET card == F[f].command.card
      turnedAway(t) == card.ailment # "cure" /\ Resists(F, f, t) /\ t \in reacts
      healed(t) == Restored(F[t], card.heal)
  IN  [t \in Fighter |->
         IF t \notin targets THEN F[t]
         ELSE IF card.ailment = "none" \/ turnedAway(t) THEN healed(t)
         ELSE Afflicted(healed(t), card.ailment)]

Pays(r) == r.energy >= r.command.card.cost
Paid(F, f) == IF Pays(F[f]) THEN [F EXCEPT ![f].energy = @ - F[f].command.card.cost]
              ELSE F

(* An affliction keeps the action from coming off: held at the start of    *)
(* the turn, the fighter is not in the order at all.                       *)
AilmentHolds(r) ==
  \/ Skips(r.ailments)
  \/ "silence" \in r.ailments /\ (r.command.card.skill \/ r.command.attacking)

(* A fighter put out earlier in the turn still plays: nothing asks.        *)
Play(F, f, luck, reacts) ==
  LET c == F[f].command
      S == Paid(F, f)
      targets == SkillTargets(F, f, c.card, c.target)
      struck == IF c.attacking THEN StrikeSkill(S, f, targets) ELSE S
  IN  IF AilmentHolds(F[f]) THEN F
      ELSE IF ~c.card.skill
        THEN IF c.attacking THEN StrikeKeyword(F, f, c.target, reacts) ELSE F
      ELSE IF ~Pays(F[f]) \/ f \notin luck THEN S
      ELSE SkillEffects(struck, f, targets, reacts)

(***************************************************************************)
(* The afflictions' clock.                                                 *)
(***************************************************************************)
(* What was owed is said inside the first action of the turn.              *)
Said(F) ==
  [f \in Fighter |-> IF F[f].unsaid = {} THEN F[f]
                     ELSE Shown([F[f] EXCEPT !.unsaid = {}])]

Ticked(r) == [r EXCEPT !.clock = IF @ > 2 THEN @ - 1 ELSE 1]
Expiring(r) == r.clock <= 1

(* At the end of the last action; an affliction renewed in this turn waits. *)
WearOff(F, before) ==
  [f \in Fighter |->
     IF \/ before[f].ailments = {}
        \/ <<F[f].ailments, F[f].clock>> # <<before[f].ailments, before[f].clock>>
     THEN F[f]
     ELSE IF Expiring(before[f]) THEN Shown(Cured(F[f])) ELSE Ticked(F[f])]

(* Nobody acts: a stack that ends is owed to the clients.                  *)
IdleTick(F) ==
  [f \in Fighter |->
     IF F[f].ailments = {} THEN F[f]
     ELSE IF Expiring(F[f])
       THEN [Cured(F[f]) EXCEPT !.unsaid = @ \union F[f].ailments]
     ELSE Ticked(F[f])]

(***************************************************************************)
(* Playing a turn.                                                         *)
(***************************************************************************)
Acts(r) == r.command # None /\ ~AilmentHolds(r)

(* One after the other, in the order of speed.                             *)
Acted(F, order, luck, reacts) ==
  LET after[i \in 0..Len(order)] ==
        IF i = 0 THEN Said(F)
        ELSE IF Acts(F[order[i]]) THEN Play(after[i - 1], order[i], luck, reacts)
        ELSE after[i - 1]
  IN  after[Len(order)]

Played(F, order, luck, reacts) ==
  IF \E f \in Fighter : Acts(F[f]) THEN WearOff(Acted(F, order, luck, reacts), F)
  ELSE IdleTick(F)

Resolve(F, order, luck, reacts) ==
  /\ resolved' = TRUE
  /\ fighter' = Played(F, order, luck, reacts)
  /\ due' = {}
  /\ window' = {}

(***************************************************************************)
(* A turn begins; the server plays the NPCs' hands.                        *)
(***************************************************************************)
NpcActs(F, f) ==
  /\ ~Retired(F[f]) /\ ~Skips(F[f].ailments)
  /\ \E p \in Player : ~Retired(F[p])

(* What an NPC may be given: no skill it cannot pay, none and no attack in *)
(* silence, and a card that guards better than it strikes is a guard.      *)
NpcHand(F, f) ==
  {c \in Command :
     /\ c.target \in Player /\ ~Retired(F[c.target])
     /\ c.card.skill => c.card.cost <= F[f].energy /\ "silence" \notin F[f].ailments
     /\ c.attacking = /\ "silence" \notin F[f].ailments
                      /\ c.card.skill \/ c.card.attack >= c.card.defence}

NpcChooses(F) ==
  {hands \in [Npc -> Command \union {None}] :
     \A f \in Npc : IF NpcActs(F, f) /\ NpcHand(F, f) # {}
                    THEN hands[f] \in NpcHand(F, f) ELSE hands[f] = None}

BeginTurn(F, hands) ==
  [f \in Fighter |->
     [F[f] EXCEPT !.command = IF f \in Npc THEN hands[f] ELSE None]]

(* Held, with nothing to send.                                             *)
Sleepers(F, left) ==
  {f \in Active(left) : F[f].command = None /\ WindowShut(F[f])}

Opens(r) == ~WindowShut(r) /\ ~Retired(r)

(* When all who could choose are held, the turn is played at once.         *)
TurnStart(left) ==
  \E hands \in NpcChooses(fighter) :
    LET F == BeginTurn(fighter, hands)
    IN  /\ turn' = turn + 1
        /\ done' = {}
        /\ IF Sleepers(F, left) # {} /\ AllChosen(F, left)
           THEN /\ playing' = Online(left)
                /\ \E order \in Orders, luck, reacts \in SUBSET Fighter :
                     Resolve(F, order, luck, reacts)
           ELSE /\ resolved' = FALSE
                /\ fighter' = F
                /\ due' = Online(left)
                /\ window' = {f \in Online(left) : Opens(F[f])}
                /\ playing' = {}
        /\ UNCHANGED fight

(***************************************************************************)
(* The end of a fight.                                                     *)
(***************************************************************************)
(* Variant: only whoever stayed is paid.                                *)
PayoutPresent == [f \in Fighter |-> IF f \in gone THEN 0 ELSE 1]

(* Everybody on the roster is paid, gone or not, retired or not.           *)
Payout == [f \in Fighter |-> IF f \in Player THEN paid[f] + 1 ELSE paid[f]]

Finish ==
  /\ winner' = IF NpcFight THEN NpcWinTeam(fighter) ELSE PvpWinTeam(fighter)
  /\ paid' = Payout
  /\ open' = FALSE
  /\ due' = {} /\ window' = {} /\ playing' = {}
  /\ UNCHANGED <<Npc, turn, resolved, fighter>>

(* The last report of a turn: the next turn, or the end.                   *)
NextTurn(set, left) ==
  \/ Finished(fighter, turn) /\ Finish /\ done' = set
  \/ ~Finished(fighter, turn) /\ TurnStart(left)

(***************************************************************************)
(* What the clients send.                                                  *)
(***************************************************************************)
Init ==
  /\ Npc \in Opponents
  /\ open = TRUE /\ turn = 0 /\ resolved = FALSE
  /\ fighter = [f \in Fighter |-> Fresh]
  /\ ready = {} /\ gone = Npc /\ done = {}
  /\ due = {} /\ winner = None /\ paid = [f \in Fighter |-> 0]
  /\ wire = [f \in Fighter |-> None]
  /\ window = {} /\ playing = {}

(* 0x5C07: the battle scene is up.                                         *)
Ready(f) ==
  /\ open /\ f \notin gone \union ready
  /\ ready' = ready \union {f}
  /\ IF AllReady(ready \union {f}, gone)
     THEN TurnStart(gone)
     ELSE UNCHANGED <<fight, turn, resolved, fighter, done, due, window, playing>>
  /\ UNCHANGED <<gone, wire>>

(* What a player chooses: a foe, or a friend for a friendly skill.         *)
MayChoose(f) ==
  {c \in Command :
     /\ (Team[c.target] = Team[f]) = (c.card.skill /\ c.card.friendly)
     /\ c.card.skill => c.attacking /\ c.card.cost <= fighter[f].energy
     /\ "silence" \in fighter[f].lamp => ~c.attacking}

(* The window closes on a choice: 0x5C0A is on its way.                    *)
Choose(f) ==
  /\ f \in window
  /\ \E c \in MayChoose(f) : wire' = [wire EXCEPT ![f] = c]
  /\ window' = window \ {f}
  /\ UNCHANGED <<fight, turn, resolved, fighter, ready, gone, done, due, playing>>

(* Variant: a command is taken after the turn was played.               *)
AcceptsLate(f) == open /\ ~Retired(fighter[f])

(* Too late once the turn was played, refused to the retired.              *)
Accepts(f) == open /\ ~resolved /\ ~Retired(fighter[f])

ReceiveCommand(f) ==
  /\ wire[f] # None
  /\ wire' = [wire EXCEPT ![f] = None]
  /\ LET F == [fighter EXCEPT ![f].command = wire[f]]
     IN  IF ~Accepts(f)
         THEN UNCHANGED <<resolved, fighter, due, window, playing>>
         ELSE IF AllChosen(F, gone)
         THEN /\ playing' = Online(gone)
              /\ \E order \in Orders, luck, reacts \in SUBSET Fighter :
                   Resolve(F, order, luck, reacts)
         ELSE fighter' = F /\ UNCHANGED <<resolved, due, window, playing>>
  /\ UNCHANGED <<fight, turn, ready, gone, done>>

(* A session wakes past battle_due.                                        *)
Deadline(f) ==
  /\ f \in due
  /\ IF open /\ ~resolved
     THEN /\ playing' = Online(gone)
          /\ \E order \in Orders, luck, reacts \in SUBSET Fighter :
               Resolve(fighter, order, luck, reacts)
     ELSE due' = due \ {f} /\ UNCHANGED <<resolved, fighter, window, playing>>
  /\ UNCHANGED <<fight, turn, ready, gone, done, wire>>

(* 0x5C16, behind whatever the client sent before it.                      *)
TurnEnd(f) ==
  /\ f \in playing /\ wire[f] = None
  /\ IF AllTurnDone(done \union {f}, gone)
     THEN NextTurn(done \union {f}, gone)
     ELSE /\ done' = done \union {f}
          /\ playing' = playing \ {f}
          /\ UNCHANGED <<fight, turn, resolved, fighter, due, window>>
  /\ UNCHANGED <<ready, gone, wire>>

(* Variant: only the readiness of the first turn is looked at.          *)
CarryOnReady(left) == turn = 0 /\ AllReady(ready, left)

(* What the leaver's report was holding up.                                *)
CarryOn(left) ==
  /\ AllReady(ready, left)
  /\ turn = 0 \/ (resolved /\ AllTurnDone(done, left))

(* A connection ends, or its player logs out.                              *)
Leave(f) ==
  /\ open /\ f \notin gone
  /\ gone' = gone \union {f}
  /\ wire' = [wire EXCEPT ![f] = None]
  /\ IF Active(gone \union {f}) = {}
     THEN /\ open' = FALSE
          /\ due' = {} /\ window' = {} /\ playing' = {}
          /\ UNCHANGED <<Npc, winner, paid, turn, resolved, fighter, done>>
     ELSE IF CarryOn(gone \union {f})
     THEN IF turn = 0 THEN TurnStart(gone \union {f})
          ELSE NextTurn(done, gone \union {f})
     ELSE /\ due' = due \ {f} /\ window' = window \ {f}
          /\ playing' = playing \ {f}
          /\ UNCHANGED <<fight, turn, resolved, fighter, done>>
  /\ ready' = ready

Next ==
  \E f \in Fighter :
    Ready(f) \/ Choose(f) \/ ReceiveCommand(f) \/ Deadline(f) \/ TurnEnd(f) \/ Leave(f)

(* Timers fire, and a client that stays shows what it was sent.            *)
Fairness ==
  \A f \in Fighter : /\ WF_vars(Ready(f)) /\ WF_vars(Deadline(f))
                    /\ WF_vars(ReceiveCommand(f)) /\ WF_vars(TurnEnd(f))

Spec == Init /\ [][Next]_vars
FairSpec == Spec /\ Fairness

(***************************************************************************)
(* Properties.                                                             *)
(***************************************************************************)
FighterState ==
  [vitality: 0..MaxVitality, energy: 0..MaxEnergy, ailments: SUBSET Timed,
   clock: 0..3, unsaid: SUBSET Timed, lamp: SUBSET Timed,
   command: Command \union {None}]

(* Every variable has its type.                                            *)
TypeOK ==
  /\ Npc \in Opponents
  /\ open \in BOOLEAN /\ resolved \in BOOLEAN /\ turn \in 0..TurnLimit
  /\ fighter \in [Fighter -> FighterState]
  /\ ready \subseteq Player /\ Npc \subseteq gone /\ gone \subseteq Fighter
  /\ done \subseteq Player /\ due \subseteq Player
  /\ window \subseteq Player /\ playing \subseteq Player
  /\ winner \in 0..2 \union {None} /\ paid \in [Fighter -> Nat]
  /\ wire \in [Fighter -> Command \union {None}]

(* The lamps the clients light are the afflictions a fighter carries and   *)
(* the ended ones that could not yet be said, and a clock runs exactly     *)
(* while there is something to end (_battle_ailments_said, _wear_off).     *)
LampsTrue ==
  \A f \in Fighter : /\ fighter[f].lamp = fighter[f].ailments \union fighter[f].unsaid
                     /\ fighter[f].clock = 0 <=> fighter[f].ailments = {}

(* A turn is played once: from then to the next turn no late command, no   *)
(* second session's deadline and nobody's leaving changes a fighter.       *)
PlayedOnce == [][resolved /\ turn' = turn => fighter' = fighter]_vars

(* A fight that is open waits for somebody who is still there, and who     *)
(* owes it a report or has a deadline coming (_battle_carry_on).           *)
NoFightStalls ==
  open => \/ turn = 0 /\ \E f \in Player : f \notin gone \union ready
          \/ turn > 0 /\ ~resolved /\ \E f \in due : f \notin gone
          \/ turn > 0 /\ resolved /\ \E f \in playing : f \notin gone \union done

(* No deadline outlives the turn it was set for.                           *)
DeadlineOfThisTurn == due # {} => open /\ turn > 0 /\ ~resolved

(* A fight ends with a verdict for whoever stayed, and then everybody in   *)
(* it is paid, once; one all have left ends with neither.                  *)
VerdictForStayers ==
  /\ ~open => (winner # None <=> Active(gone) # {})
  /\ \A f \in Fighter : paid[f] = IF winner = None \/ f \in Npc THEN 0 ELSE 1

(* Every fight ends, whatever its players choose or fail to choose.        *)
EveryFightEnds == <>~open

(* What the players see of the fighters is what the server fights with.    *)
FightersAreShown == TypeOK /\ LampsTrue

(* The turn's clock belongs to the turn, and something always moves it on. *)
TurnsAreDriven == NoFightStalls /\ DeadlineOfThisTurn

(* The fight the players see goes on, and is the one the server drives.    *)
FightsAreSound == FightersAreShown /\ TurnsAreDriven
=============================================================================
