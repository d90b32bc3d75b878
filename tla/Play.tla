-------------------------------- MODULE Play --------------------------------
(***************************************************************************)
(* Drama events: the party that books one (drama.py and the 0xE0xx         *)
(* handlers of mps_session.py) and the play it puts on (the 0x72xx         *)
(* handlers, script.Runner, and the cursors of gs3vm.py that follow it).   *)
(*                                                                         *)
(* Every client runs the scenario itself and reports the instructions it   *)
(* stops at.  The server only answers which road a branch takes, holds     *)
(* everybody at a PLAYER_SYNC until the last arrives, holds a branch that  *)
(* reads the choice of a member who has not made it, and takes the role    *)
(* of whoever is silent or leaves with a stand-in it walks by itself.      *)
(*                                                                         *)
(* A scenario is abstracted to the instructions somebody may have to wait  *)
(* for.  One party is up at a time (PARTY_MAX = 1), in one place; names,   *)
(* passwords and sexes are left out.  A push is shown as it is written:    *)
(* each connection is one ordered stream.                                  *)
(***************************************************************************)
EXTENDS Machine

CONSTANTS
  Chara,         \* the characters who may be logged in
  Npcs,          \* the rows of proxy_npc.bin
  MaxRoad,       \* a box that leads back is left for good after so many branches
  StepBudget,    \* StandIn.STEP_BUDGET, of one walk
  LateRefusal    \* whether a client may refuse a scenario others already wait in

Choices01 == {0, 1}
StandInChoice == 0

(* drama.Actor and drama.Party, and what a client knows of the party.      *)
Actor == [role : Roles, who : Chara \union Npcs, ready : BOOLEAN, npc : BOOLEAN]
Party == [cast : Seq(Actor), leader : Roles, state : {"recruiting", "running"}]
Known == [seats : SUBSET (Roles \X (Chara \union Npcs) \X BOOLEAN), leader : Roles]

ASSUME PlayersAssumption ==
  /\ Chara \intersect Npcs = {} /\ None \notin Chara \union Npcs \union Roles
  /\ None \notin Party \union Known
ASSUME NpcsAssumption ==
  IsFiniteSet(Npcs) /\ IsFiniteSet(Roles) /\ Cardinality(Npcs) >= Cardinality(Roles)
ASSUME BudgetAssumption == StepBudget \in Nat
ASSUME LateRefusalAssumption == LateRefusal \in BOOLEAN

VARIABLES
  online,    \* characters with a session
  browsing,  \* sessions whose drama_matching is set: the matching screen is up
  party,     \* the Party on the Board, or None
  play,      \* [scr, cur, reg]: session.script, _stand_ins, the shared registers
  clock,     \* sessions whose script_idle_at is set
  shown,     \* shown[c]: the room as c's client was last told, or None
  listed     \* listed[c]: the row of the party on c's matching screen, or None

vars == <<online, browsing, party, play, clock, shown, listed>>

(***************************************************************************)
(* drama.Party                                                             *)
(***************************************************************************)
Cast == IF party = None THEN <<>> ELSE party.cast
InCast(cast, c) == \E i \in DOMAIN cast : cast[i].who = c
People(cast) == {a \in Range(cast) : ~a.npc}
MembersOf(cast) == {a.who : a \in People(cast)}
Members == MembersOf(Cast)
ActorOf(c) == CHOOSE a \in Range(Cast) : a.who = c
Leads(c) == InCast(Cast, c) /\ ActorOf(c).role = party.leader
Recruiting == party # None /\ party.state = "recruiting"

Unreserved(p) == Roles \ {a.role : a \in Range(p.cast)}
EveryoneReady == \A a \in Range(Cast) : a.ready
Others(cast, c) == MembersOf(cast) \ {c}

Longest(cast) ==
  cast[CHOOSE i \in DOMAIN cast : ~cast[i].npc /\ \A j \in 1..(i - 1) : cast[j].npc]

(* Board.part and drop_if_unpeopled: the longest-standing person leads.    *)
Parted(p, c) ==
  LET at == CHOOSE i \in DOMAIN p.cast : p.cast[i].who = c
      cast == RemoveAt(p.cast, at)
  IN IF People(cast) = {} THEN None
     ELSE [p EXCEPT !.cast = cast,
                    !.leader = IF p.cast[at].role = @ THEN Longest(cast).role ELSE @]

(***************************************************************************)
(* What the clients are told.  JOIN is the whole roster, UPDATE the row of *)
(* the list, PART, READY and RETIRE one actor.                             *)
(***************************************************************************)
Seats(p) == {<<a.role, a.who, a.ready>> : a \in Range(p.cast)}
Row(p) == [state |-> p.state, free |-> Unreserved(p)]
Room(p) == [seats |-> Seats(p), leader |-> p.leader]

Tell(S, told) == shown' = [c \in Chara |-> IF c \in S THEN told[c] ELSE shown[c]]
Roster(p) == [c \in Chara |-> Room(p)]
(* Variant: a departure does not say who leads now.                        *)
LeaderUntold(role, p) ==
  [c \in Chara |-> IF shown[c] = None THEN None
                   ELSE [shown[c] EXCEPT !.seats = {s \in @ : s[1] # role}]]

Left(role, p) ==
  [c \in Chara |-> IF shown[c] = None THEN None
                   ELSE [seats |-> {s \in shown[c].seats : s[1] # role},
                         leader |-> p.leader]]
Seated(s) ==
  [c \in Chara |-> IF shown[c] = None THEN None
                   ELSE [shown[c] EXCEPT !.seats = {t \in @ : t[1] # s[1]} \union {s}]]

(* _drama_push_members and _drama_push_onlookers: the row goes to those in *)
(* the room and to every matching screen that is up.                       *)
List(p) ==
  listed' = [c \in Chara |->
               IF c \notin browsing THEN None ELSE IF p = None THEN None ELSE Row(p)]

(***************************************************************************)
(* The play.  A runner is a member's session.script, with its follower; a  *)
(* cursor is a stand-in's.  Both are cursors of the machine: Runner keeps  *)
(* the books of a member's, StandIn its own.                               *)
(***************************************************************************)
Runner(role) ==
  [role |-> role, doing |-> "asked", at |-> 1, begun |-> FALSE, held |-> FALSE,
   timedOut |-> 0, lost |-> FALSE, road |-> <<>>, book |-> Book, own |-> NoRegisters]
Offstage == [doing |-> "offstage"]          \* no session.script
Cursor == [at |-> 1, blocked |-> FALSE, held |-> FALSE, done |-> FALSE, book |-> Book,
           own |-> NoRegisters]

(* What the member's client and its cursor come to next.                   *)
Stop(r) == IF r.begun THEN r.at ELSE StopFrom(r.at, r.role)
Op(r) == Scene[Stop(r)].op
InPlay(pl, c) == pl.scr[c] # Offstage
AtSync(r) == r.begun /\ Op(r) = "sync"
AtBox(r) == r.begun /\ Op(r) = "select"
AtText(r) == r.begun /\ Op(r) = "string"
Stage(pl, cast) == {c \in MembersOf(cast) \intersect online : InPlay(pl, c)}

(* _click_fence and _stand_in_fence: whether the branch reads the choice   *)
(* of a member who still has to make it, and can.                          *)
Owes(book, r) ==
  /\ ~r.held /\ ~AtSync(r)
  /\ \/ AtBox(r)
     \/ LET box == book.awaiting[r.role]
        IN box # 0 /\ r.book.answered[box] < book.walked[box]
Fenced(pl, cast, book, role, at) ==
  \E c \in Stage(pl, cast) :
    pl.scr[c].role \in Clicks(at) \ {role} /\ Owes(book, pl.scr[c])

(* What a walk of a member's or a stand-in's cursor leaves behind.         *)
Follows(pl, c, s) == [pl EXCEPT !.scr[c] = s.w, !.reg = s.reg]
Plays(pl, role, s) == [pl EXCEPT !.cur[role] = s.w, !.reg = s.reg]

(* A member's cursor walked up to what its client has just reported.       *)
Walked(pl, c) ==
  LET r == pl.scr[c]
  IN IF r.lost THEN [pl EXCEPT !.scr[c].at = Stop(r)]
     ELSE Follows(pl, c, At([w |-> r, reg |-> pl.reg], r.role))

(* What one of a cast after the other makes of a play.                     *)
InTurn(F(_, _), pl, cast) ==
  LET after[k \in 0..Len(cast)] == IF k = 0 THEN pl ELSE F(after[k - 1], cast[k])
  IN  after[Len(cast)]

(***************************************************************************)
(* Stand-ins: StandIn.step_once, run until it is parked or held.           *)
(***************************************************************************)
Parked(cur) == cur.done \/ cur.blocked
StepOnce(pl, cast, role) ==
  LET cur == pl.cur[role]  line == Scene[cur.at]
      Set(c) == [pl EXCEPT !.cur[role] = c]
  IN CASE Parked(cur) \/ cur.held -> pl
       [] line.op = "end" -> Set([cur EXCEPT !.done = TRUE])
       [] line.op = "sync" -> Set([cur EXCEPT !.blocked = TRUE])
       [] line.op = "br" ->
            IF Fenced(pl, cast, cur.book, role, cur.at) THEN Set([cur EXCEPT !.held = TRUE])
            ELSE Set([cur EXCEPT !.at = IF Verdict(cur, pl.reg) = 1 THEN line.to ELSE @ + 1])
       [] line.op = "select" ->
            IF role \in line.of
            THEN [Set([cur EXCEPT !.at = @ + 1, !.book = Answered(@, cur.at)])
                    EXCEPT !.reg = ChoseOn(@, role, StandInChoice)]
            ELSE Set([cur EXCEPT !.at = @ + 1, !.book = WalkedPast(@, cur.at, role)])
       [] line.op = "string" ->
            [Set([cur EXCEPT !.at = @ + 1])
               EXCEPT !.reg = IF role \in line.of THEN TypedOn(@, cur.at) ELSE @]
       [] Flows(line.op) /\ ~Silent(cur.at, role) -> Set([cur EXCEPT !.at = FlowedTo(@)])
       [] OTHER -> Plays(pl, role, Step([w |-> cur, reg |-> pl.reg], role))

(* A held cursor looks again, and computes what it branches on again.      *)
Unheld(pl, cast, role) ==
  LET cur == pl.cur[role]
  IN IF Parked(cur) \/ ~cur.held \/ Fenced(pl, cast, cur.book, role, cur.at) THEN pl
     ELSE Plays(pl, role, Recomputed([w |-> [cur EXCEPT !.held = FALSE], reg |-> pl.reg], role))

(* _stand_in_walk: every cursor in turn.                                   *)
WalkOne(pl, cast, role) ==
  Repeated(LAMBDA q : StepOnce(q, cast, role), Unheld(pl, cast, role), StepBudget)
Walk(pl, cast) ==
  InTurn(LAMBDA q, a : IF a.npc /\ pl.cur[a.role] # None THEN WalkOne(q, cast, a.role) ELSE q,
         pl, cast)

(* _stand_in_release: open the rendezvous for the stand-ins as well.       *)
Open(cur) == IF cur = None THEN None
             ELSE IF cur.blocked THEN [cur EXCEPT !.blocked = FALSE, !.at = @ + 1] ELSE cur
StandInRelease(pl, cast) ==
  Walk([pl EXCEPT !.cur = [r \in Roles |-> Open(pl.cur[r])]], cast)

(***************************************************************************)
(* The branch.                                                             *)
(***************************************************************************)
Took(pl, c, way) ==
  [pl EXCEPT !.scr[c].at = IF way = 1 THEN Scene[@].to ELSE @ + 1,
             !.scr[c].doing = "reading", !.scr[c].held = FALSE,
             !.scr[c].road = IF Len(@) < MaxRoad THEN Append(@, way) ELSE @]

(* _script_incoming, OP_BR of a member the server still follows: in a party *)
(* the road is the cursor's verdict.  Its stand-ins walk if it reads a     *)
(* choice of another's (_click_fence).                                     *)
BranchNow(pl, cast, c) ==
  LET r == pl.scr[c]
  IN IF Fenced(pl, cast, r.book, r.role, r.at)
     THEN [pl EXCEPT !.scr[c].held = TRUE, !.scr[c].doing = "waits"]
     ELSE Took(pl, c, Verdict(r, pl.reg))
Branch(pl, cast, c) ==
  LET needs == Clicks(pl.scr[c].at) \ {pl.scr[c].role}
  IN BranchNow(IF needs = {} THEN pl ELSE Walk(pl, cast), cast, c)

(* Variant: nothing takes up a held branch again.                       *)
HeldForGood(pl, cast) == pl

(* A held branch computes what it reads again.                             *)
Anew(pl, c) ==
  Follows(pl, c, Recomputed([w |-> [pl.scr[c] EXCEPT !.held = FALSE], reg |-> pl.reg],
                            pl.scr[c].role))

(* _release_held_branches: ask every held branch of the party again.       *)
ReleaseHeld(pl, cast) ==
  InTurn(LAMBDA q, a : IF a.who \in Stage(q, cast) /\ q.scr[a.who].held
                       THEN Branch(Anew(q, a.who), cast, a.who) ELSE q,
         pl, cast)

WalkAndRelease(pl, cast) == ReleaseHeld(Walk(pl, cast), cast)

(* _player_wait, _script_unblock: open the barrier if all stand at one.    *)
Released(r) ==
  IF r.begun THEN [r EXCEPT !.begun = FALSE, !.doing = "reading", !.at = @ + 1] ELSE r
AllArrived(pl, cast) == \A c \in Stage(pl, cast) : AtSync(pl.scr[c])
SetOff(pl, stage) ==
  [pl EXCEPT !.scr = [c \in Chara |-> IF c \in stage THEN Released(@[c]) ELSE @[c]]]
OpenBarrier(pl, cast) == StandInRelease(SetOff(Walk(pl, cast), Stage(pl, cast)), cast)
(* Variant: a leaver does not open the barrier it kept shut.            *)
NotUnblocked(pl, cast) == pl

Unblock(pl, cast) ==
  IF Stage(pl, cast) # {} /\ AllArrived(pl, cast) THEN OpenBarrier(pl, cast) ELSE pl

(* _settle_timed_out_box: the answer is booked when it arrives.            *)
Settle(pl, cast, c) ==
  LET box == pl.scr[c].timedOut
  IN IF box = 0 THEN pl
     ELSE WalkAndRelease([pl EXCEPT !.scr[c].timedOut = 0,
                                    !.scr[c].book = Answered(@, box)], cast)

(***************************************************************************)
(* The matching screen and the room.                                       *)
(***************************************************************************)
Log(c) ==
  /\ c \notin online
  /\ online' = online \union {c}
  /\ UNCHANGED <<browsing, party, play, clock, shown, listed>>

MatchingStart(c) ==
  /\ c \in online \ browsing /\ ~InPlay(play, c)
  /\ browsing' = browsing \union {c}
  /\ listed' = [listed EXCEPT ![c] = IF party = None THEN None ELSE Row(party)]
  /\ UNCHANGED <<online, party, play, clock, shown>>

MatchingEnd(c) ==
  /\ c \in browsing \ Members
  /\ browsing' = browsing \ {c}
  /\ listed' = [listed EXCEPT ![c] = None]
  /\ UNCHANGED <<online, party, play, clock, shown>>

Create(c, role) ==
  /\ c \in browsing /\ party = None
  /\ party' = [cast |-> <<[role |-> role, who |-> c, ready |-> FALSE, npc |-> FALSE]>>,
               leader |-> role, state |-> "recruiting"]
  /\ List(party')
  /\ Tell({c}, Roster(party'))
  /\ UNCHANGED <<online, browsing, play, clock>>

Seat(actor) ==
  /\ party' = [party EXCEPT !.cast = Append(@, actor)]
  /\ Tell(MembersOf(party'.cast) \intersect online, Roster(party'))
  /\ List(party')
  /\ UNCHANGED <<online, browsing, play, clock>>

Join(c, role) ==
  /\ c \in browsing \ Members /\ Recruiting
  /\ role \in Unreserved(party)
  /\ Seat([role |-> role, who |-> c, ready |-> FALSE, npc |-> FALSE])

Surrogate(c, role, n) ==
  /\ c \in browsing /\ Recruiting /\ Leads(c)
  /\ role \in Unreserved(party) /\ ~InCast(Cast, n)
  /\ Seat([role |-> role, who |-> n, ready |-> TRUE, npc |-> TRUE])

Ready(c, prepare) ==
  /\ c \in Members \intersect browsing /\ Recruiting
  /\ ActorOf(c).ready # prepare
  /\ LET at == CHOOSE i \in DOMAIN Cast : Cast[i].who = c
     IN party' = [party EXCEPT !.cast[at].ready = prepare]
  /\ Tell(Members \intersect online, Seated(<<ActorOf(c).role, c, prepare>>))
  /\ UNCHANGED <<online, browsing, play, clock, listed>>

NoCursors == [r \in Roles |-> None]
Dropped(p, pl) == IF p = None THEN [pl EXCEPT !.cur = NoCursors] ELSE pl

(* A role is emptied: the one who had it leaves the room, the rest hear.   *)
Leave(who) ==
  LET role == ActorOf(who).role  p == Parted(party, who)
  IN /\ party' = p
     /\ Tell((Members \union ({who} \intersect Chara)) \intersect online,
             [c \in Chara |-> IF c = who THEN None ELSE Left(role, p)[c]])

(* The 0xE014 of the room's own screen: nobody sends it from the stage.    *)
Part(c) ==
  /\ c \in Members \intersect browsing
  /\ Leave(c) /\ List(party')
  /\ play' = Dropped(party', play)
  /\ UNCHANGED <<online, browsing, clock>>

Kick(c, who) ==
  /\ c \in browsing /\ Recruiting /\ Leads(c)
  /\ InCast(Cast, who) /\ who # c
  /\ Leave(who) /\ List(party')
  /\ UNCHANGED <<online, browsing, play, clock>>

(* _drama_party_start and _drama_light: a runner for everyone in the room, *)
(* a cursor for every stand-in the leader took.                            *)
Cursors(cast) ==
  [r \in Roles |-> IF \E a \in Range(cast) : a.npc /\ a.role = r THEN Cursor ELSE None]
Lit(cast) ==
  LET RoleOf(c) == (CHOOSE a \in Range(cast) : a.who = c).role
  IN [scr |-> [c \in Chara |-> IF c \in MembersOf(cast) \intersect online
                               THEN Runner(RoleOf(c)) ELSE play.scr[c]],
      cur |-> Cursors(cast),
      reg |-> NoRegisters]
Start(c) ==
  /\ c \in browsing /\ Recruiting /\ Leads(c) /\ EveryoneReady
  /\ party' = [party EXCEPT !.state = "running"]
  /\ browsing' = browsing \ Members
  /\ listed' = [d \in Chara |-> IF d \in browsing' THEN Row(party') ELSE None]
  /\ play' = Walk(Lit(Cast), Cast)
  /\ UNCHANGED <<online, clock, shown>>

(***************************************************************************)
(* The play.  Whatever a client sends there winds its clock.               *)
(***************************************************************************)
Touch(c) ==
  clock' = IF Others(Cast, c) # {} THEN clock \union {c} ELSE clock \ {c}
Doing(c, what) == InPlay(play, c) /\ play.scr[c].doing = what
Onstage == <<online, browsing, party, shown, listed>>

ReadyOk(c) ==
  /\ Doing(c, "asked")
  /\ play' = [play EXCEPT !.scr[c].doing = "reading"]
  /\ Touch(c) /\ UNCHANGED Onstage

ReadyNo(c) ==
  /\ Doing(c, "asked")
  /\ LateRefusal \/ \A d \in Stage(play, Cast) : play.scr[d].doing # "waits"
  /\ play' = [play EXCEPT !.scr[c] = Offstage]
  /\ clock' = clock \ {c} /\ UNCHANGED Onstage

(* The client has come to an instruction it reports, and its cursor too.   *)
Comes(c, op) == Doing(c, "reading") /\ Op(play.scr[c]) = op
Settled(c) == Walked(Settle(play, Cast, c), c)
Asked(r) == r.role \in Scene[Stop(r)].of

OpensBox(c) ==
  /\ Comes(c, "select")
  /\ Asked(play.scr[c]) \/ play.scr[c].lost
  /\ play' = [Settled(c) EXCEPT !.scr[c].begun = TRUE, !.scr[c].doing = "box"]
  /\ Touch(c) /\ UNCHANGED Onstage

OpensText(c) ==                              \* _script_input
  /\ Comes(c, "string")
  /\ play' = [Settled(c) EXCEPT !.scr[c].begun = TRUE, !.scr[c].doing = "box"]
  /\ Touch(c) /\ UNCHANGED Onstage

PassesBox(c) ==                              \* _script_select_others
  LET Past(r) == [r EXCEPT !.at = @ + 1, !.book = WalkedPast(@, r.at, r.role)]
  IN /\ Comes(c, "select")
     /\ ~Asked(play.scr[c]) /\ ~play.scr[c].lost
     /\ play' = [Settled(c) EXCEPT !.scr[c] = Past(@)]
     /\ Touch(c) /\ UNCHANGED Onstage

Passes(c) ==                                 \* a jump or a bracket of its own
  /\ \E op \in {"jp", "ba", "ba_end"} : Comes(c, op)
  /\ play' = [Settled(c) EXCEPT !.scr[c].at = FlowedTo(@)]
  /\ Touch(c) /\ UNCHANGED Onstage

Arrived(pl) == IF AllArrived(pl, Cast) THEN OpenBarrier(pl, Cast) ELSE ReleaseHeld(pl, Cast)
Arrives(c) ==
  /\ Comes(c, "sync")
  /\ play' = Arrived([Settled(c) EXCEPT !.scr[c].begun = TRUE, !.scr[c].doing = "waits"])
  /\ Touch(c) /\ UNCHANGED Onstage

Branches(c) ==
  /\ Comes(c, "br")
  /\ IF play.scr[c].lost THEN \E way \in Choices01 : play' = Took(Settled(c), c, way)
     ELSE play' = Branch(Settled(c), Cast, c)
  /\ Touch(c) /\ UNCHANGED Onstage

(* OP_END and _drama_party_end: the party recruits again once nobody plays. *)
PartyEnd(pl) ==
  IF Stage(pl, Cast) = {}
  THEN /\ party' = [party EXCEPT !.state = "recruiting"]
       /\ play' = [pl EXCEPT !.cur = NoCursors]
       /\ List(party')
  ELSE play' = pl /\ UNCHANGED <<party, listed>>
Finishes(c) ==
  /\ Comes(c, "end")
  /\ PartyEnd([Settled(c) EXCEPT !.scr[c] = Offstage])
  /\ clock' = clock \ {c} /\ UNCHANGED <<online, browsing, shown>>

(* A choice: pressed, then received; or the box is closed on it, before it *)
(* is pressed or while it is on its way.                                   *)
Presses(c) ==
  /\ Doing(c, "box")
  /\ play' = [play EXCEPT !.scr[c].doing = "pressed"]
  /\ UNCHANGED <<clock, Onstage>>

MayChoose(c, way) == way = 0 \/ Len(play.scr[c].road) < MaxRoad
Chose(c, way) ==
  IF play.scr[c].lost THEN play.reg ELSE ChoseOn(play.reg, play.scr[c].role, way)

Answers(c, way) ==
  /\ Doing(c, "pressed") /\ AtBox(play.scr[c]) /\ MayChoose(c, way)
  /\ play' = WalkAndRelease(
       [play EXCEPT !.reg = Chose(c, way),
                    !.scr[c].begun = FALSE, !.scr[c].doing = "reading",
                    !.scr[c].at = @ + 1,
                    !.scr[c].book = Answered(@, play.scr[c].at)], Cast)
  /\ Touch(c) /\ UNCHANGED Onstage

Types(c) ==                                  \* _script_input_result, a good text
  /\ Doing(c, "pressed") /\ AtText(play.scr[c])
  /\ play' = Walk([play EXCEPT
       !.reg = IF play.scr[c].lost THEN @ ELSE TypedOn(@, play.scr[c].at),
       !.scr[c].begun = FALSE, !.scr[c].doing = "reading", !.scr[c].at = @ + 1], Cast)
  /\ Touch(c) /\ UNCHANGED Onstage

(* A choice is booked when the default comes; a text box holds nobody.     *)
TimedOut(r) ==
  [r EXCEPT !.begun = FALSE, !.timedOut = IF AtBox(r) THEN r.at ELSE 0, !.at = @ + 1,
            !.doing = IF r.doing = "box" THEN "closed" ELSE "late"]
TimesOut(c) ==
  /\ InPlay(play, c) /\ (AtBox(play.scr[c]) \/ AtText(play.scr[c]))
  /\ LET closed == [play EXCEPT !.scr[c] = TimedOut(@)]
     IN play' = IF AtBox(play.scr[c]) THEN closed ELSE ReleaseHeld(closed, Cast)
  /\ UNCHANGED <<clock, Onstage>>

DefaultText(c) ==
  /\ Doing(c, "closed") /\ play.scr[c].timedOut = 0
  /\ play' = Walk([play EXCEPT
       !.reg = IF play.scr[c].lost THEN @ ELSE TypedOn(@, play.scr[c].at - 1),
       !.scr[c].doing = "reading"], Cast)
  /\ Touch(c) /\ UNCHANGED Onstage

Defaults(c, way) ==
  /\ Doing(c, "closed") /\ play.scr[c].timedOut # 0 /\ MayChoose(c, way)
  /\ play' = Settle([play EXCEPT !.reg = Chose(c, way), !.scr[c].doing = "reading"],
                    Cast, c)
  /\ Touch(c) /\ UNCHANGED Onstage

AnswersLate(c) ==                            \* Follower.chose, not on a box
  /\ Doing(c, "late")
  /\ play' = [play EXCEPT !.scr[c].doing = "reading", !.scr[c].lost = TRUE]
  /\ Touch(c) /\ UNCHANGED Onstage

(***************************************************************************)
(* Leaving the play: _script_retire.                                       *)
(***************************************************************************)
(* proxynpc.stand_in: the script's understudy or the first who is free; a   *)
(* roster with fewer stand-ins than roles is left out (NpcsAssumption).     *)
Understudy(cast) == CHOOSE n \in Npcs : ~InCast(cast, n)
StandsIn(c, n) ==
  [i \in DOMAIN Cast |->
     IF Cast[i].who = c THEN [Cast[i] EXCEPT !.who = n, !.npc = TRUE, !.ready = TRUE]
     ELSE Cast[i]]
Adopted(r) ==
  IF r.lost THEN None
  ELSE [Cursor EXCEPT !.at = r.at, !.blocked = AtSync(r), !.book = r.book, !.own = r.own]

Retires(c) ==
  /\ LET role == ActorOf(c).role
         n == Understudy(Cast)
         cast == StandsIn(c, n)
         left == [play EXCEPT !.scr[c] = Offstage, !.cur[role] = Adopted(play.scr[c])]
         on == Unblock(WalkAndRelease(left, cast), cast)
     IN /\ party' = IF MembersOf(cast) = {} THEN None ELSE [party EXCEPT !.cast = cast]
        /\ play' = Dropped(party', on)
        /\ IF party' = None THEN List(None) ELSE UNCHANGED listed
        /\ Tell(Members \intersect online,
                [Seated(<<role, n, TRUE>>) EXCEPT ![c] = None])
  /\ clock' = clock \ {c}

Retire(c) ==
  /\ InPlay(play, c) /\ c \in Members
  /\ Retires(c) /\ UNCHANGED <<online, browsing>>

(* _drain_script_idle: the five minutes, which stop at a rendezvous.       *)
IdleRetire(c) ==
  /\ c \in clock /\ InPlay(play, c) /\ c \in Members
  /\ Others(Cast, c) # {} /\ ~AtSync(play.scr[c])
  /\ Retires(c) /\ UNCHANGED <<online, browsing>>

(* _drama_disconnect_retire, _drama_party_gone.                            *)
Gone(c) ==
  /\ IF c \in Members
     THEN /\ Leave(c)
          /\ LET left == Dropped(party', [play EXCEPT !.scr[c] = Offstage])
             IN play' = IF party' = None THEN left ELSE ReleaseHeld(left, party'.cast)
          /\ listed' = [d \in Chara |-> IF d \notin browsing \ {c} \/ party' = None
                                        THEN None ELSE Row(party')]
     ELSE /\ listed' = [listed EXCEPT ![c] = None]
          /\ UNCHANGED <<party, play, shown>>
  /\ clock' = clock \ {c}
Disconnect(c) ==
  /\ c \in online
  /\ IF InPlay(play, c) /\ c \in Members /\ party.state = "running"
        /\ Others(Cast, c) # {}
     THEN Retires(c)
     ELSE Gone(c)
  /\ online' = online \ {c} /\ browsing' = browsing \ {c}

Init ==
  /\ online = Chara /\ browsing = {} /\ party = None /\ clock = {}
  /\ play = [scr |-> [c \in Chara |-> Offstage], cur |-> NoCursors, reg |-> NoRegisters]
  /\ shown = [c \in Chara |-> None] /\ listed = [c \in Chara |-> None]

Matching(c) ==
  \/ Log(c) \/ MatchingStart(c) \/ MatchingEnd(c) \/ Part(c) \/ Start(c)
  \/ \E role \in Roles : Create(c, role) \/ Join(c, role)
                         \/ \E n \in Npcs : Surrogate(c, role, n)
  \/ \E prepare \in BOOLEAN : Ready(c, prepare)
  \/ \E who \in Chara \union Npcs : Kick(c, who)
Reports(c) ==
  \/ ReadyOk(c) \/ OpensBox(c) \/ OpensText(c) \/ PassesBox(c) \/ Passes(c) \/ Arrives(c) \/ Branches(c)
  \/ Finishes(c) \/ Presses(c) \/ Types(c) \/ DefaultText(c) \/ AnswersLate(c)
  \/ \E way \in Choices01 : Answers(c, way) \/ Defaults(c, way)
Leaves(c) == ReadyNo(c) \/ TimesOut(c) \/ Disconnect(c) \/ Retire(c)

Next == \E c \in Chara : Matching(c) \/ Reports(c) \/ Leaves(c) \/ IdleRetire(c)

(* A member who is not waiting for the server goes on, or the five minutes *)
(* end: nobody keeps winding the clock for ever without playing.  This is  *)
(* weak fairness of Reports(c) \/ IdleRetire(c), with what enables them said.   *)
CanGoOn(c) == InPlay(play, c) /\ play.scr[c].doing # "waits"
Fairness ==
  \A c \in Chara : []<>~CanGoOn(c) \/ []<><<Reports(c) \/ IdleRetire(c)>>_vars
Spec == Init /\ [][Next]_vars /\ Fairness

(***************************************************************************)
(* Properties.                                                             *)
(***************************************************************************)
TypeOK ==
  /\ browsing \subseteq online /\ clock \subseteq online /\ online \subseteq Chara
  /\ party # None =>
       /\ party.state \in {"recruiting", "running"}
       /\ Members # {} /\ Members \subseteq online
       /\ \A i, j \in DOMAIN Cast :
            i # j => Cast[i].role # Cast[j].role /\ Cast[i].who # Cast[j].who
  /\ \A c \in Chara : InPlay(play, c) =>
       /\ c \in Members /\ ActorOf(c).role = play.scr[c].role
       /\ play.scr[c].at \in DOMAIN Scene

(* What a branch reads is the same for everybody: two members the server   *)
(* still follows take the same roads, however their choices, time limits   *)
(* and reports cross, and whoever left the play in between.                *)
OneRoad ==
  \A c, d \in Stage(play, Cast) :
    LET r == play.scr[c]  s == play.scr[d]
    IN ~r.lost /\ ~s.lost => IsPrefix(r.road, s.road) \/ IsPrefix(s.road, r.road)

(* Nobody is kept waiting for what has already come about: when a barrier  *)
(* is shut some member is still short of it, and a branch that is held     *)
(* waits for a choice still to be made, or for the next report of someone  *)
(* whose box was closed on them.                                           *)
WaitsForSomebody ==
  /\ \A c \in Stage(play, Cast) : AtSync(play.scr[c]) => ~AllArrived(play, Cast)
  /\ \A c \in Stage(play, Cast) :
       LET r == play.scr[c]
       IN r.held => \/ Fenced(play, Cast, r.book, r.role, r.at)
                    \/ \E d \in Stage(play, Cast) : play.scr[d].timedOut # 0

(* Every member's client draws the party as it is (who plays what, who is  *)
(* ready, who leads), and every matching screen the row of the list.       *)
RoomsAreShown ==
  /\ TypeOK
  /\ \A c \in Members : shown[c] = Room(party)
  /\ \A c \in browsing : listed[c] = IF party = None THEN None ELSE Row(party)

(* A member who waits at a barrier or a held branch goes on in the end.    *)
NobodyWaitsForEver ==
  \A c \in Chara : Doing(c, "waits") ~> ~Doing(c, "waits")
=============================================================================
