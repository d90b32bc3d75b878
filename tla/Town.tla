------------------------------- MODULE Town -------------------------------
(***************************************************************************)
(* What the people on one server see of each other: who stands on which    *)
(* map, the icon over each head, and the three things a player can put up  *)
(* for others to come to -- a training room, a chat room and a notice      *)
(* board.  mps_session.py holds the handlers, trainingroom.py, chatroom.py *)
(* and billboard.py the three boards.                                      *)
(*                                                                         *)
(* Every handler runs to its end without an await, and everything it       *)
(* pushes reaches a client in the order it was pushed; so one action is one *)
(* handler and the clients' screens move with it.  The exception is a      *)
(* character's own icon, which waits in `owed` (icon_due) for that         *)
(* connection's next drain.  A fight and a lesson are here only as the     *)
(* screens that take the map away: ClubBattle and SchoolBell are about     *)
(* what happens inside them.                                               *)
(***************************************************************************)
EXTENDS Integers, Sequences, FiniteSets

CONSTANTS
  Players,
  Maps,
  Homes,       \* the maps people log in on
  Limit,       \* the head count a room is opened with
  TeamMax,     \* TEAM_MAX: the most one side of a training room takes
  Walkers,     \* who goes through doors
  Pupils,      \* who goes to lessons
  Readers,     \* who opens a locker or the newspaper
  Signers,     \* who puts a notice board up
  Chatters,    \* who uses chat rooms
  Switchers,   \* who changes sides in a training room
  Droppers,    \* whose connection may go
  MayReturn,   \* whether somebody may log in again while a fight they left is on
  Nowhere

ASSUME TownAssumption ==
  /\ Walkers \subseteq Players /\ Pupils \subseteq Players
  /\ Readers \subseteq Players /\ Droppers \subseteq Players
  /\ Signers \subseteq Players /\ Chatters \subseteq Players
  /\ Switchers \subseteq Players
  /\ Limit \in Nat /\ TeamMax \in Nat \ {0} /\ Limit <= 2 * TeamMax
  /\ MayReturn \in BOOLEAN
  /\ Homes \subseteq Maps /\ Nowhere \notin Maps

VARIABLES
  place,      \* session.map_id, or Nowhere when no character is logged in
  lesson,     \* the characters whose session.lesson is set
  fights,     \* BattleBoard.battles: everybody of a fight, and who is gone
  training,   \* trainingrooms.rooms, by the leader's id
  chats,      \* chatrooms.rooms, by the owner's id
  signs,      \* billboards.signs
  reading,    \* locker_open or newspaper_open
  owed,       \* session.icon_due
  screen,     \* what the client has up
  drawn,      \* the icon the client draws over each character of its scene
  roster,     \* the rows of the training room window the client has open
  seats,      \* the names in the chat room window the client has open
  inherited   \* who was left a training room by a leader that went away

boards == <<training, chats, signs>>
windows == <<roster, seats>>
vars == <<place, lesson, fights, training, chats, signs, reading, owed, screen,
          drawn, roster, seats, inherited>>

Absent == "absent"
NoIcon == "none"
Icons == {"lesson", "fight", "training", "chat", "sign", "talking", "reading", NoIcon}
NoRoom == [members |-> <<>>, ready |-> {}, sideA |-> {}]

Ids(room) == {room.members[i] : i \in DOMAIN room.members}

(* The rooms of one board, as sets of characters.                          *)
TrainingRoomOf(c) == {l \in Players : c \in Ids(training[l])}
ChatSeats(o) == {chats[o][i] : i \in DOMAIN chats[o]}
ChatRoomOf(c) == {o \in Players : c \in ChatSeats(o)}
InFight(c) == \E f \in fights : c \in f.all

-----------------------------------------------------------------------------
(* Presence.                                                               *)

(* The icon over a head.  Leading, not merely sitting in, a training room   *)
(* is what shows; sitting in a chat room shows as talking.                 *)
Action(c) ==
  IF c \in lesson THEN "lesson"
  ELSE IF InFight(c) THEN "fight"
  ELSE IF training[c].members # <<>> THEN "training"
  ELSE IF chats[c] # <<>> THEN "chat"
  ELSE IF c \in signs THEN "sign"
  ELSE IF ChatRoomOf(c) # {} THEN "talking"
  ELSE IF c \in reading THEN "reading" ELSE NoIcon

BoardBusy(c) == Action(c) # NoIcon

Peers(c) == {q \in Players \ {c} : place[q] # Nowhere /\ place[q] = place[c]}

(* The clients the server knows to have another screen up.                 *)
Hidden(c) == c \in lesson \/ InFight(c)
Blocked == {c \in Players : Hidden(c)}

(* What q draws for c once the icons of `who` went to everybody but `skip`. *)
DrawnBy(q, c, who, skip) ==
  IF c \in who /\ drawn[q][c] # Absent /\ q \notin skip
     /\ screen'[q] = "map" /\ place'[q] = place'[c]
    THEN Action(c)'
    ELSE drawn[q][c]

OwedTo(c, who, skip) ==
  IF c \in who /\ c \notin skip /\ ~Hidden(c)' THEN Action(c)' ELSE owed[c]

(* _presence_icon over the new state, in a handler of p's connection: the   *)
(* icons of `who` go to their peers outside `skip`, each subject's own copy *)
(* is left for its drain, and p's drain follows p's handler.  A client off  *)
(* the map has no scene to draw in.                                        *)
ShowIcons(p, who, skip) ==
  /\ owed' = [c \in Players |-> IF c = p THEN Absent ELSE OwedTo(c, who, skip)]
  /\ drawn' = [q \in Players |-> [c \in Players |->
       IF screen'[q] # "map" THEN Absent
       ELSE IF c # q THEN DrawnBy(q, c, who, skip)
       ELSE IF q = p /\ OwedTo(q, who, skip) # Absent THEN OwedTo(q, who, skip)
       ELSE drawn[q][q]]]
  /\ inherited' = inherited \ who

(* _presence_icon_onlookers: nobody the server knows to be elsewhere.      *)
ShowOnlookers(p, who) == ShowIcons(p, who, Blocked')

(* _presence_withdraw: c is deleted from the scenes of `watchers`.         *)
Withdraw(c, watchers) ==
  drawn' = [q \in Players |->
              IF q = c THEN [x \in Players |-> Absent]
              ELSE IF q \in watchers THEN [drawn[q] EXCEPT ![c] = Absent]
              ELSE drawn[q]]

-----------------------------------------------------------------------------
(* The three boards.                                                       *)

(* A list of members once those in `gone` are off it, in its order.        *)
Rest(s, gone) ==
  LET kept[i \in 0..Len(s)] ==
        IF i = 0 THEN <<>>
        ELSE IF s[i] \in gone THEN kept[i - 1] ELSE Append(kept[i - 1], s[i])
  IN  kept[Len(s)]

(* Who leads what is left of l's room: whoever came first among them once   *)
(* the leader is one of those who go.                                      *)
HeirOf(l, members, gone) == IF l \in gone THEN Head(Rest(members, gone)) ELSE l

PartRoom(room, gone) == [members |-> Rest(room.members, gone),
                         ready |-> room.ready \ gone, sideA |-> room.sideA \ gone]

(* Board.part of every character in `gone`: an emptied room comes down, one *)
(* that lost its leader is filed again under the new one.                  *)
PartTraining(gone) ==
  [k \in Players |->
     LET from == {l \in Players : /\ Rest(training[l].members, gone) # <<>>
                                  /\ HeirOf(l, training[l].members, gone) = k}
     IN IF from = {} THEN NoRoom
        ELSE PartRoom(training[CHOOSE l \in from : TRUE], gone)]

PartChat(gone) ==
  [k \in Players |->
     LET from == {o \in Players : /\ Rest(chats[o], gone) # <<>>
                                  /\ HeirOf(o, chats[o], gone) = k}
     IN IF from = {} THEN <<>> ELSE Rest(chats[CHOOSE o \in from : TRUE], gone)]

(* The leaders a room gets when `gone` leave.                              *)
Promoted(before, after) == {k \in Players : after[k] /\ ~before[k]}
NewLeaders == Promoted([k \in Players |-> training[k].members # <<>>],
                       [k \in Players |-> training'[k].members # <<>>])
(* Variant: nobody hears of the new owner.                                 *)
OwnersUntold == {}
NewOwners == Promoted([k \in Players |-> chats[k] # <<>>],
                      [k \in Players |-> chats'[k] # <<>>])

Row(room, c) == <<c, c \in room.sideA, c \in room.ready>>
Rows(room) == {Row(room, c) : c \in Ids(room)}

(* A row taken off, or replaced, in every window of the room.              *)
WithoutRow(rows, c) == {r \in rows : r[1] # c}

-----------------------------------------------------------------------------
(* Coming, going and walking about.                                        *)

Login(p, m) ==
  /\ place[p] = Nowhere
  /\ MayReturn \/ ~InFight(p)
  /\ place' = [place EXCEPT ![p] = m]
  /\ screen' = [screen EXCEPT ![p] = "loading"]
  /\ UNCHANGED <<lesson, fights, boards, reading, owed, drawn, windows, inherited>>

(* 0x4000: the scene is built from the session's own entry and its peers',  *)
(* then the peers are told of the newcomer.                                *)
Enter(p) ==
  /\ place[p] # Nowhere /\ screen[p] = "loading"
  /\ screen' = [screen EXCEPT ![p] = "map"]
  /\ owed' = [owed EXCEPT ![p] = Absent]
  /\ drawn' = [q \in Players |->
       IF q = p
         THEN [c \in Players |->
                 IF c = p THEN (IF owed[p] # Absent THEN owed[p] ELSE Action(p))
                 ELSE IF c \in Peers(p) THEN Action(c) ELSE Absent]
         ELSE IF q \in Peers(p) /\ screen[q] = "map"
                THEN [drawn[q] EXCEPT ![p] = Action(p)]
         ELSE drawn[q]]
  /\ UNCHANGED <<place, lesson, fights, boards, reading, windows, inherited>>

(* 0x4800: the old map is told before map_id changes.                      *)
Warp(p, m) ==
  /\ p \in Walkers /\ screen[p] = "map" /\ place[p] # m
  /\ Withdraw(p, Peers(p))
  /\ place' = [place EXCEPT ![p] = m]
  /\ screen' = [screen EXCEPT ![p] = "loading"]
  /\ owed' = [owed EXCEPT ![p] = Absent]
  /\ UNCHANGED <<lesson, fights, boards, reading, windows, inherited>>

(* A drain of p's connection that no packet of p's caused.                 *)
Drain(p) ==
  /\ owed[p] # Absent
  /\ owed' = [owed EXCEPT ![p] = Absent]
  /\ drawn' = IF screen[p] = "map" THEN [drawn EXCEPT ![p][p] = owed[p]] ELSE drawn
  /\ UNCHANGED <<place, lesson, fights, boards, reading, screen, windows, inherited>>

(* Variant: one lost connection takes the fight off the board.             *)
FightsClosedBy(p) == {f \in fights : p \notin f.all}

(* The fights once p is marked gone: one with nobody left is taken down.   *)
FightsWithout(p) ==
  {f \in {[f EXCEPT !.gone = @ \cup ({p} \cap f.all)] : f \in fights} : f.gone # f.all}

(* The bodies of the two windows' notices when p leaves both rooms.        *)
RosterWithout(p) == [q \in Players |-> IF q = p THEN {} ELSE WithoutRow(roster[q], p)]
SeatsWithout(p) == [q \in Players |-> IF q = p THEN {} ELSE seats[q] \ {p}]

(* What a logout takes down, and a lost connection after it: fight, lesson, *)
(* map, training room, chat room and notice board, in that order.  A new   *)
(* chat room owner's icon is shown, a new training room leader's is not.   *)
Gone(p) ==
  /\ place[p] # Nowhere
  /\ fights' = FightsWithout(p)
  /\ lesson' = lesson \ {p}
  /\ training' = PartTraining({p})
  /\ chats' = PartChat({p})
  /\ signs' = signs \ {p}
  /\ reading' = reading \ {p}
  /\ roster' = RosterWithout(p)
  /\ seats' = SeatsWithout(p)
  /\ place' = [place EXCEPT ![p] = Nowhere]
  /\ screen' = [screen EXCEPT ![p] = "off"]
  /\ owed' = [c \in Players |-> IF c = p THEN Absent ELSE OwedTo(c, NewOwners, Blocked')]
  /\ drawn' = [q \in Players |-> [c \in Players |->
                 IF q = p \/ c = p THEN Absent
                 ELSE IF c = q THEN drawn[q][q]
                 ELSE DrawnBy(q, c, NewOwners, Blocked')]]
  /\ inherited' = ((inherited \ NewOwners) \cup NewLeaders) \ {p}

Leave(p) == p \in Droppers /\ Gone(p)

-----------------------------------------------------------------------------
(* The training room.  A request is made from the map.                     *)

OnMap(p) == place[p] # Nowhere /\ screen[p] = "map"
still == <<place, lesson, fights, reading, screen>>

TrainingAdd(p) ==
  /\ OnMap(p) /\ TrainingRoomOf(p) = {} /\ ~BoardBusy(p)
  /\ training' = [training EXCEPT ![p] = [members |-> <<p>>, ready |-> {}, sideA |-> {p}]]
  /\ roster' = [roster EXCEPT ![p] = Rows(training'[p])]
  /\ UNCHANGED <<still, chats, signs, seats>>
  /\ ShowOnlookers(p, {p})

(* Room.smaller_team: a joiner evens the sides.                            *)
JoinsSideA(room) ==
  Cardinality(room.sideA) <= Cardinality(Ids(room) \ room.sideA)

Seated(room, p) ==
  [room EXCEPT !.members = Append(@, p),
               !.sideA = IF JoinsSideA(room) THEN @ \cup {p} ELSE @]

(* _tr_seat: the joiner is sent everybody, the others the joiner's row.     *)
RosterSeated(l, p) ==
  roster' = [q \in Players |->
    IF q = p THEN Rows(training'[l])
    ELSE IF q \in Ids(training[l]) THEN roster[q] \cup {Row(training'[l], p)}
    ELSE roster[q]]

(* Variant: a room can be joined while its members fight.                  *)
TrainingJoinMidFight(p, l) ==
  /\ OnMap(p) /\ TrainingRoomOf(p) = {}
  /\ training[l].members # <<>> /\ Len(training[l].members) < Limit
  /\ training' = [training EXCEPT ![l] = Seated(@, p)]
  /\ RosterSeated(l, p)
  /\ UNCHANGED <<still, chats, signs, seats>>
  /\ ShowIcons(p, {}, {})

(* 0x5806.  Neither a chat room nor a notice board keeps a joiner out; a    *)
(* fight of any member does.                                               *)
TrainingJoin(p, l) ==
  /\ OnMap(p) /\ TrainingRoomOf(p) = {}
  /\ training[l].members # <<>>
  /\ Len(training[l].members) < Limit
  /\ \A c \in Ids(training[l]) : ~InFight(c)
  /\ training' = [training EXCEPT ![l] = Seated(@, p)]
  /\ RosterSeated(l, p)
  /\ UNCHANGED <<still, chats, signs, seats>>
  /\ ShowIcons(p, {}, {})

TrainingPart(p) ==
  /\ OnMap(p) /\ TrainingRoomOf(p) # {}
  /\ training' = PartTraining({p})
  /\ roster' = RosterWithout(p)
  /\ UNCHANGED <<still, chats, signs, seats>>
  /\ ShowOnlookers(p, {p} \cup NewLeaders)

(* A row said again to everybody in the room, its subject included.        *)
RowSaid(l, p) ==
  roster' = [q \in Players |->
    IF q \in Ids(training[l])
      THEN WithoutRow(roster[q], p) \cup {Row(training'[l], p)} ELSE roster[q]]

(* The leader's button is another one.                                     *)
TrainingReady(p, on) ==
  /\ OnMap(p)
  /\ \E l \in TrainingRoomOf(p) \ {p} :
       /\ training' = [training EXCEPT ![l].ready = IF on THEN @ \cup {p} ELSE @ \ {p}]
       /\ RowSaid(l, p)
  /\ UNCHANGED <<still, chats, signs, seats>>
  /\ ShowIcons(p, {}, {})

Side(room, a) == IF a THEN room.sideA ELSE Ids(room) \ room.sideA

TrainingTeam(p, a) ==
  /\ OnMap(p) /\ p \in Switchers
  /\ \E l \in TrainingRoomOf(p) :
       /\ p \in Side(training[l], a) \/ Cardinality(Side(training[l], a)) < TeamMax
       /\ training' = [training EXCEPT ![l].sideA = IF a THEN @ \cup {p} ELSE @ \ {p}]
       /\ RowSaid(l, p)
  /\ UNCHANGED <<still, chats, signs, seats>>
  /\ ShowIcons(p, {}, {})

(* 0x5816: only the leader, never itself.                                  *)
TrainingKick(p, c) ==
  /\ OnMap(p) /\ c # p /\ c \in Ids(training[p])
  /\ training' = PartTraining({c})
  /\ roster' = RosterWithout(c)
  /\ UNCHANGED <<still, chats, signs, seats>>
  /\ ShowIcons(p, {}, {})

(* The leader is not waited for.                                           *)
AllReady(room, l) == Ids(room) \ {l} \subseteq room.ready

(* BattleBoard.open: whatever fight one of them is still in is closed.      *)
OpenFight(all) ==
  {f \in fights : f.all \cap all = {}} \cup {[all |-> all, gone |-> {}]}

(* 0x5818: the room becomes a fight, and its clients take the map down.    *)
TrainingStart(p) ==
  /\ OnMap(p) /\ training[p].members # <<>>
  /\ AllReady(training[p], p)
  /\ LET all == Ids(training[p]) IN
       /\ fights' = OpenFight(all)
       /\ screen' = [q \in Players |-> IF q \in all THEN "fight" ELSE screen[q]]
       /\ UNCHANGED <<place, lesson, reading, boards, windows>>
       /\ ShowIcons(p, all, Blocked' \cup all)

(* The end of a fight: it leaves the board, every fighter leaves its room   *)
(* without a word, and the icons go round to everybody but the fighters --  *)
(* whose clients close their own windows and will ask for the map again.   *)
(* Every fighter who is still there has readied and reported a turn since   *)
(* it began, and a drain followed each of those packets.                    *)
FightEnds(f) ==
  /\ \A q \in f.all \ f.gone : owed[q] = Absent
  /\ fights' = fights \ {f}
  /\ training' = PartTraining(f.all)
  /\ screen' = [q \in Players |->
       IF q \in f.all /\ screen[q] = "fight" THEN "loading" ELSE screen[q]]
  /\ roster' = [q \in Players |->
       IF q \in f.all /\ screen[q] = "fight" THEN {} ELSE roster[q]]
  /\ UNCHANGED <<place, lesson, reading, chats, signs, seats>>
  /\ \E p \in f.all \ f.gone :
       ShowIcons(p, {c \in f.all : TrainingRoomOf(c) # {}} \cup NewLeaders, f.all)

-----------------------------------------------------------------------------
(* The chat room and the notice board.                                     *)

BusyElsewhere(p) == TrainingRoomOf(p) # {} \/ p \in signs

ChatAdd(p) ==
  /\ OnMap(p) /\ p \in Chatters /\ ChatRoomOf(p) = {} /\ ~BusyElsewhere(p)
  /\ ~BoardBusy(p)
  /\ chats' = [chats EXCEPT ![p] = <<p>>]
  /\ seats' = [seats EXCEPT ![p] = {p}]
  /\ UNCHANGED <<still, training, signs, roster>>
  /\ ShowOnlookers(p, {p})

(* _cr_seat: like _tr_seat.                                                *)
ChatSeated(o, p) ==
  seats' = [q \in Players |->
    IF q = p THEN ChatSeats(o) \cup {p}
    ELSE IF q \in ChatSeats(o) THEN seats[q] \cup {p} ELSE seats[q]]

ChatJoin(p, o) ==
  /\ OnMap(p) /\ p \in Chatters /\ ChatRoomOf(p) = {} /\ ~BusyElsewhere(p)
  /\ chats[o] # <<>> /\ Len(chats[o]) < Limit
  /\ chats' = [chats EXCEPT ![o] = Append(@, p)]
  /\ ChatSeated(o, p)
  /\ UNCHANGED <<still, training, signs, roster>>
  /\ ShowOnlookers(p, {p})

ChatPart(p) ==
  /\ OnMap(p) /\ ChatRoomOf(p) # {}
  /\ chats' = PartChat({p})
  /\ seats' = SeatsWithout(p)
  /\ UNCHANGED <<still, training, signs, roster>>
  /\ ShowOnlookers(p, {p} \cup NewOwners)

SignUp(p) ==
  /\ OnMap(p) /\ p \in Signers \ signs
  /\ TrainingRoomOf(p) = {} /\ ChatRoomOf(p) = {} /\ ~BoardBusy(p)
  /\ signs' = signs \cup {p}
  /\ UNCHANGED <<still, training, chats, windows>>
  /\ ShowOnlookers(p, {p})

SignDown(p) ==
  /\ OnMap(p) /\ p \in signs
  /\ signs' = signs \ {p}
  /\ UNCHANGED <<still, training, chats, windows>>
  /\ ShowOnlookers(p, {p})

(* A locker or the newspaper, opened or closed.                            *)
Read(p, open) ==
  /\ OnMap(p) /\ p \in Readers
  /\ reading' = IF open THEN reading \cup {p} ELSE reading \ {p}
  /\ UNCHANGED <<place, lesson, fights, screen, boards, windows>>
  /\ ShowOnlookers(p, {p})

(* A lesson: the windows of the map close with it, the rooms do not.       *)
Attend(p) ==
  /\ OnMap(p) /\ p \in Pupils /\ ~Hidden(p)
  /\ lesson' = lesson \cup {p}
  /\ reading' = reading \ {p}
  /\ screen' = [screen EXCEPT ![p] = "lesson"]
  /\ UNCHANGED <<place, fights, boards, windows>>
  /\ ShowOnlookers(p, {p})

(* The lesson is over for everybody in it, on the connection of one of     *)
(* them; the campus is loaded again.                                       *)
LessonEnds ==
  /\ lesson # {}
  /\ lesson' = {}
  /\ screen' = [q \in Players |-> IF q \in lesson /\ screen[q] # "fight" THEN "loading" ELSE screen[q]]
  /\ UNCHANGED <<place, fights, reading, boards, windows>>
  /\ \E p \in lesson : ShowOnlookers(p, lesson)

-----------------------------------------------------------------------------
Init ==
  /\ place = [p \in Players |-> Nowhere]
  /\ lesson = {} /\ fights = {}
  /\ training = [p \in Players |-> NoRoom]
  /\ chats = [p \in Players |-> <<>>]
  /\ signs = {} /\ reading = {}
  /\ owed = [p \in Players |-> Absent]
  /\ screen = [p \in Players |-> "off"]
  /\ drawn = [p \in Players |-> [c \in Players |-> Absent]]
  /\ roster = [p \in Players |-> {}]
  /\ seats = [p \in Players |-> {}]
  /\ inherited = {}

Next ==
  \/ \E p \in Players, m \in Homes : Login(p, m)
  \/ \E p \in Players, m \in Maps : Warp(p, m)
  \/ \E p \in Players : Enter(p)
  \/ \E p \in Players : Drain(p)
  \/ \E p \in Players : Leave(p)
  \/ \E p \in Players : TrainingAdd(p)
  \/ \E p, l \in Players : TrainingJoin(p, l)
  \/ \E p \in Players : TrainingPart(p)
  \/ \E p \in Players, on \in BOOLEAN : TrainingReady(p, on)
  \/ \E p \in Players, a \in BOOLEAN : TrainingTeam(p, a)
  \/ \E p, c \in Players : TrainingKick(p, c)
  \/ \E p \in Players : TrainingStart(p)
  \/ \E f \in fights : FightEnds(f)
  \/ \E p \in Players : ChatAdd(p)
  \/ \E p, o \in Players : ChatJoin(p, o)
  \/ \E p \in Players : ChatPart(p)
  \/ \E p \in Players : SignUp(p)
  \/ \E p \in Players : SignDown(p)
  \/ \E p \in Players, open \in BOOLEAN : Read(p, open)
  \/ \E p \in Players : Attend(p)
  \/ LessonEnds

Spec == Init /\ [][Next]_vars

-----------------------------------------------------------------------------
RoomType == [members : Seq(Players), ready : SUBSET Players, sideA : SUBSET Players]

(* Every variable keeps its type; a room's ready marks and sides are its     *)
(* members'.  Room.remove and Board.part of trainingroom.py.                *)
TypeOK ==
  /\ place \in [Players -> Maps \cup {Nowhere}]
  /\ lesson \subseteq Players /\ signs \subseteq Players /\ reading \subseteq Players
  /\ fights \subseteq [all : SUBSET Players, gone : SUBSET Players]
  /\ training \in [Players -> RoomType]
  /\ \A l \in Players : training[l].ready \cup training[l].sideA \subseteq Ids(training[l])
  /\ chats \in [Players -> Seq(Players)]
  /\ owed \in [Players -> Icons \cup {Absent}]
  /\ screen \in [Players -> {"off", "map", "loading", "lesson", "fight"}]
  /\ drawn \in [Players -> [Players -> Icons \cup {Absent}]]
  /\ roster \in [Players -> SUBSET (Players \X BOOLEAN \X BOOLEAN)]
  /\ seats \in [Players -> SUBSET Players]
  /\ inherited \subseteq Players

Looking(q) == screen[q] = "map" /\ ~Hidden(q)

(* Nobody's scene shows somebody who is not on that map, nobody who is      *)
(* there is missing from it, and the icon over every other head -- the only *)
(* door into a room -- and over one's own, which closes the board window,   *)
(* is the true one or on its way.  A leader a lost connection promoted is   *)
(* the exception: TownDoor is about that.  _presence_icon, _presence_blocked, *)
(* the 0x4000 branch and every handler that moves an icon.                  *)
IconsAreTrue ==
  LET icon == [c \in Players |-> Action(c)] IN
  \A q \in Players : Looking(q) =>
    /\ \A c \in Players \ {q} :
         IF place[c] = place[q]
           THEN \/ drawn[q][c] = icon[c]
                \/ c \in inherited
                \/ drawn[q][c] = Absent /\ screen[c] # "map"
           ELSE drawn[q][c] = Absent
    /\ \/ q \in inherited
       \/ owed[q] = Absent /\ drawn[q][q] = icon[q]
       \/ owed[q] = icon[q]

(* The icon over the head of whoever leads a training room shows it to      *)
(* everybody on the map: it is the only way in.  trainingroom.Board.part    *)
(* and the callers that put up the new leader's icon.                       *)
DoorsAreShown ==
  \A q \in Players, l \in Players :
    (Looking(q) /\ l \in Peers(q) /\ drawn[q][l] # Absent
     /\ Action(l) = "training") => drawn[q][l] = "training"

(* A room can always be found: it is filed under a member of its own who is *)
(* logged in, nobody sits in two rooms of one kind, and nobody who is not   *)
(* logged in keeps a seat or a sign.  Board.part's promotion, the two       *)
(* join_refusal tests and the road out of the session.                      *)
RoomsCanBeFound ==
  /\ \A l \in Players : training[l].members # <<>> => l \in Ids(training[l])
  /\ \A o \in Players : chats[o] # <<>> => o \in ChatSeats(o)
  /\ \A c \in Players : /\ Cardinality(TrainingRoomOf(c)) <= 1
                        /\ Cardinality(ChatRoomOf(c)) <= 1
                        /\ (TrainingRoomOf(c) # {} \/ ChatRoomOf(c) # {} \/ c \in signs)
                             => place[c] # Nowhere

(* The windows the players look at are the rooms: the same people, on the   *)
(* same sides, equally ready -- and nobody is in a room without a window    *)
(* for it.  A fight that ends leaves nobody behind in the room it came from. *)
WindowsAreRooms ==
  \A c \in Players :
    /\ seats[c] = UNION {ChatSeats(o) : o \in ChatRoomOf(c)}
    /\ roster[c] = UNION {Rows(training[l]) : l \in TrainingRoomOf(c)}

(* Neither side of a room outgrows TEAM_MAX, whichever order its members    *)
(* came, changed sides and left in: a fight has that many places a side.    *)
SidesFit ==
  \A l \in Players, a \in BOOLEAN : Cardinality(Side(training[l], a)) <= TeamMax

(* Whoever has the battle screen up is in a fight that is still on the      *)
(* board, and counted among those present: a fight taken off the board can  *)
(* reach no ending any more.  BattleBoard.open, leave and close.           *)
FightsAreFought ==
  \A p \in Players : screen[p] = "fight" => \E f \in fights : p \in f.all \ f.gone

(* Rooms and their windows are one thing, for whoever sits in them.        *)
RoomsAreOne == TypeOK /\ RoomsCanBeFound /\ WindowsAreRooms

(* A fight starts with sides that fit it and keeps whoever is in it.       *)
FightsAreFair == SidesFit /\ FightsAreFought
=============================================================================
