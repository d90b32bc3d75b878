--------------------------- MODULE BelongingsProofs ---------------------------
(***************************************************************************)
(* Two halves, both about what characters own.                             *)
(*                                                                         *)
(* Trade: why a trade is mutual, one application at a time is open, both   *)
(* sides of a trade settle together, and what changes hands is what was    *)
(* shown, for any number of characters, maps and items.                    *)
(*                                                                         *)
(* Registry: why the books are kept, no charaId is handed out twice and    *)
(* everybody at school wears what they are drawn with, for any accounts,   *)
(* ids and items, as long as a dying process never tears charas.json.      *)
(***************************************************************************)
EXTENDS Trade, Registry, SequenceTheorems, TLAPS

(* A message is on its way only from a connection that is up.              *)
OnlyPlayersPress == \A c \in Chara : place[c] = Away => press[c] = "none"

(* Each part leans on another: that a character in a trade has no open     *)
(* application (OneApplication) is what lets accepting one keep trades     *)
(* mutual, and that trades are mutual is what lets settling, readying and  *)
(* clearing two tables at a time keep them in step.                        *)
TradeInv ==
  /\ TypeOK
  /\ TradeIsMutual
  /\ OneApplication
  /\ SettledTogether
  /\ WornIsHeld
  /\ OnlyPlayersPress

-----------------------------------------------------------------------------
(* What the operations of a bag preserve: counts stay within a row, and    *)
(* what is worn is held.                                                   *)
Sound(b) == \A i \in b.worn : b.held[i] > 0

LEMMA TakeKeeps ==
  ASSUME NEW b \in Bag, NEW i \in Item, NEW n \in 1..RowMax, CanTake(b, i, n)
  PROVE  /\ Take(b, i, n) \in Bag
         /\ Sound(b) => Sound(Take(b, i, n))
<1>1. Take(b, i, n) \in Bag
  BY RowMaxAssumption DEF Take, CanTake, Bag
<1>2. ASSUME Sound(b), NEW j \in Take(b, i, n).worn
      PROVE  Take(b, i, n).held[j] > 0
  BY <1>2, RowMaxAssumption DEF Take, CanTake, Bag, Sound
<1> QED BY <1>1, <1>2 DEF Sound

LEMMA ReceiveKeeps ==
  ASSUME NEW b \in Bag, NEW i \in Item, NEW n \in 1..RowMax, Fits(b, i, n)
  PROVE  /\ Receive(b, i, n) \in Bag
         /\ Sound(b) => Sound(Receive(b, i, n))
<1>1. Receive(b, i, n) \in Bag
  BY RowMaxAssumption DEF Receive, Fits, Bag
<1>2. ASSUME Sound(b), NEW j \in Receive(b, i, n).worn
      PROVE  Receive(b, i, n).held[j] > 0
  BY <1>2, RowMaxAssumption DEF Receive, Fits, Bag, Sound
<1> QED BY <1>1, <1>2 DEF Sound

LEMMA WearKeeps ==
  ASSUME NEW b \in Bag, NEW i \in Item, CanWear(b, i)
  PROVE  /\ Wear(b, i) \in Bag
         /\ Sound(b) => Sound(Wear(b, i))
BY DEF Wear, CanWear, Bag, Sound

LEMMA TakeOffKeeps ==
  ASSUME NEW b \in Bag, NEW i \in Item
  PROVE  /\ TakeOff(b, i) \in Bag
         /\ Sound(b) => Sound(TakeOff(b, i))
BY DEF TakeOff, Bag, Sound

-----------------------------------------------------------------------------
(* The sweep of stale applications only ever clears, and keeps a live one. *)
LEMMA SweepOnlyClears ==
  ASSUME TypeOK, NEW S \in SUBSET Chara
  PROVE  /\ SweptAsked(S) \in [Chara -> Chara \union {None}]
         /\ SweptAsking(S) \in [Chara -> Chara \union {None}]
         /\ \A c \in Chara : SweptAsked(S)[c] \in {asked[c], None}
         /\ \A c \in Chara : SweptAsking(S)[c] \in {asking[c], None}
BY DEF TypeOK, SweptAsked, SweptAsking

(* An applicant that survives the sweep is there and holds the other half. *)
LEMMA LiveApplicant ==
  ASSUME TypeOK, NEW c \in Chara, NEW a \in Chara, SweptAsking({c})[c] = a
  PROVE  asking[c] = a /\ asked[a] = c /\ place[a] # Away
BY CharaAssumption DEF TypeOK, SweptAsking, StillAsking, Online

(* A trade seen from one end is the same trade seen from the other.        *)
LEMMA PeerFacts ==
  ASSUME TradeInv, NEW c \in Chara, HasPeer(c)
  PROVE  /\ with[c] \in Chara /\ with[c] # c /\ with[with[c]] = c
         /\ with[c] # None /\ with[with[c]] # None
BY CharaAssumption DEF TradeInv, TypeOK, TradeIsMutual, HasPeer, Online

-----------------------------------------------------------------------------
LEMMA TradeBegins == Init => TradeInv
<1> SUFFICES ASSUME Init PROVE TradeInv
  OBVIOUS
<1>1. EmptyTable \in Table
  BY RowMaxAssumption DEF EmptyTable, Table, Rows, NoRows, ReadyState, OFF
<1>2. TypeOK
  BY <1>1 DEF Init, TypeOK, Window, Button
<1>3. WornIsHeld
  BY DEF Init, WornIsHeld
<1> QED
  BY <1>2, <1>3 DEF Init, TradeInv, TradeIsMutual, OneApplication, SettledTogether,
                    OnlyPlayersPress

(* Steps that leave the trades, the applications and the tables alone and  *)
(* put nobody out of the game.                                             *)
LEMMA Untouched ==
  ASSUME TradeInv, TypeOK', WornIsHeld', OnlyPlayersPress', UNCHANGED <<wires, table>>,
         \A c \in Chara : place[c] # Away => place'[c] # Away
  PROVE  TradeInv'
<1>1. TradeIsMutual'
  BY DEF TradeInv, TypeOK, TradeIsMutual, wires
<1>2. OneApplication'
  BY DEF TradeInv, OneApplication, wires
<1>3. SettledTogether'
  BY DEF TradeInv, SettledTogether, wires
<1> QED BY <1>1, <1>2, <1>3 DEF TradeInv

(* Steps that only clear applications.                                     *)
LEMMA ApplicationsFewer ==
  ASSUME TradeInv, TypeOK', OnlyPlayersPress', UNCHANGED <<place, with, table, bag>>,
         \A c \in Chara : asked'[c] \in {asked[c], None},
         \A c \in Chara : asking'[c] \in {asking[c], None}
  PROVE  TradeInv'
<1>1. TradeIsMutual'
  BY DEF TradeInv, TypeOK, TradeIsMutual
<1>2. OneApplication'
  BY DEF TradeInv, OneApplication
<1>3. SettledTogether' /\ WornIsHeld'
  BY DEF TradeInv, SettledTogether, WornIsHeld
<1> QED BY <1>1, <1>2, <1>3 DEF TradeInv

-----------------------------------------------------------------------------
LEMMA EnterKeeps ==
  ASSUME TradeInv, NEW c \in Chara, Enter(c)
  PROVE  TradeInv'
<1>1. TypeOK'
  BY DEF Enter, TradeInv, TypeOK, wires
<1>2. WornIsHeld' /\ \A d \in Chara : place[d] # Away => place'[d] # Away
  BY MapAssumption DEF Enter, TradeInv, TypeOK, WornIsHeld
<1>3. OnlyPlayersPress'
  BY <1>2 DEF Enter, TradeInv, OnlyPlayersPress
<1> QED BY <1>1, <1>2, <1>3, Untouched DEF Enter

LEMMA DepartKeeps ==
  ASSUME TradeInv, NEW c \in Chara, Depart(c)
  PROVE  TradeInv'
<1>1. Partner(c) \in SUBSET Chara /\ \A x \in Partner(c) : with[c] = x /\ with[x] = c
  BY PeerFacts DEF Partner
<1>2. PICK others \in SUBSET Chara :
        /\ with' = [x \in Chara |-> IF x \in Partner(c) \union {c} THEN None ELSE with[x]]
        /\ table' = [x \in Chara |->
                       IF x \in Partner(c) \union (IF with[c] # None THEN {c} ELSE {})
                       THEN EmptyTable ELSE table[x]]
        /\ asked' = [x \in Chara |->
                       IF x \in Partner(c) \union others \union {c} THEN None ELSE asked[x]]
        /\ asking' = [x \in Chara |->
                       IF x \in Partner(c) \union others \union {c} THEN None ELSE asking[x]]
        /\ Shows(Partner(c) \union others \union {c}, "map")
  BY DEF Depart, TradeInv, TypeOK
<1>3. /\ place' = [place EXCEPT ![c] = Away]
      /\ press' = [press EXCEPT ![c] = "none"] /\ UNCHANGED bag
  BY DEF Depart
<1>4. EmptyTable \in Table
  BY RowMaxAssumption DEF EmptyTable, Table, Rows, NoRows, ReadyState, OFF
<1>5. TypeOK'
  BY <1>2, <1>3, <1>4 DEF TradeInv, TypeOK, Shows, Window, Button
<1>6. TradeIsMutual'
  <2> SUFFICES ASSUME NEW x \in Chara, with'[x] # None
               PROVE  /\ with'[x] # x /\ with'[with'[x]] = x
                      /\ place'[x] # Away /\ place'[with'[x]] # Away
    BY DEF TradeIsMutual
  <2>1. x # c /\ x \notin Partner(c) /\ with'[x] = with[x]
    BY <1>2
  <2>2. /\ with[x] \in Chara /\ with[x] # x /\ with[with[x]] = x
        /\ place[x] # Away /\ place[with[x]] # Away
    BY <2>1 DEF TradeInv, TypeOK, TradeIsMutual
  <2>3. with[x] # c
    BY <2>1, <2>2, CharaAssumption DEF Partner, HasPeer, Online
  <2>4. with[x] \notin Partner(c)
    BY <1>1, <2>1, <2>2
  <2> QED BY <2>1, <2>2, <2>3, <2>4, <1>2, <1>3 DEF TradeInv, TypeOK
<1>7. OneApplication'
  BY <1>2, <1>5 DEF TradeInv, OneApplication
<1>8. SettledTogether'
  <2> SUFFICES ASSUME NEW x \in Chara, with'[x] # None
               PROVE  /\ table'[x].settled = table'[with'[x]].settled
                      /\ table'[x].settled => table'[x].state = EXECUTE
    BY DEF SettledTogether
  <2>1. x # c /\ x \notin Partner(c) /\ with'[x] = with[x] /\ with[x] \in Chara
    BY <1>2 DEF TradeInv, TypeOK
  <2>2. with[x] # c /\ with[x] \notin Partner(c)
    BY <2>1, <1>1, <1>2, CharaAssumption
       DEF TradeInv, TradeIsMutual, Partner, HasPeer, Online
  <2> QED BY <2>1, <2>2, <1>2 DEF TradeInv, SettledTogether
<1> QED
  BY <1>3, <1>5, <1>6, <1>7, <1>8 DEF TradeInv, TypeOK, WornIsHeld, OnlyPlayersPress

-----------------------------------------------------------------------------
LEMMA RequestSentKeeps ==
  ASSUME TradeInv, NEW c \in Chara, NEW t \in Chara, RequestSent(c, t)
  PROVE  TradeInv'
<1> DEFINE S == {c, t}
<1>1. /\ t # c /\ with[c] = None /\ with[t] = None
      /\ SweptAsked(S)[c] = None /\ SweptAsking(S)[c] = None
      /\ SweptAsked(S)[t] = None /\ SweptAsking(S)[t] = None
      /\ asked' = [SweptAsked(S) EXCEPT ![c] = t]
      /\ asking' = [SweptAsking(S) EXCEPT ![t] = c]
      /\ window' = [window EXCEPT ![c] = "waiting", ![t] = "box"]
      /\ UNCHANGED <<place, with, table, bag, press>>
  BY DEF RequestSent
<1>2. /\ SweptAsked(S) \in [Chara -> Chara \union {None}]
      /\ SweptAsking(S) \in [Chara -> Chara \union {None}]
      /\ \A d \in Chara : SweptAsked(S)[d] \in {asked[d], None}
      /\ \A d \in Chara : SweptAsking(S)[d] \in {asking[d], None}
  BY SweepOnlyClears DEF TradeInv
<1> HIDE DEF S
<1>3. TypeOK'
  BY <1>1, <1>2 DEF TradeInv, TypeOK, Window
<1>4. OneApplication'
  <2> SUFFICES ASSUME NEW d \in Chara
               PROVE  /\ asked'[d] = None \/ asking'[d] = None
                      /\ with'[d] # None => asked'[d] = None /\ asking'[d] = None
    BY DEF OneApplication
  <2>1. CASE d = c
    BY <2>1, <1>1, <1>2
  <2>2. CASE d = t
    BY <2>2, <1>1, <1>2
  <2>3. CASE d # c /\ d # t
    BY <2>3, <1>1, <1>2 DEF TradeInv, OneApplication
  <2> QED BY <2>1, <2>2, <2>3
<1>5. TradeIsMutual' /\ SettledTogether' /\ WornIsHeld' /\ OnlyPlayersPress'
  BY <1>1 DEF TradeInv, TradeIsMutual, SettledTogether, WornIsHeld, OnlyPlayersPress
<1> QED BY <1>3, <1>4, <1>5 DEF TradeInv

LEMMA AcceptKeeps ==
  ASSUME TradeInv, NEW c \in Chara, Accept(c)
  PROVE  TradeInv'
<1>1. PICK a \in Chara :
        /\ SweptAsking({c})[c] = a
        /\ asked' = [SweptAsked({c}) EXCEPT ![a] = None]
        /\ asking' = [asking EXCEPT ![c] = None]
        /\ press' = [press EXCEPT ![c] = "none"]
        /\ with' = [with EXCEPT ![c] = a, ![a] = c]
        /\ table' = [table EXCEPT ![c] = EmptyTable, ![a] = EmptyTable]
        /\ Shows({c, a}, "trading")
  BY DEF Accept, Answered
<1>2. /\ UNCHANGED <<place, bag>>
      /\ press[c] = "yes"
  BY DEF Accept
<1>3. asking[c] = a /\ asked[a] = c /\ place[a] # Away
  BY <1>1, LiveApplicant DEF TradeInv
<1>4. /\ with[c] = None /\ with[a] = None
      /\ asked[c] = None /\ asking[a] = None /\ a # c
  BY <1>3, CharaAssumption DEF TradeInv, OneApplication
<1>5. /\ SweptAsked({c}) \in [Chara -> Chara \union {None}]
      /\ \A d \in Chara : SweptAsked({c})[d] \in {asked[d], None}
  BY SweepOnlyClears DEF TradeInv
<1>6. EmptyTable \in Table
  BY RowMaxAssumption DEF EmptyTable, Table, Rows, NoRows, ReadyState, OFF
<1>7. TypeOK'
  BY <1>1, <1>2, <1>5, <1>6 DEF TradeInv, TypeOK, Shows, Window, Button
<1>8. OneApplication'
  BY <1>1, <1>4, <1>5 DEF TradeInv, TypeOK, OneApplication
<1>9. TradeIsMutual'
  <2> SUFFICES ASSUME NEW d \in Chara, with'[d] # None
               PROVE  /\ with'[d] # d /\ with'[with'[d]] = d
                      /\ place'[d] # Away /\ place'[with'[d]] # Away
    BY DEF TradeIsMutual
  <2>1. place[c] # Away
    BY <1>2 DEF TradeInv, OnlyPlayersPress
  <2>2. CASE d \in {c, a}
    BY <2>1, <2>2, <1>1, <1>2, <1>3, <1>4 DEF TradeInv, TypeOK
  <2>3. CASE d \notin {c, a}
    <3>1. /\ with'[d] = with[d] /\ with[d] \in Chara
          /\ with[d] # c /\ with[d] # a
      BY <2>3, <1>1, <1>4, CharaAssumption DEF TradeInv, TypeOK, TradeIsMutual
    <3> QED BY <2>3, <3>1, <1>1, <1>2 DEF TradeInv, TypeOK, TradeIsMutual
  <2> QED BY <2>2, <2>3
<1>10. SettledTogether'
  <2> SUFFICES ASSUME NEW d \in Chara, with'[d] # None
               PROVE  /\ table'[d].settled = table'[with'[d]].settled
                      /\ table'[d].settled => table'[d].state = EXECUTE
    BY DEF SettledTogether
  <2>1. CASE d \in {c, a}
    BY <2>1, <1>1, <1>4 DEF TradeInv, TypeOK, EmptyTable
  <2>2. CASE d \notin {c, a}
    <3>1. with[d] \in Chara /\ with[d] # c /\ with[d] # a
      BY <2>2, <1>1, <1>4, CharaAssumption DEF TradeInv, TypeOK, TradeIsMutual
    <3> QED BY <2>2, <3>1, <1>1 DEF TradeInv, TypeOK, SettledTogether
  <2> QED BY <2>1, <2>2
<1>11. WornIsHeld' /\ OnlyPlayersPress'
  BY <1>1, <1>2 DEF TradeInv, TypeOK, WornIsHeld, OnlyPlayersPress
<1> QED BY <1>7, <1>8, <1>9, <1>10, <1>11 DEF TradeInv

(* Refusals, answers to nobody, a decline and a withdrawal clear           *)
(* applications and nothing else the server keeps.                         *)
LEMMA ClearingKeeps ==
  ASSUME TradeInv, NEW c \in Chara,
         \/ \E t \in Chara : RequestRefused(c, t)
         \/ AnswerNobody(c) \/ Decline(c) \/ Withdraw(c) \/ Press(c)
  PROVE  TradeInv'
<1>1. CASE \E t \in Chara : RequestRefused(c, t)
  <2>1. PICK t \in Chara : RequestRefused(c, t)
    BY <1>1
  <2>2. PICK S \in SUBSET Chara : asked' = SweptAsked(S) /\ asking' = SweptAsking(S)
    BY <2>1 DEF RequestRefused
  <2>3. UNCHANGED <<place, with, table, bag, window, press>>
    BY <2>1 DEF RequestRefused
  <2>4. TypeOK' /\ OnlyPlayersPress'
    BY <2>2, <2>3, SweepOnlyClears DEF TradeInv, TypeOK, OnlyPlayersPress
  <2> QED BY <2>2, <2>3, <2>4, SweepOnlyClears, ApplicationsFewer DEF TradeInv
<1>2. CASE AnswerNobody(c)
  <2>1. /\ asked' = SweptAsked({c}) /\ asking' = SweptAsking({c})
        /\ press' = [press EXCEPT ![c] = "none"]
        /\ UNCHANGED <<place, with, table, bag, window>>
    BY <1>2 DEF AnswerNobody
  <2>2. TypeOK' /\ OnlyPlayersPress'
    BY <2>1, SweepOnlyClears DEF TradeInv, TypeOK, Button, OnlyPlayersPress
  <2> QED BY <2>1, <2>2, SweepOnlyClears, ApplicationsFewer DEF TradeInv
<1>3. CASE Decline(c)
  <2>1. PICK a \in Chara : Answered(c, a) /\ Shows({c, a}, "map")
    BY <1>3 DEF Decline
  <2>2. UNCHANGED <<place, with, table, bag>>
    BY <1>3 DEF Decline
  <2>3. TypeOK' /\ OnlyPlayersPress'
    BY <2>1, <2>2, SweepOnlyClears
       DEF Answered, Shows, TradeInv, TypeOK, Button, Window, OnlyPlayersPress
  <2>4. /\ \A d \in Chara : asked'[d] \in {asked[d], None}
        /\ \A d \in Chara : asking'[d] \in {asking[d], None}
    BY <2>1, SweepOnlyClears DEF Answered, TradeInv, TypeOK
  <2> QED BY <2>2, <2>3, <2>4, ApplicationsFewer
<1>4. CASE Withdraw(c)
  <2>1. PICK t \in Chara : /\ asked' = [asked EXCEPT ![c] = None]
                           /\ asking' = [SweptAsking({c}) EXCEPT ![t] = None]
                           /\ Shows({c, t}, "map")
    BY <1>4 DEF Withdraw
  <2>2. /\ press' = [press EXCEPT ![c] = "none"]
        /\ UNCHANGED <<place, with, table, bag>>
    BY <1>4 DEF Withdraw
  <2>3. TypeOK' /\ OnlyPlayersPress'
    BY <2>1, <2>2, SweepOnlyClears
       DEF Shows, TradeInv, TypeOK, Button, Window, OnlyPlayersPress
  <2>4. /\ \A d \in Chara : asked'[d] \in {asked[d], None}
        /\ \A d \in Chara : asking'[d] \in {asking[d], None}
    BY <2>1, SweepOnlyClears DEF TradeInv, TypeOK
  <2> QED BY <2>2, <2>3, <2>4, ApplicationsFewer
<1>5. CASE Press(c)
  <2>1. TypeOK' /\ WornIsHeld' /\ OnlyPlayersPress'
    BY <1>5 DEF Press, TradeInv, TypeOK, wires, WornIsHeld, OnlyPlayersPress
  <2> QED BY <2>1, <1>5, Untouched DEF Press
<1> QED BY <1>1, <1>2, <1>3, <1>4, <1>5

(* _trade_clear on both ends of a trade, or on one that is in none.        *)
LEMMA ClearedKeeps ==
  ASSUME TradeInv, NEW c \in Chara, NEW C \in SUBSET Chara, c \in C, Cleared(C, {c}),
         \A x \in C, d \in Chara : with[d] = x => d \in C,
         UNCHANGED <<place, bag>>, press' = [press EXCEPT ![c] = "none"],
         window' \in [Chara -> Window]
  PROVE  TradeInv'
<1>1. /\ asked' = [d \in Chara |-> IF d \in C THEN None ELSE SweptAsked({c})[d]]
      /\ asking' = [d \in Chara |-> IF d \in C THEN None ELSE SweptAsking({c})[d]]
      /\ with' = [d \in Chara |-> IF d \in C THEN None ELSE with[d]]
      /\ table' = [d \in Chara |-> IF d \in C THEN EmptyTable ELSE table[d]]
  BY DEF Cleared
<1>2. EmptyTable \in Table
  BY RowMaxAssumption DEF EmptyTable, Table, Rows, NoRows, ReadyState, OFF
<1>3. TypeOK' /\ OnlyPlayersPress'
  <2>1. press' \in [Chara -> Button] /\ OnlyPlayersPress'
    BY DEF TradeInv, TypeOK, Button, OnlyPlayersPress
  <2>2. /\ asked' \in [Chara -> Chara \union {None}]
        /\ asking' \in [Chara -> Chara \union {None}]
    BY <1>1, SweepOnlyClears DEF TradeInv
  <2>3. /\ with' \in [Chara -> Chara \union {None}]
        /\ table' \in [Chara -> Table]
    BY <1>1, <1>2 DEF TradeInv, TypeOK
  <2> QED BY <2>1, <2>2, <2>3 DEF TradeInv, TypeOK
<1>4. OneApplication'
  BY <1>1, SweepOnlyClears DEF TradeInv, OneApplication
<1>5. \A d \in Chara : with'[d] # None =>
        /\ d \notin C /\ with'[d] = with[d] /\ with[d] \in Chara /\ with[d] \notin C
  BY <1>1 DEF TradeInv, TypeOK
<1>6. TradeIsMutual'
  BY <1>1, <1>5 DEF TradeInv, TradeIsMutual
<1>7. SettledTogether'
  BY <1>1, <1>5 DEF TradeInv, SettledTogether
<1> QED BY <1>3, <1>4, <1>6, <1>7 DEF TradeInv, WornIsHeld

LEMMA ClosingKeeps ==
  ASSUME TradeInv, NEW c \in Chara, CloseNothing(c) \/ Close(c)
  PROVE  TradeInv'
<1>1. press' = [press EXCEPT ![c] = "none"] /\ UNCHANGED <<place, bag>>
  BY DEF CloseNothing, Close
<1>2. CASE CloseNothing(c)
  <2>1. Cleared({c}, {c}) /\ window' = window /\ ~ HasPeer(c)
    BY <1>2 DEF CloseNothing
  <2>2. \A x \in {c}, d \in Chara : with[d] = x => d \in {c}
    BY <2>1, CharaAssumption DEF TradeInv, TradeIsMutual, HasPeer, Online
  <2>3. window' \in [Chara -> Window] /\ {c} \in SUBSET Chara /\ c \in {c}
    BY <2>1 DEF TradeInv, TypeOK
  <2> QED BY <1>1, <2>1, <2>2, <2>3, ClearedKeeps
<1>3. CASE Close(c)
  <2>1. /\ Cleared(BothEnds(c), {c}) /\ HasPeer(c)
        /\ \E C \in SUBSET Chara : Shows(C, "map")
    BY <1>3, PeerFacts DEF Close
  <2>2. BothEnds(c) \in SUBSET Chara /\ c \in BothEnds(c)
    BY <2>1, PeerFacts DEF BothEnds
  <2>3. \A x \in BothEnds(c), d \in Chara : with[d] = x => d \in BothEnds(c)
    BY <2>1, PeerFacts, CharaAssumption DEF BothEnds, TradeInv, TradeIsMutual
  <2>4. window' \in [Chara -> Window]
    BY <2>1 DEF Shows, TradeInv, TypeOK, Window
  <2> QED BY <1>1, <2>1, <2>2, <2>3, <2>4, ClearedKeeps
<1> QED BY <1>2, <1>3

-----------------------------------------------------------------------------
(* A message about the table: the sweep, and what it leaves alone.         *)
LEMMA AtTable ==
  ASSUME TradeInv, NEW c \in Chara, OnTheTable(c),
         table' \in [Chara -> Table], bag' \in [Chara -> Bag],
         SettledTogether', WornIsHeld'
  PROVE  TradeInv'
<1>1. /\ asked' = SweptAsked({c}) /\ asking' = SweptAsking({c})
      /\ UNCHANGED <<place, with, window, press>>
  BY DEF OnTheTable
<1>2. TypeOK'
  BY <1>1, SweepOnlyClears DEF TradeInv, TypeOK
<1>3. OneApplication'
  BY <1>1, SweepOnlyClears DEF TradeInv, OneApplication
<1>4. TradeIsMutual' /\ OnlyPlayersPress'
  BY <1>1 DEF TradeInv, TradeIsMutual, OnlyPlayersPress
<1> QED BY <1>2, <1>3, <1>4 DEF TradeInv

(* A change of the two tables of one unsettled trade that settles neither. *)
LEMMA Unsettled ==
  ASSUME TradeInv, NEW c \in Chara, OnTheTable(c), table' \in [Chara -> Table],
         \A d \in Chara : table'[d].settled = table[d].settled,
         \A d \in Chara \ {c, with[c]} : table'[d] = table[d]
  PROVE  SettledTogether'
<1>1. HasPeer(c) /\ ~ table[c].settled /\ ~ table[with[c]].settled /\ UNCHANGED with
  BY DEF OnTheTable
<1> SUFFICES ASSUME NEW d \in Chara, with[d] # None
             PROVE  /\ table'[d].settled = table'[with[d]].settled
                    /\ table'[d].settled => table'[d].state = EXECUTE
  BY <1>1 DEF SettledTogether
<1>2. with[d] \in Chara
  BY DEF TradeInv, TypeOK
<1>3. table'[d].settled = table'[with[d]].settled
  BY <1>2 DEF TradeInv, SettledTogether
<1>4. ASSUME table'[d].settled PROVE table'[d].state = EXECUTE
  BY <1>1, <1>4 DEF TradeInv, SettledTogether
<1> QED BY <1>3, <1>4

LEMMA UnreadyKeeps ==
  ASSUME TradeInv, NEW c \in Chara, OnTheTable(c), NEW rows \in Rows,
         Unready(c, rows), UNCHANGED bag
  PROVE  TradeInv'
<1>1. with[c] \in Chara /\ with[c] # c
  BY PeerFacts DEF OnTheTable
<1>2. table' = [table EXCEPT ![c].rows = rows, ![c].state = OFF,
                             ![with[c]].state = OFF]
  BY DEF Unready
<1>3. table' \in [Chara -> Table]
  <2>1. table \in [Chara -> Table] /\ OFF \in ReadyState
    BY DEF TradeInv, TypeOK, ReadyState
  <2>2. /\ table'[c] = [table[c] EXCEPT !.rows = rows, !.state = OFF]
        /\ table'[with[c]] = [table[with[c]] EXCEPT !.state = OFF]
        /\ \A d \in Chara \ {c, with[c]} : table'[d] = table[d]
        /\ table' = [d \in Chara |-> table'[d]]
    BY <1>1, <1>2, <2>1
  <2>3. table'[c] \in Table /\ table'[with[c]] \in Table
    BY <1>1, <2>1, <2>2 DEF Table
  <2> QED BY <2>1, <2>2, <2>3
<1>4. /\ \A d \in Chara : table'[d].settled = table[d].settled
      /\ \A d \in Chara \ {c, with[c]} : table'[d] = table[d]
  BY <1>1, <1>2 DEF TradeInv, TypeOK, Table
<1>5. SettledTogether'
  BY <1>3, <1>4, Unsettled
<1> QED BY <1>3, <1>5, AtTable DEF TradeInv, TypeOK, WornIsHeld

LEMMA PushRecallKeeps ==
  ASSUME TradeInv, NEW c \in Chara, NEW i \in Item, NEW n \in 1..RowMax,
         Push(c, i, n) \/ Recall(c, i, n)
  PROVE  TradeInv'
<1>1. table[c] \in Table /\ bag[c] \in Bag
  BY DEF TradeInv, TypeOK
<1>2. CASE Push(c, i, n)
  <2>1. /\ [table[c].rows EXCEPT ![i] = @ + n] \in Rows
    BY <1>1, <1>2, RowMaxAssumption
       DEF Push, CanSpare, WornCopy, Table, Rows, Bag
  <2> QED BY <1>2, <2>1, UnreadyKeeps DEF Push
<1>3. CASE Recall(c, i, n)
  <2>1. [table[c].rows EXCEPT ![i] = @ - n] \in Rows
    BY <1>1, <1>3, RowMaxAssumption DEF Recall, Table, Rows
  <2> QED BY <1>3, <2>1, UnreadyKeeps DEF Recall
<1> QED BY <1>2, <1>3

LEMMA ReadyKeeps ==
  ASSUME TradeInv, NEW c \in Chara, NEW v \in ReadyState, Ready(c, v)
  PROVE  TradeInv'
<1>1. /\ OnTheTable(c) /\ UNCHANGED bag
      /\ table' = [table EXCEPT ![c].state = v]
  BY DEF Ready, ReadyTo
<1>2. /\ table' \in [Chara -> Table]
      /\ \A d \in Chara : table'[d].settled = table[d].settled
      /\ \A d \in Chara \ {c, with[c]} : table'[d] = table[d]
  BY <1>1 DEF TradeInv, TypeOK, Table
<1>3. SettledTogether'
  BY <1>1, <1>2, Unsettled
<1> QED BY <1>1, <1>2, <1>3, AtTable DEF TradeInv, TypeOK, WornIsHeld

LEMMA ExecuteFailsKeeps ==
  ASSUME TradeInv, NEW c \in Chara, ExecuteFails(c)
  PROVE  TradeInv'
<1>1. /\ OnTheTable(c) /\ UNCHANGED bag
      /\ table' = [table EXCEPT ![c].state = OFF, ![with[c]].state = OFF]
  BY DEF ExecuteFails, ReadyTo
<1>2. with[c] \in Chara
  BY <1>1, PeerFacts DEF OnTheTable
<1>3. /\ table' \in [Chara -> Table]
      /\ \A d \in Chara : table'[d].settled = table[d].settled
      /\ \A d \in Chara \ {c, with[c]} : table'[d] = table[d]
  <2>1. table \in [Chara -> Table] /\ OFF \in ReadyState
    BY DEF TradeInv, TypeOK, ReadyState
  <2>2. table' = [d \in Chara |-> IF d \in {c, with[c]}
                                 THEN [table[d] EXCEPT !.state = OFF] ELSE table[d]]
    BY <1>1, <1>2, <2>1, PeerFacts DEF OnTheTable
  <2>3. \A d \in Chara : table'[d] \in Table /\ table'[d].settled = table[d].settled
    BY <2>1, <2>2 DEF Table
  <2> QED BY <2>2, <2>3
<1>4. SettledTogether'
  BY <1>1, <1>3, Unsettled
<1> QED BY <1>1, <1>3, <1>4, AtTable DEF TradeInv, TypeOK, WornIsHeld

(* A bag that gave what it offered and received what it was promised is    *)
(* still a bag, and the copy on its owner's back never left it.            *)
LEMMA ExchangedBag ==
  ASSUME TradeInv, NEW c \in Chara, NEW rows \in Rows, Holds(c), Receives(c, rows)
  PROVE  /\ GivenAndReceived(c, rows) \in Bag
         /\ Sound(GivenAndReceived(c, rows))
<1> DEFINE offered == table[c].rows
           after == GivenAndReceived(c, rows)
<1>1. bag[c] \in Bag /\ offered \in Rows /\ Sound(bag[c])
  BY DEF TradeInv, TypeOK, Table, WornIsHeld, Sound
<1>2. \A i \in Item : /\ offered[i] \in 0..RowMax /\ rows[i] \in 0..RowMax
                      /\ bag[c].held[i] \in 0..RowMax
  BY <1>1 DEF Rows, Bag
<1>3. \A i \in Item : bag[c].held[i] - offered[i] \in 0..RowMax
  <2> SUFFICES ASSUME NEW i \in Item
               PROVE  bag[c].held[i] - offered[i] \in 0..RowMax
    OBVIOUS
  <2>1. WornCopy(bag[c], i) \in {0, 1}
    BY DEF WornCopy
  <2>2. offered[i] > 0 => bag[c].held[i] >= WornCopy(bag[c], i) + offered[i]
    BY DEF Holds
  <2> QED BY <1>2, <2>1, <2>2, RowMaxAssumption
<1>4. \A i \in Item : Given(c).held[i] = bag[c].held[i] - offered[i]
  BY DEF Given
<1>5. \A i \in Item : bag[c].held[i] - offered[i] + rows[i] \in 0..RowMax
  <2> SUFFICES ASSUME NEW i \in Item
               PROVE  bag[c].held[i] - offered[i] + rows[i] \in 0..RowMax
    OBVIOUS
  <2>1. rows[i] > 0 => Given(c).held[i] + rows[i] <= RowMax
    BY DEF Receives, Fits
  <2> QED BY <1>2, <1>3, <1>4, <2>1, RowMaxAssumption
<1>6. after = [held |-> [i \in Item |-> bag[c].held[i] - offered[i] + rows[i]],
               worn |-> {i \in bag[c].worn : offered[i] = 0 \/ bag[c].held[i] # offered[i]}]
  <2>1. after = [held |-> [i \in Item |-> Given(c).held[i] + rows[i]],
                 worn |-> Given(c).worn]
    <3>1. Given(c) = [held |-> Given(c).held, worn |-> Given(c).worn]
      BY DEF Given
    <3>2. \A h, k, w : [[held |-> h, worn |-> w] EXCEPT !.held = k]
                        = [held |-> k, worn |-> w]
      OBVIOUS
    <3>3. after = [Given(c) EXCEPT !.held = [i \in Item |-> Given(c).held[i] + rows[i]]]
      BY DEF GivenAndReceived
    <3> HIDE DEF after
    <3> QED BY <3>1, <3>2, <3>3
  <2>2. Given(c).worn = {i \in bag[c].worn : offered[i] = 0 \/ bag[c].held[i] # offered[i]}
    BY DEF Given
  <2> HIDE DEF after, offered
  <2> QED BY <2>1, <2>2, <1>4
<1>7. after \in Bag
  BY <1>1, <1>5, <1>6 DEF Bag
<1>8. ASSUME NEW i \in after.worn PROVE after.held[i] > 0
  <2>1. i \in Item /\ i \in bag[c].worn /\ bag[c].held[i] > 0
    BY <1>1, <1>6 DEF Bag, Sound
  <2>2. bag[c].held[i] - offered[i] > 0
    BY <2>1, <1>2, RowMaxAssumption DEF Holds, WornCopy
  <2> QED BY <2>1, <2>2, <1>2, <1>6, RowMaxAssumption
<1> QED BY <1>7, <1>8 DEF Sound

LEMMA ExecuteKeeps ==
  ASSUME TradeInv, NEW c \in Chara, Execute(c)
  PROVE  TradeInv'
<1> DEFINE p == with[c]
<1>1. /\ OnTheTable(c) /\ CanExecute(c) /\ table[p].state = EXECUTE
      /\ bag' = [bag EXCEPT ![c] = GivenAndReceived(c, table[p].rows),
                            ![p] = GivenAndReceived(p, table[c].rows)]
      /\ table' = [table EXCEPT ![c].state = EXECUTE, ![c].settled = TRUE,
                                ![p].settled = TRUE]
  BY DEF Execute, ReadyTo, BothFinal, Settle
<1>2. p \in Chara /\ p # c /\ with[p] = c /\ UNCHANGED with
  BY <1>1, PeerFacts DEF OnTheTable
<1>3. table[c].rows \in Rows /\ table[p].rows \in Rows
  BY <1>2 DEF TradeInv, TypeOK, Table
<1>4. /\ GivenAndReceived(c, table[p].rows) \in Bag
      /\ Sound(GivenAndReceived(c, table[p].rows))
  BY <1>1, <1>3, ExchangedBag DEF CanExecute
<1>5. /\ GivenAndReceived(p, table[c].rows) \in Bag
      /\ Sound(GivenAndReceived(p, table[c].rows))
  BY <1>1, <1>2, <1>3, ExchangedBag DEF CanExecute
<1>6. bag' \in [Chara -> Bag]
  BY <1>1, <1>2, <1>4, <1>5 DEF TradeInv, TypeOK
<1>7. /\ table' \in [Chara -> Table]
      /\ table'[c].settled = TRUE /\ table'[p].settled = TRUE
      /\ table'[c].state = EXECUTE /\ table'[p].state = EXECUTE
      /\ \A d \in Chara \ {c, p} : table'[d] = table[d]
  <2>1. table \in [Chara -> Table] /\ EXECUTE \in ReadyState
    BY DEF TradeInv, TypeOK, ReadyState
  <2>2. /\ table'[c] = [table[c] EXCEPT !.state = EXECUTE, !.settled = TRUE]
        /\ table'[p] = [table[p] EXCEPT !.settled = TRUE]
        /\ \A d \in Chara \ {c, p} : table'[d] = table[d]
        /\ table' = [d \in Chara |-> table'[d]]
    BY <1>1, <1>2, <2>1
  <2>3. table'[c] \in Table /\ table'[p] \in Table
    BY <1>2, <2>1, <2>2 DEF Table
  <2>4. table' \in [Chara -> Table]
    BY <2>1, <2>2, <2>3
  <2>5. table[c] \in Table /\ table[p] \in Table /\ table[p].state = EXECUTE
    BY <1>1, <1>2, <2>1
  <2>6. /\ table'[c].settled = TRUE /\ table'[c].state = EXECUTE
        /\ table'[p].settled = TRUE /\ table'[p].state = EXECUTE
    BY <2>2, <2>5 DEF Table
  <2> QED BY <2>2, <2>4, <2>6
<1>8. WornIsHeld'
  <2>1. \A d \in Chara : Sound(bag'[d])
    BY <1>1, <1>2, <1>4, <1>5 DEF TradeInv, TypeOK, WornIsHeld, Sound
  <2> QED BY <2>1 DEF WornIsHeld, Sound
<1>9. SettledTogether'
  <2> SUFFICES ASSUME NEW d \in Chara, with[d] # None
               PROVE  /\ table'[d].settled = table'[with[d]].settled
                      /\ table'[d].settled => table'[d].state = EXECUTE
    BY <1>2 DEF SettledTogether
  <2>1. CASE d \in {c, p}
    BY <2>1, <1>2, <1>7
  <2>2. CASE d \notin {c, p}
    <3>1. with[d] \in Chara /\ with[d] \notin {c, p}
      BY <2>2, <1>2 DEF TradeInv, TypeOK, TradeIsMutual
    <3> QED BY <2>2, <3>1, <1>7 DEF TradeInv, SettledTogether
  <2> QED BY <2>1, <2>2
<1> QED BY <1>1, <1>6, <1>7, <1>8, <1>9, AtTable

LEMMA TableRefusedKeeps ==
  ASSUME TradeInv, NEW c \in Chara, TableRefused(c)
  PROVE  TradeInv'
<1>1. /\ asked' = SweptAsked({c}) /\ asking' = SweptAsking({c})
      /\ UNCHANGED <<place, with, table, bag, window, press>>
  BY DEF TableRefused
<1>2. TypeOK' /\ OnlyPlayersPress'
  BY <1>1, SweepOnlyClears DEF TradeInv, TypeOK, OnlyPlayersPress
<1> QED BY <1>1, <1>2, SweepOnlyClears, ApplicationsFewer DEF TradeInv

-----------------------------------------------------------------------------
LEMMA ElsewhereKeeps ==
  ASSUME TradeInv, NEW c \in Chara, NEW b \in Bag, Sound(b), Elsewhere(c, b)
  PROVE  TradeInv'
<1>1. bag' = [bag EXCEPT ![c] = b] /\ UNCHANGED <<place, wires, table, window, press>>
  BY DEF Elsewhere
<1>2. TypeOK' /\ OnlyPlayersPress'
  BY <1>1 DEF TradeInv, TypeOK, wires, OnlyPlayersPress
<1>3. WornIsHeld'
  BY <1>1 DEF TradeInv, TypeOK, WornIsHeld, Sound
<1> QED BY <1>1, <1>2, <1>3, Untouched

LEMMA InTheBagKeeps ==
  ASSUME TradeInv, NEW c \in Chara, InTheBag(c)
  PROVE  TradeInv'
<1>1. bag[c] \in Bag /\ Sound(bag[c])
  BY DEF TradeInv, TypeOK, WornIsHeld, Sound
<1>2. ASSUME NEW i \in Item, NEW n \in 1..RowMax, Spend(c, i, n) PROVE TradeInv'
  BY <1>1, <1>2, TakeKeeps, ElsewhereKeeps DEF Spend
<1>3. ASSUME NEW i \in Item, NEW n \in 1..RowMax, Gain(c, i, n) PROVE TradeInv'
  BY <1>1, <1>3, ReceiveKeeps, ElsewhereKeeps DEF Gain
<1>4. ASSUME NEW i \in Item, PutOn(c, i) PROVE TradeInv'
  BY <1>1, <1>4, WearKeeps, ElsewhereKeeps DEF PutOn
<1>5. ASSUME NEW i \in Item, TakeItOff(c, i) PROVE TradeInv'
  BY <1>1, <1>5, TakeOffKeeps, ElsewhereKeeps DEF TakeItOff
<1> QED BY <1>2, <1>3, <1>4, <1>5 DEF InTheBag

LEMMA Inductive == TradeInv /\ [Next]_vars => TradeInv'
<1> SUFFICES ASSUME TradeInv, [Next]_vars PROVE TradeInv'
  OBVIOUS
<1>1. CASE UNCHANGED vars
  <2>1. TypeOK' /\ WornIsHeld' /\ OnlyPlayersPress' /\ UNCHANGED <<wires, table, place>>
    BY <1>1 DEF vars, wires, TradeInv, TypeOK, WornIsHeld, OnlyPlayersPress
  <2> QED BY <2>1, Untouched
<1>2. ASSUME NEW c \in Chara, Enter(c) \/ Depart(c) PROVE TradeInv'
  BY <1>2, EnterKeeps, DepartKeeps
<1>3. ASSUME NEW c \in Chara, Handshake(c) PROVE TradeInv'
  BY <1>3, RequestSentKeeps, ClearingKeeps, AcceptKeeps, ClosingKeeps DEF Handshake
<1>4. ASSUME NEW c \in Chara, AtTheTable(c) PROVE TradeInv'
  BY <1>4, PushRecallKeeps, ReadyKeeps, ExecuteKeeps, ExecuteFailsKeeps,
     TableRefusedKeeps DEF AtTheTable
<1>5. ASSUME NEW c \in Chara, InTheBag(c) PROVE TradeInv'
  BY <1>5, InTheBagKeeps
<1> QED BY <1>1, <1>2, <1>3, <1>4, <1>5 DEF Next

THEOREM InvariantHolds == Spec => []TradeInv
  BY TradeBegins, Inductive, PTL DEF Spec

-----------------------------------------------------------------------------
(* Whoever is in a trade is in it with somebody connected who is in it     *)
(* too: no message, departure or crossing of the two leaves half a trade.  *)
THEOREM TradesAreMutual == Spec => []TradeIsMutual
<1>1. TradeInv => TradeIsMutual
  BY DEF TradeInv
<1> QED BY <1>1, InvariantHolds, PTL

(* No character is ever one end of two applications, or of an application  *)
(* and a trade, so an answer that names nobody is never ambiguous.         *)
THEOREM ApplicationsAreSingle == Spec => []OneApplication
<1>1. TradeInv => OneApplication
  BY DEF TradeInv
<1> QED BY <1>1, InvariantHolds, PTL

(* The two tables of a trade settle in the same step.                      *)
THEOREM TablesSettleTogether == Spec => []SettledTogether
<1>1. TradeInv => SettledTogether
  BY DEF TradeInv
<1> QED BY <1>1, InvariantHolds, PTL

(* Whatever the players press and however items come and go otherwise, no  *)
(* count leaves its byte and no way out of a bag, the exchange included,   *)
(* leaves a worn item behind that is no longer held.                       *)
THEOREM BagsStayKept == Spec => []BagsAreKept
<1>1. TradeInv => BagsAreKept
  BY DEF TradeInv, BagsAreKept
<1> QED BY <1>1, InvariantHolds, PTL

-----------------------------------------------------------------------------
(* What the clients show.  A player who is not there holds no application: *)
(* else coming back would revive one whose window is gone.                 *)
AbsentHoldNone ==
  \A c \in Chara : place[c] = Away => asked[c] = None /\ asking[c] = None

ShownInv == TradeInv /\ AbsentHoldNone /\ ServerStateIsShown

(* Steps that take down what the players of C had open and begin nothing:  *)
(* only their windows may change.                                          *)
LEMMA TakenDownIsShown ==
  ASSUME ShownInv, NEW C \in SUBSET Chara,
         \A x \in Chara : asked'[x] \in {asked[x], None},
         \A x \in Chara : asking'[x] \in {asking[x], None},
         \A x \in Chara : with'[x] \in {with[x], None},
         \A x \in C : asked'[x] = None /\ asking'[x] = None /\ with'[x] = None,
         \A x \in Chara \ C : window'[x] = window[x],
         \A x \in Chara : place'[x] = place[x] \/ x \in C
  PROVE  AbsentHoldNone' /\ ServerStateIsShown'
<1>1. AbsentHoldNone'
  BY DEF ShownInv, AbsentHoldNone
<1>2. ASSUME NEW x \in Chara PROVE
        /\ with'[x] # None => window'[x] = "trading"
        /\ StillAsked(x)' => window'[x] = "waiting"
        /\ StillAsking(x)' => window'[x] = "box"
  <2>1. with'[x] # None => window'[x] = "trading"
    BY DEF ShownInv, ServerStateIsShown
  <2>2. ASSUME StillAsked(x)' PROVE window'[x] = "waiting"
    <3>1. asked'[x] = asked[x] /\ asked[x] \in Chara /\ asking'[asked[x]] = x
      BY <2>2 DEF StillAsked, Online, ShownInv, TradeInv, TypeOK
    <3>2. x \notin C /\ asked[x] \notin C /\ asking[asked[x]] = x /\ place[asked[x]] # Away
      BY <2>2, <3>1, CharaAssumption DEF StillAsked, Online
    <3> QED BY <3>1, <3>2, CharaAssumption
            DEF StillAsked, Online, ShownInv, ServerStateIsShown
  <2>3. ASSUME StillAsking(x)' PROVE window'[x] = "box"
    <3>1. asking'[x] = asking[x] /\ asking[x] \in Chara /\ asked'[asking[x]] = x
      BY <2>3 DEF StillAsking, Online, ShownInv, TradeInv, TypeOK
    <3>2. x \notin C /\ asking[x] \notin C /\ asked[asking[x]] = x /\ place[asking[x]] # Away
      BY <2>3, <3>1, CharaAssumption DEF StillAsking, Online
    <3> QED BY <3>1, <3>2, CharaAssumption
            DEF StillAsking, Online, ShownInv, ServerStateIsShown
  <2> QED BY <2>1, <2>2, <2>3
<1> QED BY <1>1, <1>2 DEF ServerStateIsShown

LEMMA EnterIsShown ==
  ASSUME ShownInv, NEW c \in Chara, Enter(c)
  PROVE  AbsentHoldNone' /\ ServerStateIsShown'
<1>1. /\ UNCHANGED <<asked, asking, with, window>>
      /\ \A x \in Chara : place'[x] # Away => place[x] # Away \/ x = c
      /\ \A x \in Chara : place'[x] = Away => place[x] = Away
  BY MapAssumption DEF Enter, wires, ShownInv, TradeInv, TypeOK
<1>2. AbsentHoldNone'
  BY <1>1 DEF ShownInv, AbsentHoldNone
<1>3. \A x \in Chara : /\ StillAsked(x)' => StillAsked(x)
                       /\ StillAsking(x)' => StillAsking(x)
  BY <1>1, CharaAssumption
     DEF StillAsked, StillAsking, Online, ShownInv, AbsentHoldNone, TradeInv, TypeOK
<1> QED BY <1>1, <1>2, <1>3 DEF ShownInv, ServerStateIsShown

LEMMA DepartIsShown ==
  ASSUME ShownInv, NEW c \in Chara, Depart(c)
  PROVE  AbsentHoldNone' /\ ServerStateIsShown'
<1>1. Partner(c) \in SUBSET Chara
  BY PeerFacts DEF Partner, ShownInv
<1> DEFINE others == IF with[c] # None THEN {}
                     ELSE {o \in {asked[c], asking[c]} \ {None} :
                             /\ Online(o) /\ with[o] = None
                             /\ asked[o] = c \/ asking[o] = c}
<1>2. /\ with' = [x \in Chara |-> IF x \in Partner(c) \union {c} THEN None ELSE with[x]]
      /\ asked' = [x \in Chara |->
                     IF x \in Partner(c) \union others \union {c} THEN None ELSE asked[x]]
      /\ asking' = [x \in Chara |->
                     IF x \in Partner(c) \union others \union {c} THEN None ELSE asking[x]]
      /\ Shows(Partner(c) \union others \union {c}, "map")
  BY DEF Depart
<1>3. others \in SUBSET Chara /\ \A o \in others : with[o] = None
  BY DEF ShownInv, TradeInv, TypeOK
<1> HIDE DEF others
<1>4. place' = [place EXCEPT ![c] = Away]
  BY DEF Depart
<1> DEFINE C == Partner(c) \union others \union {c}
<1>5. /\ C \in SUBSET Chara
      /\ \A x \in C : asked'[x] = None /\ asking'[x] = None /\ with'[x] = None
  BY <1>1, <1>2, <1>3
<1>6. \A x \in Chara \ C : window'[x] = window[x]
  BY <1>2 DEF Shows
<1>7. \A x \in Chara : /\ asked'[x] \in {asked[x], None} /\ asking'[x] \in {asking[x], None}
                       /\ with'[x] \in {with[x], None}
                       /\ place'[x] = place[x] \/ x \in C
  BY <1>2, <1>4 DEF ShownInv, TradeInv, TypeOK
<1> HIDE DEF C
<1> QED BY <1>5, <1>6, <1>7, TakenDownIsShown

LEMMA RequestSentIsShown ==
  ASSUME ShownInv, NEW c \in Chara, NEW t \in Chara, RequestSent(c, t)
  PROVE  AbsentHoldNone' /\ ServerStateIsShown'
<1> DEFINE S == {c, t}
<1>1. /\ t # c /\ with[c] = None /\ with[t] = None /\ place[c] # Away /\ place[t] # Away
      /\ SweptAsking(S)[c] = None /\ SweptAsked(S)[t] = None
      /\ asked' = [SweptAsked(S) EXCEPT ![c] = t]
      /\ asking' = [SweptAsking(S) EXCEPT ![t] = c]
      /\ window' = [window EXCEPT ![c] = "waiting", ![t] = "box"]
      /\ UNCHANGED <<place, with>>
  BY DEF RequestSent, Online
<1>2. /\ SweptAsked(S) \in [Chara -> Chara \union {None}]
      /\ SweptAsking(S) \in [Chara -> Chara \union {None}]
      /\ \A d \in Chara : SweptAsked(S)[d] \in {asked[d], None}
      /\ \A d \in Chara : SweptAsking(S)[d] \in {asking[d], None}
  BY SweepOnlyClears DEF ShownInv, TradeInv
<1> HIDE DEF S
<1>3. /\ window'[c] = "waiting" /\ window'[t] = "box"
      /\ \A x \in Chara \ {c, t} : window'[x] = window[x]
      /\ asked'[c] = t /\ asked'[t] = None /\ asking'[t] = c /\ asking'[c] = None
      /\ \A x \in Chara \ {c} : asked'[x] \in {asked[x], None}
      /\ \A x \in Chara \ {t} : asking'[x] \in {asking[x], None}
  BY <1>1, <1>2 DEF ShownInv, TradeInv, TypeOK
<1>4. AbsentHoldNone'
  BY <1>1, <1>3 DEF ShownInv, AbsentHoldNone
<1>5. ASSUME NEW x \in Chara PROVE
        /\ with'[x] # None => window'[x] = "trading"
        /\ StillAsked(x)' => window'[x] = "waiting"
        /\ StillAsking(x)' => window'[x] = "box"
  <2>1. CASE x \in {c, t}
    BY <2>1, <1>1, <1>3 DEF StillAsked, StillAsking, Online
  <2>2. CASE x \notin {c, t}
    <3>1. with'[x] # None => window'[x] = "trading"
      BY <2>2, <1>1, <1>3 DEF ShownInv, ServerStateIsShown
    <3>2. ASSUME StillAsked(x)' PROVE window'[x] = "waiting"
      <4>1. /\ asked'[x] = asked[x] /\ asked[x] \in Chara /\ asking'[asked[x]] = x
            /\ place[asked[x]] # Away
        BY <3>2, <2>2, <1>1, <1>3 DEF StillAsked, Online, ShownInv, TradeInv, TypeOK
      <4>2. asking[asked[x]] = x
        BY <4>1, <2>2, <1>3, CharaAssumption
      <4> QED BY <4>1, <4>2, <2>2, <1>3, CharaAssumption
              DEF StillAsked, Online, ShownInv, ServerStateIsShown
    <3>3. ASSUME StillAsking(x)' PROVE window'[x] = "box"
      <4>1. /\ asking'[x] = asking[x] /\ asking[x] \in Chara /\ asked'[asking[x]] = x
            /\ place[asking[x]] # Away
        BY <3>3, <2>2, <1>1, <1>3 DEF StillAsking, Online, ShownInv, TradeInv, TypeOK
      <4>2. asked[asking[x]] = x
        BY <4>1, <2>2, <1>3, CharaAssumption
      <4> QED BY <4>1, <4>2, <2>2, <1>3, CharaAssumption
              DEF StillAsking, Online, ShownInv, ServerStateIsShown
    <3> QED BY <3>1, <3>2, <3>3
  <2> QED BY <2>1, <2>2
<1> QED BY <1>4, <1>5 DEF ServerStateIsShown

LEMMA AcceptIsShown ==
  ASSUME ShownInv, NEW c \in Chara, Accept(c)
  PROVE  AbsentHoldNone' /\ ServerStateIsShown'
<1>1. PICK a \in Chara :
        /\ SweptAsking({c})[c] = a
        /\ asked' = [SweptAsked({c}) EXCEPT ![a] = None]
        /\ asking' = [asking EXCEPT ![c] = None]
        /\ with' = [with EXCEPT ![c] = a, ![a] = c]
        /\ Shows({c, a}, "trading")
  BY DEF Accept, Answered
<1>2. asking[c] = a /\ asked[a] = c /\ UNCHANGED place
  BY <1>1, LiveApplicant DEF ShownInv, TradeInv, Accept
<1>3. asked[c] = None /\ asking[a] = None
  BY <1>2, CharaAssumption DEF ShownInv, TradeInv, OneApplication
<1>4. \A x \in Chara : /\ asked'[x] \in {asked[x], None} /\ asking'[x] \in {asking[x], None}
                       /\ x \notin {c, a} => with'[x] = with[x]
                       /\ x \in {c, a} => asked'[x] = None /\ asking'[x] = None
                       /\ window'[x] = IF x \in {c, a} THEN "trading" ELSE window[x]
  BY <1>1, <1>2, <1>3, SweepOnlyClears DEF Shows, ShownInv, TradeInv, TypeOK
<1>5. AbsentHoldNone'
  BY <1>2, <1>4 DEF ShownInv, AbsentHoldNone
<1>6. ASSUME NEW x \in Chara PROVE
        /\ with'[x] # None => window'[x] = "trading"
        /\ StillAsked(x)' => window'[x] = "waiting" /\ x \notin {c, a}
        /\ StillAsking(x)' => window'[x] = "box" /\ x \notin {c, a}
  <2>1. CASE x \in {c, a}
    BY <2>1, <1>4 DEF StillAsked, StillAsking, Online
  <2>2. CASE x \notin {c, a}
    <3>1. with'[x] = with[x] /\ window'[x] = window[x]
      BY <2>2, <1>4
    <3>2. StillAsked(x)' => StillAsked(x)
      BY <1>2, <1>4, CharaAssumption DEF StillAsked, Online, ShownInv, TradeInv, TypeOK
    <3>3. StillAsking(x)' => StillAsking(x)
      BY <1>2, <1>4, CharaAssumption DEF StillAsking, Online, ShownInv, TradeInv, TypeOK
    <3> QED BY <2>2, <3>1, <3>2, <3>3 DEF ShownInv, ServerStateIsShown
  <2> QED BY <2>1, <2>2
<1> QED BY <1>5, <1>6 DEF ServerStateIsShown

(* A no, a withdrawal and the end of a trade take down both ends; the      *)
(* sweep alone takes down only what no window shows any more.              *)
LEMMA EndingIsShown ==
  ASSUME ShownInv, NEW c \in Chara,
         Decline(c) \/ Withdraw(c) \/ CloseNothing(c) \/ Close(c)
  PROVE  AbsentHoldNone' /\ ServerStateIsShown'
<1>1. CASE Decline(c)
  <2>1. PICK a \in Chara : Answered(c, a) /\ Shows({c, a}, "map")
    BY <1>1 DEF Decline
  <2>2. asking[c] = a /\ asked[a] = c /\ UNCHANGED <<place, with>>
    BY <1>1, <2>1, LiveApplicant DEF ShownInv, TradeInv, Decline, Answered
  <2>3. /\ asked[c] = None /\ asking[a] = None /\ with[c] = None /\ with[a] = None
    BY <2>2, CharaAssumption DEF ShownInv, TradeInv, OneApplication
  <2>4. /\ {c, a} \in SUBSET Chara
        /\ \A x \in Chara : /\ asked'[x] \in {asked[x], None}
                            /\ asking'[x] \in {asking[x], None}
                            /\ with'[x] \in {with[x], None}
                            /\ place'[x] = place[x] \/ x \in {c, a}
        /\ \A x \in {c, a} : asked'[x] = None /\ asking'[x] = None /\ with'[x] = None
        /\ \A x \in Chara \ {c, a} : window'[x] = window[x]
    BY <2>1, <2>2, <2>3, SweepOnlyClears DEF Answered, Shows, ShownInv, TradeInv, TypeOK
  <2> QED BY <2>4, TakenDownIsShown
<1>2. CASE Withdraw(c)
  <2>1. PICK t \in Chara : /\ SweptAsked({c})[c] = t
                           /\ asked' = [asked EXCEPT ![c] = None]
                           /\ asking' = [SweptAsking({c}) EXCEPT ![t] = None]
                           /\ Shows({c, t}, "map")
    BY <1>2 DEF Withdraw
  <2>2. asked[c] = t /\ asking[t] = c /\ UNCHANGED <<place, with>>
    BY <1>2, <2>1, CharaAssumption
       DEF Withdraw, SweptAsked, StillAsked, ShownInv, TradeInv, TypeOK
  <2>3. asked[t] = None /\ asking[c] = None /\ with[c] = None /\ with[t] = None
    BY <2>2, CharaAssumption DEF ShownInv, TradeInv, OneApplication
  <2>4. /\ {c, t} \in SUBSET Chara
        /\ \A x \in Chara : /\ asked'[x] \in {asked[x], None}
                            /\ asking'[x] \in {asking[x], None}
                            /\ with'[x] \in {with[x], None}
                            /\ place'[x] = place[x] \/ x \in {c, t}
        /\ \A x \in {c, t} : asked'[x] = None /\ asking'[x] = None /\ with'[x] = None
        /\ \A x \in Chara \ {c, t} : window'[x] = window[x]
    BY <2>1, <2>2, <2>3, SweepOnlyClears DEF Shows, ShownInv, TradeInv, TypeOK
  <2> QED BY <2>4, TakenDownIsShown
<1>3. ASSUME NEW C \in SUBSET Chara, Cleared(C, {c}), UNCHANGED place,
             \A x \in Chara \ C : window'[x] = window[x]
      PROVE  AbsentHoldNone' /\ ServerStateIsShown'
  <2>1. /\ \A x \in Chara : /\ asked'[x] \in {asked[x], None}
                            /\ asking'[x] \in {asking[x], None}
                            /\ with'[x] \in {with[x], None}
                            /\ place'[x] = place[x] \/ x \in C
        /\ \A x \in C : asked'[x] = None /\ asking'[x] = None /\ with'[x] = None
    BY <1>3, SweepOnlyClears DEF Cleared, ShownInv, TradeInv, TypeOK
  <2> QED BY <1>3, <2>1, TakenDownIsShown
<1>4. CASE CloseNothing(c)
  BY <1>3, <1>4 DEF CloseNothing
<1>5. CASE Close(c)
  <2>1. with[c] \in Chara /\ UNCHANGED place /\ Cleared(BothEnds(c), {c})
    BY <1>5, PeerFacts DEF Close, ShownInv
  <2>2. /\ BothEnds(c) \in SUBSET Chara
        /\ \A x \in Chara \ BothEnds(c) : window'[x] = window[x]
    BY <1>5, <2>1 DEF Close, BothEnds, Shows
  <2> QED BY <1>3, <2>1, <2>2
<1> QED BY <1>1, <1>2, <1>4, <1>5

(* Steps that sweep at most, and touch no window.                          *)
LEMMA SweepIsShown ==
  ASSUME ShownInv, UNCHANGED <<place, with, window>>,
         \A x \in Chara : asked'[x] \in {asked[x], None},
         \A x \in Chara : asking'[x] \in {asking[x], None}
  PROVE  AbsentHoldNone' /\ ServerStateIsShown'
<1>1. /\ {} \in SUBSET Chara
      /\ \A x \in Chara : with'[x] \in {with[x], None} /\ place'[x] = place[x]
      /\ \A x \in Chara \ {} : window'[x] = window[x]
  OBVIOUS
<1> QED BY <1>1, TakenDownIsShown

LEMMA ShownInductive == ShownInv /\ [Next]_vars => ShownInv'
<1> SUFFICES ASSUME ShownInv, [Next]_vars PROVE AbsentHoldNone' /\ ServerStateIsShown'
  BY Inductive DEF ShownInv
<1>1. CASE UNCHANGED vars
  BY <1>1, SweepIsShown DEF vars
<1>2. ASSUME NEW c \in Chara, Enter(c) \/ Depart(c)
      PROVE  AbsentHoldNone' /\ ServerStateIsShown'
  BY <1>2, EnterIsShown, DepartIsShown
<1>3. ASSUME NEW c \in Chara, Handshake(c)
      PROVE  AbsentHoldNone' /\ ServerStateIsShown'
  <2>1. ASSUME NEW t \in Chara, RequestRefused(c, t)
        PROVE  AbsentHoldNone' /\ ServerStateIsShown'
    <3>1. PICK S \in SUBSET Chara : asked' = SweptAsked(S) /\ asking' = SweptAsking(S)
      BY <2>1 DEF RequestRefused
    <3>2. UNCHANGED <<place, with, window>>
      BY <2>1 DEF RequestRefused
    <3> QED BY <3>1, <3>2, SweepOnlyClears, SweepIsShown DEF ShownInv, TradeInv
  <2>2. CASE Press(c)
    BY <2>2, SweepIsShown DEF Press, wires
  <2>3. CASE AnswerNobody(c)
    BY <2>3, SweepOnlyClears, SweepIsShown DEF AnswerNobody, ShownInv, TradeInv
  <2> QED BY <1>3, <2>1, <2>2, <2>3, RequestSentIsShown, AcceptIsShown, EndingIsShown
          DEF Handshake
<1>4. ASSUME NEW c \in Chara, AtTheTable(c)
      PROVE  AbsentHoldNone' /\ ServerStateIsShown'
  <2>1. /\ asked' = SweptAsked({c}) /\ asking' = SweptAsking({c})
        /\ UNCHANGED <<place, with, window>>
    BY <1>4 DEF AtTheTable, Push, Recall, Ready, ReadyTo, Execute, ExecuteFails,
                TableRefused, OnTheTable
  <2> QED BY <2>1, SweepOnlyClears, SweepIsShown DEF ShownInv, TradeInv
<1>5. ASSUME NEW c \in Chara, InTheBag(c)
      PROVE  AbsentHoldNone' /\ ServerStateIsShown'
  <2>1. UNCHANGED <<place, asked, asking, with, window>>
    BY <1>5 DEF InTheBag, Spend, Gain, PutOn, TakeItOff, Elsewhere, wires
  <2> QED BY <2>1, SweepIsShown
<1> QED BY <1>1, <1>2, <1>3, <1>4, <1>5 DEF Next

(* Whatever crosses on the wire, whoever the server holds in a trade or an *)
(* application has the window of it on the screen: no player sits in a     *)
(* trade that their client does not show.                                  *)
THEOREM StateIsShown == Spec => []ServerStateIsShown
<1>1. Init => ShownInv
  BY TradeBegins DEF Init, ShownInv, AbsentHoldNone, ServerStateIsShown,
                   StillAsked, StillAsking, Online
<1>2. ShownInv => ServerStateIsShown
  BY DEF ShownInv
<1> QED BY <1>1, <1>2, ShownInductive, PTL DEF Spec

-----------------------------------------------------------------------------
(* The promise to the players.  A deal is a record, and no character is    *)
(* one, so a side has a deal exactly when it has readied an open table.    *)
LEMMA HasDeal ==
  ASSUME TypeOK, NEW c \in Chara
  PROVE  /\ dealOf(c) # None <=> with[c] # None /\ table[c].state # OFF
                                  /\ ~ table[c].settled
         /\ dealOf(c) # None =>
              dealOf(c) = [with |-> with[c], gives |-> table[c].rows,
                           takes |-> table[with[c]].rows,
                           final |-> table[c].state = EXECUTE]
<1>1. ASSUME with[c] # None, table[c].state # OFF, ~ table[c].settled
      PROVE  /\ dealOf(c) = [with |-> with[c], gives |-> table[c].rows,
                             takes |-> table[with[c]].rows,
                             final |-> table[c].state = EXECUTE]
             /\ dealOf(c) \in Deal
  <2>1. with[c] \in Chara
    BY <1>1 DEF TypeOK
  <2>2. table[c].rows \in Rows /\ table[with[c]].rows \in Rows
    BY <2>1 DEF TypeOK, Table
  <2>3. dealOf(c) = [with |-> with[c], gives |-> table[c].rows,
                     takes |-> table[with[c]].rows,
                     final |-> table[c].state = EXECUTE]
    BY <1>1 DEF dealOf
  <2>4. (table[c].state = EXECUTE) \in BOOLEAN
    OBVIOUS
  <2> QED BY <2>1, <2>2, <2>3, <2>4 DEF Deal
<1>2. CASE with[c] # None /\ table[c].state # OFF /\ ~ table[c].settled
  BY <1>1, <1>2, DealAssumption
<1>3. CASE ~ (with[c] # None /\ table[c].state # OFF /\ ~ table[c].settled)
  <2>1. dealOf(c) = None
    BY <1>3 DEF dealOf
  <2> QED BY <1>3, <2>1
<1> QED BY <1>2, <1>3

(* Steps that move nothing and keep every deal but those of C.             *)
LEMMA DealsLapse ==
  ASSUME NEW C \in SUBSET Chara, UNCHANGED bag,
         \A x \in C : dealOf(x)' = None,
         \A x \in Chara \ C : dealOf(x)' = dealOf(x)
  PROVE  Promise!Next
<1>1. Promise!Lapse(C)
  BY DEF Promise!Lapse, deals
<1> QED BY <1>1 DEF Promise!Next

(* Steps that close or unready the tables of C, which nobody else is at.   *)
LEMMA TablesLapse ==
  ASSUME NEW C \in SUBSET Chara, UNCHANGED bag,
         \A x \in C : with'[x] = None \/ table'[x].state = OFF,
         \A x \in Chara \ C : /\ with'[x] = with[x] /\ table'[x] = table[x]
                              /\ with[x] # None => table'[with[x]] = table[with[x]]
  PROVE  Promise!Next
<1>1. \A x \in C : dealOf(x)' = None
  BY DEF dealOf
<1>2. \A x \in Chara \ C : dealOf(x)' = dealOf(x)
  BY DEF dealOf
<1> QED BY <1>1, <1>2, DealsLapse

(* Nobody else trades with either end of a trade.                          *)
LEMMA OthersApart ==
  ASSUME TradeInv, NEW c \in Chara, HasPeer(c),
         NEW x \in Chara, x \notin {c, with[c]}, with[x] # None
  PROVE  with[x] \in Chara \ {c, with[c]}
BY PeerFacts DEF TradeInv, TypeOK, TradeIsMutual

LEMMA DepartLapses ==
  ASSUME TradeInv, NEW c \in Chara, Depart(c)
  PROVE  Promise!Next
<1>1. Partner(c) \in SUBSET Chara /\ \A x \in Partner(c) : with[c] = x /\ with[x] = c
  BY PeerFacts DEF Partner
<1>2. /\ with' = [x \in Chara |-> IF x \in Partner(c) \union {c} THEN None ELSE with[x]]
      /\ table' = [x \in Chara |->
                     IF x \in Partner(c) \union (IF with[c] # None THEN {c} ELSE {})
                     THEN EmptyTable ELSE table[x]]
      /\ UNCHANGED bag
  BY DEF Depart
<1> DEFINE C == Partner(c) \union {c}
<1>3. C \in SUBSET Chara /\ \A x \in C : with'[x] = None
  BY <1>1, <1>2
<1>4. ASSUME NEW x \in Chara \ C
      PROVE  /\ with'[x] = with[x] /\ table'[x] = table[x]
             /\ with[x] # None => table'[with[x]] = table[with[x]]
  <2>1. with'[x] = with[x] /\ table'[x] = table[x]
    BY <1>2
  <2>2. ASSUME with[x] # None PROVE with[x] \in Chara \ C
    BY <2>2, <1>1, CharaAssumption DEF TradeInv, TypeOK, TradeIsMutual, Partner, HasPeer, Online
  <2> QED BY <1>2, <2>1, <2>2
<1>5. \A x \in C : with'[x] = None \/ table'[x].state = OFF
  BY <1>3
<1>6. UNCHANGED bag
  BY <1>2
<1> HIDE DEF C
<1> QED BY <1>3, <1>4, <1>5, <1>6, TablesLapse

LEMMA AcceptLapses ==
  ASSUME TradeInv, NEW c \in Chara, Accept(c)
  PROVE  Promise!Next
<1>1. PICK a \in Chara : /\ SweptAsking({c})[c] = a
                         /\ with' = [with EXCEPT ![c] = a, ![a] = c]
                         /\ table' = [table EXCEPT ![c] = EmptyTable, ![a] = EmptyTable]
  BY DEF Accept, Answered
<1>2. with[c] = None /\ with[a] = None /\ UNCHANGED bag
  BY <1>1, LiveApplicant, CharaAssumption DEF TradeInv, OneApplication, Accept
<1>3. \A x \in {c, a} : table'[x].state = OFF
  BY <1>1 DEF TradeInv, TypeOK, EmptyTable
<1>4. ASSUME NEW x \in Chara \ {c, a}
      PROVE  /\ with'[x] = with[x] /\ table'[x] = table[x]
             /\ with[x] # None => table'[with[x]] = table[with[x]]
  <2>1. with[x] # None => with[x] \in Chara \ {c, a}
    BY <1>2, CharaAssumption DEF TradeInv, TypeOK, TradeIsMutual
  <2> QED BY <1>1, <2>1 DEF TradeInv, TypeOK
<1>5. {c, a} \in SUBSET Chara
  OBVIOUS
<1> QED BY <1>2, <1>3, <1>4, <1>5, TablesLapse

(* A closed trade lapses at both ends, and clearing one end that is in no  *)
(* trade lapses nothing of anybody's.                                      *)
LEMMA ClosingLapses ==
  ASSUME TradeInv, NEW c \in Chara, CloseNothing(c) \/ Close(c)
  PROVE  Promise!Next
<1>1. ASSUME NEW C \in SUBSET Chara, Cleared(C, {c}), UNCHANGED bag,
             \A x \in Chara \ C : with[x] # None => with[x] \in Chara \ C
      PROVE  Promise!Next
  <2>1. /\ \A x \in C : with'[x] = None
        /\ \A x \in Chara \ C : /\ with'[x] = with[x] /\ table'[x] = table[x]
                                /\ with[x] # None => table'[with[x]] = table[with[x]]
    BY <1>1 DEF Cleared
  <2> QED BY <1>1, <2>1, TablesLapse
<1>2. CASE CloseNothing(c)
  <2>1. /\ {c} \in SUBSET Chara /\ Cleared({c}, {c}) /\ UNCHANGED bag
    BY <1>2 DEF CloseNothing
  <2>2. \A x \in Chara \ {c} : with[x] # None => with[x] \in Chara \ {c}
    BY <1>2, CharaAssumption
       DEF CloseNothing, TradeInv, TypeOK, TradeIsMutual, HasPeer, Online
  <2> QED BY <1>1, <2>1, <2>2
<1>3. CASE Close(c)
  <2>1. /\ BothEnds(c) \in SUBSET Chara /\ Cleared(BothEnds(c), {c}) /\ UNCHANGED bag
    BY <1>3, PeerFacts DEF Close, BothEnds
  <2>2. \A x \in Chara \ BothEnds(c) : with[x] # None => with[x] \in Chara \ BothEnds(c)
    BY <1>3, OthersApart DEF Close, BothEnds
  <2> QED BY <1>1, <2>1, <2>2
<1> QED BY <1>2, <1>3

(* A changed table, and an exchange that fails, take both readies back.    *)
LEMMA TableLapses ==
  ASSUME TradeInv, NEW c \in Chara,
         \/ \E i \in Item, n \in 1..RowMax : Push(c, i, n) \/ Recall(c, i, n)
         \/ ExecuteFails(c)
  PROVE  Promise!Next
<1>1. HasPeer(c) /\ UNCHANGED <<with, bag>>
  BY DEF Push, Recall, ExecuteFails, ReadyTo, OnTheTable
<1>2. with[c] \in Chara /\ with[c] # c
  BY <1>1, PeerFacts
<1>3. \/ \E rows : Unready(c, rows)
      \/ table' = [table EXCEPT ![c].state = OFF, ![with[c]].state = OFF]
  BY DEF Push, Recall, ExecuteFails
<1>4. /\ table'[c].state = OFF /\ table'[with[c]].state = OFF
      /\ \A x \in Chara \ {c, with[c]} : table'[x] = table[x]
  <2>1. table \in [Chara -> Table]
    BY DEF TradeInv, TypeOK
  <2>2. CASE \E rows : Unready(c, rows)
    <3>1. PICK rows : table' = [table EXCEPT ![c].rows = rows, ![c].state = OFF,
                                             ![with[c]].state = OFF]
      BY <2>2 DEF Unready
    <3>2. /\ table'[c] = [table[c] EXCEPT !.rows = rows, !.state = OFF]
          /\ table'[with[c]] = [table[with[c]] EXCEPT !.state = OFF]
          /\ \A x \in Chara \ {c, with[c]} : table'[x] = table[x]
      BY <1>2, <2>1, <3>1
    <3>3. table[c] \in Table /\ table[with[c]] \in Table
      BY <1>2, <2>1
    <3> QED BY <3>2, <3>3 DEF Table
  <2>3. CASE table' = [table EXCEPT ![c].state = OFF, ![with[c]].state = OFF]
    BY <1>2, <2>1, <2>3 DEF Table
  <2> QED BY <1>3, <2>2, <2>3
<1>5. \A x \in Chara \ {c, with[c]} :
        with[x] # None => table'[with[x]] = table[with[x]]
  BY <1>1, <1>4, OthersApart
<1> DEFINE C == {c, with[c]}
<1>6. C \in SUBSET Chara /\ \A x \in C : table'[x].state = OFF
  BY <1>2, <1>4
<1>7. \A x \in Chara \ C : /\ with'[x] = with[x] /\ table'[x] = table[x]
                           /\ with[x] # None => table'[with[x]] = table[with[x]]
  BY <1>1, <1>4, <1>5
<1> HIDE DEF C
<1> QED BY <1>1, <1>6, <1>7, TablesLapse

(* 0x5115: a player agrees, gives the final word or takes it back, or      *)
(* takes the agreement back.                                               *)
LEMMA ReadyAgrees ==
  ASSUME TradeInv, NEW c \in Chara, NEW v \in ReadyState, Ready(c, v)
  PROVE  Promise!Next \/ UNCHANGED <<bag, deals>>
<1>1. /\ HasPeer(c) /\ ~ table[c].settled /\ UNCHANGED <<with, bag>>
      /\ v = EXECUTE => table[c].state = CONFIRMED
      /\ table' = [table EXCEPT ![c].state = v]
  BY DEF Ready, ReadyTo, OnTheTable
<1>2. /\ with[c] \in Chara /\ with[c] # c /\ with[c] # None /\ table \in [Chara -> Table]
  BY <1>1, PeerFacts DEF TradeInv, TypeOK
<1>3. /\ \A x \in Chara : table'[x].rows = table[x].rows
      /\ \A x \in Chara \ {c} : table'[x] = table[x]
      /\ table'[c].state = v /\ ~ table'[c].settled
  BY <1>1, <1>2 DEF Table
<1>4. \A x \in Chara \ {c} : dealOf(x)' = dealOf(x)
  BY <1>1, <1>3 DEF dealOf, TradeInv, TypeOK
<1>5. CASE v = OFF
  <2>1. dealOf(c)' = None
    BY <1>3, <1>5 DEF dealOf
  <2>2. {c} \in SUBSET Chara /\ \A x \in {c} : dealOf(x)' = None
    BY <2>1
  <2> QED BY <1>1, <1>4, <2>2, DealsLapse
<1>6. CASE v # OFF /\ table[c].state = OFF
  <2>1. v = CONFIRMED
    BY <1>1, <1>6 DEF ReadyState, OFF, CONFIRMED
  <2>2. dealOf(c)' = [with |-> with[c], gives |-> table[c].rows,
                      takes |-> table[with[c]].rows, final |-> FALSE]
    <3>1. dealOf(c)' = [with |-> with[c], gives |-> table[c].rows,
                        takes |-> table[with[c]].rows, final |-> v = EXECUTE]
      BY <1>1, <1>2, <1>3, <1>6 DEF dealOf
    <3>2. (v = EXECUTE) = FALSE
      BY <2>1 DEF CONFIRMED, EXECUTE
    <3> QED BY <3>1, <3>2
  <2>3. table[c].rows \in Rows /\ table[with[c]].rows \in Rows
    BY <1>2 DEF Table
  <2>4. dealOf(c)' \in [with : Chara \ {c}, gives : Rows, takes : Rows, final : {FALSE}]
    BY <1>2, <2>2, <2>3
  <2>5. dealOf(c) = None
    BY <1>6 DEF dealOf
  <2>6. Promise!Agree(c)
    BY <1>1, <1>4, <2>4, <2>5 DEF Promise!Agree, Promise!Rows, Rows, deals
  <2> QED BY <2>6 DEF Promise!Next
<1>7. CASE v # OFF /\ table[c].state # OFF
  <2>1. dealOf(c) = [with |-> with[c], gives |-> table[c].rows,
                     takes |-> table[with[c]].rows,
                     final |-> table[c].state = EXECUTE]
    BY <1>1, <1>2, <1>7 DEF dealOf
  <2>2. dealOf(c)' = [with |-> with[c], gives |-> table[c].rows,
                      takes |-> table[with[c]].rows, final |-> v = EXECUTE]
    BY <1>1, <1>2, <1>3, <1>7 DEF dealOf
  <2>3. CASE v = table[c].state
    <3>1. dealOf(c)' = dealOf(c)
      BY <2>1, <2>2, <2>3
    <3> QED BY <1>1, <1>4, <3>1 DEF deals
  <2>4. CASE v # table[c].state
    <3>1. dealOf(c) # None
      BY <1>1, <1>2, <1>7, HasDeal DEF TradeInv
    <3>2. (v = EXECUTE) = ~ (table[c].state = EXECUTE)
      BY <1>2, <1>7, <2>4 DEF Table, ReadyState, OFF, CONFIRMED, EXECUTE
    <3>3. dealOf(c)' = [dealOf(c) EXCEPT !.final = ~ @]
      <4>1. ASSUME NEW e \in BOOLEAN, dealOf(c).final = e
            PROVE  [dealOf(c) EXCEPT !.final = ~ @] =
                     [with |-> with[c], gives |-> table[c].rows,
                      takes |-> table[with[c]].rows, final |-> ~ e]
        BY <4>1, <2>1
      <4>2. dealOf(c).final = (table[c].state = EXECUTE)
        BY <2>1
      <4> QED BY <2>2, <3>2, <4>1, <4>2
    <3>4. Promise!FinalWord(c)
      BY <1>1, <1>4, <3>1, <3>3 DEF Promise!FinalWord, deals
    <3> QED BY <3>4 DEF Promise!Next
  <2> QED BY <2>3, <2>4
<1> QED BY <1>5, <1>6, <1>7

(* The exchange: both had given their final word on the same terms, and    *)
(* what is worn stays worn, for the worn copy is never part of the deal.   *)
LEMMA ExecuteExchanges ==
  ASSUME TradeInv, TradeInv', NEW c \in Chara, Execute(c)
  PROVE  Promise!Next
<1>0. PICK p \in Chara : p = with[c]
  BY PeerFacts DEF Execute, ReadyTo, OnTheTable
<1>1. /\ HasPeer(c) /\ ~ table[c].settled /\ ~ table[p].settled /\ UNCHANGED with
      /\ table[c].state = CONFIRMED /\ table[p].state = EXECUTE
      /\ Holds(c) /\ Holds(p)
      /\ bag' = [bag EXCEPT ![c] = GivenAndReceived(c, table[p].rows),
                            ![p] = GivenAndReceived(p, table[c].rows)]
      /\ table' = [table EXCEPT ![c].state = EXECUTE, ![c].settled = TRUE,
                                ![p].settled = TRUE]
  BY <1>0 DEF Execute, ReadyTo, OnTheTable, BothFinal, CanExecute, Settle
<1>2. /\ with[c] = p /\ p # c /\ p # None /\ with[p] = c /\ c # None
      /\ table \in [Chara -> Table] /\ bag \in [Chara -> Bag]
  BY <1>0, <1>1, PeerFacts, CharaAssumption DEF TradeInv, TypeOK
<1>3. /\ dealOf(c) = [with |-> p, gives |-> table[c].rows, takes |-> table[p].rows,
                      final |-> table[c].state = EXECUTE]
      /\ dealOf(p) = [with |-> c, gives |-> table[p].rows, takes |-> table[c].rows,
                      final |-> table[p].state = EXECUTE]
      /\ dealOf(c) # None /\ dealOf(p) # None
  BY <1>1, <1>2, HasDeal DEF TradeInv, OFF, CONFIRMED, EXECUTE
<1>4. ASSUME NEW d \in Chara, Holds(d), NEW rows \in Rows
      PROVE  GivenAndReceived(d, rows) =
               [bag[d] EXCEPT !.held = [i \in Item |->
                  bag[d].held[i] - table[d].rows[i] + rows[i]]]
  <2>1. bag[d] \in Bag /\ table[d].rows \in Rows
    BY <1>2 DEF Table
  <2>2. {i \in bag[d].worn : table[d].rows[i] = 0
                             \/ bag[d].held[i] # table[d].rows[i]} = bag[d].worn
    <3> SUFFICES ASSUME NEW i \in bag[d].worn, table[d].rows[i] # 0
                 PROVE  bag[d].held[i] # table[d].rows[i]
      OBVIOUS
    <3>1. /\ i \in Item /\ bag[d].held[i] \in Nat /\ table[d].rows[i] \in Nat
      BY <2>1 DEF Bag, Rows
    <3>2. bag[d].held[i] >= 1 + table[d].rows[i]
      BY <1>4, <3>1 DEF Holds, WornCopy
    <3> QED BY <3>1, <3>2
  <2>3. Given(d) = [held |-> [i \in Item |-> bag[d].held[i] - table[d].rows[i]],
                    worn |-> bag[d].worn]
    BY <2>2 DEF Given
  <2>4. GivenAndReceived(d, rows) =
          [held |-> [i \in Item |-> bag[d].held[i] - table[d].rows[i] + rows[i]],
           worn |-> bag[d].worn]
    BY <2>3 DEF GivenAndReceived
  <2> QED BY <2>1, <2>4 DEF Bag
<1>5. /\ bag' = [bag EXCEPT
                   ![c] = [bag[c] EXCEPT !.held = [i \in Item |->
                             bag[c].held[i] - dealOf(c).gives[i] + dealOf(c).takes[i]]],
                   ![p] = [bag[p] EXCEPT !.held = [i \in Item |->
                             bag[p].held[i] - dealOf(p).gives[i] + dealOf(p).takes[i]]]]
      /\ bag' \in [Chara -> Bag]
  <2>1. table[c].rows \in Rows /\ table[p].rows \in Rows
    BY <1>2 DEF Table
  <2>2. /\ dealOf(c).gives = table[c].rows /\ dealOf(c).takes = table[p].rows
        /\ dealOf(p).gives = table[p].rows /\ dealOf(p).takes = table[c].rows
    BY <1>3
  <2>3. /\ GivenAndReceived(c, table[p].rows) =
             [bag[c] EXCEPT !.held = [i \in Item |->
                bag[c].held[i] - dealOf(c).gives[i] + dealOf(c).takes[i]]]
        /\ GivenAndReceived(p, table[c].rows) =
             [bag[p] EXCEPT !.held = [i \in Item |->
                bag[p].held[i] - dealOf(p).gives[i] + dealOf(p).takes[i]]]
    BY <1>1, <1>4, <2>1, <2>2
  <2>4. bag' \in [Chara -> Bag]
    BY DEF TradeInv, TypeOK
  <2> QED BY <1>1, <2>3, <2>4
<1>6. /\ table'[c].settled = TRUE /\ table'[p].settled = TRUE
      /\ \A x \in Chara \ {c, p} : table'[x] = table[x]
  BY <1>1, <1>2 DEF Table
<1>7. dealOf(c)' = None /\ dealOf(p)' = None
  BY <1>6 DEF dealOf
<1>8. ASSUME NEW x \in Chara \ {c, p} PROVE dealOf(x)' = dealOf(x)
  <2>1. with[x] # None => with[x] \in Chara \ {c, p}
    BY <1>1, <1>2, OthersApart
  <2> QED BY <1>1, <1>6, <2>1 DEF dealOf
<1>9. Promise!Exchange(c, p)
  <2>1. /\ dealOf(c).with = p /\ dealOf(p).with = c
        /\ dealOf(c).gives = dealOf(p).takes /\ dealOf(c).takes = dealOf(p).gives
    BY <1>3
  <2>2. dealOf(p).final
    <3>1. dealOf(p).final = (table[p].state = EXECUTE)
      BY <1>3
    <3> QED BY <1>1, <3>1
  <2>3. deals' = [deals EXCEPT ![c] = None, ![p] = None]
    BY <1>2, <1>7, <1>8 DEF deals
  <2>4. deals[c] = dealOf(c) /\ deals[p] = dealOf(p)
    BY DEF deals
  <2>5. /\ deals[c].with = p /\ deals[p].with = c /\ deals[p].final
        /\ deals[c] # None /\ deals[p] # None
        /\ deals[c].gives = deals[p].takes /\ deals[c].takes = deals[p].gives
    BY <1>3, <2>1, <2>2, <2>4
  <2>6. /\ bag' = [bag EXCEPT
                     ![c] = [bag[c] EXCEPT !.held = [i \in Item |->
                               bag[c].held[i] - deals[c].gives[i] + deals[c].takes[i]]],
                     ![p] = [bag[p] EXCEPT !.held = [i \in Item |->
                               bag[p].held[i] - deals[p].gives[i] + deals[p].takes[i]]]]
        /\ bag' \in [Chara -> Promise!Bag]
    BY <1>5, <2>4 DEF Promise!Bag, Bag
  <2> QED
    BY <1>2, <2>3, <2>5, <2>6
    DEF Promise!Exchange, Promise!Mirrors
<1> QED BY <1>2, <1>9 DEF Promise!Next

LEMMA StepKeepsPromise ==
  ASSUME TradeInv, TradeInv', [Next]_vars
  PROVE  Promise!Next \/ UNCHANGED <<bag, deals>>
<1>1. ASSUME UNCHANGED <<bag, with, table>>
      PROVE  UNCHANGED <<bag, deals>>
  BY <1>1 DEF dealOf, deals
<1>2. CASE UNCHANGED vars
  BY <1>1, <1>2 DEF vars, wires
<1>3. ASSUME NEW c \in Chara, Enter(c) \/ Depart(c)
      PROVE  Promise!Next \/ UNCHANGED <<bag, deals>>
  BY <1>1, <1>3, DepartLapses DEF Enter, wires
<1>4. ASSUME NEW c \in Chara, Handshake(c)
      PROVE  Promise!Next \/ UNCHANGED <<bag, deals>>
  <2>1. CASE Accept(c) \/ CloseNothing(c) \/ Close(c)
    BY <2>1, AcceptLapses, ClosingLapses
  <2>2. CASE ~ (Accept(c) \/ CloseNothing(c) \/ Close(c))
    <3>1. UNCHANGED <<bag, with, table>>
      BY <1>4, <2>2 DEF Handshake, RequestSent, RequestRefused, Press, AnswerNobody,
                        Decline, Withdraw, wires
    <3> QED BY <1>1, <3>1
  <2> QED BY <2>1, <2>2
<1>5. ASSUME NEW c \in Chara, AtTheTable(c)
      PROVE  Promise!Next \/ UNCHANGED <<bag, deals>>
  <2>1. CASE TableRefused(c)
    BY <1>1, <2>1 DEF TableRefused
  <2> QED BY <1>5, <2>1, TableLapses, ReadyAgrees, ExecuteExchanges DEF AtTheTable
<1>6. ASSUME NEW c \in Chara, InTheBag(c)
      PROVE  Promise!Next \/ UNCHANGED <<bag, deals>>
  <2>1. PICK b : Elsewhere(c, b)
    BY <1>6 DEF InTheBag, Spend, Gain, PutOn, TakeItOff
  <2>2. /\ bag' = [bag EXCEPT ![c] = b] /\ UNCHANGED <<with, table>>
        /\ bag \in [Chara -> Bag] /\ bag' \in [Chara -> Bag]
    BY <2>1 DEF Elsewhere, wires, TradeInv, TypeOK
  <2>3. UNCHANGED deals
    BY <2>2 DEF dealOf, deals
  <2>4. bag'[c] \in Bag /\ bag' = [bag EXCEPT ![c] = bag'[c]]
    BY <2>2
  <2>5. Promise!Otherwise(c)
    BY <2>3, <2>4 DEF Promise!Otherwise, Promise!Bag, Bag
  <2> QED BY <2>5 DEF Promise!Next
<1> QED BY <1>2, <1>3, <1>4, <1>5, <1>6 DEF Next

(* Whatever the two players press, in whatever order the messages cross    *)
(* and whatever else happens to their bags, what moves is what both of     *)
(* them agreed to, on both sides at once, or nothing does.                 *)
THEOREM TradeIsFair == Spec => FairTrade
<1>1. Init => Promise!Init
  BY DEF Init, Promise!Init, Promise!Bag, Bag, dealOf, deals
<1>2. TradeInv /\ TradeInv' /\ [Next]_vars => [Promise!Next]_<<bag, deals>>
  BY StepKeepsPromise
<1> QED
  BY <1>1, <1>2, InvariantHolds, PTL DEF Spec, FairTrade, Promise!Spec
-----------------------------------------------------------------------------
(* What a file holds when it can be read, and a write a handler can owe.   *)
Contents == IndexData \union Edges \union Records \union Shelf
Writes == [file : File, data : Contents]

(* What the files say.                                                     *)
Readable(f) == disk[f] \notin {Torn, Absent}
OnDisk(a, c) == Readable(CharsFile(a)) /\ disk[CharsFile(a)][c] # None
Covered(a, c) == Readable(IndexFile) /\ disk[IndexFile].owner[c] = a

(* Every write a handler owes is one its file can hold.                    *)
Typed ==
  /\ BooksTypeOK
  /\ disk \in [File -> Contents \union {Torn, Absent}]
  /\ due \in Seq(Writes)
  /\ \A k \in 1..Len(due), a \in Account :
       due[k].file = CharsFile(a) => due[k].data \in Records
(* A process that is down owes nothing and plays nobody.                   *)
DownIsBlank ==
  ~ up => /\ due = <<>>
          /\ \A a \in Account : locker[a] = NotLoaded /\ school[a] = None

(* SavedOrOwed, file by file.                                              *)
Synced ==
  up => /\ Owed(IndexFile) \/ Read(IndexFile, NoIndex) = [owner |-> owner, next |-> next]
        /\ Owed(FriendsFile) \/ Read(FriendsFile, {}) = book
        /\ \A a \in Account : /\ \/ Owed(CharsFile(a))
                                 \/ Read(CharsFile(a), NoRecords) = record[a]
                              /\ \/ Owed(LockerFile(a)) \/ locker[a] = NotLoaded
                                 \/ Read(LockerFile(a), EmptyShelf) = locker[a]

(* The last write a handler owes a file says what memory says; of all the  *)
(* files only the characters are written more than once.                   *)
Carried ==
  \A k \in 1..Len(due) :
    /\ due[k].file = IndexFile => due[k].data = [owner |-> owner, next |-> next]
    /\ due[k].file = FriendsFile => due[k].data = book
    /\ \A a \in Account :
         /\ due[k].file = LockerFile(a) =>
              due[k].data = locker[a] /\ locker[a] # NotLoaded
         /\ due[k].file = CharsFile(a) =>
              \/ due[k].data = record[a]
              \/ \E j \in k + 1..Len(due) : due[j].file = CharsFile(a)

(* Nothing is owned at the counter or past it, and the counter never falls *)
(* behind its file; nobody tears that file.                                *)
CounterIsPast ==
  /\ \A c \in Id : owner[c] # None => c < next
  /\ Readable(IndexFile) =>
       /\ \A c \in Id : disk[IndexFile].owner[c] # None => c < disk[IndexFile].next
       /\ up => disk[IndexFile].next <= next
  /\ disk[IndexFile] # Torn

RecordsOwned ==
  up => \A a \in Account, c \in Id : record[a][c] # None => owner[c] = a

EnrolledArePast ==
  /\ \A a \in Account, c \in Id : OnDisk(a, c) => Covered(a, c) /\ c \in enrolled
  /\ \A c \in enrolled : Readable(IndexFile) /\ c < disk[IndexFile].next

(* A record goes to disk behind its id, and an id leaves the index behind  *)
(* its record.                                                             *)
IndexFirstInLast ==
  \A k \in 1..Len(due), a \in Account, c \in Id :
    /\ due[k].file = CharsFile(a) /\ due[k].data[c] # None =>
         /\ owner[c] = a
         /\ Covered(a, c) \/ \E j \in 1..k - 1 : due[j].file = IndexFile
    /\ due[k].file = IndexFile /\ OnDisk(a, c) =>
         owner[c] = a \/ \E j \in 1..k - 1 : due[j].file = CharsFile(a)

(* Ids, records and files keep each other's order; each part leans on      *)
(* another.                                                                *)
BooksInv == /\ Typed /\ DownIsBlank /\ Synced /\ Carried
            /\ CounterIsPast /\ RecordsOwned /\ EnrolledArePast /\ IndexFirstInLast

(* Nothing is worn that is not carried, in memory, on disk or on its way   *)
(* there, where a record adopted at the next login comes from.             *)
SoundRecords(records) == \A c \in Id : records[c] # None => Sound(records[c].bag)

BagsAreSound ==
  \A a \in Account :
    /\ SoundRecords(record[a])
    /\ Readable(CharsFile(a)) => SoundRecords(disk[CharsFile(a)])
    /\ \A k \in 1..Len(due) : due[k].file = CharsFile(a) => SoundRecords(due[k].data)

(* Whoever is at school has a record to be drawn from.                     *)
PlayersExist ==
  \A a \in Account : school[a] # None => record[a][school[a]] # None

RegistryInv == BooksInv /\ BagsAreSound /\ PlayersExist /\ LooksAreWorn

-----------------------------------------------------------------------------
(* The names of the files are apart, and there are no others.              *)
LEMMA Files ==
  /\ IndexFile \in File /\ FriendsFile \in File /\ IndexFile # FriendsFile
  /\ \A a \in Account :
       /\ CharsFile(a) \in File /\ LockerFile(a) \in File
       /\ CharsFile(a) # IndexFile /\ CharsFile(a) # FriendsFile
       /\ LockerFile(a) # IndexFile /\ LockerFile(a) # FriendsFile
       /\ \A b \in Account : /\ CharsFile(a) # LockerFile(b)
                             /\ CharsFile(a) = CharsFile(b) => a = b
                             /\ LockerFile(a) = LockerFile(b) => a = b
  /\ \A f \in File : \/ f = IndexFile \/ f = FriendsFile
                     \/ \E a \in Account : f = CharsFile(a) \/ f = LockerFile(a)
  /\ \A f \in File : f[1] = "chars" <=> \E a \in Account : f = CharsFile(a)
BY DEF File, IndexFile, FriendsFile, CharsFile, LockerFile

LEMMA FilesByName ==
  /\ Memory(IndexFile) = [owner |-> owner, next |-> next]
  /\ Nothing(IndexFile) = NoIndex
  /\ Memory(FriendsFile) = book /\ Nothing(FriendsFile) = {}
  /\ \A a \in Account :
       /\ Memory(CharsFile(a)) = record[a] /\ Nothing(CharsFile(a)) = NoRecords
       /\ Memory(LockerFile(a)) = locker[a] /\ Nothing(LockerFile(a)) = EmptyShelf
       /\ CharsFile(a)[1] = "chars" /\ CharsFile(a)[2] = a
       /\ LockerFile(a)[1] = "locker" /\ LockerFile(a)[2] = a
BY DEF Memory, Nothing, IndexFile, FriendsFile, CharsFile, LockerFile

(* SavedOrOwed is what Synced says of each file by name.                   *)
LEMMA SyncedIsSaved == Synced => SavedOrOwed
<1> SUFFICES ASSUME Synced, up, NEW f \in File
             PROVE  \/ Owed(f)
                    \/ f[1] = "locker" /\ locker[f[2]] = NotLoaded
                    \/ IF disk[f] \in {Torn, Absent} THEN Memory(f) = Nothing(f)
                                                     ELSE Memory(f) = disk[f]
  BY DEF SavedOrOwed
<1>1. CASE f = IndexFile
  BY <1>1, FilesByName DEF Synced, Read
<1>2. CASE f = FriendsFile
  BY <1>2, FilesByName DEF Synced, Read
<1>3. ASSUME NEW a \in Account, f = CharsFile(a) \/ f = LockerFile(a)
      PROVE  \/ Owed(f)
             \/ f[1] = "locker" /\ locker[f[2]] = NotLoaded
             \/ IF disk[f] \in {Torn, Absent} THEN Memory(f) = Nothing(f)
                                              ELSE Memory(f) = disk[f]
  <2>1. CASE f = CharsFile(a)
    BY <2>1, FilesByName DEF Synced, Read
  <2>2. CASE f = LockerFile(a)
    BY <2>2, FilesByName DEF Synced, Read
  <2> QED BY <1>3, <2>1, <2>2
<1> QED BY <1>1, <1>2, <1>3, Files

(* The kinds of data are what their names say.                             *)
LEMMA Blank ==
  /\ NoIndex \in IndexData /\ NoRecords \in Records /\ EmptyShelf \in Shelf
  /\ InitialShelf \in Shelf /\ EmptyHanded \in Bag /\ {} \in Edges
  /\ \A d \in Contents : d # Torn /\ d # Absent
  /\ NotLoaded \notin Shelf /\ None \notin Record
<1>1. NoIndex \in IndexData
  BY NotebookAssumption DEF NoIndex, IndexData
<1>2. EmptyShelf \in Shelf /\ InitialShelf \in Shelf /\ EmptyHanded \in Bag
  BY RowMaxAssumption DEF EmptyShelf, InitialShelf, Shelf, EmptyHanded, Bag
<1>3. NoRecords \in Records /\ {} \in Edges
  BY DEF NoRecords, Records, Edges
<1> QED BY <1>1, <1>2, <1>3, ValueAssumption DEF Contents

LEMMA BooksBegin == BooksInit => RegistryInv
<1> SUFFICES ASSUME BooksInit PROVE RegistryInv
  OBVIOUS
<1>1. /\ due = <<>> /\ Len(due) = 0 /\ due \in Seq(Writes)
      /\ \A f \in File : disk[f] = Absent /\ ~ Readable(f)
  BY DEF BooksInit, Readable
<1>2. BooksTypeOK
  BY <1>1, Files, Blank, NotebookAssumption DEF BooksInit, BooksTypeOK, NoIndex, IndexData
<1>3. Typed
  BY <1>1, <1>2 DEF Typed, BooksInit
<1>4. DownIsBlank /\ Synced /\ RecordsOwned
  BY DEF BooksInit, DownIsBlank, Synced, RecordsOwned
<1>5. Carried /\ IndexFirstInLast
  BY <1>1 DEF Carried, IndexFirstInLast
<1>6. CounterIsPast /\ EnrolledArePast
  BY <1>1, Files, ValueAssumption
     DEF BooksInit, CounterIsPast, EnrolledArePast, OnDisk, NoIndex
<1>7. BagsAreSound /\ PlayersExist /\ LooksAreWorn
  BY <1>1, Files DEF BooksInit, BagsAreSound, SoundRecords, PlayersExist, LooksAreWorn, NoRecords
<1> QED BY <1>3, <1>4, <1>5, <1>6, <1>7 DEF RegistryInv, BooksInv

-----------------------------------------------------------------------------
(* One write goes out.                                                     *)
LEMMA WriteKeepsBooks ==
  ASSUME BooksInv, Write
  PROVE  BooksInv'
<1> DEFINE w == due[1]
<1>1. /\ due # <<>> /\ disk' = [disk EXCEPT ![w.file] = w.data]
      /\ UNCHANGED <<owner, next, record, locker, book, up, school>>
      /\ enrolled' = enrolled \union (IF w.file[1] = "chars"
                                      THEN {c \in Id : w.data[c] # None} ELSE {})
  <2>1. Head(due) = w
    BY DEF BooksInv, Typed
  <2> QED BY <2>1 DEF Write, memory
<1>2. /\ due \in Seq(Writes) /\ Len(due) \in Nat \ {0} /\ due' \in Seq(Writes)
      /\ Len(due') = Len(due) - 1
      /\ \A k \in 1..Len(due') : due'[k] = due[k + 1]
  BY <1>1, HeadTailProperties, EmptySeq DEF Write, BooksInv, Typed
<1>3. /\ \A k \in 1..Len(due') : k + 1 \in 1..Len(due) /\ due'[k] = due[k + 1]
      /\ \A k \in 2..Len(due) : k - 1 \in 1..Len(due') /\ due'[k - 1] = due[k]
      /\ 1 \in 1..Len(due)
      /\ DOMAIN due = 1..Len(due) /\ DOMAIN due' = 1..Len(due')
  <2>1. ASSUME NEW k \in 2..Len(due)
        PROVE  k - 1 \in 1..Len(due') /\ due'[k - 1] = due[k]
    <3>1. k - 1 \in 1..Len(due') /\ (k - 1) + 1 = k
      BY <1>2
    <3> QED BY <3>1, <1>2
  <2> QED BY <1>2, <2>1
<1>4. /\ w \in Writes /\ w.file \in File /\ w.data \in Contents
      /\ disk'[w.file] = w.data /\ \A f \in File : f # w.file => disk'[f] = disk[f]
      /\ w.data # Torn /\ w.data # Absent
      /\ disk' \in [File -> Contents \union {Torn, Absent}]
  <2>1. w \in Writes
    BY <1>2, <1>3, ElementOfSeq
  <2>2. w.file \in File /\ w.data \in Contents
    BY <2>1 DEF Writes
  <2>3. disk \in [File -> Contents \union {Torn, Absent}]
    BY DEF BooksInv, Typed
  <2> HIDE DEF w
  <2> QED BY <1>1, <2>1, <2>2, <2>3, Blank
<1>5. up
  BY <1>1 DEF BooksInv, DownIsBlank
<1>6. /\ w.file = IndexFile => w.data = [owner |-> owner, next |-> next]
      /\ w.file = FriendsFile => w.data = book
      /\ \A a \in Account :
           /\ w.file = LockerFile(a) => w.data = locker[a] /\ locker[a] # NotLoaded
           /\ w.file = CharsFile(a) =>
                w.data = record[a] \/ \E j \in 2..Len(due) : due[j].file = CharsFile(a)
  BY <1>3 DEF BooksInv, Carried
<1> HIDE DEF w
<1>7. Typed'
  <2>1. BooksTypeOK'
    <3>1. disk'[IndexFile] \in IndexData \union {Torn, Absent}
      BY <1>4, <1>6, Files DEF BooksInv, Typed, BooksTypeOK, IndexData
    <3>2. disk'[FriendsFile] \in Edges \union {Torn, Absent}
      BY <1>4, <1>6, Files DEF BooksInv, Typed, BooksTypeOK
    <3>3. \A a \in Account : w.file = CharsFile(a) => w.data \in Records
      BY <1>3 DEF BooksInv, Typed, w
    <3>4. \A a \in Account : disk'[CharsFile(a)] \in Records \union {Torn, Absent}
      BY <1>4, <3>3, Files DEF BooksInv, Typed, BooksTypeOK
    <3>5. \A a \in Account : w.file = LockerFile(a) => w.data \in Shelf
      BY <1>6 DEF BooksInv, Typed, BooksTypeOK
    <3>6. \A a \in Account : disk'[LockerFile(a)] \in Shelf \union {Torn, Absent}
      BY <1>4, <3>5, Files DEF BooksInv, Typed, BooksTypeOK
    <3>7. enrolled' \in SUBSET Id
      BY <1>1 DEF BooksInv, Typed, BooksTypeOK
    <3> QED BY <1>1, <3>1, <3>2, <3>4, <3>6, <3>7 DEF BooksInv, Typed, BooksTypeOK
  <2>2. \A k \in 1..Len(due'), a \in Account :
          due'[k].file = CharsFile(a) => due'[k].data \in Records
    BY <1>3 DEF BooksInv, Typed
  <2> QED BY <1>2, <1>4, <2>1, <2>2 DEF Typed
<1>8. DownIsBlank'
  BY <1>1, <1>5 DEF DownIsBlank
<1>9. Carried'
  <2> SUFFICES ASSUME NEW k \in 1..Len(due')
               PROVE  /\ due'[k].file = IndexFile =>
                           due'[k].data = [owner |-> owner, next |-> next]
                      /\ due'[k].file = FriendsFile => due'[k].data = book
                      /\ \A a \in Account :
                           /\ due'[k].file = LockerFile(a) =>
                                due'[k].data = locker[a] /\ locker[a] # NotLoaded
                           /\ due'[k].file = CharsFile(a) =>
                                \/ due'[k].data = record[a]
                                \/ \E j \in k + 1..Len(due') : due'[j].file = CharsFile(a)
    BY <1>1 DEF Carried
  <2>1. k + 1 \in 1..Len(due) /\ due'[k] = due[k + 1]
    BY <1>3
  <2>2. ASSUME NEW j \in (k + 1) + 1..Len(due)
        PROVE  j - 1 \in k + 1..Len(due') /\ due'[j - 1] = due[j]
    BY <1>2, <1>3
  <2>3. ASSUME NEW a \in Account, due'[k].file = CharsFile(a)
        PROVE  \/ due'[k].data = record[a]
               \/ \E j \in k + 1..Len(due') : due'[j].file = CharsFile(a)
    <3>1. \/ due[k + 1].data = record[a]
          \/ \E j \in (k + 1) + 1..Len(due) : due[j].file = CharsFile(a)
      BY <2>1, <2>3 DEF BooksInv, Carried
    <3> QED BY <2>1, <2>2, <3>1
  <2> QED BY <2>1, <2>3 DEF BooksInv, Carried
<1>10. ASSUME NEW f \in File, f # w.file
       PROVE  (Owed(f)' <=> Owed(f)) /\ disk'[f] = disk[f]
  <2>1. ASSUME NEW k \in 1..Len(due), due[k].file = f PROVE Owed(f)'
    <3>1. k \in 2..Len(due)
      BY <2>1, <1>2, <1>10 DEF w
    <3> QED BY <2>1, <3>1, <1>3 DEF Owed
  <2>2. ASSUME NEW k \in 1..Len(due'), due'[k].file = f PROVE Owed(f)
    BY <2>2, <1>3 DEF Owed
  <2> QED BY <2>1, <2>2, <1>3, <1>4, <1>10 DEF Owed
<1>11. Synced'
  <2>1. Owed(IndexFile)' \/ Read(IndexFile, NoIndex)' = [owner |-> owner, next |-> next]
    BY <1>4, <1>5, <1>6, <1>10, Files DEF BooksInv, Synced, Read
  <2>2. Owed(FriendsFile)' \/ Read(FriendsFile, {})' = book
    BY <1>4, <1>5, <1>6, <1>10, Files DEF BooksInv, Synced, Read
  <2>3. ASSUME NEW a \in Account
        PROVE  Owed(CharsFile(a))' \/ Read(CharsFile(a), NoRecords)' = record[a]
    <3>1. CASE w.file # CharsFile(a)
      BY <3>1, <1>5, <1>10, Files DEF BooksInv, Synced, Read
    <3>2. CASE w.file = CharsFile(a)
      <4>1. ASSUME NEW j \in 2..Len(due), due[j].file = CharsFile(a)
            PROVE  Owed(CharsFile(a))'
        <5>1. j - 1 \in 1..Len(due') /\ due'[j - 1] = due[j]
          BY <1>2, <1>3
        <5> QED BY <4>1, <5>1, <1>3 DEF Owed
      <4> QED BY <3>2, <4>1, <1>4, <1>6 DEF Read
    <3> QED BY <3>1, <3>2
  <2>4. ASSUME NEW a \in Account
        PROVE  \/ Owed(LockerFile(a))' \/ locker[a] = NotLoaded
               \/ Read(LockerFile(a), EmptyShelf)' = locker[a]
    BY <1>4, <1>5, <1>6, <1>10, Files DEF BooksInv, Synced, Read
  <2> QED BY <1>1, <2>1, <2>2, <2>3, <2>4 DEF Synced
<1>12. \A a \in Account, c \in Id : w.file = CharsFile(a) /\ w.data[c] # None =>
         owner[c] = a /\ Covered(a, c)
  <2>1. ~ \E j \in 1..0 : due[j].file = IndexFile
    OBVIOUS
  <2> QED BY <1>3, <2>1 DEF w, BooksInv, IndexFirstInLast
<1>13. ASSUME w.file = IndexFile
       PROVE  CounterIsPast' /\ EnrolledArePast' /\ IndexFirstInLast'
  <2>1. /\ disk'[IndexFile] = [owner |-> owner, next |-> next] /\ Readable(IndexFile)'
        /\ \A f \in File \ {IndexFile} : disk'[f] = disk[f]
    BY <1>13, <1>4, <1>6, Files DEF Readable
  <2>2. \A a \in Account, c \in Id : OnDisk(a, c) => owner[c] = a
    <3>1. \A a \in Account : ~ \E j \in 1..0 : due[j].file = CharsFile(a)
      OBVIOUS
    <3> QED BY <1>13, <1>3, <3>1 DEF w, BooksInv, IndexFirstInLast
  <2>3. \A a \in Account, c \in Id : OnDisk(a, c)' = OnDisk(a, c)
    BY <2>1, Files DEF OnDisk, Readable
  <2>4. CounterIsPast' /\ enrolled' = enrolled
    BY <1>1, <1>13, <2>1, Files
       DEF BooksInv, CounterIsPast, Typed, BooksTypeOK, Readable
  <2>5. /\ next \in Nat /\ Id \subseteq Nat
        /\ Readable(IndexFile) => disk[IndexFile].next \in Nat /\ disk[IndexFile].next <= next
    BY <1>5 DEF BooksInv, Typed, BooksTypeOK, IndexData, CounterIsPast, Readable, Id
  <2>6. /\ \A c \in enrolled' : c < disk'[IndexFile].next
        /\ \A a \in Account, c \in Id : OnDisk(a, c)' => Covered(a, c)' /\ c \in enrolled'
    <3>1. disk'[IndexFile].owner = owner /\ disk'[IndexFile].next = next
      BY <2>1
    <3>2. \A c \in enrolled : c \in Id /\ Readable(IndexFile) /\ c < disk[IndexFile].next
      BY DEF BooksInv, EnrolledArePast, Typed, BooksTypeOK
    <3>3. \A c \in enrolled' : c < disk'[IndexFile].next
      <4>1. ASSUME NEW c \in enrolled
            PROVE  c < next
        <5>1. PICK n \in Nat : n = disk[IndexFile].next
          BY <2>5, <3>2
        <5>2. c \in Nat /\ c < n /\ n <= next
          BY <2>5, <3>2, <5>1
        <5> QED BY <2>5, <5>2
      <4> QED BY <2>4, <3>1, <4>1
    <3>4. ASSUME NEW a \in Account, NEW c \in Id, OnDisk(a, c)'
          PROVE  Covered(a, c)' /\ c \in enrolled'
      <4>1. OnDisk(a, c) /\ owner[c] = a
        BY <2>2, <2>3, <3>4
      <4>2. c \in enrolled
        BY <4>1 DEF BooksInv, EnrolledArePast
      <4> QED BY <2>1, <2>4, <3>1, <4>1, <4>2 DEF Covered
    <3> QED BY <3>3, <3>4
  <2>7. IndexFirstInLast'
    <3> SUFFICES ASSUME NEW k \in 1..Len(due'), NEW a \in Account, NEW c \in Id
                 PROVE  /\ due'[k].file = CharsFile(a) /\ due'[k].data[c] # None =>
                             owner[c] = a /\ Covered(a, c)'
                        /\ OnDisk(a, c)' => owner[c] = a
      BY <1>1 DEF IndexFirstInLast
    <3>1. due'[k].file = CharsFile(a) /\ due'[k].data[c] # None => owner[c] = a
      BY <1>3 DEF BooksInv, IndexFirstInLast
    <3> QED BY <2>1, <2>2, <2>3, <3>1 DEF Covered
  <2> QED BY <2>1, <2>4, <2>6, <2>7 DEF EnrolledArePast
<1>14. ASSUME w.file # IndexFile
       PROVE  CounterIsPast' /\ EnrolledArePast' /\ IndexFirstInLast'
  <2>1. /\ disk'[IndexFile] = disk[IndexFile] /\ Readable(IndexFile)' = Readable(IndexFile)
        /\ \A a \in Account, c \in Id : Covered(a, c)' <=> Covered(a, c)
    BY <1>14, <1>4, Files DEF Readable, Covered
  <2>2. CounterIsPast'
    BY <1>1, <2>1 DEF BooksInv, CounterIsPast
  <2>3. ASSUME NEW a \in Account, NEW c \in Id, OnDisk(a, c)'
        PROVE  IF w.file = CharsFile(a) THEN w.data[c] # None ELSE OnDisk(a, c)
    BY <2>3, <1>4, Files DEF OnDisk, Readable
  <2>4. EnrolledArePast'
    <3>1. ASSUME NEW a \in Account, NEW c \in Id, OnDisk(a, c)'
          PROVE  Covered(a, c)' /\ c \in enrolled'
      <4>1. CASE w.file = CharsFile(a)
        BY <4>1, <3>1, <2>1, <2>3, <1>1, <1>4, <1>12, Files
      <4>2. CASE w.file # CharsFile(a)
        BY <4>2, <3>1, <2>1, <2>3, <1>1 DEF BooksInv, EnrolledArePast
      <4> QED BY <4>1, <4>2
    <3>2. ASSUME NEW c \in enrolled', c \notin enrolled
          PROVE  Readable(IndexFile) /\ c < disk[IndexFile].next
      <4>1. c \in Id /\ w.file[1] = "chars" /\ w.data[c] # None
        BY <3>2, <1>1
      <4>2. PICK a \in Account : w.file = CharsFile(a)
        BY <4>1, <1>4, Files
      <4>3. Covered(a, c) /\ a # None
        BY <4>1, <4>2, <1>12, ValueAssumption
      <4> QED BY <4>1, <4>3 DEF Covered, BooksInv, CounterIsPast
    <3> QED BY <3>1, <3>2, <2>1 DEF BooksInv, EnrolledArePast
  <2>5. IndexFirstInLast'
    <3> SUFFICES ASSUME NEW k \in 1..Len(due'), NEW a \in Account, NEW c \in Id
                 PROVE  /\ due'[k].file = CharsFile(a) /\ due'[k].data[c] # None =>
                             /\ owner[c] = a
                             /\ \/ Covered(a, c)'
                                \/ \E j \in 1..k - 1 : due'[j].file = IndexFile
                        /\ due'[k].file = IndexFile /\ OnDisk(a, c)' =>
                             \/ owner[c] = a
                             \/ \E j \in 1..k - 1 : due'[j].file = CharsFile(a)
      BY <1>1 DEF IndexFirstInLast
    <3>1. k + 1 \in 1..Len(due) /\ due'[k] = due[k + 1] /\ (k + 1) - 1 = k
      BY <1>2, <1>3
    <3>2. \A j \in 1..k : \/ j = 1 /\ due[j] = w
                          \/ j - 1 \in 1..k - 1 /\ due'[j - 1] = due[j]
      BY <1>2, <1>3 DEF w
    <3>3. ASSUME due'[k].file = CharsFile(a), due'[k].data[c] # None
          PROVE  /\ owner[c] = a
                 /\ Covered(a, c)' \/ \E j \in 1..k - 1 : due'[j].file = IndexFile
      <4>1. owner[c] = a /\ (Covered(a, c) \/ \E j \in 1..k : due[j].file = IndexFile)
        BY <3>1, <3>3 DEF BooksInv, IndexFirstInLast
      <4> QED BY <4>1, <3>2, <2>1, <1>14
    <3>4. ASSUME due'[k].file = IndexFile, OnDisk(a, c)'
          PROVE  owner[c] = a \/ \E j \in 1..k - 1 : due'[j].file = CharsFile(a)
      <4>1. CASE w.file = CharsFile(a)
        BY <4>1, <3>4, <2>3, <1>12
      <4>2. CASE w.file # CharsFile(a)
        <5>1. owner[c] = a \/ \E j \in 1..k : due[j].file = CharsFile(a)
          BY <4>2, <3>1, <3>4, <2>3 DEF BooksInv, IndexFirstInLast
        <5> QED BY <4>2, <5>1, <3>2
      <4> QED BY <4>1, <4>2
    <3> QED BY <3>3, <3>4
  <2> QED BY <2>2, <2>4, <2>5
<1>15. RecordsOwned'
  BY <1>1 DEF BooksInv, RecordsOwned
<1> QED BY <1>7, <1>8, <1>9, <1>11, <1>13, <1>14, <1>15 DEF BooksInv

(* The process dies; at most the file it was writing is torn.              *)
LEMMA DiesKeepsBooks ==
  ASSUME BooksInv, Dies, NEW torn \in SUBSET (File \ {IndexFile}),
         disk' = [f \in File |-> IF f \in torn THEN Torn ELSE disk[f]]
  PROVE  BooksInv'
<1>1. /\ up' = FALSE /\ due' = <<>> /\ UNCHANGED enrolled
      /\ owner' = NoIndex.owner /\ next' = NoIndex.next
      /\ record' = [a \in Account |-> NoRecords]
      /\ locker' = [a \in Account |-> NotLoaded]
      /\ book' = {} /\ school' = [a \in Account |-> None]
  BY DEF Dies, Forgotten
<1>2. /\ disk'[IndexFile] = disk[IndexFile]
      /\ \A f \in File : disk'[f] = disk[f] \/ disk'[f] = Torn
      /\ disk' \in [File -> Contents \union {Torn, Absent}]
  BY Files DEF BooksInv, Typed
<1>3. Typed'
  <2>1. BooksTypeOK'
    <3>1. /\ disk'[IndexFile] \in IndexData \union {Torn, Absent}
          /\ disk'[FriendsFile] \in Edges \union {Torn, Absent}
          /\ \A a \in Account :
               /\ disk'[CharsFile(a)] \in Records \union {Torn, Absent}
               /\ disk'[LockerFile(a)] \in Shelf \union {Torn, Absent}
      BY <1>2, Files DEF BooksInv, Typed, BooksTypeOK
    <3>2. owner' \in [Id -> Account \union {None}] /\ next' \in 1..MaxId + 1
      BY <1>1, NotebookAssumption DEF NoIndex
    <3>3. enrolled' \in SUBSET Id
      BY <1>1 DEF BooksInv, Typed, BooksTypeOK
    <3> QED BY <1>1, <3>1, <3>2, <3>3, Blank DEF BooksTypeOK
  <2> QED BY <1>1, <1>2, <2>1 DEF Typed
<1>4. DownIsBlank' /\ Synced' /\ RecordsOwned'
  BY <1>1 DEF DownIsBlank, Synced, RecordsOwned
<1>5. Carried' /\ IndexFirstInLast'
  BY <1>1 DEF Carried, IndexFirstInLast
<1>6. CounterIsPast'
  BY <1>1, <1>2 DEF BooksInv, CounterIsPast, NoIndex, Readable
<1>7. EnrolledArePast'
  <2>1. \A a \in Account, c \in Id : OnDisk(a, c)' => OnDisk(a, c)
    BY <1>2, Files DEF OnDisk, Readable
  <2> QED BY <1>1, <1>2, <2>1 DEF BooksInv, EnrolledArePast, Covered, Readable
<1> QED BY <1>3, <1>4, <1>5, <1>6, <1>7 DEF BooksInv

LEMMA CrashKeepsBooks ==
  ASSUME IndexFile \notin Tearable, BooksInv, Crash \/ CrashInsideWrite
  PROVE  BooksInv'
<1>1. CASE Crash
  <2>1. disk' = [f \in File |-> IF f \in {} THEN Torn ELSE disk[f]]
    BY <1>1 DEF Crash, BooksInv, Typed
  <2>2. {} \in SUBSET (File \ {IndexFile})
    OBVIOUS
  <2> QED BY <1>1, <2>1, <2>2, DiesKeepsBooks DEF Crash
<1>2. CASE CrashInsideWrite
  <2>1. due # <<>> /\ due \in Seq(Writes)
    BY <1>2 DEF CrashInsideWrite, BooksInv, Typed
  <2>2. Head(due).file \in File \ {IndexFile}
    <3>1. Head(due) \in Writes
      BY <2>1, HeadTailProperties
    <3> QED BY <1>2, <3>1 DEF CrashInsideWrite, Writes
  <2>3. disk' = [f \in File |-> IF f \in {Head(due).file} THEN Torn ELSE disk[f]]
    BY <1>2, <2>2 DEF CrashInsideWrite, BooksInv, Typed
  <2>4. {Head(due).file} \in SUBSET (File \ {IndexFile})
    BY <2>2
  <2> QED BY <1>2, <2>3, <2>4, DiesKeepsBooks DEF CrashInsideWrite
<1> QED BY <1>1, <1>2

(* The process starts: the index on disk covers the records on disk, so    *)
(* backfill finds nothing to add.                                          *)
LEMMA BootKeepsBooks ==
  ASSUME BooksInv, Boot
  PROVE  /\ BooksInv' /\ record' = Found /\ UNCHANGED <<disk, school>>
         /\ \A k \in 1..Len(due'), a \in Account : due'[k].file # CharsFile(a)
<1> DEFINE index == Read(IndexFile, NoIndex)
           Holders(c) == {a \in Account : Found[a][c] # None}
           seen == {c \in Id : Holders(c) # {}}
           owners == [c \in Id |-> IF c \in seen THEN CHOOSE a \in Holders(c) : TRUE
                                                 ELSE index.owner[c]]
           counter == CHOOSE n \in {index.next} \union {c + 1 : c \in seen} :
                        n >= index.next /\ \A c \in seen : n > c
           changed == disk[IndexFile] = Absent \/ owners # index.owner
                                               \/ counter # index.next
<1>1. /\ ~ up /\ up' = TRUE /\ owner' = owners /\ next' = counter
      /\ record' = Found /\ book' = Read(FriendsFile, {})
      /\ due' = If(changed, <<SaveIndex(owners, counter)>>)
      /\ UNCHANGED <<locker, disk, school, enrolled>>
  BY DEF Boot
<1>2. index \in IndexData /\ Read(FriendsFile, {}) \in Edges
  BY Blank DEF Read, BooksInv, Typed, BooksTypeOK
<1>3. Found \in [Account -> Records]
  BY Blank DEF Found, Read, BooksInv, Typed, BooksTypeOK
<1>4. ASSUME NEW c \in Id, NEW a \in Account, Found[a][c] # None
      PROVE  OnDisk(a, c) /\ index.owner[c] = a /\ c < index.next
  <2>1. OnDisk(a, c)
    BY <1>4 DEF Found, Read, OnDisk, Readable, NoRecords
  <2>2. Covered(a, c) /\ a # None
    BY <2>1, ValueAssumption DEF BooksInv, EnrolledArePast
  <2> QED BY <2>1, <2>2 DEF Covered, Read, Readable, BooksInv, CounterIsPast
<1>5. owners = index.owner
  <2>1. ASSUME NEW c \in seen PROVE (CHOOSE a \in Holders(c) : TRUE) = index.owner[c]
    BY <2>1, <1>4
  <2> QED BY <1>2, <2>1 DEF IndexData
<1>6. counter = index.next
  <2>1. index.next \in Nat /\ Id \subseteq Nat /\ \A c \in seen : c < index.next
    BY <1>2, <1>4, NotebookAssumption DEF IndexData, Id
  <2>2. \E n \in {index.next} \union {c + 1 : c \in seen} :
          n >= index.next /\ \A c \in seen : n > c
    <3>1. index.next >= index.next /\ \A c \in seen : index.next > c
      BY <2>1
    <3> QED BY <3>1
  <2>3. counter \in {index.next} \union {c + 1 : c \in seen} /\ counter >= index.next
    BY <2>2
  <2>4. \A c \in seen : c + 1 <= index.next
    BY <2>1
  <2> QED BY <2>1, <2>3, <2>4
<1> HIDE DEF index, seen, Holders, owners, counter, changed
<1>7. /\ owner' = index.owner /\ next' = index.next
      /\ due' = IF disk[IndexFile] = Absent THEN <<SaveIndex(owner', next')>> ELSE <<>>
  BY <1>1, <1>5, <1>6 DEF changed, If
<1>8. SaveIndex(owner', next') \in Writes
  BY <1>2, <1>7, Files DEF SaveIndex, Written, Writes, Contents, IndexData
<1>9. /\ due' \in Seq(Writes)
      /\ \A k \in 1..Len(due') : /\ k = 1 /\ disk[IndexFile] = Absent
                                 /\ due'[k].file = IndexFile
                                 /\ due'[k].data = [owner |-> owner', next |-> next']
      /\ disk[IndexFile] = Absent => Owed(IndexFile)'
  BY <1>7, <1>8 DEF SaveIndex, Written, Owed
<1>10. Typed'
  <2>1. BooksTypeOK'
    BY <1>1, <1>2, <1>3, <1>7 DEF BooksInv, Typed, BooksTypeOK, IndexData
  <2> QED BY <1>1, <1>9, <2>1, Files DEF BooksInv, Typed
<1>11. DownIsBlank' /\ Carried'
  BY <1>1, <1>9, Files DEF DownIsBlank, Carried
<1>12. Synced'
  <2>1. Owed(IndexFile)' \/ Read(IndexFile, NoIndex)' = [owner |-> owner', next |-> next']
    <3>1. Read(IndexFile, NoIndex)' = index
      BY <1>1 DEF Read, index
    <3>2. index = [owner |-> index.owner, next |-> index.next]
      BY <1>2 DEF IndexData
    <3> QED BY <1>7, <3>1, <3>2
  <2>2. /\ Read(FriendsFile, {})' = book'
        /\ \A a \in Account : Read(CharsFile(a), NoRecords)' = record'[a]
        /\ \A a \in Account : locker'[a] = NotLoaded
    BY <1>1 DEF Read, Found, BooksInv, DownIsBlank
  <2> QED BY <2>1, <2>2 DEF Synced
<1>13. CounterIsPast'
  BY <1>1, <1>2, <1>7, NotebookAssumption
     DEF BooksInv, CounterIsPast, index, Read, Readable, NoIndex, IndexData
<1>14. RecordsOwned' /\ EnrolledArePast'
  BY <1>1, <1>4, <1>7
     DEF RecordsOwned, BooksInv, EnrolledArePast, OnDisk, Covered, Readable
<1>15. IndexFirstInLast'
  <2>1. disk[IndexFile] = Absent => \A a \in Account, c \in Id : ~ OnDisk(a, c)'
    BY <1>1 DEF BooksInv, EnrolledArePast, OnDisk, Covered, Readable
  <2> QED BY <1>9, <2>1, Files DEF IndexFirstInLast
<1> QED
  BY <1>1, <1>9, <1>10, <1>11, <1>12, <1>13, <1>14, <1>15, Files DEF BooksInv

-----------------------------------------------------------------------------
(* Between two handlers memory and files agree, so every record is on disk *)
(* under an id the index on disk knows.                                    *)
LEMMA Idle ==
  ASSUME BooksInv, up, due = <<>>
  PROVE  /\ Read(IndexFile, NoIndex) = [owner |-> owner, next |-> next]
         /\ Read(FriendsFile, {}) = book
         /\ \A a \in Account : /\ Read(CharsFile(a), NoRecords) = record[a]
                               /\ \/ locker[a] = NotLoaded
                                  \/ Read(LockerFile(a), EmptyShelf) = locker[a]
         /\ \A a \in Account, c \in Id :
              /\ OnDisk(a, c) <=> record[a][c] # None
              /\ record[a][c] # None => owner[c] = a /\ Covered(a, c) /\ c < next
         /\ Len(due) = 0
<1>1. \A f \in File : ~ Owed(f)
  BY DEF Owed
<1>2. /\ Read(IndexFile, NoIndex) = [owner |-> owner, next |-> next]
      /\ Read(FriendsFile, {}) = book
      /\ \A a \in Account : /\ Read(CharsFile(a), NoRecords) = record[a]
                            /\ \/ locker[a] = NotLoaded
                               \/ Read(LockerFile(a), EmptyShelf) = locker[a]
  BY <1>1, Files DEF BooksInv, Synced
<1>3. ASSUME NEW a \in Account, NEW c \in Id
      PROVE  OnDisk(a, c) <=> record[a][c] # None
  BY <1>2 DEF Read, OnDisk, Readable, NoRecords
<1>4. ASSUME NEW a \in Account, NEW c \in Id, record[a][c] # None
      PROVE  owner[c] = a /\ Covered(a, c) /\ c < next
  BY <1>3, <1>4, ValueAssumption
     DEF BooksInv, RecordsOwned, EnrolledArePast, CounterIsPast
<1> QED BY <1>2, <1>3, <1>4

(* A handler that changes what characters carry and what lockers hold: it  *)
(* owes each file it touched, the last time with what memory says, and     *)
(* begins no character.                                                    *)
LEMMA ItemsKeepBooks ==
  ASSUME BooksInv, up, due = <<>>, UNCHANGED <<owner, next, book, disk, up, enrolled>>,
         school' \in [Account -> Id \union {None}],
         record' \in [Account -> Records],
         locker' \in [Account -> Shelf \union {NotLoaded}],
         due' \in Seq(Writes),
         \A k \in 1..Len(due') : \E a \in Account :
           \/ /\ due'[k].file = LockerFile(a) /\ due'[k].data = locker'[a]
              /\ locker'[a] # NotLoaded
           \/ /\ due'[k].file = CharsFile(a) /\ due'[k].data \in Records
              /\ \A c \in Id : due'[k].data[c] # None => record[a][c] # None
              /\ \/ due'[k].data = record'[a]
                 \/ \E j \in k + 1..Len(due') : due'[j].file = CharsFile(a),
         \A a \in Account :
           /\ \/ record'[a] = record[a]
              \/ \E k \in 1..Len(due') : due'[k].file = CharsFile(a)
           /\ \/ locker'[a] = locker[a]
              \/ \E k \in 1..Len(due') : due'[k].file = LockerFile(a)
              \/ Read(LockerFile(a), EmptyShelf) = locker'[a]
           /\ \A c \in Id : record'[a][c] # None => record[a][c] # None
  PROVE  BooksInv'
<1>1. Typed'
  <2>1. BooksTypeOK'
    BY DEF BooksInv, Typed, BooksTypeOK
  <2>2. \A k \in 1..Len(due'), a \in Account :
          due'[k].file = CharsFile(a) => due'[k].data \in Records
    BY Files
  <2> QED BY <2>1, <2>2 DEF BooksInv, Typed
<1>2. DownIsBlank'
  BY DEF DownIsBlank
<1>3. /\ \A k \in 1..Len(due') : due'[k].file # IndexFile /\ due'[k].file # FriendsFile
      /\ \A a \in Account : (\E k \in 1..Len(due') : due'[k].file = CharsFile(a))
                              => Owed(CharsFile(a))'
      /\ \A a \in Account : (\E k \in 1..Len(due') : due'[k].file = LockerFile(a))
                              => Owed(LockerFile(a))'
  BY Files DEF Owed
<1>4. Synced'
  <2>1. ASSUME NEW a \in Account
        PROVE  Owed(CharsFile(a))' \/ Read(CharsFile(a), NoRecords)' = record'[a]
    BY <1>3, Idle DEF Read
  <2>2. ASSUME NEW a \in Account
        PROVE  \/ Owed(LockerFile(a))' \/ locker'[a] = NotLoaded
               \/ Read(LockerFile(a), EmptyShelf)' = locker'[a]
    BY <1>3, Idle DEF Read
  <2> QED BY <2>1, <2>2, Idle DEF Synced, Read
<1>5. Carried'
  BY <1>3, Files DEF Carried
<1>6. CounterIsPast' /\ EnrolledArePast'
  BY DEF BooksInv, CounterIsPast, EnrolledArePast, OnDisk, Covered, Readable
<1>7. RecordsOwned'
  BY DEF BooksInv, RecordsOwned
<1>8. IndexFirstInLast'
  BY <1>3, Files, Idle DEF IndexFirstInLast, Covered, Readable
<1> QED BY <1>1, <1>2, <1>4, <1>5, <1>6, <1>7, <1>8 DEF BooksInv

(* The address books: one file, written whenever memory changes.           *)
LEMMA FriendsKeepBooks ==
  ASSUME BooksInv, NEW c \in Id, NEW d \in Id, Befriend(c, d) \/ Unfriend(c, d)
  PROVE  BooksInv' /\ UNCHANGED <<record, disk, school>>
         /\ \A k \in 1..Len(due'), a \in Account : due'[k].file # CharsFile(a)
<1> DEFINE w == SaveFriends(book')
<1>1. /\ up /\ due = <<>> /\ due' = <<w>> /\ book' \in Edges
      /\ UNCHANGED <<owner, next, record, locker, school, disk, up, enrolled>>
  BY DEF Befriend, Unfriend, Owes, BooksInv, Typed, BooksTypeOK, Edges
<1>2. w \in Writes /\ w.file = FriendsFile /\ w.data = book'
  BY <1>1, Files DEF SaveFriends, Written, Writes, Contents
<1> HIDE DEF w
<1>3. /\ due' \in Seq(Writes) /\ Len(due') = 1
      /\ \A k \in 1..Len(due') : k = 1 /\ due'[k] = w
      /\ Owed(FriendsFile)'
  BY <1>1, <1>2 DEF Owed
<1>4. Typed'
  <2>1. BooksTypeOK'
    BY <1>1 DEF BooksInv, Typed, BooksTypeOK
  <2> QED BY <1>1, <1>2, <1>3, <2>1, Files DEF BooksInv, Typed
<1>5. DownIsBlank' /\ Carried'
  BY <1>1, <1>2, <1>3, Files DEF DownIsBlank, Carried
<1>6. Synced'
  BY <1>1, <1>3, Idle DEF Synced, Read
<1>7. CounterIsPast' /\ EnrolledArePast' /\ RecordsOwned'
  BY <1>1 DEF BooksInv, CounterIsPast, EnrolledArePast, OnDisk, Covered, Readable,
              RecordsOwned
<1>8. IndexFirstInLast'
  BY <1>2, <1>3, Files DEF IndexFirstInLast
<1> QED BY <1>1, <1>2, <1>3, <1>4, <1>5, <1>6, <1>7, <1>8, Files DEF BooksInv

-----------------------------------------------------------------------------
(* The writes of a handler, one after the other.                           *)
LEMMA OneAndOne ==
  ASSUME NEW x \in Writes, NEW y \in Writes
  PROVE  <<x>> \o <<y>> = <<x, y>>
<1>1. <<x>> \o <<y>> \in Seq(Writes) /\ <<x, y>> \in Seq(Writes)
  OBVIOUS
<1>2. Len(<<x>> \o <<y>>) = 2 /\ Len(<<x, y>>) = 2
  OBVIOUS
<1>3. \A i \in 1..2 : (<<x>> \o <<y>>)[i] = <<x, y>>[i]
  OBVIOUS
<1> QED BY <1>1, <1>2, <1>3, SeqEqual

LEMMA OneAndTwo ==
  ASSUME NEW x \in Writes, NEW y \in Writes, NEW z \in Writes
  PROVE  <<x>> \o <<y, z>> = <<x, y, z>>
<1>1. <<x>> \o <<y, z>> \in Seq(Writes) /\ <<x, y, z>> \in Seq(Writes)
  OBVIOUS
<1>2. Len(<<x>> \o <<y, z>>) = 3 /\ Len(<<x, y, z>>) = 3
  OBVIOUS
<1>3. \A i \in 1..3 : (<<x>> \o <<y, z>>)[i] = <<x, y, z>>[i]
  OBVIOUS
<1> QED BY <1>1, <1>2, <1>3, SeqEqual

LEMMA TwoAndOne ==
  ASSUME NEW x \in Writes, NEW y \in Writes, NEW z \in Writes
  PROVE  <<x, y>> \o <<z>> = <<x, y, z>>
<1>1. <<x, y>> \o <<z>> \in Seq(Writes) /\ <<x, y, z>> \in Seq(Writes)
  OBVIOUS
<1>2. Len(<<x, y>> \o <<z>>) = 3 /\ Len(<<x, y, z>>) = 3
  OBVIOUS
<1>3. \A i \in 1..3 : (<<x, y>> \o <<z>>)[i] = <<x, y, z>>[i]
  OBVIOUS
<1> QED BY <1>1, <1>2, <1>3, SeqEqual

LEMMA TwoAndTwo ==
  ASSUME NEW x \in Writes, NEW y \in Writes, NEW z \in Writes, NEW w \in Writes
  PROVE  <<x, y>> \o <<z, w>> = <<x, y, z, w>>
<1>1. <<x, y>> \o <<z, w>> \in Seq(Writes) /\ <<x, y, z, w>> \in Seq(Writes)
  OBVIOUS
<1>2. Len(<<x, y>> \o <<z, w>>) = 4 /\ Len(<<x, y, z, w>>) = 4
  OBVIOUS
<1>3. \A i \in 1..4 : (<<x, y>> \o <<z, w>>)[i] = <<x, y, z, w>>[i]
  OBVIOUS
<1> QED BY <1>1, <1>2, <1>3, SeqEqual

LEMMA ThreeAndOne ==
  ASSUME NEW x \in Writes, NEW y \in Writes, NEW z \in Writes, NEW w \in Writes
  PROVE  <<x, y, z>> \o <<w>> = <<x, y, z, w>>
<1>1. <<x, y, z>> \o <<w>> \in Seq(Writes) /\ <<x, y, z, w>> \in Seq(Writes)
  OBVIOUS
<1>2. Len(<<x, y, z>> \o <<w>>) = 4 /\ Len(<<x, y, z, w>>) = 4
  OBVIOUS
<1>3. \A i \in 1..4 : (<<x, y, z>> \o <<w>>)[i] = <<x, y, z, w>>[i]
  OBVIOUS
<1> QED BY <1>1, <1>2, <1>3, SeqEqual

LEMMA NoneLeft ==
  /\ \A s \in Seq(Writes) : s \o <<>> = s /\ <<>> \o s = s
  /\ <<>> \in Seq(Writes)
BY ConcatEmptySeq

-----------------------------------------------------------------------------
(* A new character: its id is the counter, which goes to disk before the   *)
(* record does.                                                            *)
LEMMA MintedIsNext ==
  ASSUME BooksInv, Unclaimed # {}
  PROVE  next \in Id /\ Minted = next
<1>1. \A c \in Id : c >= next => owner[c] = None
  BY NotebookAssumption DEF BooksInv, CounterIsPast, Typed, BooksTypeOK, Id
<1>2. next \in Nat \ {0} /\ Id \subseteq Nat
  BY NotebookAssumption DEF BooksInv, Typed, BooksTypeOK, Id
<1>3. PICK c \in Id : c >= next
  BY DEF Unclaimed
<1>4. next \in Id
  BY <1>2, <1>3, NotebookAssumption DEF Id
<1>5. next \in Unclaimed /\ \A d \in Unclaimed : next <= d /\ d \in Nat
  BY <1>1, <1>2, <1>4 DEF Unclaimed
<1>6. Minted \in Unclaimed /\ \A d \in Unclaimed : Minted <= d
  BY <1>5 DEF Minted
<1>7. Minted <= next /\ next <= Minted /\ Minted \in Nat
  BY <1>5, <1>6
<1> QED BY <1>2, <1>4, <1>7

(* What Create leaves in memory and owes to disk.                          *)
LEMMA Created ==
  ASSUME RegistryInv, NEW a \in Account, NEW picks \in SUBSET Item, Create(a, picks)
  PROVE  /\ up /\ due = <<>> /\ UNCHANGED <<book, disk, up, enrolled, school>>
         /\ school[a] = None
         /\ next \in Id /\ next' = next + 1
         /\ owner' = [owner EXCEPT ![next] = a]
         /\ locker' \in [Account -> Shelf \union {NotLoaded}]
         /\ \A b \in Account \ {a} : locker'[b] = locker[b]
         /\ \E pack \in Bag, shelf \in Shelf :
              LET first == [record[a] EXCEPT ![next] =
                              [bag |-> EmptyHanded, looks |-> picks]]
                  final == [record[a] EXCEPT ![next] = [bag |-> pack, looks |-> picks]]
              IN  /\ Sound(pack) /\ first \in Records /\ final \in Records
                  /\ record' = [record EXCEPT ![a] = final]
                  /\ locker' = [locker EXCEPT ![a] = shelf]
                  /\ \/ /\ due' = <<SaveIndex(owner', next'), SaveChars(a, first)>>
                        /\ final = first /\ locker' = locker
                     \/ due' = <<SaveIndex(owner', next'), SaveChars(a, first),
                                 SaveChars(a, final), SaveLocker(a, shelf)>>
<1> DEFINE shelf == [i \in Item |-> locker[a][i] - (IF i \in picks THEN 1 ELSE 0)]
           dressed == [held |-> [i \in Item |-> IF i \in picks THEN 1 ELSE 0],
                       worn |-> picks]
           first == [record[a] EXCEPT ![next] = [bag |-> EmptyHanded, looks |-> picks]]
           final == [record[a] EXCEPT ![next] = [bag |-> dressed, looks |-> picks]]
<1>1. next \in Id /\ Minted = next
  BY MintedIsNext DEF Create, RegistryInv
<1>2. /\ school[a] = None /\ UNCHANGED school /\ locker[a] # NotLoaded
      /\ Offered(a, picks)
      /\ owner' = [owner EXCEPT ![next] = a] /\ next' = next + 1
      /\ record' = [record EXCEPT ![a] = final]
      /\ locker' = [locker EXCEPT ![a] = shelf]
      /\ up /\ due = <<>>
      /\ due' = IndexFirst(a, [owner EXCEPT ![next] = a], next + 1, first)
                  \o If(picks # {}, <<SaveChars(a, final), SaveLocker(a, shelf)>>)
      /\ UNCHANGED <<book, disk, up, enrolled>>
  BY <1>1 DEF Create, AtTheGate, Owes
<1>3. /\ record[a] \in Records /\ locker[a] \in Shelf
      /\ locker \in [Account -> Shelf \union {NotLoaded}]
  BY <1>2 DEF RegistryInv, BooksInv, Typed, BooksTypeOK
<1>4. picks \subseteq Accessory /\ \A i \in picks : locker[a][i] >= 1
  BY <1>2 DEF Offered
<1>5. dressed \in Bag /\ Sound(dressed)
  <2>1. [i \in Item |-> IF i \in picks THEN 1 ELSE 0] \in [Item -> 0..RowMax]
    BY RowMaxAssumption
  <2>2. dressed \in Bag
    BY <2>1 DEF Bag
  <2>3. ASSUME NEW i \in picks PROVE dressed.held[i] > 0
    OBVIOUS
  <2>4. dressed.worn = picks
    OBVIOUS
  <2> HIDE DEF dressed
  <2> QED BY <2>2, <2>3, <2>4 DEF Sound
<1>6. shelf \in Shelf
  BY <1>3, <1>4, RowMaxAssumption DEF Shelf
<1>7. first \in Records /\ final \in Records
  BY <1>1, <1>3, <1>4, <1>5, Blank DEF Records, Record
<1> HIDE DEF dressed, shelf, first, final
<1>8. /\ SaveIndex([owner EXCEPT ![next] = a], next + 1) \in Writes
      /\ SaveChars(a, first) \in Writes /\ SaveChars(a, final) \in Writes
      /\ SaveLocker(a, shelf) \in Writes
  <2>1. [owner |-> [owner EXCEPT ![next] = a], next |-> next + 1] \in IndexData
    BY <1>1, NotebookAssumption DEF RegistryInv, BooksInv, Typed, BooksTypeOK, IndexData, Id
  <2> QED BY <2>1, <1>6, <1>7, Files
          DEF SaveIndex, SaveChars, SaveLocker, Written, Writes, Contents
<1>9. \/ /\ due' = <<SaveIndex(owner', next'), SaveChars(a, first)>>
         /\ final = first /\ locker' = locker
      \/ due' = <<SaveIndex(owner', next'), SaveChars(a, first),
                  SaveChars(a, final), SaveLocker(a, shelf)>>
  <2>1. CASE picks = {}
    <3>1. dressed = EmptyHanded
      BY <2>1 DEF dressed, EmptyHanded
    <3>2. shelf = locker[a]
      BY <2>1, <1>3 DEF shelf, Shelf
    <3>3. final = first
      BY <3>1 DEF final, first
    <3>4. due' = <<SaveIndex(owner', next'), SaveChars(a, first)>>
      <4> DEFINE w1 == SaveIndex([owner EXCEPT ![next] = a], next + 1)
                 w2 == SaveChars(a, first)
      <4>1. due' = <<w1, w2>> \o <<>>
        BY <2>1, <1>2 DEF IndexFirst, If
      <4>2. w1 \in Writes /\ w2 \in Writes /\ w1 = SaveIndex(owner', next')
        BY <1>2, <1>8
      <4> HIDE DEF w1, w2
      <4>3. <<w1, w2>> \in Seq(Writes)
        BY <4>2
      <4> QED BY <4>1, <4>2, <4>3, NoneLeft DEF w2
    <3> QED BY <3>2, <3>3, <3>4, <1>2, <1>3
  <2>2. CASE picks # {}
    <3> DEFINE w1 == SaveIndex([owner EXCEPT ![next] = a], next + 1)
               w2 == SaveChars(a, first)
               w3 == SaveChars(a, final)
               w4 == SaveLocker(a, shelf)
    <3>1. due' = <<w1, w2>> \o <<w3, w4>>
      BY <2>2, <1>2 DEF IndexFirst, If
    <3>2. w1 \in Writes /\ w2 \in Writes /\ w3 \in Writes /\ w4 \in Writes
      BY <1>8
    <3>3. w1 = SaveIndex(owner', next')
      BY <1>2
    <3> HIDE DEF w1, w2, w3, w4
    <3>4. <<w1, w2>> \o <<w3, w4>> = <<w1, w2, w3, w4>>
      BY <3>2, TwoAndTwo
    <3>5. due' = <<w1, w2, w3, w4>>
      BY <3>1, <3>4
    <3> QED BY <3>3, <3>5 DEF w2, w3, w4
  <2> QED BY <2>1, <2>2
<1>10. locker' \in [Account -> Shelf \union {NotLoaded}]
  BY <1>2, <1>3, <1>6
<1> QED BY <1>1, <1>2, <1>3, <1>5, <1>6, <1>7, <1>9, <1>10 DEF first, final

(* Every write of Create, and where it stands among the others.            *)
LEMMA CreateOwes ==
  ASSUME RegistryInv, NEW a \in Account, NEW picks \in SUBSET Item, Create(a, picks)
  PROVE  /\ due' \in Seq(Writes) /\ record' \in [Account -> Records]
         /\ 1 \in 1..Len(due') /\ Len(due') \in Nat /\ due'[1].file = IndexFile
         /\ due'[1].data = [owner |-> owner', next |-> next']
         /\ \A k \in 1..Len(due') :
              \/ k = 1
              \/ /\ due'[k].file = CharsFile(a) /\ due'[k].data \in Records
                 /\ SoundRecords(due'[k].data)
                 /\ \A c \in Id : due'[k].data[c] # None => c = next \/ record[a][c] # None
                 /\ \/ due'[k].data = record'[a]
                    \/ \E j \in k + 1..Len(due') : due'[j].file = CharsFile(a)
              \/ /\ due'[k].file = LockerFile(a) /\ due'[k].data = locker'[a]
                 /\ locker'[a] # NotLoaded
         /\ \E k \in 1..Len(due') : due'[k].file = CharsFile(a)
         /\ locker' = locker \/ \E k \in 1..Len(due') : due'[k].file = LockerFile(a)
         /\ SoundRecords(record'[a])
         /\ \A c \in Id : record'[a][c] # None => c = next \/ record[a][c] # None
         /\ \A b \in Account \ {a} : record'[b] = record[b]
<1>1. PICK pack \in Bag, shelf \in Shelf :
        LET first == [record[a] EXCEPT ![next] = [bag |-> EmptyHanded, looks |-> picks]]
            final == [record[a] EXCEPT ![next] = [bag |-> pack, looks |-> picks]]
        IN  /\ Sound(pack) /\ first \in Records /\ final \in Records
            /\ record' = [record EXCEPT ![a] = final]
            /\ locker' = [locker EXCEPT ![a] = shelf]
            /\ \/ /\ due' = <<SaveIndex(owner', next'), SaveChars(a, first)>>
                  /\ final = first /\ locker' = locker
               \/ due' = <<SaveIndex(owner', next'), SaveChars(a, first),
                           SaveChars(a, final), SaveLocker(a, shelf)>>
  BY Created
<1> DEFINE first == [record[a] EXCEPT ![next] = [bag |-> EmptyHanded, looks |-> picks]]
           final == [record[a] EXCEPT ![next] = [bag |-> pack, looks |-> picks]]
           w1 == SaveIndex(owner', next')
           w2 == SaveChars(a, first)
           w3 == SaveChars(a, final)
           w4 == SaveLocker(a, shelf)
<1>2. /\ next \in Id /\ next' = next + 1 /\ owner' = [owner EXCEPT ![next] = a]
      /\ record \in [Account -> Records] /\ record[a] \in Records
      /\ locker \in [Account -> Shelf \union {NotLoaded}]
  BY Created DEF RegistryInv, BooksInv, Typed, BooksTypeOK
<1>3. /\ \A c \in Id : first[c] # None => c = next \/ record[a][c] # None
      /\ \A c \in Id : final[c] # None => c = next \/ record[a][c] # None
  BY <1>2 DEF Records
<1>4. SoundRecords(first) /\ SoundRecords(final)
  <2>1. Sound(EmptyHanded) /\ SoundRecords(record[a])
    BY DEF Sound, EmptyHanded, RegistryInv, BagsAreSound
  <2>2. \A c \in Id : /\ first[c] = record[a][c] \/ first[c].bag = EmptyHanded
                      /\ final[c] = record[a][c] \/ final[c].bag = pack
    BY <1>2 DEF Records
  <2> QED BY <1>1, <2>1, <2>2 DEF SoundRecords
<1>5. /\ w1 \in Writes /\ w1.file = IndexFile /\ w1.data = [owner |-> owner', next |-> next']
      /\ w2 \in Writes /\ w2.file = CharsFile(a) /\ w2.data = first
      /\ w3 \in Writes /\ w3.file = CharsFile(a) /\ w3.data = final
      /\ w4 \in Writes /\ w4.file = LockerFile(a) /\ w4.data = shelf
  <2>1. [owner |-> owner', next |-> next'] \in IndexData
    BY <1>2, NotebookAssumption DEF RegistryInv, BooksInv, Typed, BooksTypeOK, IndexData, Id
  <2> QED BY <2>1, <1>1, Files
          DEF SaveIndex, SaveChars, SaveLocker, Written, Writes, Contents
<1>6. /\ first \in Records /\ final \in Records /\ Sound(pack)
      /\ record' = [record EXCEPT ![a] = final] /\ locker' = [locker EXCEPT ![a] = shelf]
      /\ \/ due' = <<w1, w2>> /\ final = first /\ locker' = locker
         \/ due' = <<w1, w2, w3, w4>>
  BY <1>1
<1> HIDE DEF first, final, w1, w2, w3, w4
<1>7. /\ record'[a] = final /\ record' \in [Account -> Records]
      /\ \A b \in Account \ {a} : record'[b] = record[b]
      /\ locker'[a] = shelf /\ shelf # NotLoaded
  BY <1>2, <1>6, Blank
<1>8. CASE due' = <<w1, w2>> /\ final = first /\ locker' = locker
  <2>1. /\ due' \in Seq(Writes) /\ Len(due') = 2 /\ due'[1] = w1 /\ due'[2] = w2
        /\ \A k \in 1..2 : k = 1 \/ k = 2
    BY <1>5, <1>8
  <2> QED BY <2>1, <1>3, <1>4, <1>5, <1>6, <1>7, <1>8
<1>9. CASE due' = <<w1, w2, w3, w4>>
  <2>1. /\ due' \in Seq(Writes) /\ Len(due') = 4 /\ due'[1] = w1 /\ due'[2] = w2
        /\ due'[3] = w3 /\ due'[4] = w4
        /\ \A k \in 1..4 : k = 1 \/ k = 2 \/ k = 3 \/ k = 4
        /\ 3 \in 2 + 1..4
    BY <1>5, <1>9
  <2>2. \A k \in 1..Len(due') : k = 1 \/ k = 2 \/ k = 3 \/ k = 4
    BY <2>1
  <2>3. \E j \in 2 + 1..Len(due') : due'[j].file = CharsFile(a)
    BY <2>1, <1>5
  <2>4. /\ due'[2].file = CharsFile(a) /\ due'[2].data = first
        /\ due'[3].file = CharsFile(a) /\ due'[3].data = record'[a] /\ record'[a] = final
        /\ due'[4].file = LockerFile(a) /\ due'[4].data = locker'[a]
    BY <2>1, <1>5, <1>7
  <2>5. 1 \in 1..Len(due') /\ 3 \in 1..Len(due') /\ 4 \in 1..Len(due') /\ Len(due') \in Nat
    BY <2>1
  <2> QED BY <2>1, <2>2, <2>3, <2>4, <2>5, <1>3, <1>4, <1>5, <1>6, <1>7
<1> QED BY <1>6, <1>8, <1>9

LEMMA CreateKeeps ==
  ASSUME RegistryInv, NEW a \in Account, NEW picks \in SUBSET Item, Create(a, picks)
  PROVE  RegistryInv'
<1>1. /\ up /\ due = <<>> /\ UNCHANGED <<book, disk, up, enrolled, school>>
      /\ school[a] = None /\ next \in Id /\ next' = next + 1
      /\ owner' = [owner EXCEPT ![next] = a]
      /\ locker' \in [Account -> Shelf \union {NotLoaded}]
      /\ \A b \in Account \ {a} : locker'[b] = locker[b]
  BY Created
<1>2. /\ Id \subseteq Nat /\ next \in Nat /\ owner \in [Id -> Account \union {None}]
      /\ next' \in 1..MaxId + 1 /\ BooksInv
  BY <1>1, NotebookAssumption DEF RegistryInv, BooksInv, Typed, BooksTypeOK, Id
<1>3. \A b \in Account, c \in Id : record[b][c] # None => owner[c] = b /\ c < next /\ c # next
  BY <1>1, <1>2, Idle
<1>4. Typed'
  <2>1. BooksTypeOK'
    BY <1>1, <1>2, CreateOwes DEF RegistryInv, BooksInv, Typed, BooksTypeOK
  <2>2. \A k \in 1..Len(due'), b \in Account :
          due'[k].file = CharsFile(b) => due'[k].data \in Records
    BY CreateOwes, Files
  <2> QED BY <1>1, <2>1, <2>2, CreateOwes DEF RegistryInv, BooksInv, Typed
<1>5. DownIsBlank'
  BY <1>1 DEF DownIsBlank
<1>6. Synced'
  <2>1. Owed(IndexFile)' /\ Owed(CharsFile(a))' /\ (locker' = locker \/ Owed(LockerFile(a))')
    BY CreateOwes DEF Owed
  <2>2. /\ Read(FriendsFile, {})' = book'
        /\ \A b \in Account : /\ b # a => Read(CharsFile(b), NoRecords)' = record'[b]
                              /\ b # a \/ locker' = locker =>
                                   \/ locker'[b] = NotLoaded
                                   \/ Read(LockerFile(b), EmptyShelf)' = locker'[b]
    BY <1>1, <1>2, Idle, CreateOwes DEF Read
  <2> QED BY <2>1, <2>2 DEF Synced
<1>7. Carried'
  BY CreateOwes, Files DEF Carried
<1>8. CounterIsPast'
  <2>1. /\ \A c \in Id : owner[c] # None => c < next
        /\ Readable(IndexFile) => disk[IndexFile].next <= next /\ disk[IndexFile].next \in Nat
    BY <1>1, <1>2 DEF BooksInv, CounterIsPast, Typed, BooksTypeOK, IndexData, Readable
  <2>2. ASSUME NEW c \in Id, owner'[c] # None PROVE c < next'
    <3>1. c = next \/ owner'[c] = owner[c]
      BY <1>1, <1>2
    <3>2. c = next \/ c < next
      BY <2>1, <2>2, <3>1
    <3> QED BY <3>2, <1>1, <1>2
  <2>3. Readable(IndexFile) => disk[IndexFile].next <= next'
    BY <1>1, <1>2, <2>1
  <2> QED BY <1>1, <1>2, <2>2, <2>3 DEF BooksInv, CounterIsPast, Readable
<1>9. RecordsOwned'
  <2>1. ASSUME NEW b \in Account, NEW c \in Id, record'[b][c] # None
        PROVE  owner'[c] = b
    <3>1. (b = a /\ c = next) \/ record[b][c] # None
      BY <2>1, CreateOwes
    <3> QED BY <3>1, <1>1, <1>2, <1>3
  <2> QED BY <2>1 DEF RecordsOwned
<1>10. EnrolledArePast'
  BY <1>1, <1>2 DEF BooksInv, EnrolledArePast, OnDisk, Covered, Readable
<1>11. IndexFirstInLast'
  <2>1. ASSUME NEW k \in 1..Len(due'), NEW b \in Account, NEW c \in Id,
               due'[k].file = CharsFile(b), due'[k].data[c] # None
        PROVE  owner'[c] = b /\ \E j \in 1..k - 1 : due'[j].file = IndexFile
    <3>1. k # 1 /\ b = a /\ (c = next \/ record[a][c] # None)
      BY <2>1, CreateOwes, Files
    <3>2. 1 \in 1..k - 1
      BY <3>1, CreateOwes
    <3> QED BY <3>1, <3>2, <1>1, <1>2, <1>3, CreateOwes
  <2>2. ASSUME NEW k \in 1..Len(due'), NEW b \in Account, NEW c \in Id, OnDisk(b, c)
        PROVE  owner'[c] = b
    BY <1>1, <1>2, <1>3, <2>2, Idle
  <2> QED BY <1>1, <2>1, <2>2 DEF IndexFirstInLast, OnDisk, Readable
<1>12. BagsAreSound'
  BY <1>1, CreateOwes, Files DEF RegistryInv, BagsAreSound, SoundRecords, Readable
<1>13. PlayersExist' /\ LooksAreWorn'
  <2>1. \A b \in Account : school'[b] # None =>
          school'[b] = school[b] /\ record'[b] = record[b]
    BY <1>1, CreateOwes
  <2>2. PlayersExist'
    BY <2>1 DEF RegistryInv, PlayersExist
  <2>3. LooksAreWorn'
    BY <2>1 DEF RegistryInv, LooksAreWorn
  <2> QED BY <2>2, <2>3
<1> QED BY <1>4, <1>5, <1>6, <1>7, <1>8, <1>9, <1>10, <1>11, <1>12, <1>13 DEF RegistryInv, BooksInv

-----------------------------------------------------------------------------
(* A character is deleted: what fits goes to the locker, and the record    *)
(* leaves the disk before its id does.                                     *)
LEMMA SurrenderedFits ==
  ASSUME NEW pack \in Bag, Sound(pack), NEW shelf \in Shelf, NEW i \in Item
  PROVE  Surrendered(pack, shelf, i) \in Nat /\ shelf[i] + Surrendered(pack, shelf, i) \in 0..RowMax
<1>1. pack.held[i] \in 0..RowMax /\ shelf[i] \in 0..RowMax /\ RowMax \in Nat
  BY RowMaxAssumption DEF Bag, Shelf
<1>2. WornCopy(pack, i) \in {0, 1} /\ WornCopy(pack, i) <= pack.held[i]
  BY <1>1 DEF WornCopy, Sound
<1> QED BY <1>1, <1>2 DEF Surrendered

LEMMA DestroyOwes ==
  ASSUME RegistryInv, NEW a \in Account, NEW c \in Id, Destroy(a, c)
  PROVE  /\ up /\ due = <<>> /\ UNCHANGED <<next, disk, up, enrolled, school>>
         /\ school[a] = None /\ record[a][c] # None
         /\ owner' = [owner EXCEPT ![c] = None]
         /\ record' = [record EXCEPT ![a] = Removed(a, c)] /\ Removed(a, c) \in Records
         /\ \E shelf \in Shelf : locker' = [locker EXCEPT ![a] = shelf]
         /\ book' \in Edges /\ Len(due') \in Nat /\ due' \in Seq(Writes)
         /\ \A k \in 1..Len(due') :
              \/ /\ due'[k].file = LockerFile(a) /\ due'[k].data = locker'[a]
                 /\ locker'[a] # NotLoaded
              \/ due'[k].file = CharsFile(a) /\ due'[k].data = record'[a]
              \/ /\ due'[k].file = IndexFile
                 /\ due'[k].data = [owner |-> owner', next |-> next']
                 /\ \E j \in 1..k - 1 : due'[j].file = CharsFile(a)
              \/ due'[k].file = FriendsFile /\ due'[k].data = book'
         /\ \E k \in 1..Len(due') : due'[k].file = CharsFile(a)
         /\ \E k \in 1..Len(due') : due'[k].file = IndexFile
         /\ locker' = locker \/ \E k \in 1..Len(due') : due'[k].file = LockerFile(a)
         /\ book' = book \/ \E k \in 1..Len(due') : due'[k].file = FriendsFile
<1> DEFINE pack == record[a][c].bag
           moved == {i \in Item : Surrendered(pack, locker[a], i) > 0}
           shelf == [i \in Item |-> locker[a][i] + Surrendered(pack, locker[a], i)]
           owners == [owner EXCEPT ![c] = None]
           L == SaveLocker(a, shelf)
           C == SaveChars(a, Removed(a, c))
           I == SaveIndex(owners, next)
           F == SaveFriends(ForgetFriends(c))
<1>1. /\ school[a] = None /\ UNCHANGED <<school, next, enrolled, disk, up>>
      /\ locker[a] # NotLoaded /\ record[a][c] # None /\ up /\ due = <<>>
      /\ locker' = [locker EXCEPT ![a] = shelf]
      /\ record' = [record EXCEPT ![a] = Removed(a, c)] /\ owner' = owners
      /\ book' = ForgetFriends(c)
      /\ due' = ((If(moved # {}, <<L>>) \o <<C>>) \o If(owner[c] # None, <<I>>))
                  \o If(Listed(c) # {}, <<F>>)
  BY DEF Destroy, AtTheGate, Owes, Characters
<1>2. /\ record \in [Account -> Records] /\ record[a][c] \in Record /\ pack \in Bag /\ Sound(pack)
      /\ locker[a] \in Shelf /\ locker \in [Account -> Shelf \union {NotLoaded}]
      /\ owner \in [Id -> Account \union {None}] /\ next \in 1..MaxId + 1
      /\ book \in Edges
  <2>1. record[a][c] \in Record /\ Sound(pack)
    BY <1>1 DEF RegistryInv, BooksInv, Typed, BooksTypeOK, Records, BagsAreSound, SoundRecords
  <2> QED BY <1>1, <2>1 DEF RegistryInv, BooksInv, Typed, BooksTypeOK, Record
<1>3. \A i \in Item : /\ Surrendered(pack, locker[a], i) \in Nat
                      /\ locker[a][i] + Surrendered(pack, locker[a], i) \in 0..RowMax
  <2> HIDE DEF pack
  <2> QED BY <1>2, SurrenderedFits
<1>4. shelf \in Shelf /\ (moved = {} => shelf = locker[a])
  <2>1. shelf \in Shelf
    BY <1>3 DEF Shelf
  <2>2. ASSUME moved = {} PROVE shelf = locker[a]
    <3>1. ASSUME NEW i \in Item
          PROVE  locker[a][i] + Surrendered(pack, locker[a], i) = locker[a][i]
      <4> DEFINE n == Surrendered(pack, locker[a], i)
      <4>1. ~ (n > 0)
        BY <2>2
      <4>2. n \in Nat /\ locker[a][i] \in Nat
        BY <1>2, <1>3, RowMaxAssumption DEF Shelf
      <4> HIDE DEF n
      <4>3. locker[a][i] + n = locker[a][i]
        BY <4>1, <4>2
      <4> QED BY <4>3 DEF n
    <3> QED BY <3>1, <1>2 DEF Shelf
  <2> QED BY <2>1, <2>2
<1>5. owner[c] # None /\ Removed(a, c) \in Records
  <2>1. owner[c] = a
    BY <1>1 DEF RegistryInv, BooksInv, RecordsOwned
  <2>2. Removed(a, c) \in Records
    BY <1>2 DEF Removed, Records
  <2> QED BY <2>1, <2>2, ValueAssumption
<1>6. ForgetFriends(c) \in Edges /\ (Listed(c) = {} => ForgetFriends(c) = book)
  <2>1. ForgetFriends(c) \in Edges
    BY <1>2 DEF ForgetFriends, Edges
  <2>2. ASSUME Listed(c) = {} PROVE ForgetFriends(c) = book
    <3>1. \A e \in book : e = <<e[1], e[2]>> /\ e[1] \in Id /\ e[2] \in Id
      BY <1>2 DEF Edges
    <3>2. \A e \in book : e[1] # c
      BY <2>2, <3>1 DEF Listed
    <3> QED BY <2>2, <3>2 DEF ForgetFriends
  <2> QED BY <2>1, <2>2
<1>7. /\ L \in Writes /\ L.file = LockerFile(a) /\ L.data = shelf
      /\ C \in Writes /\ C.file = CharsFile(a) /\ C.data = Removed(a, c)
      /\ I \in Writes /\ I.file = IndexFile /\ I.data = [owner |-> owners, next |-> next]
      /\ F \in Writes /\ F.file = FriendsFile /\ F.data = ForgetFriends(c)
  <2>1. [owner |-> owners, next |-> next] \in IndexData
    BY <1>2 DEF IndexData
  <2> QED BY <2>1, <1>4, <1>5, <1>6, Files
          DEF SaveIndex, SaveChars, SaveLocker, SaveFriends, Written, Writes, Contents
<1>8. /\ L.data = locker'[a] /\ locker'[a] # NotLoaded
      /\ C.data = record'[a] /\ F.data = book'
      /\ I.data = [owner |-> owner', next |-> next']
      /\ moved = {} => locker' = locker
      /\ Listed(c) = {} => book' = book
  BY <1>1, <1>2, <1>4, <1>6, <1>7, Blank
<1>9. /\ due' = ((If(moved # {}, <<L>>) \o <<C>>) \o <<I>>) \o If(Listed(c) # {}, <<F>>)
  BY <1>1, <1>5 DEF If
<1> HIDE DEF pack, moved, shelf, owners, L, C, I, F
<1>10. \/ due' = <<C, I>> /\ locker' = locker /\ book' = book
       \/ due' = <<L, C, I>> /\ book' = book
       \/ due' = <<C, I, F>> /\ locker' = locker
       \/ due' = <<L, C, I, F>>
  <2>1. CASE moved = {} /\ Listed(c) = {}
    <3>1. due' = ((<<>> \o <<C>>) \o <<I>>) \o <<>>
      BY <2>1, <1>9 DEF If
    <3>2. <<>> \o <<C>> = <<C>> /\ <<C>> \o <<I>> = <<C, I>> /\ <<C, I>> \o <<>> = <<C, I>>
      BY <1>7, NoneLeft, OneAndOne
    <3> QED BY <2>1, <3>1, <3>2, <1>8
  <2>2. CASE moved # {} /\ Listed(c) = {}
    <3>1. due' = ((<<L>> \o <<C>>) \o <<I>>) \o <<>>
      BY <2>2, <1>9 DEF If
    <3>2. <<L>> \o <<C>> = <<L, C>>
      BY <1>7, OneAndOne
    <3>3. <<L, C>> \o <<I>> = <<L, C, I>>
      BY <1>7, TwoAndOne
    <3>4. <<L, C, I>> \o <<>> = <<L, C, I>>
      BY <1>7, NoneLeft
    <3>5. due' = <<L, C, I>>
      BY <3>1, <3>2, <3>3, <3>4
    <3> QED BY <2>2, <3>5, <1>8
  <2>3. CASE moved = {} /\ Listed(c) # {}
    <3>1. due' = ((<<>> \o <<C>>) \o <<I>>) \o <<F>>
      BY <2>3, <1>9 DEF If
    <3>2. <<>> \o <<C>> = <<C>> /\ <<C>> \o <<I>> = <<C, I>>
      BY <1>7, NoneLeft, OneAndOne
    <3>3. <<C, I>> \o <<F>> = <<C, I, F>>
      BY <1>7, TwoAndOne
    <3>4. due' = <<C, I, F>>
      BY <3>1, <3>2, <3>3
    <3> QED BY <2>3, <3>4, <1>8
  <2>4. CASE moved # {} /\ Listed(c) # {}
    <3>1. due' = ((<<L>> \o <<C>>) \o <<I>>) \o <<F>>
      BY <2>4, <1>9 DEF If
    <3>2. <<L>> \o <<C>> = <<L, C>>
      BY <1>7, OneAndOne
    <3>3. <<L, C>> \o <<I>> = <<L, C, I>>
      BY <1>7, TwoAndOne
    <3>4. <<L, C, I>> \o <<F>> = <<L, C, I, F>>
      BY <1>7, ThreeAndOne
    <3>5. due' = <<L, C, I, F>>
      BY <3>1, <3>2, <3>3, <3>4
    <3> QED BY <3>5
  <2> QED BY <2>1, <2>2, <2>3, <2>4
<1> DEFINE Goal ==
      /\ Len(due') \in Nat /\ due' \in Seq(Writes)
      /\ \A k \in 1..Len(due') :
           \/ due'[k].file = LockerFile(a) /\ due'[k].data = locker'[a] /\ locker'[a] # NotLoaded
           \/ due'[k].file = CharsFile(a) /\ due'[k].data = record'[a]
           \/ /\ due'[k].file = IndexFile
              /\ due'[k].data = [owner |-> owner', next |-> next']
              /\ \E j \in 1..k - 1 : due'[j].file = CharsFile(a)
           \/ due'[k].file = FriendsFile /\ due'[k].data = book'
      /\ \E k \in 1..Len(due') : due'[k].file = CharsFile(a)
      /\ \E k \in 1..Len(due') : due'[k].file = IndexFile
      /\ locker' = locker \/ \E k \in 1..Len(due') : due'[k].file = LockerFile(a)
      /\ book' = book \/ \E k \in 1..Len(due') : due'[k].file = FriendsFile
<1>11. ASSUME due' = <<C, I>>, locker' = locker, book' = book PROVE Goal
  <2>1. /\ due' \in Seq(Writes) /\ Len(due') = 2
        /\ due'[1] = C
        /\ due'[2] = I
    BY <1>7, <1>11
  <2>2. /\ 1..Len(due') = {1, 2}
        /\ 1 \in 1..2 - 1 /\ Len(due') \in Nat
    BY <2>1
  <2>3. /\ due'[1].file = CharsFile(a)
        /\ due'[2].file = IndexFile
        /\ \E j \in 1..2 - 1 : due'[j].file = CharsFile(a)
    BY <2>1, <2>2, <1>7
  <2> QED BY <2>1, <2>2, <2>3, <1>7, <1>8, <1>11
<1>12. ASSUME due' = <<L, C, I>>, book' = book PROVE Goal
  <2>1. /\ due' \in Seq(Writes) /\ Len(due') = 3
        /\ due'[1] = L
        /\ due'[2] = C
        /\ due'[3] = I
    BY <1>7, <1>12
  <2>2. /\ 1..Len(due') = {1, 2, 3}
        /\ 2 \in 1..3 - 1 /\ Len(due') \in Nat
    BY <2>1
  <2>3. /\ due'[2].file = CharsFile(a)
        /\ due'[3].file = IndexFile
        /\ \E j \in 1..3 - 1 : due'[j].file = CharsFile(a)
    BY <2>1, <2>2, <1>7
  <2> QED BY <2>1, <2>2, <2>3, <1>7, <1>8, <1>12
<1>13. ASSUME due' = <<C, I, F>>, locker' = locker PROVE Goal
  <2>1. /\ due' \in Seq(Writes) /\ Len(due') = 3
        /\ due'[1] = C
        /\ due'[2] = I
        /\ due'[3] = F
    BY <1>7, <1>13
  <2>2. /\ 1..Len(due') = {1, 2, 3}
        /\ 1 \in 1..2 - 1 /\ Len(due') \in Nat
    BY <2>1
  <2>3. /\ due'[1].file = CharsFile(a)
        /\ due'[2].file = IndexFile
        /\ \E j \in 1..2 - 1 : due'[j].file = CharsFile(a)
    BY <2>1, <2>2, <1>7
  <2> QED BY <2>1, <2>2, <2>3, <1>7, <1>8, <1>13
<1>14. ASSUME due' = <<L, C, I, F>> PROVE Goal
  <2>1. /\ due' \in Seq(Writes) /\ Len(due') = 4
        /\ due'[1] = L
        /\ due'[2] = C
        /\ due'[3] = I
        /\ due'[4] = F
    BY <1>7, <1>14
  <2>2. /\ 1..Len(due') = {1, 2, 3, 4}
        /\ 2 \in 1..3 - 1 /\ Len(due') \in Nat
    BY <2>1
  <2>3. /\ due'[2].file = CharsFile(a)
        /\ due'[3].file = IndexFile
        /\ \E j \in 1..3 - 1 : due'[j].file = CharsFile(a)
    BY <2>1, <2>2, <1>7
  <2> QED BY <2>1, <2>2, <2>3, <1>7, <1>8, <1>14
<1>15. \E s \in Shelf : locker' = [locker EXCEPT ![a] = s]
  BY <1>1, <1>4
<1>16. Goal
  BY <1>10, <1>11, <1>12, <1>13, <1>14
<1> QED BY <1>1, <1>5, <1>6, <1>15, <1>16 DEF owners

LEMMA DestroyKeeps ==
  ASSUME RegistryInv, NEW a \in Account, NEW c \in Id, Destroy(a, c)
  PROVE  RegistryInv'
<1>1. /\ up /\ due = <<>> /\ UNCHANGED <<next, disk, up, enrolled, school>>
      /\ school[a] = None /\ record[a][c] # None
      /\ owner' = [owner EXCEPT ![c] = None]
      /\ record' = [record EXCEPT ![a] = Removed(a, c)] /\ Removed(a, c) \in Records
  BY DestroyOwes
<1>2. /\ BooksInv /\ record \in [Account -> Records] /\ record[a] \in Records
      /\ owner \in [Id -> Account \union {None}]
      /\ owner' \in [Id -> Account \union {None}] /\ record' \in [Account -> Records]
      /\ locker' \in [Account -> Shelf \union {NotLoaded}]
      /\ \A b \in Account \ {a} : locker'[b] = locker[b] /\ record'[b] = record[b]
      /\ record'[a] = Removed(a, c)
  <2>1. PICK shelf \in Shelf : locker' = [locker EXCEPT ![a] = shelf]
    BY DestroyOwes
  <2>2. /\ BooksInv /\ record \in [Account -> Records]
        /\ owner \in [Id -> Account \union {None}]
        /\ locker \in [Account -> Shelf \union {NotLoaded}]
    BY DEF RegistryInv, BooksInv, Typed, BooksTypeOK
  <2> QED BY <1>1, <2>1, <2>2
<1>3. \A d \in Id : /\ record'[a][d] # None => d # c /\ record'[a][d] = record[a][d]
                    /\ d # c => owner'[d] = owner[d]
                    /\ owner'[c] = None
  BY <1>1, <1>2 DEF Removed, Records
<1>4. \A b \in Account, d \in Id : record[b][d] # None => owner[d] = b /\ Covered(b, d)
  BY <1>1, <1>2, Idle
<1>5. owner[c] = a
  BY <1>1, <1>4
<1>6. Typed'
  <2>1. BooksTypeOK'
    BY <1>1, <1>2, DestroyOwes DEF BooksInv, Typed, BooksTypeOK
  <2>2. \A k \in 1..Len(due'), b \in Account :
          due'[k].file = CharsFile(b) => due'[k].data \in Records
    <3>1. \A k \in 1..Len(due'), b \in Account :
            due'[k].file = CharsFile(b) => due'[k].data = record'[a]
      BY DestroyOwes, Files
    <3> QED BY <1>1, <1>2, <3>1
  <2> QED BY <1>1, <1>2, <2>1, <2>2, DestroyOwes DEF BooksInv, Typed
<1>7. DownIsBlank'
  BY <1>1 DEF DownIsBlank
<1>8. Synced'
  <2>1. /\ Owed(IndexFile)' /\ Owed(CharsFile(a))'
        /\ locker' = locker \/ Owed(LockerFile(a))'
        /\ book' = book \/ Owed(FriendsFile)'
    BY DestroyOwes DEF Owed
  <2>2. /\ book' = book => Read(FriendsFile, {})' = book'
        /\ \A b \in Account : /\ b # a => Read(CharsFile(b), NoRecords)' = record'[b]
                              /\ b # a \/ locker' = locker =>
                                   \/ locker'[b] = NotLoaded
                                   \/ Read(LockerFile(b), EmptyShelf)' = locker'[b]
    BY <1>1, <1>2, Idle DEF Read
  <2> QED BY <2>1, <2>2 DEF Synced
<1>9. Carried'
  <2>1. ASSUME NEW k \in 1..Len(due')
        PROVE  /\ due'[k].file = IndexFile => due'[k].data = [owner |-> owner', next |-> next']
               /\ due'[k].file = FriendsFile => due'[k].data = book'
               /\ \A b \in Account :
                    /\ due'[k].file = LockerFile(b) =>
                         due'[k].data = locker'[b] /\ locker'[b] # NotLoaded
                    /\ due'[k].file = CharsFile(b) => due'[k].data = record'[b]
    <3>1. \/ due'[k].file = LockerFile(a) /\ due'[k].data = locker'[a] /\ locker'[a] # NotLoaded
          \/ due'[k].file = CharsFile(a) /\ due'[k].data = record'[a]
          \/ due'[k].file = IndexFile /\ due'[k].data = [owner |-> owner', next |-> next']
          \/ due'[k].file = FriendsFile /\ due'[k].data = book'
      BY DestroyOwes
    <3>2. CASE due'[k].file = LockerFile(a) /\ due'[k].data = locker'[a] /\ locker'[a] # NotLoaded
      BY <3>2, Files
    <3>3. CASE due'[k].file = CharsFile(a) /\ due'[k].data = record'[a]
      BY <3>3, Files
    <3>4. CASE due'[k].file = IndexFile /\ due'[k].data = [owner |-> owner', next |-> next']
      BY <3>4, Files
    <3>5. CASE due'[k].file = FriendsFile /\ due'[k].data = book'
      BY <3>5, Files
    <3> QED BY <3>1, <3>2, <3>3, <3>4, <3>5
  <2> QED BY <2>1 DEF Carried
<1>10. CounterIsPast'
  <2>1. \A d \in Id : owner'[d] # None => owner[d] # None
    BY <1>3
  <2> QED BY <1>1, <1>2, <2>1 DEF BooksInv, CounterIsPast, Readable
<1>11. RecordsOwned'
  <2>1. ASSUME NEW b \in Account, NEW d \in Id, record'[b][d] # None
        PROVE  record[b][d] # None /\ d # c
    BY <2>1, <1>2, <1>3, <1>4, <1>5
  <2> QED BY <2>1, <1>3, <1>4 DEF RecordsOwned
<1>12. EnrolledArePast'
  BY <1>1, <1>2 DEF BooksInv, EnrolledArePast, OnDisk, Covered, Readable
<1>13. IndexFirstInLast'
  <2>1. ASSUME NEW k \in 1..Len(due'), NEW b \in Account, NEW d \in Id,
               due'[k].file = CharsFile(b), due'[k].data[d] # None
        PROVE  owner'[d] = b /\ Covered(b, d)
    <3>1. b = a /\ due'[k].data = record'[a]
      BY <2>1, DestroyOwes, Files
    <3> QED BY <2>1, <3>1, <1>3, <1>4
  <2>2. ASSUME NEW k \in 1..Len(due'), NEW b \in Account, NEW d \in Id,
               due'[k].file = IndexFile, OnDisk(b, d)
        PROVE  owner'[d] = b \/ \E j \in 1..k - 1 : due'[j].file = CharsFile(b)
    <3>1. record[b][d] # None /\ owner[d] = b
      BY <2>2, <1>1, <1>2, <1>4, Idle
    <3>2. CASE d = c
      BY <2>2, <3>1, <3>2, <1>5, DestroyOwes, Files
    <3>3. CASE d # c
      BY <3>1, <3>3, <1>3
    <3> QED BY <3>2, <3>3
  <2> QED BY <1>1, <2>1, <2>2 DEF IndexFirstInLast, OnDisk, Covered, Readable
<1>14. BagsAreSound'
  <2>1. \A b \in Account : SoundRecords(record[b])
    BY DEF RegistryInv, BagsAreSound
  <2>2. \A b \in Account : SoundRecords(record'[b])
    BY <2>1, <1>2, <1>3 DEF SoundRecords
  <2>3. \A k \in 1..Len(due'), b \in Account :
          due'[k].file = CharsFile(b) => due'[k].data = record'[b]
    BY DestroyOwes, Files
  <2> QED BY <1>1, <2>2, <2>3 DEF RegistryInv, BagsAreSound, SoundRecords, Readable
<1>15. PlayersExist' /\ LooksAreWorn'
  <2>1. \A b \in Account : school'[b] # None =>
          school'[b] = school[b] /\ record'[b] = record[b]
    BY <1>1, <1>2
  <2>2. PlayersExist'
    BY <2>1 DEF RegistryInv, PlayersExist
  <2>3. LooksAreWorn'
    BY <2>1 DEF RegistryInv, LooksAreWorn
  <2> QED BY <2>2, <2>3
<1> QED BY <1>6, <1>7, <1>8, <1>9, <1>10, <1>11, <1>12, <1>13, <1>14, <1>15
        DEF RegistryInv, BooksInv

-----------------------------------------------------------------------------
(* What a handler that moves items has to show, the bags included; no      *)
(* record begins with it.                                                  *)
NobodyNew == \A a \in Account, c \in Id : record'[a][c] # None => record[a][c] # None

LEMMA ItemsKeep ==
  ASSUME RegistryInv, up, due = <<>>, UNCHANGED <<owner, next, book, disk, up, enrolled>>,
         school' \in [Account -> Id \union {None}],
         record' \in [Account -> Records],
         locker' \in [Account -> Shelf \union {NotLoaded}],
         due' \in Seq(Writes),
         \A k \in 1..Len(due') : \E a \in Account :
           \/ /\ due'[k].file = LockerFile(a) /\ due'[k].data = locker'[a]
              /\ locker'[a] # NotLoaded
           \/ /\ due'[k].file = CharsFile(a) /\ due'[k].data \in Records
              /\ \A c \in Id : due'[k].data[c] # None =>
                   record[a][c] # None /\ Sound(due'[k].data[c].bag)
              /\ \/ due'[k].data = record'[a]
                 \/ \E j \in k + 1..Len(due') : due'[j].file = CharsFile(a),
         \A a \in Account :
           /\ \/ record'[a] = record[a]
              \/ \E k \in 1..Len(due') : due'[k].file = CharsFile(a)
           /\ \/ locker'[a] = locker[a]
              \/ \E k \in 1..Len(due') : due'[k].file = LockerFile(a)
              \/ Read(LockerFile(a), EmptyShelf) = locker'[a]
           /\ \A c \in Id : record'[a][c] # None =>
                record[a][c] # None /\ Sound(record'[a][c].bag)
           /\ school'[a] # None =>
                /\ record'[a][school'[a]] # None
                /\ record'[a][school'[a]].looks = Drawn(record'[a][school'[a]].bag)
  PROVE  RegistryInv' /\ NobodyNew
<1>1. BooksInv'
  <2>1. BooksInv /\ \A a \in Account, c \in Id : record'[a][c] # None => record[a][c] # None
    BY DEF RegistryInv
  <2>2. \A k \in 1..Len(due') : \E a \in Account :
           \/ /\ due'[k].file = LockerFile(a) /\ due'[k].data = locker'[a]
              /\ locker'[a] # NotLoaded
           \/ /\ due'[k].file = CharsFile(a) /\ due'[k].data \in Records
              /\ \A c \in Id : due'[k].data[c] # None => record[a][c] # None
              /\ \/ due'[k].data = record'[a]
                 \/ \E j \in k + 1..Len(due') : due'[j].file = CharsFile(a)
    <3> TAKE k \in 1..Len(due')
    <3>1. PICK a \in Account :
           \/ /\ due'[k].file = LockerFile(a) /\ due'[k].data = locker'[a]
              /\ locker'[a] # NotLoaded
           \/ /\ due'[k].file = CharsFile(a) /\ due'[k].data \in Records
              /\ \A c \in Id : due'[k].data[c] # None =>
                   record[a][c] # None /\ Sound(due'[k].data[c].bag)
              /\ \/ due'[k].data = record'[a]
                 \/ \E j \in k + 1..Len(due') : due'[j].file = CharsFile(a)
      OBVIOUS
    <3> WITNESS a \in Account
    <3> QED BY <3>1
  <2>3. \A a \in Account :
           /\ \/ record'[a] = record[a]
              \/ \E k \in 1..Len(due') : due'[k].file = CharsFile(a)
           /\ \/ locker'[a] = locker[a]
              \/ \E k \in 1..Len(due') : due'[k].file = LockerFile(a)
              \/ Read(LockerFile(a), EmptyShelf) = locker'[a]
           /\ \A c \in Id : record'[a][c] # None => record[a][c] # None
    OBVIOUS
  <2> QED BY <2>1, <2>2, <2>3, ItemsKeepBooks
<1>2. BagsAreSound'
  <2>1. \A a \in Account : SoundRecords(record'[a])
    BY DEF SoundRecords
  <2>2. ASSUME NEW k \in 1..Len(due'), NEW a \in Account, due'[k].file = CharsFile(a)
        PROVE  SoundRecords(due'[k].data)
    BY <2>2, Files DEF SoundRecords
  <2> QED BY <2>1, <2>2 DEF RegistryInv, BagsAreSound, SoundRecords, Readable
<1>3. PlayersExist'
  BY DEF PlayersExist
<1>4. LooksAreWorn'
  <2>1. ASSUME NEW a \in Account, school'[a] # None
        PROVE  /\ record'[a][school'[a]].looks = Drawn(record'[a][school'[a]].bag)
               /\ \A i \in record'[a][school'[a]].bag.worn :
                    record'[a][school'[a]].bag.held[i] > 0
    <3>1. school'[a] \in Id /\ record'[a][school'[a]] # None
      BY <2>1
    <3>2. Sound(record'[a][school'[a]].bag)
      BY <3>1
    <3> QED BY <2>1, <3>2 DEF Sound
  <2> QED BY <2>1 DEF LooksAreWorn, Drawn
<1>5. NobodyNew
  BY DEF NobodyNew
<1> QED BY <1>1, <1>2, <1>3, <1>4, <1>5 DEF RegistryInv

(* One record with another bag, and then with another drawing.             *)
Bagged(records, c, pack) == [records EXCEPT ![c].bag = pack]
Redrawn(records, c, pack) == [Bagged(records, c, pack) EXCEPT ![c].looks = Drawn(pack)]

LEMMA Rebagged ==
  ASSUME NEW records \in Records, NEW c \in Id, records[c] # None, NEW pack \in Bag
  PROVE  /\ Bagged(records, c, pack) \in Records
         /\ Bagged(records, c, pack)[c] # None /\ Bagged(records, c, pack)[c].bag = pack
         /\ Bagged(records, c, pack)[c].looks = records[c].looks
         /\ Redrawn(records, c, pack) \in Records
         /\ Redrawn(records, c, pack)[c] # None /\ Redrawn(records, c, pack)[c].bag = pack
         /\ Redrawn(records, c, pack)[c].looks = Drawn(pack)
         /\ \A d \in Id \ {c} : /\ Bagged(records, c, pack)[d] = records[d]
                               /\ Redrawn(records, c, pack)[d] = records[d]
<1> DEFINE bagged == [records EXCEPT ![c].bag = pack]
           drawn == [bagged EXCEPT ![c].looks = Drawn(pack)]
           r == [bag |-> pack, looks |-> records[c].looks]
           s == [bag |-> pack, looks |-> Drawn(pack)]
<1>1. records[c] \in Record /\ Drawn(pack) \in SUBSET Accessory
  BY DEF Records, Drawn
<1>2. r \in Record /\ s \in Record
  BY <1>1 DEF Record
<1>3. bagged = [records EXCEPT ![c] = r]
  <2>1. [records[c] EXCEPT !.bag = pack] = r
    BY <1>1 DEF Record
  <2> QED BY <2>1
<1>4. drawn = [records EXCEPT ![c] = s]
  <2>1. bagged[c] = r
    BY <1>3 DEF Records
  <2>2. [bagged[c] EXCEPT !.looks = Drawn(pack)] = s
    BY <2>1
  <2>3. drawn = [bagged EXCEPT ![c] = s]
    BY <2>2
  <2> HIDE DEF bagged, drawn, r, s
  <2> QED BY <2>3, <1>3 DEF Records
<1>5. r # None /\ s # None
  BY <1>2, Blank
<1> HIDE DEF bagged, drawn
<1>6. bagged[c] = r /\ drawn[c] = s
  BY <1>3, <1>4 DEF Records
<1>7. /\ bagged \in Records /\ drawn \in Records
      /\ \A d \in Id \ {c} : bagged[d] = records[d] /\ drawn[d] = records[d]
  BY <1>2, <1>3, <1>4 DEF Records
<1>8. /\ bagged \in Records /\ drawn \in Records
      /\ bagged[c] # None /\ bagged[c].bag = pack /\ bagged[c].looks = records[c].looks
      /\ drawn[c] # None /\ drawn[c].bag = pack /\ drawn[c].looks = Drawn(pack)
      /\ \A d \in Id \ {c} : bagged[d] = records[d] /\ drawn[d] = records[d]
  BY <1>5, <1>6, <1>7
<1> QED BY <1>8 DEF bagged, drawn, Bagged, Redrawn

(* Whoever is at school is there for one account alone.                    *)
LEMMA ItemsOf ==
  ASSUME RegistryInv, up, NEW a \in Account, NEW c \in Id, school[a] = c
  PROVE  /\ Items(c) = record[a][c].bag
         /\ record[a][c] # None /\ record[a][c] \in Record /\ record[a] \in Records
         /\ record[a][c].bag \in Bag /\ Sound(record[a][c].bag)
         /\ record[a][c].looks = Drawn(record[a][c].bag)
<1>1. c # None
  BY ValueAssumption
<1>2. /\ record \in [Account -> Records] /\ record[a] \in Records
      /\ record[a][c] # None /\ record[a][c].looks = Drawn(record[a][c].bag)
  BY <1>1 DEF RegistryInv, PlayersExist, LooksAreWorn, BooksInv, Typed, BooksTypeOK
<1>3. record[a][c] \in Record /\ Sound(record[a][c].bag)
  BY <1>2 DEF Records, RegistryInv, BagsAreSound, SoundRecords
<1>4. ASSUME NEW b \in Account, school[b] = c PROVE b = a
  <2>1. record[b][c] # None
    BY <1>1, <1>4 DEF RegistryInv, PlayersExist
  <2> QED BY <2>1, <1>2 DEF RegistryInv, BooksInv, RecordsOwned
<1>5. (CHOOSE b \in Account : school[b] = c) = a
  BY <1>4
<1> QED BY <1>2, <1>3, <1>5 DEF Items, Record

-----------------------------------------------------------------------------
(* The writes of a handler that changes one record of an account, and       *)
(* perhaps its locker: each is the file's last word or comes before it.    *)
BagsOwed(a, bagged, drawn) ==
  /\ due' \in Seq(Writes)
  /\ \A k \in 1..Len(due') :
       \/ due'[k].file = LockerFile(a) /\ due'[k].data = locker'[a] /\ locker'[a] # NotLoaded
       \/ /\ due'[k].file = CharsFile(a) /\ due'[k].data \in {bagged, drawn}
          /\ \/ due'[k].data = drawn
             \/ \E j \in k + 1..Len(due') : due'[j].file = CharsFile(a)
  /\ drawn = record[a] \/ \E k \in 1..Len(due') : due'[k].file = CharsFile(a)
  /\ locker' = locker \/ \E k \in 1..Len(due') : due'[k].file = LockerFile(a)

(* One character of an account changes, and perhaps the account's locker.  *)
Changes(a, c, bagged, drawn) ==
  /\ up /\ due = <<>> /\ UNCHANGED <<owner, next, book, disk, up, enrolled>>
  /\ record[a][c] # None
  /\ school' = school \/ school' = [school EXCEPT ![a] = c]
  /\ school'[a] = c
  /\ record' = [record EXCEPT ![a] = drawn]
  /\ locker' = locker \/ \E shelf \in Shelf : locker' = [locker EXCEPT ![a] = shelf]
  /\ bagged[c] # None /\ drawn[c] # None
  /\ Sound(drawn[c].bag) /\ bagged[c].bag = drawn[c].bag
  /\ drawn[c].looks = Drawn(drawn[c].bag)
  /\ \A d \in Id \ {c} : bagged[d] = record[a][d] /\ drawn[d] = record[a][d]
  /\ BagsOwed(a, bagged, drawn)

LEMMA OneRecordKeeps ==
  ASSUME RegistryInv, NEW a \in Account, NEW c \in Id, NEW bagged \in Records, NEW drawn \in Records,
         Changes(a, c, bagged, drawn)
  PROVE  RegistryInv' /\ NobodyNew
<1> USE DEF Changes
<1>1. /\ record \in [Account -> Records] /\ school \in [Account -> Id \union {None}]
      /\ locker \in [Account -> Shelf \union {NotLoaded}]
  BY DEF RegistryInv, BooksInv, Typed, BooksTypeOK
<1>2. /\ record' \in [Account -> Records] /\ record'[a] = drawn
      /\ \A b \in Account \ {a} : record'[b] = record[b] /\ locker'[b] = locker[b]
                                  /\ school'[b] = school[b]
      /\ school' \in [Account -> Id \union {None}]
      /\ locker' \in [Account -> Shelf \union {NotLoaded}]
  BY <1>1
<1>3. \A b \in Account, d \in Id : record[b][d] # None => Sound(record[b][d].bag)
  BY DEF RegistryInv, BagsAreSound, SoundRecords
<1>4. \A records \in {bagged, drawn}, d \in Id :
        records[d] # None => record[a][d] # None /\ Sound(records[d].bag)
  BY <1>3
<1>5. \A b \in Account : school[b] # None =>
        /\ record[b][school[b]] # None
        /\ record[b][school[b]].looks = Drawn(record[b][school[b]].bag)
  BY DEF RegistryInv, PlayersExist, LooksAreWorn
<1>6. \A k \in 1..Len(due') : \E b \in Account :
           \/ /\ due'[k].file = LockerFile(b) /\ due'[k].data = locker'[b]
              /\ locker'[b] # NotLoaded
           \/ /\ due'[k].file = CharsFile(b) /\ due'[k].data \in Records
              /\ \A d \in Id : due'[k].data[d] # None =>
                   record[b][d] # None /\ Sound(due'[k].data[d].bag)
              /\ \/ due'[k].data = record'[b]
                 \/ \E j \in k + 1..Len(due') : due'[j].file = CharsFile(b)
  <2> TAKE k \in 1..Len(due')
  <2> WITNESS a \in Account
  <2> QED BY <1>2, <1>4 DEF BagsOwed
<1>7. ASSUME NEW b \in Account
      PROVE  /\ \/ record'[b] = record[b]
                \/ \E k \in 1..Len(due') : due'[k].file = CharsFile(b)
             /\ \/ locker'[b] = locker[b]
                \/ \E k \in 1..Len(due') : due'[k].file = LockerFile(b)
                \/ Read(LockerFile(b), EmptyShelf) = locker'[b]
             /\ \A d \in Id : record'[b][d] # None =>
                  record[b][d] # None /\ Sound(record'[b][d].bag)
             /\ school'[b] # None =>
                  /\ record'[b][school'[b]] # None
                  /\ record'[b][school'[b]].looks = Drawn(record'[b][school'[b]].bag)
  <2>1. CASE b = a
    BY <2>1, <1>2, <1>4 DEF BagsOwed
  <2>2. CASE b # a
    BY <2>2, <1>2, <1>3, <1>5
  <2> QED BY <2>1, <2>2
<1> HIDE DEF RegistryInv
<1>8. due' \in Seq(Writes)
  BY DEF BagsOwed
<1> QED BY <1>2, <1>6, <1>7, <1>8, ItemsKeep

-----------------------------------------------------------------------------
(* The bag, whatever the locker is owed, and the looks if they changed.    *)
LEMMA BagThenLooksOwes ==
  ASSUME NEW a \in Account, NEW bagged \in Records, NEW drawn \in Records, NEW shelf \in Shelf,
         \/ /\ locker' = locker
            /\ due' = (<<SaveChars(a, bagged)>> \o <<>>)
                       \o If(drawn # bagged, <<SaveChars(a, drawn)>>)
         \/ /\ locker'[a] = shelf
            /\ due' = (<<SaveChars(a, bagged)>> \o <<SaveLocker(a, shelf)>>)
                       \o If(drawn # bagged, <<SaveChars(a, drawn)>>)
  PROVE  BagsOwed(a, bagged, drawn)
<1> DEFINE B == SaveChars(a, bagged)
           L == SaveLocker(a, shelf)
           D == SaveChars(a, drawn)
           Goal == BagsOwed(a, bagged, drawn)
<1>1. /\ B \in Writes /\ B.file = CharsFile(a) /\ B.data = bagged
      /\ L \in Writes /\ L.file = LockerFile(a) /\ L.data = shelf
      /\ D \in Writes /\ D.file = CharsFile(a) /\ D.data = drawn
  BY Files DEF SaveChars, SaveLocker, Written, Writes, Contents
<1>2. shelf # NotLoaded
  BY Blank
<1> HIDE DEF B, L, D
<1>3. \/ due' = <<B>> /\ locker' = locker /\ drawn = bagged
      \/ due' = <<B, D>> /\ locker' = locker
      \/ due' = <<B, L>> /\ drawn = bagged /\ locker'[a] = shelf
      \/ due' = <<B, L, D>> /\ locker'[a] = shelf
  <2>1. \/ /\ locker' = locker
           /\ due' = (<<B>> \o <<>>) \o If(drawn # bagged, <<D>>)
        \/ /\ locker'[a] = shelf
           /\ due' = (<<B>> \o <<L>>) \o If(drawn # bagged, <<D>>)
    BY DEF B, L, D
  <2>2. <<B>> \o <<>> = <<B>>
    BY <1>1, NoneLeft
  <2>3. <<B>> \o <<L>> = <<B, L>> /\ <<B>> \o <<D>> = <<B, D>>
    BY <1>1, OneAndOne
  <2>4. <<B, L>> \o <<D>> = <<B, L, D>>
    BY <1>1, TwoAndOne
  <2>5. <<B, L>> \o <<>> = <<B, L>>
    BY <1>1, NoneLeft
  <2>6. CASE drawn = bagged
    <3>1. If(drawn # bagged, <<D>>) = <<>>
      BY <2>6 DEF If
    <3> QED BY <2>1, <2>2, <2>3, <2>5, <2>6, <3>1
  <2>7. CASE drawn # bagged
    <3>1. If(drawn # bagged, <<D>>) = <<D>>
      BY <2>7 DEF If
    <3> QED BY <2>1, <2>2, <2>3, <2>4, <3>1
  <2> QED BY <2>6, <2>7
<1>4. ASSUME due' = <<B>>, locker' = locker, drawn = bagged PROVE Goal
  <2>1. /\ due' \in Seq(Writes)
        /\ Len(due') = 1
        /\ due'[1] = B
    BY <1>1, <1>4
  <2>2. 1..Len(due') = {1}
    BY <2>1
  <2> QED BY <2>1, <2>2, <1>1, <1>2, <1>4 DEF BagsOwed
<1>5. ASSUME due' = <<B, D>>, locker' = locker PROVE Goal
  <2>1. /\ due' \in Seq(Writes)
        /\ Len(due') = 2
        /\ due'[1] = B
        /\ due'[2] = D
    BY <1>1, <1>5
  <2>2. 1..Len(due') = {1, 2}
    BY <2>1
  <2>3. 2 \in 1 + 1..Len(due') /\ due'[2].file = CharsFile(a)
    BY <2>1, <2>2, <1>1
  <2> QED BY <2>1, <2>2, <2>3, <1>1, <1>2, <1>5 DEF BagsOwed
<1>6. ASSUME due' = <<B, L>>, drawn = bagged, locker'[a] = shelf PROVE Goal
  <2>1. /\ due' \in Seq(Writes)
        /\ Len(due') = 2
        /\ due'[1] = B
        /\ due'[2] = L
    BY <1>1, <1>6
  <2>2. 1..Len(due') = {1, 2}
    BY <2>1
  <2> QED BY <2>1, <2>2, <1>1, <1>2, <1>6 DEF BagsOwed
<1>7. ASSUME due' = <<B, L, D>>, locker'[a] = shelf PROVE Goal
  <2>1. /\ due' \in Seq(Writes)
        /\ Len(due') = 3
        /\ due'[1] = B
        /\ due'[2] = L
        /\ due'[3] = D
    BY <1>1, <1>7
  <2>2. 1..Len(due') = {1, 2, 3}
    BY <2>1
  <2>3. 3 \in 1 + 1..Len(due') /\ due'[3].file = CharsFile(a)
    BY <2>1, <2>2, <1>1
  <2> QED BY <2>1, <2>2, <2>3, <1>1, <1>2, <1>7 DEF BagsOwed
<1>8. Goal
  BY <1>3, <1>4, <1>5, <1>6, <1>7
<1> QED BY <1>8

(* The operations that save the bag and then, when what is worn has        *)
(* changed them, the looks.                                                *)
LEMMA BagThenLooksKeeps ==
  ASSUME RegistryInv, NEW a \in Account, NEW c \in Id, AtSchool(a, c), OnlyItems,
         NEW pack \in Bag, Sound(pack), NEW shelf \in Shelf,
         \/ UNCHANGED locker /\ BagThenLooks(a, c, pack, <<>>)
         \/ /\ locker' = [locker EXCEPT ![a] = shelf]
            /\ BagThenLooks(a, c, pack, LockerToo(a, shelf))
  PROVE  RegistryInv' /\ NobodyNew
<1> DEFINE bagged == Bagged(record[a], c, pack)
           drawn == Redrawn(record[a], c, pack)
<1>1. /\ up /\ due = <<>> /\ UNCHANGED <<owner, next, book, disk, up, enrolled, school>>
      /\ school[a] = c /\ record' = [record EXCEPT ![a] = drawn]
  <2>1. PICK writes : BagThenLooks(a, c, pack, writes)
    OBVIOUS
  <2>2. record' = [record EXCEPT ![a] = drawn] /\ up /\ due = <<>> /\ UNCHANGED <<disk, up>>
    <3>1. record' = [record EXCEPT ![a] = drawn]
      BY <2>1, Zenon DEF BagThenLooks, Bagged, Redrawn
    <3>2. up /\ due = <<>> /\ UNCHANGED <<disk, up>>
      <4>1. \E w : Owes(w)
        BY <2>1, Zenon DEF BagThenLooks
      <4> QED BY <4>1 DEF Owes
    <3> QED BY <3>1, <3>2
  <2> QED BY <2>2 DEF AtSchool, OnlyItems
<1>2. record[a][c] # None /\ record[a] \in Records
  BY <1>1, ItemsOf
<1>3. /\ record \in [Account -> Records] /\ school \in [Account -> Id \union {None}]
      /\ locker \in [Account -> Shelf \union {NotLoaded}]
  BY DEF RegistryInv, BooksInv, Typed, BooksTypeOK
<1>4. \/ /\ locker' = locker
         /\ due' = (<<SaveChars(a, bagged)>> \o <<>>)
                    \o If(drawn # bagged, <<SaveChars(a, drawn)>>)
      \/ /\ locker'[a] = shelf
         /\ due' = (<<SaveChars(a, bagged)>> \o <<SaveLocker(a, shelf)>>)
                    \o If(drawn # bagged, <<SaveChars(a, drawn)>>)
  <2>1. CASE UNCHANGED locker /\ BagThenLooks(a, c, pack, <<>>)
    BY <2>1 DEF BagThenLooks, Owes, Bagged, Redrawn
  <2>2. CASE /\ locker' = [locker EXCEPT ![a] = shelf]
             /\ BagThenLooks(a, c, pack, LockerToo(a, shelf))
    <3>1. locker'[a] = shelf
      BY <2>2, <1>3
    <3>2. due' = (<<SaveChars(a, bagged)>> \o <<SaveLocker(a, shelf)>>)
                    \o If(drawn # bagged, <<SaveChars(a, drawn)>>)
      BY <2>2 DEF BagThenLooks, Owes, LockerToo, Bagged, Redrawn
    <3> QED BY <3>1, <3>2
  <2> QED BY <2>1, <2>2
<1>5. /\ bagged \in Records /\ drawn \in Records
      /\ bagged[c] # None /\ bagged[c].bag = pack
      /\ drawn[c] # None /\ drawn[c].bag = pack /\ drawn[c].looks = Drawn(pack)
      /\ \A d \in Id \ {c} : bagged[d] = record[a][d] /\ drawn[d] = record[a][d]
  BY <1>2, Rebagged
<1> HIDE DEF bagged, drawn
<1>6. BagsOwed(a, bagged, drawn)
  BY <1>4, <1>5, BagThenLooksOwes
<1>7. locker' = locker \/ \E s \in Shelf : locker' = [locker EXCEPT ![a] = s]
  OBVIOUS
<1>8. Sound(drawn[c].bag) /\ bagged[c].bag = drawn[c].bag /\ drawn[c].looks = Drawn(drawn[c].bag)
  BY <1>5
<1>9. Changes(a, c, bagged, drawn)
  BY <1>1, <1>2, <1>5, <1>6, <1>7, <1>8 DEF Changes
<1> QED BY <1>5, <1>9, OneRecordKeeps

(* 0x4D04, 0x4D07, 0x4D0D and 0x4D0A.                                      *)
LEMMA CarriedKeeps ==
  ASSUME RegistryInv, NEW a \in Account, NEW c \in Id, NEW i \in Item,
         Equip(a, c, i) \/ Use(a, c, i) \/ Discard(a, c, i) \/ PutInLocker(a, c, i)
  PROVE  RegistryInv' /\ NobodyNew
<1> DEFINE pack == record[a][c].bag
<1>1. up /\ AtSchool(a, c) /\ OnlyItems
  <2>1. \E after, writes : BagThenLooks(a, c, after, writes)
    BY DEF Equip, Use, Discard, PutInLocker
  <2>2. \E w : Owes(w)
    BY <2>1 DEF BagThenLooks
  <2>3. AtSchool(a, c) /\ OnlyItems
    BY DEF Equip, Use, Discard, PutInLocker
  <2> QED BY <2>2, <2>3 DEF Owes
<1>2. Items(c) = pack /\ pack \in Bag /\ Sound(pack)
  BY <1>1, ItemsOf DEF AtSchool
<1>3. EmptyShelf \in Shelf /\ 1 \in 1..RowMax
  BY Blank, RowMaxAssumption
<1> HIDE DEF pack
<1>4. CASE Equip(a, c, i)
  <2>1. CASE CanWear(pack, i) /\ BagThenLooks(a, c, Wear(pack, i), <<>>)
    <3>1. Wear(pack, i) \in Bag /\ Sound(Wear(pack, i))
      BY <1>2, <2>1, WearKeeps
    <3> QED BY <1>1, <1>3, <1>4, <2>1, <3>1, BagThenLooksKeeps DEF Equip
  <2>2. CASE CanTakeOff(pack, i) /\ BagThenLooks(a, c, TakeOff(pack, i), <<>>)
    <3>1. TakeOff(pack, i) \in Bag /\ Sound(TakeOff(pack, i))
      BY <1>2, TakeOffKeeps
    <3> QED BY <1>1, <1>3, <1>4, <2>2, <3>1, BagThenLooksKeeps DEF Equip
  <2> QED BY <1>2, <1>4, <2>1, <2>2 DEF Equip
<1>5. CASE Use(a, c, i) \/ Discard(a, c, i) \/ PutInLocker(a, c, i)
  <2>1. CanTake(pack, i, 1)
    BY <1>2, <1>5 DEF Use, Discard, PutInLocker
  <2>2. Take(pack, i, 1) \in Bag /\ Sound(Take(pack, i, 1))
    BY <1>2, <1>3, <2>1, TakeKeeps
  <2>3. CASE Use(a, c, i) \/ Discard(a, c, i)
    BY <1>1, <1>2, <1>3, <2>2, <2>3, BagThenLooksKeeps DEF Use, Discard
  <2>4. CASE PutInLocker(a, c, i)
    <3> DEFINE shelf == [locker[a] EXCEPT ![i] = @ + 1]
    <3>1. locker[a] \in Shelf /\ locker[a][i] < RowMax
      BY <2>4 DEF PutInLocker, RegistryInv, BooksInv, Typed, BooksTypeOK
    <3>2. shelf \in Shelf
      BY <3>1, RowMaxAssumption DEF Shelf
    <3>3. /\ locker' = [locker EXCEPT ![a] = shelf]
          /\ BagThenLooks(a, c, Take(pack, i, 1), LockerToo(a, shelf))
      BY <2>4, <1>2 DEF PutInLocker, Stores
    <3> HIDE DEF shelf
    <3> QED BY <1>1, <2>2, <3>2, <3>3, BagThenLooksKeeps
  <2> QED BY <1>5, <2>3, <2>4
<1> QED BY <1>4, <1>5

(* The operations that save the bag alone: the looks stay true, for what   *)
(* is worn of what is drawn has not changed.                               *)
LEMMA BagAloneKeeps ==
  ASSUME RegistryInv, NEW a \in Account, NEW c \in Id, AtSchool(a, c), OnlyItems,
         NEW pack \in Bag, Sound(pack), Drawn(pack) = Drawn(record[a][c].bag),
         record' = [record EXCEPT ![a][c].bag = pack], NEW shelf \in Shelf,
         \/ UNCHANGED locker /\ Owes(<<SaveChars(a, record'[a])>>)
         \/ /\ locker' = [locker EXCEPT ![a] = shelf]
            /\ Owes(<<SaveLocker(a, locker'[a]), SaveChars(a, record'[a])>>)
  PROVE  RegistryInv' /\ NobodyNew
<1> DEFINE bagged == Bagged(record[a], c, pack)
<1>1. /\ up /\ due = <<>> /\ UNCHANGED <<owner, next, book, disk, up, enrolled, school>>
      /\ school[a] = c
  BY DEF AtSchool, OnlyItems, Owes
<1>2. /\ record[a][c] # None /\ record[a] \in Records
      /\ record[a][c].looks = Drawn(record[a][c].bag)
  BY <1>1, ItemsOf
<1>3. record \in [Account -> Records] /\ locker \in [Account -> Shelf \union {NotLoaded}]
  BY DEF RegistryInv, BooksInv, Typed, BooksTypeOK
<1>4. record' = [record EXCEPT ![a] = bagged]
  BY DEF Bagged
<1>5. /\ bagged \in Records /\ bagged[c] # None /\ bagged[c].bag = pack
      /\ bagged[c].looks = record[a][c].looks
      /\ \A d \in Id \ {c} : bagged[d] = record[a][d]
  BY <1>2, Rebagged
<1> HIDE DEF bagged
<1>6. record'[a] = bagged
  BY <1>3, <1>4
<1> DEFINE B == SaveChars(a, bagged)
           L == SaveLocker(a, shelf)
<1>7. /\ B \in Writes /\ B.file = CharsFile(a) /\ B.data = bagged
      /\ L \in Writes /\ L.file = LockerFile(a) /\ L.data = shelf /\ shelf # NotLoaded
  BY <1>5, Files, Blank DEF SaveChars, SaveLocker, Written, Writes, Contents
<1>8. \/ locker' = locker /\ due' = <<B>>
      \/ locker' = [locker EXCEPT ![a] = shelf] /\ locker'[a] = shelf /\ due' = <<L, B>>
  BY <1>3, <1>6 DEF Owes
<1> HIDE DEF B, L
<1>9. BagsOwed(a, bagged, bagged)
  <2>1. CASE locker' = locker /\ due' = <<B>>
    <3>1. due' \in Seq(Writes) /\ Len(due') = 1 /\ due'[1] = B /\ 1..Len(due') = {1}
      BY <1>7, <2>1
    <3> QED BY <3>1, <2>1, <1>7 DEF BagsOwed
  <2>2. CASE locker'[a] = shelf /\ due' = <<L, B>>
    <3>1. /\ due' \in Seq(Writes) /\ Len(due') = 2 /\ due'[1] = L /\ due'[2] = B
          /\ 1..Len(due') = {1, 2}
      BY <1>7, <2>2
    <3> QED BY <3>1, <2>2, <1>7 DEF BagsOwed
  <2> QED BY <1>8, <2>1, <2>2
<1>10. Changes(a, c, bagged, bagged)
  BY <1>1, <1>2, <1>4, <1>5, <1>8, <1>9 DEF Changes
<1> QED BY <1>5, <1>10, OneRecordKeeps

(* shop.trade_replies: nothing worn pays for anything that is drawn.       *)
LEMMA BarteredKeeps ==
  ASSUME NEW pack \in Bag, Sound(pack), NEW g \in Goods, CanPay(pack, g.bill), Fits(pack, g.item, 1)
  PROVE  /\ Bartered(pack, g.bill, g.item) \in Bag /\ Sound(Bartered(pack, g.bill, g.item))
         /\ Drawn(Bartered(pack, g.bill, g.item)) = Drawn(pack)
<1> DEFINE bill == g.bill
           paid == [held |-> [j \in Item |-> pack.held[j] - bill[j]],
                    worn |-> {j \in pack.worn : pack.held[j] > bill[j] \/ bill[j] = 0}]
<1>1. g.item \in Item /\ bill \in [Item -> 0..RowMax]
  BY GoodsAssumption DEF Shelf
<1>2. \A i \in Accessory : i \in Item /\ bill[i] = 0
  BY GoodsAssumption
<1>3. RowMax \in Nat
  BY RowMaxAssumption
<1> HIDE DEF bill
<1>4. ASSUME NEW i \in Item
      PROVE  /\ pack.held[i] \in 0..RowMax /\ bill[i] \in 0..RowMax /\ pack.held[i] >= bill[i]
             /\ pack.held[i] - bill[i] \in 0..RowMax
  <2>1. pack.held[i] \in 0..RowMax
    BY DEF Bag
  <2>2. bill[i] \in 0..RowMax
    BY <1>1
  <2>3. pack.held[i] >= bill[i]
    BY DEF CanPay, bill
  <2> QED BY <2>1, <2>2, <2>3, <1>3
<1>5. paid \in Bag
  <2>1. [j \in Item |-> pack.held[j] - bill[j]] \in [Item -> 0..RowMax]
    BY <1>4
  <2> QED BY <2>1 DEF Bag
<1>6. Sound(paid)
  <2>1. ASSUME NEW j \in paid.worn PROVE paid.held[j] > 0
    <3>1. j \in Item /\ j \in pack.worn /\ (pack.held[j] > bill[j] \/ bill[j] = 0)
      BY DEF Bag
    <3>2. pack.held[j] > 0 /\ paid.held[j] = pack.held[j] - bill[j]
      BY <3>1 DEF Sound
    <3> HIDE DEF paid
    <3> QED BY <3>1, <3>2, <1>3, <1>4
  <2> HIDE DEF paid
  <2> QED BY <2>1 DEF Sound
<1>7. Fits(paid, g.item, 1)
  <2>1. /\ pack.held[g.item] + 1 <= RowMax /\ paid.held[g.item] = pack.held[g.item] - bill[g.item]
    BY <1>1 DEF Fits
  <2> HIDE DEF paid
  <2>2. paid.held[g.item] + 1 <= RowMax
    BY <2>1, <1>1, <1>3, <1>4
  <2> QED BY <2>2 DEF Fits
<1>8. paid.worn \intersect Accessory = pack.worn \intersect Accessory
  BY <1>2
<1>9. Bartered(pack, g.bill, g.item) = Receive(paid, g.item, 1)
  BY DEF Bartered, bill
<1> HIDE DEF paid
<1>10. /\ Receive(paid, g.item, 1) \in Bag /\ Sound(Receive(paid, g.item, 1))
  BY <1>1, <1>3, <1>5, <1>6, <1>7, ReceiveKeeps, RowMaxAssumption
<1>11. Receive(paid, g.item, 1).worn = paid.worn
  BY <1>5 DEF Receive, Bag
<1> QED BY <1>8, <1>9, <1>10, <1>11 DEF Drawn

LEMMA ReceivedKeeps ==
  ASSUME NEW pack \in Bag, Sound(pack), NEW i \in Item, Fits(pack, i, 1)
  PROVE  /\ Receive(pack, i, 1) \in Bag /\ Sound(Receive(pack, i, 1))
         /\ Drawn(Receive(pack, i, 1)) = Drawn(pack)
<1>1. 1 \in 1..RowMax
  BY RowMaxAssumption
<1>2. Receive(pack, i, 1).worn = pack.worn
  BY DEF Receive, Bag
<1> QED BY <1>1, <1>2, ReceiveKeeps DEF Drawn

(* The worn copy stays, so what is worn stays.                             *)
LEMMA SpareKeeps ==
  ASSUME NEW pack \in Bag, Sound(pack), NEW i \in Item, pack.held[i] - WornCopy(pack, i) >= 1
  PROVE  /\ Take(pack, i, 1) \in Bag /\ Sound(Take(pack, i, 1))
         /\ Drawn(Take(pack, i, 1)) = Drawn(pack)
<1>1. 1 \in 1..RowMax /\ pack.held[i] \in 0..RowMax /\ RowMax \in Nat
  BY RowMaxAssumption DEF Bag
<1>2. pack.held[i] >= 1 /\ (pack.held[i] = 1 => i \notin pack.worn)
  BY <1>1 DEF WornCopy
<1>3. CanTake(pack, i, 1)
  BY <1>2 DEF CanTake
<1>4. Take(pack, i, 1).worn = pack.worn
  BY <1>2 DEF Take
<1> QED BY <1>1, <1>3, <1>4, TakeKeeps DEF Drawn

(* 0x4F07, the prizes, and 0x040A.                                         *)
LEMMA ReceivingKeeps ==
  ASSUME RegistryInv, NEW a \in Account, NEW c \in Id,
         \/ \E g \in Goods : ShopTrade(a, c, g)
         \/ \E i \in Item : Awarded(a, c, i) \/ LockerTake(a, c, i)
  PROVE  RegistryInv' /\ NobodyNew
<1> DEFINE pack == record[a][c].bag
<1>1. up /\ AtSchool(a, c) /\ OnlyItems
  BY DEF ShopTrade, Awarded, LockerTake, SetItems, Owes
<1>2. Items(c) = pack /\ pack \in Bag /\ Sound(pack)
  BY <1>1, ItemsOf DEF AtSchool
<1>3. EmptyShelf \in Shelf
  BY Blank
<1> HIDE DEF pack
<1>4. ASSUME NEW g \in Goods, ShopTrade(a, c, g) PROVE RegistryInv' /\ NobodyNew
  <2> DEFINE new == Bartered(pack, g.bill, g.item)
  <2>1. new \in Bag /\ Sound(new) /\ Drawn(new) = Drawn(pack)
    BY <1>2, <1>4, BarteredKeeps DEF ShopTrade
  <2>2. SetItems(a, c, new)
    BY <1>2, <1>4 DEF ShopTrade
  <2> HIDE DEF new
  <2> QED BY <1>1, <1>3, <2>1, <2>2, BagAloneKeeps DEF SetItems, pack
<1>5. ASSUME NEW i \in Item, Awarded(a, c, i) PROVE RegistryInv' /\ NobodyNew
  <2> DEFINE new == Receive(pack, i, 1)
  <2>1. new \in Bag /\ Sound(new) /\ Drawn(new) = Drawn(pack)
    BY <1>2, <1>5, ReceivedKeeps DEF Awarded
  <2>2. SetItems(a, c, new)
    BY <1>2, <1>5 DEF Awarded
  <2> HIDE DEF new
  <2> QED BY <1>1, <1>3, <2>1, <2>2, BagAloneKeeps DEF SetItems, pack
<1>6. ASSUME NEW i \in Item, LockerTake(a, c, i) PROVE RegistryInv' /\ NobodyNew
  <2> DEFINE new == Receive(pack, i, 1)
             shelf == [locker[a] EXCEPT ![i] = @ - 1]
  <2>1. new \in Bag /\ Sound(new) /\ Drawn(new) = Drawn(pack)
    BY <1>2, <1>6, ReceivedKeeps DEF LockerTake
  <2>2. record' = [record EXCEPT ![a][c].bag = new]
    BY <1>6 DEF LockerTake, pack
  <2>3. /\ locker' = [locker EXCEPT ![a] = shelf]
        /\ Owes(<<SaveLocker(a, locker'[a]), SaveChars(a, record'[a])>>)
    BY <1>6 DEF LockerTake, Stores
  <2>4. shelf \in Shelf
    <3>1. locker[a] \in Shelf /\ locker[a][i] >= 1
      BY <1>6 DEF LockerTake, RegistryInv, BooksInv, Typed, BooksTypeOK
    <3> QED BY <3>1, RowMaxAssumption DEF Shelf
  <2> HIDE DEF new, shelf
  <2> QED BY <1>1, <2>1, <2>2, <2>3, <2>4, BagAloneKeeps DEF pack
<1> QED BY <1>4, <1>5, <1>6

-----------------------------------------------------------------------------
(* A locker that is opened, or that something is thrown out of.            *)
LEMMA UnchangedRecords ==
  ASSUME RegistryInv, NEW a \in Account
  PROVE  /\ record[a] \in Records
         /\ \A c \in Id : record[a][c] # None => Sound(record[a][c].bag)
         /\ school[a] # None => /\ record[a][school[a]] # None
                                /\ record[a][school[a]].looks = Drawn(record[a][school[a]].bag)
BY DEF RegistryInv, BooksInv, Typed, BooksTypeOK, BagsAreSound, SoundRecords, PlayersExist, LooksAreWorn

LEMMA LockerKeeps ==
  ASSUME RegistryInv, NEW a \in Account, NEW shelf \in Shelf, up, due = <<>>,
         UNCHANGED <<owner, next, record, book, disk, up, school, enrolled>>,
         locker' = [locker EXCEPT ![a] = shelf],
         \/ due' = <<SaveLocker(a, shelf)>>
         \/ due' = <<>> /\ Read(LockerFile(a), EmptyShelf) = shelf
  PROVE  RegistryInv' /\ NobodyNew
<1> DEFINE L == SaveLocker(a, shelf)
<1>1. /\ L \in Writes /\ L.file = LockerFile(a) /\ L.data = shelf /\ shelf # NotLoaded
  BY Files, Blank DEF SaveLocker, Written, Writes, Contents
<1>2. /\ record \in [Account -> Records] /\ school \in [Account -> Id \union {None}]
      /\ locker \in [Account -> Shelf \union {NotLoaded}]
  BY DEF RegistryInv, BooksInv, Typed, BooksTypeOK
<1> HIDE DEF L
<1>3. /\ locker' \in [Account -> Shelf \union {NotLoaded}] /\ locker'[a] = shelf
      /\ \A b \in Account \ {a} : locker'[b] = locker[b]
  BY <1>2
<1>4. /\ due' \in Seq(Writes)
      /\ \A k \in 1..Len(due') : due'[k] = L
      /\ \/ \E k \in 1..Len(due') : due'[k].file = LockerFile(a)
         \/ Read(LockerFile(a), EmptyShelf) = locker'[a]
  <2>1. CASE due' = <<L>>
    BY <2>1, <1>1
  <2>2. CASE due' = <<>> /\ Read(LockerFile(a), EmptyShelf) = shelf
    BY <2>2, <1>3
  <2> QED BY <2>1, <2>2 DEF L
<1>5. \A k \in 1..Len(due') : \E b \in Account :
         /\ due'[k].file = LockerFile(b) /\ due'[k].data = locker'[b] /\ locker'[b] # NotLoaded
  BY <1>1, <1>3, <1>4
<1>6. ASSUME NEW b \in Account
      PROVE  /\ record'[b] = record[b]
             /\ \/ locker'[b] = locker[b]
                \/ \E k \in 1..Len(due') : due'[k].file = LockerFile(b)
                \/ Read(LockerFile(b), EmptyShelf) = locker'[b]
             /\ \A c \in Id : record'[b][c] # None =>
                  record[b][c] # None /\ Sound(record'[b][c].bag)
             /\ school'[b] # None =>
                  /\ record'[b][school'[b]] # None
                  /\ record'[b][school'[b]].looks = Drawn(record'[b][school'[b]].bag)
  BY <1>3, <1>4, UnchangedRecords
<1> QED BY <1>2, <1>3, <1>4, <1>5, <1>6, ItemsKeep

LEMMA LockersKeep ==
  ASSUME RegistryInv, NEW a \in Account, OpenLocker(a) \/ \E i \in Item : LockerDel(a, i)
  PROVE  RegistryInv' /\ NobodyNew
<1>1. CASE OpenLocker(a)
  <2> DEFINE shelf == IF disk[LockerFile(a)] = Absent
                      THEN InitialShelf ELSE Read(LockerFile(a), EmptyShelf)
  <2>1. /\ up /\ due = <<>> /\ locker' = [locker EXCEPT ![a] = shelf]
        /\ due' = If(disk[LockerFile(a)] = Absent, <<SaveLocker(a, shelf)>>)
        /\ UNCHANGED <<owner, next, record, book, disk, up, school, enrolled>>
    BY <1>1 DEF OpenLocker, Owes
  <2>2. shelf \in Shelf
    BY Blank DEF RegistryInv, BooksInv, Typed, BooksTypeOK, Read
  <2>3. \/ due' = <<SaveLocker(a, shelf)>>
        \/ due' = <<>> /\ Read(LockerFile(a), EmptyShelf) = shelf
    BY <2>1 DEF If
  <2> HIDE DEF shelf
  <2> QED BY <2>1, <2>2, <2>3, LockerKeeps
<1>2. ASSUME NEW i \in Item, LockerDel(a, i) PROVE RegistryInv' /\ NobodyNew
  <2> DEFINE shelf == [locker[a] EXCEPT ![i] = @ - 1]
  <2>1. /\ up /\ due = <<>> /\ locker' = [locker EXCEPT ![a] = shelf]
        /\ due' = <<SaveLocker(a, locker'[a])>>
        /\ UNCHANGED <<owner, next, record, book, disk, up, school, enrolled>>
    BY <1>2 DEF LockerDel, Owes, Stores, OnlyItems
  <2>2. shelf \in Shelf /\ locker'[a] = shelf
    <3>1. /\ locker[a] \in Shelf /\ locker[a][i] >= 1
          /\ locker \in [Account -> Shelf \union {NotLoaded}]
      BY <1>2 DEF LockerDel, RegistryInv, BooksInv, Typed, BooksTypeOK
    <3> QED BY <2>1, <3>1, RowMaxAssumption DEF Shelf
  <2> HIDE DEF shelf
  <2> QED BY <2>1, <2>2, LockerKeeps
<1> QED BY <1>1, <1>2

(* Leaving the school saves nothing: it is all saved.                      *)
LEMMA LogoutKeeps ==
  ASSUME RegistryInv, NEW a \in Account, Logout(a)
  PROVE  RegistryInv' /\ NobodyNew
<1>1. /\ up /\ due = <<>> /\ due' = <<>> /\ school' = [school EXCEPT ![a] = None]
      /\ UNCHANGED <<owner, next, record, locker, book, disk, up, enrolled>>
  BY DEF Logout, Owes, memory
<1>2. /\ record' \in [Account -> Records] /\ school' \in [Account -> Id \union {None}]
      /\ locker' \in [Account -> Shelf \union {NotLoaded}]
      /\ due' \in Seq(Writes) /\ \A k \in 1..Len(due') : FALSE
      /\ \A b \in Account : school'[b] = None \/ school'[b] = school[b]
  BY <1>1 DEF RegistryInv, BooksInv, Typed, BooksTypeOK
<1>3. ASSUME NEW b \in Account
      PROVE  /\ record'[b] = record[b] /\ locker'[b] = locker[b]
             /\ \A c \in Id : record'[b][c] # None =>
                  record[b][c] # None /\ Sound(record'[b][c].bag)
             /\ school'[b] # None =>
                  /\ record'[b][school'[b]] # None
                  /\ record'[b][school'[b]].looks = Drawn(record'[b][school'[b]].bag)
  BY <1>1, <1>2, UnchangedRecords
<1> QED BY <1>1, <1>2, <1>3, ItemsKeep

(* 0x0306: what the looks say is put on, and what is put on is carried.    *)
Left(r, shelf) ==
  [i \in Item |-> IF Settled(r).held[i] > r.bag.held[i] /\ shelf[i] > 0
                  THEN shelf[i] - 1 ELSE shelf[i]]

LEMMA SettledKeeps ==
  ASSUME NEW r \in Record, Sound(r.bag), NEW shelf \in Shelf
  PROVE  /\ Settled(r) \in Bag /\ Sound(Settled(r)) /\ Left(r, shelf) \in Shelf
         /\ Settled(r) = r.bag => Left(r, shelf) = shelf
<1>1. r.bag \in Bag /\ r.looks \subseteq Item /\ Unseen(r) \subseteq Item /\ RowMax \in Nat \ {0}
  BY GoodsAssumption, RowMaxAssumption DEF Record, Unseen
<1> DEFINE held == [i \in Item |-> IF i \in Unseen(r) /\ r.bag.held[i] = 0 THEN 1
                                   ELSE r.bag.held[i]]
           worn == r.bag.worn \union Unseen(r)
<1>2. \A i \in Item : r.bag.held[i] \in 0..RowMax /\ shelf[i] \in 0..RowMax
  BY <1>1 DEF Bag, Shelf
<1>3. held \in [Item -> 0..RowMax] /\ worn \in SUBSET Item
  BY <1>1, <1>2 DEF Bag
<1>4. ASSUME NEW i \in worn PROVE held[i] > 0
  <2>1. i \in Item /\ (i \in r.bag.worn => r.bag.held[i] > 0)
    BY <1>3 DEF Sound
  <2>2. held[i] = IF i \in Unseen(r) /\ r.bag.held[i] = 0 THEN 1 ELSE r.bag.held[i]
    BY <2>1
  <2> QED BY <2>1, <2>2, <1>2
<1>5. Settled(r).held = held /\ Settled(r).worn = worn /\ Settled(r) = [held |-> held, worn |-> worn]
  BY DEF Settled
<1> HIDE DEF held, worn
<1>6. Settled(r) \in Bag
  BY <1>3, <1>5 DEF Bag
<1>7. Sound(Settled(r))
  BY <1>4, <1>5 DEF Sound
<1> DEFINE after == [i \in Item |-> IF Settled(r).held[i] > r.bag.held[i] /\ shelf[i] > 0
                                    THEN shelf[i] - 1 ELSE shelf[i]]
<1>8. after \in Shelf
  <2>1. ASSUME NEW i \in Item PROVE after[i] \in 0..RowMax
    <3>1. shelf[i] \in 0..RowMax
      BY <1>2
    <3> DEFINE more == Settled(r).held[i] > r.bag.held[i]
    <3>2. after[i] = IF more /\ shelf[i] > 0 THEN shelf[i] - 1 ELSE shelf[i]
      OBVIOUS
    <3> HIDE DEF more
    <3> HIDE DEF after
    <3> QED BY <3>1, <3>2, <1>1
  <2> QED BY <2>1 DEF Shelf
<1>9. ASSUME Settled(r) = r.bag PROVE after = shelf
  <2>1. ASSUME NEW i \in Item PROVE after[i] = shelf[i]
    <3>1. Settled(r).held[i] = r.bag.held[i] /\ r.bag.held[i] \in Nat
      BY <1>1, <1>2, <1>9
    <3> QED BY <3>1
  <2>2. DOMAIN shelf = Item /\ shelf = [i \in Item |-> shelf[i]]
    BY DEF Shelf
  <2> QED BY <2>1, <2>2
<1> QED BY <1>6, <1>7, <1>8, <1>9 DEF Left

LEMMA LoginKeeps ==
  ASSUME RegistryInv, NEW a \in Account, NEW c \in Id, Login(a, c)
  PROVE  RegistryInv' /\ NobodyNew
<1> DEFINE pack == record[a][c].bag
           settled == Settled(record[a][c])
           shelf == Left(record[a][c], locker[a])
           bagged == Bagged(record[a], c, settled)
           drawn == Redrawn(record[a], c, settled)
           B == SaveChars(a, bagged)
           L == SaveLocker(a, shelf)
           D == SaveChars(a, drawn)
<1>1. /\ up /\ due = <<>> /\ UNCHANGED <<owner, next, book, disk, up, enrolled>>
      /\ record[a][c] # None /\ school[a] = None /\ locker[a] # NotLoaded
      /\ school' = [school EXCEPT ![a] = c]
      /\ record' = [record EXCEPT ![a] = drawn]
      /\ locker' = [locker EXCEPT ![a] = shelf]
      /\ due' = If(settled # pack, <<B, L>>) \o If(drawn # bagged, <<D>>)
  <2>1. /\ record[a][c] # None /\ school[a] = None /\ locker[a] # NotLoaded
        /\ school' = [school EXCEPT ![a] = c] /\ OnlyItems
    BY DEF Login, Characters
  <2>2. record' = [record EXCEPT ![a] = drawn]
    BY Zenon DEF Login, Bagged, Redrawn
  <2>3. locker' = [locker EXCEPT ![a] = shelf]
    BY Zenon DEF Login, Stores, Left
  <2>4. Owes(If(settled # pack, <<B, L>>) \o If(drawn # bagged, <<D>>))
    BY Zenon DEF Login, Bagged, Redrawn, Left
  <2> HIDE DEF pack, settled, shelf, bagged, drawn, B, L, D
  <2> QED BY <2>1, <2>2, <2>3, <2>4 DEF Owes, OnlyItems
<1>2. /\ record \in [Account -> Records] /\ school \in [Account -> Id \union {None}]
      /\ locker \in [Account -> Shelf \union {NotLoaded}]
      /\ record[a] \in Records /\ record[a][c] \in Record /\ Sound(pack) /\ locker[a] \in Shelf
  <2>1. /\ record \in [Account -> Records] /\ school \in [Account -> Id \union {None}]
        /\ locker \in [Account -> Shelf \union {NotLoaded}]
    BY DEF RegistryInv, BooksInv, Typed, BooksTypeOK
  <2>2. record[a] \in Records /\ Sound(pack)
    BY <1>1, UnchangedRecords
  <2>3. record[a][c] # None /\ locker[a] # NotLoaded
    BY <1>1
  <2> HIDE DEF pack
  <2> QED BY <2>1, <2>2, <2>3 DEF Records
<1>3. /\ settled \in Bag /\ Sound(settled) /\ shelf \in Shelf
      /\ settled = pack => shelf = locker[a]
  BY <1>2, SettledKeeps
<1> HIDE DEF settled, shelf
<1>4. /\ bagged \in Records /\ bagged[c] # None /\ bagged[c].bag = settled
      /\ drawn \in Records /\ drawn[c] # None /\ drawn[c].bag = settled
      /\ drawn[c].looks = Drawn(settled)
      /\ \A d \in Id \ {c} : bagged[d] = record[a][d] /\ drawn[d] = record[a][d]
  BY <1>1, <1>2, <1>3, Rebagged
<1>5. settled = pack => bagged = record[a]
  <2>1. ASSUME settled = pack PROVE bagged[c] = record[a][c]
    <3>1. bagged[c].looks = record[a][c].looks /\ bagged[c].bag = record[a][c].bag
      BY <1>1, <1>2, <1>3, <1>4, <2>1, Rebagged
    <3>2. bagged[c] \in Record
      BY <1>4 DEF Records
    <3> HIDE DEF bagged
    <3> QED BY <3>1, <3>2, <1>2 DEF Record
  <2> HIDE DEF bagged
  <2> QED BY <2>1, <1>2, <1>4 DEF Records
<1> HIDE DEF pack, bagged, drawn
<1>6. /\ B \in Writes /\ B.file = CharsFile(a) /\ B.data = bagged
      /\ L \in Writes /\ L.file = LockerFile(a) /\ L.data = shelf /\ shelf # NotLoaded
      /\ D \in Writes /\ D.file = CharsFile(a) /\ D.data = drawn
  BY <1>3, <1>4, Files, Blank DEF SaveChars, SaveLocker, Written, Writes, Contents
<1>7. locker'[a] = shelf /\ (settled = pack => locker' = locker)
  BY <1>1, <1>2, <1>3
<1> HIDE DEF B, L, D
<1>8. BagsOwed(a, bagged, drawn)
  <2>1. CASE settled = pack /\ drawn = bagged
    <3>1. due' = <<>> \o <<>>
      BY <1>1, <2>1 DEF If
    <3>2. due' = <<>>
      BY <3>1, NoneLeft
    <3> QED BY <3>2, <2>1, <1>5, <1>7 DEF BagsOwed
  <2>2. CASE settled = pack /\ drawn # bagged
    <3>1. due' = <<>> \o <<D>>
      BY <1>1, <2>2 DEF If
    <3>2. due' = <<D>>
      BY <3>1, <1>6, NoneLeft
    <3>3. due' \in Seq(Writes) /\ Len(due') = 1 /\ due'[1] = D /\ 1..Len(due') = {1}
      BY <3>2, <1>6
    <3> QED BY <3>3, <2>2, <1>6, <1>7 DEF BagsOwed
  <2>3. CASE settled # pack /\ drawn = bagged
    <3>1. due' = <<B, L>> \o <<>>
      BY <1>1, <2>3 DEF If
    <3>2. <<B, L>> \in Seq(Writes)
      BY <1>6
    <3>3. due' = <<B, L>>
      BY <3>1, <3>2, NoneLeft
    <3>4. /\ due' \in Seq(Writes) /\ Len(due') = 2 /\ due'[1] = B /\ due'[2] = L
          /\ 1..Len(due') = {1, 2}
      BY <3>3, <1>6
    <3> QED BY <3>4, <2>3, <1>6, <1>7 DEF BagsOwed
  <2>4. CASE settled # pack /\ drawn # bagged
    <3>1. due' = <<B, L>> \o <<D>>
      BY <1>1, <2>4 DEF If
    <3>2. <<B, L>> \o <<D>> = <<B, L, D>>
      BY <1>6, TwoAndOne
    <3>3. due' = <<B, L, D>>
      BY <3>1, <3>2
    <3>4. /\ due' \in Seq(Writes) /\ Len(due') = 3 /\ due'[1] = B /\ due'[2] = L /\ due'[3] = D
          /\ 1..Len(due') = {1, 2, 3} /\ 3 \in 1 + 1..Len(due')
      BY <3>3, <1>6
    <3> QED BY <3>4, <1>6, <1>7 DEF BagsOwed
  <2> QED BY <2>1, <2>2, <2>3, <2>4
<1>9. Changes(a, c, bagged, drawn)
  BY <1>1, <1>2, <1>3, <1>4, <1>8 DEF Changes
<1> QED BY <1>4, <1>9, OneRecordKeeps

(* _trade_execute: two records change, each under its own account.         *)
LEMMA TradeExecuteKeeps ==
  ASSUME RegistryInv, NEW a \in Account, NEW c \in Id, NEW b \in Account, NEW d \in Id, NEW i \in Item,
         TradeExecute(a, c, b, d, i)
  PROVE  RegistryInv' /\ NobodyNew
<1> DEFINE mine == Take(record[a][c].bag, i, 1)
           yours == Receive(record[b][d].bag, i, 1)
           M == Bagged(record[a], c, mine)
           Y == Bagged(record[b], d, yours)
<1>1. /\ a # b /\ school[a] = c /\ school[b] = d /\ up /\ due = <<>>
      /\ UNCHANGED <<owner, next, locker, book, disk, up, school, enrolled>>
      /\ Items(c).held[i] - WornCopy(Items(c), i) >= 1 /\ Fits(Items(d), i, 1)
  BY DEF TradeExecute, Owes, OnlyItems
<1>2. /\ Items(c) = record[a][c].bag /\ record[a][c] # None /\ record[a] \in Records
      /\ record[a][c].bag \in Bag /\ Sound(record[a][c].bag)
      /\ record[a][c].looks = Drawn(record[a][c].bag)
      /\ Items(d) = record[b][d].bag /\ record[b][d] # None /\ record[b] \in Records
      /\ record[b][d].bag \in Bag /\ Sound(record[b][d].bag)
      /\ record[b][d].looks = Drawn(record[b][d].bag)
  BY <1>1, ItemsOf
<1>3. record \in [Account -> Records] /\ school \in [Account -> Id \union {None}]
      /\ locker \in [Account -> Shelf \union {NotLoaded}]
  BY DEF RegistryInv, BooksInv, Typed, BooksTypeOK
<1>4. /\ mine \in Bag /\ Sound(mine) /\ Drawn(mine) = Drawn(record[a][c].bag)
      /\ yours \in Bag /\ Sound(yours) /\ Drawn(yours) = Drawn(record[b][d].bag)
  BY <1>1, <1>2, SpareKeeps, ReceivedKeeps
<1>5. LET given == [record EXCEPT ![a][c].bag = mine]
          received == [record EXCEPT ![b][d].bag = yours]
      IN  /\ given[a] = M /\ given[b] = record[b] /\ received[b] = Y
          /\ given = [record EXCEPT ![a] = M]
  BY <1>1, <1>3 DEF Bagged
<1>6. /\ record' = [[record EXCEPT ![a] = M] EXCEPT ![b] = Y]
      /\ \/ due' = <<SaveChars(a, M), SaveChars(b, Y)>>
         \/ due' = <<SaveChars(b, Y), SaveChars(a, M)>>
  <2> DEFINE given == [record EXCEPT ![a][c].bag = mine]
             received == [record EXCEPT ![b][d].bag = yours]
             whole == [given EXCEPT ![b][d].bag = Receive(@, i, 1)]
  <2>1. /\ record' = whole
        /\ \/ due' = <<SaveChars(a, given[a]), SaveChars(b, whole[b])>>
           \/ due' = <<SaveChars(b, received[b]), SaveChars(a, whole[a])>>
    BY DEF TradeExecute, Owes
  <2>2. whole = [given EXCEPT ![b] = Y]
    <3>1. given[b] = record[b]
      BY <1>5
    <3>2. whole = [given EXCEPT ![b] = Bagged(given[b], d, Receive(given[b][d].bag, i, 1))]
      BY DEF Bagged
    <3> QED BY <3>1, <3>2
  <2>3. given = [record EXCEPT ![a] = M] /\ given[a] = M /\ received[b] = Y
    BY <1>5
  <2> HIDE DEF given, received, whole, M, Y
  <2>4. whole = [[record EXCEPT ![a] = M] EXCEPT ![b] = Y]
    BY <2>2, <2>3
  <2>5. whole[a] = M /\ whole[b] = Y
    BY <2>4, <1>1, <1>3
  <2> QED BY <2>1, <2>3, <2>4, <2>5
<1> HIDE DEF mine, yours
<1>7. /\ M \in Records /\ M[c] # None /\ M[c].bag = mine /\ M[c].looks = record[a][c].looks
      /\ \A e \in Id \ {c} : M[e] = record[a][e]
      /\ Y \in Records /\ Y[d] # None /\ Y[d].bag = yours /\ Y[d].looks = record[b][d].looks
      /\ \A e \in Id \ {d} : Y[e] = record[b][e]
  <2>1. /\ M \in Records /\ M[c] # None /\ M[c].bag = mine /\ M[c].looks = record[a][c].looks
        /\ \A e \in Id \ {c} : M[e] = record[a][e]
    <3>1. record[a] \in Records /\ record[a][c] # None /\ mine \in Bag
      BY <1>2, <1>4
    <3> QED BY <3>1, Rebagged
  <2>2. /\ Y \in Records /\ Y[d] # None /\ Y[d].bag = yours /\ Y[d].looks = record[b][d].looks
        /\ \A e \in Id \ {d} : Y[e] = record[b][e]
    <3>1. record[b] \in Records /\ record[b][d] # None /\ yours \in Bag
      BY <1>2, <1>4
    <3> QED BY <3>1, Rebagged
  <2> HIDE DEF M, Y
  <2> QED BY <2>1, <2>2
<1> HIDE DEF M, Y
<1>8. /\ record' \in [Account -> Records] /\ record'[a] = M /\ record'[b] = Y
      /\ \A e \in Account \ {a, b} : record'[e] = record[e]
  BY <1>1, <1>3, <1>6, <1>7
<1>9. /\ \A e \in Id : M[e] # None => record[a][e] # None /\ Sound(M[e].bag)
      /\ \A e \in Id : Y[e] # None => record[b][e] # None /\ Sound(Y[e].bag)
  BY <1>2, <1>4, <1>7, UnchangedRecords
<1> DEFINE w1 == SaveChars(a, M)
           w2 == SaveChars(b, Y)
<1>10. /\ w1 \in Writes /\ w1.file = CharsFile(a) /\ w1.data = M
       /\ w2 \in Writes /\ w2.file = CharsFile(b) /\ w2.data = Y
  BY <1>7, Files DEF SaveChars, Written, Writes, Contents
<1>11. due' = <<w1, w2>> \/ due' = <<w2, w1>>
  BY <1>6
<1> HIDE DEF w1, w2
<1>12. /\ due' \in Seq(Writes)
       /\ \A k \in 1..Len(due') : due'[k] = w1 \/ due'[k] = w2
       /\ \E k \in 1..Len(due') : due'[k] = w1
       /\ \E k \in 1..Len(due') : due'[k] = w2
  <2>1. CASE due' = <<w1, w2>>
    <3>1. /\ due' \in Seq(Writes) /\ Len(due') = 2 /\ due'[1] = w1 /\ due'[2] = w2
          /\ 1..Len(due') = {1, 2}
      BY <1>10, <2>1
    <3> QED BY <3>1
  <2>2. CASE due' = <<w2, w1>>
    <3>1. /\ due' \in Seq(Writes) /\ Len(due') = 2 /\ due'[1] = w2 /\ due'[2] = w1
          /\ 1..Len(due') = {1, 2}
      BY <1>10, <2>2
    <3> QED BY <3>1
  <2> QED BY <1>11, <2>1, <2>2
<1>13. \A k \in 1..Len(due') : \E e \in Account :
         /\ due'[k].file = CharsFile(e) /\ due'[k].data \in Records
         /\ \A f \in Id : due'[k].data[f] # None =>
              record[e][f] # None /\ Sound(due'[k].data[f].bag)
         /\ due'[k].data = record'[e]
  <2> TAKE k \in 1..Len(due')
  <2>1. CASE due'[k] = w1
    BY <2>1, <1>7, <1>8, <1>9, <1>10
  <2>2. CASE due'[k] = w2
    BY <2>2, <1>7, <1>8, <1>9, <1>10
  <2> QED BY <2>1, <2>2, <1>12
<1>14. ASSUME NEW e \in Account
       PROVE  /\ \/ record'[e] = record[e]
                 \/ \E k \in 1..Len(due') : due'[k].file = CharsFile(e)
              /\ locker'[e] = locker[e]
              /\ \A f \in Id : record'[e][f] # None =>
                   record[e][f] # None /\ Sound(record'[e][f].bag)
              /\ school'[e] # None =>
                   /\ record'[e][school'[e]] # None
                   /\ record'[e][school'[e]].looks = Drawn(record'[e][school'[e]].bag)
  <2>1. CASE e = a
    BY <2>1, <1>1, <1>2, <1>4, <1>7, <1>8, <1>9, <1>10, <1>12
  <2>2. CASE e = b
    BY <2>2, <1>1, <1>2, <1>4, <1>7, <1>8, <1>9, <1>10, <1>12
  <2>3. CASE e # a /\ e # b
    BY <2>3, <1>1, <1>8, UnchangedRecords
  <2> QED BY <2>1, <2>2, <2>3
<1>15. school' \in [Account -> Id \union {None}] /\ locker' \in [Account -> Shelf \union {NotLoaded}]
  BY <1>1, <1>3
<1> QED BY <1>1, <1>8, <1>12, <1>13, <1>14, <1>15, ItemsKeep

-----------------------------------------------------------------------------
(* The steps that are not a handler's, and the address books'.             *)
LEMMA FriendsKeep ==
  ASSUME RegistryInv, NEW c \in Id, NEW d \in Id, Befriend(c, d) \/ Unfriend(c, d)
  PROVE  RegistryInv' /\ NobodyNew
<1>1. /\ BooksInv' /\ UNCHANGED <<record, disk, school>>
      /\ \A k \in 1..Len(due'), a \in Account : due'[k].file # CharsFile(a)
  BY FriendsKeepBooks DEF RegistryInv
<1>2. BagsAreSound' /\ PlayersExist' /\ LooksAreWorn'
  BY <1>1 DEF RegistryInv, BagsAreSound, SoundRecords, Readable, PlayersExist, LooksAreWorn
<1> QED BY <1>1, <1>2 DEF RegistryInv, NobodyNew

LEMMA WriteKeeps ==
  ASSUME RegistryInv, Write
  PROVE  RegistryInv' /\ NobodyNew
<1> DEFINE w == due[1]
<1>1. BooksInv'
  BY WriteKeepsBooks DEF RegistryInv
<1>2. /\ due \in Seq(Writes) /\ due # <<>> /\ disk \in [File -> Contents \union {Torn, Absent}]
  BY DEF Write, RegistryInv, BooksInv, Typed
<1>3. /\ Head(due) = w /\ 1 \in 1..Len(due) /\ w \in Writes
      /\ \A k \in 1..Len(due') : k + 1 \in 1..Len(due) /\ due'[k] = due[k + 1]
  <2>1. due' = Tail(due) /\ Len(due) \in Nat \ {0}
    BY <1>2, EmptySeq DEF Write
  <2>2. Len(due') = Len(due) - 1 /\ \A k \in 1..Len(due') : due'[k] = due[k + 1]
    BY <1>2, <2>1, HeadTailProperties
  <2>3. \A k \in 1..Len(due') : k + 1 \in 1..Len(due)
    BY <2>1, <2>2
  <2> QED BY <1>2, <2>1, <2>2, <2>3, ElementOfSeq
<1>4. disk' = [disk EXCEPT ![w.file] = w.data] /\ UNCHANGED <<record, school>>
  BY <1>3 DEF Write, memory
<1>5. BagsAreSound'
  <2>1. \A a \in Account : w.file = CharsFile(a) => SoundRecords(w.data)
    BY <1>3 DEF RegistryInv, BagsAreSound
  <2>2. \A a \in Account, k \in 1..Len(due') :
          due'[k].file = CharsFile(a) => SoundRecords(due'[k].data)
    BY <1>3 DEF RegistryInv, BagsAreSound
  <2>3. w.file \in File /\ \A f \in File : disk'[f] = IF f = w.file THEN w.data ELSE disk[f]
    <3>1. w.file \in File
      BY <1>3 DEF Writes
    <3> HIDE DEF w
    <3> QED BY <1>2, <1>4, <3>1
  <2> HIDE DEF w
  <2>4. ASSUME NEW a \in Account, disk'[CharsFile(a)] \notin {Torn, Absent}
        PROVE  SoundRecords(disk'[CharsFile(a)])
    BY <2>1, <2>3, <2>4, Files DEF RegistryInv, BagsAreSound, Readable
  <2>5. \A a \in Account : SoundRecords(record'[a])
    BY <1>4 DEF RegistryInv, BagsAreSound
  <2> QED BY <2>2, <2>4, <2>5 DEF BagsAreSound, SoundRecords, Readable
<1>6. PlayersExist' /\ LooksAreWorn'
  BY <1>4 DEF RegistryInv, PlayersExist, LooksAreWorn
<1> QED BY <1>1, <1>4, <1>5, <1>6 DEF RegistryInv, NobodyNew

LEMMA CrashKeeps ==
  ASSUME IndexFile \notin Tearable, RegistryInv, Crash \/ CrashInsideWrite
  PROVE  RegistryInv' /\ up' = FALSE
<1>1. BooksInv'
  BY CrashKeepsBooks DEF RegistryInv
<1>2. /\ up' = FALSE /\ due' = <<>> /\ record' = [a \in Account |-> NoRecords]
      /\ school' = [a \in Account |-> None]
  BY DEF Crash, CrashInsideWrite, Dies, Forgotten
<1>3. \A f \in File : disk'[f] = disk[f] \/ disk'[f] = Torn
  <2>1. disk \in [File -> Contents \union {Torn, Absent}]
    BY DEF RegistryInv, BooksInv, Typed
  <2> QED BY <2>1 DEF Crash, CrashInsideWrite
<1>4. BagsAreSound'
  <2>1. \A a \in Account, c \in Id : record'[a][c] = None
    BY <1>2 DEF NoRecords
  <2>2. ASSUME NEW a \in Account, disk'[CharsFile(a)] \notin {Torn, Absent}
        PROVE  SoundRecords(disk'[CharsFile(a)])
    BY <1>3, <2>2, Files DEF RegistryInv, BagsAreSound, Readable
  <2> QED BY <1>2, <2>1, <2>2 DEF BagsAreSound, SoundRecords, Readable
<1>5. PlayersExist' /\ LooksAreWorn'
  BY <1>2 DEF PlayersExist, LooksAreWorn
<1> QED BY <1>1, <1>2, <1>4, <1>5 DEF RegistryInv

LEMMA BootKeeps ==
  ASSUME RegistryInv, Boot
  PROVE  RegistryInv'
<1>1. /\ BooksInv' /\ record' = Found /\ UNCHANGED <<disk, school>>
      /\ \A k \in 1..Len(due'), a \in Account : due'[k].file # CharsFile(a)
  BY BootKeepsBooks DEF RegistryInv
<1>2. \A a \in Account : school[a] = None
  BY DEF Boot, RegistryInv, BooksInv, DownIsBlank
<1>3. \A a \in Account : SoundRecords(Found[a])
  BY DEF Found, Read, Readable, NoRecords, SoundRecords, RegistryInv, BagsAreSound
<1>4. BagsAreSound'
  BY <1>1, <1>3 DEF RegistryInv, BagsAreSound, SoundRecords, Readable
<1>5. PlayersExist' /\ LooksAreWorn'
  BY <1>1, <1>2 DEF PlayersExist, LooksAreWorn
<1> QED BY <1>1, <1>4, <1>5 DEF RegistryInv

(* Only a create begins a record, at the counter, which every id a record  *)
(* was saved under is behind.                                              *)
Once == \A c \in enrolled : up /\ up' /\ ~ Exists(c) => ~ Exists(c)'

LEMMA NobodyNewIsOnce == RegistryInv /\ NobodyNew => Once
BY DEF NobodyNew, Once, Exists, RegistryInv, BooksInv, Typed, BooksTypeOK

LEMMA CreateIsOnce ==
  ASSUME RegistryInv, NEW a \in Account, NEW picks \in SUBSET Item, Create(a, picks)
  PROVE  Once
<1>1. \A c \in enrolled : c # next
  <2>1. up /\ next \in Id
    BY Created
  <2>2. ASSUME NEW c \in enrolled PROVE c < next
    <3>1. Readable(IndexFile) /\ c < disk[IndexFile].next /\ disk[IndexFile].next <= next
      BY <2>1 DEF RegistryInv, BooksInv, EnrolledArePast, CounterIsPast
    <3>2. c \in Nat /\ disk[IndexFile].next \in Nat /\ next \in Nat
      BY <2>1, <3>1, NotebookAssumption
         DEF RegistryInv, BooksInv, Typed, BooksTypeOK, IndexData, Readable, Id
    <3> QED BY <3>1, <3>2
  <2>3. next \in Nat
    BY <2>1, NotebookAssumption DEF Id
  <2> QED BY <2>2, <2>3
<1>2. \A b \in Account, c \in Id : record'[b][c] # None => c = next \/ record[b][c] # None
  BY CreateOwes
<1>3. enrolled \subseteq Id
  BY DEF RegistryInv, BooksInv, Typed, BooksTypeOK
<1> QED BY <1>1, <1>2, <1>3 DEF Once, Exists

LEMMA DestroyIsOnce ==
  ASSUME RegistryInv, NEW a \in Account, NEW c \in Id, Destroy(a, c)
  PROVE  NobodyNew
<1>1. record' = [record EXCEPT ![a] = Removed(a, c)] /\ record \in [Account -> Records]
  BY DestroyOwes DEF RegistryInv, BooksInv, Typed, BooksTypeOK
<1>2. \A d \in Id : Removed(a, c)[d] # None => record[a][d] # None
  BY <1>1 DEF Removed, Records
<1> QED BY <1>1, <1>2 DEF NobodyNew

LEMMA StepKeeps ==
  ASSUME IndexFile \notin Tearable, RegistryInv, [BooksNext]_booksVars
  PROVE  RegistryInv' /\ Once
<1>1. CASE Write
  BY <1>1, WriteKeeps, NobodyNewIsOnce
<1>2. CASE Crash \/ CrashInsideWrite
  BY <1>2, CrashKeeps DEF Once
<1>3. CASE Boot
  <2>1. ~ up
    BY <1>3 DEF Boot
  <2> QED BY <1>3, <2>1, BootKeeps DEF Once
<1>4. ASSUME NEW a \in Account, OpenLocker(a) \/ \E i \in Item : LockerDel(a, i)
      PROVE  RegistryInv' /\ Once
  BY <1>4, LockersKeep, NobodyNewIsOnce
<1>5. ASSUME NEW a \in Account, Logout(a) PROVE RegistryInv' /\ Once
  BY <1>5, LogoutKeeps, NobodyNewIsOnce
<1>6. ASSUME NEW a \in Account, NEW picks \in SUBSET Item, Create(a, picks)
      PROVE  RegistryInv' /\ Once
  BY <1>6, CreateKeeps, CreateIsOnce
<1>7. ASSUME NEW a \in Account, NEW c \in Id, Destroy(a, c) PROVE RegistryInv' /\ Once
  BY <1>7, DestroyKeeps, DestroyIsOnce, NobodyNewIsOnce
<1>8. ASSUME NEW a \in Account, NEW c \in Id, Login(a, c) PROVE RegistryInv' /\ Once
  BY <1>8, LoginKeeps, NobodyNewIsOnce
<1>9. ASSUME NEW a \in Account, NEW c \in Id,
             \/ \E g \in Goods : ShopTrade(a, c, g)
             \/ \E i \in Item : Awarded(a, c, i) \/ LockerTake(a, c, i)
      PROVE  RegistryInv' /\ Once
  BY <1>9, ReceivingKeeps, NobodyNewIsOnce
<1>10. ASSUME NEW a \in Account, NEW c \in Id, NEW i \in Item,
              Equip(a, c, i) \/ Use(a, c, i) \/ Discard(a, c, i) \/ PutInLocker(a, c, i)
       PROVE  RegistryInv' /\ Once
  BY <1>10, CarriedKeeps, NobodyNewIsOnce
<1>11. ASSUME NEW c \in Id, NEW d \in Id, Befriend(c, d) \/ Unfriend(c, d)
       PROVE  RegistryInv' /\ Once
  BY <1>11, FriendsKeep, NobodyNewIsOnce
<1>12. ASSUME NEW a \in Account, NEW c \in Id, NEW b \in Account, NEW d \in Id, NEW i \in Item,
              TradeExecute(a, c, b, d, i)
       PROVE  RegistryInv' /\ Once
  BY <1>12, TradeExecuteKeeps, NobodyNewIsOnce
<1>13. CASE UNCHANGED booksVars
  <2>1. RegistryInv'
    BY <1>13 DEF booksVars, RegistryInv, BooksInv, Typed, BooksTypeOK, DownIsBlank, Synced, Carried,
         CounterIsPast, RecordsOwned, EnrolledArePast, IndexFirstInLast, BagsAreSound,
         PlayersExist, LooksAreWorn, OnDisk, Covered, Readable, Read, Owed
  <2>2. NobodyNew
    BY <1>13 DEF booksVars, NobodyNew
  <2> QED BY <2>1, <2>2, NobodyNewIsOnce
<1> QED BY <1>1, <1>2, <1>3, <1>4, <1>5, <1>6, <1>7, <1>8, <1>9, <1>10, <1>11, <1>12, <1>13
        DEF BooksNext

(* The index on disk covers the records on disk.                           *)
LEMMA InvariantsHold == RegistryInv => BooksAreKept /\ LooksAreWorn
<1> SUFFICES ASSUME RegistryInv PROVE BooksAreKept /\ LooksAreWorn
  OBVIOUS
<1>1. BooksTypeOK /\ SavedOrOwed /\ LooksAreWorn
  BY SyncedIsSaved DEF RegistryInv, BooksInv, Typed
<1>2. IndexCoversRecords
  BY DEF RegistryInv, BooksInv, EnrolledArePast, IndexCoversRecords, OnDisk, Covered, Readable
<1> QED BY <1>1, <1>2 DEF BooksAreKept, RecordsAreKept

LEMMA Invariance == ASSUME IndexFile \notin Tearable PROVE BooksSpec => []RegistryInv
BY BooksBegin, StepKeeps, PTL DEF BooksSpec

(* Memory is on disk or owed to it, the index covers every record and every *)
(* value fits its file: through every handler of accounts.AccountStore,    *)
(* and wherever the process dies, if charas.json itself is never torn.     *)
THEOREM BooksKept == ASSUME IndexFile \notin Tearable PROVE BooksSpec => []BooksAreKept
BY Invariance, InvariantsHold, PTL

(* Everybody at school is drawn with what their bag says they wear, and    *)
(* carries it: item._registered_accessories and its callers.               *)
THEOREM LooksWorn == ASSUME IndexFile \notin Tearable PROVE BooksSpec => []LooksAreWorn
BY Invariance, InvariantsHold, PTL

(* charaids.py: an id a record was ever saved under is never used again.   *)
THEOREM HandedOutOnce == ASSUME IndexFile \notin Tearable PROVE BooksSpec => NeverHandedOutTwice
<1>1. RegistryInv /\ [BooksNext]_booksVars =>
        [\A c \in enrolled : up /\ up' /\ ~ Exists(c) => ~ Exists(c)']_booksVars
  BY StepKeeps DEF Once
<1> QED BY <1>1, Invariance, PTL DEF BooksSpec, NeverHandedOutTwice
=============================================================================
