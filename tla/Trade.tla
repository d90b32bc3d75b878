-------------------------------- MODULE Trade --------------------------------
(***************************************************************************)
(* The item trade between two characters: the 0x5100..0x5118 family of     *)
(* mps_session.py (_trade and what it calls) and trade.py, with everything *)
(* that can happen around it: either end leaving or walking through a      *)
(* door, and the items on the table being used, thrown away, stored,       *)
(* received or put on while the trade is open.                             *)
(*                                                                         *)
(* One handler of the server runs to its end before another starts, so a   *)
(* handler is one action.  What is concurrent is the clients: a button is  *)
(* pressed in front of one window and its message handled after the server *)
(* has moved on, so a press and its handling are two actions.              *)
(*                                                                         *)
(* A character stands for its connection: an account is let in once        *)
(* (_game_login_refusal), so _session_of finds one session or none.        *)
(***************************************************************************)
EXTENDS Inventory

CONSTANTS
  Chara,       \* charaIds
  Map,         \* map ids
  Away         \* the place of a character nobody is playing

ASSUME CharaAssumption == None \notin Chara
ASSUME MapAssumption == Away \notin Map

(* trade.READY_OFF, READY_CONFIRMED, READY_EXECUTE.                        *)
OFF == 0
CONFIRMED == 1
EXECUTE == 2
ReadyState == {OFF, CONFIRMED, EXECUTE}

VARIABLES
  place,       \* the map a character is on, or Away
  asked,       \* trade_asked: whom this character has applied to
  asking,      \* trade_asking: who has applied to it
  with,        \* trade_with: its partner once both are in the window
  table,       \* trade_table: what it has put on the table
  bag,         \* its inventory in the character store
  window,      \* what its client has on screen
  press        \* the button message on its way to the server

wires == <<asked, asking, with>>
vars == <<place, asked, asking, with, table, bag, window, press>>

Rows == [Item -> 0..RowMax]
NoRows == [i \in Item |-> 0]
Table == [rows : Rows, state : ReadyState, settled : BOOLEAN]
EmptyTable == [rows |-> NoRows, state |-> OFF, settled |-> FALSE]

(* What a player agrees to, as FairExchange has it; no character is one.   *)
Deal == [with : Chara, gives : Rows, takes : Rows, final : BOOLEAN]

ASSUME DealAssumption == None \notin Deal

(* Client screens, as the packets the server sends make them.              *)
Window == {"map", "waiting", "box", "trading"}
Button == {"none", "yes", "no", "cancel", "end"}

(* Every field of a session and of its bag is what the code takes it for.  *)
TypeOK ==
  /\ place \in [Chara -> Map \union {Away}]
  /\ asked \in [Chara -> Chara \union {None}]
  /\ asking \in [Chara -> Chara \union {None}]
  /\ with \in [Chara -> Chara \union {None}]
  /\ table \in [Chara -> Table]
  /\ bag \in [Chara -> Bag]
  /\ window \in [Chara -> Window]
  /\ press \in [Chara -> Button]

Init ==
  /\ place = [c \in Chara |-> Away]
  /\ asked = [c \in Chara |-> None]
  /\ asking = [c \in Chara |-> None]
  /\ with = [c \in Chara |-> None]
  /\ table = [c \in Chara |-> EmptyTable]
  /\ bag \in [Chara -> {b \in Bag : \A i \in b.worn : b.held[i] > 0}]
  /\ window = [c \in Chara |-> "map"]
  /\ press = [c \in Chara |-> "none"]

-----------------------------------------------------------------------------
(* Who is there, and what is still true of an application.                 *)

Online(c) == c # None /\ place[c] # Away

(* _trade_peer: both sessions have to name each other.                     *)
HasPeer(c) == Online(with[c]) /\ with[with[c]] = c

(* _forget_stale_trade, run first by every handler of the family: an       *)
(* application the other end no longer holds is dropped.                   *)
StillAsked(c) == Online(asked[c]) /\ asking[asked[c]] = c
StillAsking(c) == Online(asking[c]) /\ asked[asking[c]] = c

SweptAsked(C) ==
  [c \in Chara |-> IF c \in C /\ ~ StillAsked(c) THEN None ELSE asked[c]]
SweptAsking(C) ==
  [c \in Chara |-> IF c \in C /\ ~ StillAsking(c) THEN None ELSE asking[c]]

(* _trade_clear on every session of C, after the sweep of S.               *)
Cleared(C, S) ==
  /\ asked' = [c \in Chara |-> IF c \in C THEN None ELSE SweptAsked(S)[c]]
  /\ asking' = [c \in Chara |-> IF c \in C THEN None ELSE SweptAsking(S)[c]]
  /\ with' = [c \in Chara |-> IF c \in C THEN None ELSE with[c]]
  /\ table' = [c \in Chara |-> IF c \in C THEN EmptyTable ELSE table[c]]

Shows(C, w) == window' = [c \in Chara |-> IF c \in C THEN w ELSE window[c]]

-----------------------------------------------------------------------------
(* Coming, walking and going.                                              *)

(* 登校, and every warp: both put the character on a map and leave the    *)
(* trade fields alone.                                                     *)
Enter(c) ==
  /\ \E m \in Map : place' = [place EXCEPT ![c] = m]
  /\ UNCHANGED <<wires, table, bag, window, press>>

(* Variant: a partner who leaves is not the trade's business.           *)
Nobody(c) == {}

Partner(c) == IF HasPeer(c) THEN {with[c]} ELSE {}

(* 下校 and a lost connection: _trade_partner_gone, then _applications_gone. *)
Depart(c) ==
  /\ place[c] # Away
  /\ LET partner == Partner(c)
         others == IF with[c] # None THEN {}
                   ELSE {o \in {asked[c], asking[c]} \ {None} :
                           /\ Online(o) /\ with[o] = None
                           /\ asked[o] = c \/ asking[o] = c}
     IN  /\ with' = [x \in Chara |-> IF x \in partner \union {c} THEN None ELSE with[x]]
         /\ table' = [x \in Chara |->
                        IF x \in partner \union (IF with[c] # None THEN {c} ELSE {})
                        THEN EmptyTable ELSE table[x]]
         /\ asked' = [x \in Chara |->
                        IF x \in partner \union others \union {c} THEN None ELSE asked[x]]
         /\ asking' = [x \in Chara |->
                        IF x \in partner \union others \union {c} THEN None ELSE asking[x]]
         /\ Shows(partner \union others \union {c}, "map")
  /\ place' = [place EXCEPT ![c] = Away]
  /\ press' = [press EXCEPT ![c] = "none"]
  /\ UNCHANGED bag

-----------------------------------------------------------------------------
(* The handshake.                                                          *)

(* The application goes out: every refusal of 0x5100 has been passed.      *)
RequestSent(c, t) ==
  LET S == {c, t} IN
  /\ place[c] # Away /\ window[c] = "map" /\ press[c] = "none"
  /\ t # c /\ Online(t)
  /\ with[c] = None
  /\ SweptAsked(S)[c] = None
  /\ place[t] = place[c]                                  \* _beyond_reach
  /\ with[t] = None /\ SweptAsking(S)[t] = None /\ SweptAsked(S)[t] = None
  /\ SweptAsking(S)[c] = None
  /\ asked' = [SweptAsked(S) EXCEPT ![c] = t]
  /\ asking' = [SweptAsking(S) EXCEPT ![t] = c]
  /\ window' = [window EXCEPT ![c] = "waiting", ![t] = "box"]
  /\ UNCHANGED <<place, with, table, bag, press>>

(* Refused, by one of the guards above, by the greyed ring (_ring_greyed)  *)
(* or by the target's 受信拒否 list: both ends' stale fields are still     *)
(* swept.                                                                  *)
RequestRefused(c, t) ==
  LET S == {c} \union (IF Online(t) THEN {t} ELSE {}) IN
  /\ place[c] # Away /\ window[c] = "map" /\ press[c] = "none"
  /\ asked' = SweptAsked(S)
  /\ asking' = SweptAsking(S)
  /\ UNCHANGED <<place, with, table, bag, window, press>>

(* A player presses a button of the window in front of it.                 *)
Press(c) ==
  /\ place[c] # Away /\ press[c] = "none"
  /\ \E b \in Button \ {"none"} :
       /\ b \in {"yes", "no"} => window[c] = "box"
       /\ b = "cancel" => window[c] = "waiting"
       /\ b = "end" => window[c] = "trading"
       /\ press' = [press EXCEPT ![c] = b]
  /\ UNCHANGED <<place, wires, table, bag, window>>

(* 0x5104/0x5105 from somebody nobody is asking any more: no reply.        *)
AnswerNobody(c) ==
  /\ press[c] \in {"yes", "no"}
  /\ SweptAsking({c})[c] = None
  /\ asked' = SweptAsked({c})
  /\ asking' = SweptAsking({c})
  /\ press' = [press EXCEPT ![c] = "none"]
  /\ UNCHANGED <<place, with, table, bag, window>>

(* Variant: only the answering end takes its half down.                     *)
AnsweredHalf(c, a) ==
  /\ SweptAsking({c})[c] = a
  /\ asked' = SweptAsked({c})
  /\ asking' = [asking EXCEPT ![c] = None]
  /\ press' = [press EXCEPT ![c] = "none"]

(* The application is answered: both ends' halves of it are taken down.    *)
Answered(c, a) ==
  /\ SweptAsking({c})[c] = a
  /\ asked' = [SweptAsked({c}) EXCEPT ![a] = None]
  /\ asking' = [asking EXCEPT ![c] = None]
  /\ press' = [press EXCEPT ![c] = "none"]

Decline(c) ==
  /\ press[c] = "no"
  /\ \E a \in Chara : /\ Answered(c, a)
                      /\ Shows({c, a}, "map")
  /\ UNCHANGED <<place, with, table, bag>>

(* 承諾: the table opens, empty, at both ends.                            *)
Accept(c) ==
  /\ press[c] = "yes"
  /\ \E a \in Chara :
       /\ Answered(c, a)
       /\ with' = [with EXCEPT ![c] = a, ![a] = c]
       /\ table' = [table EXCEPT ![c] = EmptyTable, ![a] = EmptyTable]
       /\ Shows({c, a}, "trading")
  /\ UNCHANGED <<place, bag>>

(* 0x5106 before anybody answered (_trade_withdraw).                       *)
Withdraw(c) ==
  /\ press[c] = "cancel" /\ with[c] = None
  /\ \E t \in Chara :
       /\ SweptAsked({c})[c] = t
       /\ asked' = [asked EXCEPT ![c] = None]
       /\ asking' = [SweptAsking({c}) EXCEPT ![t] = None]
       /\ Shows({c, t}, "map")
  /\ press' = [press EXCEPT ![c] = "none"]
  /\ UNCHANGED <<place, with, table, bag>>

Withdrawing(c) ==
  press[c] = "cancel" /\ with[c] = None /\ SweptAsked({c})[c] # None

(* 0x5106/0x5109 with no trade to close: everything of c's is cleared.     *)
CloseNothing(c) ==
  /\ press[c] \in {"cancel", "end"} /\ ~ Withdrawing(c)
  /\ ~ HasPeer(c)
  /\ Cleared({c}, {c})
  /\ press' = [press EXCEPT ![c] = "none"]
  /\ UNCHANGED <<place, bag, window>>

(* Variant: only one end of the handshake is taken down.                *)
OneEnd(c) == {c}

BothEnds(c) == {c, with[c]}

(* 0x5106/0x5109 inside an open trade.  The partner is told either way;    *)
(* the closer is sent the notification only after 0x5109.                  *)
Close(c) ==
  /\ press[c] \in {"cancel", "end"} /\ ~ Withdrawing(c)
  /\ HasPeer(c)
  /\ Cleared(BothEnds(c), {c})
  /\ Shows({with[c]} \union (IF press[c] = "end" THEN {c} ELSE {}), "map")
  /\ press' = [press EXCEPT ![c] = "none"]
  /\ UNCHANGED <<place, bag>>

-----------------------------------------------------------------------------
(* The table.                                                              *)

OnTheTable(c) ==
  /\ place[c] # Away /\ window[c] = "trading"
  /\ HasPeer(c)
  /\ ~ table[c].settled /\ ~ table[with[c]].settled
  /\ asked' = SweptAsked({c})
  /\ asking' = SweptAsking({c})
  /\ UNCHANGED <<place, with, window, press>>

(* trade.spare: what is held, less the worn copy, less what is offered.    *)
CanSpare(c, i, n) ==
  bag[c].held[i] >= WornCopy(bag[c], i) + table[c].rows[i] + n

(* trade.may_offer.                                                        *)
MayOffer(c, i) == i \notin NoTrade /\ ~ Fixed(bag[c], i)

(* Variant: the partner's confirmation of the old table stands.             *)
UnreadyOwn(c, rows) ==
  table' = [table EXCEPT ![c].rows = rows, ![c].state = OFF]

(* _trade_unready: the table changed, so both flags go down.               *)
Unready(c, rows) ==
  table' = [table EXCEPT ![c].rows = rows, ![c].state = OFF,
                         ![with[c]].state = OFF]

Push(c, i, n) ==
  /\ OnTheTable(c)
  /\ MayOffer(c, i) /\ CanSpare(c, i, n)
  /\ Unready(c, [table[c].rows EXCEPT ![i] = @ + n])
  /\ UNCHANGED bag

Recall(c, i, n) ==
  /\ OnTheTable(c)
  /\ table[c].rows[i] >= n
  /\ Unready(c, [table[c].rows EXCEPT ![i] = @ - n])
  /\ UNCHANGED bag

(* 0x5115.  A final word counts only from a side that has confirmed.       *)
ReadyTo(c, v) ==
  /\ OnTheTable(c)
  /\ v = EXECUTE => table[c].state = CONFIRMED

BothFinal(c, v) == v = EXECUTE /\ table[with[c]].state = EXECUTE

Ready(c, v) ==
  /\ ReadyTo(c, v) /\ ~ BothFinal(c, v)
  /\ table' = [table EXCEPT ![c].state = v]
  /\ UNCHANGED bag

(* _trade_execute: what is offered is still there on both sides, the worn  *)
(* copy kept out of it.                                                    *)
Holds(c) ==
  \A i \in Item : table[c].rows[i] > 0 =>
    bag[c].held[i] >= WornCopy(bag[c], i) + table[c].rows[i]

(* Take from both before giving to either.                                 *)
Given(c) ==
  [held |-> [i \in Item |-> bag[c].held[i] - table[c].rows[i]],
   worn |-> {i \in bag[c].worn : table[c].rows[i] = 0
                                 \/ bag[c].held[i] # table[c].rows[i]}]

Receives(c, rows) ==
  \A i \in Item : rows[i] > 0 => Fits(Given(c), i, rows[i])

GivenAndReceived(c, rows) ==
  [Given(c) EXCEPT !.held = [i \in Item |-> @[i] + rows[i]]]

CanExecute(c) ==
  /\ Holds(c) /\ Holds(with[c])
  /\ Receives(c, table[with[c]].rows) /\ Receives(with[c], table[c].rows)

Settle(c) ==
  table' = [table EXCEPT ![c].state = EXECUTE, ![c].settled = TRUE,
                         ![with[c]].settled = TRUE]

(* 成立: the items change hands.  The trade stays open, settled.          *)
Execute(c) ==
  LET p == with[c] IN
  /\ ReadyTo(c, EXECUTE) /\ BothFinal(c, EXECUTE)
  /\ CanExecute(c)
  /\ bag' = [bag EXCEPT ![c] = GivenAndReceived(c, table[p].rows),
                        ![p] = GivenAndReceived(p, table[c].rows)]
  /\ Settle(c)

(* _trade_settle_failed: nothing moves and both flags go down.             *)
ExecuteFails(c) ==
  /\ ReadyTo(c, EXECUTE) /\ BothFinal(c, EXECUTE)
  /\ ~ CanExecute(c)
  /\ table' = [table EXCEPT ![c].state = OFF, ![with[c]].state = OFF]
  /\ UNCHANGED bag

(* A message of the family about no open trade, or about a settled one.    *)
TableRefused(c) ==
  /\ place[c] # Away /\ window[c] = "trading"
  /\ HasPeer(c) => table[c].settled \/ table[with[c]].settled
  /\ asked' = SweptAsked({c})
  /\ asking' = SweptAsking({c})
  /\ UNCHANGED <<place, with, table, bag, window, press>>

-----------------------------------------------------------------------------
(* What else happens to a bag while a trade is open.                       *)

Elsewhere(c, newBag) ==
  /\ place[c] # Away
  /\ bag' = [bag EXCEPT ![c] = newBag]
  /\ UNCHANGED <<place, wires, table, window, press>>

(* 使用, 捨てる, ロッカーにしまう: n of item i leave the bag.              *)
Spend(c, i, n) ==
  /\ CanTake(bag[c], i, n) /\ ~ Fixed(bag[c], i)
  /\ Elsewhere(c, Take(bag[c], i, n))

(* The locker, the shop, a prize: n of item i arrive.                      *)
Gain(c, i, n) ==
  /\ Fits(bag[c], i, n)
  /\ Elsewhere(c, Receive(bag[c], i, n))

PutOn(c, i) ==
  /\ CanWear(bag[c], i)
  /\ Elsewhere(c, Wear(bag[c], i))

TakeItOff(c, i) ==
  /\ CanTakeOff(bag[c], i)
  /\ Elsewhere(c, TakeOff(bag[c], i))

-----------------------------------------------------------------------------
Handshake(c) ==
  \/ \E t \in Chara : RequestSent(c, t) \/ RequestRefused(c, t)
  \/ Press(c) \/ AnswerNobody(c) \/ Decline(c) \/ Accept(c)
  \/ Withdraw(c) \/ CloseNothing(c) \/ Close(c)

AtTheTable(c) ==
  \/ \E i \in Item, n \in 1..RowMax : Push(c, i, n) \/ Recall(c, i, n)
  \/ \E v \in ReadyState : Ready(c, v)
  \/ Execute(c) \/ ExecuteFails(c) \/ TableRefused(c)

InTheBag(c) ==
  \E i \in Item : \/ \E n \in 1..RowMax : Spend(c, i, n) \/ Gain(c, i, n)
                  \/ PutOn(c, i) \/ TakeItOff(c, i)

Next ==
  \E c \in Chara : \/ Enter(c) \/ Depart(c)
                   \/ Handshake(c) \/ AtTheTable(c) \/ InTheBag(c)

Spec == Init /\ [][Next]_vars

-----------------------------------------------------------------------------
(* A trade is mutual.  Whenever the server holds a character in a trade,   *)
(* the partner is connected and names it back: what _trade_peer checks at  *)
(* every message, and _trade_execute moves items on, is true in every      *)
(* state between them, whoever leaves and whatever crosses on the wire.    *)
TradeIsMutual ==
  \A c \in Chara : with[c] # None =>
    /\ with[c] # c /\ with[with[c]] = c
    /\ place[c] # Away /\ place[with[c]] # Away

(* One application at a time and one end of it: 0x5104/0x5105 carry no     *)
(* charaId, so a character must never be asking and being asked at once,   *)
(* nor in a trade with an application open, whatever went stale before.    *)
OneApplication ==
  \A c \in Chara : /\ asked[c] = None \/ asking[c] = None
                   /\ with[c] # None => asked[c] = None /\ asking[c] = None

(* 成立 is one event for both: the two tables of an open trade are settle *)
(* together, so no table changes and nothing moves twice after it.         *)
SettledTogether ==
  \A c \in Chara : with[c] # None =>
    /\ table[c].settled = table[with[c]].settled
    /\ table[c].settled => table[c].state = EXECUTE

(* A worn item is held: no way an item can leave the bag leaves it worn.   *)
WornIsHeld ==
  \A c \in Chara : \A i \in bag[c].worn : bag[c].held[i] > 0

(* No order of trades and item operations takes a count below nothing or   *)
(* past a row, or leaves a worn item behind that is no longer held.        *)
BagsAreKept == TypeOK /\ WornIsHeld

(* What the server holds is what the client shows: nobody is in a trade,   *)
(* waiting for an answer or being asked without the window for it.         *)
ServerStateIsShown ==
  \A c \in Chara :
    /\ with[c] # None => window[c] = "trading"
    /\ StillAsked(c) => window[c] = "waiting"
    /\ StillAsking(c) => window[c] = "box"

(* What moves is what both agreed to, all at once (see FairExchange).      *)
dealOf(c) ==
  IF with[c] # None /\ table[c].state # OFF /\ ~ table[c].settled
  THEN [with |-> with[c], gives |-> table[c].rows,
        takes |-> table[with[c]].rows, final |-> table[c].state = EXECUTE]
  ELSE None

deals == [c \in Chara |-> dealOf(c)]

Promise == INSTANCE FairExchange WITH deal <- deals

(* The whole family of messages keeps FairExchange's promise: a deal is    *)
(* agreed on, sealed and carried out on both sides in one step, or lapses. *)
FairTrade == Promise!Spec
=============================================================================
