---------------------------- MODULE WireSequence ----------------------------
(***************************************************************************)
(* The order of the numbered packets on every connection of one MpsServer. *)
(*                                                                         *)
(* A packet takes its sequence number from one counter when its bytes are  *)
(* MADE (_answer, take_seq) and is written later, by whoever holds the     *)
(* bytes; a client drops the connection on a number that does not exceed   *)
(* the last one it took.  _emit is the door every packet goes through: it  *)
(* holds a packet back while a lower number of the same connection is      *)
(* still in somebody's hands, and _settle, run before every await, gives   *)
(* up on the numbers nobody will write.                                    *)
(*                                                                         *)
(* Handlers are synchronous: one runs, makes and hands over bytes for any  *)
(* connections in any order, and the next starts only after _settle.       *)
(***************************************************************************)
EXTENDS Naturals, Sequences, FiniteSets

CONSTANTS
  Conn,        \* connections
  MaxNumber    \* bound of the model: the highest number handed out

ASSUME MaxNumberAssumption == MaxNumber \in Nat

VARIABLES
  next,        \* _Session._next_seq: the last number handed out, to anybody
  hand,        \* hand[c]: numbers whose bytes a handler still holds
  unwritten,   \* unwritten[c]: numbers handed out and not yet given to _emit
  parked,      \* parked[c]: packets _emit is holding back
  unsettled,   \* _unsettled: connections handed a number since _settle
  wire,        \* wire[c]: the numbers written to the connection
  open,        \* open[c]: the writer is not closing
  phase        \* "await", a handler's "run", or "settle" before the await

wireVars == <<next, hand, unwritten, parked, unsettled, wire, open, phase>>

Number == 1..MaxNumber

WireTypeOK ==
  /\ next \in 0..MaxNumber
  /\ hand \in [Conn -> SUBSET Number]
  /\ unwritten \in [Conn -> SUBSET Number]
  /\ parked \in [Conn -> SUBSET Number]
  /\ unsettled \in SUBSET Conn
  /\ wire \in [Conn -> Seq(Number)]
  /\ open \in [Conn -> BOOLEAN]
  /\ phase \in {"await", "run", "settle"}

WireInit ==
  /\ next = 0
  /\ hand = [c \in Conn |-> {}]
  /\ unwritten = [c \in Conn |-> {}]
  /\ parked = [c \in Conn |-> {}]
  /\ unsettled = {}
  /\ wire = [c \in Conn |-> <<>>]
  /\ open = [c \in Conn |-> TRUE]
  /\ phase = "await"

(* A packet, a deadline or an end of file wakes one connection's task.     *)
Wake ==
  /\ phase = "await"
  /\ phase' = "run"
  /\ UNCHANGED <<next, hand, unwritten, parked, unsettled, wire, open>>

(* _answer: number a packet for c.  seen is the client's own number when   *)
(* the packet answers a message, else 0.                                   *)
TakeSeq(seen) == (IF seen > next THEN seen ELSE next) + 1

Answer(c, seen) ==
  /\ phase = "run" /\ TakeSeq(seen) <= MaxNumber
  /\ next' = TakeSeq(seen)
  /\ hand' = [hand EXCEPT ![c] = @ \union {TakeSeq(seen)}]
  /\ unwritten' = [unwritten EXCEPT ![c] = @ \union {TakeSeq(seen)}]
  /\ unsettled' = unsettled \union {c}
  /\ UNCHANGED <<parked, wire, open, phase>>

(* Variant: nothing waits for a lower number.                           *)
AtOnce(P, owed) == P

(* What may go: everything parked below the lowest number still owed.      *)
Ready(P, owed) == {n \in P : \A u \in owed : n < u}

(* Variant: what was parked before is forgotten.                        *)
OnlyNew(P, B, ready) == B \ ready

(* What stays behind of what was parked and what was just handed over.     *)
HeldBack(P, B, ready) == (P \union B) \ ready

(* The packets of S in the order they are written: sorted, each once.      *)
Sorted(S) ==
  {q \in [1..Cardinality(S) -> S] :
     /\ \A i, j \in DOMAIN q : i < j => q[i] < q[j]
     /\ \A n \in S : \E i \in DOMAIN q : q[i] = n}

(* _write: a closing connection is skipped.                                *)
Write(c, S) ==
  IF open[c] THEN \E q \in Sorted(S) : wire' = [wire EXCEPT ![c] = @ \o q]
             ELSE UNCHANGED wire

(* _emit, by a push or by the packet loop with the handler's reply: a blob *)
(* of one or more packets.                                                 *)
Emit(c, B) ==
  /\ phase = "run" /\ B # {} /\ B \subseteq hand[c]
  /\ LET owed == unwritten[c] \ B
         ready == Ready(parked[c] \union B, owed)
     IN  /\ unwritten' = [unwritten EXCEPT ![c] = owed]
         /\ parked' = [parked EXCEPT ![c] = HeldBack(@, B, ready)]
         /\ Write(c, ready)
  /\ hand' = [hand EXCEPT ![c] = @ \ B]
  /\ UNCHANGED <<next, unsettled, open, phase>>

(* The handler is over, by returning or by raising: bytes still in its     *)
(* hands are lost.                                                         *)
Return ==
  /\ phase = "run"
  /\ phase' = "settle"
  /\ hand' = [c \in Conn |-> {}]
  /\ UNCHANGED <<next, unwritten, parked, unsettled, wire, open>>

(* _settle, one connection at a time.                                      *)
Settle(c) ==
  /\ phase = "settle" /\ c \in unsettled
  /\ unwritten' = [unwritten EXCEPT ![c] = {}]
  /\ parked' = [parked EXCEPT ![c] = {}]
  /\ Write(c, Ready(parked[c], {}))
  /\ unsettled' = unsettled \ {c}
  /\ UNCHANGED <<next, hand, open, phase>>

(* Variant: back to the socket before every connection is settled.          *)
AwaitEarly ==
  /\ phase = "settle"
  /\ phase' = "await"
  /\ UNCHANGED <<next, hand, unwritten, parked, unsettled, wire, open>>

Await ==
  /\ phase = "settle" /\ unsettled = {}
  /\ phase' = "await"
  /\ UNCHANGED <<next, hand, unwritten, parked, unsettled, wire, open>>

(* The peer hangs up, the task closes its writer, or a handler closes      *)
(* another connection's.                                                   *)
Close(c) ==
  /\ phase \in {"await", "run"} /\ open[c]
  /\ open' = [open EXCEPT ![c] = FALSE]
  /\ UNCHANGED <<next, hand, unwritten, parked, unsettled, wire, phase>>

WireNext ==
  \/ Wake \/ Return \/ Await
  \/ \E c \in Conn :
       \/ \E seen \in 0..MaxNumber : Answer(c, seen)
       \/ \E B \in SUBSET hand[c] : Emit(c, B)
       \/ Settle(c) \/ Close(c)

(* A synchronous handler ends, and nothing but _settle runs after it.      *)
Fairness ==
  /\ WF_wireVars(Return) /\ WF_wireVars(Await)
  /\ \A c \in Conn : WF_wireVars(Settle(c))

WireSpec == WireInit /\ [][WireNext]_wireVars
FairSpec == WireSpec /\ Fairness

-----------------------------------------------------------------------------
(* The client's rule: it drops the connection on a number not strictly     *)
(* greater than the last it took.  Whatever order handlers make and hand   *)
(* over packets in, no connection ever sees one.                           *)
NumbersRise ==
  \A c \in Conn : \A i, j \in 1..Len(wire[c]) : i < j => wire[c][i] < wire[c][j]

(* Nothing is in hand across an await, which is what makes giving up on    *)
(* the unwritten numbers safe, and nothing is held back across one: a      *)
(* packet parked behind a number that is never written still goes out.     *)
NothingHeldAtAwait ==
  phase = "await" => \A c \in Conn : unwritten[c] = {} /\ parked[c] = {}

OnTheWire(c) == {wire[c][i] : i \in 1..Len(wire[c])}

(* A packet handed over to an open connection is parked or written, and a  *)
(* parked one leaves only onto the wire: none is lost on the way.          *)
NothingLost ==
  [][\A c \in Conn : open[c] =>
       /\ parked[c] \subseteq parked'[c] \union OnTheWire(c)'
       /\ phase' = "run" =>
            hand[c] \subseteq hand'[c] \union parked'[c] \union OnTheWire(c)']_wireVars

(* Whatever is held back is written in the end, or its connection closes:  *)
(* a packet may wait for a lower number but never for ever.                *)
ParkedGoesOut ==
  \A c \in Conn, n \in Number :
    n \in parked[c] ~> n \in OnTheWire(c) \/ ~ open[c]
=============================================================================
