---------------------------- MODULE FairExchange ----------------------------
(***************************************************************************)
(* What the item trade promises its players, with none of the handshake.   *)
(* The rule is the manual's, quoted in mps_session._trade_ready and        *)
(* _trade_unready: a trade stands when both sides have agreed, and what    *)
(* each side agreed to is what moves.                                      *)
(*                                                                         *)
(* deal[c] is what character c currently agrees to: with whom, what goes   *)
(* and what comes, and whether it has given its final word.                *)
(***************************************************************************)
EXTENDS Inventory

CONSTANT Chara

VARIABLES bag, deal

Rows == [Item -> 0..RowMax]

Init == /\ bag \in [Chara -> Bag]
        /\ deal = [c \in Chara |-> None]

(* A player agrees to the terms in front of it.                            *)
Agree(c) ==
  /\ deal[c] = None
  /\ deal'[c] \in [with : Chara \ {c}, gives : Rows, takes : Rows, final : {FALSE}]
  /\ deal' = [deal EXCEPT ![c] = deal'[c]]
  /\ UNCHANGED bag

(* It gives its final word, or takes the final word back.  The terms stay. *)
FinalWord(c) ==
  /\ deal[c] # None
  /\ deal' = [deal EXCEPT ![c].final = ~ @]
  /\ UNCHANGED bag

(* Any set of agreements may lapse; nothing moves.                         *)
Lapse(C) ==
  /\ deal' = [c \in Chara |-> IF c \in C THEN None ELSE deal[c]]
  /\ UNCHANGED bag

Mirrors(d, e) == d.gives = e.takes /\ d.takes = e.gives

(* Everything moves at once, exactly as both agreed; worn things stay on.  *)
Exchange(a, b) ==
  /\ a # b /\ deal[a] # None /\ deal[b] # None
  /\ deal[a].with = b /\ deal[b].with = a
  /\ deal[b].final
  /\ Mirrors(deal[a], deal[b])
  /\ LET After(c) == [bag[c] EXCEPT !.held = [i \in Item |->
                        bag[c].held[i] - deal[c].gives[i] + deal[c].takes[i]]]
     IN  /\ bag' = [bag EXCEPT ![a] = After(a), ![b] = After(b)]
         /\ bag' \in [Chara -> Bag]
  /\ deal' = [deal EXCEPT ![a] = None, ![b] = None]

(* Outside the trade a player uses, throws away, buys, wears: its own bag. *)
Otherwise(c) ==
  /\ bag'[c] \in Bag
  /\ bag' = [bag EXCEPT ![c] = bag'[c]]
  /\ UNCHANGED deal

Next ==
  \/ \E c \in Chara : Agree(c) \/ FinalWord(c) \/ Otherwise(c)
  \/ \E C \in SUBSET Chara : Lapse(C)
  \/ \E a, b \in Chara : Exchange(a, b)

Spec == Init /\ [][Next]_<<bag, deal>>
=============================================================================
