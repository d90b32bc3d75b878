------------------------------ MODULE Inventory ------------------------------
(***************************************************************************)
(* What one character is carrying: server/item.py, class Inventory.        *)
(*                                                                         *)
(* A row of the real inventory is [categoryId, id, count] and a row whose  *)
(* count reaches zero leaves the list, so the rows are exactly a function  *)
(* from items to counts with "no row" being zero.  Which rows are worn is  *)
(* kept apart, as the code keeps it.                                       *)
(***************************************************************************)
EXTENDS Naturals

CONSTANTS
  Item,        \* the keys of item.bin and item_skillbook.bin (item.exists)
  RowMax,      \* the largest count one row can say; 255 in the code, a u8
  Slot,        \* Slot[i] is the categoryId of i: one item per category is worn
  NoUnequip,   \* items whose record says a worn copy cannot come off
  NoTrade,     \* items whose record says they may not be traded
  None         \* nobody, and nothing: the code's None

ASSUME RowMaxAssumption == RowMax \in Nat \ {0}
ASSUME ItemRecordAssumption == NoUnequip \subseteq Item /\ NoTrade \subseteq Item

Bag == [held : [Item -> 0..RowMax], worn : SUBSET Item]

EmptyHanded == [held |-> [i \in Item |-> 0], worn |-> {}]

(* The copy on the character's back: it is never handed over.              *)
WornCopy(bag, i) == IF i \in bag.worn THEN 1 ELSE 0

CanTake(bag, i, n) == n > 0 /\ bag.held[i] >= n

(* Variant: the row leaves and stays on the character's back.               *)
TakeWorn(bag, i, n) == [bag EXCEPT !.held[i] = @ - n]

(* Inventory.take: a row that reaches zero leaves and comes off.           *)
Take(bag, i, n) ==
  [held |-> [bag.held EXCEPT ![i] = @ - n],
   worn |-> IF bag.held[i] = n THEN bag.worn \ {i} ELSE bag.worn]

(* Inventory.receive: refused when the row could not say the new count.    *)
Fits(bag, i, n) == n > 0 /\ bag.held[i] + n <= RowMax

Receive(bag, i, n) == [bag EXCEPT !.held[i] = @ + n]

(* item.equip_replies: put on, what shares the slot coming off.            *)
CanWear(bag, i) == bag.held[i] > 0 /\ i \notin bag.worn

Wear(bag, i) ==
  [bag EXCEPT !.worn = {j \in @ : Slot[j] # Slot[i]} \union {i}]

CanTakeOff(bag, i) == i \in bag.worn /\ i \notin NoUnequip

TakeOff(bag, i) == [bag EXCEPT !.worn = @ \ {i}]

(* shop.trade_replies: the whole bill is looked at before any of it is      *)
(* taken; what is worn pays like the rest.                                 *)
CanPay(bag, bill) == \A i \in Item : bag.held[i] >= bill[i]

Bartered(bag, bill, i) ==
  Receive([held |-> [j \in Item |-> bag.held[j] - bill[j]],
           worn |-> {j \in bag.worn : bag.held[j] > bill[j] \/ bill[j] = 0}], i, 1)

(* The refusal the four item operations share for a worn, fixed item.      *)
Fixed(bag, i) == i \in bag.worn /\ i \in NoUnequip
=============================================================================
