------------------------------ MODULE MCRegistry ------------------------------
(* Values for the runs of Registry: see README for the bounds.             *)
EXTENDS Registry, TLC

Accounts == Permutations(Account)
MCSlot == [i \in Item |-> i]

(* One of the goods: a pair of glasses, for what the school hands out.     *)
CONSTANTS Glasses, Stamp
MCGoods == {[item |-> Glasses, bill |-> [i \in Item |-> IF i = Stamp THEN 1 ELSE 0]]}

AllButIndex == File \ {IndexFile}
=============================================================================
