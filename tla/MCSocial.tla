----------------------------- MODULE MCSocial -----------------------------
(* Social with three people.                                               *)
EXTENDS Social
CONSTANTS p1, p2, p3, hall, annexe

OnceATerm == [s \in {hall, annexe} |-> 1]

InUse == <<groups # <<>> \/ resting # {} \/ \E p \in Players : invited[p] # Nobody,
           \E p \in Players : {asked[p], askedBy[p], partner[p]} # {Nobody},
           \E p \in Players : friendAsked[p] \cup book[p] \cup refused[p] # {},
           \E p \in Players : calls[p] # "none" \/ window[p] # "none">>

(* The search goes on from states with one family of arrangements in use,  *)
(* at most one person deleted, one leader resting and one room booked; a   *)
(* character is deleted, and a leader rests, beside one group at most.     *)
Small ==
  /\ Cardinality({i \in DOMAIN InUse : InUse[i]}) <= 1
  /\ {p1, p2} \subseteq exists
  /\ Cardinality(resting) <= 1
  /\ \A p \in Players : refused[p] = {} \/ <<p, refused[p]>> = <<p2, {p1}>>
  /\ Cardinality(bookings) <= 1
  /\ exists # Players \/ resting # {} => Cardinality(Ids) <= 1
  /\ \A p \in Players : calls[p] # "none" => p = p3
=============================================================================
