------------------------------ MODULE Social ------------------------------
(***************************************************************************)
(* The composition of what people arrange with each other: friend groups   *)
(* and their rooms (Groups), twoshots (Twoshots), address books (Friends)  *)
(* and the game masters' desk (Desk).  They share the connections: one     *)
(* that ends, by 下校 or by a lost socket, calls the teardowns in one go,    *)
(* a deleted character leaves the books, and a dead process takes every    *)
(* connection and no book.                                                 *)
(***************************************************************************)
EXTENDS Groups, Twoshots, Friends, Desk

vars == <<online, exists, groupVars, twoshotVars, friendVars, deskVars>>

Init ==
  /\ online = {} /\ exists = Players
  /\ GroupsInit /\ TwoshotsInit /\ FriendsInit /\ DeskInit

Arrive(p) ==
  /\ p \in exists \ online /\ online' = online \cup {p}
  /\ UNCHANGED <<exists, groupVars, twoshotVars, friendVars, deskVars>>

Leave(p) ==
  /\ p \in online /\ online' = online \ {p}
  /\ TwoshotGone(p) /\ GroupsGone(p) /\ FriendsGone(p) /\ DeskGone(p)
  /\ UNCHANGED exists

Delete(p) ==
  /\ p \in exists \ online /\ exists' = exists \ {p}
  /\ GroupsForget(p) /\ FriendsForget(p) /\ CallsForget(p)
  /\ UNCHANGED <<online, twoshotVars>>

Crash ==
  /\ online # {} /\ online' = {}
  /\ GroupsCrash /\ TwoshotsCrash /\ FriendsCrash /\ DeskCrash
  /\ UNCHANGED exists

Next ==
  \/ \E p \in Players : Arrive(p) \/ Leave(p) \/ Delete(p)
  \/ Crash
  \/ GroupsNext /\ UNCHANGED <<online, exists, twoshotVars, friendVars, deskVars>>
  \/ TwoshotsNext /\ UNCHANGED <<online, exists, groupVars, friendVars, deskVars>>
  \/ FriendsNext /\ UNCHANGED <<online, exists, groupVars, twoshotVars, deskVars>>
  \/ DeskNext /\ UNCHANGED <<online, exists, groupVars, twoshotVars, friendVars>>

Spec == Init /\ [][Next]_vars

(* Type correctness of the composition.                                    *)
TypeOK ==
  /\ online \subseteq exists /\ exists \subseteq Players
  /\ GroupsTypeOK /\ TwoshotsTypeOK /\ FriendsTypeOK /\ DeskTypeOK

(* Who is in a group, and which rooms it has, is one answer in every book. *)
GroupsAreWhole == TypeOK /\ RostersAgree /\ BookingsOwned

(* Every question has its two ends, and so has every twoshot, every summons*)
(* and every talk with a game master.                                      *)
PairsAgree == QuestionsAreBacked /\ TwoshotsPaired /\ DeskIsShown
=============================================================================
