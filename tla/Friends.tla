------------------------------ MODULE Friends ------------------------------
(***************************************************************************)
(* Applications for each other's address books (the 0x64xx handlers of     *)
(* mps_session.py, friends.py) and refusal lists (ignores.py).  Unlike the *)
(* other applications a player may have several open, each way, and two    *)
(* may ask each other at once.  The books are filed under who keeps them   *)
(* and are struck from one side only; Registry has their file.             *)
(***************************************************************************)
EXTENDS Online

CONSTANT BookLimit   \* BOOK_LIMIT

ASSUME FriendsAssumption == BookLimit \in Nat

VARIABLES
  friendAsked,    \* session.friends_asked
  friendAsking,   \* session.friends_asking
  book,           \* FriendBook.edges
  refused         \* IgnoreBook.edges

friendVars == <<friendAsked, friendAsking, book, refused>>

Nowhere == [p \in Players |-> {}]

FriendsInit ==
  friendAsked = Nowhere /\ friendAsking = Nowhere /\ book = Nowhere /\ refused = Nowhere

(* FriendBook.full_for: only a book that would grow counts.                *)
FullFor(a, b) ==
  \E pair \in {<<a, b>>, <<b, a>>} :
    pair[2] \notin book[pair[1]] /\ Cardinality(book[pair[1]]) >= BookLimit

(* A refused request, or one to somebody who refuses c or is out of reach,  *)
(* changes nothing.                                                        *)
FriendRequest(c, target) ==
  /\ {c, target} \subseteq online /\ target # c
  /\ target \notin book[c] /\ c \notin refused[target] /\ ~FullFor(c, target)
  /\ friendAsked' = [friendAsked EXCEPT ![c] = @ \cup {target}]
  /\ friendAsking' = [friendAsking EXCEPT ![target] = @ \cup {c}]
  /\ UNCHANGED <<book, refused>>

Closed(asker, who) ==
  /\ friendAsked' = [friendAsked EXCEPT ![asker] = @ \ {who}]
  /\ friendAsking' = [friendAsking EXCEPT ![who] = @ \ {asker}]

(* FriendBook.link.                                                        *)
Linked(a, b) == [book EXCEPT ![a] = @ \cup {b}, ![b] = @ \cup {a}]

(* Variant: the books are not looked at again.                             *)
FriendYesUnchecked(c, asker) ==
  /\ c \in online /\ asker \in friendAsking[c] \cap online
  /\ Closed(asker, c)
  /\ book' = Linked(c, asker)
  /\ UNCHANGED refused

(* The books may have filled since the question went out.                  *)
FriendYes(c, asker) ==
  /\ c \in online /\ asker \in friendAsking[c] \cap online
  /\ Closed(asker, c)
  /\ book' = IF FullFor(c, asker) THEN book ELSE Linked(c, asker)
  /\ UNCHANGED refused

(* No, and the asker's own withdrawal.                                     *)
FriendNo(c, asker) ==
  /\ c \in online /\ asker \in friendAsking[c]
  /\ Closed(asker, c) /\ UNCHANGED <<book, refused>>

FriendCancel(c, target) ==
  /\ c \in online /\ target \in friendAsked[c]
  /\ Closed(c, target) /\ UNCHANGED <<book, refused>>

FriendDelete(c, target) ==
  /\ c \in online /\ target \in book[c]
  /\ book' = [book EXCEPT ![c] = @ \ {target}]
  /\ UNCHANGED <<friendAsked, friendAsking, refused>>

(* 受信拒否 and its undoing: an application already open stays open.        *)
Refuse(c, target) ==
  /\ c \in online /\ target \in exists
  /\ refused' = [refused EXCEPT ![c] = IF target \in @ THEN @ \ {target} ELSE @ \cup {target}]
  /\ UNCHANGED <<friendAsked, friendAsking, book>>

(* _applications_gone, the address book's part: every application c is an   *)
(* end of.                                                                 *)
FriendsGone(c) ==
  /\ friendAsked' = [p \in Players |-> IF p = c THEN {} ELSE friendAsked[p] \ {c}]
  /\ friendAsking' = [p \in Players |-> IF p = c THEN {} ELSE friendAsking[p] \ {c}]
  /\ UNCHANGED <<book, refused>>

FriendsCrash ==
  friendAsked' = Nowhere /\ friendAsking' = Nowhere /\ UNCHANGED <<book, refused>>

(* FriendBook.forget looks into the books of those c still lists; the       *)
(* refusal lists are all swept.                                            *)
FriendsForget(c) ==
  /\ book' = [p \in Players |-> IF p = c THEN {} ELSE IF p \in book[c] THEN book[p] \ {c} ELSE book[p]]
  /\ refused' = [p \in Players |-> IF p = c THEN {} ELSE refused[p] \ {c}]
  /\ UNCHANGED <<friendAsked, friendAsking>>

FriendsNext ==
  \E c, other \in Players :
    \/ FriendRequest(c, other) \/ FriendYes(c, other) \/ FriendNo(c, other)
    \/ FriendCancel(c, other) \/ FriendDelete(c, other) \/ Refuse(c, other)

-----------------------------------------------------------------------------
FriendsTypeOK ==
  \A f \in {friendAsked, friendAsking, book, refused} : f \in [Players -> SUBSET Players]

(* Applications cross, are answered late and are cut off at either end, and *)
(* still every open one is known to both its ends, who are both here, and  *)
(* however many are open at once no address book grows past its limit.     *)
BooksWithinLimit ==
  \A p \in Players :
    /\ Cardinality(book[p]) <= BookLimit
    /\ p \notin book[p]
    /\ \A q \in Players : q \in friendAsked[p] <=> p \in friendAsking[q]
    /\ friendAsked[p] \cup friendAsking[p] # {} => p \in online
=============================================================================
