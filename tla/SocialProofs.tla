----------------------------- MODULE SocialProofs -----------------------------
(***************************************************************************)
(* Why what people arrange with each other stays whole, for any number of  *)
(* people, groups, rooms and game masters.  The four components share only *)
(* who is here and who there is, so each has an invariant of its own and   *)
(* the composition is the conjunction.                                     *)
(***************************************************************************)
EXTENDS Social, FiniteSetTheorems, WellFoundedInduction, TLAPS

(* Who is here is somebody there is.                                       *)
World == online \subseteq exists /\ exists \subseteq Players

-----------------------------------------------------------------------------
(* Address books.  Nobody asks themselves, and a book is finite.           *)
FriendsInv ==
  /\ FriendsTypeOK /\ BooksWithinLimit
  /\ \A p \in Players : p \notin friendAsked[p] /\ IsFiniteSet(book[p])

LEMMA FriendsTyped ==
  FriendsTypeOK <=> /\ friendAsked \in [Players -> SUBSET Players]
                    /\ friendAsking \in [Players -> SUBSET Players]
                    /\ book \in [Players -> SUBSET Players]
                    /\ refused \in [Players -> SUBSET Players]
BY DEF FriendsTypeOK

LEMMA FriendsTypedNext ==
  FriendsTypeOK' <=> /\ friendAsked' \in [Players -> SUBSET Players]
                     /\ friendAsking' \in [Players -> SUBSET Players]
                     /\ book' \in [Players -> SUBSET Players]
                     /\ refused' \in [Players -> SUBSET Players]
BY DEF FriendsTypeOK

LEMMA FriendsStart == FriendsInit => FriendsInv
<1> SUFFICES ASSUME FriendsInit PROVE FriendsInv
  OBVIOUS
<1>1. FriendsTypeOK
  BY FriendsTyped DEF FriendsInit, Nowhere
<1>2. \A p \in Players : book[p] = {} /\ friendAsked[p] = {} /\ friendAsking[p] = {}
  BY DEF FriendsInit, Nowhere
<1> QED BY <1>1, <1>2, FS_EmptySet, FriendsAssumption DEF FriendsInv, BooksWithinLimit

(* A book that is not full for one more takes one more.                    *)
LEMMA OneMore ==
  ASSUME NEW S, NEW x, IsFiniteSet(S), Cardinality(S) <= BookLimit,
         x \in S \/ ~ (Cardinality(S) >= BookLimit)
  PROVE  IsFiniteSet(S \cup {x}) /\ Cardinality(S \cup {x}) <= BookLimit
<1>1. Cardinality(S) \in Nat /\ BookLimit \in Nat
  BY FS_CardinalityType, FriendsAssumption
<1>2. CASE x \in S
  <2>1. S \cup {x} = S
    BY <1>2
  <2> QED BY <2>1
<1>3. CASE x \notin S
  <2>1. IsFiniteSet(S \cup {x}) /\ Cardinality(S \cup {x}) = Cardinality(S) + 1
    BY <1>3, FS_AddElement
  <2> QED BY <1>1, <1>3, <2>1
<1> QED BY <1>2, <1>3

LEMMA OneLess ==
  ASSUME NEW S, NEW T \in SUBSET S, IsFiniteSet(S), Cardinality(S) <= BookLimit
  PROVE  IsFiniteSet(T) /\ Cardinality(T) <= BookLimit
BY FS_Subset, FS_CardinalityType, FriendsAssumption

(* What an operation on the applications keeps: the two tables mirror each *)
(* other, and only people who are here have entries.                       *)
Mirrored ==
  /\ friendAsked \in [Players -> SUBSET Players] /\ friendAsking \in [Players -> SUBSET Players]
  /\ \A p, q \in Players : q \in friendAsked[p] <=> p \in friendAsking[q]
  /\ \A p \in Players : /\ p \notin friendAsked[p]
                        /\ friendAsked[p] \cup friendAsking[p] # {} => p \in online

(* What an operation on the books keeps.                                   *)
Bound ==
  /\ book \in [Players -> SUBSET Players]
  /\ \A p \in Players : /\ IsFiniteSet(book[p]) /\ Cardinality(book[p]) <= BookLimit
                        /\ p \notin book[p]

LEMMA FriendsInvParts ==
  FriendsInv <=> Mirrored /\ Bound /\ refused \in [Players -> SUBSET Players]
BY FriendsTyped DEF FriendsInv, BooksWithinLimit, Mirrored, Bound

LEMMA FriendsInvPartsNext ==
  FriendsInv' <=> Mirrored' /\ Bound' /\ refused' \in [Players -> SUBSET Players]
BY FriendsTypedNext DEF FriendsInv, BooksWithinLimit, Mirrored, Bound

LEMMA ClosedKeeps ==
  ASSUME Mirrored, NEW asker \in Players, NEW who \in Players, Closed(asker, who),
         UNCHANGED online
  PROVE  Mirrored'
<1>1. /\ friendAsked' \in [Players -> SUBSET Players]
      /\ friendAsking' \in [Players -> SUBSET Players]
  BY DEF Closed, Mirrored
<1>2. \A p, q \in Players :
        /\ q \in friendAsked'[p] <=> q \in friendAsked[p] /\ ~ (p = asker /\ q = who)
        /\ p \in friendAsking'[q] <=> p \in friendAsking[q] /\ ~ (p = asker /\ q = who)
  BY DEF Closed, Mirrored
<1>3. \A p \in Players : /\ friendAsked'[p] \subseteq friendAsked[p]
                         /\ friendAsking'[p] \subseteq friendAsking[p]
  BY DEF Closed, Mirrored
<1> QED BY <1>1, <1>2, <1>3 DEF Mirrored

LEMMA FriendsStep ==
  ASSUME FriendsInv, FriendsNext, World, UNCHANGED <<online, exists>>
  PROVE  FriendsInv'
<1>1. Mirrored /\ Bound /\ refused \in [Players -> SUBSET Players]
  BY FriendsInvParts
<1>2. PICK c \in Players, other \in Players :
        \/ FriendRequest(c, other) \/ FriendYes(c, other) \/ FriendNo(c, other)
        \/ FriendCancel(c, other) \/ FriendDelete(c, other) \/ Refuse(c, other)
  BY DEF FriendsNext
<1>3. CASE FriendRequest(c, other)
  <2>1. /\ friendAsked' = [friendAsked EXCEPT ![c] = @ \cup {other}]
        /\ friendAsking' = [friendAsking EXCEPT ![other] = @ \cup {c}]
        /\ c # other /\ {c, other} \subseteq online /\ UNCHANGED <<book, refused>>
    BY <1>3 DEF FriendRequest
  <2>2. /\ friendAsked' \in [Players -> SUBSET Players]
        /\ friendAsking' \in [Players -> SUBSET Players]
    BY <1>1, <2>1 DEF Mirrored
  <2>3. \A p, q \in Players :
          /\ q \in friendAsked'[p] <=> q \in friendAsked[p] \/ (p = c /\ q = other)
          /\ p \in friendAsking'[q] <=> p \in friendAsking[q] \/ (p = c /\ q = other)
    BY <1>1, <2>1 DEF Mirrored
  <2>4. Mirrored'
    <3>1. \A p, q \in Players : q \in friendAsked'[p] <=> p \in friendAsking'[q]
      BY <1>1, <2>3 DEF Mirrored
    <3>2. ASSUME NEW p \in Players, friendAsked'[p] \cup friendAsking'[p] # {}
          PROVE  p \in online'
      <4>1. p = c \/ p = other \/ friendAsked'[p] \cup friendAsking'[p] =
                                  friendAsked[p] \cup friendAsking[p]
        BY <1>1, <2>1 DEF Mirrored
      <4> QED BY <1>1, <2>1, <3>2, <4>1 DEF Mirrored
    <3>3. \A p \in Players : p \notin friendAsked'[p]
      BY <1>1, <2>1, <2>3 DEF Mirrored
    <3> QED BY <2>2, <3>1, <3>2, <3>3 DEF Mirrored
  <2> QED BY <1>1, <2>1, <2>4, FriendsInvPartsNext DEF Bound
<1>4. CASE FriendYes(c, other)
  <2>1. /\ Closed(other, c) /\ other \in friendAsking[c] /\ UNCHANGED refused
        /\ book' = IF FullFor(c, other) THEN book ELSE Linked(c, other)
    BY <1>4 DEF FriendYes
  <2>2. Mirrored'
    BY <1>1, <2>1, ClosedKeeps
  <2>3. c # other
    BY <1>1, <2>1 DEF Mirrored
  <2>4. CASE FullFor(c, other)
    BY <1>1, <2>1, <2>2, <2>4, FriendsInvPartsNext DEF Bound
  <2>5. CASE ~ FullFor(c, other)
    <3>1. /\ book' \in [Players -> SUBSET Players]
          /\ book'[c] = book[c] \cup {other} /\ book'[other] = book[other] \cup {c}
          /\ \A p \in Players \ {c, other} : book'[p] = book[p]
      BY <1>1, <2>1, <2>3, <2>5 DEF Linked, Bound
    <3>2. /\ other \in book[c] \/ ~ (Cardinality(book[c]) >= BookLimit)
          /\ c \in book[other] \/ ~ (Cardinality(book[other]) >= BookLimit)
      BY <2>5 DEF FullFor
    <3>3. /\ IsFiniteSet(book'[c]) /\ Cardinality(book'[c]) <= BookLimit
          /\ IsFiniteSet(book'[other]) /\ Cardinality(book'[other]) <= BookLimit
      <4> DEFINE mine == book[c]
                 theirs == book[other]
      <4>1. /\ IsFiniteSet(mine) /\ Cardinality(mine) <= BookLimit
            /\ IsFiniteSet(theirs) /\ Cardinality(theirs) <= BookLimit
        BY <1>1 DEF Bound
      <4>2. /\ other \in mine \/ ~ (Cardinality(mine) >= BookLimit)
            /\ c \in theirs \/ ~ (Cardinality(theirs) >= BookLimit)
        BY <3>2
      <4>3. book'[c] = mine \cup {other} /\ book'[other] = theirs \cup {c}
        BY <3>1
      <4> HIDE DEF mine, theirs
      <4>4. IsFiniteSet(mine \cup {other}) /\ Cardinality(mine \cup {other}) <= BookLimit
        BY <4>1, <4>2, OneMore
      <4>5. IsFiniteSet(theirs \cup {c}) /\ Cardinality(theirs \cup {c}) <= BookLimit
        BY <4>1, <4>2, OneMore
      <4> QED BY <4>3, <4>4, <4>5
    <3>4. Bound'
      BY <1>1, <2>3, <3>1, <3>3 DEF Bound
    <3> QED BY <1>1, <2>1, <2>2, <3>4, FriendsInvPartsNext
  <2> QED BY <2>4, <2>5
<1>5. CASE FriendNo(c, other) \/ FriendCancel(c, other)
  <2>1. (Closed(other, c) \/ Closed(c, other)) /\ UNCHANGED <<book, refused>>
    BY <1>5 DEF FriendNo, FriendCancel
  <2>2. Mirrored'
    BY <1>1, <2>1, ClosedKeeps
  <2> QED BY <1>1, <2>1, <2>2, FriendsInvPartsNext DEF Bound
<1>6. CASE FriendDelete(c, other)
  <2>1. /\ book' = [book EXCEPT ![c] = @ \ {other}]
        /\ UNCHANGED <<friendAsked, friendAsking, refused>>
    BY <1>6 DEF FriendDelete
  <2>2. /\ book' \in [Players -> SUBSET Players]
        /\ \A p \in Players : book'[p] \in SUBSET book[p]
    BY <1>1, <2>1 DEF Bound
  <2>3. Bound'
    BY <1>1, <2>2, OneLess DEF Bound
  <2> QED BY <1>1, <2>1, <2>3, FriendsInvPartsNext DEF Mirrored
<1>7. CASE Refuse(c, other)
  <2>1. /\ refused' = [refused EXCEPT ![c] = IF other \in @ THEN @ \ {other} ELSE @ \cup {other}]
        /\ UNCHANGED <<friendAsked, friendAsking, book>>
    BY <1>7 DEF Refuse
  <2>2. refused' \in [Players -> SUBSET Players]
    BY <1>1, <2>1
  <2> QED BY <1>1, <2>1, <2>2, FriendsInvPartsNext DEF Mirrored, Bound
<1> QED BY <1>2, <1>3, <1>4, <1>5, <1>6, <1>7

(* Arriving, leaving, being deleted and a dead process.                    *)
LEMMA FriendsWorld ==
  ASSUME FriendsInv, World,
         \/ UNCHANGED friendVars /\ online \subseteq online'
         \/ \E p \in Players : FriendsGone(p) /\ online' = online \ {p}
         \/ \E p \in Players : FriendsForget(p) /\ online' = online
         \/ FriendsCrash
  PROVE  FriendsInv'
<1>1. Mirrored /\ Bound /\ refused \in [Players -> SUBSET Players]
  BY FriendsInvParts
<1>2. CASE UNCHANGED friendVars /\ online \subseteq online'
  BY <1>1, <1>2, FriendsInvPartsNext DEF friendVars, Mirrored, Bound
<1>3. ASSUME NEW c \in Players, FriendsGone(c), online' = online \ {c} PROVE FriendsInv'
  <2>1. /\ friendAsked' \in [Players -> SUBSET Players]
        /\ friendAsking' \in [Players -> SUBSET Players]
        /\ \A p, q \in Players :
             /\ q \in friendAsked'[p] <=> q \in friendAsked[p] /\ p # c /\ q # c
             /\ p \in friendAsking'[q] <=> p \in friendAsking[q] /\ p # c /\ q # c
        /\ UNCHANGED <<book, refused>>
    BY <1>1, <1>3 DEF FriendsGone, Mirrored
  <2>2. Mirrored'
    <3>1. \A p \in Players : friendAsked'[p] \cup friendAsking'[p] # {} => p \in online /\ p # c
      BY <1>1, <2>1 DEF Mirrored
    <3> QED BY <1>1, <1>3, <2>1, <3>1 DEF Mirrored
  <2> QED BY <1>1, <2>1, <2>2, FriendsInvPartsNext DEF Bound
<1>4. ASSUME NEW c \in Players, FriendsForget(c), online' = online PROVE FriendsInv'
  <2>1. /\ book' \in [Players -> SUBSET Players] /\ refused' \in [Players -> SUBSET Players]
        /\ \A p \in Players : book'[p] \in SUBSET book[p]
        /\ UNCHANGED <<friendAsked, friendAsking>>
    BY <1>1, <1>4 DEF FriendsForget, Bound
  <2>2. Bound'
    BY <1>1, <2>1, OneLess DEF Bound
  <2> QED BY <1>1, <1>4, <2>1, <2>2, FriendsInvPartsNext DEF Mirrored
<1>5. CASE FriendsCrash
  <2>1. /\ friendAsked' = Nowhere /\ friendAsking' = Nowhere /\ UNCHANGED <<book, refused>>
    BY <1>5 DEF FriendsCrash
  <2>2. Mirrored'
    BY <2>1 DEF Mirrored, Nowhere
  <2> QED BY <1>1, <2>1, <2>2, FriendsInvPartsNext DEF Bound
<1> QED BY <1>2, <1>3, <1>4, <1>5

-----------------------------------------------------------------------------
(* The desk.                                                               *)
DeskInv == DeskTypeOK /\ DeskIsShown

LEMMA DeskStart == DeskInit => DeskInv
BY DEF DeskInit, DeskInv, DeskTypeOK, DeskIsShown, NoneAsked

(* Wherever the marks and the windows of some people are taken away at     *)
(* once, and nothing else happens, the desk stays as it should be.         *)
LEMMA TakenDown ==
  ASSUME DeskInv, NEW who \in SUBSET Players,
         summoned' = [p \in Players |-> IF p \in who THEN Nobody ELSE summoned[p]],
         talking' = [p \in Players |-> IF p \in who THEN Nobody ELSE talking[p]],
         window' = [p \in Players |-> IF p \in who THEN "none" ELSE window[p]],
         UNCHANGED <<calls, exists>>, online \subseteq online' \cup who
  PROVE  DeskInv'
<1>1. DeskTypeOK'
  BY DEF DeskInv, DeskTypeOK
<1>2. ASSUME NEW p \in Players
      PROVE  /\ (window'[p] = "asked") <=> (summoned'[p] # Nobody)
             /\ (window'[p] = "talking") <=> (talking'[p] # Nobody)
             /\ window'[p] # "none" => p \in online'
             /\ calls'[p] # "none" => p \in exists'
  BY DEF DeskInv, DeskTypeOK, DeskIsShown
<1> QED BY <1>1, <1>2 DEF DeskInv, DeskIsShown

(* A change of the queue alone.                                            *)
LEMMA QueueMoves ==
  ASSUME DeskInv, UNCHANGED <<online, summoned, talking, window>>,
         calls' \in [Players -> {"none", "waiting", "taken"}],
         \A p \in Players : calls'[p] # "none" => p \in exists'
  PROVE  DeskInv'
BY DEF DeskInv, DeskTypeOK, DeskIsShown

LEMMA DeskStep ==
  ASSUME DeskInv, World, DeskNext, UNCHANGED <<online, exists>>
  PROVE  DeskInv'
<1>1. PICK c \in Players :
        \/ Call(c) \/ CallCancel(c)
        \/ \E g \in Staff : Summon(g, c) \/ GmEnds(g)
        \/ \E g \in Staff, state \in {"waiting", "taken", "none"} : CallHandled(g, c, state)
        \/ SummonsNo(c) \/ SummonsYes(c)
  BY DEF DeskNext
<1>2. CASE Call(c) \/ CallCancel(c)
  BY <1>2, QueueMoves DEF Call, CallCancel, World, DeskInv, DeskTypeOK, DeskIsShown
<1>3. ASSUME NEW g \in Staff, Summon(g, c) PROVE DeskInv'
  <2>1. g \in Players /\ g # Nobody
    BY OnlineAssumption, DeskAssumption
  <2> QED BY <1>3, <2>1 DEF Summon, DeskInv, DeskTypeOK, DeskIsShown
<1>4. ASSUME NEW g \in Staff, GmEnds(g) PROVE DeskInv'
  <2>1. PICK p \in PlayersOf(g) : Forget(p) /\ window' = [window EXCEPT ![p] = "none"]
    BY <1>4 DEF GmEnds
  <2>2. p \in Players
    BY DEF PlayersOf
  <2>3. /\ summoned' = [q \in Players |-> IF q \in {p} THEN Nobody ELSE summoned[q]]
        /\ talking' = [q \in Players |-> IF q \in {p} THEN Nobody ELSE talking[q]]
        /\ window' = [q \in Players |-> IF q \in {p} THEN "none" ELSE window[q]]
    BY <2>1, <2>2 DEF Forget, DeskInv, DeskTypeOK
  <2> QED BY <1>4, <2>2, <2>3, TakenDown DEF GmEnds
<1>5. ASSUME NEW g \in Staff, NEW state \in {"waiting", "taken", "none"}, CallHandled(g, c, state)
      PROVE  DeskInv'
  BY <1>5, QueueMoves DEF CallHandled, DeskInv, DeskTypeOK, DeskIsShown
<1>6. CASE SummonsNo(c)
  <2>1. /\ summoned' = [q \in Players |-> IF q \in {c} THEN Nobody ELSE summoned[q]]
        /\ talking' = [q \in Players |-> IF q \in {c} THEN Nobody ELSE talking[q]]
        /\ window' = [q \in Players |-> IF q \in {c} THEN "none" ELSE window[q]]
    BY <1>6 DEF SummonsNo, Forget, DeskInv, DeskTypeOK
  <2> QED BY <1>6, <2>1, TakenDown DEF SummonsNo
<1>7. CASE SummonsYes(c)
  BY <1>7 DEF SummonsYes, DeskInv, DeskTypeOK, DeskIsShown
<1> QED BY <1>1, <1>2, <1>3, <1>4, <1>5, <1>6, <1>7

LEMMA DeskGoes ==
  ASSUME DeskInv, World, NEW c \in Players, DeskGone(c), online' = online \ {c}, UNCHANGED exists
  PROVE  DeskInv'
<1>1. CASE PlayersOf(c) \ {c} = {}
  <2>1. /\ summoned' = [q \in Players |-> IF q \in {c} THEN Nobody ELSE summoned[q]]
        /\ talking' = [q \in Players |-> IF q \in {c} THEN Nobody ELSE talking[q]]
        /\ window' = [q \in Players |-> IF q \in {c} THEN "none" ELSE window[q]]
    BY <1>1 DEF DeskGone, Forget, DeskInv, DeskTypeOK
  <2>2. online \subseteq online' \cup {c} /\ UNCHANGED <<calls, exists>>
    BY DEF DeskGone
  <2> QED BY <2>1, <2>2, TakenDown
<1>2. CASE PlayersOf(c) \ {c} # {}
  <2>1. PICK p \in PlayersOf(c) \ {c} :
          /\ summoned' = [summoned EXCEPT ![c] = Nobody, ![p] = Nobody]
          /\ talking' = [talking EXCEPT ![c] = Nobody, ![p] = Nobody]
          /\ window' = [window EXCEPT ![c] = "none", ![p] = "none"]
    BY <1>2 DEF DeskGone
  <2>2. p \in Players
    BY DEF PlayersOf
  <2>3. /\ summoned' = [q \in Players |-> IF q \in {c, p} THEN Nobody ELSE summoned[q]]
        /\ talking' = [q \in Players |-> IF q \in {c, p} THEN Nobody ELSE talking[q]]
        /\ window' = [q \in Players |-> IF q \in {c, p} THEN "none" ELSE window[q]]
    BY <2>1, <2>2 DEF DeskInv, DeskTypeOK
  <2>4. online \subseteq online' \cup {c, p} /\ UNCHANGED <<calls, exists>>
    BY DEF DeskGone
  <2> DEFINE who == {c, p}
  <2>5. who \in SUBSET Players
    BY <2>2
  <2>6. /\ summoned' = [q \in Players |-> IF q \in who THEN Nobody ELSE summoned[q]]
        /\ talking' = [q \in Players |-> IF q \in who THEN Nobody ELSE talking[q]]
        /\ window' = [q \in Players |-> IF q \in who THEN "none" ELSE window[q]]
        /\ online \subseteq online' \cup who
    BY <2>3, <2>4
  <2> HIDE DEF who
  <2> QED BY <2>4, <2>5, <2>6, TakenDown
<1> QED BY <1>1, <1>2

LEMMA DeskDeletes ==
  ASSUME DeskInv, World, NEW c \in Players, CallsForget(c), exists' = exists \ {c}, UNCHANGED online
  PROVE  DeskInv'
BY QueueMoves DEF CallsForget, DeskInv, DeskTypeOK, DeskIsShown

LEMMA DeskDies ==
  ASSUME DeskInv, DeskCrash, UNCHANGED exists
  PROVE  DeskInv'
BY DEF DeskCrash, DeskInv, DeskTypeOK, DeskIsShown, NoneAsked

-----------------------------------------------------------------------------
(* Twoshots.  An application is live while both its ends know of it; marks *)
(* with one end only are left behind and count for nothing.                *)
Going(p) == asked[p] # Nobody /\ askedBy[asked[p]] = p
Coming(p) == askedBy[p] # Nobody /\ asked[askedBy[p]] = p

(* Nobody asks themselves or has two live applications, two people never   *)
(* have each other down for the same end of one, and whoever is not here   *)
(* has no mark.                                                            *)
OneQuestion ==
  \A p \in Players :
    /\ asked[p] # p /\ askedBy[p] # p
    /\ ~ (Going(p) /\ Coming(p))
    /\ p \notin online => asked[p] = Nobody /\ askedBy[p] = Nobody
    /\ asked[p] # Nobody => asked[asked[p]] # p
    /\ askedBy[p] # Nobody => askedBy[askedBy[p]] # p

(* A twoshot is two people's, they are here and have no live application,  *)
(* and its screen is up for just them.                                     *)
Together ==
  /\ facing \subseteq Players
  /\ \A p \in Players :
       /\ p \in facing <=> partner[p] # Nobody
       /\ partner[p] # Nobody =>
            /\ p \in online /\ partner[p] # p /\ partner[partner[p]] = p
            /\ ~ Going(p) /\ ~ Coming(p)

Marks(f) == f \in [Players -> Players \cup {Nobody}]
MarksTyped == Marks(asked) /\ Marks(askedBy) /\ Marks(partner)

TwoshotsInv == MarksTyped /\ OneQuestion /\ Together

LEMMA TwoshotsShown ==
  ASSUME TwoshotsInv
  PROVE  TwoshotsTypeOK /\ TwoshotsPaired
<1>1. TwoshotsTypeOK
  BY DEF TwoshotsInv, MarksTyped, Marks, Together, TwoshotsTypeOK
<1>2. ASSUME NEW p \in Players, partner[p] # Nobody
      PROVE  StillAsked(Players)[p] = Nobody /\ StillAskedBy(Players)[p] = Nobody
  <2>1. ~ Going(p) /\ ~ Coming(p)
    BY <1>2 DEF TwoshotsInv, Together
  <2> QED BY <2>1 DEF Going, Coming, StillAsked, StillAskedBy
<1>3. TwoshotsPaired
  BY <1>2 DEF TwoshotsInv, Together, TwoshotsPaired
<1> QED BY <1>1, <1>3

LEMMA TwoshotsStart == TwoshotsInit => TwoshotsInv
BY OnlineAssumption
   DEF TwoshotsInit, TwoshotsInv, MarksTyped, Marks, OneQuestion, Together, Going, Coming, NoneAsked

(* Whoever has dropped a stale mark has lost no live application, and what *)
(* is left in the tables of the two is live.                               *)
LEMMA StillThere ==
  ASSUME MarksTyped, OneQuestion, NEW who, NEW p \in Players
  PROVE  /\ StillAsked(who)[p] \in {asked[p], Nobody}
         /\ StillAskedBy(who)[p] \in {askedBy[p], Nobody}
         /\ p \in who => /\ StillAsked(who)[p] # Nobody <=> Going(p)
                         /\ StillAskedBy(who)[p] # Nobody <=> Coming(p)
         /\ Going(p) => StillAsked(who)[p] = asked[p]
         /\ Coming(p) => StillAskedBy(who)[p] = askedBy[p]
<1>1. /\ Going(p) => asked[p] \in online
      /\ Coming(p) => askedBy[p] \in online
  BY OnlineAssumption DEF Going, Coming, OneQuestion, MarksTyped, Marks
<1> QED BY <1>1 DEF Going, Coming, StillAsked, StillAskedBy

(* Marks that go, and nothing that comes.                                  *)
Fewer(f) == Marks(f') /\ \A p \in Players : f'[p] \in {f[p], Nobody}

LEMMA FewerAsked ==
  ASSUME MarksTyped, OneQuestion, Fewer(asked), Fewer(askedBy),
         \A p \in Players : p \in online \ online' => asked'[p] = Nobody /\ askedBy'[p] = Nobody
  PROVE  /\ OneQuestion'
         /\ \A p \in Players : (Going(p)' => Going(p)) /\ (Coming(p)' => Coming(p))
<1>1. \A p \in Players : (Going(p)' => Going(p)) /\ (Coming(p)' => Coming(p))
  BY OnlineAssumption DEF Going, Coming, Fewer, Marks, MarksTyped
<1>2. ASSUME NEW p \in Players
      PROVE  /\ asked'[p] # p /\ askedBy'[p] # p
             /\ p \notin online' => asked'[p] = Nobody /\ askedBy'[p] = Nobody
             /\ asked'[p] # Nobody => asked'[asked'[p]] # p
             /\ askedBy'[p] # Nobody => askedBy'[askedBy'[p]] # p
  BY OnlineAssumption DEF OneQuestion, Fewer, Marks, MarksTyped
<1> QED BY <1>1, <1>2 DEF OneQuestion

(* Applications end, the twoshots stay.                                    *)
LEMMA ApplicationsEnd ==
  ASSUME TwoshotsInv, Fewer(asked), Fewer(askedBy), UNCHANGED <<partner, facing, online>>
  PROVE  TwoshotsInv'
<1>1. MarksTyped' /\ OneQuestion'
  BY FewerAsked DEF TwoshotsInv, MarksTyped, Fewer
<1>2. \A p \in Players : (Going(p)' => Going(p)) /\ (Coming(p)' => Coming(p))
  BY FewerAsked DEF TwoshotsInv
<1>3. Together'
  BY <1>2 DEF TwoshotsInv, Together
<1> QED BY <1>1, <1>3 DEF TwoshotsInv

(* Some people's marks are all taken, whole twoshots at a time.            *)
LEMMA Taken ==
  ASSUME TwoshotsInv, Fewer(asked), Fewer(askedBy), NEW who \in SUBSET Players,
         \A p \in who : asked'[p] = Nobody /\ askedBy'[p] = Nobody,
         partner' = Emptied(partner, who), facing' = facing \ who,
         \A p \in who : partner[p] # Nobody => partner[p] \in who,
         online' \subseteq online, online \subseteq online' \cup who
  PROVE  TwoshotsInv'
<1>1. Marks(partner') /\ \A p \in Players : partner'[p] = IF p \in who THEN Nobody ELSE partner[p]
  BY DEF Emptied, TwoshotsInv, MarksTyped, Marks
<1>2. \A p \in Players : p \in online \ online' => asked'[p] = Nobody /\ askedBy'[p] = Nobody
  OBVIOUS
<1>3. MarksTyped' /\ OneQuestion'
  BY <1>1, <1>2, FewerAsked DEF TwoshotsInv, MarksTyped, Fewer
<1>4. \A p \in Players : (Going(p)' => Going(p)) /\ (Coming(p)' => Coming(p))
  BY <1>2, FewerAsked DEF TwoshotsInv
<1>5. ASSUME NEW p \in Players
      PROVE  /\ p \in facing' <=> partner'[p] # Nobody
             /\ partner'[p] # Nobody =>
                  /\ p \in online' /\ partner'[p] # p /\ partner'[partner'[p]] = p
                  /\ ~ Going(p)' /\ ~ Coming(p)'
  <2>1. p \in facing' <=> partner'[p] # Nobody
    BY <1>1 DEF TwoshotsInv, Together
  <2>2. ASSUME partner'[p] # Nobody
        PROVE  /\ p \in online' /\ partner'[p] # p /\ partner'[partner'[p]] = p
               /\ ~ Going(p)' /\ ~ Coming(p)'
    <3>1. p \notin who /\ partner'[p] = partner[p] /\ partner[p] # Nobody
      BY <1>1, <2>2
    <3>2. /\ p \in online /\ partner[p] # p /\ partner[partner[p]] = p /\ partner[p] \in Players
          /\ ~ Going(p) /\ ~ Coming(p)
      BY <3>1 DEF TwoshotsInv, Together, MarksTyped, Marks
    <3>3. partner[p] \notin who
      BY <3>1, <3>2, OnlineAssumption
    <3> QED BY <1>1, <1>4, <3>1, <3>2, <3>3
  <2> QED BY <2>1, <2>2
<1>6. Together'
  BY <1>5 DEF Together, TwoshotsInv
<1> QED BY <1>3, <1>6 DEF TwoshotsInv

LEMMA TwoshotsStep ==
  ASSUME TwoshotsInv, TwoshotsNext, UNCHANGED online
  PROVE  TwoshotsInv'
<1> USE OnlineAssumption
<1>1. /\ MarksTyped /\ OneQuestion /\ Together
      /\ Marks(asked) /\ Marks(askedBy) /\ Marks(partner)
  BY DEF TwoshotsInv, MarksTyped
<1>2. PICK c \in Players :
        \/ \E target \in Players : TwoshotRequest(c, target) \/ TwoshotInVain(c, target)
        \/ \E yes \in BOOLEAN : TwoshotResponse(c, yes)
        \/ TwoshotCancel(c) \/ TwoshotEnd(c)
  BY DEF TwoshotsNext
<1>3. ASSUME NEW who
      PROVE  /\ Marks(StillAsked(who)) /\ Marks(StillAskedBy(who))
             /\ \A p \in Players : /\ StillAsked(who)[p] \in {asked[p], Nobody}
                                   /\ StillAskedBy(who)[p] \in {askedBy[p], Nobody}
  BY <1>1 DEF StillAsked, StillAskedBy, Marks
<1>4. ASSUME NEW target \in Players, TwoshotInVain(c, target) PROVE TwoshotsInv'
  <2>1. Fewer(asked) /\ Fewer(askedBy)
    BY <1>3, <1>4 DEF TwoshotInVain, Fewer
  <2> QED BY <1>4, <2>1, ApplicationsEnd DEF TwoshotInVain
<1>5. CASE TwoshotCancel(c)
  <2>1. Fewer(asked) /\ Fewer(askedBy)
    BY <1>3, <1>5 DEF TwoshotCancel, Fewer, Marks
  <2> QED BY <1>5, <2>1, ApplicationsEnd DEF TwoshotCancel
<1>6. CASE TwoshotEnd(c)
  <2> DEFINE other == partner[c]
             mutual == other # Nobody /\ other \in online /\ partner[other] = c
             both == IF mutual THEN {c, other} ELSE {c}
  <2>1. /\ asked' = Emptied(StillAsked({c}), both) /\ askedBy' = Emptied(StillAskedBy({c}), both)
        /\ partner' = Emptied(partner, both)
        /\ facing' = IF mutual THEN facing \ both ELSE facing
    BY <1>6 DEF TwoshotEnd
  <2>2. other # Nobody => mutual /\ other \in Players
    BY <1>1 DEF Together, Marks
  <2>3. both \in SUBSET Players
    BY <2>2
  <2>4. facing' = facing \ both
    BY <1>1, <2>1, <2>2 DEF Together
  <2>5. \A p \in both : partner[p] # Nobody => partner[p] \in both
    BY <2>2
  <2> HIDE DEF both
  <2>6. Fewer(asked) /\ Fewer(askedBy)
    BY <1>3, <2>1 DEF Fewer, Emptied, Marks
  <2>7. \A p \in both : asked'[p] = Nobody /\ askedBy'[p] = Nobody
    BY <2>1, <2>3 DEF Emptied
  <2> QED BY <2>1, <2>3, <2>4, <2>5, <2>6, <2>7, Taken
<1>7. ASSUME NEW yes \in BOOLEAN, TwoshotResponse(c, yes) PROVE TwoshotsInv'
  <2>1. StillAskedBy({c})[c] = askedBy[c] /\ Coming(c) /\ c \in online
    BY <1>1, <1>7, StillThere DEF TwoshotResponse
  <2>2. PICK asker \in Players : /\ asker = askedBy[c] /\ asker # c
                                 /\ asked[asker] = c /\ Going(asker)
    BY <1>1, <2>1 DEF Coming, Going, Marks, OneQuestion
  <2>3. /\ asked' = [StillAsked({c}) EXCEPT ![asker] = Nobody]
        /\ askedBy' = [StillAskedBy({c}) EXCEPT ![c] = Nobody]
        /\ \/ /\ partner' = [partner EXCEPT ![c] = asker, ![asker] = c]
              /\ facing' = facing \cup {c, asker}
           \/ UNCHANGED <<partner, facing>>
    BY <1>7, <2>1, <2>2 DEF TwoshotResponse
  <2>4. Fewer(asked) /\ Fewer(askedBy)
    BY <1>3, <2>2, <2>3 DEF Fewer, Marks
  <2>5. CASE UNCHANGED <<partner, facing>>
    BY <2>4, <2>5, ApplicationsEnd
  <2>6. CASE /\ partner' = [partner EXCEPT ![c] = asker, ![asker] = c]
             /\ facing' = facing \cup {c, asker}
    <3>1. OneQuestion' /\ \A p \in Players : (Going(p)' => Going(p)) /\ (Coming(p)' => Coming(p))
      BY <1>1, <2>4, FewerAsked
    <3>2. /\ Marks(partner') /\ partner'[c] = asker /\ partner'[asker] = c
          /\ \A p \in Players \ {c, asker} : partner'[p] = partner[p]
      BY <1>1, <2>2, <2>6 DEF Marks
    <3>3. partner[c] = Nobody /\ partner[asker] = Nobody
      BY <1>1, <2>1, <2>2 DEF Together
    <3>4. /\ asked'[asker] = Nobody /\ askedBy'[c] = Nobody
          /\ ~ Going(c) /\ ~ Coming(asker)
      BY <1>1, <1>3, <2>1, <2>2, <2>3 DEF Marks, OneQuestion
    <3>5. ~ Going(c)' /\ ~ Coming(c)' /\ ~ Going(asker)' /\ ~ Coming(asker)'
      <4>1. ~ Coming(c)' /\ ~ Going(asker)'
        BY <3>4 DEF Coming, Going
      <4>2. ~ Going(c)' /\ ~ Coming(asker)'
        BY <2>2, <3>1, <3>4
      <4> QED BY <4>1, <4>2
    <3>6. asker \in online
      BY <1>1, <2>1, <2>2 DEF OneQuestion
    <3>7. ASSUME NEW p \in Players
          PROVE  /\ p \in facing' <=> partner'[p] # Nobody
                 /\ partner'[p] # Nobody =>
                      /\ p \in online' /\ partner'[p] # p /\ partner'[partner'[p]] = p
                      /\ ~ Going(p)' /\ ~ Coming(p)'
      <4>1. CASE p \in {c, asker}
        BY <2>1, <2>2, <2>6, <3>2, <3>5, <3>6, <4>1
      <4>2. CASE p \notin {c, asker}
        <5>1. partner'[p] = partner[p] /\ (p \in facing' <=> p \in facing)
          BY <2>6, <3>2, <4>2
        <5>2. partner[p] # Nobody => /\ p \in online /\ partner[p] # p /\ partner[partner[p]] = p
                                     /\ ~ Going(p) /\ ~ Coming(p) /\ partner[p] \in Players
          BY <1>1 DEF Together, Marks
        <5>3. partner[p] # Nobody => partner[p] \notin {c, asker}
          BY <3>3, <5>2
        <5> QED BY <1>1, <3>1, <3>2, <5>1, <5>2, <5>3 DEF Together
      <4> QED BY <4>1, <4>2
    <3>8. Together'
      BY <1>1, <2>2, <2>6, <3>7 DEF Together
    <3> QED BY <2>4, <3>1, <3>2, <3>8 DEF TwoshotsInv, MarksTyped, Fewer
  <2> QED BY <2>3, <2>5, <2>6
<1>8. ASSUME NEW target \in Players, TwoshotRequest(c, target) PROVE TwoshotsInv'
  <2> DEFINE two == {c, target}
  <2>1. /\ c \in online /\ target \in online /\ target # c
        /\ asked' = [StillAsked(two) EXCEPT ![c] = target]
        /\ askedBy' = [StillAskedBy(two) EXCEPT ![target] = c]
        /\ UNCHANGED <<partner, facing>>
        /\ \A p \in two : /\ partner[p] = Nobody /\ StillAsked(two)[p] = Nobody
                          /\ StillAskedBy(two)[p] = Nobody
    BY <1>8 DEF TwoshotRequest, TwoshotFree
  <2>2. /\ Marks(asked') /\ Marks(askedBy')
        /\ asked'[c] = target /\ asked'[target] = Nobody
        /\ askedBy'[target] = c /\ askedBy'[c] = Nobody
        /\ \A p \in Players \ two : asked'[p] = asked[p] /\ askedBy'[p] = askedBy[p]
    <3>1. \A p \in Players \ two : StillAsked(two)[p] = asked[p] /\ StillAskedBy(two)[p] = askedBy[p]
      BY DEF StillAsked, StillAskedBy
    <3> QED BY <1>3, <2>1, <3>1 DEF Marks
  <2>3. partner[c] = Nobody /\ partner[target] = Nobody
    BY <2>1
  <2>4. ASSUME NEW p \in Players \ two
        PROVE  (Going(p)' => Going(p)) /\ (Coming(p)' => Coming(p))
    <3>1. /\ asked'[p] = asked[p] /\ askedBy'[p] = askedBy[p] /\ p # c /\ p # target
          /\ asked[p] \in Players \cup {Nobody} /\ askedBy[p] \in Players \cup {Nobody}
      BY <1>1, <2>2 DEF Marks
    <3>2. ASSUME NEW x \in Players, askedBy'[x] = p PROVE askedBy[x] = p
      BY <2>1, <2>2, <3>1, <3>2
    <3>3. ASSUME NEW x \in Players, asked'[x] = p PROVE asked[x] = p
      BY <2>1, <2>2, <3>1, <3>3
    <3> QED BY <3>1, <3>2, <3>3 DEF Going, Coming
  <2>5. ~ Coming(c)' /\ ~ Going(target)'
    BY <2>2 DEF Coming, Going
  <2>6. ASSUME NEW p \in Players
        PROVE  /\ asked'[p] # p /\ askedBy'[p] # p
               /\ p \notin online' => asked'[p] = Nobody /\ askedBy'[p] = Nobody
               /\ asked'[p] # Nobody => asked'[asked'[p]] # p
               /\ askedBy'[p] # Nobody => askedBy'[askedBy'[p]] # p
    <3>1. CASE p \in two
      BY <2>1, <2>2, <3>1
    <3>2. CASE p \notin two
      BY <1>1, <2>1, <2>2, <3>2 DEF OneQuestion, Marks
    <3> QED BY <3>1, <3>2
  <2>7. OneQuestion'
    <3>1. ASSUME NEW p \in Players PROVE ~ (Going(p)' /\ Coming(p)')
      BY <1>1, <2>4, <2>5 DEF OneQuestion
    <3> QED BY <2>6, <3>1 DEF OneQuestion
  <2>8. Together'
    <3>1. ASSUME NEW p \in Players, partner[p] # Nobody
          PROVE  ~ Going(p)' /\ ~ Coming(p)'
      <4>1. p \notin two
        BY <2>3, <3>1
      <4> QED BY <1>1, <2>4, <3>1, <4>1 DEF Together
    <3> QED BY <1>1, <2>1, <3>1 DEF Together
  <2> QED BY <1>1, <2>1, <2>2, <2>7, <2>8 DEF TwoshotsInv, MarksTyped
<1> QED BY <1>2, <1>4, <1>5, <1>6, <1>7, <1>8

(* A lost connection takes its own twoshot and what was tied to it.  Two    *)
(* people who have each other down in any two ways have one live           *)
(* application between them or are together, so nobody who is freed leaves *)
(* a partner behind.                                                       *)
LEMMA TwoshotsGo ==
  ASSUME TwoshotsInv, World, NEW c \in Players, TwoshotGone(c), online' = online \ {c}
  PROVE  TwoshotsInv'
<1> USE OnlineAssumption
<1> DEFINE over == {c} \cup Freed(c)
<1>1. /\ MarksTyped /\ OneQuestion /\ Together
      /\ Marks(asked) /\ Marks(askedBy) /\ Marks(partner)
  BY DEF TwoshotsInv, MarksTyped
<1>2. /\ asked' = Emptied(asked, over) /\ askedBy' = Emptied(askedBy, over)
      /\ partner' = Emptied(partner, over) /\ facing' = facing \ ({c} \cup (over \cap {partner[c]}))
  BY DEF TwoshotGone
<1>3. over \in SUBSET Players
  BY <1>1 DEF Freed, World
<1>4. ASSUME NEW q \in Freed(c), partner[q] # Nobody
      PROVE  partner[q] = c
  <2>1. q \in Players /\ q \in {partner[c], asked[c], askedBy[c]} /\ c \in {partner[q], asked[q], askedBy[q]}
    BY <1>1 DEF Freed, World
  <2>2. SUFFICES ASSUME partner[q] # c PROVE FALSE
    OBVIOUS
  <2>3. ~ Going(q) /\ ~ Coming(q)
    BY <1>1, <1>4, <2>1 DEF Together
  <2>4. partner[c] # q
    BY <1>1, <2>1, <2>2 DEF Together
  <2>5. CASE asked[c] = q
    BY <1>1, <2>1, <2>2, <2>3, <2>5 DEF OneQuestion, Coming
  <2>6. CASE askedBy[c] = q
    BY <1>1, <2>1, <2>2, <2>3, <2>6 DEF OneQuestion, Going
  <2> QED BY <2>1, <2>4, <2>5, <2>6
<1>5. partner[c] # Nobody => partner[c] \in Freed(c)
  BY <1>1 DEF Together, Freed, Marks
<1>6. \A p \in over : partner[p] # Nobody => partner[p] \in over
  BY <1>4, <1>5
<1>7. facing' = facing \ over
  <2>1. ASSUME NEW q \in Freed(c), q \in facing PROVE q = partner[c]
    <3>1. q \in Players /\ partner[q] # Nobody
      BY <1>1, <2>1 DEF Together
    <3>2. partner[q] = c
      BY <1>4, <3>1
    <3> QED BY <1>1, <3>1, <3>2 DEF Together
  <2> QED BY <1>2, <2>1
<1> HIDE DEF over
<1>8. Fewer(asked) /\ Fewer(askedBy)
  BY <1>1, <1>2 DEF Fewer, Marks, Emptied
<1>9. \A p \in over : asked'[p] = Nobody /\ askedBy'[p] = Nobody
  BY <1>2, <1>3 DEF Emptied
<1>10. online' \subseteq online /\ online \subseteq online' \cup over
  BY DEF over
<1> QED BY <1>2, <1>3, <1>6, <1>7, <1>8, <1>9, <1>10, Taken

LEMMA TwoshotsDie ==
  ASSUME TwoshotsInv, TwoshotsCrash
  PROVE  TwoshotsInv'
BY OnlineAssumption
   DEF TwoshotsCrash, TwoshotsInv, MarksTyped, Marks, OneQuestion, Together, Going, Coming, NoneAsked

LEMMA TwoshotsArrive ==
  ASSUME TwoshotsInv, UNCHANGED twoshotVars, online \subseteq online'
  PROVE  TwoshotsInv'
BY DEF twoshotVars, TwoshotsInv, MarksTyped, Marks, OneQuestion, Together, Going, Coming

-----------------------------------------------------------------------------
(* Groups: the questions.  One kind of question has a table of whom each   *)
(* asks, `to`, and one of who asked each, `from`.                          *)
Backed(to, from, here) ==
  /\ Marks(to) /\ Marks(from)
  /\ \A c \in Players : from[c] # Nobody =>
       c \in here /\ from[c] \in here /\ to[from[c]] = c

Questions == Backed(invited, inviter, online) /\ Backed(handTo, handFrom, online)

LEMMA QuestionsParts ==
  Questions <=> /\ Marks(invited) /\ Marks(inviter) /\ Marks(handTo) /\ Marks(handFrom)
                /\ QuestionsAreBacked
BY DEF Questions, Backed, QuestionsAreBacked

(* Marks may go at either end, as long as no question is left at the end    *)
(* of the asked when the asker no longer has it.                           *)
Dropped(to, from, to2, from2, here2) ==
  /\ Marks(to2) /\ Marks(from2)
  /\ \A c \in Players : from2[c] # Nobody =>
       /\ from2[c] = from[c] /\ to2[from[c]] = to[from[c]]
       /\ c \in here2 /\ from[c] \in here2

LEMMA DropKeeps ==
  ASSUME NEW to, NEW from, NEW to2, NEW from2, NEW here, NEW here2,
         Backed(to, from, here), Dropped(to, from, to2, from2, here2)
  PROVE  Backed(to2, from2, here2)
BY DEF Backed, Dropped

(* The two teardowns, on either kind of question: `back` and `forth` are    *)
(* the other kind's tables, which one of them looks into as well.          *)
LEMMA HandshakesKeep ==
  ASSUME NEW to, NEW from, NEW back, NEW forth, NEW who \in SUBSET Players, NEW here,
         Backed(to, from, here)
  PROVE  Dropped(to, from, Emptied(to, Matched(to, from, back, who)),
                 Emptied(from, Matched(from, to, forth, who)), here \ who)
<1> USE OnlineAssumption
<1>1. Marks(to) /\ Marks(from)
  BY DEF Backed
<1> DEFINE to2 == Emptied(to, Matched(to, from, back, who))
           from2 == Emptied(from, Matched(from, to, forth, who))
<1>2. Marks(to2) /\ Marks(from2)
  BY <1>1 DEF Emptied, Marks
<1>3. ASSUME NEW c \in Players, from2[c] # Nobody
      PROVE  /\ from2[c] = from[c] /\ to2[from[c]] = to[from[c]]
             /\ c \in here \ who /\ from[c] \in here \ who
  <2>1. c \notin Matched(from, to, forth, who) /\ from2[c] = from[c]
    BY <1>3 DEF Emptied
  <2>2. /\ from[c] \in Players /\ c \in here /\ from[c] \in here /\ to[from[c]] = c
    BY <1>1, <1>3, <2>1 DEF Backed, Marks
  <2>3. c \notin who /\ from[c] \notin who
    BY <2>1, <2>2 DEF Matched
  <2>4. from[c] \notin Matched(to, from, back, who)
    BY <2>2, <2>3 DEF Matched
  <2>5. to2[from[c]] = to[from[c]]
    BY <2>2, <2>4 DEF Emptied
  <2> QED BY <2>1, <2>2, <2>3, <2>5
<1> HIDE DEF to2, from2
<1> QED BY <1>2, <1>3 DEF Dropped, to2, from2

LEMMA DroppedFurther ==
  ASSUME NEW to, NEW from, NEW to2, NEW from2, NEW here, NEW here2, here \subseteq here2,
         Dropped(to, from, to2, from2, here)
  PROVE  Dropped(to, from, to2, from2, here2)
BY DEF Dropped

(* A mark of somebody who is here is fresh, and no question names others.  *)
LEMMA FreshKeeps ==
  ASSUME NEW to, NEW from, NEW who, Backed(to, from, online)
  PROVE  Dropped(to, from, Fresh(to, who), Fresh(from, who), online)
<1>1. Marks(Fresh(to, who)) /\ Marks(Fresh(from, who))
  BY DEF Backed, Fresh, Marks
<1>2. ASSUME NEW c \in Players, Fresh(from, who)[c] # Nobody
      PROVE  /\ Fresh(from, who)[c] = from[c] /\ Fresh(to, who)[from[c]] = to[from[c]]
             /\ c \in online /\ from[c] \in online
  <2>1. Fresh(from, who)[c] = from[c] /\ from[c] # Nobody
    BY <1>2 DEF Fresh
  <2>2. from[c] \in Players /\ c \in online /\ from[c] \in online /\ to[from[c]] = c
    BY <2>1 DEF Backed, Marks
  <2>3. Fresh(to, who)[from[c]] = to[from[c]]
    BY <2>2 DEF Fresh
  <2> QED BY <2>1, <2>2, <2>3
<1> QED BY <1>1, <1>2 DEF Dropped

(* A question asked of somebody who has none from anybody that is here.    *)
LEMMA AskedKeeps ==
  ASSUME NEW to, NEW from, NEW c \in online \cap Players, NEW t \in online \cap Players,
         Backed(to, from, online),
         Fresh(to, {c})[c] = Nobody, Fresh(from, {t})[t] = Nobody
  PROVE  Backed([Fresh(to, {c, t}) EXCEPT ![c] = t], [Fresh(from, {c, t}) EXCEPT ![t] = c], online)
<1> USE OnlineAssumption
<1> DEFINE to1 == Fresh(to, {c, t})
           from1 == Fresh(from, {c, t})
           to2 == [to1 EXCEPT ![c] = t]
           from2 == [from1 EXCEPT ![t] = c]
<1>1. Backed(to1, from1, online)
  BY FreshKeeps, DropKeeps
<1>2. Marks(to) /\ Marks(from) /\ Marks(to1) /\ Marks(from1)
  BY <1>1 DEF Backed
<1>3. to1[c] = Nobody
  BY <1>2 DEF Fresh, Marks
<1> HIDE DEF to1, from1
<1>4. /\ Marks(to2) /\ Marks(from2) /\ to2[c] = t /\ from2[t] = c
      /\ \A p \in Players \ {c} : to2[p] = to1[p]
      /\ \A p \in Players \ {t} : from2[p] = from1[p]
  BY <1>2 DEF Marks
<1>5. ASSUME NEW p \in Players, from2[p] # Nobody
      PROVE  p \in online /\ from2[p] \in online /\ to2[from2[p]] = p
  <2>1. CASE p = t
    BY <1>4, <2>1
  <2>2. CASE p # t
    <3>1. from2[p] = from1[p] /\ from1[p] # Nobody
      BY <1>4, <1>5, <2>2
    <3>2. from1[p] \in Players /\ p \in online /\ from1[p] \in online /\ to1[from1[p]] = p
      BY <1>1, <1>2, <3>1 DEF Backed, Marks
    <3>3. from1[p] # c
      BY <1>3, <3>2
    <3> QED BY <1>4, <3>1, <3>2, <3>3
  <2> QED BY <2>1, <2>2
<1> HIDE DEF to2, from2
<1>6. Backed(to2, from2, online)
  BY <1>4, <1>5 DEF Backed
<1> QED BY <1>6 DEF to2, from2, to1, from1

(* Answered at the end of the asked, whether or not the asker's end is      *)
(* cleared with it; and withdrawn.                                         *)
LEMMA AnswerKeeps ==
  ASSUME NEW to, NEW from, NEW c \in Players, NEW here, Backed(to, from, here), from[c] # Nobody
  PROVE  /\ Backed(to, [from EXCEPT ![c] = Nobody], here)
         /\ Backed([to EXCEPT ![from[c]] = Nobody], [from EXCEPT ![c] = Nobody], here)
<1> USE OnlineAssumption
<1> DEFINE from2 == [from EXCEPT ![c] = Nobody]
           to2 == [to EXCEPT ![from[c]] = Nobody]
<1>1. Marks(to) /\ Marks(from) /\ from[c] \in Players /\ to[from[c]] = c
  BY DEF Backed, Marks
<1>2. /\ Marks(from2) /\ from2[c] = Nobody /\ \A p \in Players \ {c} : from2[p] = from[p]
  BY <1>1 DEF Marks
<1>3. /\ Marks(to2) /\ \A p \in Players \ {from[c]} : to2[p] = to[p]
  BY <1>1 DEF Marks
<1> HIDE DEF to2, from2
<1>4. ASSUME NEW p \in Players, from2[p] # Nobody
      PROVE  /\ from2[p] = from[p] /\ p \in here /\ from[p] \in here /\ to[from[p]] = p
             /\ to2[from[p]] = p
  <2>1. from2[p] = from[p] /\ p # c
    BY <1>2, <1>4
  <2>2. from[p] \in Players /\ p \in here /\ from[p] \in here /\ to[from[p]] = p
    BY <1>1, <1>4, <2>1 DEF Backed, Marks
  <2>3. from[p] # from[c]
    BY <1>1, <2>1, <2>2
  <2> QED BY <1>3, <2>1, <2>2, <2>3
<1>5. Backed(to, from2, here) /\ Backed(to2, from2, here)
  BY <1>1, <1>2, <1>3, <1>4 DEF Backed
<1> QED BY <1>5 DEF from2, to2

LEMMA WithdrawKeeps ==
  ASSUME NEW to, NEW from, NEW c \in Players, NEW here, Backed(to, from, here), to[c] # Nobody
  PROVE  Backed([to EXCEPT ![c] = Nobody], [from EXCEPT ![to[c]] = Nobody], here)
<1> USE OnlineAssumption
<1> DEFINE from2 == [from EXCEPT ![to[c]] = Nobody]
           to2 == [to EXCEPT ![c] = Nobody]
<1>1. Marks(to) /\ Marks(from) /\ to[c] \in Players
  BY DEF Backed, Marks
<1>2. /\ Marks(from2) /\ from2[to[c]] = Nobody /\ \A p \in Players \ {to[c]} : from2[p] = from[p]
  BY <1>1 DEF Marks
<1>3. /\ Marks(to2) /\ \A p \in Players \ {c} : to2[p] = to[p]
  BY <1>1 DEF Marks
<1> HIDE DEF to2, from2
<1>4. ASSUME NEW p \in Players, from2[p] # Nobody
      PROVE  p \in here /\ from2[p] \in here /\ to2[from2[p]] = p
  <2>1. from2[p] = from[p] /\ p # to[c]
    BY <1>2, <1>4
  <2>2. from[p] \in Players /\ p \in here /\ from[p] \in here /\ to[from[p]] = p
    BY <1>1, <1>4, <2>1 DEF Backed, Marks
  <2>3. from[p] # c
    BY <2>1, <2>2
  <2> QED BY <1>3, <2>1, <2>2, <2>3
<1>5. Backed(to2, from2, here)
  BY <1>2, <1>3, <1>4 DEF Backed
<1> QED BY <1>5 DEF from2, to2

LEMMA NobodyAsked ==
  ASSUME NEW here
  PROVE  Backed(NoneAsked, NoneAsked, here)
BY DEF Backed, Marks, NoneAsked

LEMMA MatchedEitherWay ==
  ASSUME NEW f, NEW back1, NEW back2, NEW who
  PROVE  Matched(f, back1, back2, who) = Matched(f, back2, back1, who)
BY DEF Matched

LEMMA HandshakesGo ==
  ASSUME Questions, NEW who \in SUBSET Players, HandshakesDropped(who), UNCHANGED online
  PROVE  Questions'
<1>1. Dropped(invited, inviter, invited', inviter', online \ who)
  BY HandshakesKeep DEF Questions, HandshakesDropped
<1>2. Dropped(handTo, handFrom, handTo', handFrom', online \ who)
  <2>1. /\ handTo' = Emptied(handTo, Matched(handTo, handFrom, inviter, who))
        /\ handFrom' = Emptied(handFrom, Matched(handFrom, handTo, invited, who))
    BY MatchedEitherWay DEF HandshakesDropped
  <2>2. Backed(handTo, handFrom, online)
    BY DEF Questions
  <2> QED BY <2>1, <2>2, HandshakesKeep
<1>3. /\ Dropped(invited, inviter, invited', inviter', online)
      /\ Dropped(handTo, handFrom, handTo', handFrom', online)
  BY <1>1, <1>2, DroppedFurther
<1> QED BY <1>3, DropKeeps DEF Questions

LEMMA ApplicationsGo ==
  ASSUME Questions, NEW c \in Players, ApplicationsGone(c), online' = online \ {c}
  PROVE  Questions'
<1>1. {c} \in SUBSET Players
  OBVIOUS
<1>2. Backed(invited, inviter, online) /\ Backed(handTo, handFrom, online)
  BY DEF Questions
<1>3. Dropped(invited, inviter, invited', inviter', online \ {c})
  BY <1>1, <1>2, HandshakesKeep DEF ApplicationsGone
<1>4. Dropped(handTo, handFrom, handTo', handFrom', online \ {c})
  BY <1>1, <1>2, HandshakesKeep DEF ApplicationsGone
<1>5. Backed(invited', inviter', online \ {c}) /\ Backed(handTo', handFrom', online \ {c})
  BY <1>2, <1>3, <1>4, DropKeeps
<1> QED BY <1>5 DEF Questions

(* Groups: the rosters.                                                    *)
Roster == [leader : Players, members : SUBSET Players, public : BOOLEAN, clublike : BOOLEAN]

Sound(group) ==
  /\ group \in Roster /\ group.leader \in group.members
  /\ IsFiniteSet(group.members) /\ Cardinality(group.members) <= LimitOf(group)
  /\ group.clublike => group.public

Rosters ==
  /\ Ids \subseteq 1..MaxId
  /\ \A g \in Ids : Sound(groups[g]) /\ groups[g].members \subseteq exists
  /\ \A g, h \in Ids : g # h => groups[g].members \cap groups[h].members = {}

Rooms == bookings \subseteq [slot : Slots, group : 1..MaxId] /\ BookingsOwned

GroupsInv == Rosters /\ Rooms /\ resting \subseteq Players /\ Questions

LEMMA GroupsShown ==
  ASSUME GroupsInv
  PROVE  GroupsTypeOK /\ RostersAgree /\ BookingsOwned /\ QuestionsAreBacked
<1>1. RostersAgree
  BY DEF GroupsInv, Rosters, Sound, RostersAgree
<1>2. /\ invited \in [Players -> Players \cup {Nobody}] /\ inviter \in [Players -> Players \cup {Nobody}]
      /\ handTo \in [Players -> Players \cup {Nobody}] /\ handFrom \in [Players -> Players \cup {Nobody}]
      /\ QuestionsAreBacked
  BY QuestionsParts DEF GroupsInv, Marks
<1>3. \A g \in Ids : groups[g] \in Roster
  BY DEF GroupsInv, Rosters, Sound
<1>4. GroupsTypeOK
  BY <1>2, <1>3 DEF GroupsInv, Rosters, Rooms, Roster, GroupsTypeOK
<1> QED BY <1>1, <1>2, <1>4 DEF GroupsInv, Rooms

(* A set of numbers has a least, and one with a bound a greatest.          *)
LEMMA Least ==
  ASSUME NEW S \in SUBSET Nat, S # {}
  PROVE  \E n \in S : \A m \in S : n <= m
<1> DEFINE R == {pair \in Nat \X Nat : pair[1] < pair[2]}
<1>1. IsWellFoundedOn(R, Nat)
  BY NatLessThanWellFounded DEF OpToRel
<1>2. \A a, b \in Nat : a < b => <<a, b>> \in R
  OBVIOUS
<1> HIDE DEF R
<1>3. PICK n \in S : \A m \in S : ~ (<<m, n>> \in R)
  BY <1>1, WFMin
<1>4. \A m \in S : ~ (m < n)
  BY <1>2, <1>3
<1> QED BY <1>4

LEMMA Greatest ==
  ASSUME NEW S \in SUBSET Nat, S # {}, NEW top \in Nat, \A n \in S : n <= top
  PROVE  \E n \in S : \A m \in S : m <= n
<1> DEFINE T == {top - n : n \in S}
<1>1. T \in SUBSET Nat
  <2>1. ASSUME NEW n \in S PROVE top - n \in Nat
    OBVIOUS
  <2> QED BY <2>1
<1>2. T # {}
  <2>1. PICK n \in S : TRUE
    OBVIOUS
  <2>2. top - n \in T
    OBVIOUS
  <2> QED BY <2>2
<1>3. PICK t \in T : \A u \in T : t <= u
  <2> HIDE DEF T
  <2> QED BY <1>1, <1>2, Least
<1>4. PICK n \in S : t = top - n
  OBVIOUS
<1>5. \A m \in S : t <= top - m
  BY <1>3
<1> QED BY <1>4, <1>5

(* The id a group is founded under is new.                                 *)
LEMMA MintIsNew ==
  ASSUME Rosters
  PROVE  Mint \notin Ids /\ Mint \in Nat \ {0}
<1>1. Ids \subseteq 1..MaxId /\ MaxId \in Nat
  BY GroupsAssumption DEF Rosters
<1>2. CASE Ids = {}
  BY <1>2 DEF Mint
<1>3. CASE Ids # {}
  <2>1. \E g \in Ids : \A h \in Ids : h <= g
    <3>1. Ids \in SUBSET Nat /\ \A h \in Ids : h <= MaxId
      BY <1>1
    <3> QED BY <1>1, <1>3, <3>1, Greatest
  <2> DEFINE top == CHOOSE g \in Ids : \A h \in Ids : h <= g
  <2>2. top \in Ids /\ \A h \in Ids : h <= top
    BY <2>1
  <2>3. Mint = 1 + top
    BY <1>3 DEF Mint
  <2> HIDE DEF top
  <2> QED BY <1>1, <2>2, <2>3
<1> QED BY <1>2, <1>3

LEMMA RoomsStay ==
  ASSUME Rooms, UNCHANGED bookings, Ids \subseteq Ids'
  PROVE  Rooms'
BY DEF Rooms, BookingsOwned

(* The groups stay the groups they are but one, which stays sound.         *)
Fits(group, g) ==
  /\ Sound(group) /\ group.members \subseteq exists
  /\ \A h \in Ids \ {g} : group.members \cap groups[h].members = {}
Becomes(g, group) == groups' = [groups EXCEPT ![g] = group]

LEMMA OneChanges ==
  ASSUME Rosters, NEW g \in Ids, NEW group, Becomes(g, group), Fits(group, g), UNCHANGED exists
  PROVE  Rosters' /\ Ids' = Ids
<1>1. /\ Ids' = Ids /\ groups'[g] = group
      /\ \A h \in Ids \ {g} : groups'[h] = groups[h]
  BY DEF Ids, Becomes
<1>2. \A h \in Ids : Sound(groups[h]) /\ groups[h].members \subseteq exists
  BY DEF Rosters
<1>3. ASSUME NEW h \in Ids'
      PROVE  Sound(groups'[h]) /\ groups'[h].members \subseteq exists'
  BY <1>1, <1>2 DEF Fits
<1>4. ASSUME NEW h \in Ids', NEW k \in Ids', h # k
      PROVE  groups'[h].members \cap groups'[k].members = {}
  <2>1. groups[h].members \cap groups[k].members = {}
    BY <1>1, <1>4 DEF Rosters
  <2>2. CASE h = g
    BY <1>1, <1>4, <2>2 DEF Fits
  <2>3. CASE k = g
    BY <1>1, <1>4, <2>3 DEF Fits
  <2> QED BY <1>1, <1>4, <2>1, <2>2, <2>3
<1> QED BY <1>1, <1>3, <1>4 DEF Rosters, Sound, LimitOf

(* What the book writes into a group leaves it sound.                      *)
Opened(group, public) == [group EXCEPT !.public = public]
Raised(group) == [group EXCEPT !.clublike = TRUE, !.public = TRUE]
LedBy(group, c) == [group EXCEPT !.leader = c]
Enlarged(group, c) == [group EXCEPT !.members = @ \cup {c}]
Reduced(group, c) == [group EXCEPT !.members = @ \ {c}]

LEMMA MoreMembers ==
  ASSUME NEW group, NEW c \in Players, Sound(group),
         Cardinality(group.members) < LimitOf(group)
  PROVE  Sound(Enlarged(group, c))
<1> DEFINE more == Enlarged(group, c)
<1>1. /\ more \in Roster /\ more.leader = group.leader /\ more.members = group.members \cup {c}
      /\ more.clublike = group.clublike /\ more.public = group.public
  BY DEF Sound, Roster, Enlarged
<1>2. LimitOf(more) = LimitOf(group) /\ LimitOf(group) \in Nat
  BY <1>1, GroupsAssumption DEF LimitOf
<1>3. CASE c \in group.members
  <2>1. more.members = group.members
    BY <1>1, <1>3
  <2> QED BY <1>1, <1>2, <2>1 DEF Sound
<1>4. ASSUME c \notin group.members PROVE Sound(more)
  <2>1. IsFiniteSet(more.members) /\ Cardinality(more.members) = Cardinality(group.members) + 1
    BY <1>1, <1>4, FS_AddElement DEF Sound
  <2>2. Cardinality(group.members) \in Nat
    BY FS_CardinalityType DEF Sound
  <2>3. Cardinality(more.members) <= LimitOf(more)
    BY <1>2, <2>1, <2>2
  <2> HIDE DEF more
  <2> QED BY <1>1, <2>1, <2>3 DEF Sound
<1> QED BY <1>3, <1>4

LEMMA FewerMembers ==
  ASSUME NEW group, NEW c, Sound(group), c # group.leader
  PROVE  /\ Sound(Reduced(group, c))
         /\ Reduced(group, c).members = group.members \ {c}
<1> DEFINE fewer == Reduced(group, c)
<1>1. /\ fewer \in Roster /\ fewer.leader = group.leader /\ fewer.members = group.members \ {c}
      /\ fewer.clublike = group.clublike /\ fewer.public = group.public
  BY DEF Sound, Roster, Reduced
<1>2. LimitOf(fewer) = LimitOf(group) /\ LimitOf(group) \in Nat
  BY <1>1, GroupsAssumption DEF LimitOf
<1>3. /\ IsFiniteSet(fewer.members) /\ Cardinality(fewer.members) <= Cardinality(group.members)
      /\ Cardinality(fewer.members) \in Nat /\ Cardinality(group.members) \in Nat
  <2>1. fewer.members \subseteq group.members
    BY <1>1
  <2> HIDE DEF fewer
  <2> QED BY <2>1, FS_Subset, FS_CardinalityType DEF Sound
<1> HIDE DEF fewer
<1>4. Sound(fewer)
  <2>1. Cardinality(group.members) <= LimitOf(group) /\ group.leader \in group.members
        /\ (group.clublike => group.public)
    BY DEF Sound
  <2>2. Cardinality(fewer.members) <= LimitOf(fewer)
    BY <1>2, <1>3, <2>1
  <2> QED BY <1>1, <1>3, <2>1, <2>2 DEF Sound
<1> QED BY <1>1, <1>4 DEF fewer

LEMMA RecordFields ==
  ASSUME NEW group, Sound(group)
  PROVE  /\ \A public \in BOOLEAN : (group.clublike => public) =>
              /\ Sound(Opened(group, public))
              /\ Opened(group, public).members = group.members
         /\ /\ Sound(Raised(group))
            /\ Raised(group).members = group.members
         /\ \A c \in group.members : /\ Sound(LedBy(group, c))
                                     /\ LedBy(group, c).members = group.members
<1>1. /\ group \in Roster /\ group.leader \in group.members /\ group.members \subseteq Players
      /\ IsFiniteSet(group.members) /\ Cardinality(group.members) <= LimitOf(group)
      /\ group.clublike => group.public
  BY DEF Sound, Roster
<1>2. ASSUME NEW public \in BOOLEAN, group.clublike => public
      PROVE  /\ Sound(Opened(group, public))
             /\ Opened(group, public).members = group.members
  <2> DEFINE new == Opened(group, public)
  <2>1. /\ new \in Roster /\ new.leader = group.leader /\ new.members = group.members
        /\ new.clublike = group.clublike
    BY <1>1 DEF Roster, Opened, Raised, LedBy
  <2>2. new.public = public
    BY Zenon, <1>1 DEF Roster, Opened
  <2>3. LimitOf(new) = LimitOf(group)
    BY Zenon, <2>1 DEF LimitOf
  <2> HIDE DEF new
  <2>4. Sound(new)
    BY <1>1, <1>2, <2>1, <2>2, <2>3, Zenon DEF Sound
  <2> QED BY <2>1, <2>4 DEF new
<1>3. /\ Sound(Raised(group))
      /\ Raised(group).members = group.members
  <2> DEFINE new == Raised(group)
  <2>1. /\ new \in Roster /\ new.leader = group.leader /\ new.members = group.members
        /\ new.clublike = TRUE /\ new.public = TRUE
    BY <1>1 DEF Roster, Opened, Raised, LedBy
  <2> HIDE DEF new
  <2>2. Cardinality(new.members) <= LimitOf(new)
    <3>1. Cardinality(group.members) \in Nat
      BY <1>1, FS_CardinalityType
    <3>2. LimitOf(new) = ClublikeLimit
      BY <2>1 DEF LimitOf
    <3>3. LimitOf(group) = ClublikeLimit \/ LimitOf(group) = MemberLimit
      BY DEF LimitOf
    <3> QED BY <1>1, <2>1, <3>1, <3>2, <3>3, GroupsAssumption
  <2>3. Sound(new)
    BY <1>1, <2>1, <2>2 DEF Sound
  <2> QED BY <2>1, <2>3 DEF new
<1>4. ASSUME NEW c \in group.members
      PROVE  /\ Sound(LedBy(group, c))
             /\ LedBy(group, c).members = group.members
  <2> DEFINE new == LedBy(group, c)
  <2>1. /\ new \in Roster /\ new.leader = c /\ new.members = group.members
        /\ new.clublike = group.clublike /\ new.public = group.public
    BY <1>1 DEF Roster, Opened, Raised, LedBy
  <2>2. LimitOf(new) = LimitOf(group)
    BY <2>1 DEF LimitOf
  <2> HIDE DEF new
  <2>3. Sound(new)
    BY <1>1, <2>1, <2>2 DEF Sound
  <2> QED BY <2>1, <2>3 DEF new
<1> QED BY <1>2, <1>3, <1>4

LEMMA Asks ==
  ASSUME Questions, NEW c \in Players, UNCHANGED online,
         \/ \E target \in Players : Invite(c, target) \/ OfferGroup(c, target) \/ AskedInVain(c, target)
         \/ InviteNo(c) \/ InviteCancel(c) \/ OfferNo(c) \/ OfferCancel(c)
         \/ InviteYes(c) \/ OfferYes(c)
  PROVE  Questions'
<1>1. Backed(invited, inviter, online) /\ Backed(handTo, handFrom, online)
  BY DEF Questions
<1>2. SUFFICES Backed(invited', inviter', online) /\ Backed(handTo', handFrom', online)
  BY DEF Questions
<1>3. ASSUME NEW target \in Players, Invite(c, target)
      PROVE  Backed(invited', inviter', online) /\ Backed(handTo', handFrom', online)
  <2>1. c \in online \cap Players /\ target \in online \cap Players
    BY <1>3 DEF Invite, MayInvite
  <2>2. Backed(invited', inviter', online)
    BY <1>1, <1>3, <2>1, AskedKeeps DEF Invite, MayInvite
  <2>3. Backed(handTo', handFrom', online)
    BY <1>1, <1>3, FreshKeeps, DropKeeps DEF Invite
  <2> QED BY <2>2, <2>3
<1>4. ASSUME NEW target \in Players, OfferGroup(c, target)
      PROVE  Backed(invited', inviter', online) /\ Backed(handTo', handFrom', online)
  <2>1. c \in online \cap Players /\ target \in online \cap Players
    BY <1>4 DEF OfferGroup, MayOffer
  <2>2. Backed(handTo', handFrom', online)
    BY <1>1, <1>4, <2>1, AskedKeeps DEF OfferGroup, MayOffer
  <2>3. Backed(invited', inviter', online)
    BY <1>1, <1>4, FreshKeeps, DropKeeps DEF OfferGroup
  <2> QED BY <2>2, <2>3
<1>5. ASSUME NEW target \in Players, AskedInVain(c, target)
      PROVE  Backed(invited', inviter', online) /\ Backed(handTo', handFrom', online)
  BY <1>1, <1>5, FreshKeeps, DropKeeps DEF AskedInVain
<1>6. CASE InviteNo(c) \/ InviteYes(c)
  <2>1. /\ inviter[c] # Nobody /\ inviter' = [inviter EXCEPT ![c] = Nobody]
        /\ invited' = [invited EXCEPT ![inviter[c]] = Nobody] \/ invited' = invited
        /\ UNCHANGED <<handTo, handFrom>>
    BY <1>6 DEF InviteNo, InviteYes
  <2>2. /\ Backed(invited, [inviter EXCEPT ![c] = Nobody], online)
        /\ Backed([invited EXCEPT ![inviter[c]] = Nobody], [inviter EXCEPT ![c] = Nobody], online)
    BY <1>1, <2>1, AnswerKeeps
  <2>3. Backed(invited', inviter', online)
    <3>1. CASE invited' = invited
      BY <2>1, <2>2, <3>1
    <3>2. CASE invited' = [invited EXCEPT ![inviter[c]] = Nobody]
      BY <2>1, <2>2, <3>2
    <3> QED BY <2>1, <3>1, <3>2
  <2> QED BY <1>1, <2>1, <2>3
<1>7. CASE OfferNo(c) \/ OfferYes(c)
  <2>1. /\ handFrom[c] # Nobody /\ handFrom' = [handFrom EXCEPT ![c] = Nobody]
        /\ handTo' = [handTo EXCEPT ![handFrom[c]] = Nobody] \/ handTo' = handTo
        /\ UNCHANGED <<invited, inviter>>
    BY <1>7 DEF OfferNo, OfferYes
  <2>2. /\ Backed(handTo, [handFrom EXCEPT ![c] = Nobody], online)
        /\ Backed([handTo EXCEPT ![handFrom[c]] = Nobody], [handFrom EXCEPT ![c] = Nobody], online)
    BY <1>1, <2>1, AnswerKeeps
  <2>3. Backed(handTo', handFrom', online)
    <3>1. CASE handTo' = handTo
      BY <2>1, <2>2, <3>1
    <3>2. CASE handTo' = [handTo EXCEPT ![handFrom[c]] = Nobody]
      BY <2>1, <2>2, <3>2
    <3> QED BY <2>1, <3>1, <3>2
  <2> QED BY <1>1, <2>1, <2>3
<1>8. CASE InviteCancel(c)
  BY <1>1, <1>8, WithdrawKeeps DEF InviteCancel
<1>9. CASE OfferCancel(c)
  BY <1>1, <1>9, WithdrawKeeps DEF OfferCancel
<1> QED BY <1>3, <1>4, <1>5, <1>6, <1>7, <1>8, <1>9

LEMMA QuestionsStay ==
  ASSUME Questions, UNCHANGED asking, online \subseteq online'
  PROVE  Questions'
BY DEF Questions, Backed, asking

LEMMA GroupsStep ==
  ASSUME GroupsInv, World, GroupsNext, UNCHANGED <<online, exists>>
  PROVE  GroupsInv'
<1>1. Rosters /\ Rooms /\ resting \subseteq Players /\ Questions
  BY DEF GroupsInv
<1>2. ASSUME NEW g \in Ids
      PROVE  /\ Sound(groups[g]) /\ groups[g].members \subseteq exists
             /\ \A h \in Ids \ {g} : groups[g].members \cap groups[h].members = {}
  BY <1>1 DEF Rosters
<1>3. PICK c \in Players :
        \/ \E public \in BOOLEAN : Create(c, public) \/ Update(c, public)
        \/ ClublikeRegister(c) \/ Part(c) \/ Destroy(c)
        \/ \E target \in Players :
             Kick(c, target) \/ Invite(c, target) \/ OfferGroup(c, target) \/ AskedInVain(c, target)
        \/ InviteYes(c) \/ InviteNo(c) \/ InviteCancel(c)
        \/ OfferYes(c) \/ OfferNo(c) \/ OfferCancel(c)
        \/ \E slot \in Slots : Reserve(c, slot) \/ CancelRoom(c, slot)
        \/ WaitOver(c)
  BY DEF GroupsNext
<1>4. ASSUME NEW public \in BOOLEAN, Create(c, public) PROVE GroupsInv'
  <2> DEFINE new == [leader |-> c, members |-> {c}, public |-> public, clublike |-> FALSE]
  <2>1. /\ c \in online /\ GroupOf(c) = {} /\ Mint <= MaxId /\ groups' = Founded(c, public)
        /\ UNCHANGED <<resting, bookings, asking>>
    BY <1>4 DEF Create
  <2>2. PICK m \in Nat \ {0} : m = Mint /\ m \notin Ids /\ m <= MaxId
    BY <1>1, <2>1, MintIsNew
  <2>3. /\ Ids' = Ids \cup {m} /\ groups'[m] = new
        /\ \A g \in Ids : groups'[g] = groups[g]
    BY <2>1, <2>2 DEF Founded, Ids
  <2>4. Sound(new) /\ new.members = {c}
    <3>1. new \in Roster /\ new.leader \in new.members /\ new.members = {c} /\ new.clublike = FALSE
      BY DEF Roster
    <3>2. IsFiniteSet({c}) /\ Cardinality({c}) = 1
      BY FS_Singleton
    <3>3. LimitOf(new) = MemberLimit
      BY <3>1 DEF LimitOf
    <3> HIDE DEF new
    <3>4. Sound(new)
      BY <3>1, <3>2, <3>3, GroupsAssumption DEF Sound
    <3> QED BY <3>1, <3>4
  <2> HIDE DEF new
  <2>5. \A g \in Ids : groups[g].members \cap new.members = {}
    BY <2>1, <2>4 DEF GroupOf
  <2>6. Rosters'
    <3>1. Ids' \subseteq 1..MaxId
      BY <1>1, <2>2, <2>3, GroupsAssumption DEF Rosters
    <3>2. \A g \in Ids' : Sound(groups'[g]) /\ groups'[g].members \subseteq exists'
      BY <1>2, <2>1, <2>3, <2>4 DEF World
    <3>3. ASSUME NEW g \in Ids', NEW h \in Ids', g # h
          PROVE  groups'[g].members \cap groups'[h].members = {}
      <4>1. CASE g \in Ids /\ h \in Ids
        BY <1>2, <2>3, <3>3, <4>1
      <4>2. CASE g = m
        BY <2>2, <2>3, <2>5, <3>3, <4>2
      <4>3. CASE h = m
        BY <2>2, <2>3, <2>5, <3>3, <4>3
      <4> QED BY <2>3, <4>1, <4>2, <4>3
    <3> QED BY <3>1, <3>2, <3>3 DEF Rosters, Sound, LimitOf
  <2> QED BY <1>1, <2>1, <2>3, <2>6, RoomsStay, QuestionsStay DEF GroupsInv
<1>5. ASSUME NEW public \in BOOLEAN, Update(c, public) PROVE GroupsInv'
  <2>1. PICK g \in Ids : (groups[g].clublike => public) /\ groups' = Renewed(g, public)
    BY <1>5 DEF Update
  <2>2. Becomes(g, Opened(groups[g], public))
    BY <2>1 DEF Renewed, Opened, Becomes
  <2>3. /\ Sound(Opened(groups[g], public))
        /\ Opened(groups[g], public).members = groups[g].members
    BY <1>2, <2>1, RecordFields
  <2>4. Fits(Opened(groups[g], public), g)
    BY <1>2, <2>3 DEF Fits
  <2>5. Rosters' /\ Ids' = Ids
    BY <1>1, <1>5, <2>2, <2>4, OneChanges
  <2> QED BY <1>1, <1>5, <2>5, RoomsStay, QuestionsStay DEF GroupsInv, Update
<1>6. CASE ClublikeRegister(c)
  <2>1. PICK g \in Ids : groups' = Promoted(g)
    BY <1>6 DEF ClublikeRegister
  <2>2. Becomes(g, Raised(groups[g]))
    BY <2>1 DEF Promoted, Raised, Becomes
  <2>3. /\ Sound(Raised(groups[g]))
        /\ Raised(groups[g]).members = groups[g].members
    BY <1>2, RecordFields
  <2>4. Fits(Raised(groups[g]), g)
    BY <1>2, <2>3 DEF Fits
  <2>5. Rosters' /\ Ids' = Ids
    BY <1>1, <2>2, <2>4, OneChanges
  <2> QED BY <1>1, <1>6, <2>5, RoomsStay, QuestionsStay DEF GroupsInv, ClublikeRegister
<1>7. ASSUME NEW g \in Ids, NEW d \in Players, d # groups[g].leader,
             groups' = [groups EXCEPT ![g].members = @ \ {d}]
      PROVE  Rosters' /\ Ids' = Ids
  <2>1. Becomes(g, Reduced(groups[g], d))
    BY <1>7 DEF Reduced, Becomes
  <2>2. /\ Sound(Reduced(groups[g], d))
        /\ Reduced(groups[g], d).members = groups[g].members \ {d}
    BY <1>2, <1>7, FewerMembers
  <2>3. Fits(Reduced(groups[g], d), g)
    BY <1>2, <2>2 DEF Fits
  <2> QED BY <1>1, <2>1, <2>3, OneChanges
<1>8. CASE Part(c)
  <2>1. PICK g \in GroupOf(c) : groups[g].leader # c /\ groups' = Left(g, c)
    BY <1>8 DEF Part
  <2>2. Rosters' /\ Ids' = Ids
    BY <1>7, <2>1 DEF Left, GroupOf
  <2>3. Questions'
    BY <1>1, <1>8, HandshakesGo DEF Part
  <2> QED BY <1>1, <1>8, <2>2, <2>3, RoomsStay DEF GroupsInv, Part
<1>9. CASE Destroy(c)
  <2>1. PICK g \in Ids : /\ ForgetGroup(g) /\ groups' = Without(g)
                         /\ HandshakesDropped({c} \cup (groups[g].members \cap online))
    BY <1>9 DEF Destroy
  <2>2. Ids' = Ids \ {g} /\ \A h \in Ids' : groups'[h] = groups[h]
    BY <2>1 DEF Without, Ids
  <2>3. Rosters'
    BY <1>1, <2>2 DEF Rosters, Sound, LimitOf
  <2>4. Rooms'
    BY <1>1, <2>1, <2>2 DEF Rooms, BookingsOwned, ForgetGroup
  <2>5. Questions'
    BY <1>1, <2>1, HandshakesGo DEF World
  <2>6. resting' \subseteq Players
    BY <1>1, <1>9 DEF Destroy
  <2> QED BY <2>3, <2>4, <2>5, <2>6 DEF GroupsInv
<1>10. ASSUME NEW target \in Players, Kick(c, target) PROVE GroupsInv'
  <2>1. PICK g \in Ids : Leads(c, g) /\ groups' = Dismissed(g, target)
    BY <1>10 DEF Kick
  <2>2. Rosters' /\ Ids' = Ids
    BY <1>7, <1>10, <2>1 DEF Dismissed, Leads, Kick
  <2> QED BY <1>1, <1>10, <2>2, RoomsStay, QuestionsStay DEF GroupsInv, Kick
<1>11. CASE InviteYes(c)
  <2>1. Questions'
    BY <1>1, <1>11, Asks
  <2>2. Rosters' /\ Ids' = Ids
    <3>1. CASE UNCHANGED groups
      BY <1>1, <3>1 DEF Rosters, Sound, LimitOf, Ids
    <3>2. CASE ~ UNCHANGED groups
      <4>1. PICK g \in Ids : /\ GroupOf(c) = {} /\ Cardinality(groups[g].members) < LimitOf(groups[g])
                             /\ groups' = [groups EXCEPT ![g].members = @ \cup {c}]
        BY <1>11, <3>2 DEF InviteYes, Join
      <4>2. Becomes(g, Enlarged(groups[g], c))
        BY <4>1 DEF Enlarged, Becomes
      <4>3. /\ Sound(Enlarged(groups[g], c))
            /\ Enlarged(groups[g], c).members = groups[g].members \cup {c}
        <5>1. Sound(Enlarged(groups[g], c))
          BY <1>2, <4>1, MoreMembers
        <5>2. groups[g] \in Roster
          BY <1>2 DEF Sound
        <5> QED BY <5>1, <5>2 DEF Roster, Enlarged
      <4>4. c \in exists /\ \A h \in Ids : c \notin groups[h].members
        BY <1>11, <4>1 DEF InviteYes, World, GroupOf
      <4>5. Fits(Enlarged(groups[g], c), g)
        BY <1>2, <4>3, <4>4 DEF Fits
      <4> QED BY <1>1, <4>2, <4>5, OneChanges
    <3> QED BY <3>1, <3>2
  <2> QED BY <1>1, <1>11, <2>1, <2>2, RoomsStay DEF GroupsInv, InviteYes
<1>12. CASE OfferYes(c)
  <2>1. Questions'
    BY <1>1, <1>12, Asks
  <2>2. Rosters' /\ Ids' = Ids /\ resting' \subseteq Players
    <3>1. CASE UNCHANGED <<groups, resting>>
      BY <1>1, <3>1 DEF Rosters, Sound, LimitOf, Ids
    <3>2. CASE ~ UNCHANGED <<groups, resting>>
      <4>1. PICK g \in Ids : /\ c \in groups[g].members
                             /\ groups' = [groups EXCEPT ![g].leader = c]
                             /\ resting' = resting \cup {groups[g].leader}
        BY <1>12, <3>2 DEF OfferYes, HandOver
      <4>2. Becomes(g, LedBy(groups[g], c))
        BY <4>1 DEF LedBy, Becomes
      <4>3. /\ Sound(LedBy(groups[g], c))
            /\ LedBy(groups[g], c).members = groups[g].members
        BY <1>2, <4>1, RecordFields
      <4>4. groups[g].leader \in Players
        BY <1>2 DEF Sound, Roster
      <4>5. Fits(LedBy(groups[g], c), g)
        BY <1>2, <4>3 DEF Fits
      <4>6. Rosters' /\ Ids' = Ids
        BY <1>1, <4>2, <4>5, OneChanges
      <4> QED BY <1>1, <4>1, <4>4, <4>6
    <3> QED BY <3>1, <3>2
  <2> QED BY <1>1, <1>12, <2>1, <2>2, RoomsStay DEF GroupsInv, OfferYes
<1>13. ASSUME \/ \E target \in Players :
                   Invite(c, target) \/ OfferGroup(c, target) \/ AskedInVain(c, target)
              \/ InviteNo(c) \/ InviteCancel(c) \/ OfferNo(c) \/ OfferCancel(c)
       PROVE  GroupsInv'
  <2>1. Questions'
    BY <1>1, <1>13, Asks
  <2>2. UNCHANGED <<groups, resting, bookings>>
    BY <1>13 DEF Invite, OfferGroup, AskedInVain, InviteNo, InviteCancel, OfferNo, OfferCancel
  <2>3. Rosters' /\ Rooms'
    BY <1>1, <2>2 DEF Rosters, Sound, LimitOf, Ids, Rooms, BookingsOwned
  <2> QED BY <1>1, <2>1, <2>2, <2>3 DEF GroupsInv
<1>14. ASSUME NEW slot \in Slots, Reserve(c, slot) \/ CancelRoom(c, slot) PROVE GroupsInv'
  <2>1. UNCHANGED <<groups, resting, asking>>
    BY <1>14 DEF Reserve, CancelRoom
  <2>2. Rosters' /\ Questions'
    BY <1>1, <2>1, QuestionsStay DEF Rosters, Sound, LimitOf, Ids
  <2>3. CASE Reserve(c, slot)
    <3>1. PICK g \in GroupOf(c) : /\ \A b \in HeldBy(g) : Terms[b.slot] # Terms[slot]
                                  /\ Booked(slot) = {}
                                  /\ bookings' = bookings \cup {[slot |-> slot, group |-> g]}
      BY <2>3 DEF Reserve
    <3>2. g \in Ids /\ g \in 1..MaxId
      BY <1>1 DEF GroupOf, Rosters
    <3> DEFINE room == [slot |-> slot, group |-> g]
    <3>3. room \in [slot : Slots, group : 1..MaxId] /\ room.slot = slot /\ room.group = g
      BY <3>2
    <3> HIDE DEF room
    <3>4. \A b \in bookings : /\ b.slot # slot
                              /\ b.group = g => Terms[b.slot] # Terms[slot]
      BY <3>1 DEF Booked, HeldBy
    <3>5. bookings' = bookings \cup {room} /\ Ids' = Ids
      BY <2>1, <3>1 DEF room, Ids
    <3>6. Rooms'
      BY <1>1, <3>2, <3>3, <3>4, <3>5 DEF Rooms, BookingsOwned
    <3> QED BY <1>1, <2>1, <2>2, <3>6 DEF GroupsInv
  <2>4. CASE CancelRoom(c, slot)
    <3>1. bookings' \subseteq bookings /\ Ids' = Ids
      BY <2>1, <2>4 DEF CancelRoom, Ids
    <3>2. Rooms'
      BY <1>1, <3>1 DEF Rooms, BookingsOwned
    <3> QED BY <1>1, <2>1, <2>2, <3>2 DEF GroupsInv
  <2> QED BY <1>14, <2>3, <2>4
<1>15. CASE WaitOver(c)
  <2>1. UNCHANGED <<groups, bookings, asking>> /\ resting' \subseteq resting
    BY <1>15 DEF WaitOver
  <2>2. Rosters' /\ Questions' /\ Rooms'
    BY <1>1, <2>1, QuestionsStay DEF Rosters, Sound, LimitOf, Ids, Rooms, BookingsOwned
  <2> QED BY <1>1, <2>1, <2>2 DEF GroupsInv
<1> QED BY <1>3, <1>4, <1>5, <1>6, <1>8, <1>9, <1>10, <1>11, <1>12, <1>13, <1>14, <1>15

LEMMA GroupsDelete ==
  ASSUME GroupsInv, NEW c \in Players, GroupsForget(c), exists' = exists \ {c}, UNCHANGED online
  PROVE  GroupsInv'
<1>1. Rosters /\ Rooms /\ resting \subseteq Players /\ Questions
  BY DEF GroupsInv
<1>2. /\ groups' = [g \in Ids |-> Reduced(groups[g], c)] /\ resting' = resting \ {c}
      /\ UNCHANGED <<bookings, asking>>
  BY DEF GroupsForget, Reduced
<1>3. Ids' = Ids /\ \A g \in Ids : groups'[g] = Reduced(groups[g], c)
  BY <1>2 DEF Ids
<1>4. ASSUME NEW g \in Ids
      PROVE  Sound(groups'[g]) /\ groups'[g].members = groups[g].members \ {c}
  <2>1. Sound(groups[g])
    BY <1>1 DEF Rosters
  <2>2. groups[g].leader # c
    BY <2>1 DEF GroupsForget, Leads, Sound
  <2> QED BY <1>3, <2>1, <2>2, FewerMembers
<1>5. Rosters'
  <2>1. \A g \in Ids' : Sound(groups'[g]) /\ groups'[g].members \subseteq exists'
    BY <1>1, <1>3, <1>4 DEF Rosters
  <2>2. \A g, h \in Ids' : g # h => groups'[g].members \cap groups'[h].members = {}
    BY <1>1, <1>3, <1>4 DEF Rosters
  <2> QED BY <1>1, <1>3, <2>1, <2>2 DEF Rosters, Sound, LimitOf
<1> QED BY <1>1, <1>2, <1>3, <1>5, RoomsStay, QuestionsStay DEF GroupsInv

LEMMA GroupsDie ==
  ASSUME GroupsInv, GroupsCrash, UNCHANGED exists
  PROVE  GroupsInv'
<1>1. Rosters /\ Rooms /\ resting \subseteq Players
  BY DEF GroupsInv
<1>2. UNCHANGED <<groups, resting>> /\ bookings' \subseteq bookings
  BY DEF GroupsCrash, DestroyTorn, ForgetGroup
<1>3. Rosters' /\ Rooms'
  BY <1>1, <1>2 DEF Rosters, Sound, LimitOf, Ids, Rooms, BookingsOwned
<1>4. Questions'
  BY NobodyAsked DEF GroupsCrash, Questions
<1> QED BY <1>1, <1>2, <1>3, <1>4 DEF GroupsInv

LEMMA GroupsWorld ==
  ASSUME GroupsInv, UNCHANGED exists,
         \/ UNCHANGED groupVars /\ online \subseteq online'
         \/ \E c \in Players : GroupsGone(c) /\ online' = online \ {c}
  PROVE  GroupsInv'
<1>1. Rosters /\ Rooms /\ resting \subseteq Players /\ Questions
  BY DEF GroupsInv
<1>2. UNCHANGED <<groups, resting, bookings>>
  BY DEF groupVars, GroupsGone
<1>3. Rosters' /\ Rooms'
  BY <1>1, <1>2 DEF Rosters, Sound, LimitOf, Ids, Rooms, BookingsOwned
<1>4. Questions'
  BY <1>1, ApplicationsGo, QuestionsStay DEF groupVars, asking, GroupsGone
<1> QED BY <1>1, <1>2, <1>3, <1>4 DEF GroupsInv

-----------------------------------------------------------------------------
(* The composition.                                                        *)
IInv == World /\ GroupsInv /\ TwoshotsInv /\ FriendsInv /\ DeskInv

LEMMA Start == Init => IInv
<1> SUFFICES ASSUME Init PROVE IInv
  OBVIOUS
<1>1. GroupsInv
  <2>1. Ids = {}
    BY DEF Init, GroupsInit, Ids
  <2> QED BY <2>1, NobodyAsked
          DEF Init, GroupsInit, GroupsInv, Rosters, Rooms, BookingsOwned, Questions
<1> QED BY <1>1, TwoshotsStart, FriendsStart, DeskStart DEF Init, IInv, World

LEMMA Step == IInv /\ [Next]_vars => IInv'
<1> SUFFICES ASSUME IInv, [Next]_vars PROVE IInv'
  OBVIOUS
<1>1. World /\ GroupsInv /\ TwoshotsInv /\ FriendsInv /\ DeskInv
  BY DEF IInv
<1>2. ASSUME UNCHANGED groupVars, UNCHANGED exists, online \subseteq online' PROVE GroupsInv'
  BY <1>1, <1>2, GroupsWorld
<1>3. ASSUME UNCHANGED deskVars, UNCHANGED exists, online \subseteq online' PROVE DeskInv'
  BY <1>1, <1>3 DEF deskVars, DeskInv, DeskTypeOK, DeskIsShown
<1>4. ASSUME NEW p \in Players, Arrive(p) PROVE IInv'
  <2>1. World' /\ online \subseteq online'
    BY <1>1, <1>4 DEF Arrive, World
  <2>2. UNCHANGED <<exists, groupVars, twoshotVars, friendVars, deskVars>>
    BY <1>4 DEF Arrive
  <2> QED BY <1>1, <1>2, <1>3, <2>1, <2>2, TwoshotsArrive, FriendsWorld DEF IInv
<1>5. ASSUME NEW p \in Players, Leave(p) PROVE IInv'
  <2>1. /\ online' = online \ {p} /\ UNCHANGED exists
        /\ TwoshotGone(p) /\ GroupsGone(p) /\ FriendsGone(p) /\ DeskGone(p)
    BY <1>5 DEF Leave
  <2>2. World'
    BY <1>1, <2>1 DEF World
  <2>3. GroupsInv' /\ TwoshotsInv' /\ FriendsInv' /\ DeskInv'
    BY <1>1, <2>1, GroupsWorld, TwoshotsGo, FriendsWorld, DeskGoes
  <2> QED BY <2>2, <2>3 DEF IInv
<1>6. ASSUME NEW p \in Players, Delete(p) PROVE IInv'
  <2>1. /\ p \notin online /\ exists' = exists \ {p} /\ UNCHANGED <<online, twoshotVars>>
        /\ GroupsForget(p) /\ FriendsForget(p) /\ CallsForget(p)
    BY <1>6 DEF Delete
  <2>2. World'
    BY <1>1, <2>1 DEF World
  <2>3. GroupsInv' /\ TwoshotsInv' /\ FriendsInv' /\ DeskInv'
    BY <1>1, <2>1, GroupsDelete, TwoshotsArrive, FriendsWorld, DeskDeletes
  <2> QED BY <2>2, <2>3 DEF IInv
<1>7. CASE Crash
  <2>1. /\ online' = {} /\ UNCHANGED exists
        /\ GroupsCrash /\ TwoshotsCrash /\ FriendsCrash /\ DeskCrash
    BY <1>7 DEF Crash
  <2>2. World'
    BY <1>1, <2>1 DEF World
  <2>3. GroupsInv' /\ TwoshotsInv' /\ FriendsInv' /\ DeskInv'
    BY <1>1, <2>1, GroupsDie, TwoshotsDie, FriendsWorld, DeskDies
  <2> QED BY <2>2, <2>3 DEF IInv
<1>8. ASSUME UNCHANGED <<online, exists>>,
             GroupsNext \/ UNCHANGED groupVars, TwoshotsNext \/ UNCHANGED twoshotVars,
             FriendsNext \/ UNCHANGED friendVars, DeskNext \/ UNCHANGED deskVars
      PROVE  IInv'
  <2>1. World' /\ online \subseteq online'
    BY <1>1, <1>8 DEF World
  <2>2. GroupsInv'
    BY <1>1, <1>2, <1>8, <2>1, GroupsStep
  <2>3. TwoshotsInv'
    BY <1>1, <1>8, <2>1, TwoshotsStep, TwoshotsArrive
  <2>4. FriendsInv'
    BY <1>1, <1>8, <2>1, FriendsStep, FriendsWorld
  <2>5. DeskInv'
    BY <1>1, <1>3, <1>8, <2>1, DeskStep
  <2> QED BY <2>1, <2>2, <2>3, <2>4, <2>5 DEF IInv
<1>9. CASE GroupsNext /\ UNCHANGED <<online, exists, twoshotVars, friendVars, deskVars>>
  BY <1>8, <1>9
<1>10. CASE TwoshotsNext /\ UNCHANGED <<online, exists, groupVars, friendVars, deskVars>>
  BY <1>8, <1>10
<1>11. CASE FriendsNext /\ UNCHANGED <<online, exists, groupVars, twoshotVars, deskVars>>
  BY <1>8, <1>11
<1>12. CASE DeskNext /\ UNCHANGED <<online, exists, groupVars, twoshotVars, friendVars>>
  BY <1>8, <1>12
<1>13. CASE UNCHANGED vars
  BY <1>8, <1>13 DEF vars
<1> QED BY <1>4, <1>5, <1>6, <1>7, <1>9, <1>10, <1>11, <1>12, <1>13 DEF Next

LEMMA Always == Spec => []IInv
BY Start, Step, PTL DEF Spec

(* Groups (groups.py, multipurpose.py): through every interleaving of       *)
(* invitations, kicks, handovers, deletions, dissolutions and crashes, even *)
(* between the two books of a dissolution, nobody is in two groups, every   *)
(* group is led by a member and holds living characters within its limit,   *)
(* and every room is booked once, by a group there is.                     *)
THEOREM GroupsWhole == Spec => []GroupsAreWhole
<1>1. IInv => GroupsAreWhole
  <2> SUFFICES ASSUME IInv PROVE GroupsAreWhole
    OBVIOUS
  <2>1. World /\ GroupsInv /\ TwoshotsInv /\ FriendsInv /\ DeskInv
    BY DEF IInv
  <2>2. GroupsTypeOK /\ RostersAgree /\ BookingsOwned
    BY <2>1, GroupsShown
  <2>3. TwoshotsTypeOK
    BY <2>1, TwoshotsShown
  <2> QED BY <2>1, <2>2, <2>3 DEF World, FriendsInv, DeskInv, TypeOK, GroupsAreWhole
<1> QED BY <1>1, Always, PTL

(* Questions and conversations (the 0x62xx and 0x50xx handlers, gmchat.py): *)
(* whoever has an invitation or an offer to answer has it from somebody who *)
(* is here and waits for it, a twoshot is two people's with each other and  *)
(* on just their screens, and the desk's dialogs and windows are up for     *)
(* just those it has asked or talks to.                                    *)
THEOREM PairsHold == Spec => []PairsAgree
<1>1. IInv => PairsAgree
  BY GroupsShown, TwoshotsShown DEF IInv, DeskInv, PairsAgree
<1> QED BY <1>1, Always, PTL

(* Address books (friends.py): applications mirror each other, are between  *)
(* people who are here, and no book outgrows its limit however many are     *)
(* answered at once.                                                       *)
THEOREM BooksStayWithin == Spec => []BooksWithinLimit
<1>1. IInv => BooksWithinLimit
  BY DEF IInv, FriendsInv
<1> QED BY <1>1, Always, PTL
=============================================================================
