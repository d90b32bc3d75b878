--------------------------- MODULE ConnectionProofs ---------------------------
(***************************************************************************)
(* What holds of every connection to the server: whose account it may      *)
(* speak for (Admission) and in what order it is written to (WireSequence, *)
(* at the end).                                                            *)
(*                                                                         *)
(* Why a registration code keeps its word, and an account its owner, for   *)
(* any number of players, codes, connections and account numbers, wherever *)
(* the server dies and whatever the operator does to the table meanwhile:  *)
(* the invariant says, code by code, what the rows, the operator's copy of *)
(* them, the website's promises and the index have to do with each other,  *)
(* and of every ticket and connection, whose account it is for.            *)
(***************************************************************************)
EXTENDS Admission, WireSequence, SequenceTheorems, FiniteSetTheorems,
        WellFoundedInduction, TLAPS

(* A code's row: nobody owns what was not claimed.                         *)
Unclaimed(r) == r.state \in {"none", "issued"}
RowOK(r) == r \in RowType /\ (Unclaimed(r) => r.owner = Nobody)

CodeFits(c) ==
  /\ RowOK(rows[c]) /\ table[c] \in RowType
  /\ rows[c].state = "suspended" <=> c \in revoked
  /\ \A p \in shown[c] : p \in Players /\ rows[c].owner = p
  /\ c \notin touched =>
       /\ rows[c].state # "suspended"
       /\ rows[c].state = "active" => rows[c].owner \in Players
       /\ index[c] # 0 => rows[c].state = "active"
  /\ draft # Nobody => RowOK(draft[c]) /\ (draft[c] = rows[c] \/ Unclaimed(draft[c]))

(* Account a is p's to enter: its number is not free, and a code that names*)
(* it, if only the website ever wrote its row, is p's.                     *)
Held(a, p) ==
  a \in Taken /\ \A c \in Codes \ touched : index[c] = a => rows[c].owner = p

Tokens == [by : Players \cup {Nobody}, who : Players \cup {Nobody}]
TokenOK(t) == t.by \in Players => t.who \in {t.by, Nobody}

Alone == \A s \in Live : socket[s].loggedIn /\ ~socket[s].handedOn => Rivals(s) = {}

Shaped ==
  /\ ids \subseteq Players /\ saves \subseteq 1..MaxAccount /\ given \in 0..Fuse
  /\ rows \in [Codes -> RowType] /\ table \in [Codes -> RowType]
  /\ draft \in [Codes -> RowType] \cup {Nobody}
  /\ index \in [Codes -> 0..MaxAccount] /\ ticket \in [Players -> 0..MaxAccount]
  /\ socket \in [Sockets -> SocketType \cup {Nobody}]
  /\ shown \in [Codes -> SUBSET Players] /\ revoked \subseteq Codes
  /\ kept \in [1..MaxAccount -> Codes \cup {Nobody}]
DeskOK ==
  /\ desk \in Seq(Tokens) /\ Len(desk) <= TokenLimit
  /\ \A i \in DOMAIN desk : TokenOK(desk[i])
SavesOK ==
  /\ \A c, d \in Codes : index[c] = index[d] /\ index[c] # 0 => c = d
  /\ \A a \in saves, c \in Codes : index[c] = a => c = kept[a]
Entered ==
  /\ \A p \in Players : ticket[p] # 0 => Held(ticket[p], p)
  /\ \A s \in Live : Held(socket[s].account, socket[s].by)

AdmissionInv ==
  Shaped /\ (\A c \in Codes : CodeFits(c)) /\ DeskOK /\ SavesOK /\ Entered /\ Alone

-----------------------------------------------------------------------------
(* Rows and codes.                                                         *)
LEMMA RowsOf ==
  /\ RowOK(None)
  /\ \A state \in {"none", "issued", "active", "suspended"}, owner \in Players \cup {Nobody} :
       /\ Row(state, owner) \in RowType
       /\ Row(state, owner).state = state /\ Row(state, owner).owner = owner
  /\ \A state \in {"issued", "active", "suspended"} : RowOK(Row(state, Nobody))
  /\ \A p \in Players : RowOK(Row("active", p))
<1>1. \A state \in {"none", "issued", "active", "suspended"}, owner \in Players \cup {Nobody} :
        /\ Row(state, owner) \in RowType
        /\ Row(state, owner).state = state /\ Row(state, owner).owner = owner
  BY DEF Row, RowType
<1>2. RowOK(None)
  BY DEF None, RowOK, RowType, Unclaimed
<1>3. \A state \in {"issued", "active", "suspended"} : RowOK(Row(state, Nobody))
  BY DEF Row, RowType, RowOK, Unclaimed
<1>4. \A p \in Players : RowOK(Row("active", p))
  BY DEF Row, RowType, RowOK, Unclaimed
<1> QED BY <1>1, <1>2, <1>3, <1>4

(* What the server does to a row: it goes on from unclaimed to claimed.    *)
Onward(c) ==
  \/ rows'[c] = rows[c]
  \/ /\ Unclaimed(rows[c]) /\ RowOK(rows'[c]) /\ rows'[c].state \in {"issued", "active"}
     /\ c \notin touched /\ rows'[c].state = "active" => rows'[c].owner \in Players

LEMMA ServerWrites ==
  ASSUME NEW c \in Codes, CodeFits(c), Onward(c), table'[c] \in RowType,
         \A p \in shown'[c] : p \in shown[c] \/ (p \in Players /\ rows'[c].owner = p),
         UNCHANGED <<revoked, touched, index, draft>>
  PROVE  CodeFits(c)'
<1>1. CASE rows'[c] = rows[c]
  BY <1>1 DEF CodeFits
<1>2. CASE /\ Unclaimed(rows[c]) /\ RowOK(rows'[c]) /\ rows'[c].state \in {"issued", "active"}
           /\ c \notin touched /\ rows'[c].state = "active" => rows'[c].owner \in Players
  <2>1. c \notin revoked /\ c \notin revoked' /\ rows'[c].state # "suspended"
    BY <1>2 DEF CodeFits, Unclaimed
  <2>2. \A p \in shown[c] : FALSE
    BY <1>2, AdmissionAssumption DEF CodeFits, RowOK
  <2>3. \A p \in shown'[c] : p \in Players /\ rows'[c].owner = p
    BY <2>2
  <2>4. c \notin touched => index[c] = 0
    BY <1>2 DEF CodeFits, Unclaimed
  <2>5. draft' # Nobody => RowOK(draft'[c]) /\ (draft'[c] = rows'[c] \/ Unclaimed(draft'[c]))
    BY <1>2 DEF CodeFits
  <2> QED BY <1>2, <2>1, <2>3, <2>4, <2>5 DEF CodeFits
<1> QED BY <1>1, <1>2 DEF Onward

(* Nothing of a code changes but what the server last read of its row.     *)
LEMMA ServerReads ==
  ASSUME \A c \in Codes : CodeFits(c), \A c \in Codes : table'[c] \in RowType,
         UNCHANGED <<rows, revoked, touched, draft, shown>>,
         \A c \in Codes : index'[c] = index[c] \/ index'[c] = 0 \/ rows[c].state = "active"
  PROVE  \A c \in Codes : CodeFits(c)'
<1> SUFFICES ASSUME NEW c \in Codes
             PROVE  CodeFits(c)'
  OBVIOUS
<1>1. CodeFits(c) /\ table'[c] \in RowType /\ (index'[c] = index[c] \/ index'[c] = 0 \/ rows[c].state = "active")
  OBVIOUS
<1> QED BY <1>1 DEF CodeFits

(* The accounts of those who have a ticket or a connection stay theirs as  *)
(* long as no number is taken back from them.                              *)
LEMMA HeldStays ==
  ASSUME NEW a, NEW p, Held(a, p), a # 0,
         \A c \in Codes : CodeFits(c), \A c \in Codes : Onward(c),
         touched' = touched, index' = index, saves \subseteq saves'
  PROVE  Held(a, p)'
<1>1. a \in Taken'
  BY DEF Held, Taken
<1>2. ASSUME NEW c \in Codes \ touched', index'[c] = a
      PROVE  rows'[c].owner = p
  <2>1. rows[c].owner = p /\ rows[c].state = "active"
    BY <1>2 DEF Held, CodeFits
  <2>2. rows'[c] = rows[c]
    BY <2>1 DEF Onward, Unclaimed
  <2> QED BY <2>1, <2>2
<1> QED BY <1>1, <1>2 DEF Held

LEMMA EnteredStays ==
  ASSUME Entered, Shaped, \A c \in Codes : CodeFits(c), \A c \in Codes : Onward(c),
         UNCHANGED <<touched, index, ticket, socket>>, saves \subseteq saves'
  PROVE  Entered'
<1>1. \A a, p : Held(a, p) /\ a # 0 => Held(a, p)'
  BY HeldStays
<1>2. \A s \in Live : socket[s].account # 0
  BY DEF Live, Shaped, SocketType
<1>3. Live' = Live
  BY DEF Live
<1> QED BY <1>1, <1>2, <1>3 DEF Entered

LEMMA AloneStays ==
  ASSUME Alone, socket' = socket
  PROVE  Alone'
BY DEF Alone, Live, Rivals

(* A start: every code that names an account without a row is let in, and  *)
(* nothing is remembered of tickets and connections.                       *)
LEMMA RestartWrites ==
  ASSUME Shaped, \A c \in Codes : CodeFits(c), NEW t \in [Codes -> RowType], Restarted(t), index' = index,
         touched' = touched,
         \A c \in Codes : \/ t[c] = rows[c]
                          \/ /\ Unclaimed(rows[c]) /\ RowOK(t[c]) /\ t[c].state \in {"issued", "active"}
                             /\ t[c].state = "active" => t[c].owner \in Players
  PROVE  /\ rows' \in [Codes -> RowType] /\ table' = rows' /\ \A c \in Codes : Onward(c)
         /\ DeskOK' /\ Entered' /\ Alone'
         /\ ticket' \in [Players -> 0..MaxAccount] /\ socket' \in [Sockets -> SocketType \cup {Nobody}]
<1>1. /\ rows' = Adopted(t) /\ table' = Adopted(t) /\ desk' = <<>>
      /\ ticket' = [p \in Players |-> 0] /\ socket' = [s \in Sockets |-> Nobody]
  BY DEF Restarted, Saved
<1>2. ASSUME NEW c \in Codes
      PROVE  rows'[c] \in RowType /\ Onward(c)
  <2>1. rows'[c] = IF index[c] # 0 /\ t[c] = None THEN Row("active", Nobody) ELSE t[c]
    BY <1>1 DEF Adopted
  <2>2. CASE ~ (index[c] # 0 /\ t[c] = None)
    <3>1. rows'[c] = t[c]
      BY <2>1, <2>2
    <3> QED BY <3>1 DEF Onward
  <2>3. CASE index[c] # 0 /\ t[c] = None
    <3>1. rows'[c] = Row("active", Nobody) /\ None.state = "none"
      BY <2>1, <2>3 DEF None
    <3>2. Unclaimed(rows[c]) /\ rows[c].state # "active"
      BY <2>3, <3>1 DEF Unclaimed
    <3>3. c \in touched
      BY <2>3, <3>2 DEF CodeFits
    <3>4. RowOK(rows'[c]) /\ rows'[c].state = "active" /\ rows'[c] \in RowType
      BY <3>1, RowsOf
    <3> QED BY <3>2, <3>3, <3>4 DEF Onward
  <2> QED BY <2>2, <2>3
<1>3. rows' \in [Codes -> RowType] /\ table' = rows'
  <2>1. rows' = [c \in Codes |-> rows'[c]]
    BY <1>1 DEF Adopted
  <2> QED BY <1>1, <1>2, <2>1
<1>4. DeskOK'
  <2>1. <<>> \in Seq(Tokens) /\ Len(<<>>) = 0 /\ DOMAIN <<>> = {}
    OBVIOUS
  <2> QED BY <1>1, <2>1, AdmissionAssumption DEF DeskOK
<1>5. Live' = {}
  BY <1>1 DEF Live
<1>6. Entered' /\ Alone'
  BY <1>1, <1>5 DEF Entered, Alone
<1>7. ticket' \in [Players -> 0..MaxAccount] /\ socket' \in [Sockets -> SocketType \cup {Nobody}]
  BY <1>1, AdmissionAssumption
<1> QED BY <1>2, <1>3, <1>4, <1>6, <1>7

-----------------------------------------------------------------------------
(* The website and the server's starts.                                    *)
LEMMA WebsiteKeeps ==
  ASSUME AdmissionInv, Shaped', \A c \in Codes : Onward(c),
         \A c \in Codes : \A p \in shown'[c] : p \in shown[c] \/ (p \in Players /\ rows'[c].owner = p),
         UNCHANGED <<revoked, touched, index, draft, saves, kept>>, DeskOK', Entered', Alone'
  PROVE  AdmissionInv'
<1>1. ASSUME NEW c \in Codes
      PROVE  CodeFits(c)'
  <2>1. table'[c] \in RowType /\ CodeFits(c) /\ Onward(c)
    BY DEF Shaped, AdmissionInv
  <2>2. \A p \in shown'[c] : p \in shown[c] \/ (p \in Players /\ rows'[c].owner = p)
    OBVIOUS
  <2> QED BY <2>1, <2>2, ServerWrites
<1>2. SavesOK'
  BY DEF AdmissionInv, SavesOK
<1> QED BY <1>1, <1>2 DEF AdmissionInv

LEMMA NothingOpened ==
  ASSUME AdmissionInv, UNCHANGED logins
  PROVE  /\ DeskOK' /\ Alone'
         /\ ticket' \in [Players -> 0..MaxAccount] /\ socket' \in [Sockets -> SocketType \cup {Nobody}]
<1>1. desk' = desk /\ ticket' = ticket /\ socket' = socket
  BY DEF logins
<1> QED BY <1>1, AloneStays DEF AdmissionInv, DeskOK, Shaped

LEMMA Dies ==
  ASSUME AdmissionInv, Die
  PROVE  AdmissionInv'
<1>1. /\ Restarted(rows) /\ rows \in [Codes -> RowType]
      /\ UNCHANGED <<ids, index, saves, given, draft, shown, revoked, touched, kept>>
  BY DEF Die, history, AdmissionInv, Shaped
<1>2. /\ rows' \in [Codes -> RowType] /\ table' = rows' /\ \A c \in Codes : Onward(c)
      /\ DeskOK' /\ Entered' /\ Alone'
      /\ ticket' \in [Players -> 0..MaxAccount] /\ socket' \in [Sockets -> SocketType \cup {Nobody}]
  <2>1. Shaped /\ \A c \in Codes : CodeFits(c)
    BY DEF AdmissionInv
  <2> QED BY <1>1, <2>1, RestartWrites
<1>3. Shaped'
  BY <1>1, <1>2 DEF AdmissionInv, Shaped
<1>4. \A c \in Codes : \A p \in shown'[c] : p \in shown[c]
  BY <1>1
<1> QED BY <1>1, <1>2, <1>3, <1>4, WebsiteKeeps

(* One code is told to one player, and is theirs.                          *)
LEMMA ToldOnce ==
  ASSUME AdmissionInv, NEW c \in Codes, NEW p \in Players, Told(c, p)
  PROVE  /\ shown' \in [Codes -> SUBSET Players] /\ UNCHANGED <<revoked, touched, kept>>
         /\ \A d \in Codes : \A q \in shown'[d] : q \in shown[d] \/ (d = c /\ q = p)
<1>1. shown' = [shown EXCEPT ![c] = @ \cup {p}] /\ UNCHANGED <<revoked, touched, kept>>
  BY DEF Told
<1>2. shown \in [Codes -> SUBSET Players]
  BY DEF AdmissionInv, Shaped
<1> QED BY <1>1, <1>2

(* One code is claimed.                                                    *)
LEMMA ClaimedRow ==
  ASSUME NEW t \in [Codes -> RowType], NEW c \in Codes, NEW p \in Players
  PROVE  /\ Claimed(t, c, p) \in [Codes -> RowType] /\ Claimed(t, c, p)[c] = Row("active", p)
         /\ \A d \in Codes \ {c} : Claimed(t, c, p)[d] = t[d]
<1> DEFINE r == Row("active", p)
<1>1. r \in RowType
  BY RowsOf
<1> HIDE DEF r
<1> QED BY <1>1 DEF Claimed, r

LEMMA IssuedRow ==
  ASSUME Shaped, NEW c \in Codes
  PROVE  /\ Issued(c, "issued") \in [Codes -> RowType] /\ Issued(c, "issued")[c] = Row("issued", Nobody)
         /\ \A d \in Codes \ {c} : Issued(c, "issued")[d] = rows[d]
<1> DEFINE r == Row("issued", Nobody)
<1>1. r \in RowType /\ rows \in [Codes -> RowType]
  BY RowsOf DEF Shaped
<1> HIDE DEF r
<1> QED BY <1>1 DEF Issued, r

LEMMA SignupRow ==
  ASSUME Shaped, NEW c \in Codes, NEW p \in Players
  PROVE  LET t == Claimed(Issued(c, "issued"), c, p) IN
         /\ t \in [Codes -> RowType] /\ t[c] = Row("active", p)
         /\ \A d \in Codes \ {c} : t[d] = rows[d]
<1> DEFINE s == Issued(c, "issued")
<1>1. s \in [Codes -> RowType] /\ \A d \in Codes \ {c} : s[d] = rows[d]
  BY IssuedRow
<1> HIDE DEF s
<1>2. /\ Claimed(s, c, p) \in [Codes -> RowType] /\ Claimed(s, c, p)[c] = Row("active", p)
      /\ \A d \in Codes \ {c} : Claimed(s, c, p)[d] = s[d]
  BY <1>1, ClaimedRow
<1> QED BY <1>1, <1>2 DEF s

LEMMA GivesOut ==
  ASSUME AdmissionInv, NEW c \in Codes, NEW p \in Players, Unclaimed(rows[c]),
         rows' \in [Codes -> RowType], table' = rows', rows'[c] = Row("active", p),
         \A d \in Codes \ {c} : rows'[d] = rows[d], Told(c, p),
         ids' \subseteq Players, given' \in 0..Fuse,
         UNCHANGED <<index, saves, desk, ticket, socket, draft>>
  PROVE  AdmissionInv'
<1>1. /\ shown' \in [Codes -> SUBSET Players] /\ UNCHANGED <<revoked, touched, kept>>
      /\ \A d \in Codes : \A q \in shown'[d] : q \in shown[d] \/ (d = c /\ q = p)
  BY ToldOnce
<1>2. RowOK(rows'[c]) /\ rows'[c].state = "active" /\ rows'[c].owner = p
  BY RowsOf
<1>3. \A d \in Codes : Onward(d)
  BY <1>2 DEF Onward
<1>4. DeskOK' /\ Alone'
  BY NothingOpened DEF logins
<1>5. Entered'
  BY <1>1, <1>3, EnteredStays DEF AdmissionInv
<1>6. Shaped'
  BY <1>1 DEF AdmissionInv, Shaped
<1>7. \A d \in Codes : \A q \in shown'[d] : q \in shown[d] \/ (q \in Players /\ rows'[d].owner = q)
  BY <1>1, <1>2
<1> QED BY <1>1, <1>3, <1>4, <1>5, <1>6, <1>7, WebsiteKeeps

LEMMA SignsUp ==
  ASSUME AdmissionInv, NEW p \in Players, Signup(p)
  PROVE  AdmissionInv'
<1>1. PICK c \in Unissued : Saved(Claimed(Issued(c, "issued"), c, p)) /\ Told(c, p)
  BY DEF Signup
<1>2. c \in Codes /\ Unclaimed(rows[c])
  BY DEF Unissued, Unclaimed
<1>3. /\ rows' \in [Codes -> RowType] /\ table' = rows' /\ rows'[c] = Row("active", p)
      /\ \A d \in Codes \ {c} : rows'[d] = rows[d]
  <2> DEFINE t == Claimed(Issued(c, "issued"), c, p)
  <2>1. /\ t \in [Codes -> RowType] /\ t[c] = Row("active", p)
        /\ \A d \in Codes \ {c} : t[d] = rows[d]
    BY <1>2, SignupRow DEF AdmissionInv
  <2>2. rows' = t /\ table' = t
    BY <1>1 DEF Saved
  <2> HIDE DEF t
  <2> QED BY <2>1, <2>2
<1>4. ids' \subseteq Players /\ given' \in 0..Fuse /\ UNCHANGED <<index, saves, desk, ticket, socket, draft>>
  <2>1. given \in 0..Fuse /\ given < Fuse /\ given' = given + 1 /\ ids' = ids \cup {p} /\ ids \subseteq Players
    BY DEF Signup, MayBeGiven, AdmissionInv, Shaped
  <2>2. UNCHANGED <<index, saves, desk, ticket, socket, draft>>
    BY DEF Signup, logins
  <2> QED BY <2>1, <2>2, AdmissionAssumption
<1> QED BY <1>1, <1>2, <1>3, <1>4, GivesOut

LEMMA SignupIsCutOff ==
  ASSUME AdmissionInv, NEW p \in Players, SignupDies(p)
  PROVE  AdmissionInv'
<1>1. PICK t \in [Codes -> RowType] :
        /\ Restarted(t)
        /\ \A c \in Codes : \/ t[c] = rows[c]
                            \/ /\ Unclaimed(rows[c]) /\ RowOK(t[c]) /\ t[c].state \in {"issued", "active"}
                               /\ t[c].state = "active" => t[c].owner \in Players
  <2>0. Shaped /\ rows \in [Codes -> RowType]
    BY DEF AdmissionInv, Shaped
  <2>1. CASE Restarted(rows)
    BY <2>0, <2>1
  <2>2. ASSUME NEW c \in Unissued, Restarted(Issued(c, "issued"))
        PROVE  \E t \in [Codes -> RowType] :
                 /\ Restarted(t)
                 /\ \A d \in Codes :
                      \/ t[d] = rows[d]
                      \/ /\ Unclaimed(rows[d]) /\ RowOK(t[d]) /\ t[d].state \in {"issued", "active"}
                         /\ t[d].state = "active" => t[d].owner \in Players
    <3> DEFINE t == Issued(c, "issued")
    <3>1. c \in Codes /\ Unclaimed(rows[c])
      BY DEF Unissued, Unclaimed
    <3>2. t \in [Codes -> RowType] /\ t[c] = Row("issued", Nobody) /\ \A d \in Codes \ {c} : t[d] = rows[d]
      BY <2>0, <3>1, IssuedRow
    <3> HIDE DEF t
    <3>3. RowOK(t[c]) /\ t[c].state = "issued"
      BY <3>2, RowsOf
    <3>4. Restarted(t)
      BY <2>2 DEF t
    <3> QED BY <3>1, <3>2, <3>3, <3>4
  <2>3. ASSUME NEW c \in Unissued, Restarted(Claimed(Issued(c, "issued"), c, p))
        PROVE  \E t \in [Codes -> RowType] :
                 /\ Restarted(t)
                 /\ \A d \in Codes :
                      \/ t[d] = rows[d]
                      \/ /\ Unclaimed(rows[d]) /\ RowOK(t[d]) /\ t[d].state \in {"issued", "active"}
                         /\ t[d].state = "active" => t[d].owner \in Players
    <3> DEFINE t == Claimed(Issued(c, "issued"), c, p)
    <3>1. c \in Codes /\ Unclaimed(rows[c])
      BY DEF Unissued, Unclaimed
    <3>2. t \in [Codes -> RowType] /\ t[c] = Row("active", p) /\ \A d \in Codes \ {c} : t[d] = rows[d]
      BY <2>0, <3>1, SignupRow
    <3>4. Restarted(t)
      BY <2>3
    <3> HIDE DEF t
    <3>3. RowOK(t[c]) /\ t[c].state = "active" /\ t[c].owner \in Players
      BY <3>2, RowsOf
    <3> QED BY <3>1, <3>2, <3>3, <3>4
  <2> QED BY <2>1, <2>2, <2>3 DEF SignupDies
<1>2. /\ UNCHANGED <<index, saves, given, draft, shown, revoked, touched, kept>>
      /\ ids' \subseteq Players
  BY DEF SignupDies, history, AdmissionInv, Shaped
<1>3. /\ rows' \in [Codes -> RowType] /\ table' = rows' /\ \A c \in Codes : Onward(c)
      /\ DeskOK' /\ Entered' /\ Alone'
      /\ ticket' \in [Players -> 0..MaxAccount] /\ socket' \in [Sockets -> SocketType \cup {Nobody}]
  BY <1>1, <1>2, RestartWrites DEF AdmissionInv
<1>4. Shaped'
  BY <1>2, <1>3 DEF AdmissionInv, Shaped
<1>5. \A c \in Codes : \A q \in shown'[c] : q \in shown[c]
  BY <1>2
<1> QED BY <1>2, <1>3, <1>4, <1>5, WebsiteKeeps

LEMMA SignsUpAgain ==
  ASSUME AdmissionInv, NEW p \in Players, SignupAgain(p)
  PROVE  AdmissionInv'
<1>1. PICK c \in Codes : rows[c].owner = p /\ Told(c, p)
  BY DEF SignupAgain, CodesOf
<1>2. table' = rows /\ UNCHANGED <<ids, rows, index, saves, given, desk, ticket, socket, draft>>
  BY DEF SignupAgain, logins
<1>3. /\ shown' \in [Codes -> SUBSET Players] /\ UNCHANGED <<revoked, touched, kept>>
      /\ \A d \in Codes : \A q \in shown'[d] : q \in shown[d] \/ (d = c /\ q = p)
  BY <1>1, ToldOnce
<1>4. \A d \in Codes : Onward(d)
  BY <1>2 DEF Onward
<1>5. DeskOK' /\ Alone' /\ Shaped'
  BY <1>2, <1>3, NothingOpened DEF logins, AdmissionInv, Shaped
<1>6. Entered'
  BY <1>2, <1>3, <1>4, EnteredStays DEF AdmissionInv
<1>7. \A d \in Codes : \A q \in shown'[d] : q \in shown[d] \/ (q \in Players /\ rows'[d].owner = q)
  BY <1>1, <1>2, <1>3
<1> QED BY <1>2, <1>3, <1>4, <1>5, <1>6, <1>7, WebsiteKeeps

LEMMA RegistersCode ==
  ASSUME AdmissionInv, NEW p \in Players, NEW c \in Codes, Register(p, c)
  PROVE  AdmissionInv'
<1>1. UNCHANGED <<ids, index, saves, given, desk, ticket, socket, draft>>
  BY DEF Register, logins
<1>2. CASE Claimable(c)
  <2>1. Saved(Claimed(rows, c, p)) /\ Told(c, p) /\ Unclaimed(rows[c]) /\ rows \in [Codes -> RowType]
    BY <1>2 DEF Register, Claimable, Unclaimed, AdmissionInv, Shaped
  <2>2. /\ rows' \in [Codes -> RowType] /\ table' = rows' /\ rows'[c] = Row("active", p)
        /\ \A d \in Codes \ {c} : rows'[d] = rows[d]
    BY <2>1, ClaimedRow DEF Saved
  <2>3. ids' \subseteq Players /\ given' \in 0..Fuse
    BY <1>1 DEF AdmissionInv, Shaped
  <2> QED BY <1>1, <2>1, <2>2, <2>3, GivesOut
<1>3. CASE ~Claimable(c)
  <2>1. table' = rows /\ UNCHANGED <<rows, shown, revoked, touched, kept>>
    BY <1>3 DEF Register, history
  <2>2. \A d \in Codes : Onward(d)
    BY <2>1 DEF Onward
  <2>3. DeskOK' /\ Alone' /\ Shaped'
    BY <1>1, <2>1, NothingOpened DEF logins, AdmissionInv, Shaped
  <2>4. Entered'
    BY <1>1, <2>1, <2>2, EnteredStays DEF AdmissionInv
  <2>5. \A d \in Codes : \A q \in shown'[d] : q \in shown[d]
    BY <2>1
  <2> QED BY <1>1, <2>1, <2>2, <2>3, <2>4, <2>5, WebsiteKeeps
<1> QED BY <1>2, <1>3

(* What concerns only identities, or what the server last read.            *)
LEMMA OnlyNames ==
  ASSUME AdmissionInv, ids' \subseteq Players, table' = table \/ table' = rows,
         UNCHANGED <<rows, index, saves, given, desk, ticket, socket, draft, shown, revoked, touched, kept>>
  PROVE  AdmissionInv'
<1>1. \A d \in Codes : Onward(d)
  BY DEF Onward
<1>2. DeskOK' /\ Alone' /\ Shaped'
  BY NothingOpened DEF logins, AdmissionInv, Shaped
<1>3. Entered'
  BY <1>1, EnteredStays DEF AdmissionInv
<1>4. \A d \in Codes : \A q \in shown'[d] : q \in shown[d]
  OBVIOUS
<1> QED BY <1>1, <1>2, <1>3, <1>4, WebsiteKeeps
-----------------------------------------------------------------------------
(* Logging in.                                                             *)
LEMMA LeastIsThere ==
  ASSUME NEW S \in SUBSET Nat, S # {}
  PROVE  Least(S) \in S
<1> DEFINE R == {pair \in Nat \X Nat : pair[1] < pair[2]}
<1>1. IsWellFoundedOn(R, Nat)
  BY NatLessThanWellFounded DEF OpToRel
<1>2. \A a, b \in Nat : a < b => <<a, b>> \in R
  OBVIOUS
<1> HIDE DEF R
<1>3. PICK n \in S : \A m \in S : ~ (<<m, n>> \in R)
  BY <1>1, WFMin
<1>4. \A m \in S : ~ (m < n)
  BY <1>2, <1>3
<1>5. \A m \in S : n <= m
  BY <1>4
<1> QED BY <1>5 DEF Least

(* A new token at the end of the desk's, the oldest dropped if need be.    *)
LEMMA TokenMinted ==
  ASSUME NEW d \in Seq(Tokens), Len(d) <= TokenLimit, \A i \in DOMAIN d : TokenOK(d[i]),
         NEW t \in Tokens, TokenOK(t)
  PROVE  /\ Minted(d, t) \in Seq(Tokens) /\ Len(Minted(d, t)) <= TokenLimit
         /\ \A i \in DOMAIN Minted(d, t) : TokenOK(Minted(d, t)[i])
<1> DEFINE all == Append(d, t)
<1>1. /\ all \in Seq(Tokens) /\ all # <<>> /\ Len(all) = Len(d) + 1
      /\ \A i \in 1..Len(d) : all[i] = d[i]
      /\ all[Len(d) + 1] = t
  BY AppendProperties
<1>2. Len(d) \in Nat /\ DOMAIN d = 1..Len(d)
  BY LenProperties
<1>3. Minted(d, t) = IF Len(all) > TokenLimit THEN Tail(all) ELSE all
  BY DEF Minted
<1> HIDE DEF all
<1>4. \A i \in 1..Len(all) : TokenOK(all[i])
  <2>1. \A i \in 1..(Len(d) + 1) : i \in 1..Len(d) \/ i = Len(d) + 1
    BY <1>2
  <2> QED BY <1>1, <1>2, <2>1
<1>5. CASE Len(all) > TokenLimit
  <2>1. /\ Tail(all) \in Seq(Tokens) /\ Len(Tail(all)) = Len(all) - 1
        /\ \A i \in 1..Len(Tail(all)) : Tail(all)[i] = all[i+1]
    BY <1>1, HeadTailProperties
  <2>2. DOMAIN Tail(all) = 1..Len(Tail(all))
    BY <2>1, LenProperties
  <2>3. \A i \in DOMAIN Tail(all) : TokenOK(Tail(all)[i])
    <3>1. \A i \in 1..(Len(all) - 1) : i + 1 \in 1..Len(all)
      BY <1>1, <1>2
    <3> QED BY <1>4, <2>1, <2>2, <3>1
  <2>4. Len(Tail(all)) <= TokenLimit
    BY <1>1, <2>1
  <2>5. Minted(d, t) = Tail(all)
    BY <1>3, <1>5
  <2> QED BY <2>1, <2>3, <2>4, <2>5
<1>6. CASE ~ (Len(all) > TokenLimit)
  <2>1. Minted(d, t) = all
    BY <1>3, <1>6
  <2>2. DOMAIN all = 1..Len(all)
    BY <1>1, LenProperties
  <2>3. Len(all) <= TokenLimit
    BY <1>1, <1>2, <1>6, AdmissionAssumption
  <2> QED BY <1>1, <1>4, <2>1, <2>2, <2>3
<1> QED BY <1>5, <1>6

(* Whoever forgets a token leaves it to nobody.                            *)
LEMMA TokensForgotten ==
  ASSUME DeskOK, NEW p \in Players
  PROVE  LET older == [i \in DOMAIN desk |-> IF desk[i].by = p THEN [desk[i] EXCEPT !.by = Nobody]
                                             ELSE desk[i]]
         IN older \in Seq(Tokens) /\ Len(older) = Len(desk) /\ \A i \in DOMAIN older : TokenOK(older[i])
<1> DEFINE older == [i \in DOMAIN desk |-> IF desk[i].by = p THEN [desk[i] EXCEPT !.by = Nobody]
                                           ELSE desk[i]]
<1>1. /\ Len(desk) \in Nat /\ DOMAIN desk = 1..Len(desk) /\ desk \in [1..Len(desk) -> Tokens]
  BY LenProperties DEF DeskOK
<1>2. ASSUME NEW i \in DOMAIN desk
      PROVE  older[i] \in Tokens /\ TokenOK(older[i])
  <2>1. desk[i] \in Tokens /\ TokenOK(desk[i])
    BY <1>1 DEF DeskOK
  <2> DEFINE t == [desk[i] EXCEPT !.by = Nobody]
  <2>2. t \in Tokens /\ t.by = Nobody
    BY <2>1 DEF Tokens
  <2>3. TokenOK(t)
    BY <2>2, AdmissionAssumption DEF TokenOK
  <2>4. older[i] = IF desk[i].by = p THEN t ELSE desk[i]
    OBVIOUS
  <2> HIDE DEF t, older
  <2> QED BY <2>1, <2>2, <2>3, <2>4
<1>3. DOMAIN older = 1..Len(desk) /\ older = [i \in 1..Len(desk) |-> older[i]]
  BY <1>1
<1> HIDE DEF older
<1>4. older \in [1..Len(desk) -> Tokens]
  BY <1>1, <1>2, <1>3
<1>5. older \in Seq(Tokens)
  BY <1>1, <1>4, SeqDef
<1>6. Len(older) \in Nat /\ DOMAIN older = 1..Len(older)
  BY <1>5, LenProperties
<1>7. Len(older) = Len(desk)
  BY <1>1, <1>3, <1>6
<1>8. older \in Seq(Tokens) /\ Len(older) = Len(desk) /\ \A i \in DOMAIN older : TokenOK(older[i])
  BY <1>1, <1>2, <1>3, <1>5, <1>7
<1> QED BY <1>8 DEF older

(* Steps that change no table keep what is said of the codes and saves.    *)
LEMMA TablesStay ==
  ASSUME AdmissionInv, UNCHANGED <<tables, draft, history>>,
         DeskOK', Entered', Alone', ticket' \in [Players -> 0..MaxAccount],
         socket' \in [Sockets -> SocketType \cup {Nobody}]
  PROVE  AdmissionInv'
<1>1. UNCHANGED <<ids, rows, table, index, saves, given, draft, shown, revoked, touched, kept>>
  BY DEF tables, history
<1>2. Shaped'
  BY <1>1 DEF AdmissionInv, Shaped
<1>3. SavesOK'
  BY <1>1 DEF AdmissionInv, SavesOK
<1>4. \A c \in Codes : CodeFits(c)'
  BY <1>1 DEF AdmissionInv, CodeFits
<1> QED BY <1>2, <1>3, <1>4 DEF AdmissionInv

LEMMA HeldUnchanged ==
  ASSUME UNCHANGED tables, UNCHANGED history, NEW a, NEW p, Held(a, p)
  PROVE  Held(a, p)'
BY DEF tables, history, Held, Taken

LEMMA SignsIn ==
  ASSUME AdmissionInv, NEW p \in Players, NEW verified \in BOOLEAN, SignIn(p, verified)
  PROVE  AdmissionInv'
<1> DEFINE older == [i \in DOMAIN desk |-> IF desk[i].by = p THEN [desk[i] EXCEPT !.by = Nobody]
                                           ELSE desk[i]]
           who == IF verified THEN p ELSE Nobody
           t == [by |-> p, who |-> who]
<1>1. desk' = Minted(older, t) /\ UNCHANGED <<tables, ticket, socket, draft, history>>
  BY Zenon DEF SignIn
<1>2. older \in Seq(Tokens) /\ Len(older) = Len(desk) /\ \A i \in DOMAIN older : TokenOK(older[i])
  BY TokensForgotten DEF AdmissionInv
<1>3. who \in {p, Nobody}
  OBVIOUS
<1> HIDE DEF who
<1>4. t \in Tokens /\ t.by = p /\ t.who = who
  BY <1>3 DEF Tokens
<1> HIDE DEF t, older
<1>5. TokenOK(t)
  BY <1>3, <1>4 DEF TokenOK
<1>6. Len(older) <= TokenLimit
  BY <1>2 DEF AdmissionInv, DeskOK
<1>7. DeskOK'
  BY <1>1, <1>2, <1>4, <1>5, <1>6, TokenMinted DEF DeskOK
<1>8. Live' = Live
  BY <1>1 DEF Live
<1>9. Entered'
  BY <1>1, <1>8, HeldUnchanged DEF Entered, AdmissionInv
<1>10. Alone'
  BY <1>1, AloneStays DEF AdmissionInv
<1>11. ticket' \in [Players -> 0..MaxAccount] /\ socket' \in [Sockets -> SocketType \cup {Nobody}]
  BY <1>1 DEF AdmissionInv, Shaped
<1> QED BY <1>1, <1>7, <1>9, <1>10, <1>11, TablesStay

(* A token of p's stands for p if for anybody.                             *)
LEMMA SignedInAsOneself ==
  ASSUME DeskOK, NEW p \in Players
  PROVE  SignedInAs(p) \subseteq {p}
BY DEF DeskOK, TokenOK, SignedInAs

LEMMA LogsIn ==
  ASSUME AdmissionInv, NEW p \in Players, NEW c \in Codes, Login(p, c)
  PROVE  AdmissionInv'
<1>0. PICK a : a = IF index[c] # 0 THEN index[c] ELSE Least(Free)
  OBVIOUS
<1>1. /\ index' = [index EXCEPT ![c] = a] /\ ticket' = [ticket EXCEPT ![p] = a] /\ table' = rows
      /\ UNCHANGED <<ids, rows, saves, given, desk, socket, draft, shown, revoked, touched, kept>>
  BY <1>0, Zenon DEF Login, history
<1>2. /\ rows[c].state = "active"
      /\ rows[c].owner = Nobody \/ rows[c].owner = p
  <2>1. SignedInAs(p) \subseteq {p}
    BY SignedInAsOneself DEF AdmissionInv
  <2> QED BY <2>1 DEF Login, MayEnter
<1>3. index \in [Codes -> 0..MaxAccount] /\ ticket \in [Players -> 0..MaxAccount] /\ CodeFits(c)
  BY DEF AdmissionInv, Shaped
<1>4. a \in 1..MaxAccount /\ (index[c] = 0 => a \in Free)
  <2>1. CASE index[c] # 0
    BY <1>0, <1>3, <2>1, AdmissionAssumption
  <2>2. CASE index[c] = 0
    <3>1. Free # {} /\ Free \in SUBSET Nat
      BY <2>2 DEF Login, Free
    <3>2. Least(Free) \in Free
      BY <3>1, LeastIsThere
    <3> QED BY <1>0, <2>2, <3>2 DEF Free
  <2> QED BY <2>1, <2>2
<1>5. a = index[c] \/ (index[c] = 0 /\ a \notin Taken)
  BY <1>0, <1>4 DEF Free
<1>6. /\ index' \in [Codes -> 0..MaxAccount] /\ index'[c] = a
      /\ \A d \in Codes \ {c} : index'[d] = index[d]
  BY <1>1, <1>3, <1>4
<1>7. /\ ticket' \in [Players -> 0..MaxAccount] /\ ticket'[p] = a
      /\ \A q \in Players \ {p} : ticket'[q] = ticket[q]
  BY <1>1, <1>3, <1>4
<1>8. Shaped' /\ DeskOK' /\ Alone'
  <2>1. Shaped'
    BY <1>1, <1>6, <1>7 DEF AdmissionInv, Shaped
  <2>2. DeskOK' /\ Alone'
    BY <1>1, AloneStays DEF AdmissionInv, DeskOK
  <2> QED BY <2>1, <2>2
<1>9. \A d \in Codes : CodeFits(d)'
  <2>1. \A d \in Codes : table'[d] \in RowType
    BY <1>1 DEF AdmissionInv, Shaped
  <2>2. \A d \in Codes : index'[d] = index[d] \/ index'[d] = 0 \/ rows[d].state = "active"
    BY <1>2, <1>6
  <2> QED BY <1>1, <2>1, <2>2, ServerReads DEF AdmissionInv
<1>10. SavesOK'
  <2>1. \A d, e \in Codes : index'[d] = index'[e] /\ index'[d] # 0 => d = e
    <3>1. \A d \in Codes : index[d] = a => d = c
      <4>1. CASE a = index[c]
        BY <1>4, <4>1 DEF AdmissionInv, SavesOK
      <4>2. CASE a \notin Taken
        BY <4>2 DEF Taken
      <4> QED BY <1>5, <4>1, <4>2
    <3> QED BY <1>6, <3>1 DEF AdmissionInv, SavesOK
  <2>2. \A b \in saves', d \in Codes : index'[d] = b => d = kept'[b]
    <3>1. a = index[c] \/ a \notin saves
      BY <1>5 DEF Taken
    <3> QED BY <1>1, <1>6, <3>1 DEF AdmissionInv, SavesOK
  <2> QED BY <2>1, <2>2 DEF SavesOK
<1>11. ASSUME NEW b, NEW q, Held(b, q), b # 0, b # a \/ q = p
       PROVE  Held(b, q)'
  <2>1. b \in Taken'
    <3>1. b \in saves \/ \E d \in Codes : index[d] = b
      BY <1>11 DEF Held, Taken
    <3>2. CASE b \in saves
      BY <1>1, <3>2 DEF Taken
    <3>3. ASSUME NEW d \in Codes, index[d] = b
          PROVE  b \in Taken'
      <4>1. index'[d] = b
        BY <1>5, <1>6, <1>11, <3>3
      <4> QED BY <4>1 DEF Taken
    <3> QED BY <3>1, <3>2, <3>3
  <2>2. ASSUME NEW d \in Codes \ touched', index'[d] = b
        PROVE  rows'[d].owner = q
    <3>1. CASE d # c
      BY <1>1, <1>6, <1>11, <2>2, <3>1 DEF Held
    <3>2. CASE d = c
      <4>1. q = p /\ d \in Codes \ touched
        BY <1>1, <1>6, <1>11, <2>2, <3>2
      <4>2. rows[c].owner \in Players
        BY <1>2, <1>3, <3>2, <4>1 DEF CodeFits
      <4>3. rows[c].owner = p
        BY <1>2, <4>2, AdmissionAssumption
      <4> QED BY <1>1, <3>2, <4>1, <4>3
    <3> QED BY <3>1, <3>2
  <2> QED BY <2>1, <2>2 DEF Held
<1>12. ASSUME NEW b, NEW q, Held(b, q), b # 0
       PROVE  Held(b, q)'
  <2>1. CASE b # a
    BY <1>11, <1>12, <2>1
  <2>2. CASE b = a
    <3>1. a = index[c]
      BY <1>5, <1>12, <2>2 DEF Held
    <3>2. \A d \in Codes : index'[d] = index[d]
      BY <1>6, <3>1
    <3>3. b \in Taken'
      BY <1>1, <1>12, <3>2 DEF Held, Taken
    <3>4. \A d \in Codes \ touched' : index'[d] = b => rows'[d].owner = q
      BY <1>1, <1>12, <3>2 DEF Held
    <3> QED BY <3>3, <3>4 DEF Held
  <2> QED BY <2>1, <2>2
<1>13. Held(a, p)'
  <2>1. a \in Taken'
    BY <1>6 DEF Taken
  <2>2. ASSUME NEW d \in Codes \ touched', index'[d] = a
        PROVE  rows'[d].owner = p
    <3>1. d = c
      BY <1>4, <1>6, <1>10, <2>2 DEF SavesOK
    <3>2. rows[c].owner \in Players
      BY <1>1, <1>2, <1>3, <1>4, <1>6, <2>2, <3>1 DEF CodeFits
    <3> QED BY <1>1, <1>2, <3>1, <3>2, AdmissionAssumption
  <2> QED BY <2>1, <2>2 DEF Held
<1>14. Entered'
  <2>1. \A q \in Players : ticket'[q] # 0 => Held(ticket[q], q)'
    <3> SUFFICES ASSUME NEW q \in Players, ticket'[q] # 0
                 PROVE  Held(ticket[q], q)'
      OBVIOUS
    <3>1. PICK b : b = ticket'[q]
      OBVIOUS
    <3>2. Held(b, q)'
      <4>1. CASE q = p
        BY <1>7, <1>13, <3>1, <4>1
      <4>2. CASE q # p
        <5>1. b = ticket[q] /\ b # 0
          BY <1>7, <3>1, <4>2
        <5>2. Held(b, q)
          BY <5>1 DEF AdmissionInv, Entered
        <5> QED BY <1>12, <5>1, <5>2
      <4> QED BY <4>1, <4>2
    <3> QED BY <3>1, <3>2 DEF Held
  <2>2. \A s \in Live' : Held(socket[s].account, socket[s].by)'
    <3>1. Live' = Live /\ socket' = socket
      BY <1>1 DEF Live
    <3>2. \A s \in Live : socket[s].account # 0 /\ Held(socket[s].account, socket[s].by)
      BY DEF AdmissionInv, Shaped, SocketType, Live, Entered
    <3> SUFFICES ASSUME NEW s \in Live
                 PROVE  Held(socket[s].account, socket[s].by)'
      BY <3>1
    <3>3. PICK b, q : b = socket[s].account /\ q = socket[s].by
      OBVIOUS
    <3>4. Held(b, q)'
      BY <1>12, <3>2, <3>3
    <3> QED BY <3>1, <3>3, <3>4 DEF Held
  <2> QED BY <2>1, <2>2 DEF Entered
<1> QED BY <1>8, <1>9, <1>10, <1>14 DEF AdmissionInv
-----------------------------------------------------------------------------
(* Connections.                                                            *)
LEMMA SocketSet ==
  ASSUME AdmissionInv, NEW s \in Sockets, NEW r \in SocketType \cup {Nobody},
         socket' = [socket EXCEPT ![s] = r]
  PROVE  /\ socket' \in [Sockets -> SocketType \cup {Nobody}] /\ socket'[s] = r
         /\ \A o \in Sockets \ {s} : socket'[o] = socket[o]
BY DEF AdmissionInv, Shaped

LEMMA OfLive ==
  ASSUME AdmissionInv, NEW s \in Live
  PROVE  s \in Sockets /\ socket[s] \in SocketType /\ Held(socket[s].account, socket[s].by)
BY DEF AdmissionInv, Shaped, Live, Entered

(* A connection is opened, changed or closed, and tickets with it.         *)
LEMMA SocketsMove ==
  ASSUME AdmissionInv, UNCHANGED <<tables, desk, draft, history>>,
         ticket' \in [Players -> 0..MaxAccount], socket' \in [Sockets -> SocketType \cup {Nobody}],
         \A p \in Players : ticket'[p] # 0 => Held(ticket'[p], p),
         \A s \in Sockets : socket'[s] # Nobody => Held(socket'[s].account, socket'[s].by),
         Alone'
  PROVE  AdmissionInv'
<1>1. \A a, p : Held(a, p) => Held(a, p)'
  BY HeldUnchanged
<1>2. Entered'
  <2>1. ASSUME NEW p \in Players, ticket'[p] # 0
        PROVE  Held(ticket[p], p)'
    <3>1. PICK a : a = ticket'[p]
      OBVIOUS
    <3>2. Held(a, p)
      BY <2>1, <3>1
    <3>3. Held(a, p)'
      BY <1>1, <3>2
    <3> QED BY <3>1, <3>3 DEF Held
  <2>2. ASSUME NEW s \in Live'
        PROVE  Held(socket[s].account, socket[s].by)'
    <3>1. PICK a, p : a = socket'[s].account /\ p = socket'[s].by
      OBVIOUS
    <3>2. s \in Sockets /\ socket'[s] # Nobody
      BY <2>2 DEF Live
    <3>3. Held(a, p)
      BY <3>1, <3>2
    <3>4. Held(a, p)'
      BY <1>1, <3>3
    <3> QED BY <3>1, <3>4 DEF Held
  <2> QED BY <2>1, <2>2 DEF Entered
<1>3. DeskOK'
  BY DEF AdmissionInv, DeskOK
<1> QED BY <1>2, <1>3, TablesStay

LEMMA Connects ==
  ASSUME AdmissionInv, NEW p \in Players, NEW s \in Sockets, Connect(p, s)
  PROVE  AdmissionInv'
<1> DEFINE r == [by |-> p, account |-> ticket[p], loggedIn |-> FALSE, handedOn |-> FALSE]
<1>1. /\ ticket[p] # 0 /\ socket[s] = Nobody /\ socket' = [socket EXCEPT ![s] = r]
      /\ UNCHANGED <<tables, desk, ticket, draft, history>>
  BY Zenon DEF Connect
<1>2. ticket \in [Players -> 0..MaxAccount] /\ Held(ticket[p], p)
  BY <1>1 DEF AdmissionInv, Shaped, Entered
<1>3. ticket[p] \in 1..MaxAccount
  BY <1>1, <1>2, AdmissionAssumption
<1>4. r \in SocketType
  BY <1>3 DEF SocketType
<1>5. r.by = p /\ r.account = ticket[p] /\ r.loggedIn = FALSE /\ r.handedOn = FALSE
  OBVIOUS
<1> HIDE DEF r
<1>6. /\ socket' \in [Sockets -> SocketType \cup {Nobody}] /\ socket'[s] = r
      /\ \A o \in Sockets \ {s} : socket'[o] = socket[o]
  BY <1>1, <1>4, SocketSet
<1>7. Alone'
  <2>1. Live' \subseteq Live \cup {s}
    BY <1>6 DEF Live
  <2>2. ASSUME NEW t \in Live', socket'[t].loggedIn, ~socket'[t].handedOn
        PROVE  Rivals(t)' = {}
    <3>1. t # s /\ t \in Live /\ socket'[t] = socket[t]
      BY <1>5, <1>6, <2>1, <2>2 DEF Live
    <3>2. Rivals(t) = {}
      BY <2>2, <3>1 DEF AdmissionInv, Alone
    <3>3. ASSUME NEW o \in Live' \ {t}, socket'[o].loggedIn, ~socket'[o].handedOn,
                 socket'[o].account = socket'[t].account
          PROVE  FALSE
      <4>1. o # s /\ o \in Live /\ socket'[o] = socket[o]
        BY <1>5, <1>6, <2>1, <3>3 DEF Live
      <4> QED BY <3>1, <3>2, <3>3, <4>1 DEF Rivals
    <3> QED BY <3>3 DEF Rivals
  <2> QED BY <2>2 DEF Alone
<1>8. \A t \in Sockets : socket'[t] # Nobody => Held(socket'[t].account, socket'[t].by)
  BY <1>2, <1>5, <1>6, OfLive DEF Live
<1>9. \A q \in Players : ticket'[q] # 0 => Held(ticket'[q], q)
  BY <1>1 DEF AdmissionInv, Entered
<1> QED BY <1>1, <1>2, <1>6, <1>7, <1>8, <1>9, SocketsMove

LEMMA LogsIntoGame ==
  ASSUME AdmissionInv, NEW s \in Sockets, GameLogin(s)
  PROVE  AdmissionInv'
<1> DEFINE r == [socket[s] EXCEPT !.loggedIn = TRUE]
<1>1. /\ s \in Live /\ Rivals(s) = {} /\ socket' = [socket EXCEPT ![s] = r]
      /\ UNCHANGED <<tables, desk, ticket, draft, history>>
  BY DEF GameLogin
<1>2. socket[s] \in SocketType /\ Held(socket[s].account, socket[s].by)
  BY <1>1, OfLive
<1>3. r \in SocketType
  BY <1>2 DEF SocketType
<1>4. r.by = socket[s].by /\ r.account = socket[s].account /\ r.loggedIn = TRUE
  BY <1>2 DEF SocketType
<1>4a. r.handedOn = socket[s].handedOn
  BY <1>2, Zenon DEF SocketType
<1> HIDE DEF r
<1>5. /\ socket' \in [Sockets -> SocketType \cup {Nobody}] /\ socket'[s] = r
      /\ \A o \in Sockets \ {s} : socket'[o] = socket[o]
  BY <1>1, <1>3, SocketSet
<1>6. Live' \subseteq Live
  BY <1>1, <1>5 DEF Live
<1>7. Alone'
  <2>1. ASSUME NEW t \in Live', NEW o \in Live' \ {t}, socket'[t].loggedIn, ~socket'[t].handedOn,
               socket'[o].loggedIn, ~socket'[o].handedOn, socket'[o].account = socket'[t].account
        PROVE  FALSE
    <3>0. o \in Live /\ t \in Live /\ o # t /\ o \in Sockets /\ t \in Sockets
      BY <1>6 DEF Live
    <3>1. CASE t = s
      <4>1. socket'[o] = socket[o] /\ socket[o].account = socket[s].account
        BY <1>4, <1>5, <2>1, <3>0, <3>1
      <4> QED BY <1>1, <2>1, <3>0, <3>1, <4>1 DEF Rivals
    <3>2. CASE o = s
      <4>1. socket'[t] = socket[t] /\ socket[t].account = socket[s].account
        BY <1>4, <1>5, <2>1, <3>0, <3>2
      <4> QED BY <1>1, <2>1, <3>0, <3>2, <4>1 DEF Rivals
    <3>3. CASE t # s /\ o # s
      <4>1. socket'[t] = socket[t] /\ socket'[o] = socket[o]
        BY <1>5, <3>0, <3>3
      <4>2. Rivals(t) = {}
        BY <2>1, <3>0, <4>1 DEF AdmissionInv, Alone
      <4> QED BY <2>1, <3>0, <4>1, <4>2 DEF Rivals
    <3> QED BY <3>1, <3>2, <3>3
  <2>2. ASSUME NEW t \in Live', socket'[t].loggedIn, ~socket'[t].handedOn
        PROVE  Rivals(t)' = {}
    BY <2>1, <2>2 DEF Rivals
  <2> QED BY <2>2 DEF Alone
<1>8. \A t \in Sockets : socket'[t] # Nobody => Held(socket'[t].account, socket'[t].by)
  BY <1>2, <1>4, <1>5, OfLive DEF Live
<1>9. /\ ticket' \in [Players -> 0..MaxAccount]
      /\ \A q \in Players : ticket'[q] # 0 => Held(ticket'[q], q)
  BY <1>1 DEF AdmissionInv, Entered, Shaped
<1> QED BY <1>1, <1>5, <1>7, <1>8, <1>9, SocketsMove

(* Who is handed on or gone is nobody's rival.                             *)
LEMMA FewerRivals ==
  ASSUME AdmissionInv, NEW s \in Sockets, socket'[s] # Nobody => socket'[s].handedOn,
         \A o \in Sockets \ {s} : socket'[o] = socket[o]
  PROVE  Alone'
<1>1. ASSUME NEW t \in Live', NEW o \in Live' \ {t}, socket'[t].loggedIn, ~socket'[t].handedOn,
             socket'[o].loggedIn, ~socket'[o].handedOn, socket'[o].account = socket'[t].account
      PROVE  FALSE
  <2>1. t # s /\ o # s /\ t \in Sockets /\ o \in Sockets /\ o # t
    BY <1>1 DEF Live
  <2>2. socket'[t] = socket[t] /\ socket'[o] = socket[o] /\ t \in Live /\ o \in Live
    BY <1>1, <2>1 DEF Live
  <2>3. Rivals(t) = {}
    BY <1>1, <2>2 DEF AdmissionInv, Alone
  <2> QED BY <1>1, <2>1, <2>2, <2>3 DEF Rivals
<1>2. ASSUME NEW t \in Live', socket'[t].loggedIn, ~socket'[t].handedOn
      PROVE  Rivals(t)' = {}
  BY <1>1, <1>2 DEF Rivals
<1> QED BY <1>2 DEF Alone

LEMMA SelectsSchool ==
  ASSUME AdmissionInv, NEW s \in Sockets, SchoolSelect(s)
  PROVE  AdmissionInv'
<1> DEFINE r == [socket[s] EXCEPT !.handedOn = TRUE]
<1>1. /\ s \in Live /\ socket' = [socket EXCEPT ![s] = r]
      /\ ticket' = [ticket EXCEPT ![socket[s].by] = socket[s].account]
      /\ UNCHANGED <<tables, desk, draft, history>>
  BY DEF SchoolSelect
<1>2. socket[s] \in SocketType /\ Held(socket[s].account, socket[s].by)
  BY <1>1, OfLive
<1>3. r \in SocketType /\ r.by = socket[s].by /\ r.account = socket[s].account /\ r.handedOn = TRUE
  BY <1>2 DEF SocketType
<1> HIDE DEF r
<1>4. /\ socket' \in [Sockets -> SocketType \cup {Nobody}] /\ socket'[s] = r
      /\ \A o \in Sockets \ {s} : socket'[o] = socket[o]
  BY <1>1, <1>3, SocketSet
<1>5. Alone'
  BY <1>3, <1>4, FewerRivals
<1>6. \A t \in Sockets : socket'[t] # Nobody => Held(socket'[t].account, socket'[t].by)
  BY <1>2, <1>3, <1>4, OfLive DEF Live
<1>7. PICK p \in Players, a \in 1..MaxAccount : p = socket[s].by /\ a = socket[s].account
  BY <1>2 DEF SocketType
<1>8. ticket \in [Players -> 0..MaxAccount] /\ \A q \in Players : ticket[q] # 0 => Held(ticket[q], q)
  BY DEF AdmissionInv, Entered, Shaped
<1>9. /\ ticket' \in [Players -> 0..MaxAccount] /\ ticket'[p] = a
      /\ \A q \in Players \ {p} : ticket'[q] = ticket[q]
  BY <1>1, <1>7, <1>8
<1>10. \A q \in Players : ticket'[q] # 0 => Held(ticket'[q], q)
  BY <1>2, <1>7, <1>8, <1>9
<1> QED BY <1>1, <1>4, <1>5, <1>6, <1>9, <1>10, SocketsMove

LEMMA Disconnects ==
  ASSUME AdmissionInv, NEW s \in Sockets, Disconnect(s)
  PROVE  AdmissionInv'
<1>1. socket' = [socket EXCEPT ![s] = Nobody] /\ UNCHANGED <<tables, desk, ticket, draft, history>>
  BY DEF Disconnect
<1>2. /\ socket' \in [Sockets -> SocketType \cup {Nobody}] /\ socket'[s] = Nobody
      /\ \A o \in Sockets \ {s} : socket'[o] = socket[o]
  BY <1>1, SocketSet
<1>3. Alone'
  BY <1>2, FewerRivals
<1>4. \A t \in Sockets : socket'[t] # Nobody => Held(socket'[t].account, socket'[t].by)
  BY <1>2, OfLive DEF Live
<1>5. /\ ticket' \in [Players -> 0..MaxAccount]
      /\ \A q \in Players : ticket'[q] # 0 => Held(ticket'[q], q)
  BY <1>1 DEF AdmissionInv, Entered, Shaped
<1> QED BY <1>1, <1>2, <1>3, <1>4, <1>5, SocketsMove

(* An account's directory is made: its save is the one code's that names it.*)
LEMMA MakesSave ==
  ASSUME AdmissionInv, NEW s \in Sockets, MakeSave(s)
  PROVE  AdmissionInv'
<1>0. PICK a : a = socket[s].account
  OBVIOUS
<1> DEFINE k == IF \E c \in Codes : index[c] = a THEN CHOOSE c \in Codes : index[c] = a ELSE kept[a]
<1>1. /\ s \in Live /\ a \notin saves /\ saves' = saves \cup {a} /\ kept' = [kept EXCEPT ![a] = k]
      /\ UNCHANGED <<ids, rows, table, index, given, desk, ticket, socket, draft, shown, revoked, touched>>
  BY <1>0 DEF MakeSave, logins
<1>2. a \in 1..MaxAccount
  <2>1. socket[s] \in SocketType
    BY <1>1, OfLive
  <2> QED BY <1>0, <2>1 DEF SocketType
<1>3. k \in Codes \cup {Nobody} /\ \A c \in Codes : index[c] = a => c = k
  <2>1. kept[a] \in Codes \cup {Nobody}
    BY <1>2 DEF AdmissionInv, Shaped
  <2>2. \A c, d \in Codes : index[c] = a /\ index[d] = a => c = d
    BY <1>2 DEF AdmissionInv, SavesOK
  <2>3. CASE \E c \in Codes : index[c] = a
    <3>1. k \in Codes /\ index[k] = a
      BY <2>3
    <3> QED BY <2>2, <3>1
  <2>4. CASE ~ \E c \in Codes : index[c] = a
    BY <2>1, <2>4
  <2> QED BY <2>3, <2>4
<1> HIDE DEF k
<1>4. /\ kept' \in [1..MaxAccount -> Codes \cup {Nobody}] /\ kept'[a] = k
      /\ \A b \in saves : kept'[b] = kept[b]
  BY <1>1, <1>2, <1>3 DEF AdmissionInv, Shaped
<1>5. Shaped'
  BY <1>1, <1>2, <1>4 DEF AdmissionInv, Shaped
<1>6. SavesOK'
  BY <1>1, <1>3, <1>4 DEF AdmissionInv, SavesOK
<1>7. \A c \in Codes : CodeFits(c)'
  BY <1>1 DEF AdmissionInv, CodeFits
<1>8. DeskOK' /\ Alone'
  BY <1>1, AloneStays DEF AdmissionInv, DeskOK
<1>9. Entered'
  BY <1>1, EnteredStays DEF AdmissionInv, Onward
<1> QED BY <1>5, <1>6, <1>7, <1>8, <1>9 DEF AdmissionInv
-----------------------------------------------------------------------------
(* The operator.                                                           *)
LEMMA OperatorLooks ==
  ASSUME AdmissionInv, OperatorReads
  PROVE  AdmissionInv'
<1>1. draft' = rows /\ UNCHANGED <<ids, rows, table, index, saves, given, desk, ticket, socket, shown, revoked, touched, kept>>
  BY DEF OperatorReads, tables, logins, history
<1>2. Shaped'
  BY <1>1 DEF AdmissionInv, Shaped
<1>3. \A c \in Codes : CodeFits(c)'
  BY <1>1 DEF AdmissionInv, CodeFits
<1>4. DeskOK' /\ SavesOK' /\ Alone'
  BY <1>1, AloneStays DEF AdmissionInv, DeskOK, SavesOK
<1>5. Entered'
  BY <1>1, EnteredStays DEF AdmissionInv, Onward
<1> QED BY <1>2, <1>3, <1>4, <1>5 DEF AdmissionInv

(* What is written is what was read, but for one row: another row that     *)
(* changes by it goes back to one that nobody had claimed.                 *)
LEMMA OperatorEdits ==
  ASSUME AdmissionInv, draft # Nobody, NEW c \in Codes, NEW row, RowOK(row), OperatorWrites(c, row)
  PROVE  AdmissionInv'
<1> DEFINE new == [draft EXCEPT ![c] = row]
           changed == {d \in Codes : new[d] # rows[d]}
<1>1. /\ rows' = new /\ draft' = Nobody
      /\ shown' = [d \in Codes |-> IF d \in changed THEN {} ELSE shown[d]]
      /\ revoked' = (revoked \ changed) \cup (IF row.state = "suspended" THEN {c} ELSE {})
      /\ touched' = touched \cup changed
      /\ UNCHANGED <<ids, table, index, saves, given, desk, ticket, socket, kept>>
  BY Zenon DEF OperatorWrites, logins
<1>2. draft \in [Codes -> RowType] /\ row \in RowType /\ rows \in [Codes -> RowType]
  BY DEF AdmissionInv, Shaped, RowOK
<1>3. new \in [Codes -> RowType] /\ new[c] = row /\ \A d \in Codes \ {c} : new[d] = draft[d]
  BY <1>2
<1> HIDE DEF new
<1>4. changed \subseteq Codes /\ \A d \in Codes : d \in changed <=> new[d] # rows[d]
  OBVIOUS
<1> HIDE DEF changed
<1>5. /\ shown' \in [Codes -> SUBSET Players] /\ revoked' \subseteq Codes
      /\ \A d \in Codes : shown'[d] = IF d \in changed THEN {} ELSE shown[d]
  <2>1. shown \in [Codes -> SUBSET Players] /\ revoked \subseteq Codes
    BY DEF AdmissionInv, Shaped
  <2> QED BY <1>1, <1>4, <2>1
<1>6. Shaped'
  BY <1>1, <1>3, <1>5 DEF AdmissionInv, Shaped
<1>7. ASSUME NEW d \in Codes
      PROVE  CodeFits(d)'
  <2>0. CodeFits(d) /\ table'[d] \in RowType /\ rows'[d] = new[d] /\ draft' = Nobody
    BY <1>1 DEF AdmissionInv, Shaped
  <2>1. RowOK(rows'[d])
    <3>1. RowOK(draft[d])
      BY <2>0 DEF CodeFits
    <3> QED BY <1>3, <2>0, <3>1
  <2>2. d \in changed /\ d # c => Unclaimed(rows'[d])
    BY <1>3, <1>4, <2>0 DEF CodeFits
  <2>3. rows'[d].state = "suspended" <=> d \in revoked'
    <3>1. CASE d = c
      <4>1. rows'[d] = row
        BY <1>3, <2>0, <3>1
      <4>2. CASE row.state = "suspended"
        BY <1>1, <3>1, <4>1, <4>2
      <4>3. CASE row.state # "suspended"
        <5>1. revoked' = revoked \ changed
          BY <1>1, <4>3
        <5>2. d \notin changed => d \notin revoked
          BY <1>4, <2>0, <4>1, <4>3 DEF CodeFits
        <5> QED BY <4>1, <4>3, <5>1, <5>2
      <4> QED BY <4>2, <4>3
    <3>2. CASE d # c /\ d \in changed
      <4>1. d \notin revoked'
        BY <1>1, <3>2
      <4> QED BY <2>2, <3>2, <4>1 DEF Unclaimed
    <3>3. CASE d # c /\ d \notin changed
      <4>1. rows'[d] = rows[d] /\ (d \in revoked' <=> d \in revoked)
        BY <1>1, <1>4, <2>0, <3>3
      <4> QED BY <2>0, <4>1 DEF CodeFits
    <3> QED BY <3>1, <3>2, <3>3
  <2>4. \A p \in shown'[d] : p \in Players /\ rows'[d].owner = p
    <3>1. CASE d \in changed
      BY <1>5, <3>1
    <3>2. CASE d \notin changed
      <4>1. shown'[d] = shown[d] /\ rows'[d] = rows[d]
        BY <1>4, <1>5, <2>0, <3>2
      <4> QED BY <2>0, <4>1 DEF CodeFits
    <3> QED BY <3>1, <3>2
  <2>5. d \notin touched' =>
          /\ rows'[d].state # "suspended"
          /\ rows'[d].state = "active" => rows'[d].owner \in Players
          /\ index'[d] # 0 => rows'[d].state = "active"
    <3>1. d \notin touched' => d \notin touched /\ rows'[d] = rows[d] /\ index'[d] = index[d]
      BY <1>1, <1>4, <2>0
    <3> QED BY <2>0, <3>1 DEF CodeFits
  <2> QED BY <2>0, <2>1, <2>3, <2>4, <2>5 DEF CodeFits
<1>8. DeskOK' /\ SavesOK' /\ Alone'
  BY <1>1, AloneStays DEF AdmissionInv, DeskOK, SavesOK
<1>9. ASSUME NEW a, NEW p, Held(a, p)
      PROVE  Held(a, p)'
  <2>1. a \in Taken'
    BY <1>1, <1>9 DEF Held, Taken
  <2>2. \A d \in Codes \ touched' : index'[d] = a => rows'[d].owner = p
    <3>1. \A d \in Codes \ touched' : d \notin touched /\ rows'[d] = rows[d] /\ index'[d] = index[d]
      BY <1>1, <1>4
    <3> QED BY <1>9, <3>1 DEF Held
  <2> QED BY <2>1, <2>2 DEF Held
<1>10. Entered'
  <2>1. Live' = Live /\ socket' = socket /\ ticket' = ticket
    BY <1>1 DEF Live
  <2> QED BY <1>9, <2>1 DEF AdmissionInv, Entered
<1> QED BY <1>6, <1>7, <1>8, <1>10 DEF AdmissionInv

LEMMA OperatorSteps ==
  ASSUME AdmissionInv, Operator
  PROVE  AdmissionInv'
<1>1. CASE OperatorReads
  BY <1>1, OperatorLooks
<1>2. ASSUME draft # Nobody, NEW c \in Codes, NEW state \in {"issued", "active"}, OperatorWrites(c, Row(state, Nobody))
      PROVE  AdmissionInv'
  BY <1>2, RowsOf, OperatorEdits
<1>3. ASSUME draft # Nobody, NEW c \in Codes, NEW state \in {"active", "suspended"},
             OperatorWrites(c, Row(state, draft[c].owner))
      PROVE  AdmissionInv'
  <2>1. draft[c] \in RowType
    BY <1>3 DEF AdmissionInv, Shaped
  <2>2. draft[c].owner \in Players \cup {Nobody}
    BY <2>1 DEF RowType
  <2>3. RowOK(Row(state, draft[c].owner))
    BY <2>2 DEF RowOK, Row, RowType, Unclaimed
  <2> QED BY <1>3, <2>3, OperatorEdits
<1>4. ASSUME draft # Nobody, NEW c \in Codes, OperatorWrites(c, Row("issued", Nobody))
      PROVE  AdmissionInv'
  BY <1>2, <1>4
<1> QED BY <1>1, <1>2, <1>3, <1>4 DEF Operator

LEMMA DropsAccount ==
  ASSUME AdmissionInv, NEW c \in Codes, DropAccount(c)
  PROVE  AdmissionInv'
<1>1. /\ index[c] # 0 /\ index' = [index EXCEPT ![c] = 0]
      /\ UNCHANGED <<ids, rows, table, saves, given, desk, ticket, socket, draft, shown, revoked, touched, kept>>
  BY DEF DropAccount, logins, history
<1>2. /\ index' \in [Codes -> 0..MaxAccount] /\ index'[c] = 0
      /\ \A d \in Codes \ {c} : index'[d] = index[d]
  BY <1>1, AdmissionAssumption DEF AdmissionInv, Shaped
<1>3. Shaped'
  BY <1>1, <1>2 DEF AdmissionInv, Shaped
<1>4. \A d \in Codes : CodeFits(d)'
  <2>1. \A d \in Codes : table'[d] \in RowType
    BY <1>1 DEF AdmissionInv, Shaped
  <2>2. \A d \in Codes : index'[d] = index[d] \/ index'[d] = 0 \/ rows[d].state = "active"
    BY <1>2
  <2> QED BY <1>1, <2>1, <2>2, ServerReads DEF AdmissionInv
<1>5. SavesOK'
  <2>1. \A d, e \in Codes : index'[d] = index'[e] /\ index'[d] # 0 => d = e
    BY <1>2 DEF AdmissionInv, SavesOK
  <2>2. \A b \in saves', d \in Codes : index'[d] = b => d = kept'[b]
    <3>1. \A b \in saves : b # 0
      BY DEF AdmissionInv, Shaped
    <3> QED BY <1>1, <1>2, <3>1 DEF AdmissionInv, SavesOK
  <2> QED BY <2>1, <2>2 DEF SavesOK
<1>6. DeskOK' /\ Alone'
  BY <1>1, AloneStays DEF AdmissionInv, DeskOK
<1>7. ASSUME NEW a, NEW p, Held(a, p), a # 0, a # index[c] \/ a \in saves
      PROVE  Held(a, p)'
  <2>1. a \in Taken'
    <3>1. CASE a \in saves
      BY <1>1, <3>1 DEF Taken
    <3>2. CASE a \notin saves
      <4>1. PICK d \in Codes : index[d] = a
        BY <1>7, <3>2 DEF Held, Taken
      <4>2. index'[d] = a
        BY <1>2, <1>7, <3>2, <4>1
      <4> QED BY <4>2 DEF Taken
    <3> QED BY <3>1, <3>2
  <2>2. \A d \in Codes \ touched' : index'[d] = a => rows'[d].owner = p
    BY <1>1, <1>2, <1>7 DEF Held
  <2> QED BY <2>1, <2>2 DEF Held
<1>8. Entered'
  <2>1. Live' = Live /\ socket' = socket /\ ticket' = ticket
    BY <1>1 DEF Live
  <2>2. ASSUME NEW p \in Players, ticket[p] # 0
        PROVE  Held(ticket[p], p)'
    <3>1. ticket[p] # index[c] \/ ticket[p] \in saves
      BY DEF DropAccount
    <3> QED BY <1>7, <2>1, <2>2, <3>1 DEF AdmissionInv, Entered
  <2>3. ASSUME NEW s \in Live
        PROVE  Held(socket[s].account, socket[s].by)'
    <3>1. socket[s].account # index[c] \/ socket[s].account \in saves
      BY DEF DropAccount
    <3>2. socket[s].account # 0
      BY DEF AdmissionInv, Shaped, SocketType, Live
    <3> QED BY <1>7, <2>1, <3>1, <3>2 DEF AdmissionInv, Entered
  <2> QED BY <2>1, <2>2, <2>3 DEF Entered
<1> QED BY <1>3, <1>4, <1>5, <1>6, <1>8 DEF AdmissionInv

-----------------------------------------------------------------------------
(* The invariant, and what follows from it.                                *)
LEMMA AdmissionStarts == Init => AdmissionInv
<1> SUFFICES ASSUME Init
             PROVE  AdmissionInv
  OBVIOUS
<1>1. /\ ids = {} /\ rows = [c \in Codes |-> None] /\ table = rows
      /\ index = [c \in Codes |-> 0] /\ saves = {} /\ given = 0
      /\ desk = <<>> /\ ticket = [p \in Players |-> 0] /\ socket = [s \in Sockets |-> Nobody]
      /\ draft = Nobody
      /\ shown = [c \in Codes |-> {}] /\ revoked = {} /\ touched = {}
      /\ kept = [a \in 1..MaxAccount |-> Nobody]
  BY DEF Init
<1>2. None \in RowType /\ RowOK(None) /\ None.state = "none"
  BY RowsOf DEF RowOK, None
<1>3. Shaped
  BY <1>1, <1>2, AdmissionAssumption DEF Shaped
<1>4. ASSUME NEW c \in Codes
      PROVE  CodeFits(c)
  <2>1. rows[c] = None /\ table[c] = None /\ shown[c] = {} /\ index[c] = 0 /\ draft = Nobody /\ revoked = {}
    BY <1>1
  <2> QED BY <1>2, <2>1 DEF CodeFits
<1>5. DeskOK
  <2>1. <<>> \in Seq(Tokens) /\ Len(<<>>) = 0 /\ DOMAIN <<>> = {}
    OBVIOUS
  <2> QED BY <1>1, <2>1, AdmissionAssumption DEF DeskOK
<1>6. SavesOK
  BY <1>1 DEF SavesOK
<1>7. Live = {}
  BY <1>1 DEF Live
<1>8. Entered /\ Alone
  BY <1>1, <1>7 DEF Entered, Alone
<1> QED BY <1>3, <1>4, <1>5, <1>6, <1>8 DEF AdmissionInv

LEMMA AdmissionSteps == AdmissionInv /\ [Next]_vars => AdmissionInv'
<1> SUFFICES ASSUME AdmissionInv, [Next]_vars
             PROVE  AdmissionInv'
  OBVIOUS
<1>1. CASE Die
  BY <1>1, Dies
<1>2. CASE Operator
  BY <1>2, OperatorSteps
<1>3. ASSUME NEW p \in Players, SignupAgain(p) \/ Signup(p) \/ SignupDies(p)
      PROVE  AdmissionInv'
  BY <1>3, SignsUp, SignsUpAgain, SignupIsCutOff
<1>4. ASSUME NEW p \in Players, CreateId(p) \/ RetireId(p)
      PROVE  AdmissionInv'
  <2>1. /\ table' = table /\ UNCHANGED <<rows, index, saves, given, desk, ticket, socket, draft, shown, revoked, touched, kept>>
        /\ ids' \subseteq ids \cup {p}
    BY <1>4 DEF CreateId, RetireId, logins, history
  <2>2. ids' \subseteq Players
    BY <2>1 DEF AdmissionInv, Shaped
  <2> QED BY <2>1, <2>2, OnlyNames
<1>5. ASSUME NEW p \in Players, NEW verified \in BOOLEAN, SignIn(p, verified)
      PROVE  AdmissionInv'
  BY <1>5, SignsIn
<1>6. ASSUME NEW p \in Players, NEW c \in Codes, Register(p, c) \/ Login(p, c)
      PROVE  AdmissionInv'
  BY <1>6, RegistersCode, LogsIn
<1>7. ASSUME NEW p \in Players, NEW c \in Codes, LoginRefused(p, c)
      PROVE  AdmissionInv'
  <2>1. /\ ids' = ids /\ table' = rows
        /\ UNCHANGED <<rows, index, saves, given, desk, ticket, socket, draft, shown, revoked, touched, kept>>
    BY <1>7 DEF LoginRefused, logins, history
  <2>2. ids' \subseteq Players
    BY <2>1 DEF AdmissionInv, Shaped
  <2> QED BY <2>1, <2>2, OnlyNames
<1>8. ASSUME NEW p \in Players, NEW s \in Sockets, Connect(p, s)
      PROVE  AdmissionInv'
  BY <1>8, Connects
<1>9. ASSUME NEW s \in Sockets, GameLogin(s) \/ SchoolSelect(s) \/ MakeSave(s) \/ Disconnect(s)
      PROVE  AdmissionInv'
  BY <1>9, LogsIntoGame, SelectsSchool, MakesSave, Disconnects
<1>10. ASSUME NEW c \in Codes, DropAccount(c)
       PROVE  AdmissionInv'
  BY <1>10, DropsAccount
<1>11. CASE UNCHANGED vars
  <2>1. UNCHANGED <<ids, rows, table, index, saves, given, desk, ticket, socket, draft, shown, revoked, touched, kept>>
    BY <1>11 DEF vars, tables, logins, history
  <2>2. ids' \subseteq Players
    BY <2>1 DEF AdmissionInv, Shaped
  <2> QED BY <2>1, <2>2, OnlyNames
<1> QED BY <1>1, <1>2, <1>3, <1>4, <1>5, <1>6, <1>7, <1>8, <1>9, <1>10, <1>11 DEF Next

LEMMA AdmissionHolds == Spec => []AdmissionInv
BY AdmissionStarts, AdmissionSteps, PTL DEF Spec

(* What the website told a player of a code stays true, and what the       *)
(* operator withdrew stays withdrawn, whoever dies in between.             *)
LEMMA WordKept == AdmissionInv => CodesKeepTheirWord
<1> SUFFICES ASSUME AdmissionInv
             PROVE  CodesKeepTheirWord
  OBVIOUS
<1>1. ASSUME NEW c \in Codes, NEW p \in Players, p \in shown[c]
      PROVE  /\ rows[c] = Row(IF c \in revoked THEN "suspended" ELSE "active", p)
             /\ p \in ids \cap SignedInAs(p) => MayEnter(p, c) \/ c \in revoked
  <2>1. CodeFits(c)
    BY DEF AdmissionInv
  <2>2. rows[c] \in RowType /\ rows[c].owner = p /\ ~Unclaimed(rows[c])
    BY <1>1, <2>1, AdmissionAssumption DEF CodeFits, RowOK
  <2>3. rows[c].state = IF c \in revoked THEN "suspended" ELSE "active"
    BY <2>1, <2>2 DEF CodeFits, RowType, Unclaimed
  <2>4. rows[c] = Row(IF c \in revoked THEN "suspended" ELSE "active", p)
    BY <2>2, <2>3 DEF Row, RowType
  <2>5. p \in ids \cap SignedInAs(p) /\ c \notin revoked => MayEnter(p, c)
    BY <2>2, <2>3 DEF MayEnter
  <2> QED BY <2>4, <2>5
<1>2. ShownCodesWork
  BY <1>1 DEF ShownCodesWork
<1>3. RevokedStaysOut
  <2>1. \A c \in revoked : c \in Codes /\ rows[c].state = "suspended"
    BY DEF AdmissionInv, Shaped, CodeFits
  <2>2. \A c \in revoked : \A p \in Players : ~MayEnter(p, c)
    BY <2>1 DEF MayEnter
  <2> QED BY <2>1, <2>2 DEF RevokedStaysOut
<1> QED BY <1>2, <1>3 DEF CodesKeepTheirWord

(* A code the website has given a player lets that player in until the     *)
(* operator changes its row, and a code the operator has withdrawn lets    *)
(* nobody in, whatever is registered, edited and lost when the server dies.*)
(* RegistrationSite._signup and _register, CodeTable.register and adopt.   *)
THEOREM WordsAreKept == Spec => []CodesKeepTheirWord
BY AdmissionHolds, WordKept, PTL

LEMMA SavesKept == AdmissionInv => SavesKeepTheirCode
<1> SUFFICES ASSUME AdmissionInv
             PROVE  SavesKeepTheirCode
  OBVIOUS
<1>1. TypeOK
  BY DEF AdmissionInv, Shaped, DeskOK, TypeOK
<1> QED BY <1>1 DEF AdmissionInv, SavesOK, SavesKeepTheirCode

(* An account is one code's, and the characters saved under it stay with   *)
(* the code they were made under, though numbers are dropped from the      *)
(* index and given out again: AccountStore.account_id and _reserved.       *)
THEOREM SavesStayWithTheirCode == Spec => []SavesKeepTheirCode
BY AdmissionHolds, SavesKept, PTL

LEMMA NobodyElseEnters == AdmissionInv => NobodyElsesSave
<1> SUFFICES ASSUME AdmissionInv, NEW s \in Live, socket[s].loggedIn
             PROVE  /\ \A c \in Codes \ touched :
                         index[c] = socket[s].account => shown[c] \subseteq {socket[s].by}
                    /\ ~socket[s].handedOn => Rivals(s) = {}
  BY DEF NobodyElsesSave
<1>1. Held(socket[s].account, socket[s].by)
  BY DEF AdmissionInv, Entered
<1>2. ASSUME NEW c \in Codes \ touched, index[c] = socket[s].account
      PROVE  shown[c] \subseteq {socket[s].by}
  BY <1>1, <1>2 DEF AdmissionInv, CodeFits, Held
<1>3. ~socket[s].handedOn => Rivals(s) = {}
  BY DEF AdmissionInv, Alone
<1> QED BY <1>2, <1>3

(* Nobody but the player a code was given to plays the account it names,   *)
(* and no account is played from two places at once: TokenDesk, CodeTable. *)
(* check, AccountStore.check_login, _game_login_refusal.                   *)
THEOREM OnlyOnesOwnSave == Spec => []NobodyElsesSave
BY AdmissionHolds, NobodyElseEnters, PTL

-----------------------------------------------------------------------------
(***************************************************************************)
(* Why no connection is ever sent a number out of order, for any set of    *)
(* connections and any numbers (WireSequence).                             *)
(***************************************************************************)

(* What a connection has been sent lies below everything it is still owed: *)
(* that is what _emit keeps, and what makes the wire rise.                 *)
HandIsUnwritten == \A c \in Conn : hand[c] \subseteq unwritten[c]

NumbersHandedOut ==
  \A c \in Conn :
    /\ \A n \in unwritten[c] \union parked[c] : n <= next
    /\ \A k \in 1..Len(wire[c]) : wire[c][k] <= next

WireIsBelow ==
  \A c \in Conn : \A k \in 1..Len(wire[c]) :
    \A n \in unwritten[c] \union parked[c] : wire[c][k] < n

SettledOwesNothing ==
  \A c \in Conn \ unsettled : unwritten[c] = {} /\ parked[c] = {}

HandsAreEmpty == phase # "run" => \A c \in Conn : hand[c] = {}

AwaitIsSettled == phase = "await" => unsettled = {}

OrderInv ==
  /\ WireTypeOK
  /\ HandIsUnwritten
  /\ NumbersHandedOut
  /\ WireIsBelow
  /\ SettledOwesNothing
  /\ HandsAreEmpty
  /\ AwaitIsSettled
  /\ NumbersRise

-----------------------------------------------------------------------------
Rises(w) == \A i, j \in 1..Len(w) : i < j => w[i] < w[j]

(* What _write does to a wire: the packets of S follow, in order, each     *)
(* once, and a wire that lies below S still rises.                         *)
LEMMA Appended ==
  ASSUME NEW w \in Seq(Number), NEW S \in SUBSET Number, NEW q \in Sorted(S)
  PROVE  /\ w \o q \in Seq(Number)
         /\ \A k \in 1..Len(w) : k \in 1..Len(w \o q) /\ (w \o q)[k] = w[k]
         /\ \A k \in 1..Len(w \o q) : k \in 1..Len(w) \/ (w \o q)[k] \in S
         /\ \A n \in S : \E k \in 1..Len(w \o q) : (w \o q)[k] = n
         /\ Rises(w) /\ (\A k \in 1..Len(w), n \in S : w[k] < n) => Rises(w \o q)
<1>1. IsFiniteSet(S) /\ Cardinality(S) \in Nat
  <2>1. 1 \in Int /\ MaxNumber \in Int
    BY MaxNumberAssumption
  <2>2. IsFiniteSet(1..MaxNumber)
    BY <2>1, FS_Interval
  <2>3. IsFiniteSet(S)
    BY <2>2, FS_Subset DEF Number
  <2> QED BY <2>3, FS_CardinalityType
<1>2. /\ q \in [1..Cardinality(S) -> S]
      /\ \A i, j \in 1..Cardinality(S) : i < j => q[i] < q[j]
      /\ \A n \in S : \E i \in 1..Cardinality(S) : q[i] = n
  BY DEF Sorted
<1>3. q \in Seq(Number) /\ Len(q) = Cardinality(S)
  BY <1>1, <1>2
<1>4. /\ w \o q \in Seq(Number)
      /\ Len(w \o q) = Len(w) + Len(q)
      /\ \A k \in 1..Len(w) + Len(q) :
           (w \o q)[k] = IF k <= Len(w) THEN w[k] ELSE q[k - Len(w)]
  BY <1>3
<1>5. \A k \in 1..Len(w) : k \in 1..Len(w \o q) /\ (w \o q)[k] = w[k]
  BY <1>3, <1>4
<1>6. \A k \in 1..Len(w \o q) : k \in 1..Len(w) \/ (w \o q)[k] \in S
  BY <1>1, <1>2, <1>3, <1>4
<1>7. \A n \in S : \E k \in 1..Len(w \o q) : (w \o q)[k] = n
  <2> SUFFICES ASSUME NEW n \in S
               PROVE  \E k \in 1..Len(w \o q) : (w \o q)[k] = n
    OBVIOUS
  <2>1. PICK i \in 1..Cardinality(S) : q[i] = n
    BY <1>2
  <2>2. Len(w) + i \in 1..Len(w \o q) /\ (w \o q)[Len(w) + i] = n
    BY <2>1, <1>1, <1>3, <1>4
  <2> QED BY <2>2
<1>8. ASSUME Rises(w), \A k \in 1..Len(w), n \in S : w[k] < n
      PROVE  Rises(w \o q)
  <2> SUFFICES ASSUME NEW i \in 1..Len(w \o q), NEW j \in 1..Len(w \o q), i < j
               PROVE  (w \o q)[i] < (w \o q)[j]
    BY DEF Rises
  <2>1. CASE j <= Len(w)
    BY <2>1, <1>3, <1>4, <1>8 DEF Rises
  <2>2. CASE i <= Len(w) /\ j > Len(w)
    BY <2>2, <1>1, <1>2, <1>3, <1>4, <1>8
  <2>3. CASE i > Len(w)
    <3>1. /\ i - Len(w) \in 1..Cardinality(S) /\ j - Len(w) \in 1..Cardinality(S)
          /\ i - Len(w) < j - Len(w)
      BY <2>3, <1>1, <1>3, <1>4
    <3>2. (w \o q)[i] = q[i - Len(w)] /\ (w \o q)[j] = q[j - Len(w)]
      BY <2>3, <1>1, <1>3, <1>4
    <3> QED BY <3>1, <3>2, <1>2
  <2> QED BY <2>1, <2>2, <2>3, <1>3, <1>4
<1> QED BY <1>4, <1>5, <1>6, <1>7, <1>8

(* _write on connection c: only c's wire moves, and how.                   *)
LEMMA Writing ==
  ASSUME WireTypeOK, NEW c \in Conn, NEW S \in SUBSET Number, Write(c, S)
  PROVE  /\ wire' \in [Conn -> Seq(Number)]
         /\ \A d \in Conn \ {c} : wire'[d] = wire[d]
         /\ ~ open[c] => wire'[c] = wire[c]
         /\ \A k \in 1..Len(wire[c]) : /\ k \in 1..Len(wire'[c])
                                       /\ wire'[c][k] = wire[c][k]
         /\ \A k \in 1..Len(wire'[c]) : \/ k \in 1..Len(wire[c]) /\ wire'[c][k] = wire[c][k]
                                        \/ wire'[c][k] \in S
         /\ open[c] => \A n \in S : \E k \in 1..Len(wire'[c]) : wire'[c][k] = n
         /\ Rises(wire[c]) /\ (\A k \in 1..Len(wire[c]), n \in S : wire[c][k] < n)
              => Rises(wire'[c])
<1>1. CASE ~ open[c]
  BY <1>1 DEF Write, WireTypeOK
<1>2. CASE open[c]
  <2>1. PICK q \in Sorted(S) : wire' = [wire EXCEPT ![c] = @ \o q]
    BY <1>2 DEF Write
  <2>2. wire \in [Conn -> Seq(Number)] /\ wire[c] \in Seq(Number)
    BY DEF WireTypeOK
  <2>3. wire'[c] = wire[c] \o q
    BY <2>1, <2>2
  <2>4. wire'[c] \in Seq(Number)
    BY <2>2, <2>3, Appended
  <2>5. wire' \in [Conn -> Seq(Number)] /\ \A d \in Conn \ {c} : wire'[d] = wire[d]
    BY <2>1, <2>2, <2>3, <2>4
  <2>6. /\ \A k \in 1..Len(wire[c]) : k \in 1..Len(wire'[c]) /\ wire'[c][k] = wire[c][k]
        /\ \A k \in 1..Len(wire'[c]) : k \in 1..Len(wire[c]) \/ wire'[c][k] \in S
        /\ \A n \in S : \E k \in 1..Len(wire'[c]) : wire'[c][k] = n
        /\ Rises(wire[c]) /\ (\A k \in 1..Len(wire[c]), n \in S : wire[c][k] < n)
             => Rises(wire'[c])
    <3> DEFINE w == wire[c]
               v == w \o q
    <3>1. /\ \A k \in 1..Len(w) : k \in 1..Len(v) /\ v[k] = w[k]
          /\ \A k \in 1..Len(v) : k \in 1..Len(w) \/ v[k] \in S
          /\ \A n \in S : \E k \in 1..Len(v) : v[k] = n
      BY <2>2, Appended
    <3>2. Rises(w) /\ (\A k \in 1..Len(w), n \in S : w[k] < n) => Rises(v)
      BY <2>2, Appended
    <3> HIDE DEF v
    <3> QED BY <2>3, <3>1, <3>2 DEF v, Rises
  <2> QED BY <1>2, <2>5, <2>6
<1> QED BY <1>1, <1>2

-----------------------------------------------------------------------------
LEMMA OrderInitially == WireInit => OrderInv
<1> SUFFICES ASSUME WireInit PROVE OrderInv
  OBVIOUS
<1>1. WireTypeOK
  BY MaxNumberAssumption DEF WireInit, WireTypeOK, Number
<1> QED
  BY <1>1 DEF WireInit, OrderInv, HandIsUnwritten, NumbersHandedOut, WireIsBelow,
              SettledOwesNothing, HandsAreEmpty, AwaitIsSettled, NumbersRise

LEMMA AnswerKeeps ==
  ASSUME OrderInv, NEW c \in Conn, NEW seen \in 0..MaxNumber, Answer(c, seen)
  PROVE  OrderInv'
<1> DEFINE n == TakeSeq(seen)
<1>1. n \in Number /\ n > next /\ next' = n /\ next \in Nat
  BY MaxNumberAssumption DEF OrderInv, WireTypeOK, Answer, TakeSeq, Number
<1> HIDE DEF n
<1>2. /\ hand' = [hand EXCEPT ![c] = @ \union {n}]
      /\ unwritten' = [unwritten EXCEPT ![c] = @ \union {n}]
      /\ unsettled' = unsettled \union {c} /\ phase = "run"
      /\ UNCHANGED <<parked, wire, open, phase>>
  BY DEF Answer, n
<1>3. WireTypeOK'
  BY <1>1, <1>2, MaxNumberAssumption DEF OrderInv, WireTypeOK, Number
<1>4. HandIsUnwritten'
  BY <1>2 DEF OrderInv, WireTypeOK, HandIsUnwritten
<1>5. NumbersHandedOut'
  BY <1>1, <1>2, MaxNumberAssumption DEF OrderInv, WireTypeOK, NumbersHandedOut, Number
<1>6. WireIsBelow'
  <2> SUFFICES ASSUME NEW d \in Conn, NEW k \in 1..Len(wire[d]),
                      NEW m \in unwritten'[d] \union parked[d]
               PROVE  wire[d][k] < m
    BY <1>2 DEF WireIsBelow
  <2>1. wire[d][k] \in Number /\ wire[d][k] <= next
    BY DEF OrderInv, WireTypeOK, NumbersHandedOut
  <2>2. CASE m \in unwritten[d] \union parked[d]
    BY <2>2 DEF OrderInv, WireIsBelow
  <2>3. CASE m = n
    BY <2>1, <2>3, <1>1, MaxNumberAssumption DEF Number
  <2> QED BY <2>2, <2>3, <1>2 DEF OrderInv, WireTypeOK
<1>7. SettledOwesNothing' /\ HandsAreEmpty' /\ AwaitIsSettled' /\ NumbersRise'
  BY <1>2 DEF OrderInv, WireTypeOK, SettledOwesNothing, HandsAreEmpty, AwaitIsSettled, NumbersRise
<1> QED BY <1>3, <1>4, <1>5, <1>6, <1>7 DEF OrderInv

LEMMA EmitKeeps ==
  ASSUME OrderInv, NEW c \in Conn, NEW B \in SUBSET hand[c], Emit(c, B)
  PROVE  OrderInv'
<1> DEFINE owed == unwritten[c] \ B
           ready == Ready(parked[c] \union B, owed)
<1>1. /\ hand' = [hand EXCEPT ![c] = @ \ B]
      /\ unwritten' = [unwritten EXCEPT ![c] = owed]
      /\ parked' = [parked EXCEPT ![c] = HeldBack(@, B, ready)]
      /\ Write(c, ready) /\ phase = "run" /\ B # {}
      /\ UNCHANGED <<next, unsettled, open, phase>>
  BY DEF Emit
<1>2. /\ hand[c] \in SUBSET Number /\ unwritten[c] \in SUBSET Number
      /\ parked[c] \in SUBSET Number /\ B \subseteq unwritten[c]
  BY DEF OrderInv, WireTypeOK, HandIsUnwritten
<1>3. /\ ready \subseteq parked[c] \union B /\ ready \in SUBSET Number
      /\ owed \subseteq unwritten[c]
      /\ \A n \in ready, u \in owed : n < u
  BY <1>2 DEF Ready
<1>4. \A n \in ready, m \in (parked[c] \union B) \ ready : n < m
  <2> SUFFICES ASSUME NEW n \in ready, NEW m \in (parked[c] \union B) \ ready
               PROVE  n < m
    OBVIOUS
  <2>1. PICK u \in owed : ~ (m < u)
    BY DEF Ready
  <2>2. n < u /\ n \in Nat /\ m \in Nat /\ u \in Nat
    BY <1>2, <1>3, <2>1, MaxNumberAssumption DEF Number
  <2> QED BY <2>1, <2>2
<1>5. /\ unwritten'[c] = owed /\ parked'[c] = (parked[c] \union B) \ ready
      /\ hand'[c] = hand[c] \ B
      /\ \A d \in Conn \ {c} : /\ hand'[d] = hand[d] /\ unwritten'[d] = unwritten[d]
                               /\ parked'[d] = parked[d] /\ wire'[d] = wire[d]
  <2> HIDE DEF owed, ready
  <2>1. WireTypeOK
    BY DEF OrderInv
  <2>2. \A d \in Conn \ {c} : wire'[d] = wire[d]
    BY <2>1, <1>1, <1>3, Writing
  <2>3. \A d \in Conn : unwritten'[d] = IF d = c THEN owed ELSE unwritten[d]
    BY <2>1, <1>1 DEF WireTypeOK
  <2>4. \A d \in Conn : parked'[d] = IF d = c THEN (parked[c] \union B) \ ready ELSE parked[d]
    BY <2>1, <1>1 DEF WireTypeOK, HeldBack
  <2>5. \A d \in Conn : hand'[d] = IF d = c THEN hand[c] \ B ELSE hand[d]
    BY <2>1, <1>1 DEF WireTypeOK
  <2> QED BY <2>2, <2>3, <2>4, <2>5
<1> HIDE DEF owed, ready
<1>6. WireTypeOK'
  <2>1. WireTypeOK
    BY DEF OrderInv
  <2>2. wire' \in [Conn -> Seq(Number)]
    BY <2>1, <1>1, <1>3, Writing
  <2>3. owed \in SUBSET Number /\ HeldBack(parked[c], B, ready) \in SUBSET Number
    BY <1>2, <1>3 DEF HeldBack
  <2>4. hand' \in [Conn -> SUBSET Number] /\ unwritten' \in [Conn -> SUBSET Number]
    BY <2>1, <2>3, <1>1, <1>2 DEF WireTypeOK
  <2>5. parked' \in [Conn -> SUBSET Number]
    BY <2>1, <2>3, <1>1 DEF WireTypeOK
  <2> QED BY <2>1, <2>2, <2>4, <2>5, <1>1 DEF WireTypeOK
<1>7. HandIsUnwritten'
  <2>1. hand[c] \ B \subseteq unwritten[c] \ B
    BY DEF OrderInv, HandIsUnwritten
  <2> QED BY <2>1, <1>1, <1>5 DEF OrderInv, HandIsUnwritten, owed
<1>8. \A k \in 1..Len(wire'[c]) :
        \/ k \in 1..Len(wire[c]) /\ wire'[c][k] = wire[c][k]
        \/ wire'[c][k] \in ready
  BY <1>1, <1>3, Writing DEF OrderInv
<1>9. NumbersHandedOut'
  <2>1. \A n \in unwritten'[c] \union parked'[c] : n <= next'
    BY <1>1, <1>2, <1>3, <1>5 DEF OrderInv, NumbersHandedOut
  <2>2. \A k \in 1..Len(wire'[c]) : wire'[c][k] <= next'
    BY <1>1, <1>2, <1>3, <1>8 DEF OrderInv, NumbersHandedOut
  <2> QED BY <2>1, <2>2, <1>1, <1>5 DEF OrderInv, NumbersHandedOut
<1>10. WireIsBelow'
  <2>1. ASSUME NEW k \in 1..Len(wire'[c]), NEW m \in unwritten'[c] \union parked'[c]
        PROVE  wire'[c][k] < m
    <3>1. m \in unwritten[c] \union parked[c] /\ m \in owed \union ((parked[c] \union B) \ ready)
      BY <1>2, <1>3, <1>5
    <3>2. CASE wire'[c][k] \in ready
      BY <3>1, <3>2, <1>3, <1>4
    <3>3. CASE k \in 1..Len(wire[c]) /\ wire'[c][k] = wire[c][k]
      BY <3>1, <3>3 DEF OrderInv, WireIsBelow
    <3> QED BY <3>2, <3>3, <1>8
  <2> QED BY <2>1, <1>5 DEF OrderInv, WireIsBelow
<1>11. NumbersRise'
  <2>1. Rises(wire[c]) /\ \A k \in 1..Len(wire[c]), n \in ready : wire[c][k] < n
    BY <1>2, <1>3 DEF OrderInv, WireIsBelow, NumbersRise, Rises
  <2>2. Rises(wire'[c])
    BY <2>1, <1>1, <1>3, Writing DEF OrderInv
  <2> QED BY <2>2, <1>5 DEF OrderInv, NumbersRise, Rises
<1>12. SettledOwesNothing'
  <2>1. c \in unsettled
    BY <1>1, <1>2 DEF OrderInv, SettledOwesNothing
  <2> QED BY <2>1, <1>1, <1>5 DEF OrderInv, SettledOwesNothing
<1>13. HandsAreEmpty' /\ AwaitIsSettled'
  BY <1>1 DEF OrderInv, HandsAreEmpty, AwaitIsSettled
<1> QED BY <1>6, <1>7, <1>9, <1>10, <1>11, <1>12, <1>13 DEF OrderInv

LEMMA SettleKeeps ==
  ASSUME OrderInv, NEW c \in Conn, Settle(c)
  PROVE  OrderInv'
<1> DEFINE ready == Ready(parked[c], {})
<1>1. /\ unwritten' = [unwritten EXCEPT ![c] = {}]
      /\ parked' = [parked EXCEPT ![c] = {}]
      /\ Write(c, ready) /\ unsettled' = unsettled \ {c} /\ phase = "settle"
      /\ UNCHANGED <<next, hand, open, phase>>
  BY DEF Settle
<1>2. ready \subseteq parked[c] /\ ready \in SUBSET Number
  BY DEF Ready, OrderInv, WireTypeOK
<1> HIDE DEF ready
<1>3. /\ unwritten'[c] = {} /\ parked'[c] = {}
      /\ \A d \in Conn \ {c} : /\ unwritten'[d] = unwritten[d] /\ parked'[d] = parked[d]
                               /\ wire'[d] = wire[d]
  BY <1>1, <1>2, Writing DEF OrderInv, WireTypeOK
<1>4. WireTypeOK'
  BY <1>1, <1>2, <1>3, Writing DEF OrderInv, WireTypeOK
<1>5. HandIsUnwritten'
  BY <1>1, <1>3 DEF OrderInv, HandIsUnwritten, HandsAreEmpty
<1>6. NumbersHandedOut'
  <2>1. \A k \in 1..Len(wire'[c]) : \/ k \in 1..Len(wire[c]) /\ wire'[c][k] = wire[c][k]
                                    \/ wire'[c][k] \in ready
    BY <1>1, <1>2, Writing DEF OrderInv
  <2>2. \A k \in 1..Len(wire'[c]) : wire'[c][k] <= next'
    BY <2>1, <1>1, <1>2 DEF OrderInv, NumbersHandedOut
  <2> QED BY <2>2, <1>1, <1>3 DEF OrderInv, NumbersHandedOut
<1>7. WireIsBelow'
  BY <1>3 DEF OrderInv, WireIsBelow
<1>8. NumbersRise'
  <2>1. Rises(wire[c]) /\ \A k \in 1..Len(wire[c]), n \in ready : wire[c][k] < n
    BY <1>2 DEF OrderInv, WireIsBelow, NumbersRise, Rises
  <2>2. Rises(wire'[c])
    BY <2>1, <1>1, <1>2, Writing DEF OrderInv
  <2> QED BY <2>2, <1>3 DEF OrderInv, NumbersRise, Rises
<1>9. SettledOwesNothing' /\ HandsAreEmpty' /\ AwaitIsSettled'
  BY <1>1, <1>3 DEF OrderInv, SettledOwesNothing, HandsAreEmpty, AwaitIsSettled
<1> QED BY <1>4, <1>5, <1>6, <1>7, <1>8, <1>9 DEF OrderInv

(* Waking, returning, going back to the socket and hanging up write        *)
(* nothing.                                                                *)
LEMMA QuietStepsKeep ==
  ASSUME OrderInv, \/ Wake \/ Return \/ Await \/ UNCHANGED wireVars
               \/ \E c \in Conn : Close(c)
  PROVE  OrderInv'
<1>1. CASE Wake
  BY <1>1 DEF Wake, OrderInv, WireTypeOK, HandIsUnwritten, NumbersHandedOut, WireIsBelow,
              SettledOwesNothing, HandsAreEmpty, AwaitIsSettled, NumbersRise
<1>2. CASE Return
  <2>1. WireTypeOK' /\ HandIsUnwritten' /\ HandsAreEmpty'
    BY <1>2 DEF Return, OrderInv, WireTypeOK, HandIsUnwritten, HandsAreEmpty
  <2> QED
    BY <2>1, <1>2 DEF Return, OrderInv, NumbersHandedOut, WireIsBelow,
                      SettledOwesNothing, AwaitIsSettled, NumbersRise
<1>3. CASE Await
  BY <1>3 DEF Await, OrderInv, WireTypeOK, HandIsUnwritten, NumbersHandedOut, WireIsBelow,
              SettledOwesNothing, HandsAreEmpty, AwaitIsSettled, NumbersRise
<1>4. CASE \E c \in Conn : Close(c)
  BY <1>4 DEF Close, OrderInv, WireTypeOK, HandIsUnwritten, NumbersHandedOut, WireIsBelow,
              SettledOwesNothing, HandsAreEmpty, AwaitIsSettled, NumbersRise
<1>5. CASE UNCHANGED wireVars
  BY <1>5 DEF wireVars, OrderInv, WireTypeOK, HandIsUnwritten, NumbersHandedOut, WireIsBelow,
              SettledOwesNothing, HandsAreEmpty, AwaitIsSettled, NumbersRise
<1> QED BY <1>1, <1>2, <1>3, <1>4, <1>5

LEMMA OrderInductive == OrderInv /\ [WireNext]_wireVars => OrderInv'
<1> SUFFICES ASSUME OrderInv, [WireNext]_wireVars PROVE OrderInv'
  OBVIOUS
<1>1. ASSUME NEW c \in Conn, NEW seen \in 0..MaxNumber, Answer(c, seen) PROVE OrderInv'
  BY <1>1, AnswerKeeps
<1>2. ASSUME NEW c \in Conn, NEW B \in SUBSET hand[c], Emit(c, B) PROVE OrderInv'
  BY <1>2, EmitKeeps
<1>3. ASSUME NEW c \in Conn, Settle(c) PROVE OrderInv'
  BY <1>3, SettleKeeps
<1>4. CASE \/ Wake \/ Return \/ Await \/ UNCHANGED wireVars
           \/ \E c \in Conn : Close(c)
  BY <1>4, QuietStepsKeep
<1> QED BY <1>1, <1>2, <1>3, <1>4 DEF WireNext

THEOREM OrderHolds == WireSpec => []OrderInv
  BY OrderInitially, OrderInductive, PTL DEF WireSpec

-----------------------------------------------------------------------------
(* The state of _emit and _settle is always what its fields say it is.     *)
THEOREM NumberingTyped == WireSpec => []WireTypeOK
<1>1. OrderInv => WireTypeOK
  BY DEF OrderInv
<1> QED BY <1>1, OrderHolds, PTL

(* No connection is ever sent a number that does not exceed the last one:  *)
(* for any number of connections, whatever order handlers make and hand    *)
(* over packets in.                                                        *)
THEOREM WireRises == WireSpec => []NumbersRise
<1>1. OrderInv => NumbersRise
  BY DEF OrderInv
<1> QED BY <1>1, OrderHolds, PTL

(* No number is owed and no packet is held back across an await.           *)
THEOREM AwaitHoldsNothing == WireSpec => []NothingHeldAtAwait
<1>1. OrderInv => NothingHeldAtAwait
  BY DEF OrderInv, NothingHeldAtAwait, AwaitIsSettled, SettledOwesNothing
<1> QED BY <1>1, OrderHolds, PTL

-----------------------------------------------------------------------------
(* What NothingLost says of one connection and one step.                   *)
Keeps(c) ==
  open[c] =>
    /\ parked[c] \subseteq parked'[c] \union OnTheWire(c)'
    /\ phase' = "run" =>
         hand[c] \subseteq hand'[c] \union parked'[c] \union OnTheWire(c)'

LEMMA EmitLosesNothing ==
  ASSUME OrderInv, NEW c \in Conn, NEW B \in SUBSET hand[c], Emit(c, B), NEW d \in Conn
  PROVE  Keeps(d)
<1> DEFINE ready == Ready(parked[c] \union B, unwritten[c] \ B)
<1>1. /\ hand' = [hand EXCEPT ![c] = @ \ B]
      /\ parked' = [parked EXCEPT ![c] = HeldBack(@, B, ready)]
      /\ Write(c, ready)
      /\ hand \in [Conn -> SUBSET Number] /\ parked \in [Conn -> SUBSET Number]
  BY DEF Emit, OrderInv, WireTypeOK
<1>2. ready \in SUBSET Number
  BY <1>1 DEF Ready
<1> HIDE DEF ready
<1>3. CASE d # c
  BY <1>1, <1>3 DEF Keeps
<1>4. CASE d = c
  <2>1. open[c] => ready \subseteq OnTheWire(c)'
    BY <1>1, <1>2, Writing DEF OrderInv, OnTheWire
  <2>2. parked'[c] = (parked[c] \union B) \ ready /\ hand'[c] = hand[c] \ B
    BY <1>1 DEF HeldBack
  <2> QED BY <1>4, <2>1, <2>2 DEF Keeps
<1> QED BY <1>3, <1>4

LEMMA SettleLosesNothing ==
  ASSUME OrderInv, NEW c \in Conn, Settle(c), NEW d \in Conn
  PROVE  Keeps(d)
<1>1. /\ parked' = [parked EXCEPT ![c] = {}]
      /\ Write(c, Ready(parked[c], {})) /\ UNCHANGED hand
      /\ parked \in [Conn -> SUBSET Number]
      /\ phase' = "settle"
  BY DEF Settle, OrderInv, WireTypeOK
<1>2. CASE d # c
  BY <1>1, <1>2 DEF Keeps
<1>3. CASE d = c
  <2>1. Ready(parked[c], {}) = parked[c] /\ parked[c] \in SUBSET Number
    BY <1>1 DEF Ready
  <2>2. open[c] => parked[c] \subseteq OnTheWire(c)'
    BY <1>1, <2>1, Writing DEF OrderInv, OnTheWire
  <2> QED BY <1>1, <1>3, <2>2 DEF Keeps
<1> QED BY <1>2, <1>3

LEMMA StepLosesNothing ==
  ASSUME OrderInv, [WireNext]_wireVars, NEW d \in Conn
  PROVE  Keeps(d)
<1> USE DEF Keeps
<1>1. ASSUME NEW c \in Conn, NEW seen \in 0..MaxNumber, Answer(c, seen) PROVE Keeps(d)
  BY <1>1 DEF Answer, OrderInv, WireTypeOK
<1>2. ASSUME NEW c \in Conn, NEW B \in SUBSET hand[c], Emit(c, B) PROVE Keeps(d)
  BY <1>2, EmitLosesNothing
<1>3. ASSUME NEW c \in Conn, Settle(c) PROVE Keeps(d)
  BY <1>3, SettleLosesNothing
<1>4. CASE \/ Wake \/ Return \/ Await \/ UNCHANGED wireVars \/ \E c \in Conn : Close(c)
  BY <1>4 DEF Wake, Return, Await, Close, wireVars
<1> QED BY <1>1, <1>2, <1>3, <1>4 DEF WireNext

(* No packet is lost between the handler that made it and an open wire.    *)
THEOREM Lossless == WireSpec => NothingLost
<1>1. OrderInv /\ [WireNext]_wireVars => \A c \in Conn : Keeps(c)
  BY StepLosesNothing
<1>2. OrderInv /\ [WireNext]_wireVars =>
        [\A c \in Conn : open[c] =>
           /\ parked[c] \subseteq parked'[c] \union OnTheWire(c)'
           /\ phase' = "run" =>
                hand[c] \subseteq hand'[c] \union parked'[c] \union OnTheWire(c)']_wireVars
  BY <1>1 DEF Keeps
<1> QED BY <1>2, OrderHolds, PTL DEF WireSpec, NothingLost
=============================================================================
