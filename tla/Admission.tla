----------------------------- MODULE Admission -----------------------------
(***************************************************************************)
(* From the registration form to a place in the school: the website        *)
(* (registration_site.py), the auth service (auth_http_server.py), the     *)
(* login, game and school ports (mps_session.py), and the tables behind    *)
(* them: KONAMI IDs (konami_id.py), registration codes (codes.py) and the  *)
(* accounts codes name (accounts.py).  One process serves all of them, a   *)
(* handler at a time; the operator's issue_code.py is another, and reads   *)
(* and writes the code table in two steps of its own.  The server may die  *)
(* between two files of one registration.                                  *)
(*                                                                         *)
(* A player's KONAMI ID is the player.  Left out: what a form may hold,    *)
(* expiry dates (a code that lapses is refused like a suspended one), how  *)
(* long a slowed answer waits, the fallback of local connections.          *)
(***************************************************************************)
EXTENDS Integers, FiniteSets, Sequences, SequencesExt

CONSTANTS
  Players, Codes,
  Sockets,        \* connections to the game and school ports
  Nobody,
  Fuse,           \* Throttle.FUSE
  TokenLimit,     \* TokenDesk.LIMIT
  MaxAccount,     \* MAX_ACCOUNT_ID
  MaxEdits        \* bound: how often the operator runs issue_code.py

ASSUME AdmissionAssumption ==
  /\ Nobody \notin Players \cup Codes
  /\ {Fuse, MaxEdits} \subseteq Nat /\ {TokenLimit, MaxAccount} \subseteq Nat \ {0}

VARIABLES
  ids,        \* konami_ids.json
  rows,       \* codes.json
  table,      \* CodeTable.table in the server: as last read
  index,      \* index.json: the account a code names, 0 for none
  saves,      \* the account directories
  given,      \* registrations.json, today's count
  desk,       \* TokenDesk.issued: who minted the token, whom it stands for
  ticket,     \* ticket[p]: the account of p's relay ticket, 0 for none of this run
  socket,     \* socket[s]: Nobody or whose connection, its account and flags
  draft,      \* the code table issue_code.py holds, Nobody when not running
  edits,
  shown,      \* shown[c]: to whom the website said that c is their code
  revoked,    \* codes the operator has withdrawn
  touched,    \* codes whose row the operator ever changed
  kept        \* kept[a]: the code the save of account a was made under

tables == <<ids, rows, table, index, saves, given>>
logins == <<desk, ticket, socket>>
history == <<shown, revoked, touched, kept>>
vars == <<tables, logins, draft, edits, history>>

None == [state |-> "none", owner |-> Nobody]
Row(state, owner) == [state |-> state, owner |-> owner]
RowType == [state : {"none", "issued", "active", "suspended"}, owner : Players \cup {Nobody}]

Unissued == {c \in Codes : rows[c].state = "none"}
CodesOf(p) == {c \in Codes : rows[c].owner = p}

Init ==
  /\ ids = {} /\ rows = [c \in Codes |-> None] /\ table = rows
  /\ index = [c \in Codes |-> 0] /\ saves = {} /\ given = 0
  /\ desk = <<>> /\ ticket = [p \in Players |-> 0] /\ socket = [s \in Sockets |-> Nobody]
  /\ draft = Nobody /\ edits = 0
  /\ shown = [c \in Codes |-> {}] /\ revoked = {} /\ touched = {}
  /\ kept = [a \in 1..MaxAccount |-> Nobody]

-----------------------------------------------------------------------------
(* The tables.  CodeTable reloads, changes and writes the whole of it.      *)

Saved(new) == rows' = new /\ table' = new

Issued(c, state) == [rows EXCEPT ![c] = Row(state, Nobody)]

(* register's refusal: only an unclaimed code can be claimed.              *)
Claimable(c) == rows[c].state = "issued"
Claimed(t, c, p) == [t EXCEPT ![c] = Row("active", p)]

(* Variant: a withdrawn code is taken up again with the rest.              *)
AdoptedOver(t) ==
  [c \in Codes |-> IF index[c] # 0 /\ t[c].state # "active" THEN Row("active", Nobody) ELSE t[c]]

(* _seed_codes, at every start: a code that names an account but has no     *)
(* row is let in, with no owner.                                           *)
Adopted(t) ==
  [c \in Codes |-> IF index[c] # 0 /\ t[c] = None THEN Row("active", Nobody) ELSE t[c]]

(* The process dies and starts again: what is in memory is gone.           *)
Restarted(t) ==
  /\ Saved(Adopted(t))
  /\ desk' = <<>> /\ ticket' = [p \in Players |-> 0]
  /\ socket' = [s \in Sockets |-> Nobody]

Die ==
  /\ desk # <<>> \/ Adopted(rows) # rows \/ table # rows
  /\ Restarted(rows)
  /\ UNCHANGED <<ids, index, saves, given, draft, edits, history>>

-----------------------------------------------------------------------------
(* The website.                                                            *)

Told(c, p) == shown' = [shown EXCEPT ![c] = @ \cup {p}] /\ UNCHANGED <<revoked, touched, kept>>

(* /signup with p's own key.  An id that has a code is shown it.           *)
SignupAgain(p) ==
  /\ p \in ids /\ table' = rows
  /\ \E c \in CodesOf(p) : Told(c, p)
  /\ UNCHANGED <<ids, rows, index, saves, given, logins, draft, edits>>

(* Variant: an id that is taken is refused.                                *)
MayBeGivenNew(p) == p \notin ids /\ given < Fuse
MayBeGiven(p) == CodesOf(p) = {} /\ given < Fuse

(* _signup makes the id if need be, issues a code, claims it and counts it. *)
Signup(p) ==
  /\ MayBeGiven(p)
  /\ ids' = ids \cup {p} /\ given' = given + 1
  /\ \E c \in Unissued : Saved(Claimed(Issued(c, "issued"), c, p)) /\ Told(c, p)
  /\ UNCHANGED <<index, saves, logins, draft, edits>>

(* The same, cut off after one, two or three of its four files.            *)
SignupDies(p) ==
  /\ MayBeGiven(p)
  /\ ids' = ids \cup {p}
  /\ \/ Restarted(rows)
     \/ \E c \in Unissued : \/ Restarted(Issued(c, "issued"))
                            \/ Restarted(Claimed(Issued(c, "issued"), c, p))
  /\ UNCHANGED <<index, saves, given, draft, edits, history>>

CreateId(p) ==
  /\ p \notin ids /\ ids' = ids \cup {p}
  /\ UNCHANGED <<rows, table, index, saves, given, logins, draft, edits, history>>

(* /register: whether the code is already p's is read off the table as the  *)
(* server last saw it (CodeTable.owner does not reload); then nothing is    *)
(* done but to say so.                                                     *)
Register(p, c) ==
  /\ p \in ids /\ table[c].owner # p
  /\ IF Claimable(c) THEN Saved(Claimed(rows, c, p)) /\ Told(c, p)
     ELSE table' = rows /\ UNCHANGED <<rows, history>>
  /\ UNCHANGED <<ids, index, saves, given, logins, draft, edits>>

-----------------------------------------------------------------------------
(* Logging in.                                                             *)

(* TokenDesk.mint: the oldest tokens go when there are too many.           *)
Minted(d, entry) ==
  LET all == Append(d, entry)
  IN IF Len(all) > TokenLimit THEN Tail(all) ELSE all

(* login.php: a key that does not verify mints a token all the same, one    *)
(* that stands for nobody.  p's client forgets the token it had.           *)
SignIn(p, verified) ==
  /\ verified => p \in ids
  /\ LET older == [i \in DOMAIN desk |-> IF desk[i].by = p THEN [desk[i] EXCEPT !.by = Nobody]
                                         ELSE desk[i]]
     IN desk' = Minted(older, [by |-> p, who |-> IF verified THEN p ELSE Nobody])
  /\ UNCHANGED <<tables, ticket, socket, draft, edits, history>>

(* Variant: any token will do.                                             *)
SignedInAsAnybody(p) == {desk[i].who : i \in DOMAIN desk} \ {Nobody}
SignedInAs(p) == {desk[i].who : i \in {j \in DOMAIN desk : desk[j].by = p}} \ {Nobody}

(* CodeTable.check, then AccountStore.check_login.                         *)
MayEnter(p, c) ==
  /\ rows[c].state = "active"
  /\ rows[c].owner = Nobody \/ (rows[c].owner \in ids /\ rows[c].owner \in SignedInAs(p))

Least(S) == CHOOSE n \in S : \A m \in S : n <= m
(* Variant: only accounts a code names.                                    *)
TakenIndexOnly == {index[c] : c \in Codes}
Taken == {index[c] : c \in Codes} \cup saves
Free == (1..MaxAccount) \ Taken

(* 0x7000: the account the code names, the next free one for a new code,    *)
(* and a relay ticket for it.                                              *)
Login(p, c) ==
  /\ MayEnter(p, c)
  /\ index[c] # 0 \/ Free # {}
  /\ LET account == IF index[c] # 0 THEN index[c] ELSE Least(Free)
     IN index' = [index EXCEPT ![c] = account] /\ ticket' = [ticket EXCEPT ![p] = account]
  /\ table' = rows
  /\ UNCHANGED <<ids, rows, saves, given, desk, socket, draft, edits, history>>

LoginRefused(p, c) ==
  /\ ~MayEnter(p, c) /\ table # rows /\ table' = rows
  /\ UNCHANGED <<ids, rows, index, saves, given, logins, draft, edits, history>>

(* 0x0020 on a new connection: the ticket's number names its account.       *)
Connect(p, s) ==
  /\ ticket[p] # 0 /\ socket[s] = Nobody
  /\ socket' = [socket EXCEPT ![s] = [by |-> p, account |-> ticket[p],
                                      loggedIn |-> FALSE, handedOn |-> FALSE]]
  /\ UNCHANGED <<tables, desk, ticket, draft, edits, history>>

Live == {s \in Sockets : socket[s] # Nobody}

Rivals(s) == {o \in Live \ {s} : socket[o].loggedIn /\ ~socket[o].handedOn
                                 /\ socket[o].account = socket[s].account}

(* 0x0200, _game_login_refusal.                                            *)
GameLogin(s) ==
  /\ s \in Live /\ ~socket[s].loggedIn /\ Rivals(s) = {}
  /\ socket' = [socket EXCEPT ![s].loggedIn = TRUE]
  /\ UNCHANGED <<tables, desk, ticket, draft, edits, history>>

(* 0x0303: a ticket for the school connection, which is to follow.         *)
SchoolSelect(s) ==
  /\ s \in Live /\ socket[s].loggedIn /\ ~socket[s].handedOn
  /\ socket' = [socket EXCEPT ![s].handedOn = TRUE]
  /\ ticket' = [ticket EXCEPT ![socket[s].by] = socket[s].account]
  /\ UNCHANGED <<tables, desk, draft, edits, history>>

(* The first look into the locker makes the account's directory.           *)
MakeSave(s) ==
  /\ s \in Live /\ socket[s].loggedIn /\ socket[s].account \notin saves
  /\ LET a == socket[s].account
     IN /\ saves' = saves \cup {a}
        /\ kept' = [kept EXCEPT ![a] =
             IF \E c \in Codes : index[c] = a THEN CHOOSE c \in Codes : index[c] = a ELSE @]
  /\ UNCHANGED <<ids, rows, table, index, given, logins, draft, edits, shown, revoked, touched>>

Disconnect(s) ==
  /\ s \in Live /\ socket' = [socket EXCEPT ![s] = Nobody]
  /\ UNCHANGED <<tables, desk, ticket, draft, edits, history>>

-----------------------------------------------------------------------------
(* The operator: issue_code.py, and a text editor.                         *)

OperatorReads ==
  /\ draft = Nobody /\ edits < MaxEdits
  /\ draft' = rows /\ edits' = edits + 1
  /\ UNCHANGED <<tables, logins, history>>

(* What is written is the table that was read, one row changed: whatever    *)
(* happened in between is undone.  What the website said of a row that      *)
(* changes is the operator's to answer for.                                *)
OperatorWrites(c, row) ==
  LET new == [draft EXCEPT ![c] = row]
      changed == {d \in Codes : new[d] # rows[d]}
  IN /\ rows' = new /\ draft' = Nobody
     /\ shown' = [d \in Codes |-> IF d \in changed THEN {} ELSE shown[d]]
     /\ revoked' = (revoked \ changed) \cup (IF row.state = "suspended" THEN {c} ELSE {})
     /\ touched' = touched \cup changed
     /\ UNCHANGED <<ids, table, index, saves, given, logins, edits, kept>>

(* issue; --unregister; --activate, --revoke and --restore keep the owner.  *)
Operator ==
  \/ OperatorReads
  \/ /\ draft # Nobody
     /\ \E c \in Codes :
          \/ /\ {draft[c], rows[c]} = {None}
             /\ \E state \in {"issued", "active"} : OperatorWrites(c, Row(state, Nobody))
          \/ /\ draft[c] # None
             /\ \/ OperatorWrites(c, Row("issued", Nobody))
                \/ \E state \in {"active", "suspended"} :
                     OperatorWrites(c, Row(state, draft[c].owner))

(* Retiring a KONAMI ID; dropping an account that has no directory yet only *)
(* while nobody holds a ticket to it or plays it.                          *)
RetireId(p) ==
  /\ p \in ids /\ ids' = ids \ {p} /\ edits < MaxEdits /\ edits' = edits + 1
  /\ UNCHANGED <<rows, table, index, saves, given, logins, draft, history>>

DropAccount(c) ==
  /\ index[c] # 0
  /\ \/ index[c] \in saves
     \/ /\ \A p \in Players : ticket[p] # index[c]
        /\ \A s \in Live : socket[s].account # index[c]
  /\ index' = [index EXCEPT ![c] = 0] /\ edits < MaxEdits /\ edits' = edits + 1
  /\ UNCHANGED <<ids, rows, table, saves, given, logins, draft, history>>

Next ==
  \/ Die \/ Operator
  \/ \E p \in Players :
       \/ SignupAgain(p) \/ Signup(p) \/ SignupDies(p) \/ CreateId(p) \/ RetireId(p)
       \/ \E verified \in BOOLEAN : SignIn(p, verified)
       \/ \E c \in Codes : Register(p, c) \/ Login(p, c) \/ LoginRefused(p, c)
       \/ \E s \in Sockets : Connect(p, s)
  \/ \E s \in Sockets : GameLogin(s) \/ SchoolSelect(s) \/ MakeSave(s) \/ Disconnect(s)
  \/ \E c \in Codes : DropAccount(c)

(* A player who has no code tries the form again.                          *)
Spec == Init /\ [][Next]_vars /\ \A p \in Players : WF_vars(Signup(p))
-----------------------------------------------------------------------------
SocketType == [by : Players, account : 1..MaxAccount, loggedIn : BOOLEAN, handedOn : BOOLEAN]

TypeOK ==
  /\ ids \subseteq Players /\ saves \subseteq 1..MaxAccount /\ given \in 0..Fuse
  /\ {rows, table} \subseteq [Codes -> RowType] /\ draft \in [Codes -> RowType] \cup {Nobody}
  /\ index \in [Codes -> 0..MaxAccount] /\ ticket \in [Players -> 0..MaxAccount]
  /\ Len(desk) <= TokenLimit
  /\ socket \in [Sockets -> SocketType \cup {Nobody}]

(* A code the website has given a player lets that player in until the      *)
(* operator changes its row, whoever else tries to register it and whatever *)
(* the server forgot when it died.  RegistrationSite._signup, _register;   *)
(* CodeTable.register, adopt.                                              *)
ShownCodesWork ==
  \A c \in Codes, p \in Players :
    p \in shown[c] => /\ rows[c] = Row(IF c \in revoked THEN "suspended" ELSE "active", p)
                      /\ p \in ids \cap SignedInAs(p) => MayEnter(p, c) \/ c \in revoked

(* "A code that was deliberately suspended stays suspended even though it   *)
(* still names an account in the index": through restarts, registrations   *)
(* and other edits of the table.                                           *)
RevokedStaysOut ==
  \A c \in revoked : rows[c].state = "suspended" /\ \A p \in Players : ~MayEnter(p, c)

(* An account is one code's, and the characters saved under it stay with    *)
(* the code they were made under, though codes and accounts are dropped    *)
(* from the index and given out again.  AccountStore.account_id, _reserved. *)
SavesKeepTheirCode ==
  /\ TypeOK
  /\ \A c, d \in Codes : index[c] = index[d] /\ index[c] # 0 => c = d
  /\ \A a \in saves, c \in Codes : index[c] = a => c = kept[a]

(* Nobody but the player a code was given to plays the account it names:    *)
(* neither a token that stands for nobody, nor one of another player, nor   *)
(* a ticket from another run leads there.  And no account is played from    *)
(* two places at once.                                                     *)
NobodyElsesSave ==
  \A s \in Live : socket[s].loggedIn =>
    /\ \A c \in Codes \ touched :
         index[c] = socket[s].account => shown[c] \subseteq {socket[s].by}
    /\ ~socket[s].handedOn => Rivals(s) = {}

(* A registration cut off anywhere is made good by sending the form again:  *)
(* who has a KONAMI ID gets a code in the end, unless the day's fuse has    *)
(* blown (or the codes, 27^20 of them, are spent).                         *)
SignupRecovers ==
  \A p \in Players :
    p \in ids ~> \/ p \notin ids \/ CodesOf(p) # {}
                \/ given >= Fuse \/ Unissued = {}

(* A code does what its player and its operator were told of it.           *)
CodesKeepTheirWord == ShownCodesWork /\ RevokedStaysOut
=============================================================================
