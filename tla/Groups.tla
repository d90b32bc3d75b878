------------------------------ MODULE Groups ------------------------------
(***************************************************************************)
(* Friend groups (groups.py and the 0x62xx handlers of mps_session.py) and *)
(* the multipurpose room bookings they hold (multipurpose.py): founding,   *)
(* inviting, kicking, leaving, handing over and dissolving a group, a      *)
(* group's promotion to a club-like one, and what a lost connection, a     *)
(* deleted character or a dead process leaves of it.                       *)
(*                                                                         *)
(* An invitation and a handover each live in two connections at once: the  *)
(* asker's `invited` or `handTo` and the asked's `inviter` or `handFrom`.   *)
(* Most handlers clear both ends; some clear one.                          *)
(*                                                                         *)
(* Both books are written whole at the end of every change of theirs, so   *)
(* what is on disk is what is in memory except inside _group_destroy,      *)
(* which writes first one book and then the other.                         *)
(***************************************************************************)
EXTENDS Online

CONSTANTS
  Qualified,       \* GroupBook.qualified
  MaxId,           \* bound: the highest group id a behaviour mints
  MemberLimit,     \* MEMBER_LIMIT
  ClublikeLimit,   \* CLUBLIKE_MEMBER_LIMIT
  Scholars,        \* whose scorecard has the test level of 同好会登録
  Slots,           \* the rooms and days of the booking window
  Terms            \* term_of each slot's day

ASSUME GroupsAssumption ==
  /\ Qualified \subseteq Players /\ Scholars \subseteq Players
  /\ MaxId \in Nat /\ MemberLimit \in Nat \ {0}
  /\ ClublikeLimit \in Nat /\ MemberLimit <= ClublikeLimit
  /\ Terms \in [Slots -> Nat]

VARIABLES
  groups,     \* GroupBook.groups: by id
  resting,    \* GroupBook.stepped_down: whose thirty days are running
  bookings,   \* BookingBook.bookings
  invited, inviter,    \* session.group_invited, session.group_inviter
  handTo, handFrom     \* session.group_handover_to, session.group_handover_from

asking == <<invited, inviter, handTo, handFrom>>
groupVars == <<groups, resting, bookings, invited, inviter, handTo, handFrom>>

Ids == DOMAIN groups

(* GroupBook.of: the groups this character is in.                          *)
GroupOf(c) == {g \in Ids : c \in groups[g].members}
Leads(c, g) == g \in Ids /\ c \in groups[g].members /\ groups[g].leader = c

LimitOf(group) == IF group.clublike THEN ClublikeLimit ELSE MemberLimit

(* GroupBook._mint.                                                        *)
Mint == IF Ids = {} THEN 1 ELSE 1 + CHOOSE g \in Ids : \A h \in Ids : h <= g

Without(g) == [h \in Ids \ {g} |-> groups[h]]

GroupsInit ==
  /\ groups = <<>> /\ resting = {} /\ bookings = {}
  /\ invited = NoneAsked /\ inviter = NoneAsked
  /\ handTo = NoneAsked /\ handFrom = NoneAsked

-----------------------------------------------------------------------------
(* The two-ended marks.                                                    *)

(* The marks of f that name somebody of `who` whose own marks, in one of     *)
(* the tables back1 and back2, point back; and the marks of `who` itself.   *)
Matched(f, back1, back2, who) ==
  who \cup {p \in Players : f[p] \in who /\ p \in {back1[f[p]], back2[f[p]]}}

(* _forget_group_handshakes of everybody in `who`.                          *)
HandshakesDropped(who) ==
  /\ invited'  = Emptied(invited,  Matched(invited,  inviter, handFrom, who))
  /\ inviter'  = Emptied(inviter,  Matched(inviter,  invited, handTo,   who))
  /\ handTo'   = Emptied(handTo,   Matched(handTo,   inviter, handFrom, who))
  /\ handFrom' = Emptied(handFrom, Matched(handFrom, invited, handTo,   who))

(* Variant: nobody but the one who goes is looked at.                       *)
ApplicationsForgotten(c) ==
  /\ invited' = Emptied(invited, {c}) /\ inviter' = Emptied(inviter, {c})
  /\ handTo' = Emptied(handTo, {c}) /\ handFrom' = Emptied(handFrom, {c})

(* _applications_gone, the group part of it.                                *)
ApplicationsGone(c) ==
  /\ invited'  = Emptied(invited,  Matched(invited,  inviter,  inviter,  {c}))
  /\ inviter'  = Emptied(inviter,  Matched(inviter,  invited,  invited,  {c}))
  /\ handTo'   = Emptied(handTo,   Matched(handTo,   handFrom, handFrom, {c}))
  /\ handFrom' = Emptied(handFrom, Matched(handFrom, handTo,   handTo,   {c}))

(* _forget_stale_group of everybody in `who`: marks that name somebody who   *)
(* is not here.                                                             *)
Fresh(f, who) == [p \in Players |-> IF p \in who /\ f[p] \notin online THEN Nobody ELSE f[p]]

(* An invitation or an offer that is refused has dropped the dead marks of   *)
(* both by then.                                                            *)
AskedInVain(c, target) ==
  LET two == {c, target} \cap online
  IN /\ c \in online
     /\ \E f \in {invited, inviter, handTo, handFrom} : Fresh(f, two) # f
     /\ invited' = Fresh(invited, two) /\ inviter' = Fresh(inviter, two)
     /\ handTo' = Fresh(handTo, two) /\ handFrom' = Fresh(handFrom, two)
     /\ UNCHANGED <<groups, resting, bookings>>

-----------------------------------------------------------------------------
(* The group window.                                                       *)

(* GroupBook.create, promote, update, kick and leave: what each of them     *)
(* writes into the book, for somebody the handler has looked at.           *)
Founded(c, public) ==
  [g \in Ids \cup {Mint} |->
     IF g # Mint THEN groups[g]
     ELSE [leader |-> c, members |-> {c}, public |-> public, clublike |-> FALSE]]
Promoted(g) == [groups EXCEPT ![g].clublike = TRUE, ![g].public = TRUE]
Renewed(g, public) == [groups EXCEPT ![g].public = public]
Dismissed(g, c) == [groups EXCEPT ![g].members = @ \ {c}]
Left(g, c) == [groups EXCEPT ![g].members = @ \ {c}]

Create(c, public) ==
  /\ c \in online /\ c \in Qualified /\ GroupOf(c) = {} /\ c \notin resting
  /\ Mint <= MaxId
  /\ groups' = Founded(c, public)
  /\ UNCHANGED <<resting, bookings, asking>>

Update(c, public) ==
  /\ c \in online
  /\ \E g \in Ids :
       /\ Leads(c, g) /\ (groups[g].clublike => public)
       /\ groups' = Renewed(g, public)
  /\ UNCHANGED <<resting, bookings, asking>>

ClublikeRegister(c) ==
  /\ c \in online /\ c \in Scholars
  /\ \E g \in Ids :
       /\ Leads(c, g) /\ ~groups[g].clublike
       /\ Cardinality(groups[g].members) >= MemberLimit
       /\ groups' = Promoted(g)
  /\ UNCHANGED <<resting, bookings, asking>>

(* The one who is kicked keeps whatever questions they have open.          *)
Kick(c, target) ==
  /\ c \in online /\ target # c
  /\ \E g \in Ids :
       /\ Leads(c, g) /\ target \in groups[g].members
       /\ groups' = Dismissed(g, target)
  /\ UNCHANGED <<resting, bookings, asking>>

Part(c) ==
  /\ c \in online
  /\ \E g \in GroupOf(c) :
       /\ groups[g].leader # c
       /\ groups' = Left(g, c)
  /\ HandshakesDropped({c})
  /\ UNCHANGED <<resting, bookings>>

ForgetGroup(g) == bookings' = {b \in bookings : b.group # g}

Destroy(c) ==
  /\ c \in online
  /\ \E g \in Ids :
       /\ Leads(c, g)
       /\ ForgetGroup(g)
       /\ groups' = Without(g)
       /\ HandshakesDropped({c} \cup (groups[g].members \cap online))
  /\ resting' = resting \cup {c}

(* What is on disk when the process dies between _group_destroy's writes.  *)
DestroyTorn(g) == ForgetGroup(g) /\ UNCHANGED <<groups, resting>>

(* The process dies and comes back with the books and nobody on it.        *)
GroupsCrash ==
  /\ \/ UNCHANGED <<groups, resting, bookings>>
     \/ \E g \in Ids : groups[g].leader \in online /\ DestroyTorn(g)
  /\ invited' = NoneAsked /\ inviter' = NoneAsked
  /\ handTo' = NoneAsked /\ handFrom' = NoneAsked

-----------------------------------------------------------------------------
(* Invitations.                                                            *)

(* What the request needs of the two; the map between them, the icons and   *)
(* the ignore lists may refuse it all the same.                             *)
MayInvite(c, target) ==
  /\ target \in online /\ target # c /\ GroupOf(target) = {}
  /\ \E g \in Ids : Leads(c, g) /\ Cardinality(groups[g].members) < LimitOf(groups[g])
  /\ Fresh(invited, {c})[c] = Nobody /\ Fresh(inviter, {target})[target] = Nobody

Invite(c, target) ==
  /\ c \in online /\ MayInvite(c, target)
  /\ invited' = [Fresh(invited, {c, target}) EXCEPT ![c] = target]
  /\ inviter' = [Fresh(inviter, {c, target}) EXCEPT ![target] = c]
  /\ handTo' = Fresh(handTo, {c, target}) /\ handFrom' = Fresh(handFrom, {c, target})
  /\ UNCHANGED <<groups, resting, bookings>>

(* GroupBook.join: refused without a word when the group has filled up or   *)
(* the character has found another meanwhile.                              *)
Join(g, c) ==
  IF GroupOf(c) = {} /\ Cardinality(groups[g].members) < LimitOf(groups[g])
    THEN groups' = [groups EXCEPT ![g].members = @ \cup {c}]
    ELSE UNCHANGED groups

(* A yes to somebody who no longer leads clears the one mark only.         *)
InviteYes(c) ==
  /\ c \in online /\ inviter[c] # Nobody
  /\ inviter' = [inviter EXCEPT ![c] = Nobody]
  /\ \/ \E g \in Ids :
          /\ Leads(inviter[c], g)
          /\ invited' = [invited EXCEPT ![inviter[c]] = Nobody]
          /\ Join(g, c)
     \/ /\ \A g \in Ids : ~Leads(inviter[c], g)
        /\ UNCHANGED <<groups, invited>>
  /\ UNCHANGED <<resting, bookings, handTo, handFrom>>

InviteNo(c) ==
  /\ c \in online /\ inviter[c] # Nobody
  /\ inviter' = [inviter EXCEPT ![c] = Nobody]
  /\ invited' = [invited EXCEPT ![inviter[c]] = Nobody]
  /\ UNCHANGED <<groups, resting, bookings, handTo, handFrom>>

(* The asked forgets whoever had asked, be it the one who withdraws or not. *)
InviteCancel(c) ==
  /\ c \in online /\ invited[c] # Nobody
  /\ invited' = [invited EXCEPT ![c] = Nobody]
  /\ inviter' = [inviter EXCEPT ![invited[c]] = Nobody]
  /\ UNCHANGED <<groups, resting, bookings, handTo, handFrom>>

-----------------------------------------------------------------------------
(* Handing a group over.                                                   *)

MayOffer(c, target) ==
  /\ target \in online /\ target # c
  /\ \E g \in Ids : Leads(c, g) /\ target \in groups[g].members
  /\ Fresh(handTo, {c})[c] = Nobody /\ Fresh(handFrom, {target})[target] = Nobody

OfferGroup(c, target) ==
  /\ c \in online /\ MayOffer(c, target)
  /\ handTo' = [Fresh(handTo, {c, target}) EXCEPT ![c] = target]
  /\ handFrom' = [Fresh(handFrom, {c, target}) EXCEPT ![target] = c]
  /\ invited' = Fresh(invited, {c, target}) /\ inviter' = Fresh(inviter, {c, target})
  /\ UNCHANGED <<groups, resting, bookings>>

(* Variant: the group goes to whoever said yes, member or not.             *)
HandOverToAnybody(g, c) ==
  /\ groups' = [groups EXCEPT ![g].leader = c]
  /\ resting' = resting \cup {groups[g].leader}

(* GroupBook.hand_over: nothing at all for somebody who was kicked or left  *)
(* meanwhile.                                                              *)
HandOver(g, c) ==
  IF c \in groups[g].members /\ groups[g].leader # c
    THEN /\ groups' = [groups EXCEPT ![g].leader = c]
         /\ resting' = resting \cup {groups[g].leader}
    ELSE UNCHANGED <<groups, resting>>

OfferYes(c) ==
  /\ c \in online /\ handFrom[c] # Nobody
  /\ handFrom' = [handFrom EXCEPT ![c] = Nobody]
  /\ \/ \E g \in Ids :
          /\ Leads(handFrom[c], g)
          /\ handTo' = [handTo EXCEPT ![handFrom[c]] = Nobody]
          /\ HandOver(g, c)
     \/ /\ \A g \in Ids : ~Leads(handFrom[c], g)
        /\ UNCHANGED <<groups, resting, handTo>>
  /\ UNCHANGED <<bookings, invited, inviter>>

OfferNo(c) ==
  /\ c \in online /\ handFrom[c] # Nobody
  /\ handFrom' = [handFrom EXCEPT ![c] = Nobody]
  /\ handTo' = [handTo EXCEPT ![handFrom[c]] = Nobody]
  /\ UNCHANGED <<groups, resting, bookings, invited, inviter>>

OfferCancel(c) ==
  /\ c \in online /\ handTo[c] # Nobody
  /\ handTo' = [handTo EXCEPT ![c] = Nobody]
  /\ handFrom' = [handFrom EXCEPT ![handTo[c]] = Nobody]
  /\ UNCHANGED <<groups, resting, bookings, invited, inviter>>

-----------------------------------------------------------------------------
(* The multipurpose rooms.                                                 *)

Booked(slot) == {b \in bookings : b.slot = slot}
HeldBy(g) == {b \in bookings : b.group = g}

Reserve(c, slot) ==
  /\ c \in online
  /\ \E g \in GroupOf(c) :
       /\ \A b \in HeldBy(g) : Terms[b.slot] # Terms[slot]
       /\ Booked(slot) = {}
       /\ bookings' = bookings \cup {[slot |-> slot, group |-> g]}
  /\ UNCHANGED <<groups, resting, asking>>

CancelRoom(c, slot) ==
  /\ c \in online
  /\ \E g \in GroupOf(c), b \in Booked(slot) :
       b.group = g /\ bookings' = bookings \ {b}
  /\ UNCHANGED <<groups, resting, asking>>

-----------------------------------------------------------------------------
(* Coming, going and being deleted.                                        *)

GroupsGone(c) == ApplicationsGone(c) /\ UNCHANGED <<groups, resting, bookings>>

WaitOver(c) ==
  /\ c \in resting /\ resting' = resting \ {c}
  /\ UNCHANGED <<groups, bookings, asking>>

(* GroupBook.forget, for a character who does not lead: a leader's deletion *)
(* is refused.                                                             *)
GroupsForget(c) ==
  /\ \A g \in Ids : ~Leads(c, g)
  /\ resting' = resting \ {c}
  /\ groups' = [g \in Ids |-> [groups[g] EXCEPT !.members = @ \ {c}]]
  /\ UNCHANGED <<bookings, asking>>

GroupsNext ==
  \E c \in Players :
    \/ \E public \in BOOLEAN : Create(c, public) \/ Update(c, public)
    \/ ClublikeRegister(c) \/ Part(c) \/ Destroy(c)
    \/ \E target \in Players :
         Kick(c, target) \/ Invite(c, target) \/ OfferGroup(c, target) \/ AskedInVain(c, target)
    \/ InviteYes(c) \/ InviteNo(c) \/ InviteCancel(c)
    \/ OfferYes(c) \/ OfferNo(c) \/ OfferCancel(c)
    \/ \E slot \in Slots : Reserve(c, slot) \/ CancelRoom(c, slot)
    \/ WaitOver(c)

-----------------------------------------------------------------------------
(* Type correctness of the books and of the marks in the connections.      *)
GroupsTypeOK ==
  /\ Ids \subseteq 1..MaxId
  /\ \A g \in Ids : groups[g] \in [leader : Players, members : SUBSET Players,
                                   public : BOOLEAN, clublike : BOOLEAN]
  /\ resting \subseteq Players
  /\ bookings \subseteq [slot : Slots, group : 1..MaxId]
  /\ \A f \in {invited, inviter, handTo, handFrom} : f \in [Players -> Players \cup {Nobody}]

(* Whatever order people join, leave, are kicked, hand over and are deleted *)
(* in, nobody is in two groups, every group is led by a member of it, holds *)
(* living characters only and no more than it may, and a club-like group   *)
(* is a public one.                                                        *)
RostersAgree ==
  /\ \A g, h \in Ids : g # h => groups[g].members \cap groups[h].members = {}
  /\ \A g \in Ids :
       /\ groups[g].leader \in groups[g].members
       /\ groups[g].members \subseteq exists
       /\ Cardinality(groups[g].members) <= LimitOf(groups[g])
       /\ groups[g].clublike => groups[g].public

(* Whoever has a question of another's to answer, the other is here and is *)
(* waiting for that answer: an answer is never applied to a question that  *)
(* was withdrawn or whose asker has come back as a new connection.         *)
QuestionsAreBacked ==
  \A c \in Players :
    /\ inviter[c] # Nobody => {c, inviter[c]} \subseteq online /\ invited[inviter[c]] = c
    /\ handFrom[c] # Nobody => {c, handFrom[c]} \subseteq online /\ handTo[handFrom[c]] = c

(* A room is booked once, by a group that still exists, and a group holds   *)
(* one booking a term -- also when the process dies inside a 解散: an id is  *)
(* minted again, and its next bearer would find the dead group's bookings.  *)
BookingsOwned ==
  /\ \A b \in bookings : b.group \in Ids
  /\ \A a, b \in bookings :
       a # b => a.slot # b.slot /\ ~(a.group = b.group /\ Terms[a.slot] = Terms[b.slot])
=============================================================================
