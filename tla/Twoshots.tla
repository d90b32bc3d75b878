----------------------------- MODULE Twoshots -----------------------------
(***************************************************************************)
(* Twoshot conversations (the 0x50xx-0x52xx handlers of mps_session.py and *)
(* twoshot.py): one asks another, a yes takes both clients from the map to *)
(* a screen of their own, and only a message from the server takes that    *)
(* screen down again.                                                      *)
(*                                                                         *)
(* Where the two stand, their icons and the ignore lists only ever refuse  *)
(* a request, so a request may always be refused here.                     *)
(***************************************************************************)
EXTENDS Online

VARIABLES
  asked,     \* session.twoshot_asked
  askedBy,   \* session.twoshot_asking
  partner,   \* session.twoshot_with
  facing     \* whose client shows the twoshot screen

twoshotVars == <<asked, askedBy, partner, facing>>

TwoshotsInit ==
  asked = NoneAsked /\ askedBy = NoneAsked /\ partner = NoneAsked /\ facing = {}

(* _forget_stale_twoshot of everybody in `who`.                             *)
StillAsked(who) == [p \in Players |->
  IF p \in who /\ asked[p] # Nobody /\ (asked[p] \notin online \/ askedBy[asked[p]] # p)
    THEN Nobody ELSE asked[p]]
StillAskedBy(who) == [p \in Players |->
  IF p \in who /\ askedBy[p] # Nobody /\ (askedBy[p] \notin online \/ asked[askedBy[p]] # p)
    THEN Nobody ELSE askedBy[p]]

(* Neither is in a twoshot or in the middle of an application.              *)
TwoshotFree(c, target) ==
  \A p \in {c, target} :
    partner[p] = Nobody /\ StillAsked({c, target})[p] = Nobody
    /\ StillAskedBy({c, target})[p] = Nobody

TwoshotRequest(c, target) ==
  /\ {c, target} \subseteq online /\ target # c /\ TwoshotFree(c, target)
  /\ asked' = [StillAsked({c, target}) EXCEPT ![c] = target]
  /\ askedBy' = [StillAskedBy({c, target}) EXCEPT ![target] = c]
  /\ UNCHANGED <<partner, facing>>

(* What a refused request, or any other message that comes to nothing, has  *)
(* done by then.                                                            *)
TwoshotInVain(c, target) ==
  LET two == {c, target} \cap online
  IN /\ c \in online
     /\ StillAsked(two) # asked \/ StillAskedBy(two) # askedBy
     /\ asked' = StillAsked(two) /\ askedBy' = StillAskedBy(two)
     /\ UNCHANGED <<partner, facing>>

(* A yes from somewhere that is no place (_twoshot_place) ends it for both. *)
TwoshotResponse(c, yes) ==
  LET asker == StillAskedBy({c})[c]
  IN /\ c \in online /\ asker # Nobody
     /\ askedBy' = [StillAskedBy({c}) EXCEPT ![c] = Nobody]
     /\ asked' = [StillAsked({c}) EXCEPT ![asker] = Nobody]
     /\ \/ /\ yes
           /\ partner' = [partner EXCEPT ![c] = asker, ![asker] = c]
           /\ facing' = facing \cup {c, asker}
        \/ UNCHANGED <<partner, facing>>

(* Either end may withdraw; the asker's own application comes first.        *)
TwoshotCancel(c) ==
  LET mine == StillAsked({c})
      theirs == StillAskedBy({c})
      other == IF mine[c] # Nobody THEN mine[c] ELSE theirs[c]
  IN /\ c \in online /\ other # Nobody
     /\ asked' = [p \in Players |-> IF p = c \/ (p = other /\ mine[p] = c) THEN Nobody ELSE mine[p]]
     /\ askedBy' = [p \in Players |-> IF p = c \/ (p = other /\ theirs[p] = c) THEN Nobody ELSE theirs[p]]
     /\ UNCHANGED <<partner, facing>>

(* _twoshot_end: both screens come down.  A client sends it from the twoshot *)
(* screen, but the other end's may have been handled meanwhile: then it      *)
(* clears whatever marks c has got since.                                    *)
TwoshotEnd(c) ==
  LET other == partner[c]
      mutual == other # Nobody /\ other \in online /\ partner[other] = c
      both == IF mutual THEN {c, other} ELSE {c}
  IN /\ c \in online
     /\ asked' = Emptied(StillAsked({c}), both)
     /\ askedBy' = Emptied(StillAskedBy({c}), both)
     /\ partner' = Emptied(partner, both)
     /\ facing' = IF mutual THEN facing \ both ELSE facing

(* Whom c's going frees: those c was with, asked or was asked by, when they  *)
(* are still tied to c.                                                     *)
Freed(c) == {q \in {partner[c], asked[c], askedBy[c]} \cap online :
               c \in {partner[q], asked[q], askedBy[q]}}

(* _twoshot_partner_gone.                                                   *)
TwoshotGone(c) ==
  LET over == {c} \cup Freed(c)
  IN /\ asked' = Emptied(asked, over)
     /\ askedBy' = Emptied(askedBy, over)
     /\ partner' = Emptied(partner, over)
     /\ facing' = facing \ ({c} \cup (over \cap {partner[c]}))

TwoshotsCrash ==
  asked' = NoneAsked /\ askedBy' = NoneAsked /\ partner' = NoneAsked /\ facing' = {}

TwoshotsNext ==
  \E c \in Players :
    \/ \E target \in Players : TwoshotRequest(c, target) \/ TwoshotInVain(c, target)
    \/ \E yes \in BOOLEAN : TwoshotResponse(c, yes)
    \/ TwoshotCancel(c) \/ TwoshotEnd(c)

-----------------------------------------------------------------------------
TwoshotsTypeOK ==
  /\ \A f \in {asked, askedBy, partner} : f \in [Players -> Players \cup {Nobody}]
  /\ facing \subseteq Players

(* Requests cross, are withdrawn, answered and cut off by a lost connection, *)
(* and an END sent to a twoshot that is over lands in the next application; *)
(* still a twoshot is two people's with each other, nobody in one has an    *)
(* application open that could make a second, and exactly the people in one *)
(* have the map off their screen: nobody is left facing a portrait with    *)
(* nobody behind it.                                                        *)
TwoshotsPaired ==
  \A p \in Players :
    /\ partner[p] # Nobody =>
         /\ p \in online /\ partner[p] # p /\ partner[partner[p]] = p
         /\ StillAsked(Players)[p] = Nobody /\ StillAskedBy(Players)[p] = Nobody
    /\ (p \in facing) <=> (partner[p] # Nobody)
=============================================================================
