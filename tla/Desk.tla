------------------------------- MODULE Desk -------------------------------
(***************************************************************************)
(* The game masters' desk: the queue of players' calls (gmcall.py), kept   *)
(* on disk, and the conversations a game master starts with a player       *)
(* (gmchat.py), kept in memory.  A game master is a player with the        *)
(* console; the client of one who is asked has a dialog up, then a window, *)
(* and only the server's messages take it down.                            *)
(***************************************************************************)
EXTENDS Online

CONSTANT Staff   \* who uses the console

ASSUME DeskAssumption == Staff \subseteq Players

VARIABLES
  calls,         \* CallBook.calls: none, waiting or taken
  summoned,      \* Desk.invited: the game master who asked this player
  talking,       \* Desk.talking: the game master this player talks to
  window         \* what the player's client shows

deskVars == <<calls, summoned, talking, window>>

DeskInit ==
  /\ calls = [p \in Players |-> "none"]
  /\ summoned = NoneAsked /\ talking = NoneAsked
  /\ window = [p \in Players |-> "none"]

(* The queue.                                                              *)

Call(c) ==
  /\ c \in online /\ calls[c] = "none"
  /\ calls' = [calls EXCEPT ![c] = "waiting"]
  /\ UNCHANGED <<summoned, talking, window>>

(* A call a game master has taken in hand is no longer the player's.       *)
CallCancel(c) ==
  /\ c \in online /\ calls[c] = "waiting"
  /\ calls' = [calls EXCEPT ![c] = "none"]
  /\ UNCHANGED <<summoned, talking, window>>

(* /gm take, /gm free and /gm done, for a player who is here or is not.    *)
CallHandled(g, c, state) ==
  /\ g \in Staff \cap online /\ calls[c] # "none"
  /\ calls' = [calls EXCEPT ![c] = state]
  /\ UNCHANGED <<summoned, talking, window>>

CallsForget(c) ==
  /\ calls' = [calls EXCEPT ![c] = "none"]
  /\ UNCHANGED <<summoned, talking, window>>

(* The conversations.                                                      *)

(* Desk.player_of: one this game master talks to, else one they asked; a    *)
(* game master may have asked several.                                     *)
PlayersOf(g) ==
  LET mine(f) == {p \in Players : f[p] = g}
  IN IF mine(talking) # {} THEN mine(talking) ELSE mine(summoned)

(* Desk.forget.                                                            *)
Forget(c) ==
  /\ summoned' = [summoned EXCEPT ![c] = Nobody]
  /\ talking' = [talking EXCEPT ![c] = Nobody]

Summon(g, c) ==
  /\ g \in Staff \cap online /\ c \in online
  /\ talking[c] = Nobody /\ summoned[c] = Nobody
  /\ summoned' = [summoned EXCEPT ![c] = g]
  /\ window' = [window EXCEPT ![c] = "asked"]
  /\ UNCHANGED <<calls, talking>>

(* The dialog is answered: no, by the player or by a client that cannot     *)
(* take it, and the dialog goes; yes, and it becomes the window.           *)
SummonsNo(c) ==
  /\ c \in online /\ window[c] = "asked"
  /\ Forget(c)
  /\ window' = [window EXCEPT ![c] = "none"]
  /\ UNCHANGED calls

SummonsYes(c) ==
  /\ c \in online /\ window[c] = "asked" /\ summoned[c] # Nobody
  /\ summoned' = [summoned EXCEPT ![c] = Nobody]
  /\ talking' = [talking EXCEPT ![c] = summoned[c]]
  /\ window' = [window EXCEPT ![c] = "talking"]
  /\ UNCHANGED calls

(* /gm cancel and /gm end.                                                 *)
GmEnds(g) ==
  /\ g \in Staff \cap online
  /\ \E c \in PlayersOf(g) : Forget(c) /\ window' = [window EXCEPT ![c] = "none"]
  /\ UNCHANGED calls

(* _gm_chat_gone: c's own conversation is forgotten, and one of those c     *)
(* holds as a game master is ended.                                        *)
DeskGone(c) ==
  LET theirs == PlayersOf(c) \ {c}
  IN /\ IF theirs = {}
          THEN Forget(c) /\ window' = [window EXCEPT ![c] = "none"]
          ELSE \E p \in theirs :
                 /\ summoned' = [summoned EXCEPT ![c] = Nobody, ![p] = Nobody]
                 /\ talking' = [talking EXCEPT ![c] = Nobody, ![p] = Nobody]
                 /\ window' = [window EXCEPT ![c] = "none", ![p] = "none"]
     /\ UNCHANGED calls

DeskCrash ==
  /\ summoned' = NoneAsked /\ talking' = NoneAsked
  /\ window' = [p \in Players |-> "none"]
  /\ UNCHANGED calls

DeskNext ==
  \E c \in Players :
    \/ Call(c) \/ CallCancel(c)
    \/ \E g \in Staff : Summon(g, c) \/ GmEnds(g)
    \/ \E g \in Staff, state \in {"waiting", "taken", "none"} : CallHandled(g, c, state)
    \/ SummonsNo(c) \/ SummonsYes(c)

-----------------------------------------------------------------------------
DeskTypeOK ==
  /\ calls \in [Players -> {"none", "waiting", "taken"}]
  /\ summoned \in [Players -> Players \cup {Nobody}]
  /\ talking \in [Players -> Players \cup {Nobody}]
  /\ window \in [Players -> {"none", "asked", "talking"}]

(* The desk and the players' screens agree through crossed answers, a game  *)
(* master withdrawing and connections lost on either side: a dialog is up   *)
(* exactly for those asked and a window for those talking, nobody who left  *)
(* is still asked or talking, and no call is a deleted character's.        *)
DeskIsShown ==
  \A p \in Players :
    /\ (window[p] = "asked") <=> (summoned[p] # Nobody)
    /\ (window[p] = "talking") <=> (talking[p] # Nobody)
    /\ window[p] # "none" => p \in online
    /\ calls[p] # "none" => p \in exists
=============================================================================
