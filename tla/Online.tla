------------------------------ MODULE Online ------------------------------
(***************************************************************************)
(* Who is on the server.  A character is found through its live connection *)
(* (MpsServer._session_of), so what a handler may do to somebody else      *)
(* depends on whether they are here at all.                                *)
(***************************************************************************)
EXTENDS Integers, FiniteSets

CONSTANTS Players, Nobody

ASSUME OnlineAssumption == Nobody \notin Players

VARIABLES
  online,   \* MpsServer.live: the characters with a live connection
  exists    \* the characters that have a record

(* A table of one entry per character, as the fields of _Session are.      *)
NoneAsked == [p \in Players |-> Nobody]

(* A table with the entries of `who` emptied.                              *)
Emptied(f, who) == [p \in Players |-> IF p \in who THEN Nobody ELSE f[p]]
=============================================================================
