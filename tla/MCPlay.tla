------------------------------- MODULE MCPlay -------------------------------
(* Two people and a pool of stand-ins for two roles.  As in un184, each    *)
(* role is asked in a bracket of its own, and both branch on what the      *)
(* first chose.  After a barrier, as in un066, a register is written again *)
(* just past the branch that reads it, with a box in between.              *)
EXTENDS Play, TLC

CONSTANTS a, b, n1, n2, F, B

MCScene == << [op |-> "decl"],
              [op |-> "ba", of |-> {0}, to |-> 4],
              [op |-> "ba", of |-> {1}, to |-> 7],
              [op |-> "ba_end"],
              [op |-> "select", of |-> {0, 1}],
              [op |-> "jp", to |-> 8],
              [op |-> "select", of |-> {0, 1}],
              [op |-> "eq", reg |-> F, left |-> 0, val |-> 1],
              [op |-> "br", reg |-> F, to |-> 10],
              [op |-> "sync"],
              [op |-> "str", reg |-> B, val |-> 0],
              [op |-> "select", of |-> {1}],
              [op |-> "br", reg |-> B, to |-> 17],
              [op |-> "str", reg |-> B, val |-> 1],
              [op |-> "eq", reg |-> F, left |-> 1, val |-> 1],
              [op |-> "br", reg |-> F, to |-> 17],
              [op |-> "string", of |-> {0}, reg |-> B],
              [op |-> "end"] >>
=============================================================================
