------------------------------ MODULE Machine ------------------------------
(***************************************************************************)
(* gs3vm.py: the machine that walks a scenario beside the clients that     *)
(* play it.  A client executes its own copy and reports what it stops at;  *)
(* between two reports the cursor of that member executes the same run of  *)
(* instructions, late, on the one register file the whole party shares.    *)
(*                                                                         *)
(* The instructions kept are those a branch can depend on.  Arithmetic is  *)
(* the comparison with a literal, jumps and brackets are as in the script; *)
(* scenery, texts, dice and the data of a save are left out.               *)
(***************************************************************************)
EXTENDS Integers, Sequences, FiniteSets, SequencesExt

CONSTANTS
  Roles,     \* 役柄: the parts of a scenario; a part names its click register
  Scratch,   \* the other registers the scenario declares
  Scene,     \* Script.code
  None

Registers == Roles \union Scratch       \* CAT_SELECT, and the declared rest

Line == [op: {"decl", "ba_end", "sync", "end"}]
        \union [op: {"str"}, reg: Scratch, val: {0, 1}]
        \union [op: {"eq"}, reg: Scratch, left: Registers, val: {0, 1}]
        \union [op: {"jp"}, to: Nat]
        \union [op: {"br"}, reg: Registers, to: Nat]
        \union [op: {"ba"}, of: SUBSET Roles, to: Nat]
        \union [op: {"select"}, of: SUBSET Roles]
        \union [op: {"string"}, of: {{r} : r \in Roles}, reg: Scratch]

ASSUME SceneAssumption ==
  /\ Scene \in Seq(Line) /\ Scene # <<>> /\ Roles \intersect Scratch = {}
  /\ \A i \in DOMAIN Scene : Scene[i].op = "end" <=> i = Len(Scene)
  /\ \A i \in DOMAIN Scene : Scene[i].op \in {"jp", "br", "ba"} => Scene[i].to \in DOMAIN Scene
  /\ \A i \in DOMAIN Scene : Scene[i].op = "decl" => i = 1

(***************************************************************************)
(* A cursor w has a place (at), the values its own walk last wrote (own)   *)
(* and the book of the boxes: how often each was answered here, how often  *)
(* it was walked past when it was somebody else's, and which box of each   *)
(* other part was walked past last.                                        *)
(***************************************************************************)
Book == [answered |-> [i \in DOMAIN Scene |-> 0], walked |-> [i \in DOMAIN Scene |-> 0],
         awaiting |-> [r \in Roles |-> 0]]
NoRegisters == [x \in Registers |-> None]

Answered(book, i) == [book EXCEPT !.answered[i] = @ + 1]
WalkedBy(book, i, whose) ==
  IF whose = {} THEN book
  ELSE [book EXCEPT !.walked[i] = @ + 1,
                    !.awaiting = [r \in Roles |-> IF r \in whose THEN i ELSE @[r]]]
(* The box itself, come to by a part it does not ask.                      *)
WalkedPast(book, i, self) ==
  [book EXCEPT !.walked[i] = @ + 1,
     !.awaiting = [r \in Roles |-> IF r \in Scene[i].of \ {self} THEN i ELSE @[r]]]

(* _walk_by_arm: the boxes another part's bracket is sure to come to.      *)
ArmScan == 64
ArmStops == {"jp", "br", "ba", "ba_end", "end", "sync"}
Arm(i) ==
  LET first == IF Scene[Scene[i].to].op = "ba_end" THEN Scene[i].to + 1 ELSE Scene[i].to
      inside == {k \in first..Len(Scene) : k < first + ArmScan}
  IN IF Scene[i].to = i + 1 THEN <<>>
     ELSE SelectSeq([k \in 1..Cardinality(inside) |-> first + k - 1],
                    LAMBDA k : \A j \in first..k : Scene[j].op \notin ArmStops)
ArmWalkedBy(book, i, self) ==
  FoldLeft(LAMBDA b, k : IF Scene[k].op # "select" THEN b
                         ELSE WalkedBy(b, k, (Scene[k].of \intersect Scene[i].of) \ {self}),
           book, Arm(i))

(***************************************************************************)
(* Machine._step and Follower._step, of s = [w, reg]: a cursor and the     *)
(* shared registers.                                                       *)
(***************************************************************************)
(* F done n times over, beginning with s.                                  *)
Repeated(F(_), s, n) ==
  LET after[k \in 0..n] == IF k = 0 THEN s ELSE F(after[k - 1]) IN after[n]

PrologueDone(reg) == \A x \in Registers : reg[x] # None

(* _keep_own: what an instruction of the cursor's own walk wrote.          *)
Wrote(s, x, v) == [s EXCEPT !.reg[x] = v, !.w.own[x] = v]

Executed(s, on, line) ==
  CASE line.op = "decl" -> [on EXCEPT !.reg = [x \in Registers |-> 0]]
    [] line.op = "str" -> Wrote(on, line.reg, line.val)
    [] line.op = "eq" -> Wrote(on, line.reg, IF s.reg[line.left] = line.val THEN 1 ELSE 0)
    [] OTHER -> on

Step(s, self) ==
  LET line == Scene[s.w.at]
      on == [s EXCEPT !.w.at = @ + 1]
  IN IF line.op = "decl" /\ PrologueDone(s.reg) THEN on
     ELSE IF line.op = "ba" THEN [on EXCEPT !.w.book = ArmWalkedBy(@, s.w.at, self)]
     ELSE Executed(s, on, line)

(* What no client stops at: a bracket of somebody else's is fallen past,   *)
(* and a text box of somebody else's is not drawn.                         *)
Silent(i, self) ==
  \/ Scene[i].op \in {"decl", "str", "eq"}
  \/ Scene[i].op \in {"ba", "string"} /\ self \notin Scene[i].of
Stops == [self \in Roles |-> [i \in DOMAIN Scene |->
  CHOOSE j \in i..Len(Scene) : ~Silent(j, self) /\ \A k \in i..(j - 1) : Silent(k, self)]]
StopFrom(i, self) == Stops[self][i]

(* Follower.at: walk to the instruction the client has reported.           *)
At(s, self) == Repeated(LAMBDA t : Step(t, self), s, StopFrom(s.w.at, self) - s.w.at)

(* Follower.flowed: past a reported instruction that nothing waits at.     *)
Flows(op) == op \in {"jp", "ba", "ba_end"}
FlowedTo(i) == IF Scene[i].op \in {"jp", "ba"} THEN Scene[i].to ELSE i + 1

(***************************************************************************)
(* The branch.                                                             *)
(***************************************************************************)
(* Variant: the branch reads the party's register, whoever wrote it.    *)
SharedVerdict(w, reg) == reg[Scene[w.at].reg]

(* Follower.branch: a cursor's own value before the party's.               *)
Verdict(w, reg) ==
  LET x == Scene[w.at].reg IN IF w.own[x] # None THEN w.own[x] ELSE reg[x]

(* branch_clicks: the choices the rung before the branch compares.         *)
ConditionLookback == 6
ClicksOf == [i \in DOMAIN Scene |->
  LET rungs == {j \in 1..(i - 1) : /\ j > i - ConditionLookback
                                   /\ Scene[j].op = "eq" /\ Scene[j].reg = Scene[i].reg}
  IN IF Scene[i].op # "br" \/ rungs = {} THEN {}
     ELSE {Scene[CHOOSE j \in rungs : \A k \in rungs : k <= j].left} \intersect Roles]
Clicks(i) == ClicksOf[i]

(* recompute_condition: the run of rungs just before the branch, again.    *)
Recomputed(s, self) ==
  LET here == s.w.at
      rung(j) == \A k \in j..(here - 1) : Scene[k].op \in {"str", "eq"}
      rungs == {j \in 1..here : j >= here - ConditionLookback /\ rung(j)}
      start == CHOOSE j \in rungs : \A k \in rungs : j <= k
  IN Repeated(LAMBDA t : Step(t, self), [s EXCEPT !.w.at = start], here - start)

(* Follower.chose: only the click register is written.                     *)
ChoseOn(reg, self, option) == [reg EXCEPT ![self] = option]

(* Follower.typed: any text is the one value a script would not write.     *)
Text == 1
TypedOn(reg, i) == [reg EXCEPT ![Scene[i].reg] = Text]
=============================================================================
