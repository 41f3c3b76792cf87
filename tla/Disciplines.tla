---------------------------- MODULE Disciplines ----------------------------
(***************************************************************************)
(* Rules a program may keep, under which what the language promises of     *)
(* yant'aña holds of the emitted code.                                     *)
(***************************************************************************)
EXTENDS EmittedCode

(* The blocks of try statements around block b, calls included, and those  *)
(* among them an exception raised there may come to leave: the ones inside *)
(* the innermost body with a catch-all.                                    *)
TryBlocks(p, b) == {c \in Around(p, b) : IsTry(p, c)}
Exposed(p, b) ==
  LET caught == Deepest({c \in TryBlocks(p, b) : c.part = "body" /\ p[c.of].cat = "any"})
  IN  {c \in TryBlocks(p, b) : c.of > caught}

(* A katjaña whose try still owes its tukuyawi. *)
Owing(p, c) == c.part = "catch" /\ p[c.of].fin

(* Exceptions anywhere in bodies and tukuyawi blocks; but a katjaña whose  *)
(* try has a tukuyawi is left by a pantja of its own, or not at all.       *)
ThrowsOneLevel(p, n) ==
  LET owing == {c \in Exposed(p, p[n].in) : Owing(p, c)}
      own == {c \in TryBlocks(p, p[n].in) \cap Emitting(p, p[n].in) : Owing(p, c)}
  IN  /\ p[n].kind = "fail" => owing = {}
      /\ p[n].kind = "throw" =>
           \/ owing = {} /\ own = {}
           \/ \E c \in own : owing = {c} /\ c.of = Deepest(TryBlocks(p, p[n].in))

(* The blocks an exit at statement n jumps out of: those inside the loop,  *)
(* khiti or function it leaves.                                            *)
ExitTarget(p, n) ==
  CASE p[n].kind = "return" -> FunctionOf(p, p[n].in)
    [] p[n].kind = "continue" -> ContinueTarget(p, p[n].in)
    [] p[n].kind = "break" -> BreakTarget(p, p[n].in)
LeftBy(p, n) == LET to == ExitTarget(p, n) IN {c \in Around(p, p[n].in) : c.of > to}

ExitsLeaveNo(part, p, n) ==
  p[n].kind \in {"break", "continue", "return"} =>
    \A c \in LeftBy(p, n) : ~(IsTry(p, c) /\ c.part = part)

(* No khiti directly under a try with a tukuyawi: only with a loop between.*)
SwitchInLoop(p, n) == p[n].kind = "switch" => LoopFinallys(p, p[n].in) = << >>

(* All the rules: exceptions and exits that cross at most one katjaña, and *)
(* no exit out of a body or a tukuyawi.                                    *)
Structured(p, n) ==
  /\ ThrowsOneLevel(p, n)
  /\ ExitsLeaveNo("body", p, n) /\ ExitsLeaveNo("fin", p, n)
  /\ SwitchInLoop(p, n)

(* No break, continue or return stands in a body it leaves: the only way   *)
(* out of a body for which no aym_try_pop is emitted.                      *)
LeavesNoBody(p) == \A n \in 1..Len(p) : ExitsLeaveNo("body", p, n)

(* No exit leaves a tukuyawi, with the frame of its `call` on the stack.   *)
LeavesNoFinally(p) == \A n \in 1..Len(p) : ExitsLeaveNo("fin", p, n)

(* The programs what is proved of the emitted code is about: all the rules,*)
(* or no exception at all, and then exits may leave bodies too.            *)
Disciplined(p) ==
  /\ \A n \in 1..Len(p) : ExitsLeaveNo("fin", p, n) /\ SwitchInLoop(p, n)
  /\ \/ LeavesNoBody(p) /\ \A n \in 1..Len(p) : ThrowsOneLevel(p, n)
     \/ \A n \in 1..Len(p) : p[n].kind \notin {"throw", "fail"}
=============================================================================
