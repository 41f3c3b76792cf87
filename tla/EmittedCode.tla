----------------------------- MODULE EmittedCode -----------------------------
(***************************************************************************)
(* The programs aymc compiles, as far as exceptions and exits go, and the  *)
(* decisions the code generator takes for them at compile time             *)
(* (compiler/codegen/codegen_stmt_exception.cpp, codegen_stmt_control.cpp).*)
(*                                                                         *)
(* A program is a sequence of statements in text order; each one says in   *)
(* which block (`in`) it stands.  A block is a part of a compound          *)
(* statement, or the main program, the body of statement 0.  Every         *)
(* statement may be skipped at run time: a condition around it leaves no   *)
(* trace in the generator's state.  A "call" stands for a call together    *)
(* with the function it calls, which has no other caller.                  *)
(***************************************************************************)
EXTENDS Ascending, SequencesExt

Kinds == {"throw", "fail", "break", "continue", "return", "call", "loop",
          "switch", "try"}

MainBlock == [of |-> 0, part |-> "body"]

(* The blocks a statement has: `kuna` and `yaqha` of a khiti, the body,    *)
(* katjaña and tukuyawi of a yant'aña.  A try has a katjaña or a tukuyawi. *)
PartsOf(s) ==
  CASE s.kind = "try"    -> {"body"} \cup (IF s.cat # "none" THEN {"catch"} ELSE {})
                                     \cup (IF s.fin THEN {"fin"} ELSE {})
    [] s.kind = "switch" -> {"kuna", "yaqha"}
    [] s.kind \in {"loop", "call"} -> {"body"}
    [] OTHER -> {}

(* The blocks around block b of program p, b included: each stands in a    *)
(* block of an earlier statement, so the later its statement the further   *)
(* in it is.                                                               *)
Around(p, b) ==
  LET around[n \in 0..Len(p)] ==
        IF n = 0 THEN {} ELSE around[p[n].in.of] \cup {p[n].in}
  IN  around[b.of] \cup {b}

(* The statement the innermost of some blocks belongs to, 0 for none.      *)
Deepest(blocks) == IF blocks = {} THEN 0 ELSE Max({c.of : c \in blocks})

KindOf(p, b) == IF b.of = 0 THEN "main" ELSE p[b.of].kind
IsTry(p, b) == KindOf(p, b) = "try"
IsLoop(p, b) == KindOf(p, b) = "loop"

(* The function a block belongs to, 0 for the main program.                *)
FunctionOf(p, b) == Deepest({c \in Around(p, b) : KindOf(p, c) = "call"})

(* The blocks inside the function being emitted: emitFunction starts with  *)
(* every generator stack empty.                                            *)
Emitting(p, b) == LET f == FunctionOf(p, b) IN {c \in Around(p, b) : c.of >= f}

(* Mutant: a label is pushed for every try. *)
OnFinallyStackAlways(p, c) == IsTry(p, c) /\ c.part \in {"body", "catch"}

(* finallyStack holds a label while the body or a catch of its try is      *)
(* emitted, not while the finally block itself is.                         *)
OnFinallyStack(p, c) == IsTry(p, c) /\ p[c.of].fin /\ c.part \in {"body", "catch"}

(* The finally labels on finallyStack pushed by statements after `limit`.  *)
PushedAbove(p, b, limit) ==
  {c.of : c \in {d \in Emitting(p, b) : OnFinallyStack(p, d) /\ d.of > limit}}

(* Mutant: the calls emitted from the bottom of the stack upwards. *)
FinallysBottomUp(p, b, limit) == Ascending(PushedAbove(p, b, limit), Len(p))

(* The calls the generator emits for them: top of the stack first.         *)
FinallysAbove(p, b, limit) == Reverse(Ascending(PushedAbove(p, b, limit), Len(p)))

(* Mutant: loopFinallyDepth is never pushed. *)
LoopFinallysAll(p, b) == FinallysAbove(p, b, 0)

(* break and continue: down to loopFinallyDepth.back(), which only loops   *)
(* push, or to the bottom of the stack when it is empty.                   *)
LoopFinallys(p, b) == FinallysAbove(p, b, Deepest({c \in Emitting(p, b) : IsLoop(p, c)}))

(* return: the whole stack. *)
ReturnFinallys(p, b) == FinallysAbove(p, b, 0)

(* Mutant: pantja calls aym_throw at once, in a katjaña too. *)
ThrowFinallysNone(p, b) == << >>

(* pantja: down to throwFinallyLimitStack.back(), which only catch blocks  *)
(* push; nothing when it is empty or holds SIZE_MAX (no tukuyawi).         *)
ThrowFinallys(p, b) ==
  LET catch == Deepest({c \in Emitting(p, b) : c.part = "catch"})
  IN  IF catch = 0 \/ ~p[catch].fin THEN << >> ELSE FinallysAbove(p, b, catch - 1)

(* breakLabels.back(), pushed by loops and by khiti; continueLabels.back().*)
BreakTarget(p, b) == Deepest({c \in Emitting(p, b) : KindOf(p, c) \in {"loop", "switch"}})
ContinueTarget(p, b) == Deepest({c \in Emitting(p, b) : IsLoop(p, c)})
-----------------------------------------------------------------------------
(* What the parser and the semantic analyser accept: statements stand in   *)
(* a block of an earlier one, a try has a handler of some sort, and break, *)
(* continue and return stand where AYM3006, AYM3007 and AYM3008 want them. *)
Accepts(p, s) ==
  LET kinds == {KindOf(p, c) : c \in Emitting(p, s.in)}
  IN  /\ s.kind = "try" => s.fin \/ s.cat # "none"
      /\ s.kind = "break" => kinds \cap {"loop", "switch"} # {}
      /\ s.kind = "continue" => "loop" \in kinds
      /\ s.kind = "return" => "call" \in kinds

Block(n) == [of : 0..n, part : {"body", "catch", "fin", "kuna", "yaqha"}]
Statement(n) ==
  [kind : Kinds, cat : {"none", "typed", "any"}, fin : BOOLEAN, in : Block(n - 1)]

(* The main program, and the blocks the statements have. *)
IsBlock(p, b) == b = MainBlock \/ (b.of # 0 /\ b.part \in PartsOf(p[b.of]))

WellFormed(p) ==
  /\ p \in Seq(Statement(Len(p)))
  /\ \A n \in 1..Len(p) :
       p[n] \in Statement(n) /\ IsBlock(p, p[n].in) /\ Accepts(p, p[n])
=============================================================================
