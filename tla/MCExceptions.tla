---------------------------- MODULE MCExceptions ----------------------------
(***************************************************************************)
(* Families of small programs for Exceptions: every program of at most N   *)
(* statements, in text order, built from given kinds of statements.        *)
(***************************************************************************)
EXTENDS Exceptions

CONSTANT Family     \* which programs to run, see Chosen

Plain(kinds) == [kind : kinds, cat : {"none"}, fin : {FALSE}]
TryShapes(cats) ==
  {s \in [kind : {"try"}, cat : cats, fin : BOOLEAN] : s.fin \/ s.cat # "none"}

Put(shape, block) ==
  [kind |-> shape.kind, cat |-> shape.cat, fin |-> shape.fin, in |-> block]

(* Where the statement after the last one can stand: in the first block of *)
(* the last one, which is not left empty; or else next to it, or in the    *)
(* same or a later block of what is around it.                             *)
Parts == <<"body", "kuna", "catch", "yaqha", "fin">>
Rank(part) == CHOOSE i \in DOMAIN Parts : Parts[i] = part
Compound(s) == s.kind \in {"try", "loop", "switch", "call"}
OpenBlocks(p) ==
  IF p = << >> THEN {MainBlock}
  ELSE IF Compound(Last(p)) THEN {[of |-> Len(p), part |-> q] : q \in PartsOf(Last(p)) \cap {"body", "kuna"}}
  ELSE {MainBlock} \cup
       UNION {{[of |-> c.of, part |-> q] :
                  q \in {r \in PartsOf(p[c.of]) : Rank(r) >= Rank(c.part)}} :
              c \in Around(p, Last(p).in) \ {MainBlock}}

(* The rules a family of programs may impose on its statements.            *)
Admits(rule, p, n) ==
  CASE rule = "structured" -> Structured(p, n)
    [] rule = "exits" -> ExitsLeaveNo("fin", p, n) /\ SwitchInLoop(p, n)
    [] rule = "nested exits" ->
         /\ ExitsLeaveNo("fin", p, n) /\ SwitchInLoop(p, n)
         /\ n > 1 => p[n].in.of = n - 1
    [] rule = "any" -> TRUE

Longer(programs, shapes, rule) ==
  {q \in UNION {{Append(p, Put(sh, b)) : sh \in shapes, b \in OpenBlocks(p)} : p \in programs} :
     Accepts(q, Last(q)) /\ Admits(rule, q, Len(q))}

(* Programs of n statements.  Shorter ones need no run of their own: any   *)
(* statement may be skipped.                                               *)
RECURSIVE Grow(_, _, _, _)
Grow(n, programs, shapes, rule) ==
  IF n = 0 THEN {p \in programs : ~Compound(Last(p))}
  ELSE Grow(n - 1, Longer(programs, shapes, rule), shapes, rule)

(* An exit out of a katjaña that stands in another katjaña, both reached   *)
(* by runtime errors.                                                      *)
ExitOutOfTwo(outer, exit, catch, fins) ==
  LET Stmt(kind, in, part) == [kind |-> kind, cat |-> "none", fin |-> FALSE,
                               in |-> [of |-> in, part |-> part]]
      Try(cat, fin, in, part) == [Stmt("try", in, part) EXCEPT !.cat = cat, !.fin = fin]
  IN  << Stmt(outer, 0, "body"),
         Try("typed", fins[1], 1, "body"), Stmt("fail", 2, "body"),
         Try(catch, fins[2], 2, "catch"), Stmt("fail", 4, "body"), Stmt(exit, 4, "catch") >>
ExitsOutOfTwo ==
  {ExitOutOfTwo(jump[1], jump[2], catch, fins) :
     jump \in {<<"loop", "break">>, <<"loop", "continue">>, <<"call", "return">>},
     catch \in {"typed", "any"}, fins \in {<<FALSE, TRUE>>, <<TRUE, FALSE>>, <<TRUE, TRUE>>}}

(* One family per question. *)
Chosen ==
  CASE Family = "structured" ->      \* exceptions, calls and every shape of try; and exits
                                     \* that leave only katjaña blocks
         Grow(MaxLen - 2, {<< >>}, Plain({"throw", "fail", "call"}) \cup TryShapes({"none", "typed", "any"}),
              "structured")
         \cup
         Grow(MaxLen - 2, {<< >>}, Plain(Kinds \ {"try", "fail"}) \cup TryShapes({"typed"}), "structured")
         \cup                        \* and, without exceptions, exits out of anything but a tukuyawi
         Grow(MaxLen - 2, {<< >>}, Plain(Kinds \ {"try", "fail", "throw"}) \cup TryShapes({"none"}), "exits")
         \cup                        \* one statement deeper, each in the one before
         Grow(MaxLen - 1, {<< >>}, Plain({"loop", "break", "continue"}) \cup TryShapes({"none"}), "nested exits")
         \cup                        \* and exits that leave one katjaña after another
         {p \in ExitsOutOfTwo : Disciplined(p)}
    [] Family = "any" ->             \* whatever the compiler accepts
         Grow(MaxLen, {<< >>}, Plain(Kinds \ {"try"}) \cup TryShapes({"none", "typed"}), "any")
    [] Family = "error in catch" ->  \* a runtime error in a katjaña, one try
         Grow(MaxLen, {<< >>}, Plain({"fail"}) \cup TryShapes({"typed"}), "any")
    [] Family = "pantja in catch" -> \* pantja everywhere, nested tries
         Grow(MaxLen, {<< >>}, Plain({"throw"}) \cup TryShapes({"typed"}), "any")
    [] Family = "khiti in try" ->    \* a khiti under a try, no exception at all
         Grow(MaxLen, {<< >>}, Plain({"switch", "break"}) \cup TryShapes({"none"}), "any")
    [] Family = "return in try" ->   \* a function that returns out of a try
         Grow(MaxLen, {<< >>}, Plain({"throw", "call", "return"}) \cup TryShapes({"typed"}), "any")

(* The programs of the structured family are among those ExceptionsProofs  *)
(* is about.                                                               *)
ASSUME StructuredAreDisciplined ==
  Family = "structured" => \A p \in Chosen : Disciplined(p)
=============================================================================
