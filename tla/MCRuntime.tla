----------------------------- MODULE MCRuntime -----------------------------
(***************************************************************************)
(* The parts of the runtime and the code of expressions side by side: a    *)
(* behaviour is one of one part, and the others stay as they are at first. *)
(***************************************************************************)
EXTENDS Collections, ExpressionCode, Graphics, Terminal, Texts

VARIABLES part

Parts == {"collections", "expressions", "graphics", "terminal", "texts"}
allVars == <<part, collectionVars, expressionVars, graphicsVars, terminalVars, textVars>>

SizesAskedFor == -1..1
-----------------------------------------------------------------------------
(* Programs: expressions within expressions within statements.  Where      *)
(* parts are combined all but one of them are small.                       *)
Leaves == {Number(1), Variable("x"), Increment("x", FALSE), Increment("x", TRUE)}
Small == {Number(1), Increment("x", FALSE)}
Combined(nums, lists, maps) ==
  LET Pairs == (nums \X Small) \cup (Small \X nums) IN
  [nums |->
     {Operation(op, p[1], p[2]) : op \in {"-", "&&", "||"}, p \in Pairs}
       \cup {Choice(p[1], p[2], Number(4)) : p \in Pairs}
       \cup {Index(b, n) : b \in lists, n \in Small} \cup {Index(Variable("l"), n) : n \in nums}
       \cup {Index(Variable("d"), Number(Key))}
       \cup {Builtin("array_length", <<b>>) : b \in lists}
       \cup {CallOf("minus", p) : p \in Pairs}
       \cup {Method(New(<<p[1]>>), <<p[2]>>) : p \in Pairs}
       \cup {Member(New(<<n>>), FieldKey) : n \in nums}
       \cup {CallOf("last", <<n, Number(1), Number(2), Number(3), n>>) : n \in Small},
   lists |->
     {ListOf(p) : p \in Pairs} \cup {ListOf(<<b, Variable("l")>>) : b \in lists}
       \cup {CallOf("box", <<n>>) : n \in nums}
       \cup {Builtin("array_push", <<b, n>>) : b \in lists, n \in Small}
       \cup {Builtin("array_push", <<Variable("l"), n>>) : n \in nums},
   maps |-> {MapOf(<<Number(Key), p[1], Number(FieldKey), p[2]>>) : p \in Pairs} \cup {New(<< >>)}]
Drawings ==
  LET ns == Leaves \cup {Operation("-", l, Increment("x", FALSE)) : l \in Leaves} IN
    {Rectangle(<<Number(1), n, Number(2), Number(3), Number(4), m, Number(6)>>) : n \in ns, m \in Leaves}
      \cup {Label(<<Number(1), n, Number(2), Number(4), m, Number(6)>>) : n \in ns, m \in Leaves}
Inner == Combined(Leaves, {Variable("l")}, {Variable("d")})
Outer == Combined(Inner.nums, Inner.lists, Inner.maps)
SmallStatements ==
  {Assign("x", e) : e \in Inner.nums \cup Outer.nums \cup Drawings}
    \cup {Assign("l", e) : e \in Inner.lists \cup Outer.lists}
    \cup {Assign("d", e) : e \in Inner.maps \cup Outer.maps}
    \cup {IndexAssign(Variable("l"), i, e) : i \in Small, e \in Inner.nums}
    \cup {IndexAssign(Variable("l"), i, e) : i \in Inner.nums, e \in Small}
    \cup {IndexAssign(Variable("d"), Number(Key), e) : e \in Inner.nums}
    \cup {IndexAssign(b, Number(0), e) : b \in Inner.lists, e \in Small}
-----------------------------------------------------------------------------
(* Texts of up to four letters, and searched for up to two.                *)
Asked(op, text, by, with, parts, n) ==
  [op |-> op, text |-> text, by |-> by, with |-> with, parts |-> parts, n |-> n]
Prose == BoundedSeq({"a", " ", "-"}, 4)
Sought == BoundedSeq({"a", "-"}, 2)
SmallRequests ==
  {Asked("trim", t, << >>, << >>, << >>, 0) : t \in Prose}
    \cup {Asked(op, t, s, << >>, << >>, 0) : op \in {"split", "contains"}, t \in Prose, s \in Sought}
    \cup {Asked("replace", t, s, w, << >>, 0) :
            t \in Prose \cup BoundedSeq({"a", "-"}, 5), s \in Sought, w \in {<< >>, <<"a">>, <<"-", "-", "a">>}}
    \cup {Asked("join", << >>, s, << >>, ps, 0) :
            s \in {<< >>, <<"-">>, <<"a", "-">>}, ps \in BoundedSeq({Unwritten, << >>, <<"a">>, <<"-", "a">>}, 3)}
    \cup {Asked("to string", << >>, << >>, << >>, << >>, n) : n \in -12..12}
    \cup {Asked("to number", t, << >>, << >>, << >>, 0) : t \in BoundedSeq({" ", "-", "0", "1", "a"}, 4)}
AnyRequest == CHOOSE r \in Requests : TRUE
-----------------------------------------------------------------------------
ExpressionsIdle ==
  /\ program = [statement |-> Number(0), windows |-> FALSE] /\ code = << >>
  /\ pc = 0 /\ reg = CallerHas /\ stack = << >>
  /\ heap = StartHeap /\ globals = StartGlobals /\ misused = FALSE

Init ==
  /\ part \in Parts
  /\ CollectionInit
  /\ IF part = "expressions" THEN ExpressionInit ELSE ExpressionsIdle
  /\ IF part = "graphics" THEN GraphicsInit ELSE GraphicsInit /\ platform = "linux"
  /\ IF part = "terminal" THEN TerminalInit ELSE TerminalInit /\ isatty
  /\ IF part = "texts" THEN TextsInit ELSE request = AnyRequest /\ outcome = None

Next ==
  /\ UNCHANGED part
  /\ \/ /\ part = "collections" /\ CollectionNext
        /\ UNCHANGED <<expressionVars, graphicsVars, terminalVars, textVars>>
     \/ /\ part = "expressions" /\ ExpressionNext
        /\ UNCHANGED <<collectionVars, graphicsVars, terminalVars, textVars>>
     \/ /\ part = "graphics" /\ GraphicsNext
        /\ UNCHANGED <<collectionVars, expressionVars, terminalVars, textVars>>
     \/ /\ part = "terminal" /\ TerminalNext
        /\ UNCHANGED <<collectionVars, expressionVars, graphicsVars, textVars>>
     \/ /\ part = "texts" /\ TextsNext
        /\ UNCHANGED <<collectionVars, expressionVars, graphicsVars, terminalVars>>

Spec == Init /\ [][Next]_allVars
=============================================================================
