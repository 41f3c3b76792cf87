--------------------------- MODULE ExpressionCode ---------------------------
(***************************************************************************)
(* The machine code emitted for expressions, assignments and functions     *)
(* (codegen_expr*.cpp, codegen_call_args.cpp, codegen_class.cpp,           *)
(* codegen_function.cpp), run instruction by instruction, and the value    *)
(* the expression has.  Expressions of one program are evaluated in the    *)
(* order in which the emitter visits them.                                 *)
(*                                                                         *)
(* All data are numbers: numbers of the program, keys, addresses of code   *)
(* (Unit * k + position) and of objects (Data + k).  A stack cell is eight *)
(* bytes.                                                                  *)
(***************************************************************************)
EXTENDS Integers, Sequences, SequencesExt, FiniteSets

CONSTANTS
  Statements   \* the statements that may be the program

VARIABLES
  program,          \* the statement, and whether it is compiled for Windows
  code,             \* the code of main
  pc, reg, stack,   \* the machine
  heap, globals,    \* objects of the runtime; variables of main
  misused           \* the runtime was given what is not an object

expressionVars == <<program, code, pc, reg, stack, heap, globals, misused>>

Unit == 1000
Data == 100000
Garbage == -1
Saved == <<"rbx", "r12", "r13", "r14", "r15">>
Params(w) == IF w THEN <<"rcx", "rdx", "r8", "r9">> ELSE <<"rdi", "rsi", "rdx", "rcx", "r8", "r9">>
Registers == {"rax", "rbp"} \cup Range(Saved) \cup Range(Params(FALSE)) \cup Range(Params(TRUE))

(* Expressions and statements: a kind, a name or number, and parts.        *)
Tree(kind, name, n, parts) == [kind |-> kind, name |-> name, n |-> n, parts |-> parts]
Number(n) == Tree("number", "", n, << >>)
Variable(x) == Tree("variable", x, 0, << >>)
Increment(x, prefix) == Tree(IF prefix THEN "++x" ELSE "x++", x, 0, << >>)
Operation(op, l, r) == Tree(op, "", 0, <<l, r>>)
Choice(c, t, e) == Tree("?:", "", 0, <<c, t, e>>)
ListOf(es) == Tree("list", "", 0, es)
MapOf(items) == Tree("map", "", 0, items)     \* keys and values in turn
Index(base, i) == Tree("index", "", 0, <<base, i>>)
Member(base, key) == Tree("member", "", key, <<base>>)
Builtin(name, es) == Tree("builtin", name, 0, es)
Rectangle(es) == Tree("draw", "rect", 0, es)  \* x, y, w, h, r, g, b
Label(es) == Tree("draw", "text", 0, es)      \* text, x, y, r, g, b
CallOf(f, es) == Tree("call", f, 0, es)
New(es) == Tree("new", "", 0, es)
Method(base, es) == Tree("method", "", 0, <<base>> \o es)
Assign(x, e) == Tree("x =", x, 0, <<e>>)
IndexAssign(base, i, e) == Tree("a[i] =", "", 0, <<base, i, e>>)

(* What the checker's types tell apart: objects and maps, which are both   *)
(* maps of the runtime, and lists.                                         *)
IsMap(e) == e.kind \in {"map", "new"} \/ (e.kind = "variable" /\ e.name \in {"d", "Aka"})

(* The functions of the program.  `last` has more parameters than Windows  *)
(* passes in registers; C has a field, a constructor and a method.         *)
Key == 300
FieldKey == 301
MethodKey == 302
FieldInit == Operation("-", Number(3), Number(1))
Functions ==
  << [name |-> "minus", params |-> <<"a", "b">>, body |-> Operation("-", Variable("a"), Variable("b"))],
     [name |-> "box", params |-> <<"a">>, body |-> ListOf(<<Variable("a")>>)],
     [name |-> "last", params |-> <<"a", "b", "c", "d1", "e">>, body |-> Variable("e")],
     [name |-> "C.C", params |-> <<"Aka", "a">>,
      body |-> IndexAssign(Variable("Aka"), Number(FieldKey), Variable("a"))],
     [name |-> "C.m", params |-> <<"Aka", "a">>,
      body |-> Operation("-", Member(Variable("Aka"), FieldKey), Variable("a"))] >>
IndexOf(f) == CHOOSE k \in DOMAIN Functions : Functions[k].name = f
Entry(f) == Unit * IndexOf(f) + 1
-----------------------------------------------------------------------------
(* Instructions.  Operands are registers, immediate values, variables of   *)
(* main, locals [rbp-...] and staged arguments [rsp+...].                  *)
Operand(at, name, n) == [at |-> at, name |-> name, n |-> n]
R(r) == Operand("register", r, 0)
Imm(n) == Operand("immediate", "", n)
Global(x) == Operand("global", x, 0)
Local(k) == Operand("local", "", k)
Staged(k) == Operand("staged", "", k)
RAX == R("rax")

Instruction(op, to, by) == [op |-> op, to |-> to, by |-> by]
Mov(to, by) == Instruction("mov", to, by)
Plus(to, n) == Instruction("add", to, Imm(n))
Compute(op) == Instruction(op, RAX, R("rbx"))     \* rax := rax op rbx
Push(r) == Instruction("push", R(r), Imm(0))
Pop(r) == Instruction("pop", R(r), Imm(0))
Reserve(n) == Instruction("reserve", Imm(n), Imm(0))
Release(n) == Instruction("release", Imm(n), Imm(0))
Jump(op, n) == Instruction(op, Imm(n), Imm(0))     \* over the next n
Runtime(f) == Instruction("runtime", Operand("runtime", f, 0), Imm(0))
CallTo(by) == Instruction("call", RAX, by)
Frame == Instruction("frame", R("rbp"), Imm(0))
Return == Instruction("ret", RAX, Imm(0))

Shadow(w) == IF w THEN 4 ELSE 0
EvenUp(n) == n + (n % 2)

RECURSIVE Emit(_, _, _)

EmitAll(es, Then(_), ls, w) == FlattenSeq([i \in DOMAIN es |-> Emit(es[i], ls, w) \o Then(i)])
Place(x, ls) == IF x \in DOMAIN ls THEN Local(ls[x]) ELSE Global(x)

(* emitCallArgs: those for which there are registers.                      *)
EmitCallArgs(es, ls, w, start) ==
  LET left == Len(Params(w)) - start
      count == IF Len(es) < left THEN Len(es) ELSE left
      frame == EvenUp(Shadow(w) + count)
  IN  IF count = 0 THEN << >>
      ELSE <<Reserve(frame)>>
             \o EmitAll(SubSeq(es, 1, count), LAMBDA i : <<Mov(Staged(Shadow(w) + i - 1), RAX)>>, ls, w)
             \o [i \in 1..count |-> Mov(R(Params(w)[start + i]), Staged(Shadow(w) + i - 1))]
             \o <<Release(frame)>>

(* aym_array_set and aym_map_set of what is held in rbx.                   *)
EmitList(es, ls, w) ==
  LET p == Params(w)
      Store(i) == <<Mov(R(p[3]), RAX), Mov(R(p[2]), Imm(i - 1)), Mov(R(p[1]), R("rbx")), Runtime("array_set")>>
  IN  <<Mov(R(p[1]), Imm(Len(es))), Runtime("array_new"), Mov(R("rbx"), RAX)>>
        \o EmitAll(es, Store, ls, w) \o <<Mov(RAX, R("rbx"))>>

EmitMap(items, ls, w) ==
  LET p == Params(w)
      Store(i) ==
        IF i % 2 = 1 THEN <<Mov(R("r14"), RAX)>>
        ELSE <<Mov(R("r15"), RAX), Mov(R(p[3]), R("r15")), Mov(R(p[2]), R("r14")),
               Mov(R(p[1]), R("rbx")), Runtime("map_set")>>
  IN  <<Mov(R(p[1]), Imm(Len(items) \div 2)), Runtime("map_new"), Mov(R("rbx"), RAX)>>
        \o EmitAll(items, Store, ls, w) \o <<Mov(RAX, R("rbx"))>>

EmitIndex(base, i, ls, w) ==
  Emit(i, ls, w) \o <<Mov(R(Params(w)[2]), RAX)>>
    \o Emit(base, ls, w) \o <<Mov(R(Params(w)[1]), RAX), Runtime(IF IsMap(base) THEN "map_get" ELSE "array_get")>>

EmitMember(base, key, ls, w) ==
  Emit(base, ls, w)
    \o <<Mov(R(Params(w)[1]), RAX), Mov(R(Params(w)[2]), Imm(key)), Runtime("map_get")>>

EmitIncrement(x, prefix, ls) ==
  LET place == Place(x, ls)
  IN  IF prefix THEN <<Mov(RAX, place), Plus(RAX, 1), Mov(place, RAX)>>
      ELSE <<Mov(RAX, place), Mov(R("rbx"), RAX), Plus(RAX, 1), Mov(place, RAX), Mov(RAX, R("rbx"))>>

(* Mutant: the stack is not kept aligned while the right side runs. *)
SpillNothing(w) == 0

(* Mutant: Windows gets no shadow space. *)
SpillNoShadow(w) == 1

Spill(w) == IF w THEN 5 ELSE 1

EmitOperation(op, l, r, ls, w) ==
  LET left == Emit(l, ls, w)
      right == Emit(r, ls, w)
  IN  CASE op = "&&" -> left \o <<Jump("je", Len(right) + 2)>> \o right \o <<Compute("bool"), Jump("jmp", 1), Mov(RAX, Imm(0))>>
        [] op = "||" -> left \o <<Jump("jne", Len(right) + 2)>> \o right \o <<Compute("bool"), Jump("jmp", 1), Mov(RAX, Imm(1))>>
        [] OTHER -> left \o <<Push("rax"), Reserve(Spill(w))>> \o right
                      \o <<Release(Spill(w)), Mov(R("rbx"), RAX), Pop("rax"), Compute(op)>>

EmitChoice(c, t, e, ls, w) ==
  LET yes == Emit(t, ls, w)
      no == Emit(e, ls, w)
  IN  Emit(c, ls, w) \o <<Jump("je", Len(yes) + 1)>> \o yes \o <<Jump("jmp", Len(no))>> \o no

(* A builtin of one argument gets it straight from rax, as all of the      *)
(* mathematical functions but pow do.                                      *)
EmitOnly(e, ls, w) == Emit(e, ls, w) \o <<Mov(R(Params(w)[1]), RAX)>>
EmitBuiltin(f, es, ls, w) ==
  (IF Len(es) = 1 THEN EmitOnly(es[1], ls, w) ELSE EmitCallArgs(es, ls, w, 0)) \o <<Runtime(f)>>

(* uja_suyu has seven arguments and uja_qillqa six, the colour last: two   *)
(* calls on Windows, each inside the frame of its arguments.               *)
ColorOf(es) == SubSeq(es, Len(es) - 2, Len(es))
ShapeOf(es) == SubSeq(es, 1, Len(es) - 3)
InFrame(es, ls, f) ==
  <<Reserve(8)>>
    \o EmitAll(es, LAMBDA i : <<Mov(Staged(Shadow(TRUE) + i - 1), RAX)>>, ls, TRUE)
    \o [i \in DOMAIN es |-> Mov(R(Params(TRUE)[i]), Staged(Shadow(TRUE) + i - 1))]
    \o <<Runtime(f), Release(8)>>
EmitDraw(f, es, ls, w) ==
  IF w THEN InFrame(ColorOf(es), ls, "set color") \o InFrame(ShapeOf(es), ls, "colored " \o f)
       ELSE EmitCallArgs(es, ls, w, 0) \o <<Runtime(f)>>

(* emitNewExpr: the object in r12, its field, its method, its constructor  *)
(* (there is one with one parameter).                                      *)
EmitNew(es, ls, w) ==
  LET p == Params(w)
      Field(key, by) == <<Mov(R(p[2]), Imm(key)), Mov(R(p[3]), by), Mov(R(p[1]), R("r12")), Runtime("map_set")>>
  IN  <<Mov(R(p[1]), Imm(2)), Runtime("map_new"), Mov(R("r12"), RAX)>>
        \o Emit(FieldInit, ls, w) \o <<Mov(R("r14"), RAX)>> \o Field(FieldKey, R("r14"))
        \o Field(MethodKey, Imm(Entry("C.m")))
        \o (IF Len(es) # 1 THEN << >>
            ELSE EmitAll(es, LAMBDA i : <<Mov(R(p[i + 1]), RAX)>>, ls, w)
                   \o <<Mov(R(p[1]), R("r12")), CallTo(Imm(Entry("C.C")))>>)
        \o <<Mov(RAX, R("r12"))>>

EmitMethod(base, es, ls, w) ==
  Emit(base, ls, w)
    \o <<Mov(R("rbx"), RAX), Mov(R(Params(w)[2]), Imm(MethodKey)), Mov(R(Params(w)[1]), R("rbx")), Runtime("map_get"),
         Mov(R("r14"), RAX), Mov(R("r12"), R("rbx"))>>
    \o EmitCallArgs(es, ls, w, 1)
    \o <<Mov(R(Params(w)[1]), R("r12")), CallTo(R("r14"))>>

EmitIndexAssign(base, i, e, ls, w) ==
  LET p == Params(w)
  IN  Emit(e, ls, w) \o <<Mov(R("r14"), RAX)>> \o Emit(i, ls, w) \o <<Mov(R("r15"), RAX)>>
        \o Emit(base, ls, w)
        \o <<Mov(R("rbx"), RAX), Mov(R(p[3]), R("r14")), Mov(R(p[2]), R("r15")), Mov(R(p[1]), R("rbx")),
             Runtime(IF IsMap(base) THEN "map_set" ELSE "array_set")>>

Emit(e, ls, w) ==
  LET es == e.parts IN
    CASE e.kind = "number" -> <<Mov(RAX, Imm(e.n))>>
      [] e.kind = "variable" -> <<Mov(RAX, Place(e.name, ls))>>
      [] e.kind \in {"x++", "++x"} -> EmitIncrement(e.name, e.kind = "++x", ls)
      [] e.kind \in {"-", "&&", "||"} -> EmitOperation(e.kind, es[1], es[2], ls, w)
      [] e.kind = "?:" -> EmitChoice(es[1], es[2], es[3], ls, w)
      [] e.kind = "list" -> EmitList(es, ls, w)
      [] e.kind = "map" -> EmitMap(es, ls, w)
      [] e.kind = "index" -> EmitIndex(es[1], es[2], ls, w)
      [] e.kind = "member" -> EmitMember(es[1], e.n, ls, w)
      [] e.kind = "builtin" -> EmitBuiltin(e.name, es, ls, w)
      [] e.kind = "draw" -> EmitDraw(e.name, es, ls, w)
      [] e.kind = "call" -> EmitCallArgs(es, ls, w, 0) \o <<CallTo(Imm(Entry(e.name)))>>
      [] e.kind = "new" -> EmitNew(es, ls, w)
      [] e.kind = "method" -> EmitMethod(es[1], Tail(es), ls, w)
      [] e.kind = "x =" -> Emit(es[1], ls, w) \o <<Mov(Place(e.name, ls), RAX)>>
      [] e.kind = "a[i] =" -> EmitIndexAssign(es[1], es[2], es[3], ls, w)

Framed(cells, body) ==
  <<Push("rbp"), Frame>> \o [i \in DOMAIN Saved |-> Push(Saved[i])] \o <<Reserve(cells)>> \o body
    \o <<Release(cells)>> \o [i \in DOMAIN Saved |-> Pop(Reverse(Saved)[i])] \o <<Pop("rbp"), Return>>

(* emitFunction: parameters become locals, as far as there are registers.  *)
FunctionCode(f, w) ==
  LET slots == [x \in Range(f.params) |-> CHOOSE k \in DOMAIN f.params : f.params[k] = x]
      count == IF Len(f.params) < Len(Params(w)) THEN Len(f.params) ELSE Len(Params(w))
  IN  Framed(EvenUp(Len(f.params) + Shadow(w)) + 1,
             [k \in 1..count |-> Mov(Local(k), R(Params(w)[k]))] \o Emit(f.body, slots, w))

(* emitMainEntry.                                                          *)
MainCode(p) ==
  Framed(Shadow(p.windows) + 1, <<Runtime("set_args")>> \o Emit(p.statement, << >>, p.windows))
FunctionCodes == [w \in BOOLEAN |-> [k \in DOMAIN Functions |-> FunctionCode(Functions[k], w)]]
-----------------------------------------------------------------------------
(* The runtime, as far as expressions use it.  What is drawn counts as an  *)
(* object; so does a colour until something is drawn with it.              *)
NewList(n) == [type |-> "list", cells |-> [i \in 1..n |-> 0], dict |-> << >>]
Drawn(type, a) == [type |-> type, cells |-> a, dict |-> << >>]
Sides(shape) == IF shape = "rect" THEN 4 ELSE 3
NewMap == [type |-> "map", cells |-> << >>, dict |-> << >>]
Bound(d, k, v) == [l \in DOMAIN d \cup {k} |-> IF l = k THEN v ELSE d[l]]

Refers(v, type, h) == v - Data \in DOMAIN h /\ h[v - Data].type = type
Needs(f) == IF f \in {"map_set", "map_get"} THEN {"map"}
            ELSE IF f \in {"array_set", "array_get", "array_push", "array_length"} THEN {"list"} ELSE {}
Proper(f, a, h) ==
  /\ \A type \in Needs(f) : Refers(a[1], type, h)
  /\ f \in {"array_new", "map_new"} => a[1] \in 0..9
  /\ f = "map_get" => a[2] \in DOMAIN h[a[1] - Data].dict

RuntimeCall(f, a, h) ==
  LET k == a[1] - Data
      To(v, g) == [value |-> v, heap |-> g]
  IN  CASE f = "array_new" -> To(Data + Len(h) + 1, Append(h, NewList(a[1])))
        [] f = "map_new" -> To(Data + Len(h) + 1, Append(h, NewMap))
        [] f = "array_set" ->
             IF a[2] + 1 \in DOMAIN h[k].cells THEN To(a[3], [h EXCEPT ![k].cells[a[2] + 1] = a[3]]) ELSE To(0, h)
        [] f = "array_get" -> To(IF a[2] + 1 \in DOMAIN h[k].cells THEN h[k].cells[a[2] + 1] ELSE 0, h)
        [] f = "array_push" -> To(a[1], [h EXCEPT ![k].cells = Append(@, a[2])])
        [] f = "array_length" -> To(Len(h[k].cells), h)
        [] f = "map_set" -> To(a[3], [h EXCEPT ![k].dict = Bound(@, a[2], a[3])])
        [] f = "map_get" -> To(h[k].dict[a[2]], h)
        [] f \in {"rect", "text"} -> To(1, Append(h, Drawn(f, SubSeq(a, 1, Sides(f) + 3))))
        [] f = "set color" -> To(1, Append(h, Drawn("color", SubSeq(a, 1, 3))))
        [] f \in {"colored rect", "colored text"} ->
             LET shape == IF f = "colored rect" THEN "rect" ELSE "text"
             IN  To(1, Append(Front(h), Drawn(shape, SubSeq(a, 1, Sides(shape)) \o Last(h).cells)))
        [] OTHER -> To(Garbage, h)
-----------------------------------------------------------------------------
(* What a program means: the value v of an expression, and what becomes of *)
(* variables and objects.                                                  *)
RECURSIVE Eval(_, _), EvalAll(_, _)

EvalAll(es, s) ==
  IF es = << >> THEN [s |-> s, vs |-> << >>]
  ELSE LET first == Eval(Head(es), s)
           rest == EvalAll(Tail(es), first)
       IN  [s |-> rest.s, vs |-> <<first.v>> \o rest.vs]
Does(f, a, s) == LET c == RuntimeCall(f, a, s.heap) IN [s EXCEPT !.v = c.value, !.heap = c.heap]
Gives(s, v) == [s EXCEPT !.v = v]
Applied(f, vs, s) ==
  LET F == Functions[IndexOf(f)]
      vars == [x \in Range(F.params) |-> vs[CHOOSE k \in DOMAIN F.params : F.params[k] = x]]
  IN  [Eval(F.body, [s EXCEPT !.vars = vars]) EXCEPT !.vars = s.vars]

(* The object at `o` gets what `vs` holds; a map, keys and values in turn. *)
ListFilled(o, vs, s) == [s EXCEPT !.heap[o - Data].cells = vs]
Entered(o, vs, s) ==
  [s EXCEPT !.heap[o - Data].dict =
     [k \in {vs[i] : i \in {j \in DOMAIN vs : j % 2 = 1}} |->
        vs[1 + CHOOSE i \in DOMAIN vs : i % 2 = 1 /\ vs[i] = k /\ \A j \in (i + 1)..Len(vs) : j % 2 = 1 => vs[j] # k]]]

EvalList(es, s) ==
  LET o == Does("array_new", <<Len(es)>>, s)
      t == EvalAll(es, o)
  IN  Gives(ListFilled(o.v, t.vs, t.s), o.v)
EvalMap(es, s) ==
  LET o == Does("map_new", <<Len(es)>>, s)
      t == EvalAll(es, o)
  IN  Gives(Entered(o.v, t.vs, t.s), o.v)
EvalNew(es, s) ==
  LET o == Does("map_new", <<2>>, s)
      t == EvalAll(<<Number(FieldKey), FieldInit, Number(MethodKey), Number(Entry("C.m"))>>, o)
      u == EvalAll(es, Entered(o.v, t.vs, t.s))
  IN  Gives(IF Len(es) = 1 THEN Applied("C.C", <<o.v>> \o u.vs, u.s) ELSE u.s, o.v)

EvalTwo(op, l, r, s) ==
  LET t == Eval(l, s) IN
    CASE op = "&&" /\ t.v = 0 -> t
      [] op = "||" /\ t.v # 0 -> Gives(t, 1)
      [] op \in {"&&", "||"} -> LET u == Eval(r, t) IN Gives(u, IF u.v # 0 THEN 1 ELSE 0)
      [] OTHER -> LET u == Eval(r, t) IN Gives(u, t.v - u.v)

Eval(e, s) ==
  LET es == e.parts
      x == e.name
  IN  CASE e.kind = "number" -> Gives(s, e.n)
        [] e.kind = "variable" -> Gives(s, s.vars[x])
        [] e.kind = "x++" -> [s EXCEPT !.v = s.vars[x], !.vars[x] = @ + 1]
        [] e.kind = "++x" -> [s EXCEPT !.v = s.vars[x] + 1, !.vars[x] = @ + 1]
        [] e.kind \in {"-", "&&", "||"} -> EvalTwo(e.kind, es[1], es[2], s)
        [] e.kind = "?:" -> LET t == Eval(es[1], s) IN Eval(IF t.v # 0 THEN es[2] ELSE es[3], t)
        [] e.kind = "list" -> EvalList(es, s)
        [] e.kind = "map" -> EvalMap(es, s)
        [] e.kind = "index" ->
             LET t == EvalAll(Reverse(es), s)
             IN  Does(IF IsMap(es[1]) THEN "map_get" ELSE "array_get", Reverse(t.vs), t.s)
        [] e.kind = "member" -> LET t == Eval(es[1], s) IN Does("map_get", <<t.v, e.n>>, t)
        [] e.kind = "draw" ->
             LET t == EvalAll(IF program.windows THEN ColorOf(es) \o ShapeOf(es) ELSE es, s)
             IN  Does(x, IF program.windows THEN SubSeq(t.vs, 4, Len(es)) \o SubSeq(t.vs, 1, 3) ELSE t.vs, t.s)
        [] e.kind = "builtin" -> LET t == EvalAll(es, s) IN Does(x, t.vs, t.s)
        [] e.kind = "call" -> LET t == EvalAll(es, s) IN Applied(x, t.vs, t.s)
        [] e.kind = "new" -> EvalNew(es, s)
        [] e.kind = "method" -> LET t == EvalAll(es, s) IN Applied("C.m", t.vs, t.s)
        [] e.kind = "x =" -> LET t == Eval(es[1], s) IN [t EXCEPT !.vars[x] = t.v]
        [] e.kind = "a[i] =" ->
             LET t == EvalAll(Reverse(es), s)
             IN  Does(IF IsMap(es[1]) THEN "map_set" ELSE "array_set", Reverse(t.vs), t.s)
-----------------------------------------------------------------------------
(* The machine.  A function keeps what is in `Saved` and rbp; the runtime  *)
(* leaves anything in the other registers and, on Windows, in the four     *)
(* cells above its return address.                                         *)
CallerHas == [r \in Registers |-> IF r \in Range(Saved) \cup {"rbp"} THEN 77 ELSE Garbage]
StartHeap == <<[NewList(2) EXCEPT !.cells = <<7, 8>>], [NewMap EXCEPT !.dict = Bound(@, Key, 9)]>>
StartGlobals == [x |-> 5, l |-> Data + 1, d |-> Data + 2]

ExpressionInit ==
  /\ \E s \in Statements, w \in BOOLEAN : program = [statement |-> s, windows |-> w]
  /\ code = MainCode(program)
  /\ pc = 1 /\ reg = CallerHas /\ stack = <<0>>
  /\ heap = StartHeap /\ globals = StartGlobals /\ misused = FALSE

Here == IF pc < Unit THEN code[pc] ELSE FunctionCodes[program.windows][pc \div Unit][pc % Unit]
Slot(o) == IF o.at = "local" THEN reg["rbp"] + Len(Saved) + o.n ELSE Len(stack) - o.n
Value(o) ==
  CASE o.at = "register" -> reg[o.name]
    [] o.at = "immediate" -> o.n
    [] o.at = "global" -> globals[o.name]
    [] OTHER -> stack[Slot(o)]
Put(o, v) ==
  /\ reg' = IF o.at = "register" THEN [reg EXCEPT ![o.name] = v] ELSE reg
  /\ globals' = IF o.at = "global" THEN [globals EXCEPT ![o.name] = v] ELSE globals
  /\ stack' = IF o.at \in {"local", "staged"} THEN [stack EXCEPT ![Slot(o)] = v] ELSE stack

Computed(op) ==
  CASE op = "bool" -> IF reg["rax"] # 0 THEN 1 ELSE 0
    [] OTHER -> reg["rax"] - reg["rbx"]

Executing == pc # 0 /\ ~misused
Goes(op, to) == Executing /\ Here.op = op /\ pc' = to
RestStays == UNCHANGED <<program, code, heap, misused>>

Move == Goes("mov", pc + 1) /\ Put(Here.to, Value(Here.by)) /\ RestStays
Arithmetic ==
  /\ \/ Goes("add", pc + 1) /\ Put(Here.to, Value(Here.to) + Here.by.n)
     \/ \E op \in {"-", "bool"} : Goes(op, pc + 1) /\ Put(RAX, Computed(op))
  /\ RestStays
Branch ==
  /\ \/ Goes("je", IF reg["rax"] = 0 THEN pc + 1 + Here.to.n ELSE pc + 1)
     \/ Goes("jne", IF reg["rax"] # 0 THEN pc + 1 + Here.to.n ELSE pc + 1)
     \/ Goes("jmp", pc + 1 + Here.to.n)
  /\ UNCHANGED <<reg, stack, globals>> /\ RestStays

(* Reserved cells hold whatever was there.                                 *)
StackStep ==
  /\ \/ Goes("push", pc + 1) /\ stack' = Append(stack, Value(Here.to)) /\ UNCHANGED reg
     \/ Goes("pop", pc + 1) /\ stack' = Front(stack) /\ reg' = [reg EXCEPT ![Here.to.name] = Last(stack)]
     \/ Goes("frame", pc + 1) /\ reg' = [reg EXCEPT !["rbp"] = Len(stack)] /\ UNCHANGED stack
     \/ Goes("reserve", pc + 1) /\ stack' = stack \o [i \in 1..Here.to.n |-> Garbage] /\ UNCHANGED reg
     \/ Goes("release", pc + 1) /\ stack' = SubSeq(stack, 1, Len(stack) - Here.to.n) /\ UNCHANGED reg
     \/ Goes("ret", Last(stack)) /\ stack' = Front(stack) /\ UNCHANGED reg
  /\ UNCHANGED globals /\ RestStays

(* A call to what is not the start of a function. *)
GoesAstray == misused' = TRUE /\ UNCHANGED <<program, code, reg, stack, heap, globals>>
CallFunction ==
  LET to == Value(Here.by)
  IN  \/ /\ Goes("call", to) /\ to \in {Entry(f.name) : f \in Range(Functions)}
         /\ stack' = Append(stack, pc + 1) /\ UNCHANGED <<reg, globals>> /\ RestStays
      \/ /\ Goes("call", pc) /\ to \notin {Entry(f.name) : f \in Range(Functions)}
         /\ GoesAstray

ShadowLost(s) ==
  [i \in DOMAIN s |-> IF program.windows /\ i > Len(s) - Shadow(TRUE) THEN Garbage ELSE s[i]]
(* What a function finds: six arguments and the one above its return       *)
(* address, or the four of Windows.                                        *)
Arguments ==
  [i \in DOMAIN Params(program.windows) |-> reg[Params(program.windows)[i]]]
    \o (IF program.windows THEN << >> ELSE <<Last(stack)>>)
CallRuntime ==
  LET f == Here.to.name
      a == Arguments
  IN  \/ /\ Goes("runtime", pc + 1) /\ Proper(f, a, heap)
         /\ LET c == RuntimeCall(f, a, heap)
            IN  /\ reg' = [r \in Registers |-> IF r = "rax" THEN c.value
                                               ELSE IF r \in Range(Saved) \cup {"rbp"} THEN reg[r] ELSE Garbage]
                /\ heap' = c.heap
         /\ stack' = ShadowLost(stack)
         /\ UNCHANGED <<program, code, globals, misused>>
      \/ Goes("runtime", pc) /\ ~Proper(f, a, heap) /\ GoesAstray

ExpressionNext ==
  Move \/ Arithmetic \/ Branch \/ StackStep \/ CallFunction \/ CallRuntime
-----------------------------------------------------------------------------
(* Which registers the code of an expression overwrites, `args` being      *)
(* those that are passed to functions.  Functions save the others.         *)
RECURSIVE Writes(_)
Writes(e) ==
  UNION {Writes(p) : p \in Range(e.parts)} \cup
    CASE e.kind \in {"x++", "-"} -> {"rbx"}
      [] e.kind = "list" -> {"rbx", "args"}
      [] e.kind = "map" -> {"rbx", "r14", "r15", "args"}
      [] e.kind = "new" -> {"r12", "r14", "args"} \cup Writes(FieldInit)
      [] e.kind = "method" -> {"rbx", "r12", "r14", "args"}
      [] e.kind \in {"index", "member", "builtin", "draw", "call"} -> {"args"}
      [] OTHER -> {}

(* No register that the code around a part holds is overwritten by it, and *)
(* no call has more arguments than there are registers for.                *)
Spares(e, regs) == Writes(e) \cap regs = {}
RECURSIVE Disciplined(_, _)
Disciplined(e, w) ==
  LET es == e.parts IN
    /\ \A p \in Range(es) : Disciplined(p, w)
    /\ CASE e.kind = "list" -> \A p \in Range(es) : Spares(p, {"rbx"})
         [] e.kind = "map" -> \A i \in DOMAIN es : Spares(es[i], IF i % 2 = 1 THEN {"rbx"} ELSE {"rbx", "r14"})
         [] e.kind = "index" -> Spares(es[1], {"args"})
         [] e.kind = "new" -> \A p \in Range(es) : Spares(p, {"r12"})
         [] e.kind = "method" -> \A p \in Range(Tail(es)) : Spares(p, {"r12", "r14"})
         [] e.kind = "call" -> Len(es) <= Len(Params(w))
         [] e.kind = "draw" -> w \/ Len(es) <= Len(Params(w))
         [] e.kind = "a[i] =" -> Spares(es[2], {"r14"}) /\ Spares(es[1], {"r14", "r15"})
         [] OTHER -> TRUE

(* The emitter holds lists, keys, objects and indices in registers while   *)
(* it evaluates what is inside of them; binary operations and arguments of *)
(* calls go over the stack.  So a program in which no such part writes the *)
(* register that is held for it does what it means, however it is nested.  *)
Meant == Eval(program.statement, [v |-> 0, vars |-> StartGlobals, heap |-> StartHeap])
RightWhenDisciplined ==
  (pc = 0 \/ misused) /\ Disciplined(program.statement, program.windows) =>
    ~misused /\ globals = Meant.vars /\ heap = Meant.heap

(* Every call, disciplined or not, is made with the stack aligned to 16    *)
(* bytes, and main leaves its caller's registers and stack as they were.   *)
StackKept ==
  /\ Executing /\ Here.op \in {"call", "runtime"} => Len(stack) % 2 = 0
  /\ pc = 0 => stack = << >> /\ \A r \in Range(Saved) \cup {"rbp"} : reg[r] = CallerHas[r]
=============================================================================
