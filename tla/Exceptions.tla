----------------------------- MODULE Exceptions -----------------------------
(***************************************************************************)
(* A compiled program running: the code the generator emits for yant'aña,  *)
(* pantja, loops, khiti and calls (module EmittedCode), driving the        *)
(* runtime's handler chain (module HandlerChain).                          *)
(***************************************************************************)
EXTENDS HandlerChain, Disciplines

CONSTANTS
  Programs,     \* the programs to run
  MaxLen,       \* bound: how many statements each of them has
  MaxTries      \* bound: how many times a run may enter a try

ASSUME ProgramsAssumption ==
  MaxLen \in Nat /\ \A p \in Programs : Len(p) <= MaxLen /\ WellFormed(p)
ASSUME MaxTriesAssumption == MaxTries \in Nat

VARIABLES
  prog,      \* the program, chosen once
  pos,       \* the block control is in
  last,      \* the last statement of that block executed, 0 at its start
  work,      \* the straight-line code being executed between two blocks
  stack,     \* the return addresses on the machine stack
  slot,      \* __try_handler_N of every try statement N
  env,       \* the jmp_buf of each handler: the try it stands in, the stack
  ran,       \* history: for each handler, the runs of its try's tukuyawi (2: more)
  status

machineVars == <<prog, pos, last, work, stack, slot, env, ran, status>>
vars == <<chainVars, machineVars>>

(* Work still to do: `todo`, the finally subroutines to call, and then the *)
(* `goal`: a jump out of (or to the next round of) statement `to`, or a    *)
(* call of aym_throw with exception `exc`.                                 *)
Work(todo, goal, to, exc) == [todo |-> todo, goal |-> goal, to |-> to, exc |-> exc]
Running == Work(<< >>, "run", 0, 0)

Goals == {"run", "fall", "break", "continue", "return", "throw", "caught"}

Init ==
  /\ ChainInit
  /\ prog \in Programs
  /\ pos = MainBlock /\ last = 0
  /\ work = Running
  /\ stack = << >>
  /\ slot = [t \in 1..Len(prog) |-> NULL]
  /\ env = << >>
  /\ ran = << >>
  /\ status = "running"

(* Control reaches something that C or the machine leaves undefined: a     *)
(* freed handler, a longjmp into a frame that is gone, a return through    *)
(* somebody else's return address.                                         *)
Undefined ==
  /\ status' = "undefined"
  /\ UNCHANGED <<chainVars, prog, pos, last, work, stack, slot, env, ran>>

Executing == status = "running" /\ work = Running
Doing(goal) == status = "running" /\ work.goal = goal /\ work.todo = << >>

GoTo(block, stmt) == pos' = block /\ last' = stmt
AfterStmt(n) == GoTo(prog[n].in, n)

(* Statement n of the current block is the next to be executed; those      *)
(* between `last` and n are skipped.                                       *)
Reaches(n, kind) ==
  /\ Executing
  /\ n > last /\ prog[n].in = pos /\ prog[n].kind = kind

(* A return address: where it leads, and how many handlers had been        *)
(* allocated when it was pushed, which tells two calls apart.              *)
Frame(kind, of, then) == [kind |-> kind, of |-> of, then |-> then, born |-> Len(heap)]
OnTop(kind, n) == stack # << >> /\ Last(stack).kind = kind /\ Last(stack).of = n

Begin(w) ==
  /\ work' = w
  /\ UNCHANGED <<chainVars, prog, pos, last, stack, slot, env, ran, status>>
-----------------------------------------------------------------------------
(* pantja: the exception is built, the finally blocks the generator knows  *)
(* of are called inline, then aym_throw.                                   *)
Throw(n) ==
  /\ Reaches(n, "throw")
  /\ Begin(Work(ThrowFinallys(prog, pos), "throw", 0, n))

(* A runtime helper fails (aym_throw_typed): aym_throw at once.            *)
RuntimeError(n) ==
  /\ Reaches(n, "fail")
  /\ Begin(Work(<< >>, "throw", 0, n))

Break(n) ==
  /\ Reaches(n, "break")
  /\ Begin(Work(LoopFinallys(prog, pos), "break", BreakTarget(prog, pos), 0))

Continue(n) ==
  /\ Reaches(n, "continue")
  /\ Begin(Work(LoopFinallys(prog, pos), "continue", ContinueTarget(prog, pos), 0))

Return(n) ==
  /\ Reaches(n, "return")
  /\ Begin(Work(ReturnFinallys(prog, pos), "return", FunctionOf(prog, pos), 0))

Call(n) ==
  /\ Reaches(n, "call")
  /\ stack' = Append(stack, Frame("call", n, Running))
  /\ GoTo([of |-> n, part |-> "body"], 0)
  /\ UNCHANGED <<chainVars, prog, work, slot, env, ran, status>>

EnterLoop(n) ==
  /\ Reaches(n, "loop")
  /\ GoTo([of |-> n, part |-> "body"], 0)
  /\ UNCHANGED <<chainVars, prog, work, stack, slot, env, ran, status>>

EnterSwitch(n) ==
  /\ Reaches(n, "switch")
  /\ \E part \in {"kuna", "yaqha"} : GoTo([of |-> n, part |-> part], 0)
  /\ UNCHANGED <<chainVars, prog, work, stack, slot, env, ran, status>>

(* aym_try_push, the slot, aym_try_env, and setjmp returning 0.            *)
EnterTry(n) ==
  /\ Reaches(n, "try")
  /\ Len(heap) < MaxTries
  /\ TryPush
  /\ env' = Append(env, [at |-> n, stack |-> stack])
  /\ slot' = [slot EXCEPT ![n] = current']
  /\ ran' = Append(ran, 0)
  /\ GoTo([of |-> n, part |-> "body"], 0)
  /\ UNCHANGED <<prog, work, stack, status>>
-----------------------------------------------------------------------------
EndsBlock(kind, part) ==
  /\ Executing
  /\ KindOf(prog, pos) = kind /\ pos.part = part

OwnFinally(t) == IF prog[t].fin THEN <<t>> ELSE << >>

(* Mutant: the normal end of a body leaves the handler registered. *)
EndTryBodyNoPop ==
  /\ EndsBlock("try", "body")
  /\ Begin(Work(OwnFinally(pos.of), "fall", pos.of, 0))

(* The body of a try ends: pop the handler in the slot, run the finally.   *)
EndTryBody ==
  /\ EndsBlock("try", "body")
  /\ IF ~IsLive(slot[pos.of]) THEN Undefined ELSE
       /\ TryPop(slot[pos.of])
       /\ work' = Work(OwnFinally(pos.of), "fall", pos.of, 0)
       /\ UNCHANGED <<prog, pos, last, stack, slot, env, ran, status>>

EndCatch ==
  /\ EndsBlock("try", "catch")
  /\ Begin(Work(OwnFinally(pos.of), "fall", pos.of, 0))

(* The `call` of a finally subroutine.                                     *)
CallFinally ==
  /\ status = "running" /\ work.todo # << >>
  /\ LET t == Head(work.todo) IN
       /\ stack' = Append(stack, Frame("fin", t, [work EXCEPT !.todo = Tail(@)]))
       /\ GoTo([of |-> t, part |-> "fin"], 0)
       /\ ran' = [ran EXCEPT ![slot[t]] = Min({2, @ + 1})]
  /\ work' = Running
  /\ UNCHANGED <<chainVars, prog, slot, env, status>>

(* Its `ret`: the code that called it goes on, now outside the try.        *)
EndFinally ==
  /\ EndsBlock("try", "fin")
  /\ IF ~OnTop("fin", pos.of) THEN Undefined ELSE
       /\ work' = Last(stack).then
       /\ stack' = Front(stack)
       /\ AfterStmt(pos.of)
       /\ UNCHANGED <<chainVars, prog, slot, env, ran, status>>

(* The jump to the end of the try, or to the label behind a loop or khiti. *)
Jump ==
  /\ Doing("fall") \/ Doing("break")
  /\ AfterStmt(work.to)
  /\ work' = Running
  /\ UNCHANGED <<chainVars, prog, stack, slot, env, ran, status>>

(* The end of a loop's body and the continue label: the condition decides. *)
NextRound(loop) ==
  /\ GoTo([of |-> loop, part |-> "body"], 0) \/ AfterStmt(loop)
  /\ work' = Running
  /\ UNCHANGED <<chainVars, prog, stack, slot, env, ran, status>>

EndLoopBody == EndsBlock("loop", "body") /\ NextRound(pos.of)
JumpToContinue == Doing("continue") /\ NextRound(work.to)

(* The parser ends every kuna block with a break; yaqha just ends.         *)
EndKuna ==
  /\ EndsBlock("switch", "kuna")
  /\ Begin(Work(LoopFinallys(prog, pos), "break", BreakTarget(prog, pos), 0))

EndYaqha ==
  /\ EndsBlock("switch", "yaqha")
  /\ Begin(Work(<< >>, "fall", pos.of, 0))

(* endfunc: the epilogue moves rsp by a constant and returns to whatever   *)
(* is on the stack.                                                        *)
Epilogue(f) ==
  IF ~OnTop("call", f) THEN Undefined ELSE
    /\ stack' = Front(stack)
    /\ AfterStmt(f)
    /\ work' = Running
    /\ UNCHANGED <<chainVars, prog, slot, env, ran, status>>

EndFunction == EndsBlock("call", "body") /\ Epilogue(pos.of)
JumpToEpilogue == Doing("return") /\ Epilogue(work.to)

EndMain ==
  /\ EndsBlock("main", "body")
  /\ status' = IF stack = << >> THEN "finished" ELSE "undefined"
  /\ UNCHANGED <<chainVars, prog, pos, last, work, stack, slot, env, ran>>
-----------------------------------------------------------------------------
(* longjmp is defined while the stack it saved is still there: the same    *)
(* frames, none of them entered after the handler was registered.          *)
Jumpable(h) == IsLive(h) /\ IsPrefix(env[At(h)].stack, stack)

(* aym_throw: with no handler the program exits.                           *)
Unhandled ==
  /\ Doing("throw") /\ current = NULL
  /\ status' = "unhandled"
  /\ UNCHANGED <<chainVars, prog, pos, last, work, stack, slot, env, ran>>

(* Otherwise longjmp, and control is at the catch label of the try whose   *)
(* setjmp filled the handler, which reads the exception from its slot's    *)
(* handler and releases it.                                                *)
LongJump ==
  /\ Doing("throw") /\ current # NULL
  /\ IF ~Jumpable(current) THEN Undefined ELSE
       /\ ThrowTo(work.exc)
       /\ stack' = env[At(current)].stack
       /\ GoTo([of |-> env[At(current)].at, part |-> "body"], 0)
       /\ work' = Work(<< >>, "caught", env[At(current)].at, 0)
       /\ UNCHANGED <<prog, slot, env, ran, status>>

(* Mutant: the catch label does not release the handler. *)
AtCatchLabelNoPop(t) ==
  /\ Doing("caught") /\ t = work.to
  /\ \/ /\ prog[t].cat # "none"
        /\ work' = Running
        /\ GoTo([of |-> t, part |-> "catch"], 0)
     \/ /\ prog[t].cat # "any"
        /\ work' = Work(OwnFinally(t), "throw", 0, held[At(slot[t])])
        /\ IF prog[t].fin THEN UNCHANGED <<pos, last>> ELSE AfterStmt(t)
  /\ UNCHANGED <<chainVars, prog, stack, slot, env, ran, status>>

(* The catch label: one of the katjaña blocks takes the exception, or the  *)
(* finally runs and the exception is thrown again.                         *)
AtCatchLabel(t) ==
  /\ Doing("caught") /\ t = work.to
  /\ IF ~IsLive(slot[t]) THEN Undefined ELSE
       /\ TryPop(slot[t])
       /\ \/ /\ prog[t].cat # "none"
             /\ work' = Running
             /\ GoTo([of |-> t, part |-> "catch"], 0)
          \/ /\ prog[t].cat # "any"
             /\ work' = Work(OwnFinally(t), "throw", 0, held[At(slot[t])])
             /\ IF prog[t].fin THEN UNCHANGED <<pos, last>> ELSE AfterStmt(t)
       /\ UNCHANGED <<prog, stack, slot, env, ran, status>>

StatementStep(n) ==
  \/ Throw(n) \/ RuntimeError(n) \/ Break(n) \/ Continue(n) \/ Return(n)
  \/ Call(n) \/ EnterLoop(n) \/ EnterSwitch(n) \/ EnterTry(n)

BlockEnd ==
  \/ EndTryBody \/ EndCatch \/ EndFinally \/ EndLoopBody \/ EndKuna
  \/ EndYaqha \/ EndFunction \/ EndMain

EmittedStep ==
  \/ CallFinally \/ Jump \/ JumpToContinue \/ JumpToEpilogue
  \/ Unhandled \/ LongJump
  \/ \E t \in 1..Len(prog) : AtCatchLabel(t)

(* A finished process stays so: no state of a running program is stuck.    *)
Stopped == status # "running" /\ UNCHANGED vars

Next ==
  \/ \E n \in 1..Len(prog) : StatementStep(n)
  \/ BlockEnd \/ EmittedStep \/ Stopped

Spec == Init /\ [][Next]_vars

(* The processor goes on executing instructions. *)
FairSpec == Spec /\ WF_vars(Next)
-----------------------------------------------------------------------------
TypeOK ==
  /\ ChainTypeOK /\ WellFormed(prog)
  /\ pos.of \in 0..Len(prog) /\ pos.part \in {"body", "catch", "fin", "kuna", "yaqha"}
  /\ last \in 0..Len(prog)
  /\ work.goal \in Goals /\ work.to \in 0..Len(prog) /\ work.exc \in 0..Len(prog)
  /\ \A i \in 1..Len(work.todo) : prog[work.todo[i]].fin
  /\ slot \in [1..Len(prog) -> 0..Len(heap)]
  /\ Len(heap) <= MaxTries /\ Len(ran) = Len(heap)
  /\ status \in {"running", "finished", "unhandled", "undefined"}

(* The try statements with a body around block b, and the innermost.       *)
Bodies(p, b) == {c.of : c \in {d \in TryBlocks(p, b) : d.part = "body"}}
InnermostBody(p, b) == Deepest({d \in TryBlocks(p, b) : d.part = "body"})
HandlerOf(t) == IF t = 0 THEN NULL ELSE slot[t]

Allocated(h) == h # NULL /\ heap[h].live

(* While statements execute, the handler chain is exactly the bodies of    *)
(* try control is inside of, link by link: what the exits, the catch       *)
(* labels and the calls of aym_try_pop in the generator have to keep true  *)
(* together.                                                               *)
ChainMatchesNesting ==
  Executing =>
    /\ current = HandlerOf(InnermostBody(prog, pos))
    /\ \A t \in Bodies(prog, pos) :
         Allocated(slot[t]) /\ heap[slot[t]].prev = HandlerOf(InnermostBody(prog, prog[t].in))

(* The handler chain mirrors the nesting of try bodies in every program no *)
(* exit of which leaves a body: ReturnStmt, BreakStmt and ContinueStmt     *)
(* emit no aym_try_pop, every other way out of a body does.                *)
NestingMirrored == LeavesNoBody(prog) => ChainMatchesNesting

(* docs/exceptions.md:13, "se ejecuta siempre": when control is outside a  *)
(* try with a tukuyawi it once entered, that block has been run.           *)
IsInside(h) == \E c \in TryBlocks(prog, pos) : slot[c.of] = h
FinallyAlways ==
  (Executing \/ status = "finished" \/ status = "unhandled") =>
    \A h \in 1..Len(heap) :
      prog[env[h].at].fin /\ ~(status = "running" /\ IsInside(h)) => ran[h] >= 1

(* And not twice: no exit path calls a tukuyawi another one has called.    *)
FinallyOnce == \A h \in 1..Len(heap) : ran[h] <= 1

(* docs/exceptions.md:22, "Try --> Catch: pantja": an exception about to   *)
(* be thrown finds the handler of the innermost try body around it, in a   *)
(* frame that has not returned; without such a body it finds none.         *)
ThrowReachesInnermost ==
  Doing("throw") =>
    LET t == InnermostBody(prog, pos) IN
      IF t = 0 THEN current = NULL
      ELSE current # NULL /\ Jumpable(current) /\ env[At(current)].at = t

(* Nothing undefined ever happens: no use of a released handler, no jump   *)
(* into a frame that has returned, no return through a foreign address.    *)
NeverUndefined == status # "undefined"

(* aym_try_pop frees whatever handler it is given, the current one or not, *)
(* and calloc may hand the same memory to the next yant'aña.  Still, in    *)
(* any program the compiler accepts, runtime errors and pantja anywhere,   *)
(* khiti under a try, tukuyawi blocks that run too often, every pop and    *)
(* every longjmp meets a handler that is still allocated: as long as no    *)
(* break, continue or return leaves a body or a tukuyawi.                  *)
MemorySafe == LeavesNoBody(prog) /\ LeavesNoFinally(prog) => NeverUndefined

(* An exception in flight lands in a katjaña or a tukuyawi, or ends the    *)
(* program: rethrowing from one try to the next never goes round.          *)
Raised == work.goal \in {"throw", "caught"} /\ status = "running"
EveryThrowLands == Raised ~> ~Raised
-----------------------------------------------------------------------------
(* The abstract state: the try statements control is inside of, and the    *)
(* exception or exit in flight.  The inline code that leaves a try for an  *)
(* exit is mapped to the exit, a finished block to no signal at all.       *)
Entered(p, s, b) == IF IsTry(p, b) THEN Append(s, b) ELSE s
Inside(p, b) ==
  LET inside[n \in 0..Len(p)] ==
        IF n = 0 THEN << >> ELSE Entered(p, inside[p[n].in.of], p[n].in)
  IN  Entered(p, inside[b.of], b)

DepthOf(n) == Len(Inside(prog, prog[n].in))

SignalOf(w) ==
  [kind  |-> CASE w.goal \in {"throw", "caught"} -> "raise"
               [] w.goal \in {"break", "continue", "return"} -> "leave"
               [] OTHER -> "none",
   exc   |-> IF w.goal = "caught" THEN held[current] ELSE w.exc,
   depth |-> IF w.goal \in {"break", "continue", "return"} THEN DepthOf(w.to) ELSE 0]

(* A tukuyawi hands back to the work saved under its own return address.   *)
CallerOf(t) ==
  SelectLastInSeq(stack, LAMBDA f : f.kind = "fin" /\ f.of = t)

RegionOf(c) ==
  [try |-> c.of, phase |-> c.part, cat |-> prog[c.of].cat, fin |-> prog[c.of].fin,
   then |-> SignalOf(IF c.part = "fin" /\ CallerOf(c.of) # 0
                       THEN stack[CallerOf(c.of)].then ELSE Running)]

regionsBar ==
  LET inside == Inside(prog, pos)
  IN  IF status = "running" THEN [i \in DOMAIN inside |-> RegionOf(inside[i])] ELSE << >>

signalBar ==
  IF status = "running" THEN SignalOf(work)
  ELSE [kind |-> IF status = "undefined" THEN status ELSE "over", exc |-> 0, depth |-> 0]

Language ==
  INSTANCE TrySemantics WITH
    Tries <- 1..MaxLen,
    Excs <- 1..MaxLen,
    regions <- regionsBar,
    signal <- signalBar

(* docs/exceptions.md: the compiled program does what the language says,   *)
(* each try entered, caught, finished and left as TrySemantics has it.     *)
ImplementsLanguage == Language!Spec
=============================================================================
