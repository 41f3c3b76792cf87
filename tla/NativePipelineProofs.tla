------------------------ MODULE NativePipelineProofs ------------------------
(***************************************************************************)
(* For any number of aymc, outputs, units, command lines, edits and kills: *)
(* exit code 0 means a complete and fresh output, and no child and no      *)
(* capture file is left behind.                                            *)
(***************************************************************************)
EXTENDS NativePipeline, SequenceTheorems, FiniteSetTheorems, TLAPS

Fields == {"busy", "run", "cmd", "plan", "phase", "exit", "late", "quiet"}

(* What is left of a plan. *)
PlanOK(plan, mode) ==
  /\ plan \in Seq(Range(Plan(mode)))
  /\ \A i \in DOMAIN plan : plan[i] = "generate" => i = 1
  /\ \A i \in DOMAIN plan : plan[i] \in {"link", "tidy"} => i = Len(plan)
  /\ mode # "compile" /\ plan # << >> => plan[Len(plan)] = "link"

(* A process, when n invocations have begun. *)
RunOK(r, n) ==
  /\ DOMAIN r = Fields
  /\ r.busy \in BOOLEAN /\ r.quiet \in BOOLEAN
  /\ r.phase \in {"ready", "wait", "killed"}
  /\ r.busy => r.run \in 1..n /\ r.cmd \in Command /\ PlanOK(r.plan, r.cmd.mode)
  /\ ~r.busy => r.run = 0 /\ r.phase = "ready"
  /\ r.phase = "ready" => r.exit = "none"
  /\ r.phase # "ready" => r.plan # << >>
ProcsOK ==
  /\ DOMAIN aymc = Procs /\ runs \in Nat
  /\ \A p \in Procs : RunOK(aymc[p], runs)
  /\ \A p, q \in Procs : aymc[p].busy /\ aymc[q].busy /\ aymc[p].run = aymc[q].run => p = q

ToolOK(w, n) ==
  /\ DOMAIN w = {"run", "key", "parent", "orphan", "out", "opened", "holds"}
  /\ w.run \in 1..n /\ w.parent \in Procs /\ w.orphan \in BOOLEAN /\ w.opened \in BOOLEAN
  /\ w.key \in Files

(* The tool its parent waits for. *)
ChildOK(w) ==
  LET r == aymc[w.parent] IN
    /\ r.run = w.run /\ r.phase = "wait" /\ r.exit = "none"
    /\ w.key = Target(w.parent, Head(r.plan)) /\ w.out = r.cmd.out
OrphanOK(w) == \A p \in Procs : aymc[p].run = w.run => aymc[p].phase = "killed"
ToolsOK ==
  /\ \A w \in tools : ToolOK(w, runs) /\ IF w.orphan THEN OrphanOK(w) ELSE ChildOK(w)
  /\ \A v, w \in tools : ~v.orphan /\ ~w.orphan /\ v.parent = w.parent => v = w

(* The capture files on disk are of an invocation that waits, or was killed*)
(* before it could remove them.                                            *)
CapturesOK == \A r \in captures \ killed : \E p \in Procs : aymc[p].run = r /\ aymc[p].phase # "ready"

(* As long as every change of a source shows in its time stamp: an object  *)
(* that is not older than its source is made of the source as it is, and so*)
(* is what a compiler that has read the source will write.                 *)
Present(u) == {<<u, runtime[u]>>}
CacheOK ==
  /\ DOMAIN file = Files /\ sound \in BOOLEAN
  /\ sound => \A u \in Unit :
       LET k == <<"cached", u>> IN
         /\ u \notin older /\ file[k].part = "whole" => file[k].holds = Present(u)
         /\ \A w \in tools : w.opened /\ w.key = k => w.holds = Present(u)

(* What the stages of p, once done, have left behind while p is quiet: the *)
(* text of this program, the object of it, cached objects that are up to   *)
(* date, and the executable made of these.                                 *)
Linked(p, holds) ==
  LET obj == file[Here(p, "obj")] IN
    /\ obj.part = "whole" /\ obj.holds \subseteq holds
    /\ sound => holds = obj.holds \cup {<<u, runtime[u]>> : u \in Unit}

Is(k, program) == file[k].part = "whole" /\ file[k].holds = program
Fact(p, s) ==
  /\ s = "generate" /\ "assemble" \in Range(aymc[p].plan) => Is(Here(p, "asm"), Program(aymc[p].run))
  /\ s = "assemble" => Is(Here(p, "obj"), Program(aymc[p].run))
  /\ s = "link" => file[Here(p, "bin")].part = "whole" /\ Linked(p, file[Here(p, "bin")].holds)
  /\ s \in Unit => s \notin older

(* What the tool of a stage will leave, once it has opened its output.     *)
Partly(p, s, w) ==
  /\ s \in {"assemble", "link"} => file[w.key].by = Opener(w)
  /\ s = "assemble" => w.holds = Program(aymc[p].run)
  /\ s = "link" => Linked(p, w.holds)
  /\ s \in Unit => s \notin older

(* p may still succeed, and nobody else writes its output. *)
Going(p) == aymc[p].busy /\ aymc[p].quiet /\ aymc[p].phase # "killed"
Progress(p) ==
  /\ \A s \in Range(Plan(aymc[p].cmd.mode)) \ Range(aymc[p].plan) : Fact(p, s)
  /\ aymc[p].exit = "ok" => Fact(p, Head(aymc[p].plan))
  /\ \A w \in tools : ~w.orphan /\ w.parent = p /\ w.opened => Partly(p, Head(aymc[p].plan), w)
StagesOK == \A p \in Procs : Going(p) => Progress(p)
-----------------------------------------------------------------------------
(* Plans. *)
LEMMA PlanRange ==
  ASSUME NEW S, NEW plan \in Seq(S)
  PROVE  /\ Range(plan) = {plan[i] : i \in 1..Len(plan)} /\ Range(plan) \subseteq S
         /\ plan \in Seq(Range(plan))
<1>1. DOMAIN plan = 1..Len(plan) /\ Len(plan) \in Nat
  OBVIOUS
<1>2. Range(plan) = {plan[i] : i \in 1..Len(plan)}
  BY <1>1 DEF Range
<1>3. \A i \in 1..Len(plan) : plan[i] \in S /\ plan[i] \in Range(plan)
  BY <1>1, <1>2
<1>4. Range(plan) \subseteq S
  BY <1>2, <1>3
<1>5. plan = [i \in 1..Len(plan) |-> plan[i]]
  BY <1>1
<1>6. plan \in [1..Len(plan) -> Range(plan)]
  BY <1>3, <1>5
<1>7. plan \in Seq(Range(plan))
  BY <1>1, <1>6, SeqDef
<1>8. QED BY <1>2, <1>4, <1>7

(* The first stage of a plan and the rest. *)
LEMMA PlanTail ==
  ASSUME NEW mode, NEW plan, PlanOK(plan, mode), plan # << >>
  PROVE  /\ PlanOK(Tail(plan), mode)
         /\ Range(plan) = {Head(plan)} \cup Range(Tail(plan))
         /\ Range(plan) \subseteq Range(Plan(mode))
         /\ "generate" \notin Range(Tail(plan))
         /\ Head(plan) \in {"link", "tidy"} => Tail(plan) = << >>
<1> DEFINE S == Range(Plan(mode))
<1>1. /\ plan \in Seq(S)
      /\ \A i \in DOMAIN plan : plan[i] = "generate" => i = 1
      /\ \A i \in DOMAIN plan : plan[i] \in {"link", "tidy"} => i = Len(plan)
      /\ mode # "compile" /\ plan # << >> => plan[Len(plan)] = "link"
  BY DEF PlanOK
<1> DEFINE rest == Tail(plan)
<1> HIDE DEF S
<1>2. /\ rest \in Seq(S) /\ Len(rest) = Len(plan) - 1 /\ Len(plan) \in Nat \ {0}
      /\ \A i \in 1..Len(rest) : rest[i] = plan[i + 1]
      /\ DOMAIN plan = 1..Len(plan) /\ DOMAIN rest = 1..Len(rest)
      /\ Head(plan) = plan[1]
  BY <1>1
<1>3. Range(plan) = {plan[i] : i \in 1..Len(plan)} /\ Range(plan) \subseteq S
  BY <1>1, PlanRange
<1>4. Range(rest) = {rest[i] : i \in 1..Len(rest)}
  BY <1>2, PlanRange
<1>5. rest # << >> => Len(rest) \in Nat \ {0}
  BY <1>2
<1> HIDE DEF rest
<1>6. Range(plan) = {Head(plan)} \cup Range(rest)
  <2>1. \A i \in 1..Len(plan) : i = 1 \/ (i - 1 \in 1..Len(rest) /\ rest[i - 1] = plan[i])
    BY <1>2
  <2>2. Range(plan) \subseteq {Head(plan)} \cup Range(rest)
    BY <1>2, <1>3, <1>4, <2>1
  <2>3. \A i \in 1..Len(rest) : i + 1 \in 1..Len(plan) /\ rest[i] = plan[i + 1]
    BY <1>2
  <2>4. 1 \in 1..Len(plan)
    BY <1>2
  <2>5. QED BY <1>2, <1>3, <1>4, <2>2, <2>3, <2>4
<1>7. "generate" \notin Range(rest)
  BY <1>1, <1>2, <1>4
<1>8. \A i \in DOMAIN rest : rest[i] \in {"link", "tidy"} => i = Len(rest)
  BY <1>1, <1>2
<1>9. \A i \in DOMAIN rest : rest[i] = "generate" => i = 1
  BY <1>1, <1>2
<1>10. mode # "compile" /\ rest # << >> => rest[Len(rest)] = "link"
  BY <1>1, <1>2, <1>5
<1>11. ASSUME Head(plan) \in {"link", "tidy"} PROVE rest = << >>
  <2>1. Len(plan) = 1
    BY <1>1, <1>2, <1>11
  <2>2. QED BY <1>2, <2>1
<1>12. PlanOK(rest, mode)
  BY <1>2, <1>8, <1>9, <1>10 DEF PlanOK, S
<1>13. QED BY <1>3, <1>6, <1>7, <1>11, <1>12 DEF rest, S

LEMMA Modes3 ==
  /\ Plan("full") = <<"generate", "assemble">> \o Units \o <<"link">>
  /\ Plan("compile") = <<"generate", "assemble", "tidy">>
  /\ Plan("link") = <<"object">> \o Units \o <<"link">>
BY DEF Plan

(* What each plan consists of, and the plan of an invocation to begin with.*)
LEMMA PlanStart ==
  ASSUME NEW mode \in Modes
  PROVE  /\ PlanOK(Plan(mode), mode)
         /\ Range(Plan(mode)) \subseteq Stages \cup Unit
         /\ "assemble" \in Range(Plan(mode)) <=> mode # "link"
         /\ mode # "link" => "generate" \in Range(Plan(mode))
         /\ mode # "compile" => "link" \in Range(Plan(mode)) /\ Unit \subseteq Range(Plan(mode))
         /\ mode = "compile" => "link" \notin Range(Plan(mode))
<1> DEFINE T == Stages \cup Unit
           plan == Plan(mode)
<1>1. /\ Units \in Seq(T) /\ Len(Units) \in Nat
      /\ \A i \in 1..Len(Units) : Units[i] \in Unit \ Stages
  BY UnitsAssumption
<1>2. Unit = {Units[i] : i \in 1..Len(Units)}
  BY UnitsAssumption, PlanRange DEF Unit
<1>3. /\ "generate" \in T /\ "assemble" \in T /\ "tidy" \in T /\ "object" \in T /\ "link" \in T
      /\ \A i \in 1..Len(Units) : Units[i] \notin {"generate", "assemble", "tidy", "object", "link"}
  BY <1>1 DEF Stages
<1> HIDE DEF T
<1>4. CASE mode = "full"
  <2>1. plan = <<"generate", "assemble">> \o Units \o <<"link">>
    BY <1>4, Modes3
  <2>2. /\ plan \in Seq(T) /\ Len(plan) = Len(Units) + 3 /\ DOMAIN plan = 1..Len(plan)
        /\ plan[1] = "generate" /\ plan[2] = "assemble" /\ plan[Len(plan)] = "link"
        /\ \A i \in 3..(Len(plan) - 1) : plan[i] = Units[i - 2]
    BY <1>1, <1>3, <2>1
  <2> HIDE DEF plan
  <2>3. \A i \in 1..Len(plan) : i = 1 \/ i = 2 \/ i = Len(plan) \/ (i - 2 \in 1..Len(Units) /\ plan[i] = Units[i - 2])
    BY <1>1, <2>2
  <2>4. \A i \in 1..Len(Units) : i + 2 \in 1..Len(plan) /\ plan[i + 2] = Units[i]
    BY <1>1, <2>2
  <2>5. Range(plan) = {plan[i] : i \in 1..Len(plan)} /\ plan \in Seq(Range(plan)) /\ Range(plan) \subseteq T
    BY <2>2, PlanRange
  <2>6. 1 \in 1..Len(plan) /\ 2 \in 1..Len(plan) /\ Len(plan) \in 1..Len(plan)
    BY <1>1, <2>2
  <2>7. \A i \in DOMAIN plan : plan[i] = "generate" => i = 1
    BY <1>3, <2>2, <2>3
  <2>8. \A i \in DOMAIN plan : plan[i] \in {"link", "tidy"} => i = Len(plan)
    BY <1>3, <2>2, <2>3
  <2>9. PlanOK(plan, mode)
    BY <2>2, <2>5, <2>7, <2>8 DEF PlanOK, plan
  <2>10. "generate" \in Range(plan) /\ "assemble" \in Range(plan) /\ "link" \in Range(plan)
    BY <2>2, <2>5, <2>6
  <2>11. Unit \subseteq Range(plan)
    BY <1>2, <2>4, <2>5
  <2>12. mode # "link" /\ mode # "compile"
    BY <1>4
  <2>13. QED BY <2>5, <2>9, <2>10, <2>11, <2>12 DEF plan, T
<1>5. CASE mode = "compile"
  <2>1. plan = <<"generate", "assemble", "tidy">>
    BY <1>5, Modes3
  <2>2. /\ plan \in Seq(T) /\ Len(plan) = 3 /\ DOMAIN plan = 1..3
        /\ plan[1] = "generate" /\ plan[2] = "assemble" /\ plan[3] = "tidy"
    BY <1>3, <2>1
  <2> HIDE DEF plan
  <2>3. Range(plan) = {plan[i] : i \in 1..3} /\ plan \in Seq(Range(plan)) /\ Range(plan) \subseteq T
    BY <2>2, PlanRange
  <2>4. \A i \in DOMAIN plan : i \in {1, 2, 3}
    BY <2>2
  <2>5. \A i \in DOMAIN plan : plan[i] = "generate" => i = 1
    BY <2>2, <2>4
  <2>6. \A i \in DOMAIN plan : plan[i] \in {"link", "tidy"} => i = Len(plan)
    BY <2>2, <2>4
  <2>7. PlanOK(plan, mode)
    BY <1>5, <2>3, <2>5, <2>6 DEF PlanOK, plan
  <2>8. "generate" \in Range(plan) /\ "assemble" \in Range(plan) /\ "link" \notin Range(plan)
    BY <2>2, <2>3
  <2>9. QED BY <1>5, <2>3, <2>7, <2>8 DEF plan, T
<1>6. CASE mode = "link"
  <2>1. plan = <<"object">> \o Units \o <<"link">>
    BY <1>6, Modes3
  <2>2. /\ plan \in Seq(T) /\ Len(plan) = Len(Units) + 2 /\ DOMAIN plan = 1..Len(plan)
        /\ plan[1] = "object" /\ plan[Len(plan)] = "link"
        /\ \A i \in 2..(Len(plan) - 1) : plan[i] = Units[i - 1]
    BY <1>1, <1>3, <2>1
  <2> HIDE DEF plan
  <2>3. \A i \in 1..Len(plan) : i = 1 \/ i = Len(plan) \/ (i - 1 \in 1..Len(Units) /\ plan[i] = Units[i - 1])
    BY <1>1, <2>2
  <2>4. \A i \in 1..Len(Units) : i + 1 \in 1..Len(plan) /\ plan[i + 1] = Units[i]
    BY <1>1, <2>2
  <2>5. Range(plan) = {plan[i] : i \in 1..Len(plan)} /\ plan \in Seq(Range(plan)) /\ Range(plan) \subseteq T
    BY <2>2, PlanRange
  <2>6. Len(plan) \in 1..Len(plan)
    BY <1>1, <2>2
  <2>7. \A i \in DOMAIN plan : plan[i] = "generate" => i = 1
    BY <1>3, <2>2, <2>3
  <2>8. \A i \in DOMAIN plan : plan[i] \in {"link", "tidy"} => i = Len(plan)
    BY <1>3, <2>2, <2>3
  <2>9. PlanOK(plan, mode)
    BY <2>2, <2>5, <2>7, <2>8 DEF PlanOK, plan
  <2>10. "link" \in Range(plan) /\ "assemble" \notin Range(plan)
    BY <1>3, <2>2, <2>3, <2>5, <2>6
  <2>11. Unit \subseteq Range(plan)
    BY <1>2, <2>4, <2>5
  <2>12. ~(mode # "link") /\ mode # "compile"
    BY <1>6
  <2>13. QED BY <2>5, <2>9, <2>10, <2>11, <2>12 DEF plan, T
<1>7. QED BY <1>4, <1>5, <1>6 DEF Modes
-----------------------------------------------------------------------------
(* A process record with all but `quiet` and `late` of another, and quiet  *)
(* only if that is.                                                        *)
Like(r, s) ==
  /\ DOMAIN r = Fields
  /\ r.busy = s.busy /\ r.run = s.run /\ r.cmd = s.cmd /\ r.plan = s.plan
  /\ r.phase = s.phase /\ r.exit = s.exit
  /\ r.quiet \in BOOLEAN /\ (r.quiet => s.quiet)
Moves(p, rec) ==
  /\ DOMAIN aymc' = Procs
  /\ \A q \in Procs : Like(aymc'[q], IF q = p THEN rec ELSE aymc[q])

LEMMA SetMoves ==
  ASSUME ProcsOK, NEW p \in Procs, NEW rec, DOMAIN rec = Fields, rec.quiet \in BOOLEAN, Set(p, rec)
  PROVE  /\ Moves(p, rec)
         /\ \A q \in Procs : aymc'[q] = IF q = p THEN rec ELSE aymc[q]
<1>1. /\ DOMAIN aymc' = Procs
      /\ \A q \in Procs : aymc'[q] = IF q = p THEN rec ELSE aymc[q]
  BY DEF Set, ProcsOK
<1>2. \A q \in Procs : DOMAIN aymc[q] = Fields /\ aymc[q].quiet \in BOOLEAN
  BY DEF ProcsOK, RunOK
<1>3. QED BY <1>1, <1>2 DEF Moves, Like

LEMMA WritingMoves ==
  ASSUME ProcsOK, NEW p \in Procs, NEW rec, DOMAIN rec = Fields, rec.quiet \in BOOLEAN,
         NEW procs, \A q \in Procs : procs[q] = IF q = p THEN rec ELSE aymc[q],
         NEW run, NEW k, Writing(run, k, procs)
  PROVE  /\ Moves(p, rec)
         /\ \A q \in Procs : aymc'[q].quiet => ~Disturbed(q, run, k)
<1>1. /\ DOMAIN aymc' = Procs
      /\ \A q \in Procs : aymc'[q] = IF Disturbed(q, run, k) THEN [procs[q] EXCEPT !.quiet = FALSE] ELSE procs[q]
  BY DEF Writing
<1>2. \A q \in Procs : DOMAIN procs[q] = Fields /\ procs[q].quiet \in BOOLEAN
  BY DEF ProcsOK, RunOK
<1>3. ASSUME NEW q \in Procs PROVE Like(aymc'[q], procs[q]) /\ (aymc'[q].quiet => ~Disturbed(q, run, k))
  <2>1. CASE Disturbed(q, run, k)
    <3>1. aymc'[q] = [procs[q] EXCEPT !.quiet = FALSE]
      BY <1>1, <2>1
    <3>2. QED BY <1>2, <3>1 DEF Like, Fields
  <2>2. CASE ~Disturbed(q, run, k)
    BY <1>1, <1>2, <2>2 DEF Like
  <2>3. QED BY <2>1, <2>2
<1>4. QED BY <1>1, <1>3 DEF Moves

LEMMA IdleOK == ASSUME NEW n PROVE RunOK(Idle, n) /\ Idle.run = 0 /\ ~Idle.busy /\ Idle.quiet = FALSE
BY DEF RunOK, Idle, Fields

(* The record of a process that has done the first stage of its plan.      *)
LEMMA DoneOK ==
  ASSUME ProcsOK, NEW p \in Procs, aymc[p].busy, aymc[p].plan # << >>
  PROVE  /\ RunOK(Done(p), runs) /\ Done(p).quiet = aymc[p].quiet
         /\ Done(p).busy /\ Done(p).run = aymc[p].run /\ Done(p).cmd = aymc[p].cmd
         /\ Done(p).plan = Tail(aymc[p].plan) /\ Done(p).phase = "ready" /\ Done(p).exit = "none"
<1>1. RunOK(aymc[p], runs)
  BY DEF ProcsOK
<1>2. /\ DOMAIN Done(p) = Fields /\ Done(p).quiet = aymc[p].quiet
      /\ Done(p).busy = aymc[p].busy /\ Done(p).run = aymc[p].run /\ Done(p).cmd = aymc[p].cmd
      /\ Done(p).plan = Tail(aymc[p].plan) /\ Done(p).phase = "ready" /\ Done(p).exit = "none"
  BY <1>1 DEF Done, RunOK, Fields
<1>3. PlanOK(Tail(aymc[p].plan), aymc[p].cmd.mode)
  BY <1>1, PlanTail DEF RunOK
<1>4. QED BY <1>1, <1>2, <1>3 DEF RunOK

LEMMA ProcsMove ==
  ASSUME ProcsOK, NEW p \in Procs, NEW rec, RunOK(rec, runs), Moves(p, rec), runs' = runs,
         rec.busy => aymc[p].busy /\ rec.run = aymc[p].run
  PROVE  ProcsOK'
<1>1. ASSUME NEW q \in Procs
      PROVE  /\ RunOK(aymc'[q], runs)
             /\ aymc'[q].busy => aymc[q].busy /\ aymc'[q].run = aymc[q].run
  <2>1. CASE q = p
    BY <2>1 DEF Moves, Like, RunOK
  <2>2. CASE q # p
    <3>1. RunOK(aymc[q], runs) /\ Like(aymc'[q], aymc[q])
      BY <2>2 DEF Moves, ProcsOK
    <3>2. QED BY <3>1 DEF Like, RunOK
  <2>3. QED BY <2>1, <2>2
<1>2. DOMAIN aymc' = Procs
  BY DEF Moves
<1>3. QED BY <1>1, <1>2 DEF ProcsOK

(* A step of p that leaves the tools alone: p has none, or changes nothing *)
(* that its tool is about.                                                 *)
LEMMA ToolsKept ==
  ASSUME ProcsOK, ToolsOK, NEW p \in Procs, NEW rec, Moves(p, rec),
         runs' = runs, tools' = tools,
         rec = aymc[p] \/ \A w \in tools : w.orphan \/ w.parent # p,
         rec.run = 0 \/ (rec.run = aymc[p].run /\ (aymc[p].phase = "killed" => rec.phase = "killed"))
  PROVE  ToolsOK'
<1>1. ASSUME NEW w \in tools, w.orphan PROVE OrphanOK(w)'
  <2>1. OrphanOK(w) /\ w.run # 0
    BY <1>1 DEF ToolsOK, ToolOK, ProcsOK
  <2>2. QED BY <2>1 DEF OrphanOK, Moves, Like
<1>2. ASSUME NEW w \in tools, ~w.orphan PROVE ChildOK(w)'
  <2>1. ChildOK(w) /\ w.parent \in Procs
    BY <1>2 DEF ToolsOK, ToolOK
  <2>2. Like(aymc'[w.parent], aymc[w.parent])
    BY <1>2, <2>1 DEF Moves
  <2>3. QED BY <2>1, <2>2 DEF ChildOK, Like, Target, Here
<1>3. QED BY <1>1, <1>2 DEF ToolsOK

LEMMA CapturesKept ==
  ASSUME CapturesOK, NEW p \in Procs, NEW rec, Moves(p, rec), killed \subseteq killed',
         captures' \subseteq captures,
         \/ aymc[p].phase = "ready"
         \/ rec.run = aymc[p].run /\ rec.phase # "ready"
         \/ aymc[p].run \notin captures' \ killed'
  PROVE  CapturesOK'
<1>1. ASSUME NEW r \in captures' \ killed' PROVE \E q \in Procs : aymc'[q].run = r /\ aymc'[q].phase # "ready"
  <2>1. PICK q \in Procs : aymc[q].run = r /\ aymc[q].phase # "ready"
    BY <1>1 DEF CapturesOK
  <2>2. QED BY <1>1, <2>1 DEF Moves, Like
<1>2. QED BY <1>1 DEF CapturesOK
-----------------------------------------------------------------------------
LEMMA NoChild ==
  ASSUME ToolsOK, NEW p \in Procs, aymc[p].phase # "wait" \/ aymc[p].exit # "none"
  PROVE  \A w \in tools : w.orphan \/ w.parent # p
BY DEF ToolsOK, ToolOK, ChildOK

(* The steps of a process that neither start nor stop a tool.              *)
Alone(p) ==
  \/ Generate(p) \/ NotGenerated(p) \/ Tidy(p) \/ FindObject(p) \/ CacheHit(p)
  \/ NotSpawned(p) \/ Reap(p) \/ Finish(p)

LEMMA ReadyOK ==
  ASSUME ProcsOK, NEW p \in Procs, NEW stage, At(p, stage)
  PROVE  /\ aymc[p].busy /\ aymc[p].phase = "ready" /\ aymc[p].plan # << >>
         /\ aymc[p].exit = "none" /\ aymc[p].cmd \in Command /\ aymc[p].cmd.out \in Outputs
         /\ Head(aymc[p].plan) = stage
<1>1. aymc[p].busy /\ aymc[p].phase = "ready" /\ aymc[p].plan # << >> /\ Head(aymc[p].plan) = stage
  BY DEF At
<1>2. aymc[p].exit = "none" /\ aymc[p].cmd \in Command
  BY <1>1 DEF ProcsOK, RunOK
<1>3. QED BY <1>1, <1>2 DEF Command

LEMMA UnitsApart ==
  ASSUME NEW u \in Unit
  PROVE  u \notin Stages /\ u # "assemble" /\ u # "link" /\ u # "generate"
<1>1. Range(Units) \subseteq Unit \ Stages
  BY UnitsAssumption, PlanRange
<1>2. QED BY <1>1 DEF Unit, Stages

LEMMA RunsToolReady ==
  ASSUME ProcsOK, NEW p \in Procs, RunsTool(p)
  PROVE  \E stage : /\ At(p, stage) /\ stage \in {"assemble", "link"} \cup Unit
                    /\ stage \in Unit => NeedsRebuild(stage)
<1>1. CASE At(p, "assemble") \/ At(p, "link")
  BY <1>1, UnitsApart
<1>2. QED BY <1>1 DEF RunsTool

LEMMA AloneMoves ==
  ASSUME ProcsOK, NEW p \in Procs, Alone(p)
  PROVE  /\ aymc[p].busy /\ (aymc[p].phase = "ready" \/ aymc[p].exit # "none")
         /\ \/ Moves(p, Idle)
            \/ Moves(p, Done(p)) /\ aymc[p].plan # << >> /\ aymc[p].phase # "killed"
         /\ tools' = tools /\ runs' = runs /\ killed' = killed
         /\ runtime' = runtime /\ sound' = sound /\ older' = older
<1>1. RunOK(aymc[p], runs)
  BY DEF ProcsOK
<1>2. DOMAIN Idle = Fields /\ Idle.quiet \in BOOLEAN
  BY IdleOK DEF RunOK
<1>3. ASSUME aymc[p].busy, aymc[p].plan # << >> PROVE DOMAIN Done(p) = Fields /\ Done(p).quiet \in BOOLEAN
  BY <1>3, DoneOK DEF RunOK
<1>4. CASE Generate(p) \/ Tidy(p)
  <2>1. PICK stage : At(p, stage)
    BY <1>4 DEF Generate, Tidy
  <2>2. PICK k : Writing(aymc[p].run, k, [aymc EXCEPT ![p] = Done(p)])
    BY <1>4 DEF Generate, Tidy
  <2>3. \A q \in Procs : [aymc EXCEPT ![p] = Done(p)][q] = IF q = p THEN Done(p) ELSE aymc[q]
    BY DEF ProcsOK
  <2>4. Moves(p, Done(p))
    BY <1>3, <2>1, <2>2, <2>3, ReadyOK, WritingMoves
  <2>5. QED BY <1>4, <2>1, <2>4, ReadyOK DEF Generate, Tidy, NoTool, Others
<1>5. CASE NotGenerated(p) \/ NotSpawned(p)
  <2>1. PICK stage : At(p, stage)
    BY <1>5, RunsToolReady DEF NotGenerated, NotSpawned
  <2>2. Set(p, Idle)
    BY <1>5 DEF NotGenerated, NotSpawned, Fail
  <2>3. QED BY <1>2, <1>5, <2>1, <2>2, ReadyOK, SetMoves DEF NotGenerated, NotSpawned, NoTool, Others
<1>6. CASE FindObject(p) \/ CacheHit(p)
  <2>1. PICK stage : At(p, stage)
    BY <1>6 DEF FindObject, CacheHit
  <2>2. Set(p, Idle) \/ Set(p, Done(p))
    BY <1>6 DEF FindObject, CacheHit, Fail
  <2>3. QED BY <1>2, <1>3, <1>6, <2>1, <2>2, ReadyOK, SetMoves DEF FindObject, CacheHit, NoTool, Others
<1>7. CASE Reap(p)
  <2>1. aymc[p].phase \in {"wait", "killed"} /\ aymc[p].exit # "none"
    BY <1>7 DEF Reap
  <2>2. aymc[p].busy /\ aymc[p].plan # << >>
    BY <1>1, <2>1 DEF RunOK
  <2>3. Set(p, Idle) \/ (Set(p, Done(p)) /\ aymc[p].phase # "killed")
    BY <1>7 DEF Reap, Fail
  <2>4. QED BY <1>2, <1>3, <1>7, <2>1, <2>2, <2>3, SetMoves DEF Reap, Others
<1>8. CASE Finish(p)
  <2>1. aymc[p].phase = "ready"
    BY <1>1, <1>8 DEF RunOK, Finish
  <2>2. QED BY <1>2, <1>8, <2>1, SetMoves DEF Finish, NoTool, Others
<1>9. QED BY <1>4, <1>5, <1>6, <1>7, <1>8 DEF Alone

BaseInv == ProcsOK /\ ToolsOK /\ CapturesOK /\ CacheOK

(* Nothing happens to the objects of the cache or to the tools that make   *)
(* them.                                                                   *)
LEMMA CacheKept ==
  ASSUME CacheOK, DOMAIN file' = Files, \A u \in Unit : file'[<<"cached", u>>] = file[<<"cached", u>>],
         older' = older, runtime' = runtime, sound' = sound,
         \A w \in tools' : w.opened =>
           \E v \in tools : v.opened /\ v.key = w.key /\ v.holds = w.holds
  PROVE  CacheOK'
<1>1. DOMAIN file' = Files /\ sound' \in BOOLEAN
  BY DEF CacheOK
<1>2. ASSUME sound', NEW u \in Unit
      PROVE  LET k == <<"cached", u>> IN
               /\ u \notin older' /\ file'[k].part = "whole" => file'[k].holds = {<<u, runtime'[u]>>}
               /\ \A w \in tools' : w.opened /\ w.key = k => w.holds = {<<u, runtime'[u]>>}
  BY <1>2 DEF CacheOK, Present
<1>3. QED BY <1>1, <1>2 DEF CacheOK, Present

(* The files of an output are no objects of the cache.                     *)
LEMMA HereFile ==
  ASSUME NEW p \in Procs, aymc[p].cmd.out \in Outputs, NEW kind \in Kinds
  PROVE  Here(p, kind) \in Files /\ Here(p, kind)[1] = kind /\ \A u \in Unit : Here(p, kind) # <<"cached", u>>
BY DEF Here, Files, Kinds

LEMMA AloneBase ==
  ASSUME BaseInv, NEW p \in Procs, Alone(p)
  PROVE  BaseInv'
<1>1. ProcsOK /\ ToolsOK /\ CapturesOK /\ CacheOK
  BY DEF BaseInv
<1>2. /\ aymc[p].busy /\ (aymc[p].phase = "ready" \/ aymc[p].exit # "none")
      /\ tools' = tools /\ runs' = runs /\ killed' = killed
      /\ runtime' = runtime /\ sound' = sound /\ older' = older
  BY <1>1, AloneMoves
<1>3. PICK rec : /\ Moves(p, rec) /\ RunOK(rec, runs)
                 /\ rec.busy => rec.run = aymc[p].run
                 /\ rec.run = 0 \/ (rec.run = aymc[p].run /\ aymc[p].phase # "killed")
  <2>1. CASE Moves(p, Idle)
    BY <2>1, IdleOK
  <2>2. CASE Moves(p, Done(p)) /\ aymc[p].plan # << >> /\ aymc[p].phase # "killed"
    BY <1>1, <1>2, <2>2, DoneOK
  <2>3. QED BY <1>1, <2>1, <2>2, AloneMoves
<1>4. ProcsOK'
  BY <1>1, <1>2, <1>3, ProcsMove
<1>5. \A w \in tools : w.orphan \/ w.parent # p
  <2>1. aymc[p].phase # "wait" \/ aymc[p].exit # "none"
    BY <1>2
  <2>2. QED BY <1>1, <2>1, NoChild
<1>6. ToolsOK'
  BY <1>1, <1>2, <1>3, <1>5, ToolsKept
<1>7. CapturesOK'
  <2>1. CASE Reap(p)
    <3>1. captures' = captures \ {aymc[p].run}
      BY <2>1 DEF Reap
    <3>2. QED BY <1>1, <1>2, <1>3, <3>1, CapturesKept
  <2>2. CASE ~Reap(p)
    <3>1. captures' = captures /\ aymc[p].phase = "ready"
      BY <1>1, <2>2, ReadyOK, RunsToolReady DEF Alone, Generate, NotGenerated, Tidy, FindObject, CacheHit, NotSpawned,
         Finish, NoTool, ProcsOK, RunOK
    <3>2. QED BY <1>1, <1>2, <1>3, <3>1, CapturesKept
  <2>3. QED BY <2>1, <2>2
<1>8. DOMAIN file' = Files /\ \A u \in Unit : file'[<<"cached", u>>] = file[<<"cached", u>>]
  <2>1. CASE Generate(p) \/ Tidy(p)
    <3>1. aymc[p].cmd.out \in Outputs
      BY <1>1, <2>1, ReadyOK DEF Generate, Tidy
    <3>2. \E v : file' = [file EXCEPT ![Here(p, "asm")] = v] \/ file' = file
      BY <2>1 DEF Generate, Tidy
    <3>3. \A u \in Unit : <<"cached", u>> \in Files
      BY DEF Files
    <3>4. QED BY <1>1, <3>1, <3>2, <3>3, HereFile DEF CacheOK, Kinds
  <2>2. CASE ~(Generate(p) \/ Tidy(p))
    <3>1. file' = file
      BY <2>2 DEF Alone, NotGenerated, FindObject, CacheHit, NotSpawned, Reap, Finish
    <3>2. QED BY <1>1, <3>1 DEF CacheOK
  <2>3. QED BY <2>1, <2>2
<1>9. CacheOK'
  BY <1>1, <1>2, <1>8, CacheKept
<1>10. QED BY <1>4, <1>6, <1>7, <1>9 DEF BaseInv
-----------------------------------------------------------------------------
(* A tool that p does not wait for is about what it was about.             *)
LEMMA ToolKept ==
  ASSUME ProcsOK, ToolsOK, NEW p \in Procs, NEW rec, Moves(p, rec), NEW w \in tools,
         rec = aymc[p] \/ w.orphan \/ w.parent # p,
         rec.run = 0 \/ (rec.run = aymc[p].run /\ (aymc[p].phase = "killed" => rec.phase = "killed"))
  PROVE  IF w.orphan THEN OrphanOK(w)' ELSE ChildOK(w)'
<1>1. CASE w.orphan
  <2>1. OrphanOK(w) /\ w.run # 0
    BY <1>1 DEF ToolsOK, ToolOK, ProcsOK
  <2>2. QED BY <1>1, <2>1 DEF OrphanOK, Moves, Like
<1>2. CASE ~w.orphan
  <2>1. ChildOK(w) /\ w.parent \in Procs
    BY <1>2 DEF ToolsOK, ToolOK
  <2>2. Like(aymc'[w.parent], aymc[w.parent])
    BY <1>2, <2>1 DEF Moves
  <2>3. ChildOK(w)'
    BY <2>1, <2>2 DEF ChildOK, Like, Target, Here
  <2>4. QED BY <1>2, <2>3
<1>3. QED BY <1>1, <1>2

LEMMA TargetFile ==
  ASSUME NEW p \in Procs, aymc[p].cmd.out \in Outputs, NEW stage \in {"assemble", "link"} \cup Unit
  PROVE  Target(p, stage) \in Files
<1>1. CASE stage = "assemble"
  BY <1>1, HereFile DEF Target, Kinds
<1>2. CASE stage = "link"
  BY <1>2, HereFile DEF Target, Kinds
<1>3. CASE stage \in Unit
  <2>1. stage # "assemble" /\ stage # "link"
    BY <1>3, UnitsApart
  <2>2. Target(p, stage) = <<"cached", stage>>
    BY <2>1 DEF Target
  <2>3. QED BY <1>3, <2>2 DEF Files
<1>4. QED BY <1>1, <1>2, <1>3

LEMMA SpawnBase ==
  ASSUME BaseInv, NEW p \in Procs, Spawn(p)
  PROVE  BaseInv'
<1> DEFINE r == aymc[p]
           rec == [r EXCEPT !.phase = "wait"]
<1> PICK w0 : w0 = [run |-> r.run, key |-> Target(p, Head(r.plan)), parent |-> p, orphan |-> FALSE,
                    out |-> r.cmd.out, opened |-> FALSE, holds |-> {}]
  OBVIOUS
<1>1. ProcsOK /\ ToolsOK /\ CapturesOK /\ CacheOK
  BY DEF BaseInv
<1>2. PICK stage : At(p, stage) /\ stage \in {"assemble", "link"} \cup Unit
  BY <1>1, RunsToolReady DEF Spawn
<1>3. /\ r.busy /\ r.phase = "ready" /\ r.plan # << >> /\ r.exit = "none"
      /\ r.cmd.out \in Outputs /\ Head(r.plan) = stage /\ RunOK(r, runs) /\ r.run \in 1..runs
  BY <1>1, <1>2, ReadyOK DEF ProcsOK, RunOK
<1>4. /\ tools' = tools \cup {w0} /\ captures' = captures \cup {r.run} /\ Set(p, rec)
      /\ UNCHANGED <<file, older>> /\ Others
  BY DEF Spawn
<1>5. /\ RunOK(rec, runs) /\ rec.busy /\ rec.run = r.run /\ rec.cmd = r.cmd /\ rec.plan = r.plan
      /\ rec.phase = "wait" /\ rec.exit = "none" /\ DOMAIN rec = Fields /\ rec.quiet \in BOOLEAN
  BY <1>3 DEF RunOK, Fields
<1>6. Target(p, Head(r.plan)) \in Files
  BY <1>2, <1>3, TargetFile
<1>7. ToolOK(w0, runs) /\ w0.orphan = FALSE /\ w0.parent = p /\ w0.opened = FALSE /\ w0.run = r.run
      /\ w0.key = Target(p, Head(r.plan)) /\ w0.out = r.cmd.out
  BY <1>3, <1>6 DEF ToolOK
<1>8. \A w \in tools : w.orphan \/ w.parent # p
  BY <1>1, <1>3, NoChild
<1> HIDE DEF rec, r
<1>9. Moves(p, rec)
  BY <1>1, <1>4, <1>5, SetMoves
<1>10. runs' = runs /\ killed' = killed /\ runtime' = runtime /\ sound' = sound
  BY <1>4 DEF Others
<1>11. ProcsOK'
  BY <1>1, <1>3, <1>5, <1>9, <1>10, ProcsMove DEF r
<1>12. ToolsOK'
  <2>1. ASSUME NEW w \in tools PROVE ToolOK(w, runs) /\ IF w.orphan THEN OrphanOK(w)' ELSE ChildOK(w)'
    <3>1. rec.run = aymc[p].run /\ aymc[p].phase # "killed"
      BY <1>3, <1>5 DEF r
    <3>2. w.orphan \/ w.parent # p
      BY <1>8
    <3>3. ToolOK(w, runs)
      BY <1>1 DEF ToolsOK
    <3>4. QED BY <1>1, <1>9, <3>1, <3>2, <3>3, ToolKept
  <2>2. ChildOK(w0)'
    <3>1. Like(aymc'[p], rec)
      BY <1>9 DEF Moves
    <3>2. QED BY <1>5, <1>7, <3>1 DEF ChildOK, Like, Target, Here, r
  <2>3. ASSUME NEW v \in tools', NEW w \in tools', ~v.orphan, ~w.orphan, v.parent = w.parent
        PROVE  v = w
    BY <1>1, <1>4, <1>7, <1>8, <2>3 DEF ToolsOK
  <2>4. QED BY <1>4, <1>7, <1>10, <2>1, <2>2, <2>3 DEF ToolsOK
<1>13. CapturesOK'
  <2>1. ASSUME NEW c \in captures' \ killed'
        PROVE  \E q \in Procs : aymc'[q].run = c /\ aymc'[q].phase # "ready"
    <3>1. Like(aymc'[p], rec) /\ \A q \in Procs \ {p} : Like(aymc'[q], aymc[q])
      BY <1>9 DEF Moves
    <3>2. CASE c = r.run
      BY <1>5, <3>1, <3>2 DEF Like
    <3>3. CASE c # r.run
      <4>1. PICK q \in Procs : aymc[q].run = c /\ aymc[q].phase # "ready"
        BY <1>1, <1>4, <1>10, <2>1, <3>3 DEF CapturesOK
      <4>2. q # p
        BY <1>3, <4>1 DEF r
      <4>3. QED BY <3>1, <4>1, <4>2 DEF Like
    <3>4. QED BY <3>2, <3>3
  <2>2. QED BY <2>1 DEF CapturesOK
<1>14. CacheOK'
  <2>1. \A w \in tools' : w.opened => \E v \in tools : v.opened /\ v.key = w.key /\ v.holds = w.holds
    BY <1>4, <1>7
  <2>2. file' = file /\ older' = older
    BY <1>4
  <2>3. DOMAIN file' = Files
    BY <1>1, <2>2 DEF CacheOK
  <2>4. QED BY <1>1, <1>10, <2>1, <2>2, <2>3, CacheKept
<1>15. QED BY <1>11, <1>12, <1>13, <1>14 DEF BaseInv

LEMMA ElapseBase ==
  ASSUME BaseInv, NEW p \in Procs, Elapse(p)
  PROVE  BaseInv' /\ Moves(p, aymc[p])
<1>1. ProcsOK /\ ToolsOK /\ CapturesOK /\ CacheOK /\ RunOK(aymc[p], runs)
  BY DEF BaseInv, ProcsOK
<1>2. /\ UNCHANGED <<file, older, tools, captures>> /\ Others /\ Set(p, [aymc[p] EXCEPT !.late = TRUE])
      /\ aymc[p].phase = "wait"
  BY DEF Elapse, NoTool
<1>3. Moves(p, aymc[p])
  <2> DEFINE rec == [aymc[p] EXCEPT !.late = TRUE]
  <2>1. Like(rec, aymc[p]) /\ DOMAIN rec = Fields /\ rec.quiet \in BOOLEAN
    BY <1>1 DEF Like, RunOK, Fields
  <2> HIDE DEF rec
  <2>2. Set(p, rec)
    BY <1>2 DEF rec
  <2>3. Moves(p, rec)
    BY <1>1, <2>1, <2>2, SetMoves
  <2>4. QED BY <2>1, <2>3 DEF Moves, Like
<1>4. ProcsOK'
  BY <1>1, <1>2, <1>3, ProcsMove DEF Others
<1>5. ToolsOK'
  BY <1>1, <1>2, <1>3, ToolsKept DEF Others
<1>6. CapturesOK'
  BY <1>1, <1>2, <1>3, CapturesKept DEF Others
<1>7. CacheOK'
  <2>1. DOMAIN file' = Files
    BY <1>1, <1>2 DEF CacheOK
  <2>2. QED BY <1>1, <1>2, <2>1, CacheKept DEF Others
<1>8. QED BY <1>3, <1>4, <1>5, <1>6, <1>7 DEF BaseInv

(* The tool of a process that is killed, or that kills it, is gone or left *)
(* to itself.                                                              *)
Loosed(p) ==
  /\ \A w \in tools' :
       \/ w \in tools /\ (w.orphan \/ w.parent # p)
       \/ \E v \in Child(p) : w = [v EXCEPT !.orphan = TRUE]

LEMMA LoosedOK ==
  ASSUME NEW p \in Procs, NEW W, W \subseteq Child(p),
         tools' = tools \ Child(p) \/ tools' = (tools \ Child(p)) \cup Orphaned(W)
  PROVE  Loosed(p)
BY DEF Loosed, Child, Orphaned

LEMMA LoosedTools ==
  ASSUME ProcsOK, ToolsOK, NEW p \in Procs, NEW rec, Moves(p, rec), Loosed(p), runs' = runs,
         rec.run = 0 \/ (rec.run = aymc[p].run /\ rec.phase = "killed")
  PROVE  /\ ToolsOK'
         /\ \A w \in tools' : w.opened => \E v \in tools : v.opened /\ v.key = w.key /\ v.holds = w.holds
<1>1. ASSUME NEW w \in tools', NEW v \in Child(p), w = [v EXCEPT !.orphan = TRUE]
      PROVE  /\ v \in tools /\ w.orphan /\ w.opened = v.opened /\ w.key = v.key /\ w.holds = v.holds
             /\ ToolOK(w, runs) /\ OrphanOK(w)'
  <2>1. v \in tools /\ ~v.orphan /\ v.parent = p /\ ToolOK(v, runs) /\ ChildOK(v)
    BY <1>1 DEF Child, ToolsOK
  <2>2. /\ w.orphan /\ w.opened = v.opened /\ w.key = v.key /\ w.holds = v.holds /\ w.run = v.run
        /\ ToolOK(w, runs)
    BY <1>1, <2>1 DEF ToolOK
  <2>3. aymc[p].run = w.run /\ aymc[p].phase = "wait" /\ w.run # 0
    BY <2>1, <2>2 DEF ChildOK, ToolOK, ProcsOK
  <2>4. ASSUME NEW q \in Procs, aymc'[q].run = w.run PROVE aymc'[q].phase = "killed"
    <3>1. CASE q = p
      BY <2>3, <2>4, <3>1 DEF Moves, Like
    <3>2. CASE q # p
      <4>1. aymc[q].run = w.run
        BY <2>4, <3>2 DEF Moves, Like
      <4>2. aymc[q].busy /\ aymc[p].busy
        BY <2>3, <4>1 DEF ProcsOK, RunOK
      <4>3. QED BY <2>3, <3>2, <4>1, <4>2 DEF ProcsOK
    <3>3. QED BY <3>1, <3>2
  <2>5. OrphanOK(w)'
    BY <2>4 DEF OrphanOK
  <2>6. QED BY <2>1, <2>2, <2>5
<1>2. ASSUME NEW w \in tools', w \in tools, w.orphan \/ w.parent # p
      PROVE  ToolOK(w, runs) /\ IF w.orphan THEN OrphanOK(w)' ELSE ChildOK(w)'
  <2>1. ToolOK(w, runs)
    BY <1>2 DEF ToolsOK
  <2>2. rec.run = 0 \/ (rec.run = aymc[p].run /\ (aymc[p].phase = "killed" => rec.phase = "killed"))
    OBVIOUS
  <2>3. QED BY <1>2, <2>1, <2>2, ToolKept
<1>3. \A w \in tools' : ToolOK(w, runs) /\ IF w.orphan THEN OrphanOK(w)' ELSE ChildOK(w)'
  BY <1>1, <1>2 DEF Loosed
<1>4. ASSUME NEW v \in tools', NEW w \in tools', ~v.orphan, ~w.orphan, v.parent = w.parent
      PROVE  v = w
  <2>1. v \in tools /\ w \in tools
    BY <1>1, <1>4 DEF Loosed
  <2>2. QED BY <1>4, <2>1 DEF ToolsOK
<1>5. ToolsOK'
  BY <1>3, <1>4 DEF ToolsOK
<1>6. \A w \in tools' : w.opened => \E v \in tools : v.opened /\ v.key = w.key /\ v.holds = w.holds
  BY <1>1 DEF Loosed
<1>7. QED BY <1>5, <1>6

LEMMA KillBase ==
  ASSUME BaseInv, NEW p \in Procs, Kill(p)
  PROVE  BaseInv' /\ aymc'[p].phase = "killed" /\ Loosed(p)
         /\ \E rec : Moves(p, rec)
<1> DEFINE rec == [aymc[p] EXCEPT !.phase = "killed", !.exit = IF @ = "none" THEN "killed" ELSE @]
<1>1. ProcsOK /\ ToolsOK /\ CapturesOK /\ CacheOK /\ RunOK(aymc[p], runs)
  BY DEF BaseInv, ProcsOK
<1>2. UNCHANGED <<file, older, captures>> /\ Others /\ Set(p, rec) /\ aymc[p].phase = "wait"
  BY DEF Kill
<1>3. /\ RunOK(rec, runs) /\ rec.busy = aymc[p].busy /\ rec.run = aymc[p].run /\ rec.phase = "killed"
      /\ DOMAIN rec = Fields /\ rec.quiet \in BOOLEAN /\ rec.phase # "ready" /\ aymc[p].busy
  BY <1>1, <1>2 DEF RunOK, Fields
<1> HIDE DEF rec
<1>4. Moves(p, rec)
  BY <1>1, <1>2, <1>3, SetMoves
<1>5. ProcsOK'
  BY <1>1, <1>2, <1>3, <1>4, ProcsMove DEF Others
<1>6. Loosed(p)
  <2>1. {w \in Child(p) : w.key[1] # "obj"} \subseteq Child(p)
    OBVIOUS
  <2>2. QED BY <2>1, LoosedOK DEF Kill
<1>7. /\ ToolsOK'
      /\ \A w \in tools' : w.opened => \E v \in tools : v.opened /\ v.key = w.key /\ v.holds = w.holds
  BY <1>1, <1>2, <1>3, <1>4, <1>6, LoosedTools DEF Others
<1>8. CapturesOK'
  BY <1>1, <1>2, <1>3, <1>4, CapturesKept DEF Others
<1>9. CacheOK'
  <2>1. DOMAIN file' = Files
    BY <1>1, <1>2 DEF CacheOK
  <2>2. QED BY <1>1, <1>2, <1>7, <2>1, CacheKept DEF Others
<1>10. QED BY <1>3, <1>4, <1>5, <1>6, <1>7, <1>8, <1>9 DEF BaseInv, Moves, Like

LEMMA CrashBase ==
  ASSUME BaseInv, NEW p \in Procs, Crash(p)
  PROVE  BaseInv' /\ Moves(p, Idle) /\ Loosed(p)
<1>1. ProcsOK /\ ToolsOK /\ CapturesOK /\ CacheOK
  BY DEF BaseInv
<1>2. /\ UNCHANGED <<file, older, captures, runtime, sound, runs, edits>>
      /\ Set(p, Idle) /\ killed' = killed \cup {aymc[p].run}
  BY DEF Crash
<1>3. Moves(p, Idle)
  BY <1>1, <1>2, SetMoves, IdleOK DEF RunOK
<1>4. ProcsOK'
  BY <1>1, <1>2, <1>3, ProcsMove, IdleOK
<1>5. Loosed(p)
  BY LoosedOK DEF Crash
<1>6. /\ ToolsOK'
      /\ \A w \in tools' : w.opened => \E v \in tools : v.opened /\ v.key = w.key /\ v.holds = w.holds
  BY <1>1, <1>2, <1>3, <1>5, LoosedTools, IdleOK
<1>7. CapturesOK'
  <2>1. aymc[p].run \notin captures' \ killed' /\ killed \subseteq killed'
    BY <1>2
  <2>2. QED BY <1>1, <1>2, <1>3, <2>1, CapturesKept
<1>8. CacheOK'
  <2>1. DOMAIN file' = Files
    BY <1>1, <1>2 DEF CacheOK
  <2>2. QED BY <1>1, <1>2, <1>6, <2>1, CacheKept
<1>9. QED BY <1>3, <1>4, <1>5, <1>6, <1>7, <1>8 DEF BaseInv
-----------------------------------------------------------------------------
LEMMA StartBase ==
  ASSUME BaseInv, NEW p \in Procs, NEW c \in Commands[p], Start(p, c)
  PROVE  /\ BaseInv'
         /\ \A q \in Procs \ {p} : aymc'[q] = aymc[q]
         /\ c.mode \in Modes /\ aymc'[p].cmd = c /\ aymc'[p].plan = Plan(c.mode) /\ aymc'[p].exit = "none"
         /\ aymc'[p].phase = "ready"
<1> DEFINE rec == [Idle EXCEPT !.busy = TRUE, !.run = runs', !.cmd = c, !.plan = Plan(c.mode), !.quiet = TRUE]
<1>1. ProcsOK /\ ToolsOK /\ CapturesOK /\ CacheOK /\ RunOK(aymc[p], runs) /\ runs \in Nat
  BY DEF BaseInv, ProcsOK
<1>2. /\ UNCHANGED <<file, runtime, older, tools, captures, killed, sound, edits>>
      /\ Set(p, rec) /\ ~aymc[p].busy /\ runs' = runs + 1
  BY DEF Start
<1>3. c \in Command /\ c.mode \in Modes
  BY CommandsAssumption DEF Command
<1>4. /\ rec.busy /\ rec.run = runs + 1 /\ rec.phase = "ready" /\ rec.cmd = c
      /\ rec.plan = Plan(c.mode) /\ rec.exit = "none" /\ DOMAIN rec = Fields /\ rec.quiet = TRUE
  BY <1>2 DEF Idle, Fields
<1> HIDE DEF rec
<1>5. RunOK(rec, runs + 1)
  <2>1. PlanOK(rec.plan, rec.cmd.mode)
    BY <1>3, <1>4, PlanStart
  <2>2. runs + 1 \in 1..(runs + 1)
    BY <1>1
  <2>3. QED BY <1>3, <1>4, <2>1, <2>2 DEF RunOK
<1>6. \A q \in Procs : aymc'[q] = IF q = p THEN rec ELSE aymc[q]
  BY <1>1, <1>2, <1>4, SetMoves
<1>7. aymc[p].run = 0 /\ aymc[p].phase = "ready"
  BY <1>1, <1>2 DEF RunOK
<1>8. ProcsOK'
  <2>1. ASSUME NEW q \in Procs, NEW r, RunOK(r, runs) PROVE RunOK(r, runs + 1)
    BY <1>1, <2>1 DEF RunOK
  <2>2. ASSUME NEW q \in Procs PROVE RunOK(aymc'[q], runs + 1)
    <3>1. RunOK(aymc[q], runs)
      BY <1>1 DEF ProcsOK
    <3>2. QED BY <1>5, <1>6, <2>1, <3>1
  <2>3. ASSUME NEW q \in Procs, aymc[q].busy PROVE aymc[q].run # runs + 1
    BY <1>1, <2>3 DEF ProcsOK, RunOK
  <2>4. DOMAIN aymc' = Procs
    BY <1>1, <1>2 DEF Set, ProcsOK
  <2>5. ASSUME NEW q \in Procs, NEW s \in Procs, aymc'[q].busy, aymc'[s].busy, aymc'[q].run = aymc'[s].run
        PROVE  q = s
    BY <1>1, <1>4, <1>6, <2>3, <2>5 DEF ProcsOK
  <2>6. QED BY <1>1, <1>2, <2>2, <2>4, <2>5 DEF ProcsOK
<1>9. ToolsOK'
  <2>1. ASSUME NEW w \in tools PROVE ToolOK(w, runs + 1) /\ IF w.orphan THEN OrphanOK(w)' ELSE ChildOK(w)'
    <3>1. ToolOK(w, runs) /\ IF w.orphan THEN OrphanOK(w) ELSE ChildOK(w)
      BY <1>1 DEF ToolsOK
    <3>2. ToolOK(w, runs + 1) /\ w.run # runs + 1
      BY <1>1, <3>1 DEF ToolOK
    <3>3. CASE w.orphan
      <4>1. OrphanOK(w)'
        BY <1>4, <1>6, <3>1, <3>2, <3>3 DEF OrphanOK
      <4>2. QED BY <3>2, <3>3, <4>1
    <3>4. CASE ~w.orphan
      <4>1. w.parent \in Procs /\ ChildOK(w)
        BY <3>1, <3>4 DEF ToolOK
      <4>2. w.parent # p
        BY <1>7, <4>1 DEF ChildOK
      <4>3. ChildOK(w)'
        BY <1>6, <4>1, <4>2 DEF ChildOK, Target, Here
      <4>4. QED BY <3>2, <3>4, <4>3
    <3>5. QED BY <3>3, <3>4
  <2>2. tools' = tools /\ runs' = runs + 1
    BY <1>2
  <2>3. \A v, w \in tools : ~v.orphan /\ ~w.orphan /\ v.parent = w.parent => v = w
    BY <1>1 DEF ToolsOK
  <2>4. QED BY <2>1, <2>2, <2>3 DEF ToolsOK
<1>10. CapturesOK'
  <2>1. ASSUME NEW r \in captures \ killed PROVE \E q \in Procs : aymc'[q].run = r /\ aymc'[q].phase # "ready"
    <3>1. PICK q \in Procs : aymc[q].run = r /\ aymc[q].phase # "ready"
      BY <1>1 DEF CapturesOK
    <3>2. QED BY <1>6, <1>7, <3>1
  <2>2. QED BY <1>2, <2>1 DEF CapturesOK
<1>11. CacheOK'
  <2>1. DOMAIN file' = Files
    BY <1>1, <1>2 DEF CacheOK
  <2>2. QED BY <1>1, <1>2, <2>1, CacheKept
<1>12. QED BY <1>3, <1>4, <1>6, <1>8, <1>9, <1>10, <1>11 DEF BaseInv

(* After an edit nobody is quiet.                                          *)
LEMMA ChangesBase ==
  ASSUME BaseInv, NEW u \in Unit, NEW stamped \in BOOLEAN, Changes(u, stamped)
  PROVE  BaseInv' /\ \A p \in Procs : ~aymc'[p].quiet
<1>1. ProcsOK /\ ToolsOK /\ CapturesOK /\ CacheOK
  BY DEF BaseInv
<1>2. /\ runtime' = [runtime EXCEPT ![u] = @ + 1]
      /\ older' = IF stamped THEN older \cup {u} ELSE older
      /\ sound' = (sound /\ stamped /\ ~\E w \in tools : w.key = <<"cached", u>> /\ w.opened)
      /\ aymc' = [p \in Procs |-> [aymc[p] EXCEPT !.quiet = FALSE]]
      /\ UNCHANGED <<file, tools, captures, killed, runs>>
  BY DEF Changes
<1>3. /\ DOMAIN aymc' = Procs
      /\ \A p \in Procs : Like(aymc'[p], aymc[p]) /\ ~aymc'[p].quiet
  BY <1>1, <1>2 DEF Like, ProcsOK, RunOK, Fields
<1>4. \A p \in Procs : Moves(p, aymc[p])
  BY <1>3 DEF Moves
<1>5. ProcsOK'
  <2>1. ASSUME NEW q \in Procs PROVE RunOK(aymc'[q], runs)
    <3>1. RunOK(aymc[q], runs) /\ Like(aymc'[q], aymc[q])
      BY <1>1, <1>3 DEF ProcsOK
    <3>2. QED BY <3>1 DEF Like, RunOK
  <2>2. \A q \in Procs : aymc'[q].busy = aymc[q].busy /\ aymc'[q].run = aymc[q].run
    BY <1>3 DEF Like
  <2>3. QED BY <1>1, <1>2, <1>3, <2>1, <2>2 DEF ProcsOK
<1>6. ToolsOK'
  <2>1. ASSUME NEW w \in tools PROVE ToolOK(w, runs) /\ IF w.orphan THEN OrphanOK(w)' ELSE ChildOK(w)'
    <3>1. ToolOK(w, runs) /\ w.parent \in Procs /\ Moves(w.parent, aymc[w.parent])
      BY <1>1, <1>4 DEF ToolsOK, ToolOK
    <3>2. aymc[w.parent].run = 0 \/ (aymc[w.parent].run = aymc[w.parent].run
            /\ (aymc[w.parent].phase = "killed" => aymc[w.parent].phase = "killed"))
      OBVIOUS
    <3>3. QED BY <1>1, <3>1, <3>2, ToolKept
  <2>2. QED BY <1>1, <1>2, <2>1 DEF ToolsOK
<1>7. CapturesOK'
  <2>1. \A q \in Procs : aymc'[q].phase = aymc[q].phase /\ aymc'[q].run = aymc[q].run
    BY <1>3 DEF Like
  <2>2. ASSUME NEW r \in captures \ killed PROVE \E q \in Procs : aymc'[q].run = r /\ aymc'[q].phase # "ready"
    <3>1. PICK q \in Procs : aymc[q].run = r /\ aymc[q].phase # "ready"
      BY <1>1 DEF CapturesOK
    <3>2. QED BY <2>1, <3>1
  <2>3. QED BY <1>2, <2>2 DEF CapturesOK
<1>8. CacheOK'
  <2>1. DOMAIN file' = Files /\ sound' \in BOOLEAN
    BY <1>1, <1>2 DEF CacheOK
  <2>2. ASSUME sound', NEW v \in Unit
        PROVE  LET k == <<"cached", v>> IN
                 /\ v \notin older' /\ file'[k].part = "whole" => file'[k].holds = {<<v, runtime'[v]>>}
                 /\ \A w \in tools' : w.opened /\ w.key = k => w.holds = {<<v, runtime'[v]>>}
    <3>1. sound /\ stamped /\ older' = older \cup {u} /\ \A w \in tools : w.key = <<"cached", u>> => ~w.opened
      BY <1>2, <2>2
    <3>2. v # u => runtime'[v] = runtime[v]
      BY <1>2
    <3>3. QED BY <1>1, <1>2, <3>1, <3>2 DEF CacheOK, Present
  <2>3. QED BY <2>1, <2>2 DEF CacheOK, Present
<1>9. QED BY <1>3, <1>5, <1>6, <1>7, <1>8 DEF BaseInv
-----------------------------------------------------------------------------
(* The tools. *)
LEMMA CachedKey ==
  ASSUME NEW k \in Files
  PROVE  /\ k[1] = "cached" => k[2] \in Unit /\ k = <<"cached", k[2]>>
         /\ k[1] # "cached" => \A u \in Unit : k # <<"cached", u>>
         /\ \A u \in Unit : <<"cached", u>>[1] = "cached" /\ <<"cached", u>>[2] = u
BY DEF Files, Kinds

LEMMA OpensBase ==
  ASSUME BaseInv, NEW w \in tools, Opens(w)
  PROVE  /\ BaseInv'
         /\ Moves(w.parent, aymc[w.parent])
         /\ \A q \in Procs : aymc'[q].quiet => ~Disturbed(q, w.run, w.key)
<1> DEFINE p == w.parent
<1> PICK w2 : w2 = [w EXCEPT !.opened = TRUE, !.holds = Made(w)]
  OBVIOUS
<1>1. ProcsOK /\ ToolsOK /\ CapturesOK /\ CacheOK /\ ToolOK(w, runs) /\ p \in Procs
  BY DEF BaseInv, ToolsOK, ToolOK
<1>2. /\ file' = [file EXCEPT ![w.key] = Torn(Opener(w))]
      /\ tools' = (tools \ {w}) \cup {w2}
      /\ Writing(w.run, w.key, aymc) /\ Stamped(w) /\ UNCHANGED captures /\ Others
  BY DEF Opens
<1>3. /\ ToolOK(w2, runs) /\ w2.opened /\ w2.holds = Made(w) /\ w2.key = w.key /\ w2.run = w.run
      /\ w2.parent = w.parent /\ w2.orphan = w.orphan /\ w2.out = w.out
  BY <1>1 DEF ToolOK
<1>4. runs' = runs /\ killed' = killed /\ runtime' = runtime /\ sound' = sound
  BY <1>2 DEF Others
<1>5. Moves(p, aymc[p]) /\ \A q \in Procs : aymc'[q].quiet => ~Disturbed(q, w.run, w.key)
  <2>1. DOMAIN aymc[p] = Fields /\ aymc[p].quiet \in BOOLEAN
    BY <1>1 DEF ProcsOK, RunOK
  <2>2. \A q \in Procs : aymc[q] = IF q = p THEN aymc[p] ELSE aymc[q]
    OBVIOUS
  <2>3. QED BY <1>1, <1>2, <2>1, <2>2, WritingMoves
<1> HIDE DEF p
<1>6. RunOK(aymc[p], runs)
  BY <1>1 DEF ProcsOK
<1>7. ProcsOK'
  BY <1>1, <1>4, <1>5, <1>6, ProcsMove
<1>8. ToolsOK'
  <2>1. ASSUME NEW v \in tools PROVE ToolOK(v, runs) /\ IF v.orphan THEN OrphanOK(v)' ELSE ChildOK(v)'
    <3>1. aymc[p].run = 0 \/ (aymc[p].run = aymc[p].run /\ (aymc[p].phase = "killed" => aymc[p].phase = "killed"))
      OBVIOUS
    <3>2. ToolOK(v, runs)
      BY <1>1 DEF ToolsOK
    <3>3. QED BY <1>1, <1>5, <3>1, <3>2, ToolKept
  <2>2. IF w2.orphan THEN OrphanOK(w2)' ELSE ChildOK(w2)'
    BY <1>3, <2>1 DEF OrphanOK, ChildOK
  <2>3. ASSUME NEW v \in tools', NEW x \in tools', ~v.orphan, ~x.orphan, v.parent = x.parent
        PROVE  v = x
    <3>1. \A y, z \in tools : ~y.orphan /\ ~z.orphan /\ y.parent = z.parent => y = z
      BY <1>1 DEF ToolsOK
    <3>2. (v \in tools /\ v # w) \/ v = w2
      BY <1>2
    <3>3. (x \in tools /\ x # w) \/ x = w2
      BY <1>2
    <3>4. \A y \in tools : ~y.orphan /\ y.parent = w2.parent /\ ~w2.orphan => y = w
      BY <1>3, <3>1
    <3>5. CASE v = w2
      BY <2>3, <3>3, <3>4, <3>5
    <3>6. CASE v \in tools /\ v # w
      BY <2>3, <3>1, <3>3, <3>4, <3>6
    <3>7. QED BY <3>2, <3>5, <3>6
  <2>4. QED BY <1>2, <1>3, <1>4, <2>1, <2>2, <2>3 DEF ToolsOK
<1>9. CapturesOK'
  BY <1>1, <1>2, <1>4, <1>5, CapturesKept
<1>10. CacheOK'
  <2>1. w.key \in Files
    BY <1>1 DEF ToolOK
  <2>2. DOMAIN file' = Files /\ sound' \in BOOLEAN
    BY <1>1, <1>2, <1>4 DEF CacheOK
  <2>3. ASSUME sound, NEW u \in Unit
        PROVE  LET k == <<"cached", u>> IN
                 /\ u \notin older' /\ file'[k].part = "whole" => file'[k].holds = {<<u, runtime'[u]>>}
                 /\ \A v \in tools' : v.opened /\ v.key = k => v.holds = {<<u, runtime'[u]>>}
    <3>1. CASE w.key = <<"cached", u>>
      <4>1. w.key[1] = "cached" /\ w.key[2] = u
        BY <2>1, <3>1, CachedKey
      <4>2. Made(w) = {<<u, runtime[u]>>}
        BY <4>1 DEF Made
      <4>3. file'[w.key].part = "torn"
        BY <1>1, <1>2, <2>1 DEF CacheOK, Torn
      <4>4. QED BY <1>1, <1>2, <1>3, <1>4, <2>3, <3>1, <4>2, <4>3 DEF CacheOK, Present
    <3>2. CASE w.key # <<"cached", u>>
      <4>1. file'[<<"cached", u>>] = file[<<"cached", u>>]
        BY <1>1, <1>2, <2>1, <3>2, CachedKey DEF CacheOK, Files
      <4>2. u \notin older' => u \notin older
        BY <1>2, <2>1, <3>2, CachedKey DEF Stamped
      <4>3. QED BY <1>1, <1>2, <1>3, <1>4, <2>3, <3>2, <4>1, <4>2 DEF CacheOK, Present
    <3>3. QED BY <3>1, <3>2
  <2>4. QED BY <1>4, <2>2, <2>3 DEF CacheOK, Present
<1>11. QED BY <1>5, <1>7, <1>8, <1>9, <1>10 DEF BaseInv, p

(* How a tool that ends changes the process that waits for it.             *)
Told(w, code) ==
  IF w.orphan THEN aymc[w.parent] ELSE [aymc[w.parent] EXCEPT !.exit = code]

LEMMA ExitsMoves ==
  ASSUME ProcsOK, NEW w, w.parent \in Procs, NEW code, Exits(w, code)
  PROVE  /\ Moves(w.parent, Told(w, code))
         /\ \A q \in Procs : aymc'[q].quiet => ~Disturbed(q, w.run, w.key)
<1> DEFINE p == w.parent
           procs == [q \in Procs |-> IF q = w.parent /\ ~w.orphan THEN [aymc[q] EXCEPT !.exit = code] ELSE aymc[q]]
<1>1. DOMAIN Told(w, code) = Fields /\ Told(w, code).quiet \in BOOLEAN
  BY DEF ProcsOK, RunOK, Told, Fields
<1>2. \A q \in Procs : procs[q] = IF q = p THEN Told(w, code) ELSE aymc[q]
  BY DEF Told
<1>3. Writing(w.run, w.key, procs)
  BY DEF Exits
<1> HIDE DEF procs
<1>4. QED BY <1>1, <1>2, <1>3, WritingMoves

LEMMA ExitsBase ==
  ASSUME BaseInv, NEW w \in tools, NEW code \in {"ok", "failed"}, Exits(w, code), DOMAIN file' = Files,
         \A u \in Unit : LET k == <<"cached", u>> IN
           \/ file'[k] = file[k] /\ (u \notin older' => u \notin older)
           \/ w.opened /\ w.key = k /\ file'[k].holds = w.holds
           \/ file'[k].part = "absent"
  PROVE  BaseInv'
<1> DEFINE p == w.parent
           rec == Told(w, code)
<1>1. ProcsOK /\ ToolsOK /\ CapturesOK /\ CacheOK /\ ToolOK(w, runs) /\ p \in Procs
  BY DEF BaseInv, ToolsOK, ToolOK
<1>2. /\ runs' = runs /\ killed' = killed /\ runtime' = runtime /\ sound' = sound
      /\ tools' = tools \ {w} /\ captures' = captures
  BY DEF Exits, Others
<1>3. Moves(p, rec)
  BY <1>1, ExitsMoves
<1>4. RunOK(aymc[p], runs) /\ (~w.orphan => ChildOK(w))
  BY <1>1 DEF ProcsOK, ToolsOK
<1>5. /\ RunOK(rec, runs) /\ rec.busy = aymc[p].busy /\ rec.run = aymc[p].run /\ rec.phase = aymc[p].phase
  <2>1. CASE w.orphan
    BY <1>4, <2>1 DEF Told
  <2>2. CASE ~w.orphan
    BY <1>4, <2>2 DEF Told, RunOK, Fields, ChildOK
  <2>3. QED BY <2>1, <2>2
<1>6. w.orphan => rec = aymc[p]
  BY DEF Told
<1> HIDE DEF p, rec
<1>7. ProcsOK'
  BY <1>1, <1>2, <1>3, <1>5, ProcsMove
<1>8. ToolsOK'
  <2>1. ASSUME NEW v \in tools' PROVE ToolOK(v, runs) /\ IF v.orphan THEN OrphanOK(v)' ELSE ChildOK(v)'
    <3>1. v \in tools /\ v # w /\ ToolOK(v, runs)
      BY <1>1, <1>2, <2>1 DEF ToolsOK
    <3>2. rec = aymc[p] \/ v.orphan \/ v.parent # p
      BY <1>1, <1>6, <3>1 DEF ToolsOK, p
    <3>3. rec.run = 0 \/ (rec.run = aymc[p].run /\ (aymc[p].phase = "killed" => rec.phase = "killed"))
      BY <1>5
    <3>4. QED BY <1>1, <1>3, <3>1, <3>2, <3>3, ToolKept
  <2>2. \A v, x \in tools' : ~v.orphan /\ ~x.orphan /\ v.parent = x.parent => v = x
    BY <1>1, <1>2 DEF ToolsOK
  <2>3. QED BY <1>2, <2>1, <2>2 DEF ToolsOK
<1>9. CapturesOK'
  BY <1>1, <1>2, <1>3, <1>5, CapturesKept
<1>10. CacheOK'
  <2>1. sound' \in BOOLEAN
    BY <1>1, <1>2 DEF CacheOK
  <2>2. ASSUME sound, NEW u \in Unit
        PROVE  LET k == <<"cached", u>> IN
                 /\ u \notin older' /\ file'[k].part = "whole" => file'[k].holds = {<<u, runtime'[u]>>}
                 /\ \A v \in tools' : v.opened /\ v.key = k => v.holds = {<<u, runtime'[u]>>}
    BY <1>1, <1>2, <2>2 DEF CacheOK, Present
  <2>3. QED BY <1>2, <2>1, <2>2 DEF CacheOK, Present
<1>11. QED BY <1>7, <1>8, <1>9, <1>10 DEF BaseInv

LEMMA EndsBase ==
  ASSUME BaseInv, NEW w \in tools, Fills(w) \/ Fails(w)
  PROVE  BaseInv'
<1>1. w.key \in Files /\ DOMAIN file = Files
  BY DEF BaseInv, ToolsOK, ToolOK, CacheOK
<1>2. \A u \in Unit : <<"cached", u>> \in Files
  BY DEF Files
<1>3. CASE Fills(w)
  <2>1. /\ w.opened /\ Exits(w, "ok")
        /\ \/ file' = [file EXCEPT ![w.key] = Whole(Opener(w), w.holds)] /\ Stamped(w)
           \/ file' = file /\ older' = older
    BY <1>3 DEF Fills
  <2>2. DOMAIN file' = Files
    BY <1>1, <2>1
  <2>3. ASSUME NEW u \in Unit
        PROVE  \/ file'[<<"cached", u>>] = file[<<"cached", u>>] /\ (u \notin older' => u \notin older)
               \/ w.opened /\ w.key = <<"cached", u>> /\ file'[<<"cached", u>>].holds = w.holds
    <3>1. CASE file' = file /\ older' = older
      BY <3>1
    <3>2. CASE file' = [file EXCEPT ![w.key] = Whole(Opener(w), w.holds)] /\ Stamped(w)
      <4>1. CASE w.key = <<"cached", u>>
        BY <1>1, <2>1, <3>2, <4>1 DEF Whole
      <4>2. CASE w.key # <<"cached", u>>
        <5>1. file'[<<"cached", u>>] = file[<<"cached", u>>]
          BY <1>1, <1>2, <3>2, <4>2
        <5>2. u \notin older' => u \notin older
          BY <1>1, <3>2, <4>2, CachedKey DEF Stamped
        <5>3. QED BY <5>1, <5>2
      <4>3. QED BY <4>1, <4>2
    <3>3. QED BY <2>1, <3>1, <3>2
  <2>4. QED BY <2>1, <2>2, <2>3, ExitsBase
<1>4. CASE Fails(w)
  <2>1. /\ Exits(w, "failed") /\ older' = older
        /\ file' = [file EXCEPT ![w.key] = Absent] \/ file' = file
    BY <1>4 DEF Fails
  <2>2. DOMAIN file' = Files
    BY <1>1, <2>1
  <2>3. ASSUME NEW u \in Unit
        PROVE  \/ file'[<<"cached", u>>] = file[<<"cached", u>>]
               \/ file'[<<"cached", u>>].part = "absent"
    <3>1. Absent.part = "absent" /\ <<"cached", u>> \in DOMAIN file
      BY <1>1, <1>2 DEF Absent
    <3>2. CASE file' = [file EXCEPT ![w.key] = Absent]
      BY <3>1, <3>2
    <3>3. CASE file' = file
      BY <3>3
    <3>4. QED BY <2>1, <3>2, <3>3
  <2>4. QED BY <2>1, <2>2, <2>3, ExitsBase
<1>5. QED BY <1>3, <1>4
-----------------------------------------------------------------------------
LEMMA InitBase == Init => BaseInv /\ StagesOK
<1> SUFFICES ASSUME Init PROVE BaseInv /\ StagesOK
  OBVIOUS
<1>1. PICK built \in BOOLEAN :
        file = [k \in Files |-> IF built /\ k[1] = "cached" THEN Whole(<<0, k>>, {<<k[2], 0>>}) ELSE Absent]
  BY DEF Init
<1>2. /\ runtime = [u \in Unit |-> 0] /\ older = {} /\ tools = {} /\ captures = {}
      /\ aymc = [p \in Procs |-> Idle] /\ sound = TRUE /\ runs = 0
  BY DEF Init
<1>3. ProcsOK /\ StagesOK
  BY <1>2, IdleOK DEF ProcsOK, StagesOK, Going
<1>4. ToolsOK /\ CapturesOK
  BY <1>2 DEF ToolsOK, CapturesOK
<1>5. ASSUME NEW u \in Unit, file[<<"cached", u>>].part = "whole"
      PROVE  file[<<"cached", u>>].holds = {<<u, runtime[u]>>}
  <2>1. <<"cached", u>> \in Files
    BY DEF Files
  <2>2. built
    BY <1>1, <1>5, <2>1 DEF Absent
  <2>3. QED BY <1>1, <1>2, <2>1, <2>2 DEF Whole
<1>6. CacheOK
  BY <1>1, <1>2, <1>5 DEF CacheOK, Present
<1>7. QED BY <1>3, <1>4, <1>6 DEF BaseInv
-----------------------------------------------------------------------------
(* What has been done stays done.                                          *)
Completed(p) == Range(Plan(aymc[p].cmd.mode)) \ Range(aymc[p].plan)

(* The world as far as the stages of p are about it.                       *)
Calm(p) ==
  /\ aymc'[p].run = aymc[p].run /\ aymc'[p].cmd = aymc[p].cmd
  /\ Range(aymc'[p].plan) \subseteq Range(aymc[p].plan)
  /\ older' \subseteq older /\ runtime' = runtime /\ (sound' => sound)
Same(p, kind) == file'[<<kind, aymc[p].cmd.out>>] = file[<<kind, aymc[p].cmd.out>>]

LEMMA LinkedKept ==
  ASSUME NEW p \in Procs, Calm(p), Same(p, "obj"), NEW holds, Linked(p, holds)
  PROVE  /\ file'[Here(p, "obj")'].part = "whole" /\ file'[Here(p, "obj")'].holds \subseteq holds
         /\ sound' => holds = file'[Here(p, "obj")'].holds \cup {<<u, runtime'[u]>> : u \in Unit}
BY DEF Linked, Here, Calm, Same

LEMMA FactKept ==
  ASSUME NEW p \in Procs, NEW s, Fact(p, s), Calm(p),
         s = "generate" => Same(p, "asm"), s \in {"assemble", "link"} => Same(p, "obj"),
         s = "link" => Same(p, "bin")
  PROVE  Fact(p, s)'
<1>1. s = "generate" /\ "assemble" \in Range(aymc'[p].plan)
        => Is(Here(p, "asm"), Program(aymc[p].run))'
  BY DEF Fact, Is, Here, Calm, Same, Program
<1>2. s = "assemble" => Is(Here(p, "obj"), Program(aymc[p].run))'
  BY DEF Fact, Is, Here, Calm, Same, Program
<1>3. s = "link" => (file[Here(p, "bin")].part = "whole" /\ Linked(p, file[Here(p, "bin")].holds))'
  <2>1. ASSUME s = "link"
        PROVE  /\ file'[Here(p, "bin")'] = file[Here(p, "bin")] /\ Linked(p, file[Here(p, "bin")].holds)
               /\ file[Here(p, "bin")].part = "whole" /\ Same(p, "obj")
    BY <2>1 DEF Fact, Here, Calm, Same
  <2>2. QED BY <2>1, LinkedKept DEF Linked
<1>4. s \in Unit => s \notin older'
  BY DEF Fact, Calm
<1>5. QED BY <1>1, <1>2, <1>3, <1>4 DEF Fact

(* The tools that p waits for have opened nothing since.                   *)
NoneOpens(p) == \A w \in tools' : ~w.orphan /\ w.parent = p /\ w.opened => w \in tools

LEMMA ProgressKept ==
  ASSUME ToolsOK, NEW p \in Procs, Progress(p), Calm(p), aymc'[p].plan = aymc[p].plan,
         aymc'[p].exit = aymc[p].exit, \A kind \in Kinds : Same(p, kind), NoneOpens(p)
  PROVE  Progress(p)'
<1>1. Same(p, "asm") /\ Same(p, "obj") /\ Same(p, "bin")
  BY DEF Kinds
<1>2. ASSUME NEW s \in Completed(p)' PROVE Fact(p, s)'
  <2>1. s \in Completed(p) /\ Fact(p, s)
    BY <1>2 DEF Completed, Calm, Progress
  <2>2. QED BY <1>1, <2>1, FactKept
<1>3. ASSUME aymc'[p].exit = "ok" PROVE Fact(p, Head(aymc[p].plan))'
  <2>1. PICK s : s = Head(aymc[p].plan)
    OBVIOUS
  <2>2. Fact(p, s)
    BY <1>3, <2>1 DEF Progress
  <2>3. Fact(p, s)'
    BY <1>1, <2>2, FactKept
  <2>4. QED BY <2>1, <2>3
<1>4. ASSUME NEW w \in tools', ~w.orphan, w.parent = p, w.opened
      PROVE  Partly(p, Head(aymc[p].plan), w)'
  <2>1. PICK s : s = Head(aymc[p].plan)
    OBVIOUS
  <2>2. w \in tools /\ Partly(p, s, w) /\ w.key = Target(p, s)
    BY <1>4, <2>1 DEF NoneOpens, Progress, ToolsOK, ChildOK
  <2>3. s \in {"assemble", "link"} => file'[w.key].by = Opener(w)
    <3>1. s = "assemble" => w.key = Here(p, "obj")
      BY <2>2 DEF Target
    <3>2. s = "link" => w.key = Here(p, "bin")
      BY <2>2 DEF Target
    <3>3. QED BY <1>1, <2>2, <3>1, <3>2 DEF Partly, Same, Here
  <2>4. s = "assemble" => w.holds = Program(aymc'[p].run)
    BY <2>2 DEF Partly, Calm
  <2>5. s = "link" => Linked(p, w.holds)'
    BY <1>1, <2>2, LinkedKept DEF Partly, Linked
  <2>6. s \in Unit => s \notin older'
    BY <2>2 DEF Partly, Calm
  <2>7. Partly(p, s, w)'
    BY <2>3, <2>4, <2>5, <2>6 DEF Partly, Opener
  <2>8. QED BY <2>1, <2>7
<1>5. QED BY <1>2, <1>3, <1>4 DEF Progress, Completed

(* A stage of p is done.                                                   *)
LEMMA Advance ==
  ASSUME ProcsOK, NEW p \in Procs, aymc[p].busy, aymc[p].plan # << >>, Moves(p, Done(p)),
         tools' = tools, \A w \in tools : w.orphan \/ w.parent # p,
         NEW s, s = Head(aymc[p].plan), Fact(p, s)', \A c \in Completed(p) : Fact(p, c)'
  PROVE  Progress(p)'
<1>1. /\ aymc'[p].cmd = aymc[p].cmd /\ aymc'[p].plan = Tail(aymc[p].plan) /\ aymc'[p].exit = "none"
  BY DoneOK DEF Moves, Like
<1>2. Range(aymc[p].plan) = {s} \cup Range(Tail(aymc[p].plan))
  BY PlanTail DEF ProcsOK, RunOK
<1>3. ASSUME NEW c \in Range(Plan(aymc'[p].cmd.mode)) \ Range(aymc'[p].plan) PROVE Fact(p, c)'
  <2>1. c = s \/ c \in Completed(p)
    BY <1>1, <1>2, <1>3 DEF Completed
  <2>2. QED BY <2>1
<1>4. QED BY <1>1, <1>3 DEF Progress

(* What the first stage of a plan says of the plan.                        *)
LEMMA HeadStage ==
  ASSUME ProcsOK, NEW p \in Procs, aymc[p].busy, aymc[p].plan # << >>
  PROVE  /\ Head(aymc[p].plan) \in Range(aymc[p].plan)
         /\ Range(Tail(aymc[p].plan)) \subseteq Range(aymc[p].plan)
         /\ Range(aymc[p].plan) \subseteq Range(Plan(aymc[p].cmd.mode))
         /\ "link" \notin Completed(p)
         /\ Head(aymc[p].plan) = "generate" => "generate" \notin Completed(p)
         /\ Head(aymc[p].plan) = "tidy" => Tail(aymc[p].plan) = << >>
         /\ Head(aymc[p].plan) = "assemble" =>
              "generate" \in Completed(p) /\ "assemble" \notin Completed(p)
         /\ Head(aymc[p].plan) = "link" => Unit \subseteq Completed(p)
<1> DEFINE plan == aymc[p].plan
           mode == aymc[p].cmd.mode
<1>1. PlanOK(plan, mode) /\ mode \in Modes /\ plan # << >>
  BY DEF ProcsOK, RunOK, Command
<1> HIDE DEF plan, mode
<1>2. /\ Range(plan) = {Head(plan)} \cup Range(Tail(plan)) /\ Range(plan) \subseteq Range(Plan(mode))
      /\ "generate" \notin Range(Tail(plan)) /\ (Head(plan) \in {"link", "tidy"} => Tail(plan) = << >>)
  BY <1>1, PlanTail
<1>3. /\ "assemble" \in Range(Plan(mode)) <=> mode # "link"
      /\ mode # "link" => "generate" \in Range(Plan(mode))
      /\ mode # "compile" => "link" \in Range(Plan(mode)) /\ Unit \subseteq Range(Plan(mode))
      /\ mode = "compile" => "link" \notin Range(Plan(mode))
  BY <1>1, PlanStart
<1>4. Range(<< >>) = {}
  BY DEF Range
<1>5. mode # "compile" => "link" \in Range(plan)
  <2>1. plan \in Seq(Range(Plan(mode))) /\ (mode # "compile" => plan[Len(plan)] = "link")
    BY <1>1 DEF PlanOK
  <2>2. Len(plan) \in 1..Len(plan) /\ Range(plan) = {plan[i] : i \in 1..Len(plan)}
    BY <1>1, <2>1, PlanRange
  <2>3. QED BY <2>1, <2>2
<1>6. Completed(p) = Range(Plan(mode)) \ Range(plan)
  BY DEF Completed, plan, mode
<1>7. "link" \notin Completed(p)
  BY <1>3, <1>5, <1>6
<1>8. Head(plan) = "assemble" => "generate" \in Completed(p) /\ "assemble" \notin Completed(p)
  BY <1>2, <1>3, <1>6
<1>9. Head(plan) = "link" => Unit \subseteq Completed(p)
  <2>1. SUFFICES ASSUME Head(plan) = "link", NEW u \in Unit PROVE u \in Completed(p)
    OBVIOUS
  <2>2. Range(plan) = {"link"} /\ mode # "compile" /\ u # "link"
    BY <1>2, <1>3, <1>4, <2>1, UnitsApart
  <2>3. QED BY <1>3, <1>6, <2>2
<1>10. Head(plan) = "generate" => "generate" \notin Completed(p)
  BY <1>2, <1>6
<1>11. QED BY <1>2, <1>6, <1>7, <1>8, <1>9, <1>10 DEF plan, mode
-----------------------------------------------------------------------------
(* A step of another process, or one of this that counts no stage.         *)
LEMMA OthersProgress ==
  ASSUME BaseInv, StagesOK, NEW p \in Procs, NEW q \in Procs, NEW rec, Moves(q, rec),
         q # p \/ rec = aymc[p], Going(p)',
         older' \subseteq older, runtime' = runtime, sound' => sound,
         \A kind \in Kinds : Same(p, kind), NoneOpens(p)
  PROVE  Progress(p)'
<1>1. Like(aymc'[p], aymc[p]) /\ ToolsOK
  BY DEF Moves, BaseInv
<1>2. Going(p) /\ Calm(p) /\ aymc'[p].plan = aymc[p].plan /\ aymc'[p].exit = aymc[p].exit
  BY <1>1 DEF Like, Going, Calm
<1>3. Progress(p)
  BY <1>2 DEF StagesOK
<1>4. QED BY <1>1, <1>2, <1>3, ProgressKept

(* A file that is written is another output's, or p is no longer quiet.    *)
LEMMA Undisturbed ==
  ASSUME ProcsOK, CacheOK, NEW p \in Procs, NEW run, NEW k, aymc[p].busy, aymc[p].run # run,
         ~Disturbed(p, run, k), \E v : file' = [file EXCEPT ![k] = v] \/ file' = file, NEW kind \in Kinds
  PROVE  Same(p, kind)
<1>1. k \notin Kinds \X {aymc[p].cmd.out}
  BY DEF Disturbed
<1>2. <<kind, aymc[p].cmd.out>> # k
  BY <1>1
<1>3. <<kind, aymc[p].cmd.out>> \in DOMAIN file
  BY DEF CacheOK, ProcsOK, RunOK, Command, Files
<1>4. QED BY <1>2, <1>3 DEF Same

(* The steps of q that start or stop no tool, for p.                       *)
LEMMA AloneOthers ==
  ASSUME BaseInv, StagesOK, NEW p \in Procs, NEW q \in Procs, q # p, Alone(q), Going(p)'
  PROVE  Progress(p)'
<1>1. ProcsOK /\ ToolsOK /\ CacheOK
  BY DEF BaseInv
<1>2. /\ aymc[q].busy /\ tools' = tools /\ runtime' = runtime /\ sound' = sound /\ older' = older
  BY <1>1, AloneMoves
<1>3. PICK rec : Moves(q, rec)
  BY <1>1, AloneMoves
<1>4. aymc[p].busy /\ aymc'[p].quiet /\ aymc[p].run # aymc[q].run
  BY <1>1, <1>2, <1>3 DEF Moves, Like, Going, ProcsOK
<1>5. ASSUME NEW kind \in Kinds PROVE Same(p, kind)
  <2>1. CASE Generate(q) \/ Tidy(q)
    <3> DEFINE k == Here(q, "asm")
    <3>1. aymc[q].plan # << >>
      BY <2>1 DEF Generate, Tidy, At
    <3>2. DOMAIN Done(q) = Fields /\ Done(q).quiet \in BOOLEAN
      BY <1>1, <1>2, <3>1, DoneOK DEF RunOK
    <3>3. \A r \in Procs : [aymc EXCEPT ![q] = Done(q)][r] = IF r = q THEN Done(q) ELSE aymc[r]
      BY <1>1 DEF ProcsOK
    <3>4. Writing(aymc[q].run, k, [aymc EXCEPT ![q] = Done(q)])
      BY <2>1 DEF Generate, Tidy
    <3>5. \E v : file' = [file EXCEPT ![k] = v] \/ file' = file
      BY <2>1 DEF Generate, Tidy
    <3> HIDE DEF k
    <3>6. ~Disturbed(p, aymc[q].run, k)
      BY <1>1, <1>4, <3>2, <3>3, <3>4, WritingMoves
    <3>7. QED BY <1>1, <1>4, <3>5, <3>6, Undisturbed
  <2>2. CASE ~(Generate(q) \/ Tidy(q))
    <3>1. file' = file
      BY <2>2 DEF Alone, NotGenerated, FindObject, CacheHit, NotSpawned, Reap, Finish
    <3>2. QED BY <3>1 DEF Same
  <2>3. QED BY <2>1, <2>2
<1>6. NoneOpens(p)
  BY <1>2 DEF NoneOpens
<1>7. QED BY <1>2, <1>3, <1>5, <1>6, OthersProgress

(* The same steps for the process that makes them.                         *)
LEMMA AloneOwn ==
  ASSUME BaseInv, StagesOK, NEW p \in Procs, Alone(p), Going(p)'
  PROVE  Progress(p)'
<1>1. ProcsOK /\ ToolsOK /\ CacheOK
  BY DEF BaseInv
<1>2. /\ aymc[p].busy /\ (aymc[p].phase = "ready" \/ aymc[p].exit # "none")
      /\ tools' = tools /\ runtime' = runtime /\ sound' = sound /\ older' = older
  BY <1>1, AloneMoves
<1>3. Moves(p, Done(p)) /\ aymc[p].plan # << >> /\ aymc[p].phase # "killed"
  <2>1. ~Moves(p, Idle)
    BY IdleOK DEF Moves, Like, Going
  <2>2. QED BY <1>1, <2>1, AloneMoves
<1>4. /\ aymc'[p].run = aymc[p].run /\ aymc'[p].cmd = aymc[p].cmd
      /\ aymc'[p].plan = Tail(aymc[p].plan) /\ aymc[p].quiet
  BY <1>1, <1>2, <1>3, DoneOK DEF Moves, Like, Going
<1>5. Going(p) /\ Progress(p)
  BY <1>2, <1>3, <1>4 DEF Going, StagesOK
<1>6. PICK s : s = Head(aymc[p].plan)
  OBVIOUS
<1>7. /\ Range(Tail(aymc[p].plan)) \subseteq Range(aymc[p].plan)
      /\ "link" \notin Completed(p) /\ (s = "generate" => "generate" \notin Completed(p))
      /\ s = "tidy" => Tail(aymc[p].plan) = << >>
  BY <1>1, <1>2, <1>3, <1>6, HeadStage
<1>8. Calm(p)
  BY <1>2, <1>4, <1>7 DEF Calm
<1>9. \A w \in tools : w.orphan \/ w.parent # p
  <2>1. aymc[p].phase # "wait" \/ aymc[p].exit # "none"
    BY <1>2
  <2>2. QED BY <1>1, <2>1, NoChild
<1>10. \A c \in Completed(p) : Fact(p, c)
  BY <1>5 DEF Progress, Completed
<1>11. Is(Here(p, "asm"), Program(aymc[p].run))' => Fact(p, "generate")'
  BY UnitsApart DEF Fact
<1>12. CASE Generate(p)
  <2>1. s = "generate"
    BY <1>6, <1>12 DEF Generate, At
  <2>2. Here(p, "asm") \in DOMAIN file
    BY <1>1, <1>12, ReadyOK, HereFile DEF Generate, Kinds, CacheOK
  <2>3. file' = [file EXCEPT ![Here(p, "asm")] = Whole(<<aymc[p].run, Here(p, "asm")>>, Program(aymc[p].run))]
    BY <1>12 DEF Generate
  <2>4. Is(Here(p, "asm"), Program(aymc[p].run))'
    BY <1>4, <2>2, <2>3 DEF Is, Here, Whole, Program
  <2>5. Same(p, "obj") /\ Same(p, "bin")
    BY <2>3 DEF Same, Here
  <2>6. \A c \in Completed(p) : Fact(p, c)'
    BY <1>7, <1>8, <1>10, <2>1, <2>5, FactKept
  <2>7. QED BY <1>1, <1>2, <1>3, <1>6, <1>9, <1>11, <2>1, <2>4, <2>6, Advance
<1>13. CASE Tidy(p)
  <2>1. s = "tidy" /\ aymc'[p].plan = << >>
    BY <1>4, <1>6, <1>7, <1>13 DEF Tidy, At
  <2>2. Same(p, "obj") /\ Same(p, "bin")
    BY <1>13 DEF Tidy, Same, Here
  <2>3. "assemble" \notin Range(aymc'[p].plan)
    BY <2>1 DEF Range
  <2>4. Fact(p, "generate")' /\ Fact(p, "tidy")'
    BY <2>3, UnitsApart DEF Fact, Stages
  <2>5. \A c \in Completed(p) : Fact(p, c)'
    BY <1>8, <1>10, <2>2, <2>4, FactKept
  <2>6. QED BY <1>1, <1>2, <1>3, <1>6, <1>9, <2>1, <2>4, <2>5, Advance
<1>14. CASE FindObject(p) \/ CacheHit(p) \/ Reap(p)
  <2>1. \A kind : Same(p, kind)
    BY <1>14 DEF FindObject, CacheHit, Reap, Same
  <2>2. \A c : Fact(p, c) => Fact(p, c)'
    BY <1>8, <2>1, FactKept
  <2>3. Fact(p, s)
    <3>1. CASE FindObject(p)
      <4>1. s = "object"
        BY <1>6, <3>1 DEF FindObject, At
      <4>2. QED BY <4>1, UnitsApart DEF Fact, Stages
    <3>2. CASE CacheHit(p)
      <4>1. s \in Unit /\ s \notin older
        BY <1>6, <3>2 DEF CacheHit, At, NeedsRebuild
      <4>2. QED BY <4>1, UnitsApart DEF Fact
    <3>3. CASE Reap(p)
      <4>1. ~Set(p, Idle)
        <5>1. DOMAIN Idle = Fields /\ Idle.quiet \in BOOLEAN
          BY IdleOK DEF RunOK
        <5>2. QED BY <1>1, <5>1, IdleOK, SetMoves DEF Moves, Like, Going
      <4>2. aymc[p].exit = "ok"
        BY <3>3, <4>1 DEF Reap, Fail
      <4>3. QED BY <1>5, <1>6, <4>2 DEF Progress
    <3>4. QED BY <1>14, <3>1, <3>2, <3>3
  <2>4. QED BY <1>1, <1>2, <1>3, <1>6, <1>9, <1>10, <2>2, <2>3, Advance
<1>15. CASE NotGenerated(p) \/ NotSpawned(p) \/ Finish(p)
  <2>1. Set(p, Idle)
    BY <1>15 DEF NotGenerated, NotSpawned, Finish, Fail
  <2>2. DOMAIN Idle = Fields /\ Idle.quiet \in BOOLEAN
    BY IdleOK DEF RunOK
  <2>3. QED BY <1>1, <2>1, <2>2, IdleOK, SetMoves DEF Moves, Like, Going
<1>16. QED BY <1>12, <1>13, <1>14, <1>15 DEF Alone
-----------------------------------------------------------------------------
(* A step that writes no file: of q, which may start or stop its tool.     *)
LEMMA QuietStep ==
  ASSUME BaseInv, StagesOK, NEW p \in Procs, NEW q \in Procs, NEW rec, Moves(q, rec),
         q # p \/ rec = aymc[p], Going(p)', UNCHANGED <<file, older, runtime, sound>>, NoneOpens(p)
  PROVE  Progress(p)'
<1>1. \A kind \in Kinds : Same(p, kind)
  BY DEF Same
<1>2. QED BY <1>1, OthersProgress

LEMMA SpawnStages ==
  ASSUME BaseInv, StagesOK, NEW p \in Procs, NEW q \in Procs, Spawn(q), Going(p)'
  PROVE  Progress(p)'
<1> DEFINE rec == [aymc[q] EXCEPT !.phase = "wait"]
<1>1. ProcsOK /\ ToolsOK /\ RunOK(aymc[q], runs) /\ RunOK(aymc[p], runs)
  BY DEF BaseInv, ProcsOK
<1>2. UNCHANGED <<file, older, runtime, sound>> /\ Set(q, rec)
  BY DEF Spawn, Others
<1>3. /\ DOMAIN rec = Fields /\ rec.quiet \in BOOLEAN /\ rec.run = aymc[q].run /\ rec.cmd = aymc[q].cmd
      /\ rec.plan = aymc[q].plan /\ rec.exit = aymc[q].exit /\ rec.busy = aymc[q].busy /\ rec.quiet = aymc[q].quiet
  BY <1>1 DEF RunOK, Fields
<1>4. aymc[q].phase = "ready"
  BY <1>1, RunsToolReady, ReadyOK DEF Spawn
<1> HIDE DEF rec
<1>5. Moves(q, rec)
  BY <1>1, <1>2, <1>3, SetMoves
<1>6. NoneOpens(p)
  <2>1. \A w \in tools' : w \in tools \/ w.opened = FALSE
    BY DEF Spawn
  <2>2. QED BY <2>1 DEF NoneOpens
<1>7. CASE q # p
  BY <1>2, <1>5, <1>6, <1>7, QuietStep
<1>8. CASE q = p
  <2>1. Like(aymc'[p], rec)
    BY <1>5, <1>8 DEF Moves
  <2>2. Calm(p) /\ aymc'[p].plan = aymc[p].plan /\ aymc'[p].exit = aymc[p].exit
    BY <1>2, <1>3, <1>8, <2>1 DEF Like, Calm
  <2>3. Going(p)
    BY <1>3, <1>4, <1>8, <2>1 DEF Like, Going
  <2>4. \A kind \in Kinds : Same(p, kind)
    BY <1>2 DEF Same
  <2>5. QED BY <1>1, <1>6, <2>2, <2>3, <2>4, ProgressKept DEF StagesOK
<1>9. QED BY <1>7, <1>8

LEMMA ElapseStages ==
  ASSUME BaseInv, StagesOK, NEW p \in Procs, NEW q \in Procs, Elapse(q), Going(p)'
  PROVE  Progress(p)'
<1>1. Moves(q, aymc[q]) /\ UNCHANGED <<file, older, runtime, sound, tools>>
  BY ElapseBase DEF Elapse, NoTool, Others
<1>2. NoneOpens(p)
  BY <1>1 DEF NoneOpens
<1>3. QED BY <1>1, <1>2, QuietStep

LEMMA KillStages ==
  ASSUME BaseInv, StagesOK, NEW p \in Procs, NEW q \in Procs, Kill(q) \/ Crash(q), Going(p)'
  PROVE  Progress(p)'
<1>1. /\ UNCHANGED <<file, older, runtime, sound>> /\ Loosed(q)
      /\ \E rec : Moves(q, rec)
  BY KillBase, CrashBase DEF Kill, Crash, Others
<1>2. q # p
  <2>1. Kill(q) => aymc'[q].phase = "killed"
    BY KillBase
  <2>2. Crash(q) => ~aymc'[q].busy
    BY CrashBase, IdleOK DEF Moves, Like
  <2>3. QED BY <2>1, <2>2 DEF Going
<1>3. NoneOpens(p)
  <2>1. ASSUME NEW v \in Child(q), NEW w, w = [v EXCEPT !.orphan = TRUE] PROVE w.orphan
    <3>1. ToolOK(v, runs)
      BY DEF Child, BaseInv, ToolsOK
    <3>2. QED BY <2>1, <3>1 DEF ToolOK
  <2>2. QED BY <1>1, <2>1 DEF Loosed, NoneOpens
<1>4. QED BY <1>1, <1>2, <1>3, QuietStep

LEMMA StartStages ==
  ASSUME BaseInv, StagesOK, NEW p \in Procs, NEW q \in Procs, NEW c \in Commands[q], Start(q, c), Going(p)'
  PROVE  Progress(p)'
<1>1. /\ BaseInv' /\ \A r \in Procs \ {q} : aymc'[r] = aymc[r]
      /\ aymc'[q].cmd = c /\ aymc'[q].plan = Plan(c.mode) /\ aymc'[q].exit = "none" /\ aymc'[q].phase = "ready"
  BY StartBase
<1>2. UNCHANGED <<file, older, runtime, sound, tools>>
  BY DEF Start
<1>3. CASE q = p
  <2>1. \A w \in tools' : w.orphan \/ w.parent # p
    BY <1>1, <1>3 DEF BaseInv, ToolsOK, ToolOK, ChildOK
  <2>2. QED BY <1>1, <1>3, <2>1 DEF Progress
<1>4. CASE q # p
  <2>1. aymc'[p] = aymc[p]
    BY <1>1, <1>4
  <2>2. Going(p) /\ Calm(p) /\ ToolsOK
    BY <1>2, <2>1 DEF Going, Calm, BaseInv
  <2>3. NoneOpens(p) /\ \A kind \in Kinds : Same(p, kind)
    BY <1>2 DEF NoneOpens, Same
  <2>4. QED BY <2>1, <2>2, <2>3, ProgressKept DEF StagesOK
<1>5. QED BY <1>3, <1>4
-----------------------------------------------------------------------------
(* A tool with the number of an invocation that goes on is its child.      *)
LEMMA OwnTool ==
  ASSUME BaseInv, NEW w \in tools, NEW p \in Procs, aymc[p].busy, aymc[p].phase # "killed",
         aymc[p].run = w.run
  PROVE  ~w.orphan /\ w.parent = p
<1>1. ProcsOK /\ ToolOK(w, runs) /\ IF w.orphan THEN OrphanOK(w) ELSE ChildOK(w)
  BY DEF BaseInv, ToolsOK
<1>2. ~w.orphan
  BY <1>1 DEF OrphanOK
<1>3. w.parent \in Procs /\ aymc[w.parent].run = aymc[p].run /\ aymc[w.parent].phase = "wait"
  BY <1>1, <1>2 DEF ToolOK, ChildOK
<1>4. aymc[w.parent].busy
  BY <1>1, <1>3 DEF ProcsOK, RunOK
<1>5. QED BY <1>1, <1>2, <1>3, <1>4 DEF ProcsOK

(* What a tool writes to is not what the earlier stages have made.         *)
LEMMA OwnKeeps ==
  ASSUME BaseInv, StagesOK, NEW p \in Procs, Going(p), NEW w \in tools, ~w.orphan, w.parent = p,
         Calm(p), \E v : file' = [file EXCEPT ![w.key] = v] \/ file' = file
  PROVE  /\ \A c \in Completed(p) : Fact(p, c)'
         /\ Head(aymc[p].plan) \in {"assemble", "link"} \cup Unit
         /\ Head(aymc[p].plan) = "assemble" => Same(p, "asm") /\ w.key = Here(p, "obj")
         /\ Head(aymc[p].plan) = "link" => Same(p, "obj") /\ w.key = Here(p, "bin")
         /\ aymc[p].plan # << >> /\ aymc[p].exit = "none" /\ w.run = aymc[p].run /\ w.out = aymc[p].cmd.out
         /\ Head(aymc[p].plan) \in Unit => w.key = <<"cached", Head(aymc[p].plan)>>
<1>1. ProcsOK /\ CacheOK /\ ToolOK(w, runs) /\ ChildOK(w) /\ RunOK(aymc[p], runs)
  BY DEF BaseInv, ToolsOK, ProcsOK
<1>2. PICK s : s = Head(aymc[p].plan)
  OBVIOUS
<1>3. /\ aymc[p].busy /\ aymc[p].plan # << >> /\ aymc[p].exit = "none" /\ w.run = aymc[p].run
      /\ w.out = aymc[p].cmd.out /\ w.key = Target(p, s)
  BY <1>1, <1>2 DEF ChildOK, RunOK, Going
<1>4. /\ s = "assemble" => "assemble" \notin Completed(p)
      /\ "link" \notin Completed(p)
  BY <1>1, <1>2, <1>3, HeadStage
<1>5. \A kind \in Kinds : <<kind, aymc[p].cmd.out>> \in DOMAIN file
  BY <1>1, <1>3 DEF CacheOK, RunOK, Command, Files
<1>6. \A kind \in Kinds : w.key # <<kind, aymc[p].cmd.out>> => Same(p, kind)
  BY <1>5 DEF Same
<1>7. /\ s = "assemble" => w.key = Here(p, "obj")
      /\ s = "link" => w.key = Here(p, "bin")
      /\ s \notin {"assemble", "link"} => w.key = <<"cached", s>>
  BY <1>3 DEF Target
<1>8. s \in {"assemble", "link"} \cup Unit
  <2>1. CASE s \notin {"assemble", "link"}
    BY <1>1, <1>7, <2>1, CachedKey DEF ToolOK
  <2>2. QED BY <2>1
<1>9. /\ Same(p, "asm")
      /\ s # "assemble" => Same(p, "obj")
      /\ "asm" \in Kinds /\ "obj" \in Kinds
  BY <1>6, <1>7 DEF Kinds, Here
<1>10. ASSUME NEW c \in Completed(p) PROVE Fact(p, c)'
  <2>1. Fact(p, c)
    BY <1>10 DEF StagesOK, Progress, Completed
  <2>2. c # "link" /\ (c = "assemble" => Same(p, "obj"))
    BY <1>4, <1>9, <1>10
  <2>3. QED BY <1>9, <2>1, <2>2, FactKept
<1>11. QED BY <1>2, <1>3, <1>7, <1>8, <1>9, <1>10, UnitsApart
-----------------------------------------------------------------------------
(* A tool of another invocation. *)
LEMMA ForeignTool ==
  ASSUME BaseInv, StagesOK, NEW p \in Procs, NEW w \in tools, NEW rec, Moves(w.parent, rec),
         w.orphan => rec = aymc[w.parent],
         \A q \in Procs : aymc'[q].quiet => ~Disturbed(q, w.run, w.key),
         \E v : file' = [file EXCEPT ![w.key] = v] \/ file' = file,
         older' \subseteq older, runtime' = runtime, sound' = sound,
         \A x \in tools' : x \in tools \/ (x.parent = w.parent /\ x.orphan = w.orphan),
         Going(p)', aymc[p].run # w.run
  PROVE  Progress(p)'
<1>1. ProcsOK /\ CacheOK /\ ToolOK(w, runs) /\ IF w.orphan THEN OrphanOK(w) ELSE ChildOK(w)
  BY DEF BaseInv, ToolsOK
<1>2. w.parent \in Procs /\ (~w.orphan => w.parent # p)
  BY <1>1 DEF ToolOK, ChildOK
<1>3. w.parent # p \/ rec = aymc[p]
  BY <1>2
<1>4. aymc[p].busy /\ aymc'[p].quiet
  BY <1>2, <1>3 DEF Moves, Like, Going
<1>5. \A kind \in Kinds : Same(p, kind)
  BY <1>1, <1>4, Undisturbed
<1>6. NoneOpens(p)
  BY <1>2 DEF NoneOpens
<1>7. QED BY <1>2, <1>3, <1>5, <1>6, OthersProgress

LEMMA OpensStages ==
  ASSUME BaseInv, StagesOK, NEW p \in Procs, NEW w \in tools, Opens(w), Going(p)'
  PROVE  Progress(p)'
<1> PICK w2 : w2 = [w EXCEPT !.opened = TRUE, !.holds = Made(w)]
  OBVIOUS
<1>1. ProcsOK /\ ToolsOK /\ CacheOK /\ ToolOK(w, runs)
  BY DEF BaseInv, ToolsOK
<1>2. /\ file' = [file EXCEPT ![w.key] = Torn(Opener(w))] /\ tools' = (tools \ {w}) \cup {w2}
      /\ older' \subseteq older /\ runtime' = runtime /\ sound' = sound
      /\ ~w.opened /\ \A k \in Input(w) : file[k].part = "whole"
  BY DEF Opens, Stamped, Others
<1>3. /\ w2.holds = Made(w) /\ w2.key = w.key /\ w2.run = w.run /\ w2.parent = w.parent
      /\ w2.orphan = w.orphan /\ w2.opened
  BY <1>1 DEF ToolOK
<1>4. /\ Moves(w.parent, aymc[w.parent])
      /\ \A q \in Procs : aymc'[q].quiet => ~Disturbed(q, w.run, w.key)
  BY OpensBase
<1>5. CASE aymc[p].run # w.run
  <2>1. \A x \in tools' : x \in tools \/ (x.parent = w.parent /\ x.orphan = w.orphan)
    BY <1>2, <1>3
  <2>2. QED BY <1>2, <1>4, <1>5, <2>1, ForeignTool
<1>6. CASE aymc[p].run = w.run
  <2>1. Like(aymc'[p], aymc[p])
    BY <1>4 DEF Moves
  <2>2. Going(p) /\ Progress(p) /\ Calm(p) /\ aymc'[p].plan = aymc[p].plan /\ aymc'[p].exit = aymc[p].exit
    BY <1>2, <2>1 DEF Like, Going, Calm, StagesOK
  <2>3. ~w.orphan /\ w.parent = p
    BY <1>6, <2>2, OwnTool DEF Going
  <2>4. PICK s : s = Head(aymc[p].plan)
    OBVIOUS
  <2>5. /\ \A c \in Completed(p) : Fact(p, c)'
        /\ s \in {"assemble", "link"} \cup Unit
        /\ s = "assemble" => Same(p, "asm") /\ w.key = Here(p, "obj")
        /\ s = "link" => Same(p, "obj") /\ w.key = Here(p, "bin")
        /\ aymc[p].plan # << >> /\ aymc[p].exit = "none" /\ w.out = aymc[p].cmd.out
        /\ s \in Unit => w.key = <<"cached", s>>
    BY <1>2, <2>2, <2>3, <2>4, OwnKeeps
  <2>6. /\ s = "assemble" => "generate" \in Completed(p)
        /\ s = "link" => Unit \subseteq Completed(p)
        /\ s \in Range(aymc[p].plan)
    BY <1>1, <2>2, <2>4, <2>5, HeadStage DEF Going
  <2>7. \A c \in Completed(p) : Fact(p, c)
    BY <2>2 DEF Progress, Completed
  <2>8. ASSUME s = "assemble" PROVE Partly(p, s, w2)'
    <3>1. w.key[1] = "obj" /\ Here(p, "asm") = <<"asm", w.out>>
      BY <2>5, <2>8 DEF Here
    <3>2. file[<<"asm", w.out>>].holds = Program(aymc[p].run)
      BY <2>6, <2>7, <2>8, <3>1 DEF Fact, Is
    <3>3. Made(w) = file[<<"asm", w.out>>].holds
      BY <3>1 DEF Made, Input
    <3>4. file'[w.key].by = Opener(w)
      BY <1>1, <1>2 DEF Torn, CacheOK, ToolOK
    <3>5. s \notin Unit /\ s # "link"
      BY <2>8, UnitsApart
    <3>6. Opener(w2) = Opener(w)
      BY <1>3 DEF Opener
    <3>7. w2.holds = Program(aymc'[p].run) /\ file'[w2.key].by = Opener(w2)
      BY <1>3, <2>2, <3>2, <3>3, <3>4, <3>6 DEF Calm
    <3>8. QED BY <2>8, <3>5, <3>7 DEF Partly, Opener, Program
  <2>9. ASSUME s = "link" PROVE Partly(p, s, w2)'
    <3> DEFINE obj == Here(p, "obj")
    <3>1. w.key[1] = "bin" /\ obj = <<"obj", w.out>>
      BY <2>5, <2>9 DEF Here
    <3>2. Input(w) = {obj} \cup ({"cached"} \X Unit)
      BY <3>1 DEF Input
    <3>3. Made(w) = UNION {file[k].holds : k \in Input(w)}
      BY <3>1 DEF Made
    <3>4. file[obj].part = "whole" /\ file[obj].holds \subseteq Made(w)
      BY <1>2, <3>2, <3>3
    <3>5. ASSUME sound PROVE Made(w) = file[obj].holds \cup {<<u, runtime[u]>> : u \in Unit}
      <4>1. ASSUME NEW u \in Unit PROVE file[<<"cached", u>>].holds = {<<u, runtime[u]>>}
        <5>1. u \notin older
          BY <2>6, <2>7, <2>9 DEF Fact
        <5>2. file[<<"cached", u>>].part = "whole"
          BY <1>2, <3>2
        <5>3. QED BY <1>1, <3>5, <5>1, <5>2 DEF CacheOK, Present
      <4>2. ASSUME NEW x \in Made(w) PROVE x \in file[obj].holds \cup {<<u, runtime[u]>> : u \in Unit}
        <5>1. PICK k \in Input(w) : x \in file[k].holds
          BY <3>3
        <5>2. k = obj \/ \E u \in Unit : k = <<"cached", u>>
          BY <3>2
        <5>3. QED BY <4>1, <5>1, <5>2
      <4>3. ASSUME NEW u \in Unit PROVE <<u, runtime[u]>> \in Made(w)
        <5>1. <<"cached", u>> \in Input(w)
          BY <3>2
        <5>2. QED BY <3>3, <4>1, <5>1
      <4>4. QED BY <3>4, <4>2, <4>3
    <3>6. Linked(p, Made(w))
      BY <3>4, <3>5 DEF Linked
    <3>7. Linked(p, w2.holds)'
      BY <1>3, <2>2, <2>5, <2>9, <3>6, LinkedKept DEF Linked
    <3>8. file'[w.key].by = Opener(w)
      BY <1>1, <1>2 DEF Torn, CacheOK, ToolOK
    <3>9. s \notin Unit /\ s # "assemble"
      BY <2>9, UnitsApart
    <3>10. Opener(w2) = Opener(w) /\ file'[w2.key].by = Opener(w2)
      BY <1>3, <3>8 DEF Opener
    <3>11. QED BY <3>7, <3>9, <3>10 DEF Partly, Opener
  <2>10. ASSUME s \in Unit PROVE Partly(p, s, w2)'
    <3>1. w.key[1] = "cached" /\ w.key[2] = s
      BY <2>5, <2>10
    <3>2. s \notin older'
      BY <3>1 DEF Opens, Stamped
    <3>3. s # "assemble" /\ s # "link"
      BY <2>10, UnitsApart
    <3>4. QED BY <3>2, <3>3 DEF Partly
  <2>11. Partly(p, s, w2)'
    BY <2>5, <2>8, <2>9, <2>10
  <2>12. ASSUME NEW x \in tools', ~x.orphan, x.parent = p, x.opened PROVE x = w2
    <3>1. x \in tools => x = w
      BY <1>1, <2>3, <2>12 DEF ToolsOK
    <3>2. QED BY <1>2, <2>12, <3>1
  <2>13. Completed(p)' = Completed(p) /\ aymc'[p].exit # "ok" /\ Head(aymc'[p].plan) = s
    BY <2>2, <2>4, <2>5 DEF Completed, Calm
  <2>14. QED BY <2>5, <2>11, <2>12, <2>13 DEF Progress, Completed
<1>7. QED BY <1>5, <1>6

LEMMA EndsStages ==
  ASSUME BaseInv, StagesOK, NEW p \in Procs, NEW w \in tools, Fills(w) \/ Fails(w), Going(p)'
  PROVE  Progress(p)'
<1>1. ProcsOK /\ ToolsOK /\ CacheOK /\ ToolOK(w, runs)
  BY DEF BaseInv, ToolsOK
<1>2. PICK code : Exits(w, code) /\ (code = "ok" => Fills(w)) /\ code \in {"ok", "failed"}
  BY DEF Fills, Fails
<1>3. /\ tools' = tools \ {w} /\ older' \subseteq older /\ runtime' = runtime /\ sound' = sound
      /\ \E v : file' = [file EXCEPT ![w.key] = v] \/ file' = file
  BY DEF Fills, Fails, Exits, Others, Stamped
<1>4. /\ Moves(w.parent, Told(w, code))
      /\ \A q \in Procs : aymc'[q].quiet => ~Disturbed(q, w.run, w.key)
  BY <1>1, <1>2, ExitsMoves DEF ToolOK
<1>5. CASE aymc[p].run # w.run
  <2>1. \A x \in tools' : x \in tools \/ (x.parent = w.parent /\ x.orphan = w.orphan)
    BY <1>3
  <2>2. w.orphan => Told(w, code) = aymc[w.parent]
    BY DEF Told
  <2>3. QED BY <1>3, <1>4, <1>5, <2>1, <2>2, ForeignTool
<1>6. CASE aymc[p].run = w.run
  <2>1. RunOK(aymc[w.parent], runs)
    BY <1>1 DEF ToolOK, ProcsOK
  <2>2. /\ Told(w, code).run = aymc[w.parent].run /\ Told(w, code).cmd = aymc[w.parent].cmd
        /\ Told(w, code).plan = aymc[w.parent].plan /\ Told(w, code).busy = aymc[w.parent].busy
        /\ Told(w, code).phase = aymc[w.parent].phase /\ Told(w, code).quiet = aymc[w.parent].quiet
        /\ ~w.orphan => Told(w, code).exit = code
    BY <2>1 DEF Told, RunOK, Fields
  <2>3. Like(aymc'[p], IF p = w.parent THEN Told(w, code) ELSE aymc[p])
    BY <1>4 DEF Moves
  <2>4. Going(p) /\ Progress(p) /\ Calm(p) /\ aymc'[p].plan = aymc[p].plan
    BY <1>3, <2>2, <2>3 DEF Like, Going, Calm, StagesOK
  <2>5. ~w.orphan /\ w.parent = p
    BY <1>6, <2>4, OwnTool DEF Going
  <2>6. aymc'[p].exit = code
    BY <2>2, <2>3, <2>5 DEF Like
  <2>7. PICK s : s = Head(aymc[p].plan)
    OBVIOUS
  <2>8. /\ \A c \in Completed(p) : Fact(p, c)'
        /\ s \in {"assemble", "link"} \cup Unit
        /\ s = "assemble" => Same(p, "asm") /\ w.key = Here(p, "obj")
        /\ s = "link" => Same(p, "obj") /\ w.key = Here(p, "bin")
    BY <1>3, <2>4, <2>5, <2>7, OwnKeeps
  <2>9. ASSUME code = "ok" PROVE Fact(p, s)'
    <3>1. w.opened /\ Partly(p, s, w) /\ Fills(w)
      BY <1>2, <2>4, <2>5, <2>7, <2>9 DEF Progress, Fills
    <3>2. s \in {"assemble", "link"} => file'[w.key].part = "whole" /\ file'[w.key].holds = w.holds
      BY <1>1, <3>1 DEF Fills, Partly, Whole, CacheOK, ToolOK
    <3>3. CASE s = "assemble"
      <4>1. Is(Here(p, "obj"), Program(aymc[p].run))'
        BY <2>4, <2>8, <3>1, <3>2, <3>3 DEF Is, Here, Calm, Partly, Program
      <4>2. s \notin Unit /\ s # "link" /\ s # "generate"
        BY <3>3, UnitsApart
      <4>3. QED BY <4>1, <4>2 DEF Fact
    <3>4. CASE s = "link"
      <4>1. Linked(p, w.holds)'
        BY <2>4, <2>8, <3>1, <3>4, LinkedKept DEF Linked, Partly
      <4>2. s \notin Unit /\ s # "assemble" /\ s # "generate"
        BY <3>4, UnitsApart
      <4>3. Here(p, "bin")' = w.key
        BY <2>4, <2>8, <3>4 DEF Here, Calm
      <4>4. QED BY <3>2, <3>4, <4>1, <4>2, <4>3 DEF Fact
    <3>5. CASE s \in Unit
      <4>1. s \notin older'
        BY <1>3, <3>1, <3>5 DEF Partly
      <4>2. QED BY <3>5, <4>1, UnitsApart DEF Fact
    <3>6. QED BY <2>8, <3>3, <3>4, <3>5
  <2>10. ASSUME NEW x \in tools', ~x.orphan, x.parent = p PROVE FALSE
    BY <1>1, <1>3, <2>5, <2>10 DEF ToolsOK
  <2>11. Completed(p)' = Completed(p) /\ Head(aymc'[p].plan) = s
    BY <2>4, <2>7 DEF Completed, Calm
  <2>12. QED BY <2>6, <2>8, <2>9, <2>10, <2>11 DEF Progress, Completed
<1>7. QED BY <1>5, <1>6
-----------------------------------------------------------------------------
IInv == BaseInv /\ StagesOK

LEMMA StepKeeps ==
  ASSUME IInv, Next
  PROVE  IInv'
<1>1. BaseInv /\ StagesOK
  BY DEF IInv
<1>2. ASSUME NEW q \in Procs, Step(q) PROVE IInv'
  <2>1. CASE Alone(q)
    BY <1>1, <2>1, AloneBase, AloneOwn, AloneOthers DEF IInv, StagesOK
  <2>2. CASE Spawn(q)
    BY <1>1, <2>2, SpawnBase, SpawnStages DEF IInv, StagesOK
  <2>3. CASE Kill(q)
    BY <1>1, <2>3, KillBase, KillStages DEF IInv, StagesOK
  <2>4. QED BY <1>2, <2>1, <2>2, <2>3 DEF Step, Alone
<1>3. ASSUME NEW q \in Procs, Elapse(q) PROVE IInv'
  BY <1>1, <1>3, ElapseBase, ElapseStages DEF IInv, StagesOK
<1>4. ASSUME NEW q \in Procs, Crash(q) PROVE IInv'
  BY <1>1, <1>4, CrashBase, KillStages DEF IInv, StagesOK
<1>5. ASSUME NEW q \in Procs, NEW c \in Commands[q], Start(q, c) PROVE IInv'
  BY <1>1, <1>5, StartBase, StartStages DEF IInv, StagesOK
<1>6. ASSUME NEW w \in tools, Opens(w) PROVE IInv'
  BY <1>1, <1>6, OpensBase, OpensStages DEF IInv, StagesOK
<1>7. ASSUME NEW w \in tools, Fills(w) \/ Fails(w) PROVE IInv'
  BY <1>1, <1>7, EndsBase, EndsStages DEF IInv, StagesOK
<1>8. ASSUME NEW u \in Unit, NEW stamped \in BOOLEAN, Changes(u, stamped) PROVE IInv'
  BY <1>1, <1>8, ChangesBase DEF IInv, StagesOK, Going
<1>9. ASSUME EditSource \/ EditIncluded PROVE IInv'
  BY <1>8, <1>9, UnitsAssumption DEF EditSource, EditIncluded
<1>10. QED BY <1>2, <1>3, <1>4, <1>5, <1>6, <1>7, <1>9 DEF Next

LEMMA Invariance == Spec => []IInv
<1>1. Init => IInv
  BY InitBase DEF IInv
<1>2. IInv /\ [Next]_vars => IInv'
  <2>1. CASE UNCHANGED vars
    <3>1. ASSUME IInv PROVE ProcsOK' /\ CapturesOK' /\ CacheOK'
      BY <2>1, <3>1 DEF vars, IInv, BaseInv, ProcsOK, CapturesOK, CacheOK, Present
    <3>2. ASSUME IInv PROVE ToolsOK'
      BY <2>1, <3>2 DEF vars, IInv, BaseInv, ToolsOK, OrphanOK, ChildOK, Target, Here
    <3>3. ASSUME IInv PROVE StagesOK'
      <4>1. ASSUME NEW p \in Procs, Going(p)' PROVE Progress(p)'
        <5>1. Going(p) /\ Calm(p) /\ aymc'[p] = aymc[p] /\ NoneOpens(p)
          BY <2>1, <4>1 DEF vars, Going, Calm, NoneOpens
        <5>2. \A kind \in Kinds : Same(p, kind)
          BY <2>1 DEF vars, Same
        <5>3. QED BY <3>3, <5>1, <5>2, ProgressKept DEF IInv, BaseInv, StagesOK
      <4>2. QED BY <4>1 DEF StagesOK
    <3>4. QED BY <3>1, <3>2, <3>3 DEF IInv, BaseInv
  <2>2. QED BY <2>1, StepKeeps
<1>3. QED BY <1>1, <1>2, PTL DEF Spec

(* Between two stages, and after the end of every aymc that was not killed,*)
(* no child of it runs and no capture file of it is on disk.               *)
THEOREM NothingLeft == Spec => []NothingLeftBehind
<1>1. IInv => NothingLeftBehind
  BY DEF IInv, BaseInv, ToolsOK, ToolOK, ChildOK, CapturesOK, NothingLeftBehind
<1>2. QED BY <1>1, Invariance, PTL

(* An aymc that exits with 0, alone in writing its output, has made what it*)
(* was asked for: the object of its own program, and an executable of that *)
(* object and of the runtime as it is now, whatever others have left in or *)
(* are doing to the cache they share.                                      *)
THEOREM SuccessFresh == Spec => []SuccessIsFresh
<1>1. IInv => SuccessIsFresh
  <2> SUFFICES ASSUME IInv, NEW p \in Procs, Succeeds(p)
               PROVE  LET obj == file[Here(p, "obj")]
                          bin == file[Here(p, "bin")]
                      IN  /\ obj.part = "whole"
                          /\ aymc[p].cmd.mode # "link" => obj.holds = Program(aymc[p].run)
                          /\ aymc[p].cmd.mode # "compile" =>
                               /\ bin.part = "whole" /\ obj.holds \subseteq bin.holds
                               /\ sound => bin.holds = obj.holds \cup {<<u, runtime[u]>> : u \in Unit}
    BY DEF SuccessIsFresh
  <2>1. RunOK(aymc[p], runs) /\ aymc[p].busy /\ aymc[p].quiet /\ aymc[p].plan = << >>
    BY DEF IInv, BaseInv, ProcsOK, Succeeds
  <2>2. Going(p) /\ aymc[p].cmd.mode \in Modes
    BY <2>1 DEF RunOK, Going, Command
  <2>3. Range(aymc[p].plan) = {}
    BY <2>1 DEF Range
  <2>4. \A s \in Range(Plan(aymc[p].cmd.mode)) : Fact(p, s)
    BY <2>2, <2>3 DEF IInv, StagesOK, Progress
  <2>5. aymc[p].cmd.mode # "link" => Fact(p, "assemble")
    BY <2>2, <2>4, PlanStart
  <2>6. aymc[p].cmd.mode # "compile" => Fact(p, "link")
    BY <2>2, <2>4, PlanStart
  <2>7. QED BY <2>5, <2>6 DEF Fact, Is, Linked
<1>2. QED BY <1>1, Invariance, PTL
=============================================================================
