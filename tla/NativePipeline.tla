--------------------------- MODULE NativePipeline ---------------------------
(***************************************************************************)
(* aymc from the generated assembler text to the executable                *)
(* (codegen/codegen_emit_sections.cpp), each tool run as a child process   *)
(* with a timeout (utils/process.cpp).  Any number of aymc share their     *)
(* outputs and one cache of compiled runtime objects; tools may hang, fail *)
(* or be killed, and the runtime's sources change.  Linux.                 *)
(***************************************************************************)
EXTENDS Naturals, Sequences, SequencesExt

CONSTANTS
  Procs,        \* processes running aymc
  Outputs,      \* output paths, without extension
  Units,        \* sequence: runtime.c, math.c, runtime_gfx_linux.c
  Including,    \* those that include other sources
  Commands,     \* the command lines each process may be given
  MaxRuns,      \* bound: invocations of aymc
  MaxEdits      \* bound: changes to the runtime's sources

VARIABLES
  file,         \* asm, obj and bin of each output, and the cached objects
  runtime,      \* the edition of each unit's source
  older,        \* units whose object has an older time stamp than the source
  aymc,         \* the processes
  tools,        \* tools at work
  captures,     \* invocations whose capture files are on disk
  killed,       \* history: invocations that were killed
  sound,        \* history: every change of a source shows in its time stamp
  runs, edits   \* counters of the bounds

vars == <<file, runtime, older, aymc, tools, captures, killed, sound, runs, edits>>

Unit == Range(Units)
Kinds == {"asm", "obj", "bin"}
Files == (Kinds \X Outputs) \cup ({"cached"} \X Unit)

(* A file: absent, torn (opened and not complete) or whole; which tool or  *)
(* aymc opened it last; what it is made of: the program of an invocation,  *)
(* editions of the units.                                                  *)
Absent == [part |-> "absent", by |-> << >>, holds |-> {}]
Torn(by) == [part |-> "torn", by |-> by, holds |-> {}]
Whole(by, holds) == [part |-> "whole", by |-> by, holds |-> holds]
Program(run) == {<<"program", run>>}

Modes == {"full", "compile", "link"}
Command == [mode : Modes, keepAsm : BOOLEAN, limited : BOOLEAN, out : Outputs]
ASSUME CommandsAssumption == Commands \in [Procs -> SUBSET Command]

(* The stages of a mode: those of aymc, and each unit of the runtime. *)
Stages == {"generate", "assemble", "tidy", "object", "link"}
ASSUME UnitsAssumption == Units \in Seq(Unit \ Stages) /\ Including \subseteq Unit
Plan(mode) ==
  CASE mode = "full" -> <<"generate", "assemble">> \o Units \o <<"link">>
    [] mode = "compile" -> <<"generate", "assemble", "tidy">>
    [] mode = "link" -> <<"object">> \o Units \o <<"link">>

Idle ==
  [busy |-> FALSE, run |-> 0, cmd |-> CHOOSE c \in UNION Range(Commands) : TRUE, plan |-> << >>,
   phase |-> "ready", exit |-> "none", late |-> FALSE, quiet |-> FALSE]

Init ==
  /\ \E built \in BOOLEAN :       \* a new machine, or one that has compiled before
       file = [k \in Files |-> IF built /\ k[1] = "cached" THEN Whole(<<0, k>>, {<<k[2], 0>>}) ELSE Absent]
  /\ runtime = [u \in Unit |-> 0]
  /\ older = {} /\ tools = {} /\ captures = {} /\ killed = {}
  /\ aymc = [p \in Procs |-> Idle]
  /\ sound = TRUE /\ runs = 0 /\ edits = 0

(* aymc with some of its fields changed; p is alone in writing what it     *)
(* writes to its output.                                                   *)
Set(p, rec) == aymc' = [aymc EXCEPT ![p] = rec]
Disturbed(q, run, k) == aymc[q].busy /\ aymc[q].run # run /\ k \in Kinds \X {aymc[q].cmd.out}
Writing(run, k, procs) ==
  aymc' = [q \in Procs |-> IF Disturbed(q, run, k) THEN [procs[q] EXCEPT !.quiet = FALSE] ELSE procs[q]]

NoTool == UNCHANGED <<tools, captures>>
Others == UNCHANGED <<runtime, killed, sound, runs, edits>>

Start(p, c) ==
  /\ ~aymc[p].busy /\ runs < MaxRuns
  /\ runs' = runs + 1
  /\ Set(p, [Idle EXCEPT !.busy = TRUE, !.run = runs', !.cmd = c, !.plan = Plan(c.mode), !.quiet = TRUE])
  /\ UNCHANGED <<file, runtime, older, tools, captures, killed, sound, edits>>

At(p, stage) ==
  aymc[p].busy /\ aymc[p].phase = "ready" /\ aymc[p].plan # << >> /\ Head(aymc[p].plan) = stage
Done(p) == [aymc[p] EXCEPT !.plan = Tail(@), !.phase = "ready", !.exit = "none", !.late = FALSE]
Fail(p) == Set(p, Idle)

Here(p, kind) == <<kind, aymc[p].cmd.out>>
-----------------------------------------------------------------------------
(* The assembler text.  (One that a killed aymc leaves incomplete is never  *)
(* read: whoever assembles a text has written it.)                         *)
Generate(p) ==
  /\ At(p, "generate")
  /\ LET k == Here(p, "asm") IN
       /\ file' = [file EXCEPT ![k] = Whole(<<aymc[p].run, k>>, Program(aymc[p].run))]
       /\ Writing(aymc[p].run, k, [aymc EXCEPT ![p] = Done(p)])
  /\ UNCHANGED older /\ NoTool /\ Others

(* The text cannot be opened, or the front end has refused the program. *)
NotGenerated(p) ==
  /\ At(p, "generate") /\ Fail(p)
  /\ UNCHANGED <<file, older>> /\ NoTool /\ Others

(* --compile-only: the text is removed unless --emit-asm asks for it.      *)
Tidy(p) ==
  /\ At(p, "tidy")
  /\ LET k == Here(p, "asm") IN
       /\ file' = IF aymc[p].cmd.keepAsm THEN file ELSE [file EXCEPT ![k] = Absent]
       /\ Writing(aymc[p].run, k, [aymc EXCEPT ![p] = Done(p)])
  /\ UNCHANGED older /\ NoTool /\ Others

(* --link-only: the object must be there. *)
FindObject(p) ==
  /\ At(p, "object")
  /\ IF file[Here(p, "obj")].part = "absent" THEN Fail(p) ELSE Set(p, Done(p))
  /\ UNCHANGED <<file, older>> /\ NoTool /\ Others
-----------------------------------------------------------------------------
(* A mutant: any object that is there will do.                             *)
NeedsRebuildAbsent(u) == file[<<"cached", u>>].part = "absent"

(* needsRebuildObject: no object, or one with an older time stamp.         *)
NeedsRebuild(u) == file[<<"cached", u>>].part = "absent" \/ u \in older

CacheHit(p) ==
  /\ \E u \in Unit : At(p, u) /\ ~NeedsRebuild(u)
  /\ Set(p, Done(p))
  /\ UNCHANGED <<file, older>> /\ NoTool /\ Others

(* The file the tool of a stage writes. *)
Target(p, stage) ==
  CASE stage = "assemble" -> Here(p, "obj")
    [] stage = "link" -> Here(p, "bin")
    [] OTHER -> <<"cached", stage>>

RunsTool(p) ==
  \/ At(p, "assemble") \/ At(p, "link")
  \/ \E u \in Unit : At(p, u) /\ NeedsRebuild(u)

(* runProcessCommand: the capture files are made, then the child; when one *)
(* of these fails the files are removed.                                   *)
Spawn(p) ==
  /\ RunsTool(p)
  /\ tools' = tools \cup
       {[run |-> aymc[p].run, key |-> Target(p, Head(aymc[p].plan)), parent |-> p, orphan |-> FALSE,
         out |-> aymc[p].cmd.out, opened |-> FALSE, holds |-> {}]}
  /\ captures' = captures \cup {aymc[p].run}
  /\ Set(p, [aymc[p] EXCEPT !.phase = "wait"])
  /\ UNCHANGED <<file, older>> /\ Others

NotSpawned(p) ==
  /\ RunsTool(p) /\ Fail(p)
  /\ UNCHANGED <<file, older>> /\ NoTool /\ Others

(* The child has ended: its output is read, the capture files are removed. *)
(* The stage succeeds when the tool has ended by itself, with exit code 0, *)
(* and its output can be read.                                             *)
Reap(p) ==
  /\ aymc[p].phase \in {"wait", "killed"} /\ aymc[p].exit # "none"
  /\ captures' = captures \ {aymc[p].run}
  /\ \/ Fail(p)
     \/ aymc[p].phase # "killed" /\ aymc[p].exit = "ok" /\ Set(p, Done(p))
  /\ UNCHANGED <<file, older, tools>> /\ Others

(* With a timeout: waitpid with WNOHANG, the time, a sleep, and again.      *)
Elapse(p) ==
  /\ aymc[p].phase = "wait" /\ aymc[p].cmd.limited /\ ~aymc[p].late
  /\ Set(p, [aymc[p] EXCEPT !.late = TRUE])
  /\ UNCHANGED <<file, older>> /\ NoTool /\ Others

(* What becomes of the tools of p when they are killed: the child of gcc   *)
(* may have children of its own, which go on.                              *)
Child(p) == {w \in tools : w.parent = p /\ ~w.orphan}
Orphaned(W) == {[w EXCEPT !.orphan = TRUE] : w \in W}

(* Mutants: the child is asked to stop, and may ignore it; the exit of the *)
(* killed child is not waited for.                                         *)
KillSoftly(p) ==
  /\ aymc[p].phase = "wait" /\ aymc[p].late
  /\ Set(p, [aymc[p] EXCEPT !.phase = "killed"])
  /\ UNCHANGED <<file, older>> /\ NoTool /\ Others
KillOnly(p) ==
  /\ aymc[p].phase = "wait" /\ aymc[p].late
  /\ Fail(p)
  /\ UNCHANGED <<file, older>> /\ NoTool /\ Others

(* The time is up: SIGKILL, also when the child has ended since the poll.  *)
Kill(p) ==
  /\ aymc[p].phase = "wait" /\ aymc[p].late
  /\ Set(p, [aymc[p] EXCEPT !.phase = "killed", !.exit = IF @ = "none" THEN "killed" ELSE @])
  /\ \/ tools' = tools \ Child(p)
     \/ tools' = (tools \ Child(p)) \cup Orphaned({w \in Child(p) : w.key[1] # "obj"})
  /\ UNCHANGED <<file, older, captures>> /\ Others
-----------------------------------------------------------------------------
(* The tools.  Each opens its output anew (an older file of that name is   *)
(* unlinked) with what it has read, and completes it if it is still there. *)
Input(w) ==
  CASE w.key[1] = "obj" -> {<<"asm", w.out>>}
    [] w.key[1] = "bin" -> {<<"obj", w.out>>} \cup ({"cached"} \X Unit)
    [] OTHER -> {}
Made(w) ==
  IF w.key[1] = "cached" THEN {<<w.key[2], runtime[w.key[2]]>>}
  ELSE UNION {file[k].holds : k \in Input(w)}

Opener(w) == <<w.run, w.key>>
Stamped(w) == older' = older \ (IF w.key[1] = "cached" THEN {w.key[2]} ELSE {})

(* nasm and gcc reject an input that is missing or not complete.           *)
Opens(w) ==
  /\ ~w.opened
  /\ \A k \in Input(w) : file[k].part = "whole"
  /\ file' = [file EXCEPT ![w.key] = Torn(Opener(w))]
  /\ tools' = (tools \ {w}) \cup {[w EXCEPT !.opened = TRUE, !.holds = Made(w)]}
  /\ Writing(w.run, w.key, aymc)
  /\ Stamped(w) /\ UNCHANGED captures /\ Others

Exits(w, code) ==
  /\ tools' = tools \ {w}
  /\ Writing(w.run, w.key,
       [p \in Procs |-> IF p = w.parent /\ ~w.orphan THEN [aymc[p] EXCEPT !.exit = code] ELSE aymc[p]])
  /\ UNCHANGED captures /\ Others

Fills(w) ==
  /\ w.opened
  /\ LET own == file[w.key].by = Opener(w) IN
       /\ file' = IF own THEN [file EXCEPT ![w.key] = Whole(Opener(w), w.holds)] ELSE file
       /\ IF own THEN Stamped(w) ELSE UNCHANGED older
  /\ Exits(w, "ok")

(* A tool that fails removes what it has written of its output.            *)
Fails(w) ==
  /\ file' = IF file[w.key].by = Opener(w) THEN [file EXCEPT ![w.key] = Absent] ELSE file
  /\ UNCHANGED older
  /\ Exits(w, "failed")
-----------------------------------------------------------------------------
Finish(p) ==
  /\ aymc[p].busy /\ aymc[p].plan = << >>
  /\ Set(p, Idle)
  /\ UNCHANGED <<file, older>> /\ NoTool /\ Others

(* aymc is killed, with its tool or without. *)
Crash(p) ==
  /\ aymc[p].busy
  /\ killed' = killed \cup {aymc[p].run}
  /\ Set(p, Idle)
  /\ \/ tools' = tools \ Child(p)
     \/ tools' = (tools \ Child(p)) \cup Orphaned(Child(p))
  /\ UNCHANGED <<file, older, captures, runtime, sound, runs, edits>>

(* A source of the runtime changes: the file itself, or one it includes,   *)
(* whose time stamp nobody looks at.  A change while the object is being   *)
(* compiled is older than the object.                                      *)
Changes(u, stamped) ==
  /\ edits < MaxEdits /\ edits' = edits + 1
  /\ runtime' = [runtime EXCEPT ![u] = @ + 1]
  /\ older' = IF stamped THEN older \cup {u} ELSE older
  /\ sound' = (sound /\ stamped /\ ~\E w \in tools : w.key = <<"cached", u>> /\ w.opened)
  /\ aymc' = [p \in Procs |-> [aymc[p] EXCEPT !.quiet = FALSE]]
  /\ UNCHANGED <<file, tools, captures, killed, runs>>

EditSource == \E u \in Unit : Changes(u, TRUE)
EditIncluded == \E u \in Including : Changes(u, FALSE)

Step(p) ==
  \/ Generate(p) \/ NotGenerated(p) \/ Tidy(p) \/ FindObject(p)
  \/ CacheHit(p) \/ Spawn(p) \/ NotSpawned(p)
  \/ Reap(p) \/ Kill(p)
  \/ Finish(p)

Next ==
  \/ \E p \in Procs : Step(p) \/ Elapse(p) \/ Crash(p) \/ \E c \in Commands[p] : Start(p, c)
  \/ \E w \in tools : Opens(w) \/ Fills(w) \/ Fails(w)
  \/ EditSource \/ EditIncluded

(* aymc goes on when it can, and time passes.  Nothing is assumed of the   *)
(* tools: they may hang.                                                   *)
Fairness == \A p \in Procs : WF_vars(Step(p)) /\ WF_vars(Elapse(p))

Spec == Init /\ [][Next]_vars /\ Fairness
-----------------------------------------------------------------------------
(* Exit code 0 means the output is what was asked for, complete, with the  *)
(* program of this invocation and the runtime as it is now, whatever other *)
(* invocations with other outputs do to the cache and whatever killed ones *)
(* have left: as long as nobody else writes this output, and every change  *)
(* of the runtime shows in the time stamps.                                *)
Succeeds(p) == aymc[p].busy /\ aymc[p].plan = << >> /\ aymc[p].quiet
SuccessIsFresh ==
  \A p \in Procs : Succeeds(p) =>
    LET obj == file[Here(p, "obj")]
        bin == file[Here(p, "bin")]
    IN  /\ obj.part = "whole"
        /\ aymc[p].cmd.mode # "link" => obj.holds = Program(aymc[p].run)
        /\ aymc[p].cmd.mode # "compile" =>
             /\ bin.part = "whole" /\ obj.holds \subseteq bin.holds
             /\ sound => bin.holds = obj.holds \cup {<<u, runtime[u]>> : u \in Unit}

(* Between two stages, and when aymc has ended other than by a signal, its *)
(* child is gone and its capture files are removed.                        *)
NothingLeftBehind ==
  /\ \A w \in tools : ~w.orphan => aymc[w.parent].run = w.run /\ aymc[w.parent].phase # "ready"
  /\ \A r \in captures \ killed : \E p \in Procs : aymc[p].run = r /\ aymc[p].phase # "ready"

(* --tool-timeout-ms, "Timeout maximo por comando externo": an invocation  *)
(* with a timeout ends although its tools may hang.                        *)
TimeoutEnds ==
  \A p \in Procs : (aymc[p].busy /\ aymc[p].cmd.limited) ~> ~aymc[p].busy
=============================================================================
