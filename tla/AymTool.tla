------------------------------ MODULE AymTool ------------------------------
(***************************************************************************)
(* The commands of aym (tools/aym/main.cpp) over the files of one project: *)
(* manifest, lock file, local repository and cache of packages             *)
(* (compiler/utils/project_tool.cpp).  Processes take no lock of any kind, *)
(* so commands interleave at every file access; a command may be killed    *)
(* at any of them, and the user edits files in between.                    *)
(***************************************************************************)
EXTENDS ProjectFiles, SequencesExt

CONSTANTS
  Procs,          \* processes running aym
  Commands,       \* the command lines they may be given
  MaxCommands,    \* bound: commands started
  MaxEdits        \* bound: edits by the user

VARIABLES
  manifest, lock,      \* aym.toml, aym.lock
  repo,                \* .aym/repo: the edition of each package's modules, 0 when absent
  cache,               \* .aym/cache: how much of a package is there, and of which edition
  proc,                \* the processes
  quiet,               \* history: nobody else has written since the command began
  started, edits       \* counters of the bounds

files == <<manifest, lock, repo, cache>>
vars == <<files, proc, quiet, started, edits>>

Packages == Deps \X Versions
Package(d, table) == <<d, Resolved[table[d]]>>

(* A cached package: nothing, its directories, a module file created but   *)
(* not filled, the whole copy.  Edition 1 is a seed without modules.       *)
Parts == {"none", "dirs", "torn", "whole"}
Uncached == [part |-> "none", of |-> 0]

Names == {"build", "lock sync", "lock check", "cache status", "cache sync",
          "cache doctor", "cache clean", "add"}
Freezable == {"build", "lock sync", "lock check", "cache sync"}

(* A command line as far as its options matter; others are refused before  *)
(* a file is touched, and so is add --frozen.                              *)
Command ==
  {c \in [name : Names, frozen : BOOLEAN, doctor : BOOLEAN, fix : BOOLEAN,
           dep : Deps, req : Requirements] :
     /\ c.frozen => c.name \in Freezable
     /\ c.doctor => c.name = "build"
     /\ c.fix => c.doctor \/ c.name = "cache doctor"}

ASSUME CommandsAssumption == Commands \subseteq Command
ASSUME BoundsAssumption == Commands # {} /\ MaxEdits \in Nat

SomeCommand == CHOOSE c \in Commands : TRUE

Idle(result, cmd) ==
  [cmd |-> cmd, plan |-> << >>, running |-> FALSE, result |-> result,
   base |-> EmptyManifest, ws |-> EmptyManifest, seen |-> EmptyManifest,
   pkgs |-> << >>, used |-> {}]
-----------------------------------------------------------------------------
(* The file accesses each command makes, in order.  `aymc --check-manifest *)
(* --emit-lock` and `aymc --check-manifest --check-lock` are children that *)
(* read the manifest again.                                                *)
SyncSteps == <<"read", "truncate lock", "write lock">>
CheckSteps == <<"read", "check lock">>

(* Mutants: --frozen is not looked at; the lock is checked before it is    *)
(* written.                                                                *)
FlowThawed(c) == SyncSteps \o CheckSteps
FlowChecksFirst(c) == IF c.frozen THEN CheckSteps ELSE CheckSteps \o SyncSteps

Flow(c) == IF c.frozen THEN CheckSteps ELSE SyncSteps \o CheckSteps

(* aym build; run and test differ in what they do with the result.         *)
BuildPlan(c) ==
  <<"load">> \o Flow(c) \o (IF c.doctor THEN <<"doctor">> ELSE << >>)
             \o <<"prepare", "compile">>

LockPlan(c) ==
  <<"load">> \o (IF c.name = "lock check" THEN CheckSteps ELSE Flow(c)) \o <<"verify">>

CachePlan(c) ==
  <<"load">> \o (CASE c.name = "cache status" -> <<"verify">>
                   [] c.name = "cache sync" -> Flow(c) \o <<"prepare", "verify">>
                   [] c.name = "cache doctor" -> <<"doctor">>
                   [] c.name = "cache clean" -> <<"clean">>)

AddPlan ==
  <<"load", "upsert", "truncate manifest", "write manifest", "load">>
    \o SyncSteps \o <<"load">> \o CheckSteps \o <<"prepare">>

Plan(c) ==
  CASE c.name = "build" -> BuildPlan(c)
    [] c.name \in {"lock sync", "lock check"} -> LockPlan(c)
    [] c.name = "add" -> AddPlan
    [] OTHER -> CachePlan(c)

(* What a doctor with a fix does about a lock it cannot inspect.           *)
Repair(c) ==
  IF c.name = "cache doctor" THEN SyncSteps \o <<"load">> \o CheckSteps \o <<"prepare">>
  ELSE <<"prepare">>

(* syncDependencyToCache, and the seed before it, for every package.       *)
CopySteps == <<"seed", "uncache", "make dirs", "create file", "fill file">>
CopyAll(n) == [i \in 1..(n * Len(CopySteps)) |-> CopySteps[((i - 1) % Len(CopySteps)) + 1]]

(* The imports of the source: each package of the manifest, manifest first.*)
ImportAll(n) == [i \in 1..(2 * n) |-> IF i % 2 = 1 THEN "import" ELSE "find module"]

InOrder(D) ==
  CHOOSE s \in [1..Cardinality(D) -> D] : \A i, j \in DOMAIN s : i < j => s[i] < s[j]
-----------------------------------------------------------------------------
(* A project just made by aym new, or one that was locked and built before *)
(* and whose packages have had their modules put into the repository.      *)
Init ==
  /\ \E table \in {t \in Tables : Resolvable(t)} :
       LET used == {Package(d, table) : d \in DOMAIN table} IN
         /\ \E later \in SUBSET DOMAIN table :
              manifest = [package |-> TRUE, deps |-> table, later |-> later]
         /\ lock = IF used = {} THEN LockOf("absent") ELSE LockText(manifest)
         /\ repo = [k \in Packages |-> IF k \in used THEN 2 ELSE 0]
         /\ cache = [k \in Packages |-> IF k \in used THEN [part |-> "whole", of |-> 2] ELSE Uncached]
  /\ proc = [p \in Procs |-> Idle("none", SomeCommand)]
  /\ quiet = [p \in Procs |-> FALSE]
  /\ started = 0 /\ edits = 0

Start(p, c) ==
  /\ ~proc[p].running /\ started < MaxCommands
  /\ proc' = [proc EXCEPT ![p] = [Idle("none", c) EXCEPT !.running = TRUE, !.plan = Plan(c),
                       !.base = IF c.name = "add" THEN manifest ELSE EmptyManifest]]
  /\ quiet' = [quiet EXCEPT ![p] = TRUE]
  /\ started' = started + 1
  /\ UNCHANGED <<files, edits>>

At(p, step) == proc[p].running /\ proc[p].plan # << >> /\ Head(proc[p].plan) = step

(* The step is done: the process goes on with `then` before the rest.      *)
Record(p, then) == [proc[p] EXCEPT !.plan = then \o Tail(@)]
Continue(p, rec) == proc' = [proc EXCEPT ![p] = rec]
End(p, result) ==
  Continue(p, Idle(result, IF result = "failed" THEN proc[p].cmd ELSE SomeCommand))
Otherwise(p, ok, rec) == IF ok THEN Continue(p, rec) ELSE End(p, "failed")

Reads == UNCHANGED <<files, quiet, started, edits>>
Writes(p) ==
  /\ quiet' = [q \in Procs |-> quiet[q] /\ q = p]
  /\ UNCHANGED <<started, edits>>

(* loadProjectWorkspace (and the parse that ends an upsert).               *)
Load(p) ==
  /\ At(p, "load")
  /\ Otherwise(p, Valid(manifest), [Record(p, << >>) EXCEPT !.ws = manifest])
  /\ Reads

(* aymc --check-manifest.                                                  *)
ReadManifest(p) ==
  /\ At(p, "read")
  /\ Otherwise(p, Valid(manifest), [Record(p, << >>) EXCEPT !.seen = manifest])
  /\ Reads

(* --emit-lock: the file is truncated, and written when the stream closes, *)
(* as far as the dependencies were resolved.                               *)
TruncateLock(p) ==
  /\ At(p, "truncate lock")
  /\ lock' = LockOf("empty")
  /\ Continue(p, Record(p, << >>))
  /\ Writes(p) /\ UNCHANGED <<manifest, repo, cache>>

WriteLock(p) ==
  /\ At(p, "write lock")
  /\ lock' \in LockAfterWrite(lock, LockText(proc[p].seen))
  /\ Otherwise(p, Resolvable(proc[p].seen.deps), Record(p, << >>))
  /\ Writes(p) /\ UNCHANGED <<manifest, repo, cache>>

(* --check-lock, against the manifest this child has read.                 *)
CheckLock(p) ==
  /\ At(p, "check lock")
  /\ Otherwise(p, Parses(lock) /\ Verifies(proc[p].seen, lock), Record(p, << >>))
  /\ Reads

(* loadVerifiedLock, and cache status: against the workspace loaded first. *)
LockIsGood(p) == Parses(lock) /\ Verifies(proc[p].ws, lock)
VerifyLock(p) ==
  /\ At(p, "verify")
  /\ Otherwise(p, LockIsGood(p), Record(p, << >>))
  /\ Reads
-----------------------------------------------------------------------------
(* Mutant: a package that is in the cache is not copied again. *)
PrepareMissing(p) ==
  /\ At(p, "prepare")
  /\ LET order == InOrder({d \in DOMAIN lock.deps : cache[Package(d, lock.deps)].part = "none"})
     IN  Otherwise(p, LockIsGood(p),
           [Record(p, CopyAll(Len(order))) EXCEPT
              !.pkgs = [i \in DOMAIN order |-> Package(order[i], lock.deps)]])
  /\ Reads

(* prepareProjectDependencyCache: the packages of the lock, verified once  *)
(* more, are seeded in the repository and copied to the cache.             *)
Prepare(p) ==
  /\ At(p, "prepare")
  /\ LET order == InOrder(DOMAIN lock.deps)
     IN  Otherwise(p, LockIsGood(p),
           [Record(p, CopyAll(Cardinality(DOMAIN lock.deps))) EXCEPT
              !.pkgs = [i \in DOMAIN order |-> Package(order[i], lock.deps)]])
  /\ Reads

(* Mutant: the seed does not look whether the package is there. *)
SeedAgain(p) ==
  /\ At(p, "seed")
  /\ LET k == Head(proc[p].pkgs) IN repo' = [repo EXCEPT ![k] = @ + 1]
  /\ Continue(p, Record(p, << >>))
  /\ Writes(p) /\ UNCHANGED <<manifest, lock, cache>>

Seed(p) ==
  /\ At(p, "seed")
  /\ LET k == Head(proc[p].pkgs) IN repo' = [repo EXCEPT ![k] = IF @ = 0 THEN 1 ELSE @]
  /\ Continue(p, Record(p, << >>))
  /\ Writes(p) /\ UNCHANGED <<manifest, lock, cache>>

Uncache(p) ==
  /\ At(p, "uncache")
  /\ cache' = [cache EXCEPT ![Head(proc[p].pkgs)] = Uncached]
  /\ Continue(p, Record(p, << >>))
  /\ Writes(p) /\ UNCHANGED <<manifest, lock, repo>>

(* fs::copy fails when the source, or the directory it copies into, is gone*)
(* by then.                                                                *)
MakeDirs(p) ==
  /\ At(p, "make dirs")
  /\ LET k == Head(proc[p].pkgs) IN
       /\ cache' = IF repo[k] = 0 \/ cache[k].part # "none" THEN cache
                   ELSE [cache EXCEPT ![k] = [part |-> "dirs", of |-> 0]]
       /\ Otherwise(p, repo[k] # 0, Record(p, << >>))
  /\ Writes(p) /\ UNCHANGED <<manifest, lock, repo>>

CreateFile(p) ==
  /\ At(p, "create file")
  /\ LET k == Head(proc[p].pkgs)
         ok == repo[k] # 0 /\ cache[k].part # "none"
     IN  /\ cache' = IF ok THEN [cache EXCEPT ![k] = [part |-> "torn", of |-> 0]] ELSE cache
         /\ Otherwise(p, ok, Record(p, << >>))
  /\ Writes(p) /\ UNCHANGED <<manifest, lock, repo>>

FillFile(p) ==
  /\ At(p, "fill file")
  /\ LET k == Head(proc[p].pkgs) IN
       cache' = IF cache[k].part \in {"torn", "whole"}
                  THEN [cache EXCEPT ![k] = [part |-> "whole", of |-> repo[k]]] ELSE cache
  /\ Continue(p, [Record(p, << >>) EXCEPT !.pkgs = Tail(@)])
  /\ Writes(p) /\ UNCHANGED <<manifest, lock, repo>>

(* Mutant: the cache is not looked at. *)
PresentInRepo(k) == repo[k] # 0

(* inspectProjectDependencyStore inside a doctor: the directories of every *)
(* locked package.  A doctor with a fix repairs what it finds, and looks   *)
(* again: after a bad lock as if for the first time, after a missing       *)
(* directory for the last.                                                 *)
Present(k) == repo[k] # 0 /\ cache[k].part # "none"
StorePresent(table) == \A d \in DOMAIN table : Present(Package(d, table))

DoctorSteps == {"doctor", "doctor again", "doctor last"}
Doctor(p) ==
  \E step \in DoctorSteps :
    /\ At(p, step)
    /\ LET c == proc[p].cmd IN
         IF LockIsGood(p)
           THEN IF StorePresent(lock.deps) THEN Continue(p, Record(p, << >>))
                ELSE Otherwise(p, c.fix /\ step # "doctor last",
                               Record(p, <<"prepare", "doctor last">>))
           ELSE Otherwise(p, c.fix /\ step = "doctor",
                          Record(p, Repair(c) \o <<"doctor again">>))
    /\ Reads

(* cache clean: --cache (the default), --repo or --all.                    *)
Clean(p) ==
  /\ At(p, "clean")
  /\ \E which \in {{"cache"}, {"repo"}, {"cache", "repo"}} :
       /\ cache' = IF "cache" \in which THEN [k \in Packages |-> Uncached] ELSE cache
       /\ repo' = IF "repo" \in which THEN [k \in Packages |-> 0] ELSE repo
  /\ Continue(p, Record(p, << >>))
  /\ Writes(p) /\ UNCHANGED <<manifest, lock>>
-----------------------------------------------------------------------------
(* upsertProjectDependency reads the lines, edits them, and writes the     *)
(* whole file: truncated first, filled when the stream closes.             *)
ReadLines(p) ==
  /\ At(p, "upsert")
  /\ Continue(p, [Record(p, << >>) EXCEPT
                    !.seen = Upsert(manifest, proc[p].cmd.dep, proc[p].cmd.req)])
  /\ Reads

TruncateManifest(p) ==
  /\ At(p, "truncate manifest")
  /\ manifest' = EmptyManifest
  /\ Continue(p, Record(p, << >>))
  /\ Writes(p) /\ UNCHANGED <<lock, repo, cache>>

WriteManifest(p) ==
  /\ At(p, "write manifest")
  /\ manifest' \in ManifestAfterWrite(manifest, proc[p].seen)
  /\ Continue(p, Record(p, << >>))
  /\ Writes(p) /\ UNCHANGED <<lock, repo, cache>>
-----------------------------------------------------------------------------
(* aymc on the source of the project: it may be missing or wrong, or it    *)
(* imports a module of each package of the manifest.                       *)
Compile(p) ==
  /\ At(p, "compile")
  /\ LET order == InOrder(DOMAIN proc[p].ws.deps)
     IN  Continue(p, [Record(p, ImportAll(Cardinality(DOMAIN proc[p].ws.deps))) EXCEPT
                        !.pkgs = [i \in DOMAIN order |-> <<order[i]>>]])
  /\ Reads

CompileFails(p) == At(p, "compile") /\ End(p, "failed") /\ Reads

(* findPackageModulePath: the manifest, then the lock, which is verified   *)
(* when the manifest declares the package; then the cache, then the repo.  *)
Import(p) ==
  /\ At(p, "import")
  /\ Otherwise(p, Valid(manifest), [Record(p, << >>) EXCEPT !.seen = manifest])
  /\ Reads

(* Mutant: a declared package is not verified. *)
LocksAny(p, d) == Parses(lock) /\ d \in DOMAIN lock.deps

Locks(p, d) ==
  /\ Parses(lock) /\ d \in DOMAIN lock.deps
  /\ d \in DOMAIN proc[p].seen.deps => Verifies(proc[p].seen, lock)

Found(k) ==
  IF cache[k].part = "torn" \/ (cache[k].part = "whole" /\ cache[k].of > 1)
    THEN [pkg |-> k, part |-> cache[k].part, of |-> cache[k].of]
    ELSE [pkg |-> k, part |-> "whole", of |-> repo[k]]

FindModule(p) ==
  /\ At(p, "find module")
  /\ LET d == Head(proc[p].pkgs)[1] IN
       IF ~Locks(p, d) THEN End(p, "failed")
       ELSE LET found == Found(Package(d, lock.deps))
            IN  Otherwise(p, found.part = "torn" \/ found.of > 1,
                          [Record(p, << >>) EXCEPT !.pkgs = Tail(@), !.used = @ \cup {found}])
  /\ Reads

(* The command ends with exit code 0. *)
Finish(p) ==
  /\ proc[p].running /\ proc[p].plan = << >>
  /\ End(p, "ok")
  /\ Reads

(* It is killed, and what it has written stays as it is. *)
Crash(p) ==
  /\ proc[p].running
  /\ End(p, "killed")
  /\ Reads
-----------------------------------------------------------------------------
(* The user, with an editor. *)
Edits ==
  /\ edits < MaxEdits
  /\ edits' = edits + 1
  /\ quiet' = [q \in Procs |-> FALSE]
  /\ UNCHANGED <<lock, cache, proc, started>>

EditManifest ==
  /\ \E d \in Deps :
       \/ LET others == [e \in DOMAIN manifest.deps \ {d} |-> manifest.deps[e]] IN
          \E table \in {others} \cup {With(others, d, r) : r \in Requirements} :
            manifest' = [package |-> TRUE, deps |-> table, later |-> manifest.later \ {d}]
       \/ /\ d \in DOMAIN manifest.deps
          /\ manifest' = [manifest EXCEPT !.package = TRUE, !.later = @ \cup {d}]
  /\ Edits /\ UNCHANGED repo

EditModules ==
  /\ \E k \in Packages : repo[k] # 0 /\ repo' = [repo EXCEPT ![k] = @ + 1]
  /\ Edits /\ UNCHANGED manifest

Step(p) ==
  \/ Load(p) \/ ReadManifest(p) \/ TruncateLock(p) \/ WriteLock(p)
  \/ CheckLock(p) \/ VerifyLock(p)
  \/ Prepare(p) \/ Seed(p) \/ Uncache(p) \/ MakeDirs(p) \/ CreateFile(p) \/ FillFile(p)
  \/ Doctor(p) \/ Clean(p)
  \/ ReadLines(p) \/ TruncateManifest(p) \/ WriteManifest(p)
  \/ Compile(p) \/ CompileFails(p) \/ Import(p) \/ FindModule(p)
  \/ Finish(p)

Next ==
  \/ \E p \in Procs : Step(p) \/ Crash(p) \/ \E c \in Commands : Start(p, c)
  \/ EditManifest \/ EditModules

Spec == Init /\ [][Next]_vars
-----------------------------------------------------------------------------
Stages == {"load", "read", "truncate lock", "write lock", "check lock", "verify",
           "prepare", "clean", "compile", "import", "find module", "upsert",
           "truncate manifest", "write manifest", "seed", "uncache", "make dirs",
           "create file", "fill file", "doctor", "doctor again", "doctor last"}

TypeOK ==
  /\ manifest \in Manifest /\ lock \in Lock
  /\ \A k \in Packages :
       /\ repo[k] \in 0..(2 + MaxEdits)
       /\ cache[k].part \in Parts /\ cache[k].of \in 0..(2 + MaxEdits)
  /\ \A p \in Procs :
       /\ proc[p].cmd \in Commands
       /\ proc[p].ws \in Manifest /\ proc[p].seen \in Manifest
       /\ Range(proc[p].plan) \subseteq Stages
       /\ proc[p].result \in {"none", "ok", "failed", "killed"}

(* main.cpp:41, "--frozen evita regenerar aym.lock": no step of a frozen   *)
(* command changes the lock or the manifest, whatever repair it also asks  *)
(* for; nor does one of a command that only looks or cleans.               *)
ReadOnly(c) ==
  c.frozen \/ c.name \in {"lock check", "cache status", "cache clean"}
           \/ (c.name = "cache doctor" /\ ~c.fix)
FrozenKeepsProject ==
  [][\A p \in Procs : proc'[p] # proc[p] /\ proc[p].running /\ ReadOnly(proc[p].cmd)
       => UNCHANGED <<manifest, lock>>]_vars

(* A lock that passes verification is the whole lock of that manifest: one *)
(* cut short by a kill or an unresolvable requirement, or overwritten by   *)
(* two commands at once, never passes for another.                         *)
VerifiedLockIsWhole ==
  \A table \in Tables :
    LET m == [package |-> TRUE, deps |-> table, later |-> {}] IN
      Parses(lock) /\ Verifies(m, lock) => lock = LockText(m) /\ Resolvable(table)

(* Nothing but this command has written since it began.                    *)
Succeeds(p) == proc[p].running /\ proc[p].plan = << >> /\ quiet[p]
Fails(p) == ~proc[p].running /\ proc[p].result = "failed" /\ quiet[p]

(* A command that ends with exit code 0, undisturbed, leaves the lock of   *)
(* the manifest that is on disk.                                           *)
SuccessMeansLocked ==
  \A p \in Procs : Succeeds(p) /\ proc[p].cmd.name # "cache clean" =>
    Valid(manifest) /\ lock = LockText(manifest)

(* manual_usuario.md:245: `aym lock sync` mends any disagreement, whatever *)
(* killed commands and failed ones left behind; it fails, undisturbed, for *)
(* a manifest that is broken or cannot be resolved, and so do cache sync,  *)
(* cache doctor --fix and add.                                             *)
Mends(c) ==
  \/ c.name = "add"
  \/ c.name \in {"lock sync", "cache sync"} /\ ~c.frozen
  \/ c.name = "cache doctor" /\ c.fix
SyncMends ==
  \A p \in Procs : Fails(p) /\ Mends(proc[p].cmd) =>
    ~Valid(manifest) \/ ~Resolvable(manifest.deps)

(* An undisturbed build imports, for each dependency, the version its      *)
(* manifest resolves to, from a whole copy of what the repository holds,   *)
(* never from what an earlier, killed copy has left.                       *)
CompilesWhole ==
  \A p \in Procs : proc[p].running /\ quiet[p] =>
    \A u \in proc[p].used :
      /\ \E d \in DOMAIN proc[p].ws.deps : u.pkg = Package(d, proc[p].ws.deps)
      /\ u.part = "whole" /\ u.of = repo[u.pkg]

(* "Doctor OK": every locked package is in the repository and the cache,   *)
(* after a doctor and after a sync.                                        *)
DoctorFindsAll ==
  \A p \in Procs : Succeeds(p) /\ proc[p].cmd.name \in {"cache doctor", "cache sync", "add"} =>
    \A d \in DOMAIN lock.deps :
      LET k == Package(d, lock.deps) IN repo[k] # 0 /\ cache[k].part # "none"

(* An undisturbed add puts the requirement of the one dependency in force  *)
(* and changes no other; except that it changes nothing in force, and ends *)
(* with exit code 0, when a later line of aym.toml gives the name again.   *)
AddIsExact ==
  \A p \in Procs : Succeeds(p) /\ proc[p].cmd.name = "add" =>
    LET c == proc[p].cmd
        base == proc[p].base
    IN  /\ DOMAIN manifest.deps = DOMAIN base.deps \cup {c.dep}
        /\ \A d \in DOMAIN manifest.deps :
             manifest.deps[d] = IF d = c.dep /\ d \notin base.later THEN c.req ELSE base.deps[d]
=============================================================================
