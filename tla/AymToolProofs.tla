--------------------------- MODULE AymToolProofs ---------------------------
(***************************************************************************)
(* For any number of processes, commands, dependencies, edits and kills: a *)
(* lock that verifies is whole, and frozen commands never touch it; and of *)
(* a command that nobody disturbs, what its success and its failure mean.  *)
(* The last part follows the plans of AymToolPlans: every command line     *)
(* plans what it needs before it needs it, and every step keeps what is    *)
(* known.                                                                  *)
(***************************************************************************)
EXTENDS AymToolPlans, AscendingProofs

WriteSteps == {"truncate lock", "write lock", "truncate manifest", "write manifest"}
CalmStages == Stages \ WriteSteps

Fields == {"cmd", "plan", "running", "result", "base", "ws", "seen", "pkgs", "used"}

(* A process: what is left to do consists of known stages, and of none     *)
(* that writes a project file when the command may only read them.         *)
ProcOK(r) ==
  /\ DOMAIN r = Fields
  /\ r.plan \in Seq(Stages)
  /\ r.ws \in Manifest /\ r.seen \in Manifest
  /\ r.running => /\ r.cmd \in Command
                  /\ ReadOnly(r.cmd) => r.plan \in Seq(CalmStages)

(* Nothing unresolved was ever written to a lock. *)
Entries(l) == \A d \in DOMAIN l.deps : Resolved[l.deps[d]] # Unresolvable

ProcsOK == DOMAIN proc = Procs /\ \A p \in Procs : ProcOK(proc[p])
FilesOK == manifest \in Manifest /\ lock \in Lock /\ Entries(lock)
IInv == ProcsOK /\ FilesOK
-----------------------------------------------------------------------------
(* Tables of dependencies. *)
LEMMA TableMember ==
  ASSUME NEW t
  PROVE  t \in Tables <=> /\ DOMAIN t \subseteq Deps
                          /\ t \in [DOMAIN t -> Requirements]
BY DEF Tables

LEMMA WithMember ==
  ASSUME NEW t \in Tables, NEW d \in Deps, NEW r \in Requirements
  PROVE  With(t, d, r) \in Tables
<1>1. /\ DOMAIN With(t, d, r) = DOMAIN t \cup {d}
      /\ \A e \in DOMAIN With(t, d, r) : With(t, d, r)[e] \in Requirements
  BY TableMember DEF With
<1>2. With(t, d, r) \in [DOMAIN With(t, d, r) -> Requirements]
  BY <1>1 DEF With
<1>3. QED BY <1>1, <1>2, TableMember

LEMMA WithTailMember ==
  ASSUME NEW s \in Tables, NEW t \in Tables
  PROVE  WithTail(s, t) \in Tables
<1>1. /\ DOMAIN WithTail(s, t) = DOMAIN s \cup DOMAIN t
      /\ \A e \in DOMAIN WithTail(s, t) : WithTail(s, t)[e] \in Requirements
  BY TableMember DEF WithTail
<1>2. WithTail(s, t) \in [DOMAIN WithTail(s, t) -> Requirements]
  BY <1>1 DEF WithTail
<1>3. QED BY <1>1, <1>2, TableMember

LEMMA NoDepsMember == NoDeps \in Tables
<1>1. DOMAIN NoDeps = {} /\ NoDeps \in [DOMAIN NoDeps -> Requirements]
  BY DEF NoDeps
<1>2. QED BY <1>1, TableMember
-----------------------------------------------------------------------------
(* What each command plans, as sequences of stages.                        *)
LEMMA Literals ==
  ASSUME NEW S, NEW a \in S, NEW b \in S, NEW c \in S, NEW d \in S, NEW e \in S
  PROVE  /\ <<a>> \in Seq(S) /\ <<a, b>> \in Seq(S) /\ <<a, b, c>> \in Seq(S)
         /\ <<a, b, c, d, e>> \in Seq(S)
OBVIOUS

LEMMA FlowParts ==
  /\ CheckSteps \in Seq(CalmStages) /\ CheckSteps \in Seq(Stages)
  /\ SyncSteps \in Seq(Stages)
<1>1. "read" \in CalmStages /\ "check lock" \in CalmStages
  BY DEF Stages, CalmStages, WriteSteps
<1>2. "read" \in Stages /\ "check lock" \in Stages /\ "truncate lock" \in Stages
      /\ "write lock" \in Stages
  BY DEF Stages
<1>3. QED BY <1>1, <1>2, Literals DEF CheckSteps, SyncSteps

LEMMA FlowStages ==
  ASSUME NEW c \in Command
  PROVE  /\ Flow(c) \in Seq(Stages)
         /\ c.frozen => Flow(c) \in Seq(CalmStages)
<1>1. SyncSteps \o CheckSteps \in Seq(Stages)
  BY FlowParts, ConcatProperties
<1>2. QED BY <1>1, FlowParts DEF Flow

(* The copying of packages and the imports of a source are calm.           *)
LEMMA CopyAllCalm ==
  ASSUME NEW n \in Nat
  PROVE  CopyAll(n) \in Seq(CalmStages)
<1>1. \A i \in 1..(n * 5) : ((i - 1) % 5) + 1 \in 1..5
  OBVIOUS
<1>2. CopySteps \in [1..5 -> CalmStages] /\ Len(CopySteps) = 5
  <2>1. /\ "seed" \in CalmStages /\ "uncache" \in CalmStages /\ "make dirs" \in CalmStages
        /\ "create file" \in CalmStages /\ "fill file" \in CalmStages
    BY DEF CalmStages, Stages, WriteSteps
  <2>2. CopySteps \in Seq(CalmStages) /\ Len(CopySteps) = 5
    BY <2>1, Literals DEF CopySteps
  <2>3. QED BY <2>2, LenProperties
<1>3. \A i \in 1..(n * 5) : CopySteps[((i - 1) % 5) + 1] \in CalmStages
  BY <1>1, <1>2
<1>4. n * 5 \in Nat
  OBVIOUS
<1>5. CopyAll(n) = [i \in 1..(n * 5) |-> CopySteps[((i - 1) % 5) + 1]]
  BY <1>2 DEF CopyAll
<1>6. CopyAll(n) \in [1..(n * 5) -> CalmStages]
  BY <1>3, <1>5
<1>7. QED BY <1>4, <1>6, SeqDef

LEMMA ImportAllCalm ==
  ASSUME NEW n \in Nat
  PROVE  ImportAll(n) \in Seq(CalmStages)
<1>1. "import" \in CalmStages /\ "find module" \in CalmStages
  BY DEF CalmStages, Stages, WriteSteps
<1>2. ImportAll(n) \in [1..(2 * n) -> CalmStages]
  BY <1>1 DEF ImportAll
<1>3. 2 * n \in Nat
  OBVIOUS
<1>4. QED BY <1>2, <1>3, SeqDef

LEMMA CalmIsStages ==
  ASSUME NEW s \in Seq(CalmStages)
  PROVE  s \in Seq(Stages)
<1>1. CalmStages \subseteq Stages
  BY DEF CalmStages
<1>2. QED BY <1>1, SeqMonotonic

(* A plan has only stages of S when the flow of its command has.           *)
LEMMA PlansIn ==
  ASSUME NEW S, CalmStages \subseteq S, NEW c, Flow(c) \in Seq(S)
  PROVE  /\ BuildPlan(c) \in Seq(S) /\ LockPlan(c) \in Seq(S)
         /\ c.name \in {"cache status", "cache sync", "cache doctor", "cache clean"}
              => CachePlan(c) \in Seq(S)
<1>1. /\ "load" \in S /\ "doctor" \in S /\ "prepare" \in S /\ "compile" \in S
      /\ "verify" \in S /\ "clean" \in S
  BY DEF CalmStages, Stages, WriteSteps
<1>2. /\ <<"load">> \in Seq(S) /\ <<"doctor">> \in Seq(S) /\ << >> \in Seq(S)
      /\ <<"prepare", "compile">> \in Seq(S) /\ <<"prepare", "verify">> \in Seq(S)
      /\ <<"verify">> \in Seq(S) /\ <<"clean">> \in Seq(S)
  BY <1>1, Literals, EmptySeq
<1>3. CheckSteps \in Seq(S)
  BY FlowParts, SeqMonotonic
<1>4. BuildPlan(c) \in Seq(S)
  <2>1. <<"load">> \o Flow(c) \in Seq(S)
    BY <1>2, ConcatProperties
  <2>2. <<"load">> \o Flow(c) \o (IF c.doctor THEN <<"doctor">> ELSE << >>) \in Seq(S)
    BY <2>1, <1>2, ConcatProperties
  <2>3. QED BY <2>2, <1>2, ConcatProperties DEF BuildPlan
<1>5. LockPlan(c) \in Seq(S)
  <2>1. <<"load">> \o (IF c.name = "lock check" THEN CheckSteps ELSE Flow(c)) \in Seq(S)
    BY <1>2, <1>3, ConcatProperties
  <2>2. QED BY <2>1, <1>2, ConcatProperties DEF LockPlan
<1>6. ASSUME c.name \in {"cache status", "cache sync", "cache doctor", "cache clean"}
      PROVE  CachePlan(c) \in Seq(S)
  <2>1. Flow(c) \o <<"prepare", "verify">> \in Seq(S)
    BY <1>2, ConcatProperties
  <2> DEFINE rest == CASE c.name = "cache status" -> <<"verify">>
                       [] c.name = "cache sync" -> Flow(c) \o <<"prepare", "verify">>
                       [] c.name = "cache doctor" -> <<"doctor">>
                       [] c.name = "cache clean" -> <<"clean">>
  <2>2. rest \in Seq(S)
    BY <2>1, <1>2, <1>6
  <2>3. CachePlan(c) = <<"load">> \o rest
    BY DEF CachePlan
  <2> HIDE DEF rest
  <2>4. QED BY <2>2, <2>3, <1>2, ConcatProperties
<1>7. QED BY <1>4, <1>5, <1>6

LEMMA SyncAndCheck ==
  /\ AddPlan \in Seq(Stages)
  /\ \A c : Repair(c) \in Seq(Stages)
  /\ \A c : c.name # "cache doctor" => Repair(c) \in Seq(CalmStages)
<1>1. /\ "load" \in Stages /\ "upsert" \in Stages /\ "truncate manifest" \in Stages
      /\ "write manifest" \in Stages /\ "prepare" \in Stages /\ "prepare" \in CalmStages
  BY DEF CalmStages, Stages, WriteSteps
<1>2. /\ <<"load", "upsert", "truncate manifest", "write manifest", "load">> \in Seq(Stages)
      /\ <<"load">> \in Seq(Stages) /\ <<"prepare">> \in Seq(Stages)
      /\ <<"prepare">> \in Seq(CalmStages)
  BY ZenonT(30), <1>1, Literals
<1>3. SyncSteps \o <<"load">> \o CheckSteps \o <<"prepare">> \in Seq(Stages)
  <2>1. SyncSteps \o <<"load">> \in Seq(Stages)
    BY <1>2, FlowParts, ConcatProperties
  <2>2. SyncSteps \o <<"load">> \o CheckSteps \in Seq(Stages)
    BY <2>1, FlowParts, ConcatProperties
  <2>3. QED BY <2>2, <1>2, ConcatProperties
<1>4. AddPlan \in Seq(Stages)
  <2> DEFINE edit == <<"load", "upsert", "truncate manifest", "write manifest", "load">>
  <2>1. edit \in Seq(Stages)
    BY <1>2
  <2>2. AddPlan = edit \o SyncSteps \o <<"load">> \o CheckSteps \o <<"prepare">>
    BY DEF AddPlan
  <2> HIDE DEF edit
  <2>3. edit \o SyncSteps \in Seq(Stages)
    BY <2>1, FlowParts, ConcatProperties
  <2>4. edit \o SyncSteps \o <<"load">> \in Seq(Stages)
    BY <2>3, <1>2, ConcatProperties
  <2>5. edit \o SyncSteps \o <<"load">> \o CheckSteps \in Seq(Stages)
    BY <2>4, FlowParts, ConcatProperties
  <2>6. QED BY <2>2, <2>5, <1>2, ConcatProperties
<1>5. QED BY <1>2, <1>3, <1>4 DEF Repair

(* The plan of a command that may only read never writes.                  *)
LEMMA PlanStages ==
  ASSUME NEW c \in Command
  PROVE  /\ Plan(c) \in Seq(Stages)
         /\ ReadOnly(c) => Plan(c) \in Seq(CalmStages)
<1>1. CalmStages \subseteq Stages /\ c.name \in Names
  BY DEF CalmStages, Command
<1>2. Plan(c) \in Seq(Stages)
  BY <1>1, FlowStages, PlansIn, SyncAndCheck DEF Plan, Names
<1>3. ASSUME c.frozen PROVE Plan(c) \in Seq(CalmStages)
  <2>1. c.name \in Freezable /\ Flow(c) \in Seq(CalmStages)
    BY <1>3, FlowStages DEF Command
  <2>2. QED BY <2>1, PlansIn DEF Plan, Freezable
<1>4. ASSUME ~c.frozen, ReadOnly(c) PROVE Plan(c) \in Seq(CalmStages)
  <2>1. /\ "load" \in CalmStages /\ "verify" \in CalmStages /\ "doctor" \in CalmStages
        /\ "clean" \in CalmStages
    BY DEF CalmStages, Stages, WriteSteps
  <2>2. /\ <<"load">> \in Seq(CalmStages) /\ <<"verify">> \in Seq(CalmStages)
        /\ <<"doctor">> \in Seq(CalmStages) /\ <<"clean">> \in Seq(CalmStages)
    BY <2>1, Literals
  <2>3. CASE c.name = "lock check"
    <3>1. <<"load">> \o CheckSteps \in Seq(CalmStages)
      BY <2>2, FlowParts, ConcatProperties
    <3>2. <<"load">> \o CheckSteps \o <<"verify">> \in Seq(CalmStages)
      BY <3>1, <2>2, ConcatProperties
    <3>3. QED BY <2>3, <3>2 DEF Plan, LockPlan
  <2>4. CASE c.name \in {"cache status", "cache doctor", "cache clean"}
    <3>1. \A s \in Seq(CalmStages) : <<"load">> \o s \in Seq(CalmStages)
      BY <2>2, ConcatProperties
    <3>2. /\ c.name = "cache status" => Plan(c) = <<"load">> \o <<"verify">>
          /\ c.name = "cache doctor" => Plan(c) = <<"load">> \o <<"doctor">>
          /\ c.name = "cache clean" => Plan(c) = <<"load">> \o <<"clean">>
      BY DEF Plan, CachePlan
    <3>3. QED BY <2>2, <2>4, <3>1, <3>2
  <2>5. QED BY <1>4, <2>3, <2>4 DEF ReadOnly
<1>5. QED BY <1>2, <1>3, <1>4
-----------------------------------------------------------------------------
(* How a step changes its process.                                         *)
LEMMA EmptyManifestMember == EmptyManifest \in Manifest
BY NoDepsMember DEF EmptyManifest, Manifest, NoDeps

LEMMA IdleOK == ASSUME NEW result, NEW cmd PROVE ProcOK(Idle(result, cmd))
<1>1. << >> \in Seq(Stages)
  BY EmptySeq
<1>2. QED BY <1>1, EmptyManifestMember DEF ProcOK, Idle, Fields

LEMMA FieldOK ==
  ASSUME NEW r, ProcOK(r)
  PROVE  /\ \A v : ProcOK([r EXCEPT !.pkgs = v])
         /\ \A v, w : ProcOK([r EXCEPT !.pkgs = v, !.used = w])
         /\ \A m \in Manifest : ProcOK([r EXCEPT !.ws = m]) /\ ProcOK([r EXCEPT !.seen = m])
BY DEF ProcOK, Fields

LEMMA RecordOK ==
  ASSUME NEW p \in Procs, ProcOK(proc[p]), proc[p].running, proc[p].plan # << >>,
         NEW then \in Seq(Stages), ReadOnly(proc[p].cmd) => then \in Seq(CalmStages)
  PROVE  ProcOK(Record(p, then))
<1> DEFINE plan == then \o Tail(proc[p].plan)
<1>1. plan \in Seq(Stages)
  BY HeadTailProperties, ConcatProperties DEF ProcOK
<1>2. ReadOnly(proc[p].cmd) => plan \in Seq(CalmStages)
  BY HeadTailProperties, ConcatProperties DEF ProcOK
<1>3. Record(p, then) = [proc[p] EXCEPT !.plan = plan]
  BY DEF Record
<1> HIDE DEF plan
<1>4. QED BY <1>1, <1>2, <1>3 DEF ProcOK, Fields

(* The common case: the step is done and nothing is added.                 *)
LEMMA DoneOK ==
  ASSUME NEW p \in Procs, NEW step, ProcOK(proc[p]), At(p, step)
  PROVE  ProcOK(Record(p, << >>))
<1>1. << >> \in Seq(Stages) /\ << >> \in Seq(CalmStages)
  BY EmptySeq
<1>2. QED BY <1>1, RecordOK DEF At

LEMMA ContinueOK ==
  ASSUME ProcsOK, NEW p \in Procs, NEW rec, ProcOK(rec), Continue(p, rec)
  PROVE  ProcsOK'
<1>1. /\ DOMAIN proc' = Procs
      /\ \A q \in Procs : proc'[q] = IF q = p THEN rec ELSE proc[q]
  BY DEF Continue, ProcsOK
<1>2. \A q \in Procs : ProcOK(proc'[q])
  BY <1>1 DEF ProcsOK
<1>3. \A q \in Procs : ProcOK(proc[q])'
  BY <1>2 DEF ProcOK
<1>4. QED BY <1>1, <1>3 DEF ProcsOK

LEMMA OtherwiseOK ==
  ASSUME ProcsOK, NEW p \in Procs, NEW ok, NEW rec, ok => ProcOK(rec), Otherwise(p, ok, rec)
  PROVE  ProcsOK'
BY ContinueOK, IdleOK DEF Otherwise, End
-----------------------------------------------------------------------------
(* What is written to the two files.                                       *)
LEMMA LockOfOK ==
  ASSUME NEW state \in LockStates
  PROVE  LockOf(state) \in Lock /\ Entries(LockOf(state))
BY NoDepsMember DEF LockOf, Lock, Entries, NoDeps

LEMMA LockTextOK ==
  ASSUME NEW m \in Manifest
  PROVE  LockText(m) \in Lock /\ Entries(LockText(m))
<1>1. m.deps \in Tables
  BY DEF Manifest
<1> DEFINE deps == [d \in Written(m.deps) |-> m.deps[d]]
<1>2. Written(m.deps) \subseteq DOMAIN m.deps
  BY DEF Written
<1>3. deps \in Tables
  <2>1. DOMAIN deps \subseteq Deps /\ deps \in [DOMAIN deps -> Requirements]
    BY <1>1, <1>2, TableMember
  <2> HIDE DEF deps
  <2>2. QED BY <2>1, TableMember
<1>4. \A d \in DOMAIN deps : Resolved[deps[d]] # Unresolvable
  <2>1. \A d \in Written(m.deps) : d <= d
    BY <1>1, <1>2, TableMember, DepsAssumption
  <2>2. QED BY <2>1, <1>2 DEF Written
<1>5. LockText(m) = [state |-> "written", sum |-> m.deps, deps |-> deps]
  BY DEF LockText
<1> HIDE DEF deps
<1>6. QED BY <1>1, <1>3, <1>4, <1>5 DEF Lock, LockStates, Entries

LEMMA LockAfterWriteOK ==
  ASSUME NEW old \in Lock, Entries(old), NEW new \in Lock, Entries(new),
         NEW l \in LockAfterWrite(old, new)
  PROVE  l \in Lock /\ Entries(l)
<1>1. CASE l = new
  BY <1>1
<1>2. CASE l = LockOf("garbled")
  BY <1>2, LockOfOK DEF LockStates
<1>3. CASE l = [new EXCEPT !.deps = WithTail(@, old.deps)]
  <2>1. new.deps \in Tables /\ old.deps \in Tables
    BY DEF Lock
  <2>2. l \in Lock /\ l.deps = WithTail(new.deps, old.deps)
    BY <1>3, <2>1, WithTailMember DEF Lock
  <2>3. QED BY <2>2 DEF Entries, WithTail
<1>4. QED BY <1>1, <1>2, <1>3 DEF LockAfterWrite

LEMMA ManifestAfterWriteOK ==
  ASSUME NEW old \in Manifest, NEW new \in Manifest,
         NEW m \in ManifestAfterWrite(old, new)
  PROVE  m \in Manifest
<1>1. CASE m = [new EXCEPT !.deps = WithTail(@, old.deps)]
  <2>1. new.later \subseteq DOMAIN WithTail(new.deps, old.deps)
    BY DEF Manifest, WithTail
  <2>2. QED BY <1>1, <2>1, WithTailMember DEF Manifest
<1>2. QED BY <1>1, EmptyManifestMember DEF ManifestAfterWrite

LEMMA UpsertOK ==
  ASSUME NEW m \in Manifest, NEW d \in Deps, NEW r \in Requirements
  PROVE  Upsert(m, d, r) \in Manifest
<1>1. m.later \subseteq DOMAIN With(m.deps, d, r)
  BY DEF Manifest, With
<1>2. QED BY <1>1, WithMember DEF Upsert, Manifest
-----------------------------------------------------------------------------
(* Every step of every process keeps the invariant: those that only read,  *)
(* those that touch the packages, and those that write the two files.      *)
LEMMA FilesKept == FilesOK /\ UNCHANGED <<manifest, lock>> => FilesOK'
BY DEF FilesOK, Entries

LEMMA ReadingSteps ==
  ASSUME IInv, NEW p \in Procs,
         \/ Load(p) \/ ReadManifest(p) \/ CheckLock(p) \/ VerifyLock(p) \/ Prepare(p)
         \/ Doctor(p) \/ Compile(p) \/ CompileFails(p) \/ Import(p) \/ FindModule(p)
         \/ Finish(p) \/ Crash(p)
  PROVE  IInv'
<1>1. ProcsOK /\ ProcOK(proc[p]) /\ FilesOK
  BY DEF IInv, ProcsOK
<1>2. UNCHANGED files /\ FilesOK'
  BY <1>1, FilesKept DEF files, Reads, Load, ReadManifest, CheckLock, VerifyLock, Prepare,
     Doctor, Compile, CompileFails, Import, FindModule, Finish, Crash
<1>3. ASSUME Load(p) PROVE ProcsOK'
  <2>1. ProcOK([Record(p, << >>) EXCEPT !.ws = manifest])
    BY <1>1, <1>3, DoneOK, FieldOK DEF Load, FilesOK
  <2>2. QED BY <1>1, <1>3, <2>1, OtherwiseOK DEF Load
<1>4. ASSUME ReadManifest(p) \/ Import(p) PROVE ProcsOK'
  <2>1. ProcOK([Record(p, << >>) EXCEPT !.seen = manifest])
    BY <1>1, <1>4, DoneOK, FieldOK DEF ReadManifest, Import, FilesOK
  <2>2. QED BY <1>1, <1>4, <2>1, OtherwiseOK DEF ReadManifest, Import
<1>5. ASSUME CheckLock(p) \/ VerifyLock(p) PROVE ProcsOK'
  <2>1. ProcOK(Record(p, << >>))
    BY <1>1, <1>5, DoneOK DEF CheckLock, VerifyLock
  <2>2. QED BY <1>1, <1>5, <2>1, OtherwiseOK DEF CheckLock, VerifyLock
<1>6. ASSUME Prepare(p) PROVE ProcsOK'
  <2> DEFINE n == Cardinality(DOMAIN lock.deps)
  <2>1. n \in Nat
    <3>1. DOMAIN lock.deps \subseteq Deps
      BY <1>1, TableMember DEF FilesOK, Lock
    <3>2. QED BY <3>1, FS_Subset, FS_CardinalityType, DepsAssumption
  <2>2. CopyAll(n) \in Seq(CalmStages) /\ CopyAll(n) \in Seq(Stages)
    BY <2>1, CopyAllCalm, CalmIsStages
  <2>3. ProcOK(Record(p, CopyAll(n)))
    BY <1>1, <1>6, <2>2, RecordOK DEF Prepare, At
  <2>4. QED BY <1>1, <1>6, <2>3, FieldOK, OtherwiseOK DEF Prepare
<1>7. ASSUME Compile(p) PROVE ProcsOK'
  <2> DEFINE n == Cardinality(DOMAIN proc[p].ws.deps)
  <2>1. n \in Nat
    <3>1. DOMAIN proc[p].ws.deps \subseteq Deps
      BY <1>1, TableMember DEF ProcOK, Manifest
    <3>2. QED BY <3>1, FS_Subset, FS_CardinalityType, DepsAssumption
  <2>2. ImportAll(n) \in Seq(CalmStages) /\ ImportAll(n) \in Seq(Stages)
    BY <2>1, ImportAllCalm, CalmIsStages
  <2>3. ProcOK(Record(p, ImportAll(n)))
    BY <1>1, <1>7, <2>2, RecordOK DEF Compile, At
  <2>4. QED BY <1>1, <1>7, <2>3, FieldOK, ContinueOK DEF Compile
<1>8. ASSUME FindModule(p) PROVE ProcsOK'
  <2>1. ProcOK(Record(p, << >>))
    BY <1>1, <1>8, DoneOK DEF FindModule
  <2>2. QED BY <1>1, <1>8, <2>1, FieldOK, IdleOK, ContinueOK, OtherwiseOK DEF FindModule, End
<1>9. ASSUME CompileFails(p) \/ Finish(p) \/ Crash(p) PROVE ProcsOK'
  BY <1>1, <1>9, IdleOK, ContinueOK DEF CompileFails, Finish, Crash, End
<1>10. ASSUME Doctor(p) PROVE ProcsOK'
  <2>1. PICK step \in DoctorSteps : At(p, step) /\
           IF LockIsGood(p)
             THEN IF StorePresent(lock.deps) THEN Continue(p, Record(p, << >>))
                  ELSE Otherwise(p, proc[p].cmd.fix /\ step # "doctor last",
                                 Record(p, <<"prepare", "doctor last">>))
             ELSE Otherwise(p, proc[p].cmd.fix /\ step = "doctor",
                            Record(p, Repair(proc[p].cmd) \o <<"doctor again">>))
    BY <1>10 DEF Doctor
  <2>2. proc[p].running /\ proc[p].plan # << >> /\ ProcOK(Record(p, << >>))
    BY <1>1, <2>1, DoneOK DEF At
  <2>3. ProcOK(Record(p, <<"prepare", "doctor last">>))
    <3>1. "prepare" \in CalmStages /\ "doctor last" \in CalmStages
      BY DEF CalmStages, Stages, WriteSteps
    <3>2. <<"prepare", "doctor last">> \in Seq(CalmStages)
      BY <3>1, Literals
    <3>3. QED BY <1>1, <2>2, <3>2, CalmIsStages, RecordOK
  <2>4. ASSUME proc[p].cmd.fix
        PROVE  ProcOK(Record(p, Repair(proc[p].cmd) \o <<"doctor again">>))
    <3>1. ReadOnly(proc[p].cmd) => proc[p].cmd.name # "cache doctor"
      BY <1>1, <2>2, <2>4 DEF ReadOnly, ProcOK, Command, Freezable
    <3>2. "doctor again" \in CalmStages /\ "doctor again" \in Stages
      BY DEF CalmStages, Stages, WriteSteps
    <3>3. <<"doctor again">> \in Seq(CalmStages) /\ <<"doctor again">> \in Seq(Stages)
      BY <3>2, Literals
    <3>4. /\ Repair(proc[p].cmd) \o <<"doctor again">> \in Seq(Stages)
          /\ ReadOnly(proc[p].cmd) =>
               Repair(proc[p].cmd) \o <<"doctor again">> \in Seq(CalmStages)
      BY <3>1, <3>3, SyncAndCheck, ConcatProperties
    <3>5. QED BY <1>1, <2>2, <3>4, RecordOK
  <2>5. QED BY <1>1, <2>1, <2>2, <2>3, <2>4, ContinueOK, OtherwiseOK
<1>11. ProcsOK'
  BY <1>3, <1>4, <1>5, <1>6, <1>7, <1>8, <1>9, <1>10
<1>12. QED BY <1>2, <1>11 DEF IInv

LEMMA PackageSteps ==
  ASSUME IInv, NEW p \in Procs,
         Seed(p) \/ Uncache(p) \/ MakeDirs(p) \/ CreateFile(p) \/ FillFile(p) \/ Clean(p)
  PROVE  IInv' /\ UNCHANGED <<manifest, lock>>
<1>1. ProcsOK /\ ProcOK(proc[p]) /\ FilesOK
  BY DEF IInv, ProcsOK
<1>2. UNCHANGED <<manifest, lock>> /\ FilesOK'
  BY <1>1, FilesKept DEF Seed, Uncache, MakeDirs, CreateFile, FillFile, Clean
<1>3. ProcOK(Record(p, << >>))
  BY <1>1, DoneOK DEF Seed, Uncache, MakeDirs, CreateFile, FillFile, Clean
<1>4. ProcsOK'
  BY <1>1, <1>3, FieldOK, ContinueOK, OtherwiseOK
     DEF Seed, Uncache, MakeDirs, CreateFile, FillFile, Clean
<1>5. QED BY <1>2, <1>4 DEF IInv

LEMMA WritingSteps ==
  ASSUME IInv, NEW p \in Procs,
         \/ TruncateLock(p) \/ WriteLock(p)
         \/ ReadLines(p) \/ TruncateManifest(p) \/ WriteManifest(p)
  PROVE  IInv'
<1>1. ProcsOK /\ ProcOK(proc[p]) /\ FilesOK
  BY DEF IInv, ProcsOK
<1>2. ProcOK(Record(p, << >>)) /\ proc[p].running
  BY <1>1, DoneOK DEF TruncateLock, WriteLock, ReadLines, TruncateManifest, WriteManifest, At
<1>3. proc[p].seen \in Manifest /\ proc[p].cmd \in Command
  BY <1>1, <1>2 DEF ProcOK
<1>4. CASE TruncateLock(p)
  <2>1. lock' = LockOf("empty") /\ manifest' = manifest
    BY <1>4 DEF TruncateLock
  <2>2. FilesOK'
    BY <1>1, <2>1, LockOfOK DEF FilesOK, LockStates, Entries
  <2>3. ProcsOK'
    BY <1>1, <1>2, <1>4, ContinueOK DEF TruncateLock
  <2>4. QED BY <2>2, <2>3 DEF IInv
<1>5. CASE WriteLock(p)
  <2>1. lock' \in LockAfterWrite(lock, LockText(proc[p].seen)) /\ manifest' = manifest
    BY <1>5 DEF WriteLock
  <2>2. lock' \in Lock /\ Entries(lock')
    BY <1>1, <1>3, <2>1, LockTextOK, LockAfterWriteOK DEF FilesOK
  <2>3. FilesOK'
    BY <1>1, <2>1, <2>2 DEF FilesOK, Entries
  <2>4. ProcsOK'
    BY <1>1, <1>2, <1>5, OtherwiseOK DEF WriteLock
  <2>5. QED BY <2>3, <2>4 DEF IInv
<1>6. CASE ReadLines(p)
  <2>1. Upsert(manifest, proc[p].cmd.dep, proc[p].cmd.req) \in Manifest
    BY <1>1, <1>3, UpsertOK DEF FilesOK, Command
  <2>2. ProcsOK'
    BY <1>1, <1>2, <1>6, <2>1, FieldOK, ContinueOK DEF ReadLines
  <2>3. FilesOK'
    BY <1>1, <1>6, FilesKept DEF ReadLines, Reads, files
  <2>4. QED BY <2>2, <2>3 DEF IInv
<1>7. CASE TruncateManifest(p)
  <2>1. manifest' = EmptyManifest /\ lock' = lock
    BY <1>7 DEF TruncateManifest
  <2>2. FilesOK'
    BY <1>1, <2>1, EmptyManifestMember DEF FilesOK, Entries
  <2>3. ProcsOK'
    BY <1>1, <1>2, <1>7, ContinueOK DEF TruncateManifest
  <2>4. QED BY <2>2, <2>3 DEF IInv
<1>8. CASE WriteManifest(p)
  <2>1. manifest' \in ManifestAfterWrite(manifest, proc[p].seen) /\ lock' = lock
    BY <1>8 DEF WriteManifest
  <2>2. manifest' \in Manifest
    BY <1>1, <1>3, <2>1, ManifestAfterWriteOK DEF FilesOK
  <2>3. FilesOK'
    BY <1>1, <2>1, <2>2 DEF FilesOK, Entries
  <2>4. ProcsOK'
    BY <1>1, <1>2, <1>8, ContinueOK DEF WriteManifest
  <2>5. QED BY <2>3, <2>4 DEF IInv
<1>9. QED BY <1>4, <1>5, <1>6, <1>7, <1>8

LEMMA StartKeeps ==
  ASSUME IInv, NEW p \in Procs, NEW c \in Commands, Start(p, c)
  PROVE  IInv'
<1>1. ProcsOK /\ FilesOK /\ c \in Command
  BY CommandsAssumption DEF IInv
<1> DEFINE rec == [Idle("none", c) EXCEPT !.running = TRUE, !.plan = Plan(c),
                     !.base = IF c.name = "add" THEN manifest ELSE EmptyManifest]
<1>2. ProcOK(rec)
  <2>1. /\ DOMAIN rec = Fields /\ rec.plan = Plan(c) /\ rec.cmd = c
        /\ rec.ws = EmptyManifest /\ rec.seen = EmptyManifest
    BY DEF Idle, Fields
  <2> HIDE DEF rec
  <2>2. QED BY <1>1, <2>1, PlanStages, EmptyManifestMember DEF ProcOK
<1>3. Continue(p, rec)
  BY DEF Start, Continue
<1> HIDE DEF rec
<1>4. ProcsOK'
  BY <1>1, <1>2, <1>3, ContinueOK
<1>5. FilesOK'
  BY <1>1, FilesKept DEF Start, files
<1>6. QED BY <1>4, <1>5 DEF IInv

LEMMA EditsKeep ==
  ASSUME IInv, EditManifest \/ EditModules
  PROVE  IInv'
<1>1. ProcsOK /\ FilesOK
  BY DEF IInv
<1>2. lock' = lock /\ proc' = proc
  BY DEF EditManifest, EditModules, Edits
<1>3. manifest' \in Manifest
  <2>1. CASE EditManifest
    <3>1. PICK d \in Deps :
            \/ LET others == [e \in DOMAIN manifest.deps \ {d} |-> manifest.deps[e]] IN
               \E table \in {others} \cup {With(others, d, r) : r \in Requirements} :
                 manifest' = [package |-> TRUE, deps |-> table, later |-> manifest.later \ {d}]
            \/ /\ d \in DOMAIN manifest.deps
               /\ manifest' = [manifest EXCEPT !.package = TRUE, !.later = @ \cup {d}]
      BY <2>1 DEF EditManifest
    <3> DEFINE others == [e \in DOMAIN manifest.deps \ {d} |-> manifest.deps[e]]
    <3>2. /\ manifest \in Manifest /\ manifest.deps \in Tables
          /\ manifest.later \subseteq DOMAIN manifest.deps
      BY <1>1 DEF FilesOK, Manifest
    <3>3. DOMAIN others \subseteq Deps /\ others \in [DOMAIN others -> Requirements]
      BY <3>2, TableMember
    <3>4. others \in Tables
      BY <3>3, TableMember
    <3>5. CASE \E table \in {others} \cup {With(others, d, r) : r \in Requirements} :
                 manifest' = [package |-> TRUE, deps |-> table, later |-> manifest.later \ {d}]
      <4>1. PICK table \in {others} \cup {With(others, d, r) : r \in Requirements} :
              manifest' = [package |-> TRUE, deps |-> table, later |-> manifest.later \ {d}]
        BY <3>5
      <4>2. manifest.later \ {d} \subseteq DOMAIN others
        BY <3>2
      <4> HIDE DEF others
      <4>3. table \in Tables
        BY <3>4, <4>1, WithMember
      <4>4. DOMAIN others \subseteq DOMAIN table
        BY <4>1 DEF With
      <4>5. manifest.later \ {d} \subseteq DOMAIN table /\ manifest.later \subseteq Deps
        BY <3>2, <4>2, <4>4 DEF Manifest
      <4> DEFINE m == [package |-> TRUE, deps |-> table, later |-> manifest.later \ {d}]
      <4>6. m \in Manifest
        BY <4>3, <4>5 DEF Manifest
      <4>7. QED BY <4>1, <4>6
    <3>6. CASE /\ d \in DOMAIN manifest.deps
               /\ manifest' = [manifest EXCEPT !.package = TRUE, !.later = @ \cup {d}]
      BY <3>2, <3>6 DEF Manifest
    <3>7. QED BY <3>1, <3>5, <3>6
  <2>2. CASE EditModules
    BY <1>1, <2>2 DEF EditModules, FilesOK
  <2>3. QED BY <2>1, <2>2
<1>4. FilesOK'
  BY <1>1, <1>2, <1>3 DEF FilesOK, Entries
<1>5. ProcsOK'
  BY <1>1, <1>2 DEF ProcsOK, ProcOK
<1>6. QED BY <1>4, <1>5 DEF IInv
-----------------------------------------------------------------------------
LEMMA InitKeeps == Init => IInv
<1> SUFFICES ASSUME Init PROVE IInv
  OBVIOUS
<1>1. PICK table \in Tables :
        /\ \E later \in SUBSET DOMAIN table :
             manifest = [package |-> TRUE, deps |-> table, later |-> later]
        /\ lock \in {LockOf("absent"), LockText(manifest)}
  BY DEF Init
<1>2. manifest \in Manifest
  BY <1>1, TableMember DEF Manifest
<1>3. lock \in Lock /\ Entries(lock)
  BY <1>1, <1>2, LockOfOK, LockTextOK DEF LockStates
<1>4. proc = [p \in Procs |-> Idle("none", SomeCommand)]
  BY DEF Init
<1>5. ProcsOK
  BY <1>4, IdleOK DEF ProcsOK
<1>6. QED BY <1>2, <1>3, <1>5 DEF IInv, FilesOK

LEMMA NextKeeps == IInv /\ [Next]_vars => IInv'
<1> SUFFICES ASSUME IInv, [Next]_vars PROVE IInv'
  OBVIOUS
<1>1. CASE UNCHANGED vars
  BY <1>1 DEF vars, files, IInv, ProcsOK, ProcOK, FilesOK, Entries
<1>2. ASSUME NEW p \in Procs, Step(p) \/ Crash(p) PROVE IInv'
  BY <1>2, ReadingSteps, PackageSteps, WritingSteps DEF Step
<1>3. ASSUME NEW p \in Procs, NEW c \in Commands, Start(p, c) PROVE IInv'
  BY <1>3, StartKeeps
<1>4. CASE EditManifest \/ EditModules
  BY <1>4, EditsKeep
<1>5. QED BY <1>1, <1>2, <1>3, <1>4 DEF Next

LEMMA Invariance == Spec => []IInv
BY InitKeeps, NextKeeps, PTL DEF Spec

(* Whatever commands run at once and wherever they are killed, a lock file *)
(* that passes verifyLockAgainstManifest for some manifest is exactly the  *)
(* lock of that manifest, and every dependency in it is resolved.          *)
THEOREM VerifiedLock == Spec => []VerifiedLockIsWhole
<1>1. IInv => VerifiedLockIsWhole
  <2> SUFFICES ASSUME IInv, NEW table \in Tables, Parses(lock),
                      Verifies([package |-> TRUE, deps |-> table, later |-> {}], lock)
               PROVE  /\ lock = LockText([package |-> TRUE, deps |-> table, later |-> {}])
                      /\ Resolvable(table)
    BY DEF VerifiedLockIsWhole
  <2>1. lock \in Lock /\ lock.deps \in Tables /\ Entries(lock)
    BY DEF IInv, FilesOK, Lock
  <2>2. /\ lock.sum = table /\ lock.state = "written"
        /\ DOMAIN lock.deps = DOMAIN table
        /\ \A d \in DOMAIN table : lock.deps[d] = table[d]
    BY DEF Parses, Verifies
  <2>3. lock.deps = table
    BY <2>1, <2>2, TableMember
  <2>4. Resolvable(table)
    BY <2>1, <2>3 DEF Resolvable, Entries
  <2>5. Written(table) = DOMAIN table
    BY <2>4 DEF Written, Resolvable
  <2>6. [d \in Written(table) |-> table[d]] = table
    BY <2>5, TableMember
  <2>7. lock = [state |-> "written", sum |-> table, deps |-> table]
    BY <2>1, <2>2, <2>3 DEF Lock
  <2>8. QED BY <2>4, <2>6, <2>7 DEF LockText
<1>2. QED BY <1>1, Invariance, PTL

(* --frozen, for every command and every interleaving: no step of a frozen *)
(* command, or of one that only looks or cleans, changes aym.toml or       *)
(* aym.lock.                                                               *)
THEOREM Frozen == Spec => FrozenKeepsProject
<1> DEFINE Keeps == \A p \in Procs :
                      proc'[p] # proc[p] /\ proc[p].running /\ ReadOnly(proc[p].cmd)
                        => UNCHANGED <<manifest, lock>>
<1>1. IInv /\ [Next]_vars => [Keeps]_vars
  <2> SUFFICES ASSUME IInv, Next PROVE Keeps
    BY DEF vars
  <2> SUFFICES ASSUME NEW p \in Procs, proc'[p] # proc[p], proc[p].running,
                      ReadOnly(proc[p].cmd)
               PROVE  UNCHANGED <<manifest, lock>>
    OBVIOUS
  <2>1. ASSUME NEW q \in Procs, NEW rec, Continue(q, rec) PROVE q = p
    BY <2>1 DEF Continue, IInv, ProcsOK
  <2>2. proc[p].plan \in Seq(CalmStages)
    BY DEF IInv, ProcsOK, ProcOK
  <2>3. ASSUME NEW step \in WriteSteps, At(p, step) PROVE FALSE
    BY <2>2, <2>3, HeadTailProperties DEF At, CalmStages
  <2>4. ASSUME NEW q \in Procs,
               TruncateLock(q) \/ WriteLock(q) \/ TruncateManifest(q) \/ WriteManifest(q)
        PROVE  FALSE
    <3>1. q = p
      BY <2>1, <2>4 DEF TruncateLock, WriteLock, TruncateManifest, WriteManifest, Otherwise, End
    <3>2. QED BY <2>3, <2>4, <3>1
                 DEF WriteSteps, TruncateLock, WriteLock, TruncateManifest, WriteManifest
  <2>5. ASSUME NEW q \in Procs, Step(q) \/ Crash(q) PROVE UNCHANGED <<manifest, lock>>
    <3>1. CASE \/ Load(q) \/ ReadManifest(q) \/ CheckLock(q) \/ VerifyLock(q) \/ Prepare(q)
               \/ Doctor(q) \/ Compile(q) \/ CompileFails(q) \/ Import(q) \/ FindModule(q)
               \/ ReadLines(q) \/ Finish(q) \/ Crash(q)
      BY <3>1 DEF Load, ReadManifest, CheckLock, VerifyLock, Prepare, Doctor, Compile,
         CompileFails, Import, FindModule, ReadLines, Finish, Crash, Reads, files
    <3>2. CASE \/ Seed(q) \/ Uncache(q) \/ MakeDirs(q) \/ CreateFile(q) \/ FillFile(q)
               \/ Clean(q)
      BY <3>2, PackageSteps
    <3>3. QED BY <2>4, <2>5, <3>1, <3>2 DEF Step
  <2>6. ASSUME NEW q \in Procs, NEW c \in Commands, Start(q, c)
        PROVE  UNCHANGED <<manifest, lock>>
    BY <2>6 DEF Start, files
  <2>7. CASE EditManifest \/ EditModules
    BY <2>7 DEF EditManifest, EditModules, Edits
  <2>8. QED BY <2>5, <2>6, <2>7 DEF Next
<1>2. QED BY <1>1, Invariance, PTL DEF Spec, FrozenKeepsProject
-----------------------------------------------------------------------------
(* Good plans are closed under one stage more at the front and one less.   *)
LEMMA GoodEmpty ==
  ASSUME NEW c, NEW K, Needs(c, "end") \subseteq K
  PROVE  Good(c, K, << >>)
<1> SUFFICES ASSUME NEW i \in 1..(Len(<< >>) + 1), NEW f \in Needs(c, Nth(<< >>, i))
             PROVE  Comes(f, K, << >>, i)
  BY DEF Good
<1>1. i = 1 /\ Nth(<< >>, i) = "end"
  BY DEF Nth
<1>2. f \in K /\ 0 \in 0..(i - 1)
  BY <1>1
<1>3. QED BY <1>1, <1>2 DEF Comes

LEMMA GoodMore ==
  ASSUME NEW c, NEW K, NEW L, K \subseteq L, NEW s, Good(c, K, s)
  PROVE  Good(c, L, s)
BY DEF Good, Comes

LEMMA GoodCons ==
  ASSUME NEW c, NEW K, NEW S, NEW s \in Seq(S), NEW a \in S,
         Needs(c, a) \subseteq K, Good(c, After(K, a), s)
  PROVE  Good(c, K, <<a>> \o s)
<1> DEFINE t == <<a>> \o s
<1>1. /\ t \in Seq(S) /\ Len(t) = Len(s) + 1 /\ t[1] = a /\ Len(s) \in Nat
      /\ \A k \in 1..Len(s) : t[k + 1] = s[k]
  BY ConcatProperties, LenProperties
<1> HIDE DEF t
<1> SUFFICES ASSUME NEW i \in 1..(Len(t) + 1), NEW f \in Needs(c, Nth(t, i))
             PROVE  Comes(f, K, t, i)
  BY DEF Good, t
<1>2. CASE i = 1
  <2>1. f \in K /\ 0 \in 0..(i - 1)
    BY <1>1, <1>2 DEF Nth
  <2>2. QED BY <1>2, <2>1 DEF Comes
<1>3. CASE i > 1
  <2>1. i - 1 \in 1..(Len(s) + 1) /\ Nth(s, i - 1) = Nth(t, i)
    <3>1. CASE i <= Len(t)
      <4>1. i - 1 \in 1..Len(s) /\ t[(i - 1) + 1] = s[i - 1] /\ (i - 1) + 1 = i
        BY <1>1, <1>3, <3>1
      <4>2. QED BY <1>1, <3>1, <4>1 DEF Nth
    <3>2. CASE i > Len(t)
      BY <1>1, <1>3, <3>2 DEF Nth
    <3>3. QED BY <1>1, <3>1, <3>2
  <2>2. Comes(f, After(K, a), s, i - 1)
    BY <2>1 DEF Good
  <2>3. PICK j \in 0..(i - 2) :
          /\ j = 0 => f \in After(K, a)
          /\ j # 0 => f \in Gives(s[j])
          /\ \A k \in (j + 1)..(i - 2) : f \notin Spoils(s[k])
    BY <2>2 DEF Comes
  <2>4. \A k \in 1..(i - 2) : k \in 1..Len(s) /\ t[k + 1] = s[k]
    BY <1>1, <2>1
  <2>5. \A k \in (j + 2)..(i - 1) : f \notin Spoils(t[k])
    <3>1. TAKE k \in (j + 2)..(i - 1)
    <3>2. k - 1 \in (j + 1)..(i - 2) /\ k - 1 \in 1..(i - 2) /\ (k - 1) + 1 = k
      BY <1>3
    <3>3. QED BY <2>3, <2>4, <3>2
  <2>6. CASE j # 0
    <3>1. f \in Gives(t[j + 1]) /\ j + 1 \in 0..(i - 1) /\ j + 1 # 0
      BY <2>3, <2>4, <2>6
    <3>2. \A k \in ((j + 1) + 1)..(i - 1) : f \notin Spoils(t[k])
      BY <2>5
    <3>3. QED BY <3>1, <3>2 DEF Comes
  <2>7. CASE j = 0 /\ f \in Gives(a)
    <3>1. f \in Gives(t[1]) /\ 1 \in 0..(i - 1)
      BY <1>1, <1>3, <2>7
    <3>2. \A k \in (1 + 1)..(i - 1) : f \notin Spoils(t[k])
      BY <2>5, <2>7
    <3>3. QED BY <3>1, <3>2 DEF Comes
  <2>8. CASE j = 0 /\ f \in K /\ f \notin Spoils(a)
    <3>1. \A k \in (0 + 1)..(i - 1) : f \notin Spoils(t[k])
      <4>1. TAKE k \in (0 + 1)..(i - 1)
      <4>2. k = 1 \/ k \in (j + 2)..(i - 1)
        BY <2>8
      <4>3. QED BY <1>1, <2>5, <2>8, <4>2
    <3>2. 0 \in 0..(i - 1)
      BY <1>3
    <3>3. QED BY <2>8, <3>1, <3>2 DEF Comes
  <2>9. QED BY <2>3, <2>6, <2>7, <2>8 DEF After
<1>4. QED BY <1>2, <1>3

LEMMA GoodTail ==
  ASSUME NEW c, NEW K, NEW S, NEW s \in Seq(S), s # << >>, Good(c, K, s)
  PROVE  /\ Needs(c, Head(s)) \subseteq K
         /\ Good(c, After(K, Head(s)), Tail(s))
<1> DEFINE a == Head(s)
           t == Tail(s)
<1>1. /\ t \in Seq(S) /\ Len(s) = Len(t) + 1 /\ s[1] = a /\ Len(t) \in Nat
      /\ \A k \in 1..Len(t) : s[k + 1] = t[k]
  BY HeadTailProperties, LenProperties, EmptySeq
<1> HIDE DEF a, t
<1>2. Needs(c, a) \subseteq K
  <2> SUFFICES ASSUME NEW f \in Needs(c, a) PROVE f \in K
    OBVIOUS
  <2>1. Nth(s, 1) = a /\ 1 \in 1..(Len(s) + 1)
    BY <1>1 DEF Nth
  <2>2. Comes(f, K, s, 1)
    BY <2>1 DEF Good
  <2>3. QED BY <2>2 DEF Comes
<1>3. ASSUME NEW i \in 1..(Len(t) + 1), NEW f \in Needs(c, Nth(t, i))
      PROVE  Comes(f, After(K, a), t, i)
  <2>1. i + 1 \in 1..(Len(s) + 1) /\ Nth(s, i + 1) = Nth(t, i)
    BY <1>1 DEF Nth
  <2>2. Comes(f, K, s, i + 1)
    BY <1>3, <2>1 DEF Good
  <2>3. PICK j \in 0..i :
          /\ j = 0 => f \in K
          /\ j # 0 => f \in Gives(s[j])
          /\ \A k \in (j + 1)..i : f \notin Spoils(s[k])
    BY <2>2 DEF Comes
  <2>4. \A k \in 1..(i - 1) : k \in 1..Len(t) /\ s[k + 1] = t[k]
    BY <1>1
  <2>5. CASE j > 1
    <3>1. j - 1 \in 1..(i - 1) /\ (j - 1) + 1 = j
      BY <2>5
    <3>2. f \in Gives(t[j - 1]) /\ j - 1 \in 0..(i - 1) /\ j - 1 # 0
      BY <2>3, <2>4, <3>1
    <3>3. \A k \in ((j - 1) + 1)..(i - 1) : f \notin Spoils(t[k])
      <4>1. TAKE k \in ((j - 1) + 1)..(i - 1)
      <4>2. k + 1 \in (j + 1)..i /\ k \in 1..(i - 1)
        BY <2>5
      <4>3. QED BY <2>3, <2>4, <4>2
    <3>4. QED BY <3>2, <3>3 DEF Comes
  <2>6. CASE j <= 1
    <3>1. f \in After(K, a)
      <4>1. CASE j = 1
        BY <1>1, <2>3, <4>1 DEF After
      <4>2. CASE j = 0
        <5>1. f \in K /\ 1 \in (j + 1)..i
          BY <2>3, <4>2
        <5>2. QED BY <1>1, <2>3, <5>1 DEF After
      <4>3. QED BY <2>6, <4>1, <4>2
    <3>2. \A k \in (0 + 1)..(i - 1) : f \notin Spoils(t[k])
      <4>1. TAKE k \in (0 + 1)..(i - 1)
      <4>2. k + 1 \in (j + 1)..i /\ k \in 1..(i - 1)
        BY <2>6
      <4>3. QED BY <2>3, <2>4, <4>2
    <3>3. 0 \in 0..(i - 1)
      OBVIOUS
    <3>4. QED BY <3>1, <3>2, <3>3 DEF Comes
  <2>7. QED BY <2>5, <2>6
<1>4. Good(c, After(K, a), t)
  BY <1>3 DEF Good
<1>5. QED BY <1>2, <1>4 DEF a, t
-----------------------------------------------------------------------------
(* The order of std::map: every key, each once.                            *)
LEMMA InOrderOK ==
  ASSUME NEW D, D \subseteq Nat, IsFiniteSet(D)
  PROVE  /\ Cardinality(D) \in Nat
         /\ DOMAIN InOrder(D) = 1..Cardinality(D)
         /\ InOrder(D) \in [1..Cardinality(D) -> D]
         /\ \A d \in D : \E i \in 1..Cardinality(D) : InOrder(D)[i] = d
<1> DEFINE n == Cardinality(D)
           s == InOrder(D)
<1>1. n \in Nat
  BY FS_CardinalityType
<1>2. s \in [1..n -> D] /\ \A i, j \in DOMAIN s : i < j => s[i] < s[j]
  BY OrderExists DEF InOrder, Increasing
<1> HIDE DEF s
<1>3. ASSUME NEW i \in 1..n, NEW j \in 1..n, s[i] = s[j] PROVE i = j
  <2>1. s[i] \in Nat /\ s[j] \in Nat /\ ~(s[i] < s[j]) /\ ~(s[j] < s[i])
    <3>1. i \in DOMAIN s /\ j \in DOMAIN s /\ s[i] \in Nat /\ s[j] \in Nat
      BY <1>2
    <3> QED BY <1>3, <3>1
  <2> QED BY <1>1, <1>2, <2>1
<1>4. s \in Injection(1..n, D)
  BY <1>2, <1>3, Fun_IsInj DEF Injection, IsInjective
<1>5. Cardinality(1..n) = n
  BY <1>1, FS_Interval
<1>6. s \in Surjection(1..n, D)
  BY <1>4, <1>5, FS_Injection
<1>7. \A d \in D : \E i \in 1..n : s[i] = d
  BY <1>6 DEF Surjection
<1> QED BY <1>1, <1>2, <1>7 DEF s

(* The same for sane plans.                                                *)
LEMMA SaneEnd ==
  ASSUME NEW c, NEW K, Needs(c, "end") \subseteq K
  PROVE  Sane(c, K, << >>)
<1>1. << >> \in Seq(PlainStages) /\ CompileLast(c, << >>)
  BY EmptySeq DEF CompileLast
<1> QED BY <1>1, GoodEmpty DEF Sane

LEMMA SaneCons ==
  ASSUME NEW c, NEW K, NEW L, NEW a \in PlainStages, NEW s, Sane(c, L, s),
         L \subseteq After(K, a), Needs(c, a) \subseteq K, a = "compile" => s = << >> /\ c.name = "build"
  PROVE  Sane(c, K, <<a>> \o s)
<1> DEFINE t == <<a>> \o s
<1>1. s \in Seq(PlainStages) /\ CompileLast(c, s) /\ Good(c, After(K, a), s)
  BY GoodMore DEF Sane
<1>2. Good(c, K, t)
  BY <1>1, GoodCons
<1>3. /\ t \in Seq(PlainStages) /\ Len(t) = Len(s) + 1 /\ t[1] = a /\ Len(s) \in Nat
      /\ \A k \in 1..Len(s) : t[k + 1] = s[k]
  BY <1>1, ConcatProperties, LenProperties
<1> HIDE DEF t
<1>4. CompileLast(c, t)
  <2> SUFFICES ASSUME NEW i \in 1..Len(t), t[i] = "compile" PROVE i = Len(t) /\ c.name = "build"
    BY DEF CompileLast
  <2>1. CASE i = 1
    <3>1. s = << >>
      BY <1>3, <2>1
    <3> QED BY <1>3, <2>1, <3>1
  <2>2. CASE i # 1
    <3>1. i - 1 \in 1..Len(s) /\ (i - 1) + 1 = i
      BY <1>3, <2>2
    <3>2. s[i - 1] = "compile"
      BY <1>3, <3>1
    <3> QED BY <1>1, <1>3, <3>1, <3>2 DEF CompileLast
  <2> QED BY <2>1, <2>2
<1> QED BY <1>2, <1>3, <1>4 DEF Sane, t

LEMMA SaneMore ==
  ASSUME NEW c, NEW K, NEW L, K \subseteq L, NEW s, Sane(c, K, s)
  PROVE  Sane(c, L, s)
BY GoodMore DEF Sane

LEMMA SaneTail ==
  ASSUME NEW c, NEW K, NEW s, s # << >>, Sane(c, K, s)
  PROVE  /\ Head(s) \in PlainStages
         /\ Needs(c, Head(s)) \subseteq K
         /\ Sane(c, After(K, Head(s)), Tail(s))
         /\ Head(s) = "compile" => Tail(s) = << >> /\ c.name = "build"
<1>1. s \in Seq(PlainStages) /\ CompileLast(c, s) /\ Good(c, K, s)
  BY DEF Sane
<1>2. Needs(c, Head(s)) \subseteq K /\ Good(c, After(K, Head(s)), Tail(s))
  BY <1>1, GoodTail
<1> DEFINE t == Tail(s)
<1>3. /\ t \in Seq(PlainStages) /\ Len(s) = Len(t) + 1 /\ s[1] = Head(s) /\ Len(t) \in Nat
      /\ Head(s) \in PlainStages
      /\ \A k \in 1..Len(t) : s[k + 1] = t[k]
  BY <1>1, HeadTailProperties, LenProperties, EmptySeq
<1> HIDE DEF t
<1>4. CompileLast(c, t)
  <2> SUFFICES ASSUME NEW i \in 1..Len(t), t[i] = "compile" PROVE i = Len(t) /\ c.name = "build"
    BY DEF CompileLast
  <2>1. s[i + 1] = "compile" /\ i + 1 \in 1..Len(s)
    BY <1>3
  <2>2. i + 1 = Len(s) /\ c.name = "build"
    BY <1>1, <2>1 DEF CompileLast
  <2> QED BY <1>3, <2>2
<1>5. ASSUME Head(s) = "compile" PROVE t = << >> /\ c.name = "build"
  <2>1. 1 = Len(s) /\ c.name = "build"
    BY <1>1, <1>3, <1>5 DEF CompileLast
  <2>2. Len(t) = 0
    BY <1>3, <2>1
  <2> QED BY <1>3, <2>1, <2>2, EmptySeq
<1> QED BY <1>2, <1>3, <1>4, <1>5 DEF Sane, t
-----------------------------------------------------------------------------
(* What is kept of the knowledge while files are synchronised. *)
LEMMA CheckSane ==
  ASSUME NEW c, NEW X \in SUBSET {"added"}, NEW s, Sane(c, {"loaded", "locked"} \cup X, s)
  PROVE  /\ Sane(c, {"loaded", "locked"} \cup X, CheckSteps \o s)
         /\ ~Mends(c) => Sane(c, {"loaded"} \cup X, CheckSteps \o s)
<1>1. "read" \in PlainStages /\ "check lock" \in PlainStages
  BY DEF PlainStages, Stages, CopyStages, ImportStages
<1>2. CheckSteps \o s = <<"read">> \o (<<"check lock">> \o s)
  <2>1. s \in Seq(PlainStages)
    BY DEF Sane
  <2> DEFINE a == "read"
             b == "check lock"
  <2>2. a \in PlainStages /\ b \in PlainStages
    BY <1>1
  <2> HIDE DEF a, b
  <2>3. <<a, b>> \o s = <<a>> \o (<<b>> \o s)
    BY <2>1, <2>2, TwoSteps
  <2> QED BY <2>3 DEF CheckSteps, a, b
<1> DEFINE K == {"loaded", "read", "locked"} \cup X
           L == {"loaded", "read"} \cup X
<1>3. Sane(c, K, <<"check lock">> \o s)
  <2>1. Needs(c, "check lock") \subseteq K
    BY DEF Needs, Reading
  <2>2. {"loaded", "locked"} \cup X \subseteq After(K, "check lock")
    BY DEF After, Gives, Spoils, Facts, Reading, DoctorSteps, FileWrites, LockWrites, ImportStages
  <2> HIDE DEF K
  <2> QED BY <1>1, <2>1, <2>2, SaneCons
<1>4. ASSUME ~Mends(c) PROVE Sane(c, L, <<"check lock">> \o s)
  <2>1. Needs(c, "check lock") \subseteq L
    BY <1>4 DEF Needs, Reading
  <2>2. {"loaded", "locked"} \cup X \subseteq After(L, "check lock")
    BY DEF After, Gives, Spoils, Facts, Reading, DoctorSteps, FileWrites, LockWrites, ImportStages
  <2> HIDE DEF L
  <2> QED BY <1>1, <2>1, <2>2, SaneCons
<1>5. Needs(c, "read") = {}
  BY DEF Needs, Reading
<1>6. /\ K \subseteq After({"loaded", "locked"} \cup X, "read")
      /\ L \subseteq After({"loaded"} \cup X, "read")
  BY DEF After, Gives, Spoils, Facts, Reading, DoctorSteps, FileWrites, LockWrites, ImportStages
<1> HIDE DEF K, L
<1> DEFINE rest == <<"check lock">> \o s
<1> HIDE DEF rest
<1>7. Sane(c, {"loaded", "locked"} \cup X, <<"read">> \o rest)
  BY <1>1, <1>3, <1>5, <1>6, SaneCons DEF rest
<1>8. ASSUME ~Mends(c) PROVE Sane(c, {"loaded"} \cup X, <<"read">> \o rest)
  BY <1>1, <1>4, <1>5, <1>6, <1>8, SaneCons DEF rest
<1> QED BY <1>2, <1>7, <1>8 DEF rest

LEMMA SyncSane ==
  ASSUME NEW c, NEW X \in SUBSET {"added"}, NEW s, Sane(c, {"loaded", "locked"} \cup X, s)
  PROVE  Sane(c, {"loaded"} \cup X, SyncSteps \o s)
<1>1. "read" \in PlainStages /\ "truncate lock" \in PlainStages /\ "write lock" \in PlainStages
  BY DEF PlainStages, Stages, CopyStages, ImportStages
<1>2. SyncSteps \o s = <<"read">> \o (<<"truncate lock">> \o (<<"write lock">> \o s))
  <2>1. s \in Seq(PlainStages)
    BY DEF Sane
  <2> DEFINE a == "read"
             b == "truncate lock"
             d == "write lock"
  <2>2. a \in PlainStages /\ b \in PlainStages /\ d \in PlainStages
    BY <1>1
  <2> HIDE DEF a, b, d
  <2>3. <<a, b, d>> \o s = <<a>> \o (<<b>> \o (<<d>> \o s))
    BY SMTT(30), <2>1, <2>2, ThreeSteps
  <2> QED BY <2>3 DEF SyncSteps, a, b, d
<1> DEFINE K == {"loaded", "read", "emptied"} \cup X
           L == {"loaded", "read"} \cup X
<1>3. /\ Needs(c, "write lock") \subseteq K
      /\ Needs(c, "truncate lock") = {} /\ Needs(c, "read") = {}
  BY DEF Needs, Reading
<1>4. /\ {"loaded", "locked"} \cup X \subseteq After(K, "write lock")
      /\ K \subseteq After(L, "truncate lock")
      /\ L \subseteq After({"loaded"} \cup X, "read")
  BY DEF After, Gives, Spoils, Facts, Reading, DoctorSteps, FileWrites, LockWrites, ImportStages
<1> HIDE DEF K, L
<1>5. Sane(c, K, <<"write lock">> \o s)
  BY <1>1, <1>3, <1>4, SaneCons
<1>6. Sane(c, L, <<"truncate lock">> \o (<<"write lock">> \o s))
  BY <1>1, <1>3, <1>4, <1>5, SaneCons
<1> DEFINE rest == <<"truncate lock">> \o (<<"write lock">> \o s)
<1> HIDE DEF rest
<1>7. Sane(c, {"loaded"} \cup X, <<"read">> \o rest)
  BY <1>1, <1>3, <1>4, <1>6, SaneCons DEF rest
<1> QED BY <1>2, <1>7 DEF rest
-----------------------------------------------------------------------------
Synced == {"loaded", "locked"}

LEMMA StepKinds ==
  /\ "load" \in PlainStages /\ "read" \in PlainStages /\ "truncate lock" \in PlainStages /\ "write lock" \in PlainStages
  /\ "check lock" \in PlainStages /\ "verify" \in PlainStages /\ "prepare" \in PlainStages /\ "clean" \in PlainStages /\ "compile" \in PlainStages
  /\ "upsert" \in PlainStages /\ "truncate manifest" \in PlainStages /\ "write manifest" \in PlainStages
  /\ "doctor" \in PlainStages /\ "doctor again" \in PlainStages /\ "doctor last" \in PlainStages
  /\ PlainStages \subseteq Stages
BY DEF PlainStages, Stages, CopyStages, ImportStages

LEMMA PlainShort ==
  /\ \A a \in PlainStages : <<a>> \in Seq(PlainStages)
  /\ \A a, b \in PlainStages : <<a, b>> \in Seq(PlainStages)
OBVIOUS

LEMMA PlainFlows ==
  /\ CheckSteps \in Seq(PlainStages) /\ SyncSteps \in Seq(PlainStages)
  /\ \A c : Flow(c) \in Seq(PlainStages)
<1>1. CheckSteps \in Seq(PlainStages) /\ SyncSteps \in Seq(PlainStages)
  BY StepKinds, Literals DEF CheckSteps, SyncSteps
<1>2. SyncSteps \o CheckSteps \in Seq(PlainStages)
  BY <1>1, ConcatProperties
<1> QED BY <1>1, <1>2 DEF Flow

LEMMA FlowSane ==
  ASSUME NEW c \in Command, NEW s, Sane(c, Synced, s)
  PROVE  Sane(c, {"loaded"}, Flow(c) \o s)
<1>1. {} \in SUBSET {"added"} /\ Synced = {"loaded", "locked"} \cup {} /\ {"loaded"} = {"loaded"} \cup {}
  BY DEF Synced
<1>2. s \in Seq(PlainStages)
  BY DEF Sane
<1>3. CASE c.frozen
  <2>1. ~Mends(c)
    BY <1>3 DEF Mends, Command, Freezable
  <2>2. Sane(c, {"loaded"} \cup {}, CheckSteps \o s)
    BY <1>1, <2>1, CheckSane
  <2> QED BY <1>1, <1>3, <2>2 DEF Flow
<1>4. CASE ~c.frozen
  <2>1. Sane(c, {"loaded", "locked"} \cup {}, CheckSteps \o s)
    BY <1>1, CheckSane
  <2>2. Sane(c, {"loaded"} \cup {}, SyncSteps \o (CheckSteps \o s))
    BY <1>1, <2>1, SyncSane
  <2>3. (SyncSteps \o CheckSteps) \o s = SyncSteps \o (CheckSteps \o s)
    BY <1>2, PlainFlows, Associate
  <2> QED BY <1>1, <1>4, <2>2, <2>3 DEF Flow
<1> QED BY <1>3, <1>4

LEMMA LastSane ==
  ASSUME NEW c, NEW K, NEW a \in PlainStages, Needs(c, "end") \subseteq After(K, a),
         Needs(c, a) \subseteq K, a = "compile" => c.name = "build"
  PROVE  Sane(c, K, <<a>>)
<1>1. Sane(c, After(K, a), << >>)
  BY SaneEnd
<1>2. Sane(c, K, <<a>> \o << >>)
  BY <1>1, SaneCons
<1> QED BY <1>2, OneStep

LEMMA LoadSane ==
  ASSUME NEW c, NEW s, Sane(c, {"loaded"}, s)
  PROVE  Sane(c, {}, <<"load">> \o s)
<1>1. Needs(c, "load") = {} /\ {"loaded"} \subseteq After({}, "load")
  BY DEF Needs, After, Gives, Spoils, Facts, Reading, DoctorSteps, FileWrites, LockWrites, ImportStages
<1> QED BY <1>1, SaneCons, StepKinds

LEMMA BuildSane ==
  ASSUME NEW c \in Command, c.name = "build"
  PROVE  Sane(c, {}, BuildPlan(c))
<1> DEFINE tail == <<"prepare", "compile">>
           doctor == IF c.doctor THEN <<"doctor">> ELSE << >>
<1>1. tail \in Seq(PlainStages) /\ doctor \in Seq(PlainStages) /\ <<"load">> \in Seq(PlainStages)
  BY StepKinds, PlainShort, EmptySeq
<1>2. ~Mends(c)
  BY DEF Mends
<1>3. Sane(c, Synced, tail)
  <2> DEFINE K == {"loaded", "locked", "copied"}
  <2>1. Needs(c, "end") \subseteq After(K, "compile") /\ Needs(c, "compile") \subseteq K
    BY DEF Needs, After, Gives, Spoils, Facts, Reading, DoctorSteps, FileWrites, LockWrites, ImportStages
  <2>2. K \subseteq After(Synced, "prepare") /\ Needs(c, "prepare") \subseteq Synced
    BY DEF Synced, Needs, After, Gives, Spoils, Facts, Reading, DoctorSteps, FileWrites, LockWrites, ImportStages
  <2> HIDE DEF K
  <2>3. Sane(c, K, <<"compile">>)
    BY <2>1, LastSane, StepKinds
  <2>4. Sane(c, Synced, <<"prepare">> \o <<"compile">>)
    BY <2>2, <2>3, SaneCons, StepKinds
  <2> DEFINE a == "prepare"
             b == "compile"
  <2>5. a \in PlainStages /\ b \in PlainStages
    BY StepKinds
  <2> HIDE DEF a, b
  <2>6. <<a, b>> = <<a>> \o <<b>>
    BY <2>5, SplitTwo
  <2> QED BY <2>4, <2>6 DEF a, b
<1>4. Sane(c, Synced, doctor \o tail)
  <2>1. CASE c.doctor
    <3>1. Synced \subseteq After(Synced, "doctor") /\ Needs(c, "doctor") \subseteq Synced
      BY <1>2 DEF Synced, Needs, After, Gives, Spoils, Facts, Reading, DoctorSteps, FileWrites, LockWrites, ImportStages
    <3> HIDE DEF tail
    <3>2. Sane(c, Synced, <<"doctor">> \o tail)
      BY <1>3, <3>1, SaneCons, StepKinds
    <3> QED BY <2>1, <3>2
  <2>2. CASE ~c.doctor
    <3> HIDE DEF tail
    <3>1. << >> \o tail = tail
      BY <1>1, ConcatEmptySeq
    <3> QED BY <1>3, <2>2, <3>1
  <2> QED BY <2>1, <2>2
<1> DEFINE load == <<"load">>
<1>5. BuildPlan(c) = ((load \o Flow(c)) \o doctor) \o tail
  BY DEF BuildPlan
<1> HIDE DEF tail, doctor
<1>6. Sane(c, {}, load \o (Flow(c) \o (doctor \o tail)))
  BY <1>4, FlowSane, LoadSane
<1>7. load \o (Flow(c) \o (doctor \o tail)) = ((load \o Flow(c)) \o doctor) \o tail
  <2> HIDE DEF load
  <2>1. load \in Seq(PlainStages) /\ Flow(c) \in Seq(PlainStages)
    BY <1>1, PlainFlows DEF load
  <2>2. load \o Flow(c) \in Seq(PlainStages) /\ doctor \o tail \in Seq(PlainStages)
    BY <1>1, <2>1, ConcatProperties
  <2>3. ((load \o Flow(c)) \o doctor) \o tail = (load \o Flow(c)) \o (doctor \o tail)
    BY SMTT(30), <1>1, <2>2, Associate
  <2> DEFINE rest == doctor \o tail
             flow == Flow(c)
  <2> HIDE DEF rest, flow
  <2>4. (load \o flow) \o rest = load \o (flow \o rest)
    <3>1. load \in Seq(PlainStages) /\ flow \in Seq(PlainStages) /\ rest \in Seq(PlainStages)
      BY <2>1, <2>2 DEF rest, flow
    <3> QED BY <3>1, Associate
  <2> QED BY <2>3, <2>4 DEF rest, flow
<1> QED BY <1>5, <1>6, <1>7

LEMMA AssociateLoad ==
  ASSUME NEW s \in Seq(PlainStages), NEW t \in Seq(PlainStages)
  PROVE  (<<"load">> \o s) \o t = <<"load">> \o (s \o t)
<1> DEFINE load == <<"load">>
<1>1. load \in Seq(PlainStages)
  BY StepKinds, PlainShort
<1> HIDE DEF load
<1>2. (load \o s) \o t = load \o (s \o t)
  BY <1>1, Associate
<1> QED BY <1>2 DEF load

LEMMA LockSane ==
  ASSUME NEW c \in Command, c.name \in {"lock sync", "lock check"}
  PROVE  Sane(c, {}, LockPlan(c))
<1> DEFINE flow == IF c.name = "lock check" THEN CheckSteps ELSE Flow(c)
           tail == <<"verify">>
<1>1. flow \in Seq(PlainStages) /\ tail \in Seq(PlainStages)
  BY PlainFlows, StepKinds, PlainShort
<1>2. Needs(c, "end") \subseteq After(Synced, "verify") /\ Needs(c, "verify") \subseteq Synced
  BY DEF Synced, Needs, After, Gives, Spoils, Facts, Reading, DoctorSteps, FileWrites, LockWrites, ImportStages
<1>3. Sane(c, Synced, tail)
  BY <1>2, LastSane, StepKinds
<1>4. LockPlan(c) = (<<"load">> \o flow) \o tail
  BY DEF LockPlan
<1> HIDE DEF tail
<1>5. Sane(c, {"loaded"}, flow \o tail)
  <2>1. CASE c.name = "lock check"
    <3>1. ~Mends(c)
      BY <2>1 DEF Mends
    <3>2. {} \in SUBSET {"added"} /\ Synced = {"loaded", "locked"} \cup {} /\ {"loaded"} = {"loaded"} \cup {}
      BY DEF Synced
    <3>3. Sane(c, {"loaded"} \cup {}, CheckSteps \o tail)
      BY <1>3, <3>1, <3>2, CheckSane
    <3> QED BY <2>1, <3>2, <3>3
  <2>2. CASE c.name # "lock check"
    BY <1>3, <2>2, FlowSane
  <2> QED BY <2>1, <2>2
<1> HIDE DEF flow
<1>6. Sane(c, {}, <<"load">> \o (flow \o tail))
  BY <1>5, LoadSane
<1> QED BY <1>1, <1>4, <1>6, AssociateLoad

LEMMA CacheSane ==
  ASSUME NEW c \in Command,
         c.name \in {"cache status", "cache sync", "cache doctor", "cache clean"}
  PROVE  Sane(c, {}, CachePlan(c))
<1>1. CASE c.name = "cache status"
  <2>1. Needs(c, "end") \subseteq After({"loaded"}, "verify") /\ Needs(c, "verify") \subseteq {"loaded"}
    BY <1>1 DEF Mends, Needs, After, Gives, Spoils, Facts, Reading, DoctorSteps, FileWrites, LockWrites, ImportStages
  <2>2. Sane(c, {"loaded"}, <<"verify">>)
    BY <2>1, LastSane, StepKinds
  <2> QED BY <1>1, <2>2, LoadSane DEF CachePlan
<1>2. CASE c.name = "cache doctor"
  <2>1. Needs(c, "end") \subseteq After({"loaded"}, "doctor") /\ Needs(c, "doctor") \subseteq {"loaded"}
    BY <1>2 DEF Mends, Needs, After, Gives, Spoils, Facts, Reading, DoctorSteps, FileWrites, LockWrites, ImportStages
  <2>2. Sane(c, {"loaded"}, <<"doctor">>)
    BY <2>1, LastSane, StepKinds
  <2> QED BY <1>2, <2>2, LoadSane DEF CachePlan
<1>3. CASE c.name = "cache clean"
  <2>1. Needs(c, "end") \subseteq After({"loaded"}, "clean") /\ Needs(c, "clean") \subseteq {"loaded"}
    BY <1>3 DEF Mends, Needs, After, Gives, Spoils, Facts, Reading, DoctorSteps, FileWrites, LockWrites, ImportStages
  <2>2. Sane(c, {"loaded"}, <<"clean">>)
    BY <2>1, LastSane, StepKinds
  <2> QED BY <1>3, <2>2, LoadSane DEF CachePlan
<1>4. CASE c.name = "cache sync"
  <2> DEFINE K == Synced \cup {"stored"}
             a == "prepare"
             b == "verify"
  <2>1. Needs(c, "end") \subseteq After(K, "verify") /\ Needs(c, "verify") \subseteq K
    BY <1>4 DEF Synced, Mends, Needs, After, Gives, Spoils, Facts, Reading, DoctorSteps, FileWrites, LockWrites, ImportStages
  <2>2. K \subseteq After(Synced, "prepare") /\ Needs(c, "prepare") \subseteq Synced
    BY DEF Synced, Needs, After, Gives, Spoils, Facts, Reading, DoctorSteps, FileWrites, LockWrites, ImportStages
  <2>3. a \in PlainStages /\ b \in PlainStages
    BY StepKinds
  <2> HIDE DEF K
  <2>4. Sane(c, K, <<"verify">>)
    BY <2>1, LastSane, StepKinds
  <2>5. Sane(c, Synced, <<"prepare">> \o <<"verify">>)
    BY <2>2, <2>4, SaneCons, StepKinds
  <2> HIDE DEF a, b
  <2>6. <<a, b>> = <<a>> \o <<b>>
    BY <2>3, SplitTwo
  <2>7. Sane(c, Synced, <<"prepare", "verify">>)
    BY <2>5, <2>6 DEF a, b
  <2> DEFINE tail == <<"prepare", "verify">>
  <2>8. CachePlan(c) = <<"load">> \o (Flow(c) \o tail)
    BY <1>4 DEF CachePlan
  <2> HIDE DEF tail
  <2>9. Sane(c, {"loaded"}, Flow(c) \o tail)
    BY <2>7, FlowSane DEF tail
  <2> QED BY <2>8, <2>9, LoadSane
<1> QED BY <1>1, <1>2, <1>3, <1>4

LEMMA LoadAgain ==
  ASSUME NEW c, NEW K, "loaded" \in K, NEW s, Sane(c, K, s)
  PROVE  /\ Sane(c, K, <<"load">> \o s)
         /\ Sane(c, K \ {"loaded"}, <<"load">> \o s)
<1>1. Needs(c, "load") = {}
  BY DEF Needs, Reading
<1>2. K \subseteq After(K, "load") /\ K \subseteq After(K \ {"loaded"}, "load")
  <2>1. Spoils("load") = {} /\ "loaded" \in Gives("load")
    BY DEF Gives, Spoils, Facts, Reading, DoctorSteps, FileWrites, LockWrites, ImportStages
  <2> QED BY <2>1 DEF After
<1> QED BY <1>1, <1>2, SaneCons, StepKinds

(* Sync, look at the workspace again, check, prepare: what add does after  *)
(* the edit, and the repair of a doctor.                                   *)
Mend == SyncSteps \o <<"load">> \o CheckSteps \o <<"prepare">>

LEMMA MendSane ==
  ASSUME NEW c, NEW X \in SUBSET {"added"}, NEW s,
         Sane(c, {"loaded", "locked", "stored", "copied"} \cup X, s)
  PROVE  /\ Sane(c, {"loaded"} \cup X,
                 SyncSteps \o (<<"load">> \o (CheckSteps \o (<<"prepare">> \o s))))
         /\ Sane(c, {"loaded", "locked"} \cup X, <<"prepare">> \o s)
<1> DEFINE K == {"loaded", "locked"} \cup X
           L == {"loaded", "locked", "stored", "copied"} \cup X
           t == <<"prepare">> \o s
           u == CheckSteps \o t
           v == <<"load">> \o u
<1>1. L \subseteq After(K, "prepare") /\ Needs(c, "prepare") \subseteq K
  BY DEF Needs, After, Gives, Spoils, Facts, Reading, DoctorSteps, FileWrites, LockWrites, ImportStages
<1>2. Sane(c, K, t)
  <2> HIDE DEF K, L
  <2> QED BY <1>1, SaneCons, StepKinds DEF L
<1> HIDE DEF t
<1>3. Sane(c, K, u)
  BY <1>2, CheckSane
<1> HIDE DEF u
<1>4. Sane(c, K, v)
  BY <1>3, LoadAgain
<1> HIDE DEF v
<1>5. Sane(c, {"loaded"} \cup X, SyncSteps \o v)
  BY <1>4, SyncSane
<1> QED BY <1>2, <1>5 DEF t, u, v

LEMMA MendParts ==
  ASSUME NEW s \in Seq(PlainStages)
  PROVE  /\ Mend \o s = SyncSteps \o (<<"load">> \o (CheckSteps \o (<<"prepare">> \o s)))
         /\ Mend \in Seq(PlainStages)
<1> DEFINE load == <<"load">>
           prepare == <<"prepare">>
           sync == SyncSteps
           check == CheckSteps
<1>1. /\ load \in Seq(PlainStages) /\ prepare \in Seq(PlainStages)
      /\ sync \in Seq(PlainStages) /\ check \in Seq(PlainStages)
  BY StepKinds, PlainShort, PlainFlows
<1>2. Mend = ((sync \o load) \o check) \o prepare
  BY DEF Mend
<1> HIDE DEF load, prepare, sync, check
<1> DEFINE x == sync \o load
           y == x \o check
           u == prepare \o s
           v == check \o u
<1>3. x \in Seq(PlainStages) /\ u \in Seq(PlainStages)
  BY <1>1, ConcatProperties
<1>4. (sync \o load) \o v = sync \o (load \o v)
  <2>1. v \in Seq(PlainStages)
    <3> HIDE DEF u
    <3> QED BY <1>1, <1>3, ConcatProperties
  <2> HIDE DEF v
  <2> QED BY SMTT(30), <1>1, <2>1, Associate
<1>5. Mend = y \o prepare
  BY <1>2
<1> HIDE DEF x
<1>6. y \in Seq(PlainStages)
  BY <1>1, <1>3, ConcatProperties
<1>7. (x \o check) \o u = x \o (check \o u)
  <2> HIDE DEF u
  <2> QED BY SMTT(30), <1>1, <1>3, Associate
<1> HIDE DEF y
<1>8. (y \o prepare) \o s = y \o (prepare \o s) /\ y \o prepare \in Seq(PlainStages)
  BY SMTT(30), <1>1, <1>6, Associate, ConcatProperties
<1> QED BY <1>4, <1>5, <1>7, <1>8 DEF x, y, load, prepare, sync, check

Stocked == {"loaded", "locked", "stored"}

(* What a doctor puts before the rest of its command.                      *)
LEMMA RepairParts ==
  ASSUME NEW s \in Seq(PlainStages)
  PROVE  <<"prepare", "doctor last">> \o s = <<"prepare">> \o (<<"doctor last">> \o s)
<1> DEFINE a == "prepare"
           b == "doctor last"
<1>1. a \in PlainStages /\ b \in PlainStages
  BY StepKinds
<1> HIDE DEF a, b
<1>2. <<a, b>> \o s = <<a>> \o (<<b>> \o s)
  BY <1>1, TwoSteps
<1> QED BY <1>2 DEF a, b

(* What a doctor puts before the rest of its command. *)
LEMMA RepairSane ==
  ASSUME NEW c \in Command, c.name \in {"build", "cache doctor"},
         NEW s, Sane(c, Stocked, s)
  PROVE  /\ Sane(c, Synced, <<"prepare", "doctor last">> \o s)
         /\ Sane(c, {"loaded"}, (Repair(c) \o <<"doctor again">>) \o s)
<1> DEFINE again == <<"doctor again">>
           rest == again \o s
           last == <<"doctor last">> \o s
<1>1. s \in Seq(PlainStages) /\ again \in Seq(PlainStages)
  BY StepKinds, PlainShort DEF Sane
<1>2. rest \in Seq(PlainStages)
  <2> HIDE DEF again
  <2> QED BY <1>1, ConcatProperties
<1> DEFINE K == {"loaded", "locked", "stored", "copied"}
           L == {"loaded", "locked", "stored", "copied"} \cup {}
<1>3. /\ Needs(c, "doctor again") \subseteq K /\ Stocked \subseteq After(K, "doctor again")
      /\ Needs(c, "doctor last") \subseteq K /\ Stocked \subseteq After(K, "doctor last")
      /\ K \subseteq After(Synced, "prepare") /\ Needs(c, "prepare") \subseteq Synced
  BY DEF Stocked, Synced, Needs, After, Gives, Spoils, Facts, Reading, DoctorSteps, FileWrites, LockWrites, ImportStages
<1>4. {} \in SUBSET {"added"} /\ L = K /\ {"loaded"} \cup {} = {"loaded"}
  OBVIOUS
<1> HIDE DEF K, L
<1>5. Sane(c, K, rest) /\ Sane(c, K, last)
  BY <1>3, SaneCons, StepKinds
<1>6. Sane(c, Synced, <<"prepare", "doctor last">> \o s)
  <2>1. "prepare" \in PlainStages
    BY StepKinds
  <2> HIDE DEF last
  <2>2. Sane(c, Synced, <<"prepare">> \o last)
    BY <1>3, <1>5, <2>1, SaneCons
  <2> QED BY <1>1, <2>2, RepairParts DEF last
<1> HIDE DEF rest, last
<1>7. ASSUME c.name = "cache doctor"
      PROVE  Sane(c, {"loaded"}, (Repair(c) \o again) \o s)
  <2>1. Repair(c) = Mend
    BY <1>7 DEF Repair, Mend
  <2>2. Sane(c, {"loaded"},
             SyncSteps \o (<<"load">> \o (CheckSteps \o (<<"prepare">> \o rest))))
    <3>1. Sane(c, L, rest)
      BY <1>4, <1>5
    <3>2. Sane(c, {"loaded"} \cup {},
               SyncSteps \o (<<"load">> \o (CheckSteps \o (<<"prepare">> \o rest))))
      BY <1>4, <3>1, MendSane DEF L
    <3> QED BY <1>4, <3>2
  <2>3. Sane(c, {"loaded"}, Mend \o rest) /\ Mend \in Seq(PlainStages)
    BY <1>2, <2>2, MendParts
  <2>4. (Mend \o again) \o s = Mend \o (again \o s)
    <3> HIDE DEF again
    <3> QED BY <1>1, <2>3, Associate
  <2> QED BY <2>1, <2>3, <2>4 DEF rest
<1>8. ASSUME c.name = "build"
      PROVE  Sane(c, {"loaded"}, (Repair(c) \o again) \o s)
  <2> DEFINE prepare == <<"prepare">>
  <2>1. prepare \in Seq(PlainStages) /\ Repair(c) = prepare
    BY <1>8, StepKinds, PlainShort DEF Repair
  <2>2. Needs(c, "prepare") \subseteq {"loaded"} /\ K \subseteq After({"loaded"}, "prepare")
    BY <1>8 DEF K, Mends, Needs, After, Gives, Spoils, Facts, Reading, DoctorSteps, FileWrites, LockWrites, ImportStages
  <2>3. Sane(c, {"loaded"}, prepare \o rest)
    BY <1>5, <2>2, SaneCons, StepKinds
  <2> HIDE DEF prepare
  <2>4. (prepare \o again) \o s = prepare \o (again \o s)
    <3> HIDE DEF again
    <3> QED BY <1>1, <2>1, Associate
  <2> QED BY <2>1, <2>3, <2>4 DEF rest
<1> QED BY <1>6, <1>7, <1>8

(* One step more before a plan given in parts. *)
LEMMA SaneHead ==
  ASSUME NEW c, NEW K, NEW L, NEW a \in PlainStages, NEW t \in Seq(PlainStages),
         NEW x \in Seq(PlainStages), NEW s \in Seq(PlainStages), x = <<a>> \o t,
         Sane(c, L, t \o s), L \subseteq After(K, a), Needs(c, a) \subseteq K, a # "compile"
  PROVE  Sane(c, K, x \o s)
<1> DEFINE u == <<a>>
           y == t \o s
<1>1. u \in Seq(PlainStages)
  BY PlainShort
<1>2. Sane(c, K, u \o y)
  <2> HIDE DEF y
  <2>1. Sane(c, L, y)
    BY DEF y
  <2> QED BY <2>1, SaneCons
<1> HIDE DEF u
<1>3. (u \o t) \o s = u \o (t \o s)
  BY <1>1, Associate
<1>4. x \o s = (u \o t) \o s
  BY DEF u
<1> QED BY <1>2, <1>3, <1>4

Edit == <<"load", "upsert", "truncate manifest", "write manifest", "load">>

LEMMA AddParts == AddPlan = Edit \o Mend /\ Edit \in Seq(PlainStages)
<1> DEFINE a == Edit
           b == SyncSteps
           c == <<"load">>
           d == CheckSteps
           e == <<"prepare">>
<1>1. /\ a \in Seq(PlainStages) /\ b \in Seq(PlainStages) /\ c \in Seq(PlainStages)
      /\ d \in Seq(PlainStages) /\ e \in Seq(PlainStages)
  BY StepKinds, PlainShort, PlainFlows, Literals DEF Edit
<1> DEFINE x == a \o b
           f == b \o c
           y == x \o c
           g == f \o d
<1>2. AddPlan = (y \o d) \o e /\ Mend = g \o e
  BY DEF AddPlan, Mend, Edit
<1> HIDE DEF a, b, c, d, e
<1>3. x \in Seq(PlainStages) /\ f \in Seq(PlainStages)
  BY <1>1, ConcatProperties
<1>4. y = a \o f
  BY <1>1, Associate
<1>5. g \in Seq(PlainStages)
  <2> HIDE DEF f
  <2> QED BY <1>1, <1>3, ConcatProperties
<1>6. (a \o f) \o d = a \o (f \o d)
  <2> HIDE DEF f, x, y, g
  <2>1. f \in Seq(PlainStages)
    BY <1>3
  <2>2. \A v, w \in Seq(PlainStages) : (v \o w) \o d = v \o (w \o d)
    BY <1>1, Associate
  <2> QED BY <1>1, <2>1, <2>2
<1>7. (a \o g) \o e = a \o (g \o e)
  <2> HIDE DEF g
  <2> QED BY SMTT(30), <1>1, <1>5, Associate
<1>8. (y \o d) \o e = a \o (g \o e)
  <2>1. y \o d = a \o g
    <3>1. y \o d = (a \o f) \o d
      <4> HIDE DEF f, y
      <4> QED BY <1>4
    <3> HIDE DEF f, y
    <3> QED BY <1>6, <3>1
  <2> HIDE DEF y, g
  <2> QED BY <1>7, <2>1
<1> HIDE DEF y, g
<1> QED BY <1>1, <1>2, <1>8 DEF a

LEMMA AddSane ==
  ASSUME NEW c \in Command, c.name = "add"
  PROVE  Sane(c, {"based"}, AddPlan)
<1> DEFINE prepare == <<"prepare">>
           check == CheckSteps \o prepare
           load == <<"load">> \o check
           sync == SyncSteps \o load
           Done == {"loaded", "locked", "added"}
<1>1. Sane(c, Done, prepare)
  <2>1. Needs(c, "end") \subseteq After(Done, "prepare") /\ Needs(c, "prepare") \subseteq Done
    BY DEF Mends, Needs, After, Gives, Spoils, Facts, Reading, DoctorSteps, FileWrites, LockWrites, ImportStages
  <2> HIDE DEF Done
  <2> QED BY <2>1, LastSane, StepKinds
<1>2. {"added"} \in SUBSET {"added"} /\ Done = {"loaded", "locked"} \cup {"added"}
  OBVIOUS
<1> HIDE DEF prepare
<1>3. Sane(c, {"loaded", "locked"} \cup {"added"}, check)
  BY <1>1, <1>2, CheckSane
<1> HIDE DEF check
<1>4. Sane(c, {"loaded", "locked"} \cup {"added"}, load)
  BY <1>3, LoadAgain
<1> HIDE DEF load
<1>5. Sane(c, {"loaded"} \cup {"added"}, sync)
  BY <1>4, SyncSane
<1>6. sync = Mend \o << >> /\ Mend \o << >> = Mend
  <2>1. << >> \in Seq(PlainStages) /\ Mend \in Seq(PlainStages)
    BY EmptySeq, MendParts
  <2>2. Mend \o << >> = SyncSteps \o (<<"load">> \o (CheckSteps \o (<<"prepare">> \o << >>)))
    BY <2>1, MendParts
  <2>3. <<"prepare">> \o << >> = <<"prepare">>
    BY OneStep, StepKinds
  <2> QED BY <2>1, <2>2, <2>3, ConcatEmptySeq DEF load, check, prepare
<1> HIDE DEF sync
<1> DEFINE K1 == {"based", "loaded"}
           K2 == {"based", "edited"}
           K3 == {"edited", "cut"}
           K4 == {"added"}
           K5 == {"loaded", "added"}
<1>7. /\ K1 \subseteq After({"based"}, "load") /\ Needs(c, "load") \subseteq {"based"}
      /\ K2 \subseteq After(K1, "upsert") /\ Needs(c, "upsert") \subseteq K1
      /\ K3 \subseteq After(K2, "truncate manifest") /\ Needs(c, "truncate manifest") \subseteq K2
      /\ K4 \subseteq After(K3, "write manifest") /\ Needs(c, "write manifest") \subseteq K3
      /\ K5 \subseteq After(K4, "load") /\ Needs(c, "load") \subseteq K4
  BY DEF Mends, Needs, After, Gives, Spoils, Facts, Reading, DoctorSteps, FileWrites, LockWrites, ImportStages
<1>8. Sane(c, K5, Mend)
  <2>1. K5 = {"loaded"} \cup {"added"}
    OBVIOUS
  <2> QED BY <1>5, <1>6, <2>1
<1> HIDE DEF K1, K2, K3, K4, K5
<1> DEFINE s1 == "load"
           s2 == "upsert"
           s3 == "truncate manifest"
           s4 == "write manifest"
<1>9. /\ s1 \in PlainStages /\ s2 \in PlainStages /\ s3 \in PlainStages /\ s4 \in PlainStages
      /\ Mend \in Seq(PlainStages)
  BY StepKinds, EmptySeq, MendParts
<1>10. /\ s1 # "compile" /\ s2 # "compile" /\ s3 # "compile" /\ s4 # "compile"
       /\ Edit = <<s1, s2, s3, s4, s1>>
  BY DEF Edit
<1>11. /\ K1 \subseteq After({"based"}, s1) /\ Needs(c, s1) \subseteq {"based"}
       /\ K2 \subseteq After(K1, s2) /\ Needs(c, s2) \subseteq K1
       /\ K3 \subseteq After(K2, s3) /\ Needs(c, s3) \subseteq K2
       /\ K4 \subseteq After(K3, s4) /\ Needs(c, s4) \subseteq K3
       /\ K5 \subseteq After(K4, s1) /\ Needs(c, s1) \subseteq K4
  BY <1>7
<1> HIDE DEF s1, s2, s3, s4
<1> DEFINE t5 == <<s1>>
           t4 == <<s4, s1>>
           t3 == <<s3, s4, s1>>
           t2 == <<s2, s3, s4, s1>>
           t1 == <<s1, s2, s3, s4, s1>>
<1>12. /\ t1 \in Seq(PlainStages) /\ t2 \in Seq(PlainStages) /\ t3 \in Seq(PlainStages)
       /\ t4 \in Seq(PlainStages) /\ t5 \in Seq(PlainStages)
       /\ t1 = <<s1>> \o t2 /\ t2 = <<s2>> \o t3 /\ t3 = <<s3>> \o t4 /\ t4 = <<s4>> \o t5
  <2>1. /\ t1 = <<s1>> \o t2 /\ t2 = <<s2>> \o t3 /\ t3 = <<s3>> \o t4 /\ t4 = <<s4>> \o t5
    <3>1. t4 = <<s4>> \o t5
      BY <1>9, SplitTwo
    <3>2. t3 = <<s3>> \o t4
      BY <1>9, SplitThree
    <3>3. t2 = <<s2>> \o t3
      BY SMTT(30), <1>9, SplitFour
    <3>4. t1 = <<s1>> \o t2
      <4>1. Len(t1) = Len(t2) + 1 /\ t1[1] = s1 /\ \A i \in 1..Len(t2) : t1[i + 1] = t2[i]
        OBVIOUS
      <4>2. t1 \in Seq(PlainStages) /\ t2 \in Seq(PlainStages)
        BY <1>9
      <4> HIDE DEF t1, t2
      <4> QED BY <1>9, <4>1, <4>2, FirstStep
    <3> HIDE DEF t1, t2, t3, t4, t5
    <3> QED BY <3>1, <3>2, <3>3, <3>4
  <2>2. t2 \in Seq(PlainStages) /\ t4 \in Seq(PlainStages) /\ t5 \in Seq(PlainStages) /\ t3 \in Seq(PlainStages) /\ t1 \in Seq(PlainStages)
    BY <1>9
  <2> HIDE DEF t1, t2, t3, t4, t5
  <2> QED BY <2>1, <2>2
<1>13. Sane(c, K4, t5 \o Mend)
  BY <1>8, <1>9, <1>10, <1>11, SaneCons
<1> HIDE DEF t1, t2, t3, t4, t5
<1>14. Sane(c, K3, t4 \o Mend)
  BY ZenonT(30), <1>9, <1>10, <1>11, <1>12, <1>13, SaneHead
<1>15. Sane(c, K2, t3 \o Mend)
  BY <1>9, <1>10, <1>11, <1>12, <1>14, SaneHead
<1>16. Sane(c, K1, t2 \o Mend)
  BY <1>9, <1>10, <1>11, <1>12, <1>15, SaneHead
<1>17. Sane(c, {"based"}, t1 \o Mend)
  BY <1>9, <1>10, <1>11, <1>12, <1>16, SaneHead
<1> QED BY <1>10, <1>17, AddParts DEF t1

(* Every command line plans what it needs before it needs it. *)
LEMMA PlanSane ==
  ASSUME NEW c \in Command
  PROVE  Sane(c, IF c.name = "add" THEN {"based"} ELSE {}, Plan(c))
<1>1. c.name \in Names
  BY DEF Command
<1>2. CASE c.name = "add"
  BY <1>2, AddSane DEF Plan
<1>3. CASE c.name = "build"
  BY <1>3, BuildSane DEF Plan
<1>4. CASE c.name \in {"lock sync", "lock check"}
  BY <1>4, LockSane DEF Plan
<1>5. CASE c.name \in {"cache status", "cache sync", "cache doctor", "cache clean"}
  BY <1>5, CacheSane DEF Plan
<1> QED BY <1>1, <1>2, <1>3, <1>4, <1>5 DEF Names
-----------------------------------------------------------------------------
LEMMA CopyAllValues ==
  ASSUME NEW n \in Nat
  PROVE  /\ CopyAll(n) = [i \in 1..(n * 5) |-> CopySteps[((i - 1) % 5) + 1]]
         /\ CopyAll(n) \in Seq(Stages) /\ Len(CopyAll(n)) = n * 5
<1>1. Len(CopySteps) = 5
  BY DEF CopySteps
<1>2. CopyAll(n) \in Seq(Stages)
  BY CopyAllCalm, CalmIsStages
<1>3. CopyAll(n) = [i \in 1..(n * 5) |-> CopySteps[((i - 1) % 5) + 1]]
  BY <1>1 DEF CopyAll
<1>4. n * 5 \in Nat /\ DOMAIN CopyAll(n) = 1..(n * 5)
  BY <1>3
<1>5. Len(CopyAll(n)) = n * 5
  BY <1>2, <1>4, LenProperties
<1> QED BY <1>2, <1>3, <1>5

LEMMA CopyLeftValues ==
  ASSUME NEW n \in Nat, NEW o \in 0..4, n = 0 => o = 0
  PROVE  /\ CopyLeft(n, o) \in Seq(Stages) /\ Len(CopyLeft(n, o)) = 5 * n - o
         /\ 5 * n - o \in Nat
         /\ \A i \in 1..(5 * n - o) : CopyLeft(n, o)[i] = CopySteps[((o + i - 1) % 5) + 1]
<1>1. 5 * n - o \in Nat /\ n * 5 = 5 * n
  OBVIOUS
<1>2. \A i \in 1..(5 * n - o) : o + i \in 1..(n * 5)
  BY <1>1
<1>3. \A i \in 1..(5 * n - o) : CopyAll(n)[o + i] \in Stages
  BY <1>2, CopyAllValues, ElementOfSeq
<1> DEFINE k == 5 * n - o
           x == CopyLeft(n, o)
<1>4. x = [i \in 1..k |-> CopyAll(n)[o + i]]
  BY DEF CopyLeft
<1>5. x \in [1..k -> Stages] /\ k \in Nat
  BY <1>1, <1>3, <1>4
<1>6. \A i \in 1..k : x[i] = CopySteps[((o + i - 1) % 5) + 1]
  <2> SUFFICES ASSUME NEW i \in 1..k PROVE x[i] = CopySteps[((o + i - 1) % 5) + 1]
    OBVIOUS
  <2>1. o + i \in 1..(n * 5)
    BY <1>2
  <2> DEFINE j == o + i
  <2>2. x[i] = CopyAll(n)[j] /\ j \in 1..(n * 5)
    BY <1>4, <2>1
  <2> HIDE DEF j, x
  <2>3. CopyAll(n)[j] = CopySteps[((j - 1) % 5) + 1]
    BY <2>2, CopyAllValues
  <2> QED BY <2>2, <2>3 DEF j
<1> HIDE DEF k, x
<1>7. x \in Seq(Stages) /\ DOMAIN x = 1..k
  BY <1>5, SeqDef
<1>8. Len(x) = k
  BY <1>5, <1>7, LenProperties
<1> QED BY <1>5, <1>6, <1>7, <1>8 DEF k, x

LEMMA PlainIsStages ==
  ASSUME NEW s \in Seq(PlainStages)
  PROVE  s \in Seq(Stages)
BY StepKinds, SeqMonotonic

LEMMA CopyStep ==
  ASSUME NEW n \in Nat \ {0}, NEW o \in 0..4, NEW s \in Seq(PlainStages)
  PROVE  /\ Copies(n, o, s) # << >>
         /\ Head(Copies(n, o, s)) = CopySteps[o + 1]
         /\ o < 4 => Tail(Copies(n, o, s)) = Copies(n, o + 1, s)
         /\ o = 4 => Tail(Copies(n, o, s)) = Copies(n - 1, 0, s)
<1>1. s \in Seq(Stages)
  BY PlainIsStages
<1> DEFINE a == CopyLeft(n, o)
<1>2. /\ a \in Seq(Stages) /\ Len(a) = 5 * n - o
      /\ \A i \in 1..(5 * n - o) : a[i] = CopySteps[((o + i - 1) % 5) + 1]
  BY CopyLeftValues
<1>3. a[1] = CopySteps[o + 1]
  <2>1. 1 \in 1..(5 * n - o) /\ ((o + 1 - 1) % 5) + 1 = o + 1
    OBVIOUS
  <2> HIDE DEF a
  <2> QED BY <1>2, <2>1
<1>4. CASE o < 4
  <2> DEFINE q == o + 1
             m == n
             b == CopyLeft(m, q)
  <2>1. /\ q \in 0..4 /\ m \in Nat /\ (m = 0 => q = 0)
    BY <1>4
  <2>2. /\ 5 * n - o = (5 * m - q) + 1 /\ 5 * m - q \in Nat
        /\ \A i \in 1..(5 * m - q) : ((o + (i + 1) - 1) % 5) = ((q + i - 1) % 5)
    BY <1>4
  <2> HIDE DEF q, m
  <2>3. /\ b \in Seq(Stages) /\ Len(b) = 5 * m - q
        /\ \A i \in 1..(5 * m - q) : b[i] = CopySteps[((q + i - 1) % 5) + 1]
    BY <2>1, CopyLeftValues
  <2> HIDE DEF a, b
  <2>4. Len(a) = Len(b) + 1 /\ \A i \in 1..Len(b) : i + 1 \in 1..(5 * n - o)
    BY <1>2, <2>2, <2>3
  <2>5. \A i \in 1..Len(b) : a[i + 1] = b[i]
    BY <1>2, <2>2, <2>3, <2>4
  <2> DEFINE x == a \o s
  <2>6. x # << >> /\ Head(x) = a[1] /\ Tail(x) = b \o s
    BY <1>1, <1>2, <2>3, <2>4, <2>5, TailCat
  <2>7. x = Copies(n, o, s) /\ b \o s = Copies(m, q, s)
    BY DEF a, b, Copies
  <2> HIDE DEF x
  <2>8. Copies(n, o, s) # << >> /\ Head(Copies(n, o, s)) = CopySteps[o + 1]
        /\ Tail(Copies(n, o, s)) = Copies(m, q, s)
    BY <1>3, <2>6, <2>7
  <2> QED BY <1>4, <2>8 DEF q, m
<1>5. CASE o = 4
  <2> DEFINE q == 0
             m == n - 1
             b == CopyLeft(m, q)
  <2>1. /\ q \in 0..4 /\ m \in Nat /\ (m = 0 => q = 0)
    BY <1>5
  <2>2. /\ 5 * n - o = (5 * m - q) + 1 /\ 5 * m - q \in Nat
        /\ \A i \in 1..(5 * m - q) : ((o + (i + 1) - 1) % 5) = ((q + i - 1) % 5)
    BY <1>5
  <2> HIDE DEF q, m
  <2>3. /\ b \in Seq(Stages) /\ Len(b) = 5 * m - q
        /\ \A i \in 1..(5 * m - q) : b[i] = CopySteps[((q + i - 1) % 5) + 1]
    BY <2>1, CopyLeftValues
  <2> HIDE DEF a, b
  <2>4. Len(a) = Len(b) + 1 /\ \A i \in 1..Len(b) : i + 1 \in 1..(5 * n - o)
    BY <1>2, <2>2, <2>3
  <2>5. \A i \in 1..Len(b) : a[i + 1] = b[i]
    BY <1>2, <2>2, <2>3, <2>4
  <2> DEFINE x == a \o s
  <2>6. x # << >> /\ Head(x) = a[1] /\ Tail(x) = b \o s
    BY <1>1, <1>2, <2>3, <2>4, <2>5, TailCat
  <2>7. x = Copies(n, o, s) /\ b \o s = Copies(m, q, s)
    BY DEF a, b, Copies
  <2> HIDE DEF x
  <2>8. Copies(n, o, s) # << >> /\ Head(Copies(n, o, s)) = CopySteps[o + 1]
        /\ Tail(Copies(n, o, s)) = Copies(m, q, s)
    BY <1>3, <2>6, <2>7
  <2> QED BY <1>5, <2>8 DEF q, m
<1> QED BY <1>4, <1>5

LEMMA CopyStart ==
  ASSUME NEW n \in Nat, NEW s \in Seq(PlainStages)
  PROVE  /\ CopyAll(n) \o s = Copies(n, 0, s)
         /\ Copies(0, 0, s) = s
<1>1. CopyLeft(n, 0) = CopyAll(n)
  <2> DEFINE x == CopyLeft(n, 0)
  <2>1. 0 \in 0..4 /\ 5 * n - 0 = n * 5 /\ \A i \in 1..(n * 5) : 0 + i - 1 = i - 1
    OBVIOUS
  <2>2. /\ x \in Seq(Stages) /\ Len(x) = 5 * n - 0
        /\ \A i \in 1..(5 * n - 0) : x[i] = CopySteps[((0 + i - 1) % 5) + 1]
    BY <2>1, CopyLeftValues
  <2> HIDE DEF x
  <2>3. \A i \in 1..(n * 5) : x[i] = CopyAll(n)[i]
    BY <2>1, <2>2, CopyAllValues
  <2>4. x = CopyAll(n)
    BY <2>1, <2>2, <2>3, CopyAllValues, SeqEqual
  <2> QED BY <2>4 DEF x
<1>2. CopyLeft(0, 0) = << >>
  <2>1. 0 \in Nat /\ 0 \in 0..4 /\ 5 * 0 - 0 = 0
    OBVIOUS
  <2>2. CopyLeft(0, 0) \in Seq(Stages) /\ Len(CopyLeft(0, 0)) = 0
    BY <2>1, CopyLeftValues
  <2> QED BY <2>2, EmptySeq
<1>3. << >> \o s = s
  BY ConcatEmptySeq
<1> QED BY <1>1, <1>2, <1>3 DEF Copies

(* The imports alternate.                                                  *)
Turn(i) == IF i % 2 = 1 THEN "import" ELSE "find module"

LEMMA TurnValues ==
  /\ \A i \in Nat : Turn(i) \in Stages
  /\ Turn(1) = "import" /\ Turn(2) = "find module"
  /\ \A i \in Nat : Turn(i + 2) = Turn(i)
<1>1. 1 % 2 = 1 /\ 2 % 2 # 1 /\ \A i \in Nat : (i + 2) % 2 = i % 2
  OBVIOUS
<1>2. "import" \in Stages /\ "find module" \in Stages
  BY DEF Stages
<1> QED BY <1>1, <1>2 DEF Turn

LEMMA ImportAllValues ==
  ASSUME NEW n \in Nat
  PROVE  /\ ImportAll(n) \in Seq(Stages) /\ Len(ImportAll(n)) = 2 * n
         /\ \A i \in 1..(2 * n) : ImportAll(n)[i] = Turn(i)
<1> DEFINE x == ImportAll(n)
<1>1. x \in Seq(Stages)
  BY ImportAllCalm, CalmIsStages
<1>2. x = [i \in 1..(2 * n) |-> Turn(i)]
  BY DEF ImportAll, Turn
<1>3. DOMAIN x = 1..(2 * n) /\ 2 * n \in Nat
  BY <1>2
<1> HIDE DEF x
<1>4. \A i \in 1..(2 * n) : x[i] = Turn(i)
  BY <1>2
<1>5. Len(x) = 2 * n
  BY <1>1, <1>3, LenProperties
<1> QED BY <1>1, <1>4, <1>5 DEF x

LEMMA ImportLeftValues ==
  ASSUME NEW n \in Nat, NEW o \in 0..1, n = 0 => o = 0
  PROVE  /\ ImportLeft(n, o) \in Seq(Stages) /\ Len(ImportLeft(n, o)) = 2 * n - o
         /\ 2 * n - o \in Nat
         /\ \A i \in 1..(2 * n - o) :
              ImportLeft(n, o)[i] = Turn(o + i)
<1> DEFINE k == 2 * n - o
           x == ImportLeft(n, o)
<1>1. k \in Nat /\ \A i \in 1..k : o + i \in 1..(2 * n)
  OBVIOUS
<1>2. x = [i \in 1..k |-> ImportAll(n)[o + i]]
  BY DEF ImportLeft
<1> HIDE DEF k, x
<1>3. \A i \in 1..k : x[i] = Turn(o + i)
  <2> SUFFICES ASSUME NEW i \in 1..k PROVE x[i] = Turn(o + i)
    OBVIOUS
  <2> DEFINE j == o + i
  <2>1. x[i] = ImportAll(n)[j] /\ j \in 1..(2 * n)
    BY <1>1, <1>2
  <2> HIDE DEF j
  <2>2. ImportAll(n)[j] = Turn(j)
    BY <2>1, ImportAllValues
  <2> QED BY <2>1, <2>2 DEF j
<1>4. x \in [1..k -> Stages]
  <2>1. \A i \in 1..k : o + i \in Nat
    BY <1>1
  <2>2. \A i \in 1..k : x[i] \in Stages
    BY <1>3, <2>1, TurnValues
  <2> QED BY <1>2, <2>2
<1>5. x \in Seq(Stages) /\ DOMAIN x = 1..k
  BY <1>1, <1>4, SeqDef
<1>6. Len(x) = k
  BY <1>1, <1>5, LenProperties
<1> QED BY <1>1, <1>3, <1>5, <1>6 DEF k, x

(* What is left of the imports. *)
LEMMA ImportStep ==
  ASSUME NEW n \in Nat \ {0}, NEW o \in 0..1
  PROVE  /\ ImportLeft(n, o) # << >>
         /\ o = 0 => Head(ImportLeft(n, o)) = "import"
         /\ o = 1 => Head(ImportLeft(n, o)) = "find module"
         /\ o = 0 => Tail(ImportLeft(n, o)) = ImportLeft(n, 1)
         /\ o = 1 => Tail(ImportLeft(n, o)) = ImportLeft(n - 1, 0)
<1> DEFINE x == ImportLeft(n, o)
           k == 2 * n - o
<1>1. /\ x \in Seq(Stages) /\ Len(x) = k /\ k >= 1 /\ k \in Nat
      /\ \A i \in 1..k : x[i] = Turn(o + i)
  <2>1. k >= 1 /\ k \in Nat /\ n \in Nat /\ (n = 0 => o = 0)
    OBVIOUS
  <2>2. x \in Seq(Stages) /\ Len(x) = k /\ \A i \in 1..k : x[i] = Turn(o + i)
    BY <2>1, ImportLeftValues
  <2> HIDE DEF x, k
  <2> QED BY <2>1, <2>2
<1> HIDE DEF x, k
<1>2. x # << >> /\ x[1] = Turn(o + 1)
  <2>1. 1 \in 1..k
    BY <1>1
  <2> QED BY <1>1, <2>1, EmptySeq
<1> DEFINE z == Tail(x)
<1>3. /\ Head(x) = x[1] /\ z \in Seq(Stages) /\ Len(z) = Len(x) - 1
      /\ \A i \in 1..Len(z) : z[i] = x[i + 1]
  BY <1>1, <1>2, HeadTailProperties
<1> HIDE DEF z
<1>4. CASE o = 0
  <2> DEFINE m == n
             p == 1
             j == 2 * m - p
             y == ImportLeft(m, p)
  <2>1. /\ p \in 0..1 /\ m \in Nat /\ (m = 0 => p = 0) /\ k = j + 1 /\ j \in Nat
    BY <1>4 DEF k
  <2>2. \A i \in 1..j : Turn(o + (i + 1)) = Turn(p + i)
    <3>1. \A i \in 1..j : i \in Nat /\ o + (i + 1) = p + i
      BY <1>4, <2>1
    <3> HIDE DEF j, p
    <3> QED BY <3>1, TurnValues
  <2>3. Turn(o + 1) = "import"
    <3>1. o + 1 = 1
      BY <1>4
    <3> QED BY <3>1, TurnValues
  <2> HIDE DEF m, p
  <2>4. /\ y \in Seq(Stages) /\ Len(y) = j
        /\ \A i \in 1..j : y[i] = Turn(p + i)
    BY <2>1, ImportLeftValues
  <2> HIDE DEF y, j
  <2>5. Len(z) = Len(y)
    BY <1>1, <1>3, <2>1, <2>4
  <2>6. \A i \in 1..Len(z) : z[i] = y[i]
    <3> SUFFICES ASSUME NEW i \in 1..Len(z) PROVE z[i] = y[i]
      OBVIOUS
    <3>1. i \in 1..j /\ i + 1 \in 1..k
      BY <1>1, <2>1, <2>4, <2>5
    <3>2. z[i] = Turn(o + (i + 1)) /\ y[i] = Turn(p + i)
      BY <1>1, <1>3, <2>4, <3>1
    <3> QED BY <2>2, <3>1, <3>2
  <2>7. z = y
    BY <1>3, <2>4, <2>5, <2>6, SeqEqual
  <2>8. Head(x) = "import" /\ z = ImportLeft(m, p)
    BY <1>2, <1>3, <2>3, <2>7 DEF y
  <2>9. Head(ImportLeft(n, o)) = "import" /\ Tail(ImportLeft(n, o)) = ImportLeft(n, 1)
    BY <2>8 DEF x, z, m, p
  <2>10. o # 1 /\ ImportLeft(n, o) # << >>
    BY <1>2, <1>4 DEF x
  <2> QED BY <1>4, <2>9, <2>10, Zenon
<1>5. CASE o = 1
  <2> DEFINE m == n - 1
             p == 0
             j == 2 * m - p
             y == ImportLeft(m, p)
  <2>1. /\ p \in 0..1 /\ m \in Nat /\ (m = 0 => p = 0) /\ k = j + 1 /\ j \in Nat
    BY <1>5 DEF k
  <2>2. \A i \in 1..j : Turn(o + (i + 1)) = Turn(p + i)
    <3>1. \A i \in 1..j : i \in Nat /\ o + (i + 1) = i + 2 /\ p + i = i
      BY <1>5, <2>1
    <3> HIDE DEF j, p
    <3> QED BY <3>1, TurnValues
  <2>3. Turn(o + 1) = "find module"
    <3>1. o + 1 = 2
      BY <1>5
    <3> QED BY <3>1, TurnValues
  <2> HIDE DEF m, p
  <2>4. /\ y \in Seq(Stages) /\ Len(y) = j
        /\ \A i \in 1..j : y[i] = Turn(p + i)
    BY <2>1, ImportLeftValues
  <2> HIDE DEF y, j
  <2>5. Len(z) = Len(y)
    BY <1>1, <1>3, <2>1, <2>4
  <2>6. \A i \in 1..Len(z) : z[i] = y[i]
    <3> SUFFICES ASSUME NEW i \in 1..Len(z) PROVE z[i] = y[i]
      OBVIOUS
    <3>1. i \in 1..j /\ i + 1 \in 1..k
      BY <1>1, <2>1, <2>4, <2>5
    <3>2. z[i] = Turn(o + (i + 1)) /\ y[i] = Turn(p + i)
      BY <1>1, <1>3, <2>4, <3>1
    <3> QED BY <2>2, <3>1, <3>2
  <2>7. z = y
    BY <1>3, <2>4, <2>5, <2>6, SeqEqual
  <2>8. Head(x) = "find module" /\ z = ImportLeft(m, p)
    BY <1>2, <1>3, <2>3, <2>7 DEF y
  <2>9. Head(ImportLeft(n, o)) = "find module" /\ Tail(ImportLeft(n, o)) = ImportLeft(n - 1, 0)
    BY <2>8 DEF x, z, m, p
  <2>10. o # 0 /\ ImportLeft(n, o) # << >>
    BY <1>2, <1>5 DEF x
  <2> QED BY <1>5, <2>9, <2>10, Zenon
<1>6. o = 0 \/ o = 1
  OBVIOUS
<1> QED BY <1>4, <1>5, <1>6, Zenon

LEMMA ImportStart ==
  ASSUME NEW n \in Nat
  PROVE  ImportAll(n) = ImportLeft(n, 0) /\ ImportLeft(0, 0) = << >>
<1>1. ImportLeft(n, 0) = ImportAll(n)
  <2> DEFINE o == 0
             x == ImportLeft(n, o)
  <2>0. /\ o = 0 /\ o \in 0..1 /\ (n = 0 => o = 0)
        /\ 2 * n - o = 2 * n /\ \A i \in 1..(2 * n) : o + i = i
    OBVIOUS
  <2> HIDE DEF o
  <2>2. /\ x \in Seq(Stages) /\ Len(x) = 2 * n - o
        /\ \A i \in 1..(2 * n - o) : x[i] = Turn(o + i)
    BY <2>0, ImportLeftValues
  <2> HIDE DEF x
  <2>1. 2 * n - o = 2 * n /\ \A i \in 1..(2 * n) : o + i = i
    BY <2>0
  <2>3. \A i \in 1..(2 * n) : x[i] = ImportAll(n)[i]
    BY <2>1, <2>2, ImportAllValues
  <2>4. x = ImportAll(n)
    BY <2>1, <2>2, <2>3, ImportAllValues, SeqEqual
  <2> QED BY <2>0, <2>4, Zenon DEF x
<1>2. ImportLeft(0, 0) = << >>
  <2>1. 0 \in Nat /\ 0 \in 0..1 /\ 2 * 0 - 0 = 0
    OBVIOUS
  <2>2. ImportLeft(0, 0) \in Seq(Stages) /\ Len(ImportLeft(0, 0)) = 0
    BY <2>1, ImportLeftValues
  <2> QED BY <2>2, EmptySeq
<1> QED BY <1>1, <1>2
-----------------------------------------------------------------------------
CachedParts == [part : Parts, of : Nat]
StoreIn(rp, ca, N) == rp \in [Packages -> N] /\ ca \in [Packages -> [part : Parts, of : N]]
StoreOK == repo \in [Packages -> Nat] /\ cache \in [Packages -> CachedParts]

(* A command that nobody disturbs. *)
Fine(r, m, l, rp, ca) ==
  /\ r.base \in Manifest
  /\ r.running => Sound(r, m, l, rp, ca)
  /\ ~r.running /\ r.result = "failed" /\ Mends(r.cmd) => ~Valid(m) \/ ~Resolvable(m.deps)

SInv ==
  /\ IInv /\ StoreOK
  /\ quiet \in [Procs -> BOOLEAN]
  /\ \A p \in Procs : quiet[p] => Fine(proc[p], manifest, lock, repo, cache)
-----------------------------------------------------------------------------
(* What it means that a lock verifies. *)
LEMMA VerifiedMeans ==
  ASSUME NEW l \in Lock, Entries(l), NEW m \in Manifest, Parses(l), Verifies(m, l)
  PROVE  l = LockText(m) /\ Resolvable(m.deps) /\ l.deps = m.deps
<1>1. l.deps \in Tables /\ m.deps \in Tables
  BY DEF Lock, Manifest
<1>2. /\ l.sum = m.deps /\ l.state = "written"
      /\ DOMAIN l.deps = DOMAIN m.deps
      /\ \A d \in DOMAIN m.deps : l.deps[d] = m.deps[d]
  BY DEF Parses, Verifies
<1> DEFINE t == m.deps
<1>3. l.deps = t
  BY <1>1, <1>2, TableMember
<1>4. Resolvable(t)
  BY <1>3 DEF Resolvable, Entries
<1>5. Written(t) = DOMAIN t
  BY <1>4 DEF Written, Resolvable
<1>6. [d \in Written(t) |-> t[d]] = t
  BY <1>1, <1>5, TableMember
<1>7. l = [state |-> "written", sum |-> t, deps |-> t]
  BY <1>2, <1>3 DEF Lock
<1> QED BY <1>3, <1>4, <1>6, <1>7 DEF LockText

LEMMA VerifiableText ==
  ASSUME NEW m \in Manifest, Resolvable(m.deps)
  PROVE  LET l == LockText(m) IN Parses(l) /\ Verifies(m, l) /\ l.deps = m.deps
<1> DEFINE t == m.deps
<1>1. t \in Tables
  BY DEF Manifest
<1>2. Written(t) = DOMAIN t
  BY DEF Written, Resolvable
<1>3. [d \in Written(t) |-> t[d]] = t
  BY <1>1, <1>2, TableMember
<1>4. LockText(m) = [state |-> "written", sum |-> t, deps |-> t]
  BY <1>3 DEF LockText
<1> QED BY <1>4 DEF Parses, Verifies

LEMMA LockedMeans ==
  ASSUME FilesOK, LockedTo(manifest, lock)
  PROVE  /\ Valid(manifest) /\ Resolvable(manifest.deps)
         /\ Parses(lock) /\ Verifies(manifest, lock) /\ lock.deps = manifest.deps
BY VerifiableText DEF LockedTo, FilesOK

LEMMA LocksManifest ==
  ASSUME FilesOK, Valid(manifest), Parses(lock), Verifies(manifest, lock)
  PROVE  LockedTo(manifest, lock)
BY VerifiedMeans DEF LockedTo, FilesOK

(* The packages of a lock. *)
LEMMA LockPackages ==
  ASSUME FilesOK
  PROVE  /\ \A d \in DOMAIN lock.deps : Package(d, lock.deps) \in Packages
         /\ DOMAIN lock.deps \subseteq Nat /\ IsFiniteSet(DOMAIN lock.deps)
<1> DEFINE t == lock.deps
<1>1. t \in Tables /\ Entries(lock)
  BY DEF FilesOK, Lock
<1> HIDE DEF t
<1>2. DOMAIN t \subseteq Deps /\ t \in [DOMAIN t -> Requirements]
  BY <1>1, TableMember
<1>3. \A d \in DOMAIN t : Resolved[t[d]] \in Versions
  BY <1>1, <1>2, ResolvedAssumption DEF t, Entries
<1>4. \A d \in DOMAIN t : Package(d, t) \in Packages
  BY <1>2, <1>3 DEF Package, Packages
<1>5. DOMAIN t \subseteq Nat /\ IsFiniteSet(DOMAIN t)
  BY <1>2, DepsAssumption, FS_Subset
<1> QED BY <1>4, <1>5 DEF t

LEMMA StoreStep ==
  ASSUME NEW N, {0, 1} \subseteq N, StoreIn(repo, cache, N), NEW p,
         \/ Seed(p) \/ Uncache(p) \/ MakeDirs(p) \/ CreateFile(p) \/ FillFile(p) \/ Clean(p)
         \/ UNCHANGED <<repo, cache>>
  PROVE  StoreIn(repo', cache', N)
<1> DEFINE Entry == [part : Parts, of : N]
<1>1. /\ Uncached \in Entry
      /\ [part |-> "dirs", of |-> 0] \in Entry /\ [part |-> "torn", of |-> 0] \in Entry
      /\ \A n \in N : [part |-> "whole", of |-> n] \in Entry
  BY DEF Uncached, Parts
<1>0. repo \in [Packages -> N] /\ cache \in [Packages -> Entry]
  BY DEF StoreIn
<1> HIDE DEF Entry
<1>2. ASSUME NEW k, NEW v, k \in Packages => v \in Entry, cache' \in {cache, [cache EXCEPT ![k] = v]}
      PROVE  cache' \in [Packages -> Entry]
  BY <1>0, <1>2
<1>3. ASSUME NEW k, NEW v, k \in Packages => v \in N, repo' \in {repo, [repo EXCEPT ![k] = v]}
      PROVE  repo' \in [Packages -> N]
  BY <1>0, <1>3
<1> DEFINE k == Head(proc[p].pkgs)
<1>4. CASE Seed(p)
  <2>1. repo' = [repo EXCEPT ![k] = IF repo[k] = 0 THEN 1 ELSE repo[k]] /\ cache' = cache
    BY <1>4 DEF Seed
  <2>2. k \in Packages => (IF repo[k] = 0 THEN 1 ELSE repo[k]) \in N
    BY <1>0
  <2> HIDE DEF k
  <2> QED BY <1>3, <2>1, <2>2, <1>0 DEF StoreIn, Entry
<1>5. CASE Uncache(p)
  <2>1. repo' = repo /\ cache' = [cache EXCEPT ![k] = Uncached]
    BY <1>5 DEF Uncache
  <2> HIDE DEF k
  <2> QED BY <1>1, <1>2, <2>1, <1>0 DEF StoreIn, Entry
<1>6. CASE MakeDirs(p) \/ CreateFile(p)
  <2>1. repo' = repo /\ \E v \in Entry : cache' \in {cache, [cache EXCEPT ![k] = v]}
    BY <1>1, <1>6 DEF MakeDirs, CreateFile
  <2> HIDE DEF k
  <2> QED BY <1>2, <2>1, <1>0 DEF StoreIn, Entry
<1>7. CASE FillFile(p)
  <2>1. repo' = repo /\ cache' \in {cache, [cache EXCEPT ![k] = [part |-> "whole", of |-> repo[k]]]}
    BY <1>7 DEF FillFile
  <2>2. k \in Packages => [part |-> "whole", of |-> repo[k]] \in Entry
    BY <1>0, <1>1
  <2> HIDE DEF k
  <2> QED BY <1>2, <2>1, <2>2, <1>0 DEF StoreIn, Entry
<1>8. CASE Clean(p)
  <2>1. /\ cache' = cache \/ cache' = [j \in Packages |-> Uncached]
        /\ repo' = repo \/ repo' = [j \in Packages |-> 0]
    BY <1>8 DEF Clean
  <2> QED BY <1>1, <2>1, <1>0 DEF StoreIn, Entry
<1>10. CASE UNCHANGED <<repo, cache>>
  BY <1>10
<1> QED BY <1>4, <1>5, <1>6, <1>7, <1>8, <1>10

LEMMA StoreEdit ==
  ASSUME NEW N, NEW M, N \subseteq M, \A n \in N : n + 1 \in M,
         StoreIn(repo, cache, N), EditModules
  PROVE  StoreIn(repo', cache', M)
<1>1. PICK j \in Packages : repo' = [repo EXCEPT ![j] = @ + 1]
  BY DEF EditModules
<1>2. cache' = cache
  BY DEF EditModules, Edits
<1> QED BY <1>1, <1>2 DEF StoreIn

LEMMA StoreKept ==
  ASSUME StoreOK, NEW p,
         \/ Seed(p) \/ Uncache(p) \/ MakeDirs(p) \/ CreateFile(p) \/ FillFile(p) \/ Clean(p)
         \/ EditModules \/ UNCHANGED <<repo, cache>>
  PROVE  StoreOK'
<1>1. {0, 1} \subseteq Nat /\ \A n \in Nat : n + 1 \in Nat
  OBVIOUS
<1>2. StoreIn(repo, cache, Nat)
  BY DEF StoreOK, StoreIn, CachedParts
<1>3. StoreIn(repo', cache', Nat)
  BY <1>1, <1>2, StoreStep, StoreEdit
<1> QED BY <1>3 DEF StoreOK, StoreIn, CachedParts
-----------------------------------------------------------------------------
LEMMA StageKinds ==
  /\ CopyStages \cap ImportStages = {} /\ CopyStages \cap PlainStages = {}
  /\ ImportStages \cap PlainStages = {}
  /\ "import" \in ImportStages /\ "find module" \in ImportStages
BY DEF CopyStages, ImportStages, PlainStages

LEMMA CopyNames ==
  /\ CopySteps[0 + 1] = "seed" /\ CopySteps[1 + 1] = "uncache" /\ CopySteps[2 + 1] = "make dirs"
  /\ CopySteps[3 + 1] = "create file" /\ CopySteps[4 + 1] = "fill file"
  /\ \A o \in 0..4 : CopySteps[o + 1] \in CopyStages
  /\ \A o, q \in 0..4 : CopySteps[o + 1] = CopySteps[q + 1] => o = q
<1>1. /\ CopySteps[1] = "seed" /\ CopySteps[2] = "uncache" /\ CopySteps[3] = "make dirs"
      /\ CopySteps[4] = "create file" /\ CopySteps[5] = "fill file"
  BY DEF CopySteps
<1>2. 0 + 1 = 1 /\ 1 + 1 = 2 /\ 2 + 1 = 3 /\ 3 + 1 = 4 /\ 4 + 1 = 5
  OBVIOUS
<1>3. /\ CopySteps[0 + 1] = "seed" /\ CopySteps[1 + 1] = "uncache" /\ CopySteps[2 + 1] = "make dirs"
      /\ CopySteps[3 + 1] = "create file" /\ CopySteps[4 + 1] = "fill file"
  BY <1>1, <1>2
<1>4. \A o \in 0..4 : o = 0 \/ o = 1 \/ o = 2 \/ o = 3 \/ o = 4
  OBVIOUS
<1>5. \A o \in 0..4 : CopySteps[o + 1] \in CopyStages
  BY <1>3, <1>4 DEF CopyStages
<1>6. ASSUME NEW o \in 0..4, NEW q \in 0..4, CopySteps[o + 1] = CopySteps[q + 1] PROVE o = q
  BY <1>3, <1>4, <1>6
<1> QED BY <1>3, <1>5, <1>6

LEMMA SaneEmpty ==
  ASSUME NEW c, NEW K, Sane(c, K, << >>)
  PROVE  Needs(c, "end") \subseteq K
<1> DEFINE s == << >>
<1>1. Len(s) = 0
  OBVIOUS
<1>2. Good(c, K, s)
  BY DEF Sane
<1> HIDE DEF s
<1>3. Nth(s, 1) = "end" /\ 1 \in 1..(Len(s) + 1)
  BY <1>1 DEF Nth
<1>4. ASSUME NEW f \in Needs(c, "end") PROVE f \in K
  <2>1. Comes(f, K, s, 1)
    BY <1>2, <1>3 DEF Good
  <2> QED BY <2>1 DEF Comes
<1> QED BY <1>4

(* Where a sound process is. *)
LEMMA SoundHead ==
  ASSUME NEW r, Sound(r, manifest, lock, repo, cache), r.plan # << >>
  PROVE  \/ /\ Head(r.plan) \in PlainStages
            /\ Resting(r, r.plan) /\ Sane(r.cmd, Known(r, manifest, lock, repo, cache), r.plan)
         \/ /\ Head(r.plan) \in CopyStages
            /\ \E s : /\ Copying(r, s, repo, cache)
                      /\ Sane(r.cmd, Known(r, manifest, lock, repo, cache), s)
         \/ /\ Head(r.plan) \in ImportStages
            /\ Importing(r, << >>, manifest, lock, repo, cache)
            /\ Sane(r.cmd, Known(r, manifest, lock, repo, cache), << >>)
<1> DEFINE K == Known(r, manifest, lock, repo, cache)
<1>1. PICK s : /\ Sane(r.cmd, K, s)
               /\ \/ Resting(r, s) \/ Copying(r, s, repo, cache)
                  \/ Importing(r, s, manifest, lock, repo, cache)
  BY DEF Sound
<1> HIDE DEF K
<1>2. s \in Seq(PlainStages)
  BY <1>1 DEF Sane
<1>3. CASE Resting(r, s)
  <2>1. s = r.plan
    BY <1>3 DEF Resting
  <2> QED BY <1>1, <1>3, <2>1, SaneTail DEF K
<1>4. CASE Copying(r, s, repo, cache)
  <2>1. PICK o \in 0..4 : r.plan = Copies(Len(r.pkgs), o, s)
    BY <1>4 DEF Copying
  <2>2. Len(r.pkgs) \in Nat \ {0}
    BY <1>4, EmptySeq DEF Copying
  <2> DEFINE n == Len(r.pkgs)
  <2>3. Head(r.plan) = CopySteps[o + 1]
    <3>1. n \in Nat \ {0} /\ r.plan = Copies(n, o, s)
      BY <2>1, <2>2
    <3> HIDE DEF n
    <3>2. Head(Copies(n, o, s)) = CopySteps[o + 1]
      BY <1>2, <3>1, CopyStep
    <3> QED BY <3>1, <3>2
  <2> QED BY <1>1, <1>4, <2>3, CopyNames DEF K
<1>5. CASE Importing(r, s, manifest, lock, repo, cache)
  <2>1. PICK o \in 0..1 : r.plan = ImportLeft(Len(r.pkgs), o) /\ (o = 1 => r.pkgs # << >>)
    BY <1>5 DEF Importing
  <2>2. s = << >> /\ Len(r.pkgs) \in Nat
    BY <1>5, LenProperties DEF Importing
  <2>3. Len(r.pkgs) # 0
    <3> SUFFICES ASSUME Len(r.pkgs) = 0 PROVE FALSE
      OBVIOUS
    <3>1. r.pkgs = << >>
      BY <1>5, EmptySeq DEF Importing
    <3>2. o = 0
      BY <2>1, <3>1
    <3>3. 0 \in Nat
      OBVIOUS
    <3> QED BY <2>1, <3>2, <3>3, ImportStart
  <2>4. Head(r.plan) \in {"import", "find module"}
    <3>1. Len(r.pkgs) \in Nat \ {0} /\ (o = 0 \/ o = 1)
      BY <2>2, <2>3
    <3>2. Head(ImportLeft(Len(r.pkgs), o)) \in {"import", "find module"}
      BY <3>1, ImportStep
    <3> QED BY <2>1, <3>2
  <2> QED BY <1>1, <1>5, <2>2, <2>4 DEF K, ImportStages
<1> QED BY <1>1, <1>3, <1>4, <1>5

LEMMA PlainReached ==
  ASSUME NEW r, Sound(r, manifest, lock, repo, cache), r.plan # << >>,
         Head(r.plan) \in PlainStages
  PROVE  LET K == Known(r, manifest, lock, repo, cache) IN
           /\ r.pkgs = << >> /\ r.used = {}
           /\ Needs(r.cmd, Head(r.plan)) \subseteq K
           /\ Sane(r.cmd, After(K, Head(r.plan)), Tail(r.plan))
           /\ Head(r.plan) = "compile" => Tail(r.plan) = << >> /\ r.cmd.name = "build"
<1>1. Resting(r, r.plan) /\ Sane(r.cmd, Known(r, manifest, lock, repo, cache), r.plan)
  BY SoundHead, StageKinds
<1> QED BY <1>1, SaneTail DEF Resting

LEMMA CopyReached ==
  ASSUME NEW r, Sound(r, manifest, lock, repo, cache), r.plan # << >>,
         NEW o \in 0..4, Head(r.plan) = CopySteps[o + 1]
  PROVE  /\ r.used = {} /\ r.pkgs # << >> /\ r.pkgs \in Seq(Packages)
         /\ Head(r.pkgs) \in Packages /\ Tail(r.pkgs) \in Seq(Packages)
         /\ Len(Tail(r.pkgs)) = Len(r.pkgs) - 1
         /\ o >= 1 => repo[Head(r.pkgs)] # 0
         /\ o = 3 => cache[Head(r.pkgs)].part # "none"
         /\ o = 4 => cache[Head(r.pkgs)].part = "torn"
         /\ \E s : /\ Sane(r.cmd, Known(r, manifest, lock, repo, cache), s)
                   /\ o < 4 => Tail(r.plan) = Copies(Len(r.pkgs), o + 1, s)
                   /\ o = 4 => Tail(r.plan) = Copies(Len(r.pkgs) - 1, 0, s)
<1> DEFINE K == Known(r, manifest, lock, repo, cache)
<1>1. PICK s : Copying(r, s, repo, cache) /\ Sane(r.cmd, K, s)
  <2>1. Head(r.plan) \in CopyStages
    BY CopyNames
  <2> QED BY <2>1, SoundHead, StageKinds
<1> HIDE DEF K
<1>2. PICK q \in 0..4 :
        /\ r.plan = Copies(Len(r.pkgs), q, s)
        /\ q >= 1 => repo[Head(r.pkgs)] # 0
        /\ q = 3 => cache[Head(r.pkgs)].part # "none"
        /\ q = 4 => cache[Head(r.pkgs)].part = "torn"
  BY <1>1 DEF Copying
<1>3. /\ r.pkgs # << >> /\ r.pkgs \in Seq(Packages) /\ s \in Seq(PlainStages) /\ r.used = {}
      /\ Len(r.pkgs) \in Nat \ {0}
  BY <1>1, EmptySeq DEF Copying, Sane
<1> DEFINE n == Len(r.pkgs)
<1>8. n \in Nat \ {0} /\ r.plan = Copies(n, q, s) /\ s \in Seq(PlainStages)
  BY <1>2, <1>3
<1>9. /\ Head(Copies(n, q, s)) = CopySteps[q + 1]
      /\ q < 4 => Tail(Copies(n, q, s)) = Copies(n, q + 1, s)
      /\ q = 4 => Tail(Copies(n, q, s)) = Copies(n - 1, 0, s)
  <2> HIDE DEF n
  <2> QED BY <1>8, CopyStep
<1>4. q = o
  <2>1. CopySteps[q + 1] = CopySteps[o + 1]
    BY <1>8, <1>9
  <2> QED BY <2>1, CopyNames
<1>5. /\ o < 4 => Tail(r.plan) = Copies(Len(r.pkgs), o + 1, s)
      /\ o = 4 => Tail(r.plan) = Copies(Len(r.pkgs) - 1, 0, s)
  <2>1. Tail(r.plan) = Tail(Copies(n, q, s))
    BY <1>8
  <2> HIDE DEF n
  <2>2. /\ o < 4 => Tail(r.plan) = Copies(n, o + 1, s)
        /\ o = 4 => Tail(r.plan) = Copies(n - 1, 0, s)
    BY <1>4, <1>9, <2>1
  <2> QED BY <2>2 DEF n
<1>6. Head(r.pkgs) \in Packages /\ Tail(r.pkgs) \in Seq(Packages) /\ Len(Tail(r.pkgs)) = Len(r.pkgs) - 1
  BY <1>3, HeadTailProperties
<1>7. \E t : /\ Sane(r.cmd, K, t)
             /\ o < 4 => Tail(r.plan) = Copies(Len(r.pkgs), o + 1, t)
             /\ o = 4 => Tail(r.plan) = Copies(Len(r.pkgs) - 1, 0, t)
  BY <1>1, <1>5
<1> QED BY <1>2, <1>3, <1>4, <1>6, <1>7 DEF K

LEMMA ImportReached ==
  ASSUME NEW r, Sound(r, manifest, lock, repo, cache), r.plan # << >>,
         Head(r.plan) \in ImportStages
  PROVE  /\ Importing(r, << >>, manifest, lock, repo, cache)
         /\ Sane(r.cmd, Known(r, manifest, lock, repo, cache), << >>)
         /\ r.pkgs # << >>
         /\ Head(r.plan) = "import" => Tail(r.plan) = ImportLeft(Len(r.pkgs), 1)
         /\ Head(r.plan) = "find module" => /\ Tail(r.plan) = ImportLeft(Len(r.pkgs) - 1, 0)
                                            /\ r.seen = manifest
<1>1. /\ Importing(r, << >>, manifest, lock, repo, cache)
      /\ Sane(r.cmd, Known(r, manifest, lock, repo, cache), << >>)
  BY SoundHead, StageKinds
<1>2. PICK o \in 0..1 :
        /\ r.plan = ImportLeft(Len(r.pkgs), o)
        /\ o = 1 => r.seen = manifest /\ r.pkgs # << >>
  BY <1>1 DEF Importing
<1>3. r.pkgs # << >>
  <2> SUFFICES ASSUME r.pkgs = << >> PROVE FALSE
    OBVIOUS
  <2>1. o = 0 /\ Len(r.pkgs) = 0 /\ 0 \in Nat
    BY <1>2
  <2> QED BY <1>2, <2>1, ImportStart
<1> DEFINE n == Len(r.pkgs)
<1>4. n \in Nat \ {0} /\ r.plan = ImportLeft(n, o)
  BY <1>1, <1>2, <1>3, EmptySeq DEF Importing
<1>5. /\ o = 0 => Head(r.plan) = "import"
      /\ o = 1 => Head(r.plan) = "find module"
      /\ o = 0 => Tail(r.plan) = ImportLeft(n, 1)
      /\ o = 1 => Tail(r.plan) = ImportLeft(n - 1, 0)
  <2> HIDE DEF n
  <2> QED BY <1>4, ImportStep
<1>6. o = 0 \/ o = 1
  OBVIOUS
<1>7. "import" # "find module"
  OBVIOUS
<1> QED BY <1>1, <1>2, <1>3, <1>5, <1>6, <1>7

LEMMA EndReached ==
  ASSUME NEW r, Sound(r, manifest, lock, repo, cache), r.plan = << >>
  PROVE  Needs(r.cmd, "end") \subseteq Known(r, manifest, lock, repo, cache) /\ r.pkgs = << >>
<1> DEFINE K == Known(r, manifest, lock, repo, cache)
<1>1. PICK s : /\ Sane(r.cmd, K, s)
               /\ \/ Resting(r, s) \/ Copying(r, s, repo, cache)
                  \/ Importing(r, s, manifest, lock, repo, cache)
  BY DEF Sound
<1> HIDE DEF K
<1>2. ~Copying(r, s, repo, cache)
  <2> SUFFICES ASSUME Copying(r, s, repo, cache) PROVE FALSE
    OBVIOUS
  <2> DEFINE n == Len(r.pkgs)
  <2>1. PICK o \in 0..4 : r.plan = Copies(n, o, s)
    BY DEF Copying
  <2>2. n \in Nat \ {0} /\ s \in Seq(PlainStages)
    BY <1>1, EmptySeq DEF Copying, Sane
  <2> HIDE DEF n
  <2>3. Copies(n, o, s) # << >>
    BY <2>2, CopyStep
  <2> QED BY <2>1, <2>3
<1>3. s = << >>
  BY <1>1, <1>2 DEF Resting, Importing
<1>4. r.pkgs = << >>
  <2>1. CASE Importing(r, s, manifest, lock, repo, cache)
    <3> DEFINE n == Len(r.pkgs)
    <3>1. PICK o \in 0..1 : r.plan = ImportLeft(n, o)
      BY <2>1 DEF Importing
    <3>2. n \in Nat
      BY <2>1, LenProperties DEF Importing
    <3>3. n = 0
      <4> SUFFICES ASSUME n # 0 PROVE FALSE
        OBVIOUS
      <4> HIDE DEF n
      <4>1. n \in Nat \ {0}
        BY <3>2
      <4>2. ImportLeft(n, o) # << >>
        BY <4>1, ImportStep
      <4> QED BY <3>1, <4>2
    <3> QED BY <2>1, <3>3, EmptySeq DEF Importing
  <2> QED BY <1>1, <1>2, <2>1 DEF Resting
<1> QED BY <1>1, <1>3, <1>4, SaneEmpty DEF K
-----------------------------------------------------------------------------
(* How a process stays sound. *)
LEMMA StaysResting ==
  ASSUME NEW r, NEW K, r.pkgs = << >>, r.used = {}, Sane(r.cmd, K, r.plan),
         K \subseteq Known(r, manifest', lock', repo', cache')
  PROVE  Sound(r, manifest', lock', repo', cache')
<1>1. Sane(r.cmd, Known(r, manifest', lock', repo', cache'), r.plan)
  BY SaneMore
<1> QED BY <1>1 DEF Sound, Resting

LEMMA StartsCopying ==
  ASSUME NEW r, NEW K, NEW s, Sane(r.cmd, K, s),
         K \subseteq Known(r, manifest', lock', repo', cache'),
         r.used = {}, r.pkgs \in Seq(Packages), r.plan = Copies(Len(r.pkgs), 0, s)
  PROVE  Sound(r, manifest', lock', repo', cache')
<1>1. Sane(r.cmd, Known(r, manifest', lock', repo', cache'), s)
  BY SaneMore
<1>2. CASE r.pkgs = << >>
  <2>1. Len(r.pkgs) = 0 /\ 0 \in Nat
    BY <1>2
  <2>2. s \in Seq(PlainStages)
    BY DEF Sane
  <2>3. r.plan = s
    BY <2>1, <2>2, CopyStart
  <2> QED BY <1>1, <1>2, <2>3 DEF Sound, Resting
<1>3. CASE r.pkgs # << >>
  <2>1. Copying(r, s, repo', cache')
    <3>1. 0 \in 0..4
      OBVIOUS
    <3> QED BY <1>3, <3>1 DEF Copying
  <2> QED BY <1>1, <2>1 DEF Sound
<1> QED BY <1>2, <1>3

LEMMA StaysCopying ==
  ASSUME NEW r, NEW K, NEW s, Sane(r.cmd, K, s),
         K \subseteq Known(r, manifest', lock', repo', cache'),
         r.used = {}, r.pkgs \in Seq(Packages), r.pkgs # << >>,
         NEW o \in 1..4, r.plan = Copies(Len(r.pkgs), o, s),
         repo'[Head(r.pkgs)] # 0,
         o = 3 => cache'[Head(r.pkgs)].part # "none",
         o = 4 => cache'[Head(r.pkgs)].part = "torn"
  PROVE  Sound(r, manifest', lock', repo', cache')
<1>1. Sane(r.cmd, Known(r, manifest', lock', repo', cache'), s)
  BY SaneMore
<1>2. Copying(r, s, repo', cache')
  <2>1. o \in 0..4
    OBVIOUS
  <2> QED BY <2>1 DEF Copying
<1> QED BY <1>1, <1>2 DEF Sound

LEMMA FineIdle ==
  ASSUME NEW result, NEW cmd,
         result = "failed" /\ Mends(cmd) => ~Valid(manifest') \/ ~Resolvable((manifest').deps)
  PROVE  Fine(Idle(result, cmd), manifest', lock', repo', cache')
BY EmptyManifestMember DEF Fine, Idle
-----------------------------------------------------------------------------
(* A process is at a step of its own, and what is left of it afterwards. *)
LEMMA AtStep ==
  ASSUME SInv, NEW p \in Procs, quiet[p], NEW step, At(p, step)
  PROVE  LET r == proc[p]
             r2 == Record(p, << >>)
         IN  /\ Sound(r, manifest, lock, repo, cache)
             /\ r.running /\ r.plan # << >> /\ Head(r.plan) = step /\ r.cmd \in Command
             /\ DOMAIN r = Fields /\ r.base \in Manifest /\ r.ws \in Manifest /\ r.seen \in Manifest
             /\ DOMAIN r2 = Fields /\ r2.running /\ r2.plan = Tail(r.plan)
             /\ r2.cmd = r.cmd /\ r2.base = r.base /\ r2.ws = r.ws /\ r2.seen = r.seen
             /\ r2.pkgs = r.pkgs /\ r2.used = r.used
<1> DEFINE r == proc[p]
<1>1. ProcOK(r) /\ Fine(r, manifest, lock, repo, cache) /\ r.running /\ r.plan # << >> /\ Head(r.plan) = step
  BY DEF SInv, IInv, ProcsOK, At
<1>2. << >> \o Tail(r.plan) = Tail(r.plan)
  <2>1. Tail(r.plan) \in Seq(Stages)
    BY <1>1, HeadTailProperties DEF ProcOK
  <2> QED BY <2>1, ConcatEmptySeq
<1> DEFINE t == Tail(r.plan)
<1>3. Record(p, << >>) = [r EXCEPT !.plan = t]
  BY <1>2 DEF Record
<1> HIDE DEF t
<1>4. [r EXCEPT !.plan = t].plan = t
  BY <1>1 DEF ProcOK, Fields
<1> QED BY <1>1, <1>3, <1>4 DEF ProcOK, Fields, Fine, t

LEMMA AtPlain ==
  ASSUME SInv, NEW p \in Procs, quiet[p], NEW step \in PlainStages, At(p, step)
  PROVE  LET r == proc[p]
             K == Known(r, manifest, lock, repo, cache)
         IN  /\ r.pkgs = << >> /\ r.used = {}
             /\ Needs(r.cmd, step) \subseteq K
             /\ Sane(r.cmd, After(K, step), Tail(r.plan))
             /\ step = "compile" => Tail(r.plan) = << >> /\ r.cmd.name = "build"
BY AtStep, PlainReached

LEMMA Proceeds ==
  ASSUME SInv, NEW p \in Procs, NEW ok, NEW rec, Otherwise(p, ok, rec)
  PROVE  proc'[p] = IF ok THEN rec ELSE Idle("failed", proc[p].cmd)
BY DEF SInv, IInv, ProcsOK, Otherwise, Continue, End

LEMMA Continues ==
  ASSUME SInv, NEW p \in Procs, NEW rec, Continue(p, rec)
  PROVE  proc'[p] = rec
BY DEF SInv, IInv, ProcsOK, Continue

LEMMA RestsFine ==
  ASSUME NEW r, NEW K, r.base \in Manifest, r.running, r.pkgs = << >>, r.used = {},
         Sane(r.cmd, K, r.plan), K \subseteq Known(r, manifest', lock', repo', cache')
  PROVE  Fine(r, manifest', lock', repo', cache')
BY StaysResting DEF Fine

(* Reading the manifest. *)
LEMMA LoadFine ==
  ASSUME SInv, NEW p \in Procs, quiet[p], Load(p)
  PROVE  Fine(proc'[p], manifest', lock', repo', cache')
<1> DEFINE r == proc[p]
           K == Known(r, manifest, lock, repo, cache)
           rec == [Record(p, << >>) EXCEPT !.ws = manifest]
<1>1. At(p, "load") /\ "load" \in PlainStages /\ Otherwise(p, Valid(manifest), rec) /\ UNCHANGED files
  BY StepKinds DEF Load, Reads
<1>2. /\ r.pkgs = << >> /\ r.used = {} /\ Sane(r.cmd, After(K, "load"), Tail(r.plan))
  BY <1>1, AtPlain
<1>3. /\ rec.running /\ rec.plan = Tail(r.plan) /\ rec.cmd = r.cmd /\ rec.base = r.base
      /\ rec.ws = manifest /\ rec.seen = r.seen /\ rec.pkgs = r.pkgs /\ rec.used = r.used
      /\ r.base \in Manifest
  BY <1>1, AtStep DEF Fields
<1>4. proc'[p] = IF Valid(manifest) THEN rec ELSE Idle("failed", r.cmd)
  BY <1>1, Proceeds
<1> HIDE DEF rec
<1>5. CASE Valid(manifest)
  <2>1. After(K, "load") \subseteq Known(rec, manifest', lock', repo', cache')
    BY <1>1, <1>2, <1>3, <1>5 DEF files, After, Gives, Spoils, Known, Facts, Edited,
       FileWrites, LockWrites, Reading, DoctorSteps, ImportStages
  <2> HIDE DEF K
  <2>2. Fine(rec, manifest', lock', repo', cache')
    BY <1>2, <1>3, <2>1, RestsFine
  <2> QED BY <1>4, <1>5, <2>2
<1>6. CASE ~Valid(manifest)
  BY <1>1, <1>4, <1>6, FineIdle DEF files
<1> QED BY <1>5, <1>6

(* --emit-lock and --check-lock, stage by stage.                           *)
LEMMA ReadFine ==
  ASSUME SInv, NEW p \in Procs, quiet[p], ReadManifest(p)
  PROVE  Fine(proc'[p], manifest', lock', repo', cache')
<1> DEFINE r == proc[p]
           K == Known(r, manifest, lock, repo, cache)
           rec == [Record(p, << >>) EXCEPT !.seen = manifest]
<1>1. At(p, "read") /\ "read" \in PlainStages /\ Otherwise(p, Valid(manifest), rec) /\ UNCHANGED files
  BY StepKinds DEF ReadManifest, Reads
<1>2. /\ r.pkgs = << >> /\ r.used = {} /\ Sane(r.cmd, After(K, "read"), Tail(r.plan))
  BY <1>1, AtPlain
<1>3. /\ rec.running /\ rec.plan = Tail(r.plan) /\ rec.cmd = r.cmd /\ rec.base = r.base
      /\ rec.seen = manifest /\ rec.ws = r.ws /\ rec.pkgs = r.pkgs /\ rec.used = r.used
      /\ r.base \in Manifest
  BY <1>1, AtStep DEF Fields
<1>4. proc'[p] = IF Valid(manifest) THEN rec ELSE Idle("failed", r.cmd)
  BY <1>1, Proceeds
<1> HIDE DEF rec
<1>5. CASE Valid(manifest)
  <2>1. After(K, "read") \subseteq Known(rec, manifest', lock', repo', cache')
    BY <1>1, <1>2, <1>3, <1>5 DEF files, After, Gives, Spoils, Known, Facts, Edited,
       FileWrites, LockWrites, Reading, DoctorSteps, ImportStages
  <2> HIDE DEF K
  <2>2. Fine(rec, manifest', lock', repo', cache')
    BY <1>2, <1>3, <2>1, RestsFine
  <2> QED BY <1>4, <1>5, <2>2
<1>6. CASE ~Valid(manifest)
  BY <1>1, <1>4, <1>6, FineIdle DEF files
<1> QED BY <1>5, <1>6

LEMMA TruncateLockFine ==
  ASSUME SInv, NEW p \in Procs, quiet[p], TruncateLock(p)
  PROVE  Fine(proc'[p], manifest', lock', repo', cache')
<1> DEFINE r == proc[p]
           K == Known(r, manifest, lock, repo, cache)
           rec == Record(p, << >>)
           step == "truncate lock"
<1>1. /\ At(p, step) /\ step \in PlainStages /\ Continue(p, rec)
      /\ lock' = LockOf("empty") /\ UNCHANGED <<manifest, repo, cache>>
  BY StepKinds DEF TruncateLock
<1>2. /\ r.pkgs = << >> /\ r.used = {} /\ Sane(r.cmd, After(K, step), Tail(r.plan))
  BY <1>1, AtPlain
<1>3. /\ rec.running /\ rec.plan = Tail(r.plan) /\ rec.cmd = r.cmd /\ rec.base = r.base
      /\ rec.seen = r.seen /\ rec.ws = r.ws /\ rec.pkgs = r.pkgs /\ rec.used = r.used
      /\ r.base \in Manifest
  BY <1>1, AtStep
<1>4. proc'[p] = rec
  BY <1>1, Continues
<1> HIDE DEF rec
<1>5. After(K, step) \subseteq Known(rec, manifest', lock', repo', cache')
  <2>1. After(K, step) \subseteq (K \ {"locked", "stored", "copied"}) \cup {"emptied"}
    BY DEF After, Gives, Spoils, Facts, FileWrites, LockWrites, Reading, DoctorSteps, ImportStages
  <2>2. (K \ {"locked", "stored", "copied"}) \cup {"emptied"} \subseteq Known(rec, manifest', lock', repo', cache')
    BY ZenonT(30), <1>1, <1>3 DEF LockOf, Known, Facts, Edited
  <2> QED BY <2>1, <2>2
<1> HIDE DEF K, step
<1> QED BY <1>2, <1>3, <1>4, <1>5, RestsFine

LEMMA WriteLockFine ==
  ASSUME SInv, NEW p \in Procs, quiet[p], WriteLock(p)
  PROVE  Fine(proc'[p], manifest', lock', repo', cache')
<1> DEFINE r == proc[p]
           K == Known(r, manifest, lock, repo, cache)
           rec == Record(p, << >>)
           step == "write lock"
<1>1. /\ At(p, step) /\ step \in PlainStages /\ Otherwise(p, Resolvable(r.seen.deps), rec)
      /\ lock' \in LockAfterWrite(lock, LockText(r.seen)) /\ UNCHANGED <<manifest, repo, cache>>
  BY StepKinds DEF WriteLock
<1>2. /\ r.pkgs = << >> /\ r.used = {} /\ Sane(r.cmd, After(K, step), Tail(r.plan))
      /\ Needs(r.cmd, step) \subseteq K
  BY <1>1, AtPlain
<1>3. /\ rec.running /\ rec.plan = Tail(r.plan) /\ rec.cmd = r.cmd /\ rec.base = r.base
      /\ rec.seen = r.seen /\ rec.ws = r.ws /\ rec.pkgs = r.pkgs /\ rec.used = r.used
      /\ r.base \in Manifest
  BY <1>1, AtStep
<1> DEFINE ok == Resolvable(r.seen.deps)
<1>4. proc'[p] = IF ok THEN rec ELSE Idle("failed", r.cmd)
  <2>1. Otherwise(p, ok, rec)
    BY <1>1
  <2> HIDE DEF ok, rec
  <2> QED BY <2>1, Proceeds
<1>5. Valid(manifest) /\ r.seen = manifest /\ lock.state = "empty"
  <2>1. "read" \in Needs(r.cmd, step) /\ "emptied" \in Needs(r.cmd, step)
    BY DEF Needs, Facts
  <2>2. "read" \in K /\ "emptied" \in K
    BY <1>2, <2>1
  <2> QED BY <2>2 DEF Known
<1>6. lock' = LockText(manifest)
  BY <1>1, <1>5 DEF LockAfterWrite
<1> HIDE DEF rec
<1>7. CASE Resolvable(r.seen.deps)
  <2>1. LockedTo(manifest', lock')
    BY <1>1, <1>5, <1>6, <1>7 DEF LockedTo
  <2>2. After(K, step) \subseteq Known(rec, manifest', lock', repo', cache')
    <3>1. After(K, step) \subseteq (K \ {"emptied", "stored", "copied"}) \cup {"locked"}
      BY DEF After, Gives, Spoils, Facts, FileWrites, LockWrites, Reading, DoctorSteps, ImportStages
    <3>2. (K \ {"emptied", "stored", "copied"}) \cup {"locked"} \subseteq Known(rec, manifest', lock', repo', cache')
      BY ZenonT(30), <1>1, <1>3, <2>1 DEF Known, Facts, Edited
    <3> QED BY <3>1, <3>2
  <2> HIDE DEF K, step
  <2>3. Fine(rec, manifest', lock', repo', cache')
    BY <1>2, <1>3, <2>2, RestsFine
  <2> QED BY <1>4, <1>7, <2>3
<1>8. CASE ~Resolvable(r.seen.deps)
  <2>1. ~Resolvable((manifest').deps)
    BY <1>1, <1>5, <1>8
  <2> QED BY <1>4, <1>8, <2>1, FineIdle
<1> QED BY <1>7, <1>8

LEMMA CheckLockFine ==
  ASSUME SInv, NEW p \in Procs, quiet[p], CheckLock(p)
  PROVE  Fine(proc'[p], manifest', lock', repo', cache')
<1> DEFINE r == proc[p]
           K == Known(r, manifest, lock, repo, cache)
           rec == Record(p, << >>)
           step == "check lock"
           ok == Parses(lock) /\ Verifies(r.seen, lock)
<1>1. At(p, step) /\ step \in PlainStages /\ Otherwise(p, ok, rec) /\ UNCHANGED files
  BY StepKinds DEF CheckLock, Reads
<1>2. /\ r.pkgs = << >> /\ r.used = {} /\ Sane(r.cmd, After(K, step), Tail(r.plan))
      /\ Needs(r.cmd, step) \subseteq K
  BY <1>1, AtPlain
<1>3. /\ rec.running /\ rec.plan = Tail(r.plan) /\ rec.cmd = r.cmd /\ rec.base = r.base
      /\ rec.seen = r.seen /\ rec.ws = r.ws /\ rec.pkgs = r.pkgs /\ rec.used = r.used
      /\ r.base \in Manifest /\ FilesOK
  BY <1>1, AtStep DEF SInv, IInv
<1>4. proc'[p] = IF ok THEN rec ELSE Idle("failed", r.cmd)
  BY <1>1, Proceeds
<1>5. Valid(manifest) /\ r.seen = manifest
  <2>1. "read" \in Needs(r.cmd, step)
    BY DEF Needs, Facts, Reading
  <2>2. "read" \in K
    BY <1>2, <2>1
  <2> QED BY <2>2 DEF Known
<1> HIDE DEF rec
<1>6. CASE ok
  <2>1. LockedTo(manifest', lock')
    BY <1>1, <1>3, <1>5, <1>6, LocksManifest DEF files
  <2>2. After(K, step) \subseteq Known(rec, manifest', lock', repo', cache')
    <3> HIDE DEF ok
    <3>1. After(K, step) \subseteq K \cup {"locked"}
      BY DEF After, Gives, Spoils, Facts, FileWrites, LockWrites, Reading, DoctorSteps, ImportStages
    <3>2. K \cup {"locked"} \subseteq Known(rec, manifest', lock', repo', cache')
      <4>1. UNCHANGED <<manifest, lock, repo, cache>>
        BY <1>1 DEF files
      <4> HIDE DEF step
      <4> QED BY <1>3, <2>1, <4>1 DEF Known, Facts, Edited
    <3> QED BY <3>1, <3>2
  <2> HIDE DEF K, step, ok
  <2>3. Fine(rec, manifest', lock', repo', cache')
    BY <1>2, <1>3, <2>2, RestsFine
  <2> QED BY <1>4, <1>6, <2>3
<1>7. CASE ~ok
  <2>1. ~Mends(r.cmd)
    <3> SUFFICES ASSUME Mends(r.cmd) PROVE FALSE
      OBVIOUS
    <3>1. "locked" \in Needs(r.cmd, step)
      BY DEF Needs, Facts, Reading
    <3>2. "locked" \in K
      BY <1>2, <3>1
    <3>3. LockedTo(manifest, lock)
      BY <3>2 DEF Known
    <3> QED BY <1>3, <1>5, <1>7, <3>3, LockedMeans
  <2> HIDE DEF ok
  <2> QED BY <1>4, <1>7, <2>1, FineIdle
<1> QED BY <1>6, <1>7

LEMMA VerifyLockFine ==
  ASSUME SInv, NEW p \in Procs, quiet[p], VerifyLock(p)
  PROVE  Fine(proc'[p], manifest', lock', repo', cache')
<1> DEFINE r == proc[p]
           K == Known(r, manifest, lock, repo, cache)
           rec == Record(p, << >>)
           step == "verify"
           ok == Parses(lock) /\ Verifies(r.ws, lock)
<1>1. At(p, step) /\ step \in PlainStages /\ Otherwise(p, ok, rec) /\ UNCHANGED files
  BY StepKinds DEF VerifyLock, Reads, LockIsGood
<1>2. /\ r.pkgs = << >> /\ r.used = {} /\ Sane(r.cmd, After(K, step), Tail(r.plan))
      /\ Needs(r.cmd, step) \subseteq K
  BY <1>1, AtPlain
<1>3. /\ rec.running /\ rec.plan = Tail(r.plan) /\ rec.cmd = r.cmd /\ rec.base = r.base
      /\ rec.seen = r.seen /\ rec.ws = r.ws /\ rec.pkgs = r.pkgs /\ rec.used = r.used
      /\ r.base \in Manifest /\ FilesOK
  BY <1>1, AtStep DEF SInv, IInv
<1>4. proc'[p] = IF ok THEN rec ELSE Idle("failed", r.cmd)
  BY <1>1, Proceeds
<1>5. Valid(manifest) /\ r.ws = manifest
  <2>1. "loaded" \in Needs(r.cmd, step)
    BY DEF Needs, Facts, Reading
  <2>2. "loaded" \in K
    BY <1>2, <2>1
  <2> QED BY <2>2 DEF Known
<1> HIDE DEF rec
<1>6. CASE ok
  <2>1. LockedTo(manifest', lock')
    BY <1>1, <1>3, <1>5, <1>6, LocksManifest DEF files
  <2>2. After(K, step) \subseteq Known(rec, manifest', lock', repo', cache')
    <3> HIDE DEF ok
    <3>1. After(K, step) \subseteq K \cup {"locked"}
      BY DEF After, Gives, Spoils, Facts, FileWrites, LockWrites, Reading, DoctorSteps, ImportStages
    <3>2. K \cup {"locked"} \subseteq Known(rec, manifest', lock', repo', cache')
      <4>1. UNCHANGED <<manifest, lock, repo, cache>>
        BY <1>1 DEF files
      <4> HIDE DEF step
      <4> QED BY <1>3, <2>1, <4>1 DEF Known, Facts, Edited
    <3> QED BY <3>1, <3>2
  <2> HIDE DEF K, step, ok
  <2>3. Fine(rec, manifest', lock', repo', cache')
    BY <1>2, <1>3, <2>2, RestsFine
  <2> QED BY <1>4, <1>6, <2>3
<1>7. CASE ~ok
  <2>1. ~Mends(r.cmd)
    <3> SUFFICES ASSUME Mends(r.cmd) PROVE FALSE
      OBVIOUS
    <3>1. "locked" \in Needs(r.cmd, step)
      BY DEF Needs, Facts, Reading
    <3>2. "locked" \in K
      BY <1>2, <3>1
    <3>3. LockedTo(manifest, lock)
      BY <3>2 DEF Known
    <3> QED BY <1>3, <1>5, <1>7, <3>3, LockedMeans
  <2> HIDE DEF ok
  <2> QED BY <1>4, <1>7, <2>1, FineIdle
<1> QED BY <1>6, <1>7

LEMMA CleanFine ==
  ASSUME SInv, NEW p \in Procs, quiet[p], Clean(p)
  PROVE  Fine(proc'[p], manifest', lock', repo', cache')
<1> DEFINE r == proc[p]
           K == Known(r, manifest, lock, repo, cache)
           rec == Record(p, << >>)
           step == "clean"
<1>1. /\ At(p, step) /\ step \in PlainStages /\ Continue(p, rec)
      /\ UNCHANGED <<manifest, lock>>
  BY StepKinds DEF Clean, Writes
<1>2. /\ r.pkgs = << >> /\ r.used = {} /\ Sane(r.cmd, After(K, step), Tail(r.plan))
      /\ Needs(r.cmd, step) \subseteq K
  BY <1>1, AtPlain
<1>3. /\ rec.running /\ rec.plan = Tail(r.plan) /\ rec.cmd = r.cmd /\ rec.base = r.base
      /\ rec.seen = r.seen /\ rec.ws = r.ws /\ rec.pkgs = r.pkgs /\ rec.used = r.used
      /\ r.base \in Manifest
  BY <1>1, AtStep
<1>4. proc'[p] = rec
  BY <1>1, Continues
<1> HIDE DEF rec
<1>6. After(K, step) \subseteq Known(rec, manifest', lock', repo', cache')
  <2>1. After(K, step) \subseteq K \ {"stored", "copied"}
    BY DEF After, Gives, Spoils, Facts, FileWrites, LockWrites, Reading, DoctorSteps, ImportStages
  <2>2. K \ {"stored", "copied"} \subseteq Known(rec, manifest', lock', repo', cache')
    <3> HIDE DEF step
    <3> QED BY <1>1, <1>2, <1>3 DEF Known, Facts, Edited
  <2> QED BY <2>1, <2>2
<1> HIDE DEF K, step
<1> QED BY <1>2, <1>3, <1>4, <1>6, RestsFine

LEMMA ReadLinesFine ==
  ASSUME SInv, NEW p \in Procs, quiet[p], ReadLines(p)
  PROVE  Fine(proc'[p], manifest', lock', repo', cache')
<1> DEFINE r == proc[p]
           K == Known(r, manifest, lock, repo, cache)
           rec == [Record(p, << >>) EXCEPT !.seen = Upsert(manifest, r.cmd.dep, r.cmd.req)]
           step == "upsert"
<1>1. /\ At(p, step) /\ step \in PlainStages /\ Continue(p, rec)
      /\ UNCHANGED <<manifest, lock, repo, cache>>
  BY StepKinds DEF ReadLines, Reads, files
<1>2. /\ r.pkgs = << >> /\ r.used = {} /\ Sane(r.cmd, After(K, step), Tail(r.plan))
      /\ Needs(r.cmd, step) \subseteq K
  BY <1>1, AtPlain
<1>3. /\ rec.running /\ rec.plan = Tail(r.plan) /\ rec.cmd = r.cmd /\ rec.base = r.base
      /\ rec.seen = Upsert(manifest, r.cmd.dep, r.cmd.req) /\ rec.ws = r.ws /\ rec.pkgs = r.pkgs /\ rec.used = r.used
      /\ r.base \in Manifest
  BY <1>1, AtStep DEF Fields
<1>4. proc'[p] = rec
  BY <1>1, Continues
<1>5. manifest = r.base
  <2>1. "based" \in Needs(r.cmd, step)
    BY DEF Needs, Facts
  <2>2. "based" \in K
    BY <1>2, <2>1
  <2> QED BY <2>2 DEF Known
<1> HIDE DEF rec
<1>6. After(K, step) \subseteq Known(rec, manifest', lock', repo', cache')
  <2>1. After(K, step) \subseteq (K \ {"read"}) \cup {"edited"}
    BY DEF After, Gives, Spoils, Facts, FileWrites, LockWrites, Reading, DoctorSteps, ImportStages
  <2>2. (K \ {"read"}) \cup {"edited"} \subseteq Known(rec, manifest', lock', repo', cache')
    <3> HIDE DEF step
    <3> QED BY <1>1, <1>2, <1>3, <1>5 DEF Known, Facts, Edited
  <2> QED BY <2>1, <2>2
<1> HIDE DEF K, step
<1> QED BY <1>2, <1>3, <1>4, <1>6, RestsFine

LEMMA TruncateManifestFine ==
  ASSUME SInv, NEW p \in Procs, quiet[p], TruncateManifest(p)
  PROVE  Fine(proc'[p], manifest', lock', repo', cache')
<1> DEFINE r == proc[p]
           K == Known(r, manifest, lock, repo, cache)
           rec == Record(p, << >>)
           step == "truncate manifest"
<1>1. /\ At(p, step) /\ step \in PlainStages /\ Continue(p, rec)
      /\ manifest' = EmptyManifest /\ UNCHANGED <<lock, repo, cache>>
  BY StepKinds DEF TruncateManifest, Writes
<1>2. /\ r.pkgs = << >> /\ r.used = {} /\ Sane(r.cmd, After(K, step), Tail(r.plan))
      /\ Needs(r.cmd, step) \subseteq K
  BY <1>1, AtPlain
<1>3. /\ rec.running /\ rec.plan = Tail(r.plan) /\ rec.cmd = r.cmd /\ rec.base = r.base
      /\ rec.seen = r.seen /\ rec.ws = r.ws /\ rec.pkgs = r.pkgs /\ rec.used = r.used
      /\ r.base \in Manifest
  BY <1>1, AtStep
<1>4. proc'[p] = rec
  BY <1>1, Continues
<1>5. ~(manifest').package
  BY <1>1 DEF EmptyManifest
<1> HIDE DEF rec
<1>6. After(K, step) \subseteq Known(rec, manifest', lock', repo', cache')
  <2>1. After(K, step) \subseteq (K \ {"loaded", "read", "locked", "based", "added"}) \cup {"cut"}
    BY DEF After, Gives, Spoils, Facts, FileWrites, LockWrites, Reading, DoctorSteps, ImportStages
  <2>2. (K \ {"loaded", "read", "locked", "based", "added"}) \cup {"cut"} \subseteq Known(rec, manifest', lock', repo', cache')
    <3> HIDE DEF step
    <3> QED BY <1>1, <1>2, <1>3, <1>5 DEF Known, Facts, Edited
  <2> QED BY <2>1, <2>2
<1> HIDE DEF K, step
<1> QED BY <1>2, <1>3, <1>4, <1>6, RestsFine

LEMMA WriteManifestFine ==
  ASSUME SInv, NEW p \in Procs, quiet[p], WriteManifest(p)
  PROVE  Fine(proc'[p], manifest', lock', repo', cache')
<1> DEFINE r == proc[p]
           K == Known(r, manifest, lock, repo, cache)
           rec == Record(p, << >>)
           step == "write manifest"
<1>1. /\ At(p, step) /\ step \in PlainStages /\ Continue(p, rec)
      /\ manifest' \in ManifestAfterWrite(manifest, r.seen) /\ UNCHANGED <<lock, repo, cache>>
  BY StepKinds DEF WriteManifest, Writes
<1>2. /\ r.pkgs = << >> /\ r.used = {} /\ Sane(r.cmd, After(K, step), Tail(r.plan))
      /\ Needs(r.cmd, step) \subseteq K
  BY <1>1, AtPlain
<1>3. /\ rec.running /\ rec.plan = Tail(r.plan) /\ rec.cmd = r.cmd /\ rec.base = r.base
      /\ rec.seen = r.seen /\ rec.ws = r.ws /\ rec.pkgs = r.pkgs /\ rec.used = r.used
      /\ r.base \in Manifest
  BY <1>1, AtStep
<1>4. proc'[p] = rec
  BY <1>1, Continues
<1>5. manifest' = Edited(r)
  <2>1. "edited" \in Needs(r.cmd, step) /\ "cut" \in Needs(r.cmd, step)
    BY DEF Needs, Facts
  <2>2. "edited" \in K /\ "cut" \in K
    BY <1>2, <2>1
  <2>3. r.seen = Edited(r) /\ ~manifest.package
    BY <2>2 DEF Known
  <2> QED BY <1>1, <2>3 DEF ManifestAfterWrite
<1> HIDE DEF rec
<1>6. After(K, step) \subseteq Known(rec, manifest', lock', repo', cache')
  <2>1. After(K, step) \subseteq (K \ {"loaded", "read", "locked", "based", "cut"}) \cup {"added"}
    BY DEF After, Gives, Spoils, Facts, FileWrites, LockWrites, Reading, DoctorSteps, ImportStages
  <2>2. (K \ {"loaded", "read", "locked", "based", "cut"}) \cup {"added"} \subseteq Known(rec, manifest', lock', repo', cache')
    <3> HIDE DEF step
    <3> QED BY <1>1, <1>2, <1>3, <1>5 DEF Known, Facts, Edited
  <2> QED BY <2>1, <2>2
<1> HIDE DEF K, step
<1> QED BY <1>2, <1>3, <1>4, <1>6, RestsFine

LEMMA EndsFine ==
  ASSUME SInv, NEW p \in Procs, quiet[p], CompileFails(p) \/ Finish(p) \/ Crash(p)
  PROVE  Fine(proc'[p], manifest', lock', repo', cache')
<1> DEFINE r == proc[p]
<1>1. CASE CompileFails(p)
  <2>1. At(p, "compile") /\ "compile" \in PlainStages /\ Continue(p, Idle("failed", r.cmd))
    BY <1>1, StepKinds DEF CompileFails, End
  <2>2. r.cmd.name = "build"
    BY <2>1, AtPlain
  <2>3. ~Mends(r.cmd)
    BY <2>2 DEF Mends
  <2>4. proc'[p] = Idle("failed", r.cmd)
    BY <2>1, Continues
  <2> QED BY <2>3, <2>4, FineIdle
<1>2. CASE Finish(p) \/ Crash(p)
  <2>1. PICK result \in {"ok", "killed"} : Continue(p, Idle(result, SomeCommand))
    BY <1>2 DEF Finish, Crash, End
  <2>2. proc'[p] = Idle(result, SomeCommand)
    BY <2>1, Continues
  <2>3. result # "failed"
    BY <2>1
  <2> QED BY <2>2, <2>3, FineIdle
<1> QED BY <1>1, <1>2

LEMMA StartFine ==
  ASSUME SInv, NEW p \in Procs, NEW c \in Commands, Start(p, c)
  PROVE  Fine(proc'[p], manifest', lock', repo', cache')
<1> DEFINE base == IF c.name = "add" THEN manifest ELSE EmptyManifest
           rec == [Idle("none", c) EXCEPT !.running = TRUE, !.plan = Plan(c), !.base = base]
           K == IF c.name = "add" THEN {"based"} ELSE {}
<1>1. Continue(p, rec) /\ c \in Command /\ UNCHANGED files
  BY CommandsAssumption DEF Start, Continue
<1>2. /\ rec.running /\ rec.plan = Plan(c) /\ rec.cmd = c /\ rec.base = base
      /\ rec.pkgs = << >> /\ rec.used = {}
  BY DEF Idle
<1>3. proc'[p] = rec
  BY <1>1, Continues
<1> HIDE DEF rec
<1>4. base \in Manifest
  BY EmptyManifestMember DEF SInv, IInv, FilesOK
<1>5. Sane(c, K, Plan(c))
  BY <1>1, PlanSane
<1>6. K \subseteq Known(rec, manifest', lock', repo', cache')
  BY <1>1, <1>2 DEF files, Known, Facts
<1> HIDE DEF K, base
<1> QED BY <1>2, <1>3, <1>4, <1>5, <1>6, RestsFine

LEMMA AtInsert ==
  ASSUME SInv, NEW p \in Procs, quiet[p], NEW step, At(p, step), NEW then
  PROVE  LET r == proc[p]
             r2 == Record(p, then)
         IN  /\ DOMAIN r2 = Fields /\ r2.running /\ r2.plan = then \o Tail(r.plan)
             /\ r2.cmd = r.cmd /\ r2.base = r.base /\ r2.ws = r.ws /\ r2.seen = r.seen
             /\ r2.pkgs = r.pkgs /\ r2.used = r.used
<1> DEFINE r == proc[p]
           t == then \o Tail(r.plan)
<1>1. DOMAIN r = Fields /\ r.running /\ Record(p, then) = [r EXCEPT !.plan = t]
  BY AtStep DEF Record
<1> HIDE DEF t
<1>2. [r EXCEPT !.plan = t].plan = t
  BY <1>1 DEF Fields
<1> QED BY <1>1, <1>2 DEF t, Fields

(* The packages of the lock, in order. *)
LEMMA OrderedPackages ==
  ASSUME FilesOK
  PROVE  LET D == DOMAIN lock.deps
             order == InOrder(D)
             pkgs == [i \in DOMAIN order |-> Package(order[i], lock.deps)]
         IN  /\ Cardinality(D) \in Nat /\ pkgs \in Seq(Packages) /\ Len(pkgs) = Cardinality(D)
             /\ \A d \in D : Package(d, lock.deps) \in Range(pkgs)
<1> DEFINE D == DOMAIN lock.deps
           order == InOrder(D)
           n == Cardinality(D)
           Locked(d) == Package(d, lock.deps)
           pkgs == [i \in DOMAIN order |-> Locked(order[i])]
<1>1. /\ \A d \in D : Locked(d) \in Packages
      /\ D \subseteq Nat /\ IsFiniteSet(D)
  BY LockPackages
<1>2. /\ n \in Nat /\ DOMAIN order = 1..n /\ order \in [1..n -> D]
      /\ \A d \in D : \E i \in 1..n : order[i] = d
  BY <1>1, InOrderOK
<1> HIDE DEF order, D, n, Locked
<1>3. pkgs \in [1..n -> Packages]
  BY <1>1, <1>2
<1>4. pkgs \in Seq(Packages) /\ DOMAIN pkgs = 1..n
  BY <1>2, <1>3, SeqDef
<1>5. Len(pkgs) = n
  BY <1>2, <1>4, LenProperties
<1>6. \A d \in D : Locked(d) \in Range(pkgs)
  BY <1>2 DEF Range
<1> QED BY <1>2, <1>4, <1>5, <1>6 DEF order, D, n, Locked

LEMMA PrepareFine ==
  ASSUME SInv, NEW p \in Procs, quiet[p], Prepare(p)
  PROVE  Fine(proc'[p], manifest', lock', repo', cache')
<1> DEFINE r == proc[p]
           K == Known(r, manifest, lock, repo, cache)
           D == DOMAIN lock.deps
           n == Cardinality(D)
           order == InOrder(D)
           pkgs == [i \in DOMAIN order |-> Package(order[i], lock.deps)]
           rec == [Record(p, CopyAll(n)) EXCEPT !.pkgs = pkgs]
           step == "prepare"
           t == Tail(r.plan)
<1>1. /\ At(p, step) /\ step \in PlainStages /\ Otherwise(p, LockIsGood(p), rec)
      /\ UNCHANGED <<manifest, lock, repo, cache>>
  BY StepKinds DEF Prepare, Reads, files
<1>2. /\ r.pkgs = << >> /\ r.used = {} /\ Sane(r.cmd, After(K, step), t)
      /\ Needs(r.cmd, step) \subseteq K
  BY <1>1, AtPlain
<1>3. /\ n \in Nat /\ pkgs \in Seq(Packages) /\ Len(pkgs) = n
      /\ \A d \in D : Package(d, lock.deps) \in Range(pkgs)
  BY OrderedPackages DEF SInv, IInv
<1> HIDE DEF pkgs, n
<1>4. /\ rec.running /\ rec.plan = CopyAll(n) \o t /\ rec.cmd = r.cmd /\ rec.base = r.base
      /\ rec.seen = r.seen /\ rec.ws = r.ws /\ rec.pkgs = pkgs /\ rec.used = r.used
  BY <1>1, AtInsert DEF Fields
<1>5. r.base \in Manifest
  BY <1>1, AtStep
<1>6. proc'[p] = IF LockIsGood(p) THEN rec ELSE Idle("failed", r.cmd)
  BY <1>1, Proceeds
<1> HIDE DEF rec
<1>7. Valid(manifest) /\ r.ws = manifest /\ FilesOK
  <2>1. "loaded" \in Needs(r.cmd, step)
    BY DEF Needs, Facts, Reading
  <2>2. "loaded" \in K
    BY <1>2, <2>1
  <2> QED BY <2>2 DEF Known, SInv, IInv
<1>8. CASE LockIsGood(p)
  <2>1. LockedTo(manifest, lock)
    BY <1>7, <1>8, LocksManifest DEF LockIsGood
  <2>2. After(K, step) \subseteq Known(rec, manifest', lock', repo', cache')
    <3>1. After(K, step) \subseteq K \cup {"locked", "stored", "copied"}
      BY DEF After, Gives, Spoils, Facts, FileWrites, LockWrites, Reading, DoctorSteps, ImportStages
    <3>2. K \subseteq Facts /\ {"locked", "stored", "copied"} \subseteq Facts
      BY DEF Known, Facts
    <3>3. K \cup {"locked", "stored", "copied"} \subseteq Known(rec, manifest', lock', repo', cache')
      <4> HIDE DEF step
      <4> QED BY <1>1, <1>2, <1>3, <1>4, <2>1, <3>2 DEF Known, Edited
    <3> QED BY <3>1, <3>3
  <2>3. rec.plan = Copies(n, 0, t)
    <3>1. t \in Seq(PlainStages)
      BY <1>2 DEF Sane
    <3> HIDE DEF t
    <3>2. CopyAll(n) \o t = Copies(n, 0, t)
      BY <1>3, <3>1, CopyStart
    <3> QED BY <1>4, <3>2
  <2> DEFINE L == After(K, step)
  <2> HIDE DEF L, t, K, step
  <2>4. /\ Sane(rec.cmd, L, t) /\ rec.used = {} /\ rec.pkgs \in Seq(Packages)
        /\ rec.plan = Copies(Len(rec.pkgs), 0, t)
        /\ L \subseteq Known(rec, manifest', lock', repo', cache')
    BY <1>2, <1>3, <1>4, <2>2, <2>3 DEF L
  <2>5. Sound(rec, manifest', lock', repo', cache')
    BY <2>4, StartsCopying
  <2> QED BY <1>4, <1>5, <1>6, <1>8, <2>5 DEF Fine
<1>9. CASE ~LockIsGood(p)
  <2>1. ASSUME Mends(r.cmd) PROVE FALSE
    <3>1. "locked" \in Needs(r.cmd, step)
      BY <2>1 DEF Needs, Facts, Reading
    <3>2. LockedTo(manifest, lock)
      BY <1>2, <3>1 DEF Known
    <3> QED BY <1>7, <1>9, <3>2, LockedMeans DEF LockIsGood
  <2> QED BY <1>6, <1>9, <2>1, FineIdle
<1> QED BY <1>8, <1>9

LEMMA DoctorFine ==
  ASSUME SInv, NEW p \in Procs, quiet[p], Doctor(p)
  PROVE  Fine(proc'[p], manifest', lock', repo', cache')
<1> DEFINE r == proc[p]
           c == r.cmd
           K == Known(r, manifest, lock, repo, cache)
           t == Tail(r.plan)
           more == <<"prepare", "doctor last">>
           again == Repair(c) \o <<"doctor again">>
<1>1. PICK step \in DoctorSteps :
        /\ At(p, step)
        /\ LockIsGood(p) /\ StorePresent(lock.deps) => Continue(p, Record(p, << >>))
        /\ LockIsGood(p) /\ ~StorePresent(lock.deps) =>
             Otherwise(p, c.fix /\ step # "doctor last", Record(p, more))
        /\ ~LockIsGood(p) => Otherwise(p, c.fix /\ step = "doctor", Record(p, again))
  BY DEF Doctor
<1>2. step \in PlainStages /\ UNCHANGED <<manifest, lock, repo, cache>>
  BY <1>1, StepKinds DEF Doctor, Reads, files, DoctorSteps
<1>3. /\ r.pkgs = << >> /\ r.used = {} /\ Sane(c, After(K, step), t)
      /\ Needs(c, step) \subseteq K
  BY <1>1, <1>2, AtPlain
<1>4. c \in Command /\ r.base \in Manifest /\ FilesOK
  BY <1>1, AtStep DEF SInv, IInv
<1> HIDE DEF more, again
<1>5. ASSUME NEW then
      PROVE  LET rec == Record(p, then) IN
               /\ rec.running /\ rec.plan = then \o t /\ rec.cmd = c /\ rec.base = r.base
               /\ rec.seen = r.seen /\ rec.ws = r.ws /\ rec.pkgs = << >> /\ rec.used = {}
  BY <1>1, <1>3, AtInsert
<1>6. Valid(manifest) /\ r.ws = manifest
  <2>1. "loaded" \in Needs(c, step)
    BY <1>1 DEF Needs, Facts, Reading, DoctorSteps
  <2>2. "loaded" \in K
    BY <1>3, <2>1
  <2> QED BY <2>2 DEF Known
<1>7. "locked" \in Needs(c, step) => LockIsGood(p)
  <2> SUFFICES ASSUME "locked" \in Needs(c, step) PROVE LockIsGood(p)
    OBVIOUS
  <2>1. LockedTo(manifest, lock)
    BY <1>3 DEF Known
  <2> QED BY <1>4, <1>6, <2>1, LockedMeans DEF LockIsGood
<1>8. "stored" \in Needs(c, step) => StorePresent(lock.deps)
  <2> SUFFICES ASSUME "stored" \in Needs(c, step) PROVE StorePresent(lock.deps)
    OBVIOUS
  <2>1. \A d \in DOMAIN lock.deps :
          InStore(Package(d, lock.deps), repo, cache) \/ Package(d, lock.deps) \in Range(r.pkgs)
    BY <1>3 DEF Known
  <2>2. Range(r.pkgs) = {}
    BY <1>3 DEF Range
  <2> QED BY <2>1, <2>2 DEF StorePresent, Present, InStore
<1>9. ASSUME NEW then, NEW L, Sane(c, L, then \o t), Continue(p, Record(p, then)),
             L \subseteq Known(Record(p, then), manifest', lock', repo', cache')
      PROVE  Fine(proc'[p], manifest', lock', repo', cache')
  <2> DEFINE rec == Record(p, then)
  <2>1. proc'[p] = rec
    BY <1>9, Continues
  <2>2. /\ rec.running /\ rec.plan = then \o t /\ rec.cmd = c /\ rec.base = r.base
        /\ rec.pkgs = << >> /\ rec.used = {}
    BY <1>5
  <2>3. L \subseteq Known(rec, manifest', lock', repo', cache')
    BY <1>9
  <2> HIDE DEF rec, t
  <2> QED BY <1>4, <1>9, <2>1, <2>2, <2>3, RestsFine
<1>10. Sane(c, Stocked, t)
  <2>1. After(K, step) \subseteq Stocked
    BY <1>1 DEF Stocked, After, Gives, Spoils, Facts, FileWrites, LockWrites, Reading, DoctorSteps, ImportStages, Known
  <2> HIDE DEF K, t
  <2> QED BY <1>3, <2>1, SaneMore
<1>11. c.fix => c.name \in {"build", "cache doctor"}
  BY <1>4 DEF Command
<1>12. ASSUME NEW then PROVE "loaded" \in Known(Record(p, then), manifest', lock', repo', cache')
  BY <1>2, <1>5, <1>6 DEF Known, Facts
<1>13. ASSUME NEW then, LockIsGood(p)
       PROVE  "locked" \in Known(Record(p, then), manifest', lock', repo', cache')
  <2>1. LockedTo(manifest, lock)
    BY <1>4, <1>6, <1>13, LocksManifest DEF LockIsGood
  <2> QED BY <1>2, <2>1 DEF Known, Facts
<1>14. ASSUME NEW then, StorePresent(lock.deps)
       PROVE  "stored" \in Known(Record(p, then), manifest', lock', repo', cache')
  BY <1>2, <1>14 DEF Known, Facts, StorePresent, Present, InStore
<1>15. ASSUME Mends(c), ~c.fix \/ step # "doctor" PROVE "locked" \in Needs(c, step)
  BY <1>1, <1>15 DEF Needs, Facts, Reading, DoctorSteps
<1>16. ASSUME (Mends(c) /\ ~c.fix) \/ step = "doctor last" PROVE "stored" \in Needs(c, step)
  BY <1>1, <1>16 DEF Needs, Facts, DoctorSteps
<1>17. CASE LockIsGood(p) /\ StorePresent(lock.deps)
  <2>1. << >> \o t = t
    BY <1>10, ConcatEmptySeq DEF Sane
  <2>2. Stocked \subseteq Known(Record(p, << >>), manifest', lock', repo', cache')
    BY <1>12, <1>13, <1>14, <1>17 DEF Stocked
  <2> HIDE DEF t
  <2> QED BY <1>1, <1>9, <1>10, <1>17, <2>1, <2>2
<1>18. CASE LockIsGood(p) /\ ~StorePresent(lock.deps)
  <2>1. CASE c.fix /\ step # "doctor last"
    <3>1. Sane(c, Synced, more \o t)
      BY <1>4, <1>10, <1>11, <2>1, RepairSane DEF more
    <3>2. Synced \subseteq Known(Record(p, more), manifest', lock', repo', cache')
      BY <1>12, <1>13, <1>18 DEF Synced
    <3>3. Continue(p, Record(p, more))
      BY <1>1, <1>18, <2>1 DEF Otherwise
    <3> HIDE DEF t
    <3> QED BY <1>9, <3>1, <3>2, <3>3
  <2>2. CASE ~(c.fix /\ step # "doctor last")
    <3> DEFINE ok == c.fix /\ step # "doctor last"
    <3>1. proc'[p] = Idle("failed", c)
      <4>1. Otherwise(p, ok, Record(p, more)) /\ ~ok
        BY <1>1, <1>18, <2>2
      <4> HIDE DEF ok
      <4> QED BY <4>1, Proceeds
    <3>2. ~Mends(c)
      BY <1>8, <1>16, <1>18, <2>2
    <3> QED BY <3>1, <3>2, FineIdle
  <2> QED BY <2>1, <2>2
<1>19. CASE ~LockIsGood(p)
  <2>1. CASE c.fix /\ step = "doctor"
    <3>1. Sane(c, {"loaded"}, again \o t)
      BY <1>4, <1>10, <1>11, <2>1, RepairSane DEF again
    <3>2. {"loaded"} \subseteq Known(Record(p, again), manifest', lock', repo', cache')
      BY <1>12
    <3>3. Continue(p, Record(p, again))
      BY <1>1, <1>19, <2>1 DEF Otherwise
    <3> HIDE DEF t
    <3> QED BY <1>9, <3>1, <3>2, <3>3
  <2>2. CASE ~(c.fix /\ step = "doctor")
    <3> DEFINE ok == c.fix /\ step = "doctor"
    <3>1. proc'[p] = Idle("failed", c)
      <4>1. Otherwise(p, ok, Record(p, again)) /\ ~ok
        BY <1>1, <1>19, <2>2
      <4> HIDE DEF ok
      <4> QED BY <4>1, Proceeds
    <3>2. ~Mends(c)
      BY <1>7, <1>15, <1>19, <2>2
    <3> QED BY <3>1, <3>2, FineIdle
  <2> QED BY <2>1, <2>2
<1> QED BY <1>17, <1>18, <1>19

(* The imports of the compiler. *)
LEMMA StaysImporting ==
  ASSUME NEW r, Importing(r, << >>, manifest', lock', repo', cache')
  PROVE  Sound(r, manifest', lock', repo', cache')
<1> DEFINE K == Known(r, manifest', lock', repo', cache')
<1>1. Needs(r.cmd, "end") \subseteq {"locked"}
  BY DEF Importing, Needs, Reading, DoctorSteps
<1>2. "locked" \in K
  BY DEF Importing, Known, Facts
<1>3. Sane(r.cmd, K, << >>)
  <2> HIDE DEF K
  <2>1. Needs(r.cmd, "end") \subseteq K
    BY <1>1, <1>2
  <2> QED BY <2>1, SaneEnd
<1> QED BY <1>3 DEF Sound

LEMMA CompileFine ==
  ASSUME SInv, NEW p \in Procs, quiet[p], Compile(p)
  PROVE  Fine(proc'[p], manifest', lock', repo', cache')
<1> DEFINE r == proc[p]
           K == Known(r, manifest, lock, repo, cache)
           D == DOMAIN r.ws.deps
           n == Cardinality(D)
           order == InOrder(D)
           pkgs == [i \in DOMAIN order |-> <<order[i]>>]
           rec == [Record(p, ImportAll(n)) EXCEPT !.pkgs = pkgs]
           step == "compile"
<1>1. /\ At(p, step) /\ step \in PlainStages /\ Continue(p, rec)
      /\ UNCHANGED <<manifest, lock, repo, cache>>
  BY StepKinds DEF Compile, Reads, files
<1>2. /\ r.pkgs = << >> /\ r.used = {} /\ Tail(r.plan) = << >> /\ r.cmd.name = "build"
      /\ Needs(r.cmd, step) \subseteq K
  BY <1>1, AtPlain
<1>3. /\ Valid(manifest) /\ r.ws = manifest /\ FilesOK /\ LockedTo(manifest, lock)
      /\ \A d \in DOMAIN lock.deps : Whole(Package(d, lock.deps), repo, cache)
  <2>1. "loaded" \in K /\ "locked" \in K /\ "copied" \in K
    <3>1. "loaded" \in Needs(r.cmd, step) /\ "locked" \in Needs(r.cmd, step) /\ "copied" \in Needs(r.cmd, step)
      BY DEF Needs, Facts, Reading
    <3> HIDE DEF K, step
    <3> QED BY <1>2, <3>1
  <2>2. Range(r.pkgs) = {}
    BY <1>2 DEF Range
  <2> QED BY <2>1, <2>2 DEF Known, SInv, IInv
<1>4. D = DOMAIN lock.deps /\ D = DOMAIN manifest.deps /\ D \subseteq Nat /\ IsFiniteSet(D)
  BY <1>3, LockedMeans, LockPackages
<1>5. /\ n \in Nat /\ DOMAIN order = 1..n /\ order \in [1..n -> D]
  BY <1>4, InOrderOK
<1> DEFINE Singles == {<<d>> : d \in DOMAIN manifest.deps}
<1>6. pkgs \in Seq(Singles) /\ Len(pkgs) = n
  <2>1. \A d \in D : <<d>> \in Singles
    BY <1>4
  <2> HIDE DEF order, D, n, Singles
  <2>2. pkgs \in [1..n -> Singles]
    BY <1>5, <2>1
  <2>3. pkgs \in Seq(Singles) /\ DOMAIN pkgs = 1..n
    BY <1>5, <2>2, SeqDef
  <2> QED BY <1>5, <2>3, LenProperties
<1> HIDE DEF pkgs, n
<1>7. /\ rec.running /\ rec.plan = ImportAll(n) \o << >> /\ rec.cmd = r.cmd /\ rec.base = r.base
      /\ rec.seen = r.seen /\ rec.ws = r.ws /\ rec.pkgs = pkgs /\ rec.used = {}
  BY ZenonT(30), <1>1, <1>2, AtInsert DEF Fields
<1>8. r.base \in Manifest
  BY <1>1, AtStep
<1>9. proc'[p] = rec
  BY <1>1, Continues
<1> HIDE DEF rec
<1>10. rec.plan = ImportLeft(Len(rec.pkgs), 0)
  <2>1. ImportAll(n) \o << >> = ImportAll(n)
    BY <1>5, ImportAllValues, ConcatEmptySeq
  <2> QED BY <1>5, <1>6, <1>7, <2>1, ImportStart
<1>11. Importing(rec, << >>, manifest', lock', repo', cache')
  <2>1. 0 \in 0..1 /\ 0 # 1
    OBVIOUS
  <2> HIDE DEF K, D, order, step
  <2>2. rec.pkgs \in Seq(Singles) /\ rec.ws = manifest /\ rec.used = {} /\ rec.cmd.name = "build"
    BY <1>2, <1>3, <1>6, <1>7
  <2> QED BY <1>1, <1>3, <1>10, <2>1, <2>2 DEF Importing
<1> QED BY <1>7, <1>8, <1>9, <1>11, StaysImporting DEF Fine

LEMMA ImportFine ==
  ASSUME SInv, NEW p \in Procs, quiet[p], Import(p)
  PROVE  Fine(proc'[p], manifest', lock', repo', cache')
<1> DEFINE r == proc[p]
           rec == [Record(p, << >>) EXCEPT !.seen = manifest]
<1>1. /\ At(p, "import") /\ Otherwise(p, Valid(manifest), rec)
      /\ UNCHANGED <<manifest, lock, repo, cache>>
  BY DEF Import, Reads, files
<1>2. /\ rec.running /\ rec.plan = Tail(r.plan) /\ rec.cmd = r.cmd /\ rec.base = r.base
      /\ rec.seen = manifest /\ rec.ws = r.ws /\ rec.pkgs = r.pkgs /\ rec.used = r.used
      /\ r.base \in Manifest /\ Sound(r, manifest, lock, repo, cache)
      /\ r.plan # << >> /\ Head(r.plan) = "import"
  BY <1>1, AtStep DEF Fields
<1>3. /\ Importing(r, << >>, manifest, lock, repo, cache) /\ r.pkgs # << >>
      /\ Tail(r.plan) = ImportLeft(Len(r.pkgs), 1)
  BY <1>2, ImportReached, StageKinds
<1>4. proc'[p] = rec
  <2>1. Valid(manifest)
    BY <1>3 DEF Importing
  <2> HIDE DEF rec
  <2> QED BY <1>1, <2>1, Proceeds
<1> HIDE DEF rec
<1>5. Importing(rec, << >>, manifest', lock', repo', cache')
  <2>1. 1 \in 0..1
    OBVIOUS
  <2> QED BY <1>1, <1>2, <1>3, <2>1 DEF Importing
<1> QED BY <1>2, <1>4, <1>5, StaysImporting DEF Fine

LEMMA FindModuleFine ==
  ASSUME SInv, NEW p \in Procs, quiet[p], FindModule(p)
  PROVE  Fine(proc'[p], manifest', lock', repo', cache')
<1> DEFINE r == proc[p]
           d == Head(r.pkgs)[1]
           k == Package(d, lock.deps)
           found == Found(k)
           rec == [Record(p, << >>) EXCEPT !.pkgs = Tail(@), !.used = @ \cup {found}]
           ok == found.part = "torn" \/ found.of > 1
<1>1. /\ At(p, "find module")
      /\ Locks(p, d) => Otherwise(p, ok, rec)
      /\ UNCHANGED <<manifest, lock, repo, cache>>
  BY DEF FindModule, Reads, files
<1>2. /\ rec.running /\ rec.plan = Tail(r.plan) /\ rec.cmd = r.cmd /\ rec.base = r.base
      /\ rec.seen = r.seen /\ rec.ws = r.ws /\ rec.pkgs = Tail(r.pkgs)
      /\ rec.used = r.used \cup {found}
      /\ r.base \in Manifest /\ Sound(r, manifest, lock, repo, cache)
      /\ r.plan # << >> /\ Head(r.plan) = "find module"
  <2> HIDE DEF found
  <2> QED BY <1>1, AtStep DEF Fields
<1>3. /\ Importing(r, << >>, manifest, lock, repo, cache) /\ r.pkgs # << >>
      /\ Tail(r.plan) = ImportLeft(Len(r.pkgs) - 1, 0) /\ r.seen = manifest
  BY <1>2, ImportReached, StageKinds
<1>4. /\ LockedTo(manifest, lock) /\ FilesOK /\ Parses(lock) /\ Verifies(manifest, lock)
      /\ lock.deps = manifest.deps
  BY <1>3, LockedMeans DEF Importing, SInv, IInv
<1> DEFINE Singles == {<<e>> : e \in DOMAIN manifest.deps}
<1>5. /\ r.pkgs \in Seq(Singles) /\ Head(r.pkgs) \in Singles /\ Tail(r.pkgs) \in Seq(Singles)
      /\ Len(Tail(r.pkgs)) = Len(r.pkgs) - 1
  <2>1. r.pkgs \in Seq(Singles)
    BY <1>3 DEF Importing
  <2> HIDE DEF Singles
  <2> QED BY <1>3, <2>1, HeadTailProperties
<1>6. d \in DOMAIN manifest.deps
  BY <1>5
<1>7. Locks(p, d) /\ Whole(k, repo, cache)
  BY <1>3, <1>4, <1>6 DEF Locks, Importing
<1>8. found.pkg = k /\ found.part = "whole" /\ found.of = repo[k]
  BY <1>7 DEF Found, Whole
<1> HIDE DEF found
<1>9. proc'[p] = IF ok THEN rec ELSE Idle("failed", r.cmd)
  <2>1. Otherwise(p, ok, rec)
    BY <1>1, <1>7
  <2> HIDE DEF ok, rec
  <2> QED BY <2>1, Proceeds
<1> HIDE DEF rec, ok
<1>10. CASE ok
  <2>1. rec.plan = ImportLeft(Len(rec.pkgs), 0)
    BY <1>2, <1>3, <1>5
  <2>2. \A u \in rec.used : /\ \E e \in DOMAIN manifest.deps : u.pkg = Package(e, manifest.deps)
                            /\ u.part = "whole" /\ u.of = repo[u.pkg]
    <3>1. /\ \E e \in DOMAIN manifest.deps : found.pkg = Package(e, manifest.deps)
          /\ found.part = "whole" /\ found.of = repo[found.pkg]
      BY <1>4, <1>6, <1>8
    <3> HIDE DEF d, k
    <3> QED BY <1>2, <1>3, <3>1 DEF Importing
  <2>3. rec.pkgs \in Seq(Singles) /\ 0 \in 0..1 /\ 0 # 1
    <3>1. rec.pkgs = Tail(r.pkgs) /\ Tail(r.pkgs) \in Seq(Singles)
      BY <1>2, <1>5
    <3>2. 0 \in 0..1 /\ 0 # 1
      OBVIOUS
    <3> HIDE DEF Singles, r
    <3> QED BY <3>1, <3>2, Zenon
  <2>4. Importing(rec, << >>, manifest', lock', repo', cache')
    <3>1. /\ Valid(manifest) /\ rec.ws = manifest /\ rec.cmd.name = "build"
          /\ \A e \in DOMAIN lock.deps : Whole(Package(e, lock.deps), repo, cache)
      BY <1>2, <1>3 DEF Importing
    <3> HIDE DEF d, k, r
    <3> QED BY <1>1, <1>4, <2>1, <2>2, <2>3, <3>1 DEF Importing
  <2> QED BY <1>2, <1>9, <1>10, <2>4, StaysImporting DEF Fine
<1>11. CASE ~ok
  <2>1. ~Mends(r.cmd)
    BY <1>3 DEF Importing, Mends
  <2> QED BY <1>9, <1>11, <2>1, FineIdle
<1> QED BY <1>10, <1>11

(* A copy disturbs the knowledge of the package it copies only. *)
LEMMA CopyKeeps ==
  ASSUME FilesOK, NEW r, NEW r2, NEW k,
         r2.cmd = r.cmd, r2.base = r.base, r2.ws = r.ws, r2.seen = r.seen,
         manifest' = manifest, lock' = lock,
         \A j \in Packages : j # k => repo'[j] = repo[j] /\ cache'[j] = cache[j],
         Range(r.pkgs) \subseteq Range(r2.pkgs) \cup {k},
         k \in Range(r2.pkgs) \/ Whole(k, repo', cache')
  PROVE  Known(r, manifest, lock, repo, cache) \subseteq Known(r2, manifest', lock', repo', cache')
<1> DEFINE K == Known(r, manifest, lock, repo, cache)
<1>1. \A d \in DOMAIN lock.deps : Package(d, lock.deps) \in Packages
  BY LockPackages
<1>2. ASSUME "stored" \in K
      PROVE  \A d \in DOMAIN lock'.deps :
               \/ InStore(Package(d, lock'.deps), repo', cache')
               \/ Package(d, lock'.deps) \in Range(r2.pkgs)
  <2> TAKE d \in DOMAIN lock'.deps
  <2> DEFINE j == Package(d, lock.deps)
  <2>1. (InStore(j, repo, cache) \/ j \in Range(r.pkgs)) /\ j \in Packages
    BY <1>1, <1>2 DEF Known
  <2> HIDE DEF j
  <2>2. InStore(j, repo', cache') \/ j \in Range(r2.pkgs)
    BY <2>1 DEF InStore, Whole
  <2> QED BY <2>2 DEF j
<1>3. ASSUME "copied" \in K
      PROVE  \A d \in DOMAIN lock'.deps :
               \/ Whole(Package(d, lock'.deps), repo', cache')
               \/ Package(d, lock'.deps) \in Range(r2.pkgs)
  <2> TAKE d \in DOMAIN lock'.deps
  <2> DEFINE j == Package(d, lock.deps)
  <2>1. (Whole(j, repo, cache) \/ j \in Range(r.pkgs)) /\ j \in Packages
    BY <1>1, <1>3 DEF Known
  <2> HIDE DEF j
  <2>2. Whole(j, repo', cache') \/ j \in Range(r2.pkgs)
    BY <2>1 DEF Whole
  <2> QED BY <2>2 DEF j
<1>4. SUFFICES ASSUME NEW f \in K PROVE f \in Known(r2, manifest', lock', repo', cache')
  OBVIOUS
<1>5. CASE f = "stored"
  BY <1>2, <1>5 DEF Known, Facts
<1>6. CASE f = "copied"
  BY <1>3, <1>6 DEF Known, Facts
<1>7. CASE f \notin {"stored", "copied"}
  BY <1>7 DEF Known, Edited
<1> QED BY <1>5, <1>6, <1>7

(* What the four first steps of a copy have in common. *)
LEMMA CopyGoesOn ==
  ASSUME SInv, NEW p \in Procs, quiet[p], NEW o \in 0..3, At(p, CopySteps[o + 1]),
         proc'[p] = Record(p, << >>), manifest' = manifest, lock' = lock,
         \A j \in Packages : j # Head(proc[p].pkgs) => repo'[j] = repo[j] /\ cache'[j] = cache[j],
         repo'[Head(proc[p].pkgs)] # 0,
         o = 2 => cache'[Head(proc[p].pkgs)].part # "none",
         o = 3 => cache'[Head(proc[p].pkgs)].part = "torn"
  PROVE  Fine(proc'[p], manifest', lock', repo', cache')
<1> DEFINE r == proc[p]
           rec == Record(p, << >>)
           k == Head(r.pkgs)
           K == Known(r, manifest, lock, repo, cache)
<1>1. /\ rec.running /\ rec.plan = Tail(r.plan) /\ rec.cmd = r.cmd /\ rec.base = r.base
      /\ rec.seen = r.seen /\ rec.ws = r.ws /\ rec.pkgs = r.pkgs /\ rec.used = r.used
      /\ r.base \in Manifest /\ Sound(r, manifest, lock, repo, cache)
      /\ r.plan # << >> /\ Head(r.plan) = CopySteps[o + 1]
  BY AtStep
<1>2. o \in 0..4 /\ o + 1 \in 1..4 /\ o < 4 /\ (o + 1 = 3 <=> o = 2) /\ (o + 1 = 4 <=> o = 3)
  OBVIOUS
<1> HIDE DEF rec
<1>3. PICK s : Sane(r.cmd, K, s) /\ Tail(r.plan) = Copies(Len(r.pkgs), o + 1, s)
  BY <1>1, <1>2, CopyReached
<1>4. r.used = {} /\ r.pkgs # << >> /\ r.pkgs \in Seq(Packages)
  BY <1>1, <1>2, CopyReached
<1>5. k \in Range(rec.pkgs)
  <2>1. k = r.pkgs[1] /\ 1 \in DOMAIN r.pkgs
    BY <1>4
  <2> QED BY <1>1, <2>1 DEF Range
<1>6. K \subseteq Known(rec, manifest', lock', repo', cache')
  <2>1. FilesOK /\ Range(r.pkgs) \subseteq Range(rec.pkgs) \cup {k}
    BY <1>1 DEF SInv, IInv
  <2>2. /\ \A j \in Packages : j # k => repo'[j] = repo[j] /\ cache'[j] = cache[j]
        /\ manifest' = manifest /\ lock' = lock
    OBVIOUS
  <2>3. /\ rec.cmd = r.cmd /\ rec.base = r.base /\ rec.ws = r.ws /\ rec.seen = r.seen
        /\ k \in Range(rec.pkgs) \/ Whole(k, repo', cache')
    BY <1>1, <1>5
  <2> HIDE DEF k, r
  <2> QED BY ONLY <2>1, <2>2, <2>3, CopyKeeps DEF K
<1> DEFINE q == o + 1
<1>7. /\ q \in 1..4 /\ rec.plan = Copies(Len(rec.pkgs), q, s)
      /\ repo'[Head(rec.pkgs)] # 0
      /\ q = 3 => cache'[Head(rec.pkgs)].part # "none"
      /\ q = 4 => cache'[Head(rec.pkgs)].part = "torn"
  BY <1>1, <1>2, <1>3
<1>8. Sane(rec.cmd, K, s) /\ rec.used = {} /\ rec.pkgs \in Seq(Packages) /\ rec.pkgs # << >>
  BY <1>1, <1>3, <1>4
<1> HIDE DEF q, K, k
<1>9. Sound(rec, manifest', lock', repo', cache')
  BY <1>6, <1>7, <1>8, StaysCopying
<1> QED BY <1>1, <1>9 DEF Fine, rec

LEMMA CopyPackage ==
  ASSUME SInv, NEW p \in Procs, quiet[p], NEW o \in 0..4, At(p, CopySteps[o + 1])
  PROVE  LET k == Head(proc[p].pkgs) IN
           /\ k \in Packages /\ k \in DOMAIN repo /\ k \in DOMAIN cache
           /\ o >= 1 => repo[k] # 0
           /\ o = 3 => cache[k].part # "none"
           /\ o = 4 => cache[k].part = "torn"
<1>1. /\ Sound(proc[p], manifest, lock, repo, cache) /\ proc[p].plan # << >>
      /\ Head(proc[p].plan) = CopySteps[o + 1]
  BY AtStep
<1>2. repo \in [Packages -> Nat] /\ cache \in [Packages -> CachedParts]
  BY DEF SInv, StoreOK
<1> QED BY <1>1, <1>2, CopyReached

LEMMA SeedFine ==
  ASSUME SInv, NEW p \in Procs, quiet[p], Seed(p)
  PROVE  Fine(proc'[p], manifest', lock', repo', cache')
<1> DEFINE k == Head(proc[p].pkgs)
<1> DEFINE o == 0
<1>o. o \in 0..4 /\ o \in 0..3 /\ o < 1 /\ o # 2 /\ o # 3
  OBVIOUS
<1>n. CopySteps[o + 1] = "seed"
  BY CopyNames
<1> HIDE DEF o
<1>1. /\ At(p, CopySteps[o + 1]) /\ Continue(p, Record(p, << >>))
      /\ repo' = [repo EXCEPT ![k] = IF @ = 0 THEN 1 ELSE @]
      /\ UNCHANGED <<manifest, lock, cache>>
  BY <1>n DEF Seed
<1>2. k \in DOMAIN repo
  BY <1>1, <1>o, CopyPackage
<1>3. proc'[p] = Record(p, << >>)
  BY <1>1, Continues
<1>4. /\ \A j \in Packages : j # k => repo'[j] = repo[j] /\ cache'[j] = cache[j]
      /\ repo'[k] # 0
  <2> HIDE DEF k
  <2> QED BY <1>1, <1>2 DEF SInv, StoreOK
<1> QED BY <1>1, <1>3, <1>4, <1>o, CopyGoesOn

LEMMA UncacheFine ==
  ASSUME SInv, NEW p \in Procs, quiet[p], Uncache(p)
  PROVE  Fine(proc'[p], manifest', lock', repo', cache')
<1> DEFINE k == Head(proc[p].pkgs)
<1> DEFINE o == 1
<1>o. o \in 0..4 /\ o \in 0..3 /\ o >= 1 /\ o # 2 /\ o # 3
  OBVIOUS
<1>n. CopySteps[o + 1] = "uncache"
  BY CopyNames
<1> HIDE DEF o
<1>1. /\ At(p, CopySteps[o + 1]) /\ Continue(p, Record(p, << >>))
      /\ cache' = [cache EXCEPT ![k] = Uncached]
      /\ UNCHANGED <<manifest, lock, repo>>
  BY <1>n DEF Uncache
<1>2. k \in DOMAIN cache /\ repo[k] # 0
  BY <1>1, <1>o, CopyPackage
<1>3. proc'[p] = Record(p, << >>)
  BY <1>1, Continues
<1>4. /\ \A j \in Packages : j # k => repo'[j] = repo[j] /\ cache'[j] = cache[j]
      /\ repo'[k] # 0
  <2> HIDE DEF k
  <2> QED BY <1>1, <1>2 DEF SInv, StoreOK
<1> QED BY <1>1, <1>3, <1>4, <1>o, CopyGoesOn

LEMMA MakeDirsFine ==
  ASSUME SInv, NEW p \in Procs, quiet[p], MakeDirs(p)
  PROVE  Fine(proc'[p], manifest', lock', repo', cache')
<1> DEFINE k == Head(proc[p].pkgs)
           ok == repo[k] # 0
<1> DEFINE o == 2
<1>o. o \in 0..4 /\ o \in 0..3 /\ o >= 1 /\ o = 2 /\ o # 3
  OBVIOUS
<1>n. CopySteps[o + 1] = "make dirs"
  BY CopyNames
<1> HIDE DEF o
<1>1. /\ At(p, CopySteps[o + 1]) /\ Otherwise(p, ok, Record(p, << >>))
      /\ cache' = IF repo[k] = 0 \/ cache[k].part # "none" THEN cache
                  ELSE [cache EXCEPT ![k] = [part |-> "dirs", of |-> 0]]
      /\ UNCHANGED <<manifest, lock, repo>>
  BY <1>n DEF MakeDirs
<1>2. k \in DOMAIN cache /\ ok
  BY <1>1, <1>o, CopyPackage
<1>3. proc'[p] = Record(p, << >>)
  <2> HIDE DEF ok
  <2> QED BY <1>1, <1>2, Proceeds
<1>4. /\ \A j \in Packages : j # k => repo'[j] = repo[j] /\ cache'[j] = cache[j]
      /\ repo'[k] # 0 /\ cache'[k].part # "none"
  <2> HIDE DEF k
  <2> QED BY <1>1, <1>2 DEF SInv, StoreOK
<1> QED BY <1>1, <1>3, <1>4, <1>o, CopyGoesOn

LEMMA CreateFileFine ==
  ASSUME SInv, NEW p \in Procs, quiet[p], CreateFile(p)
  PROVE  Fine(proc'[p], manifest', lock', repo', cache')
<1> DEFINE k == Head(proc[p].pkgs)
           ok == repo[k] # 0 /\ cache[k].part # "none"
<1> DEFINE o == 3
<1>o. o \in 0..4 /\ o \in 0..3 /\ o >= 1 /\ o # 2 /\ o = 3
  OBVIOUS
<1>n. CopySteps[o + 1] = "create file"
  BY CopyNames
<1> HIDE DEF o
<1>1. /\ At(p, CopySteps[o + 1]) /\ Otherwise(p, ok, Record(p, << >>))
      /\ cache' = IF ok THEN [cache EXCEPT ![k] = [part |-> "torn", of |-> 0]] ELSE cache
      /\ UNCHANGED <<manifest, lock, repo>>
  BY <1>n DEF CreateFile
<1>2. k \in DOMAIN cache /\ ok
  BY <1>1, <1>o, CopyPackage
<1>3. proc'[p] = Record(p, << >>)
  <2> HIDE DEF ok
  <2> QED BY <1>1, <1>2, Proceeds
<1>4. /\ \A j \in Packages : j # k => repo'[j] = repo[j] /\ cache'[j] = cache[j]
      /\ repo'[k] # 0 /\ cache'[k].part = "torn"
  <2> HIDE DEF k
  <2> QED BY <1>1, <1>2 DEF SInv, StoreOK
<1> QED BY <1>1, <1>3, <1>4, <1>o, CopyGoesOn

LEMMA FillFileFine ==
  ASSUME SInv, NEW p \in Procs, quiet[p], FillFile(p)
  PROVE  Fine(proc'[p], manifest', lock', repo', cache')
<1> DEFINE r == proc[p]
           k == Head(r.pkgs)
           rec == [Record(p, << >>) EXCEPT !.pkgs = Tail(@)]
           K == Known(r, manifest, lock, repo, cache)
<1> DEFINE o == 4
<1>o. o \in 0..4 /\ o >= 1 /\ o = 4
  OBVIOUS
<1>n. CopySteps[o + 1] = "fill file"
  BY CopyNames
<1> HIDE DEF o
<1>1. /\ At(p, CopySteps[o + 1]) /\ Continue(p, rec)
      /\ cache' = IF cache[k].part \in {"torn", "whole"}
                    THEN [cache EXCEPT ![k] = [part |-> "whole", of |-> repo[k]]] ELSE cache
      /\ UNCHANGED <<manifest, lock, repo>>
  BY <1>n DEF FillFile
<1>2. k \in DOMAIN cache /\ repo[k] # 0 /\ cache[k].part = "torn"
  BY <1>1, <1>o, CopyPackage
<1>3. proc'[p] = rec
  BY <1>1, Continues
<1>4. /\ \A j \in Packages : j # k => repo'[j] = repo[j] /\ cache'[j] = cache[j]
      /\ Whole(k, repo', cache')
  <2> HIDE DEF k
  <2> QED BY <1>1, <1>2 DEF SInv, StoreOK, Whole
<1>5. /\ rec.running /\ rec.plan = Tail(r.plan) /\ rec.cmd = r.cmd /\ rec.base = r.base
      /\ rec.seen = r.seen /\ rec.ws = r.ws /\ rec.pkgs = Tail(r.pkgs) /\ rec.used = r.used
      /\ r.base \in Manifest /\ Sound(r, manifest, lock, repo, cache)
      /\ r.plan # << >> /\ Head(r.plan) = CopySteps[o + 1]
  BY <1>1, AtStep DEF Fields
<1> HIDE DEF rec
<1>6. PICK s : Sane(r.cmd, K, s) /\ Tail(r.plan) = Copies(Len(r.pkgs) - 1, 0, s)
  BY <1>1, <1>5, <1>o, CopyReached
<1>7. /\ r.used = {} /\ r.pkgs # << >> /\ r.pkgs \in Seq(Packages)
      /\ Tail(r.pkgs) \in Seq(Packages) /\ Len(Tail(r.pkgs)) = Len(r.pkgs) - 1
  BY <1>1, <1>5, <1>o, CopyReached
<1>8. Range(r.pkgs) \subseteq Range(rec.pkgs) \cup {k}
  <2> SUFFICES ASSUME NEW i \in DOMAIN r.pkgs PROVE r.pkgs[i] \in Range(rec.pkgs) \cup {k}
    BY DEF Range
  <2> DEFINE t == Tail(r.pkgs)
  <2>1. /\ k = r.pkgs[1] /\ i \in 1..Len(r.pkgs) /\ Len(r.pkgs) \in Nat
        /\ Len(t) = Len(r.pkgs) - 1 /\ DOMAIN t = 1..Len(t)
        /\ \A j \in 1..Len(t) : t[j] = r.pkgs[j + 1]
    BY <1>7, HeadTailProperties, LenProperties
  <2> HIDE DEF t, k
  <2>2. CASE i = 1
    BY <2>1, <2>2
  <2>3. CASE i # 1
    <3>1. i - 1 \in DOMAIN t /\ t[i - 1] = r.pkgs[i]
      BY <2>1, <2>3
    <3> QED BY <1>5, <3>1 DEF Range, t
  <2> QED BY <2>2, <2>3
<1>9. K \subseteq Known(rec, manifest', lock', repo', cache')
  <2>1. FilesOK
    BY DEF SInv, IInv
  <2> HIDE DEF k, r
  <2> QED BY <1>1, <1>4, <1>5, <1>8, <2>1, CopyKeeps
<1>10. /\ Sane(rec.cmd, K, s) /\ rec.used = {} /\ rec.pkgs \in Seq(Packages)
       /\ rec.plan = Copies(Len(rec.pkgs), 0, s)
  BY <1>5, <1>6, <1>7
<1> HIDE DEF K
<1>11. Sound(rec, manifest', lock', repo', cache')
  BY <1>9, <1>10, StartsCopying
<1> QED BY <1>3, <1>5, <1>11 DEF Fine
-----------------------------------------------------------------------------
(* A step of one process: what the others see of it. *)
LEMMA StepSeen ==
  ASSUME SInv, NEW p \in Procs, Step(p) \/ Crash(p)
  PROVE  /\ \A q \in Procs : q # p => proc'[q] = proc[q]
         /\ \/ UNCHANGED <<manifest, lock, repo, cache, quiet>>
            \/ quiet' = [q \in Procs |-> quiet[q] /\ q = p]
         /\ IInv' /\ StoreOK'
<1>1. ASSUME NEW rec, Continue(p, rec)
      PROVE  \A q \in Procs : q # p => proc'[q] = proc[q]
  BY <1>1 DEF Continue, SInv, IInv, ProcsOK
<1>2. ASSUME NEW ok, NEW rec, Otherwise(p, ok, rec)
      PROVE  \A q \in Procs : q # p => proc'[q] = proc[q]
  BY <1>1, <1>2 DEF Otherwise, End
<1>3. CASE Load(p) \/ ReadManifest(p) \/ CheckLock(p) \/ VerifyLock(p) \/ Prepare(p) \/ Import(p)
  <2>1. \A q \in Procs : q # p => proc'[q] = proc[q]
    BY <1>2, <1>3 DEF Load, ReadManifest, CheckLock, VerifyLock, Prepare, Import
  <2>2. UNCHANGED <<manifest, lock, repo, cache, quiet>>
    BY <1>3 DEF Load, ReadManifest, CheckLock, VerifyLock, Prepare, Import, Reads, files
  <2> QED BY <1>3, <2>1, <2>2, ReadingSteps, StoreKept DEF SInv
<1>4. CASE Doctor(p) \/ Compile(p) \/ CompileFails(p) \/ FindModule(p) \/ Finish(p) \/ Crash(p)
  <2>1. \A q \in Procs : q # p => proc'[q] = proc[q]
    BY <1>1, <1>2, <1>4 DEF Doctor, Compile, CompileFails, FindModule, Finish, Crash, End
  <2>2. UNCHANGED <<manifest, lock, repo, cache, quiet>>
    BY <1>4 DEF Doctor, Compile, CompileFails, FindModule, Finish, Crash, Reads, files
  <2> QED BY <1>4, <2>1, <2>2, ReadingSteps, StoreKept DEF SInv
<1>5. CASE ReadLines(p)
  <2>1. \A q \in Procs : q # p => proc'[q] = proc[q]
    BY <1>1, <1>5 DEF ReadLines
  <2>2. UNCHANGED <<manifest, lock, repo, cache, quiet>>
    BY <1>5 DEF ReadLines, Reads, files
  <2> QED BY <1>5, <2>1, <2>2, WritingSteps, StoreKept DEF SInv
<1>6. CASE TruncateLock(p) \/ WriteLock(p) \/ TruncateManifest(p) \/ WriteManifest(p)
  <2>1. \A q \in Procs : q # p => proc'[q] = proc[q]
    BY <1>1, <1>2, <1>6 DEF TruncateLock, WriteLock, TruncateManifest, WriteManifest
  <2>2. UNCHANGED <<repo, cache>> /\ quiet' = [q \in Procs |-> quiet[q] /\ q = p]
    BY <1>6 DEF TruncateLock, WriteLock, TruncateManifest, WriteManifest, Writes
  <2> QED BY <1>6, <2>1, <2>2, WritingSteps, StoreKept DEF SInv
<1>7. CASE \/ Seed(p) \/ Uncache(p) \/ MakeDirs(p) \/ CreateFile(p) \/ FillFile(p) \/ Clean(p)
  <2>1. \A q \in Procs : q # p => proc'[q] = proc[q]
    BY <1>1, <1>2, <1>7 DEF Seed, Uncache, MakeDirs, CreateFile, FillFile, Clean
  <2>2. quiet' = [q \in Procs |-> quiet[q] /\ q = p]
    BY <1>7 DEF Seed, Uncache, MakeDirs, CreateFile, FillFile, Clean, Writes
  <2> QED BY <1>7, <2>1, <2>2, PackageSteps, StoreKept DEF SInv
<1> QED BY <1>3, <1>4, <1>5, <1>6, <1>7 DEF Step

(* Every step of a command nobody disturbs keeps it fine; a step of        *)
(* another that writes makes it disturbed.                                 *)
LEMMA StepFine ==
  ASSUME SInv, NEW p \in Procs, quiet[p], Step(p) \/ Crash(p)
  PROVE  Fine(proc'[p], manifest', lock', repo', cache')
<1>1. CASE \/ Load(p) \/ ReadManifest(p) \/ TruncateLock(p) \/ WriteLock(p) \/ CheckLock(p)
           \/ VerifyLock(p)
  BY <1>1, LoadFine, ReadFine, TruncateLockFine, WriteLockFine, CheckLockFine, VerifyLockFine
<1>2. CASE \/ Prepare(p) \/ Seed(p) \/ Uncache(p) \/ MakeDirs(p) \/ CreateFile(p) \/ FillFile(p)
  BY <1>2, PrepareFine, SeedFine, UncacheFine, MakeDirsFine, CreateFileFine, FillFileFine
<1>3. CASE \/ Doctor(p) \/ Clean(p) \/ ReadLines(p) \/ TruncateManifest(p) \/ WriteManifest(p)
  BY <1>3, DoctorFine, CleanFine, ReadLinesFine, TruncateManifestFine, WriteManifestFine
<1>4. CASE \/ Compile(p) \/ CompileFails(p) \/ Import(p) \/ FindModule(p) \/ Finish(p) \/ Crash(p)
  BY <1>4, CompileFine, ImportFine, FindModuleFine, EndsFine
<1> QED BY <1>1, <1>2, <1>3, <1>4 DEF Step

LEMMA QuietKept ==
  ASSUME SInv, [Next]_vars
  PROVE  SInv'
<1>1. ASSUME IInv', StoreOK', quiet' \in [Procs -> BOOLEAN],
             \A q \in Procs : quiet'[q] => Fine(proc'[q], manifest', lock', repo', cache')
      PROVE  SInv'
  BY <1>1 DEF SInv
<1>2. quiet \in [Procs -> BOOLEAN]
  BY DEF SInv
<1>3. ASSUME NEW p \in Procs, Step(p) \/ Crash(p) PROVE SInv'
  <2>1. /\ \A q \in Procs : q # p => proc'[q] = proc[q]
        /\ \/ UNCHANGED <<manifest, lock, repo, cache, quiet>>
           \/ quiet' = [q \in Procs |-> quiet[q] /\ q = p]
        /\ IInv' /\ StoreOK'
    BY <1>3, StepSeen
  <2>2. quiet' \in [Procs -> BOOLEAN]
    BY <1>2, <2>1
  <2>3. ASSUME NEW q \in Procs, quiet'[q]
        PROVE  Fine(proc'[q], manifest', lock', repo', cache')
    <3>1. quiet[q] /\ (q # p => UNCHANGED <<manifest, lock, repo, cache>>)
      BY <2>1, <2>3
    <3>2. CASE q = p
      BY <1>3, <3>1, <3>2, StepFine
    <3>3. CASE q # p
      BY <2>1, <3>1, <3>3 DEF SInv
    <3> QED BY <3>2, <3>3
  <2> QED BY <1>1, <2>1, <2>2, <2>3
<1>4. ASSUME NEW p \in Procs, NEW c \in Commands, Start(p, c) PROVE SInv'
  <2>1. UNCHANGED <<manifest, lock, repo, cache>> /\ quiet' = [quiet EXCEPT ![p] = TRUE]
    BY <1>4 DEF Start, files
  <2>2. IInv' /\ StoreOK'
    BY <1>4, <2>1, StartKeeps, StoreKept DEF SInv
  <2>3. quiet' \in [Procs -> BOOLEAN]
    BY <1>2, <2>1
  <2>4. ASSUME NEW q \in Procs, q # p PROVE proc'[q] = proc[q] /\ quiet'[q] = quiet[q]
    BY <1>2, <1>4, <2>1, <2>4 DEF Start, SInv, IInv, ProcsOK
  <2>5. ASSUME NEW q \in Procs, quiet'[q]
        PROVE  Fine(proc'[q], manifest', lock', repo', cache')
    <3>1. CASE q = p
      BY <1>4, <3>1, StartFine
    <3>2. CASE q # p
      BY <2>1, <2>4, <2>5, <3>2 DEF SInv
    <3> QED BY <3>1, <3>2
  <2> QED BY <1>1, <2>2, <2>3, <2>5
<1>5. CASE EditManifest \/ EditModules
  <2>1. IInv' /\ quiet' = [q \in Procs |-> FALSE]
    BY <1>5, EditsKeep DEF SInv, EditManifest, EditModules, Edits
  <2>2. StoreOK'
    <3>1. EditModules \/ UNCHANGED <<repo, cache>>
      BY <1>5 DEF EditManifest, Edits
    <3> QED BY <3>1, StoreKept DEF SInv
  <2> QED BY <1>1, <2>1, <2>2
<1>6. CASE UNCHANGED vars
  BY <1>6 DEF vars, files, SInv, IInv, StoreOK, ProcsOK, ProcOK, FilesOK, Entries
<1> QED BY <1>3, <1>4, <1>5, <1>6 DEF Next

(* At the start nobody is undisturbed, so all is well.                     *)
LEMMA QuietStarts == Init => SInv
<1> SUFFICES ASSUME Init PROVE SInv
  OBVIOUS
<1>1. IInv
  BY InitKeeps
<1>2. quiet = [p \in Procs |-> FALSE]
  BY DEF Init
<1>3. StoreOK
  <2>1. /\ Uncached \in CachedParts /\ [part |-> "whole", of |-> 2] \in CachedParts
    BY DEF Uncached, CachedParts, Parts
  <2>2. PICK used :
          /\ repo = [k \in Packages |-> IF k \in used THEN 2 ELSE 0]
          /\ cache = [k \in Packages |-> IF k \in used THEN [part |-> "whole", of |-> 2] ELSE Uncached]
    BY DEF Init
  <2> QED BY <2>1, <2>2 DEF StoreOK
<1> QED BY <1>1, <1>2, <1>3 DEF SInv

LEMMA Undisturbed == Spec => []SInv
<1>1. SInv /\ [Next]_vars => SInv'
  BY QuietKept
<1> QED BY <1>1, QuietStarts, PTL DEF Spec

LEMMA RangeEmpty == Range(<< >>) = {}
BY DEF Range

(* What is known at the end is all that the end needs.                     *)
LEMMA SucceedsKnowing ==
  ASSUME SInv, NEW p \in Procs, Succeeds(p)
  PROVE  /\ Needs(proc[p].cmd, "end") \subseteq Known(proc[p], manifest, lock, repo, cache)
         /\ proc[p].pkgs = << >> /\ proc[p].base \in Manifest
<1>1. Fine(proc[p], manifest, lock, repo, cache) /\ proc[p].running /\ proc[p].plan = << >>
  BY DEF SInv, Succeeds
<1> QED BY <1>1, EndReached DEF Fine

(* Exit code 0 of a command that nobody disturbed, other than cache clean: *)
(* the manifest on disk is valid and aym.lock is exactly its lock.         *)
THEOREM SuccessLocks == Spec => []SuccessMeansLocked
<1>1. SInv => SuccessMeansLocked
  <2> SUFFICES ASSUME SInv, NEW p \in Procs, Succeeds(p), proc[p].cmd.name # "cache clean"
               PROVE  Valid(manifest) /\ lock = LockText(manifest)
    BY DEF SuccessMeansLocked
  <2>1. "locked" \in Needs(proc[p].cmd, "end")
    BY DEF Needs, Facts
  <2> QED BY <2>1, SucceedsKnowing DEF Known, LockedTo
<1> QED BY <1>1, Undisturbed, PTL

(* aym lock sync, cache sync, cache doctor --fix and add, undisturbed,     *)
(* fail for one reason only: the manifest on disk is broken or cannot be   *)
(* resolved. Whatever killed or failed commands have left in the lock, the *)
(* repository and the cache is mended.                                     *)
THEOREM SyncsMend == Spec => []SyncMends
<1>1. SInv => SyncMends
  BY DEF SInv, SyncMends, Fails, Fine
<1> QED BY <1>1, Undisturbed, PTL

(* Whatever an undisturbed build has imported so far was the whole copy of *)
(* what the repository holds, of the version the manifest resolves to;     *)
(* copies an earlier, killed command cut short are never read.             *)
THEOREM BuildsWhole == Spec => []CompilesWhole
<1>1. SInv => CompilesWhole
  <2> SUFFICES ASSUME SInv, NEW p \in Procs, proc[p].running, quiet[p], NEW u \in proc[p].used
               PROVE  /\ \E d \in DOMAIN proc[p].ws.deps : u.pkg = Package(d, proc[p].ws.deps)
                      /\ u.part = "whole" /\ u.of = repo[u.pkg]
    BY DEF CompilesWhole
  <2>1. Sound(proc[p], manifest, lock, repo, cache)
    BY DEF SInv, Fine
  <2>2. PICK s : \/ Resting(proc[p], s) \/ Copying(proc[p], s, repo, cache)
                 \/ Importing(proc[p], s, manifest, lock, repo, cache)
    BY <2>1 DEF Sound
  <2>3. Importing(proc[p], s, manifest, lock, repo, cache)
    <3>1. proc[p].used # {}
      OBVIOUS
    <3>2. ~Resting(proc[p], s) /\ ~Copying(proc[p], s, repo, cache)
      BY <3>1 DEF Resting, Copying
    <3> QED BY <2>2, <3>2
  <2> QED BY <2>3 DEF Importing
<1> QED BY <1>1, Undisturbed, PTL

(* An undisturbed doctor, cache sync or add that ends with exit code 0     *)
(* leaves every locked package in the repository and in the cache.         *)
THEOREM DoctorRight == Spec => []DoctorFindsAll
<1>1. SInv => DoctorFindsAll
  <2> SUFFICES ASSUME SInv, NEW p \in Procs, Succeeds(p),
                      proc[p].cmd.name \in {"cache doctor", "cache sync", "add"},
                      NEW d \in DOMAIN lock.deps
               PROVE  LET k == Package(d, lock.deps) IN repo[k] # 0 /\ cache[k].part # "none"
    BY DEF DoctorFindsAll
  <2>1. "stored" \in Needs(proc[p].cmd, "end")
    BY DEF Needs, Facts
  <2>2. Range(proc[p].pkgs) = {}
    BY SucceedsKnowing, RangeEmpty
  <2>3. "stored" \in Known(proc[p], manifest, lock, repo, cache)
    BY <2>1, SucceedsKnowing
  <2> QED BY <2>2, <2>3 DEF Known, InStore
<1> QED BY <1>1, Undisturbed, PTL

(* An undisturbed add puts the requirement of its dependency in force and  *)
(* changes no other, unless a later line of aym.toml gives the name again: *)
(* then it changes nothing in force.                                       *)
THEOREM AddsExactly == Spec => []AddIsExact
<1>1. SInv => AddIsExact
  <2> SUFFICES ASSUME SInv, NEW p \in Procs, Succeeds(p), proc[p].cmd.name = "add"
               PROVE  LET c == proc[p].cmd
                          base == proc[p].base
                      IN  /\ DOMAIN manifest.deps = DOMAIN base.deps \cup {c.dep}
                          /\ \A d \in DOMAIN manifest.deps :
                               manifest.deps[d] =
                                 IF d = c.dep /\ d \notin base.later THEN c.req ELSE base.deps[d]
    BY DEF AddIsExact
  <2> DEFINE c == proc[p].cmd
             base == proc[p].base
  <2>1. "added" \in Needs(c, "end")
    BY DEF Needs, Facts
  <2>2. manifest = Upsert(base, c.dep, c.req) /\ base \in Manifest
    BY <2>1, SucceedsKnowing DEF Known, Edited
  <2>3. CASE c.dep \in base.later
    <3>1. /\ manifest.deps = base.deps
          /\ DOMAIN base.deps = DOMAIN base.deps \cup {c.dep}
      BY <2>2, <2>3 DEF Upsert, Manifest
    <3>2. QED BY <2>3, <3>1
  <2>4. CASE c.dep \notin base.later
    <3>1. manifest.deps = With(base.deps, c.dep, c.req)
      BY <2>2, <2>4 DEF Upsert, Manifest
    <3>2. QED BY <2>4, <3>1 DEF With
  <2> QED BY <2>3, <2>4
<1> QED BY <1>1, Undisturbed, PTL
-----------------------------------------------------------------------------
Results == {"none", "ok", "failed", "killed"}
Ran(r) == r.cmd \in Commands /\ r.result \in Results
(* Types: the bounds of what is stored grow with the edits.                *)
TInv ==
  /\ IInv
  /\ \A p \in Procs : Ran(proc[p])
  /\ edits \in 0..MaxEdits
  /\ StoreIn(repo, cache, 0..(2 + edits))

LEMMA SomeCommandOK == SomeCommand \in Commands
BY BoundsAssumption DEF SomeCommand

LEMMA RanKept ==
  ASSUME TInv, NEW p \in Procs, NEW then
  PROVE  LET r == Record(p, then) IN
           /\ Ran(r)
           /\ \A v : Ran([r EXCEPT !.ws = v]) /\ Ran([r EXCEPT !.seen = v]) /\ Ran([r EXCEPT !.pkgs = v])
           /\ \A v, w : Ran([r EXCEPT !.pkgs = v, !.used = w])
<1>1. DOMAIN proc[p] = Fields /\ Ran(proc[p])
  BY DEF TInv, IInv, ProcsOK, ProcOK
<1> QED BY <1>1 DEF Record, Ran, Fields

LEMMA RanStep ==
  ASSUME TInv, NEW p \in Procs, NEW rec, Ran(rec), Continue(p, rec)
  PROVE  \A q \in Procs : Ran(proc'[q])
BY DEF TInv, IInv, ProcsOK, Continue

LEMMA RanEnd ==
  ASSUME TInv, NEW p \in Procs, NEW result \in Results, End(p, result)
  PROVE  \A q \in Procs : Ran(proc'[q])
<1>1. Ran(proc[p])
  BY DEF TInv
<1>2. Ran(Idle(result, IF result = "failed" THEN proc[p].cmd ELSE SomeCommand))
  BY <1>1, SomeCommandOK DEF Ran, Idle
<1> QED BY <1>2, RanStep DEF End

LEMMA RanOtherwise ==
  ASSUME TInv, NEW p \in Procs, NEW ok, NEW rec, Ran(rec), Otherwise(p, ok, rec)
  PROVE  \A q \in Procs : Ran(proc'[q])
BY RanStep, RanEnd DEF Otherwise, Results

LEMMA StepRan ==
  ASSUME TInv, NEW p \in Procs, Step(p) \/ Crash(p)
  PROVE  \A q \in Procs : Ran(proc'[q])
<1>1. CASE Load(p) \/ ReadManifest(p) \/ CheckLock(p) \/ VerifyLock(p) \/ Prepare(p) \/ Import(p)
           \/ WriteLock(p) \/ MakeDirs(p) \/ CreateFile(p)
  BY <1>1, RanKept, RanOtherwise
     DEF Load, ReadManifest, CheckLock, VerifyLock, Prepare, Import, WriteLock, MakeDirs, CreateFile
<1>2. CASE \/ TruncateLock(p) \/ Seed(p) \/ Uncache(p) \/ FillFile(p) \/ Clean(p) \/ ReadLines(p)
           \/ TruncateManifest(p) \/ WriteManifest(p) \/ Compile(p)
  BY <1>2, RanKept, RanStep
     DEF TruncateLock, Seed, Uncache, FillFile, Clean, ReadLines, TruncateManifest, WriteManifest, Compile
<1>3. CASE Doctor(p)
  BY <1>3, RanKept, RanStep, RanOtherwise DEF Doctor
<1>4. CASE FindModule(p)
  <2>1. "failed" \in Results
    BY DEF Results
  <2> QED BY <1>4, <2>1, RanKept, RanOtherwise, RanEnd DEF FindModule
<1>5. CASE CompileFails(p) \/ Finish(p) \/ Crash(p)
  <2>1. {"ok", "failed", "killed"} \subseteq Results
    BY DEF Results
  <2> QED BY <1>5, <2>1, RanEnd DEF CompileFails, Finish, Crash
<1> QED BY <1>1, <1>2, <1>3, <1>4, <1>5 DEF Step

LEMMA StepStores ==
  ASSUME NEW N, {0, 1} \subseteq N, StoreIn(repo, cache, N), NEW p \in Procs, Step(p) \/ Crash(p)
  PROVE  StoreIn(repo', cache', N) /\ edits' = edits
<1>1. CASE \/ Seed(p) \/ Uncache(p) \/ MakeDirs(p) \/ CreateFile(p) \/ FillFile(p) \/ Clean(p)
  BY <1>1, StoreStep DEF Seed, Uncache, MakeDirs, CreateFile, FillFile, Clean, Writes
<1>2. CASE \/ TruncateLock(p) \/ WriteLock(p) \/ TruncateManifest(p) \/ WriteManifest(p)
  BY <1>2, StoreStep DEF TruncateLock, WriteLock, TruncateManifest, WriteManifest, Writes
<1>3. CASE \/ Load(p) \/ ReadManifest(p) \/ CheckLock(p) \/ VerifyLock(p) \/ Prepare(p) \/ Import(p)
           \/ Doctor(p) \/ Compile(p) \/ CompileFails(p) \/ FindModule(p) \/ Finish(p) \/ Crash(p)
           \/ ReadLines(p)
  <2>1. UNCHANGED <<repo, cache, edits>>
    BY <1>3 DEF Load, ReadManifest, CheckLock, VerifyLock, Prepare, Import, Doctor, Compile,
       CompileFails, FindModule, Finish, Crash, ReadLines, Reads, files
  <2> QED BY <2>1, StoreStep
<1> QED BY <1>1, <1>2, <1>3 DEF Step

LEMMA TypesKept == TInv /\ [Next]_vars => TInv'
<1> SUFFICES ASSUME TInv, [Next]_vars PROVE TInv'
  OBVIOUS
<1> DEFINE N == 0..(2 + edits)
<1>1. /\ {0, 1} \subseteq N /\ edits \in 0..MaxEdits /\ MaxEdits \in Nat
      /\ StoreIn(repo, cache, N) /\ IInv
  BY BoundsAssumption DEF TInv
<1>2. IInv'
  BY <1>1, NextKeeps
<1>3. ASSUME NEW p \in Procs, Step(p) \/ Crash(p) PROVE TInv'
  <2>1. \A q \in Procs : Ran(proc'[q])
    BY <1>3, StepRan
  <2>2. StoreIn(repo', cache', N) /\ edits' = edits
    <3> HIDE DEF N
    <3> QED BY <1>1, <1>3, StepStores
  <2> QED BY <1>1, <1>2, <2>1, <2>2 DEF TInv, Ran
<1>4. ASSUME NEW p \in Procs, NEW c \in Commands, Start(p, c) PROVE TInv'
  <2> DEFINE rec == [Idle("none", c) EXCEPT !.running = TRUE, !.plan = Plan(c),
                       !.base = IF c.name = "add" THEN manifest ELSE EmptyManifest]
  <2>1. Continue(p, rec) /\ UNCHANGED <<repo, cache, edits>>
    BY <1>4 DEF Start, Continue, files
  <2>2. Ran(rec)
    BY DEF Ran, Idle, Results
  <2> HIDE DEF rec
  <2>3. \A q \in Procs : Ran(proc'[q])
    BY <2>1, <2>2, RanStep
  <2> QED BY <1>1, <1>2, <2>1, <2>3 DEF TInv, Ran
<1>5. CASE EditManifest \/ EditModules
  <2>1. proc' = proc /\ edits' = edits + 1 /\ edits < MaxEdits
    BY <1>5 DEF EditManifest, EditModules, Edits
  <2> DEFINE M == 0..(2 + (edits + 1))
  <2>2. N \subseteq M /\ \A n \in N : n + 1 \in M
    BY <1>1
  <2>3. edits' \in 0..MaxEdits
    BY <1>1, <2>1
  <2> HIDE DEF N, M
  <2>4. StoreIn(repo', cache', M)
    <3>1. CASE EditModules
      BY <1>1, <2>2, <3>1, StoreEdit
    <3>2. CASE EditManifest
      BY <1>1, <2>2, <3>2 DEF EditManifest, Edits, StoreIn
    <3> QED BY <1>5, <3>1, <3>2
  <2> QED BY <1>1, <1>2, <2>1, <2>3, <2>4 DEF TInv, Ran, M
<1>6. CASE UNCHANGED vars
  BY <1>2, <1>6 DEF vars, files, TInv, Ran
<1> QED BY <1>3, <1>4, <1>5, <1>6 DEF Next

LEMMA TypesStart == Init => TInv
<1> SUFFICES ASSUME Init PROVE TInv
  OBVIOUS
<1>1. IInv
  BY InitKeeps
<1>2. edits = 0 /\ 0 \in 0..MaxEdits /\ {0, 2} \subseteq 0..(2 + 0)
  BY BoundsAssumption DEF Init
<1>3. PICK used :
        /\ repo = [k \in Packages |-> IF k \in used THEN 2 ELSE 0]
        /\ cache = [k \in Packages |-> IF k \in used THEN [part |-> "whole", of |-> 2] ELSE Uncached]
  BY DEF Init
<1> DEFINE N == 0..(2 + 0)
<1>4. {0, 2} \subseteq N
  BY <1>2
<1> HIDE DEF N
<1>5. StoreIn(repo, cache, N)
  BY <1>3, <1>4 DEF StoreIn, Uncached, Parts
<1>6. \A p \in Procs : Ran(proc[p])
  BY SomeCommandOK DEF Init, Ran, Idle, Results
<1> QED BY <1>1, <1>2, <1>5, <1>6 DEF TInv, N

(* The types of all the state: manifest and lock are a table each, at      *)
(* every step editions in the repository and in the cache are bounded by   *)
(* the edits made, and plans consist of known stages only.                 *)
THEOREM Types == Spec => []TypeOK
<1>1. TInv => TypeOK
  <2> SUFFICES ASSUME TInv PROVE TypeOK
    OBVIOUS
  <2>1. manifest \in Manifest /\ lock \in Lock
    BY DEF TInv, IInv, FilesOK
  <2>2. ASSUME NEW k \in Packages
        PROVE  /\ repo[k] \in 0..(2 + MaxEdits)
               /\ cache[k].part \in Parts /\ cache[k].of \in 0..(2 + MaxEdits)
    <3> DEFINE N == 0..(2 + edits)
               M == 0..(2 + MaxEdits)
    <3>1. N \subseteq M
      BY BoundsAssumption DEF TInv
    <3>2. StoreIn(repo, cache, N)
      BY DEF TInv
    <3> HIDE DEF N, M
    <3>3. repo[k] \in M /\ cache[k].part \in Parts /\ cache[k].of \in M
      BY <3>1, <3>2 DEF StoreIn
    <3> QED BY <3>3 DEF M
  <2>3. ASSUME NEW p \in Procs
        PROVE  /\ proc[p].cmd \in Commands
               /\ proc[p].ws \in Manifest /\ proc[p].seen \in Manifest
               /\ Range(proc[p].plan) \subseteq Stages
               /\ proc[p].result \in {"none", "ok", "failed", "killed"}
    <3>1. ProcOK(proc[p]) /\ Ran(proc[p])
      BY DEF TInv, IInv, ProcsOK
    <3>2. \A i \in DOMAIN proc[p].plan : proc[p].plan[i] \in Stages
      BY <3>1, ElementOfSeq, LenProperties DEF ProcOK
    <3> QED BY <3>1, <3>2 DEF ProcOK, Ran, Results, Range
  <2> QED BY <2>1, <2>2, <2>3 DEF TypeOK
<1> QED BY <1>1, TypesStart, TypesKept, PTL DEF Spec
=============================================================================
