------------------------ MODULE CompilerDriverProofs ------------------------
(***************************************************************************)
(* The exit code and the report of aymc, for every command line and every  *)
(* program; and that the driver drives the resolver by its own steps.      *)
(***************************************************************************)
EXTENDS CompilerDriver, ModuleResolverProofs

(* The stages in their order, and those that come after some file is made. *)
Compiling == {"sources", "parse", "resolve", "ast", "semantic"}
AfterLock == {"check lock", "inputs", "runtime", "backend"} \cup Compiling
AfterAst == {"semantic", "runtime", "backend"}
Working == {"manifest", "emit lock"} \cup AfterLock

Statuses == {"resolving", "ok", "AYM4001", "AYM4002", "AYM4004", "AYM4005"}
Whole0 == text[Entry] \notin {Absent, Garbled}

(* What has been made, said and found out so far, by the stage.            *)
Accepted == stage \in Working \cup {"report"} => ~Given("help") /\ ~Incompatible
Silent == stage \in Working \cup {"options"} => problem = "none" /\ outcome = 1 /\ report = "earlier"
Shape ==
  /\ stage \in Working \cup {"options", "report", "exited"}
  /\ stage \in Compiling => invoked.inputs /\ ~Given("link only")
  /\ status \in Statuses
Locked == stage \in AfterLock /\ Given("emit lock") => "lock" \in made
Dumped == stage \in AfterAst /\ invoked.inputs /\ Given("ast") => "ast" \in made
Parsed ==
  /\ stage = "parse" => text[Entry] # Absent
  /\ stage \in {"resolve", "ast"} \/ (stage \in AfterAst /\ invoked.inputs) => Whole0
Checked == stage = "ast" \/ (stage \in AfterAst /\ invoked.inputs) => Succeeded
OnlyLock == stage \in (Working \cup {"options"}) \ AfterAst => made \subseteq {"lock"}
Sound == invoked.inputs /\ made \ {"lock", "report"} # {} => Succeeded /\ Whole0
Pending ==
  stage = "report" =>
    /\ report = "earlier" /\ outcome \in {0, 1} /\ (outcome = 1 <=> problem # "none")
    /\ outcome = 0 => Asked \ {"report"} \subseteq made
Gone ==
  stage = "exited" =>
    /\ Ended0 => Asked \subseteq made /\ (Given("diagnostics") => report = "none")
    /\ outcome = 1 => report # "none"
    /\ problem # "none" => outcome = 1 /\ (Given("diagnostics") => report \in {problem, "unwritable"})

DInv ==
  /\ Shape /\ Accepted /\ Silent /\ Locked /\ Dumped /\ Parsed /\ Checked /\ OnlyLock /\ Sound /\ Pending /\ Gone
-----------------------------------------------------------------------------
(* The command line does not change, nor what it asks for. *)
LEMMA SameCommand ==
  ASSUME UNCHANGED invoked
  PROVE  /\ Asked' = Asked /\ (Incompatible' <=> Incompatible) /\ (Manifests' <=> Manifests)
         /\ \A word : Given(word)' <=> Given(word)
BY DEF Asked, Incompatible, Manifests, Given, Compiles, Product, Metrics

(* From a stage to a later one, with nothing said and nothing made: what   *)
(* has to hold there is about the program and the files there are.         *)
LEMMA Passing ==
  ASSUME DInv, NEW now \in Working \cup {"options"}, NEW next \in Working, Passes(now, next),
         ~Given("help") /\ ~Incompatible,
         next \in Compiling => invoked.inputs /\ ~Given("link only"),
         next \in AfterLock /\ Given("emit lock") => "lock" \in made,
         next \in AfterAst /\ invoked.inputs /\ Given("ast") => "ast" \in made,
         next = "parse" => text[Entry] # Absent,
         next \in {"resolve", "ast"} \/ (next \in AfterAst /\ invoked.inputs) => Whole0,
         next = "ast" \/ (next \in AfterAst /\ invoked.inputs) => Succeeded,
         next \notin AfterAst => made \subseteq {"lock"}
  PROVE  DInv'
<1>1. /\ stage = now /\ stage' = next
      /\ UNCHANGED <<text, status, invoked, problem, report, outcome, made>>
  BY DEF Passes, Does, vars
<1>2. now \in Working \cup {"options"} /\ next # "report" /\ next # "exited"
  BY DEF Working, AfterLock, Compiling
<1>3. Shape' /\ Accepted' /\ Silent'
  BY <1>1, <1>2, SameCommand DEF DInv, Shape, Accepted, Silent
<1>4. Locked' /\ Dumped' /\ Parsed' /\ Checked'
  BY <1>1, SameCommand DEF Locked, Dumped, Parsed, Checked, Whole0, Succeeded
<1>5. OnlyLock' /\ Sound'
  BY <1>1, SameCommand DEF DInv, OnlyLock, Sound, Whole0, Succeeded
<1>6. Pending' /\ Gone'
  BY <1>1, <1>2 DEF Pending, Gone
<1> QED BY <1>3, <1>4, <1>5, <1>6 DEF DInv

(* A return with a message only. *)
LEMMA Quitting ==
  ASSUME DInv, NEW now \in Working \cup {"options"}, Quits(now)
  PROVE  DInv'
<1>1. /\ stage = now /\ stage' = "exited"
      /\ UNCHANGED <<text, status, invoked, problem, report, outcome, made>>
  BY DEF Quits, Passes, Does, vars
<1>2. problem = "none" /\ outcome = 1 /\ report = "earlier"
  BY <1>1 DEF DInv, Silent
<1>3. Shape' /\ Accepted' /\ Silent' /\ Locked' /\ Dumped' /\ Parsed' /\ Checked' /\ OnlyLock'
  BY <1>1 DEF DInv, Shape, Accepted, Silent, Locked, Dumped, Parsed, Checked, OnlyLock, Compiling, Working, AfterLock, AfterAst
<1>4. Sound'
  BY <1>1 DEF DInv, Sound, Whole0, Succeeded
<1>5. Pending' /\ Gone'
  BY <1>1, <1>2 DEF Pending, Gone, Ended0
<1> QED BY <1>3, <1>4, <1>5 DEF DInv

(* A return by way of the report. *)
LEMMA Reporting ==
  ASSUME DInv, NEW now \in Working, NEW code, NEW what, Reports(now, code, what),
         code \in {0, 1} /\ (code = 1 <=> what # "none"),
         code = 0 => Asked \ {"report"} \subseteq made
  PROVE  DInv'
<1>1. /\ stage = now /\ stage' = "report"
      /\ outcome' = code /\ problem' = what
      /\ UNCHANGED <<text, status, invoked, made, report>>
  BY DEF Reports, vars
<1>2. report = "earlier"
  BY <1>1 DEF DInv, Silent
<1>3. Shape' /\ Silent' /\ Locked' /\ Dumped' /\ Parsed' /\ Checked' /\ OnlyLock'
  BY <1>1 DEF DInv, Shape, Silent, Locked, Dumped, Parsed, Checked, OnlyLock, Compiling, Working, AfterLock, AfterAst
<1>4. Accepted' /\ Sound'
  BY <1>1, SameCommand DEF DInv, Accepted, Sound, Whole0, Succeeded
<1>5. Pending' /\ Gone'
  BY <1>1, <1>2, SameCommand DEF Pending, Gone
<1> QED BY <1>3, <1>4, <1>5 DEF DInv

LEMMA DriverStart ==
  DriverInit => DInv
<1> SUFFICES ASSUME DriverInit PROVE DInv
  OBVIOUS
<1>1. /\ stage = "options" /\ made = {} /\ problem = "none" /\ report = "earlier" /\ outcome = 1
      /\ status = "resolving"
  BY DEF DriverInit, Init
<1> QED
  BY <1>1 DEF DInv, Shape, Accepted, Silent, Locked, Dumped, Parsed, Checked, OnlyLock, Sound, Pending, Gone,
              Compiling, Working, AfterLock, AfterAst, Statuses

(* The stages by name. *)
LEMMA Stages ==
  /\ Compiling = {"sources", "parse", "resolve", "ast", "semantic"}
  /\ AfterLock = {"check lock", "inputs", "runtime", "backend", "sources", "parse", "resolve", "ast", "semantic"}
  /\ Working = {"manifest", "emit lock"} \cup AfterLock
  /\ AfterAst = {"semantic", "runtime", "backend"}
BY DEF Compiling, AfterLock, Working, AfterAst

(* An error, and the return without one. *)
LEMMA Refusing ==
  ASSUME DInv, NEW now \in Working, NEW what, Reports(now, 1, what), what # "none"
  PROVE  DInv'
<1>1. 1 \in {0, 1} /\ (1 = 1 <=> what # "none") /\ (1 = 0 => Asked \ {"report"} \subseteq made)
  OBVIOUS
<1> QED BY <1>1, Reporting

LEMMA Succeeding ==
  ASSUME DInv, NEW now \in Working, Reports(now, 0, "none"), Asked \ {"report"} \subseteq made
  PROVE  DInv'
<1>1. 0 \in {0, 1} /\ (0 = 1 <=> "none" # "none")
  OBVIOUS
<1> QED BY <1>1, Reporting

LEMMA OptionSteps ==
  ASSUME DInv, ShowHelp \/ RejectOptions \/ AcceptOptions
  PROVE  DInv'
<1>1. CASE ShowHelp
  <2>1. /\ stage = "options" /\ stage' = "exited" /\ outcome' = 0 /\ Given("help")
        /\ UNCHANGED <<text, status, invoked, made, problem, report>>
    BY <1>1 DEF ShowHelp, vars
  <2>2. problem = "none" /\ report = "earlier"
    BY <2>1 DEF DInv, Silent
  <2>3. Shape' /\ Accepted' /\ Silent' /\ Locked' /\ Dumped' /\ Parsed' /\ Checked' /\ OnlyLock'
    BY <2>1 DEF DInv, Shape, Accepted, Silent, Locked, Dumped, Parsed, Checked, OnlyLock, Compiling, Working, AfterLock, AfterAst
  <2>4. Sound' /\ Pending' /\ Gone'
    BY <2>1, <2>2, SameCommand DEF DInv, Sound, Whole0, Succeeded, Pending, Gone, Ended0
  <2> QED BY <2>3, <2>4 DEF DInv
<1>2. CASE RejectOptions
  BY <1>2, Quitting, Stages DEF RejectOptions
<1>3. CASE AcceptOptions
  <2>1. Passes("options", "manifest") /\ stage = "options"
    BY <1>3 DEF AcceptOptions, Passes, Does
  <2>2. made \subseteq {"lock"}
    BY <2>1, Stages DEF DInv, OnlyLock
  <2> QED BY <1>3, <2>1, <2>2, Passing, Stages DEF AcceptOptions
<1> QED BY <1>1, <1>2, <1>3

(* A step on when no later claim comes due: up to the sources.             *)
LEMMA EarlyPassing ==
  ASSUME DInv, NEW now \in {"manifest", "emit lock", "check lock"},
         NEW next \in {"emit lock", "check lock", "inputs"}, Passes(now, next),
         next # "emit lock" /\ Given("emit lock") => "lock" \in made
  PROVE  DInv'
<1>1. stage = now /\ made \subseteq {"lock"} /\ ~Given("help") /\ ~Incompatible
  BY Stages DEF Passes, Does, DInv, OnlyLock, Accepted
<1>2. now \in Working /\ next \in Working /\ next \notin Compiling /\ next \notin AfterAst
      /\ next \notin {"parse", "resolve", "ast"} /\ (next \in AfterLock => next # "emit lock")
  BY Stages
<1> QED BY <1>1, <1>2, Passing

LEMMA ManifestSteps ==
  ASSUME DInv, ParseManifest \/ EmitLock \/ CheckLock \/ SkipManifest
  PROVE  DInv'
<1>1. CASE ParseManifest
  <2>1. CASE Reports("manifest", 1, "AYM5001")
    BY <2>1, Refusing, Stages
  <2>2. CASE Passes("manifest", "emit lock")
    BY <2>2, EarlyPassing
  <2> QED BY <1>1, <2>1, <2>2 DEF ParseManifest
<1>2. CASE EmitLock
  <2>1. CASE Reports("emit lock", 1, "AYM5004")
    BY <2>1, Refusing, Stages
  <2>2. CASE Makes("emit lock", "check lock", {"lock"})
    <3>1. /\ stage = "emit lock" /\ stage' = "check lock" /\ made' = made \cup {"lock"}
          /\ UNCHANGED <<text, status, invoked, problem, report, outcome>>
      BY <2>2 DEF Makes, Does, vars
    <3>2. Shape' /\ Accepted' /\ Silent'
      BY <3>1, SameCommand, Stages DEF DInv, Shape, Accepted, Silent
    <3>3. Locked' /\ Dumped' /\ Parsed' /\ Checked' /\ OnlyLock'
      BY <3>1, Stages DEF DInv, Locked, Dumped, Parsed, Checked, OnlyLock, Whole0, Succeeded
    <3>4. Sound' /\ Pending' /\ Gone'
      BY <3>1 DEF DInv, Sound, Pending, Gone, Whole0, Succeeded
    <3> QED BY <3>2, <3>3, <3>4 DEF DInv
  <2> QED BY <1>2, <2>1, <2>2 DEF EmitLock
<1>3. CASE CheckLock
  <2>1. stage = "check lock"
    BY <1>3 DEF CheckLock, Passes, Reports, Does
  <2>2. Given("emit lock") => "lock" \in made
    BY <2>1, Stages DEF DInv, Locked
  <2>3. CASE Passes("check lock", "inputs")
    BY <2>2, <2>3, EarlyPassing
  <2>4. CASE Reports("check lock", 1, "AYM5005")
    BY <2>4, Refusing, Stages
  <2>5. CASE Reports("check lock", 1, "AYM5007")
    BY <2>5, Refusing, Stages
  <2> QED BY <1>3, <2>3, <2>4, <2>5 DEF CheckLock
<1>4. CASE SkipManifest
  <2>1. CASE Passes("manifest", "emit lock")
    BY <2>1, EarlyPassing
  <2>2. CASE ~Given("emit lock") /\ Passes("emit lock", "check lock")
    BY <2>2, EarlyPassing
  <2>3. CASE Passes("check lock", "inputs")
    <3>1. stage = "check lock"
      BY <2>3 DEF Passes, Does
    <3>2. Given("emit lock") => "lock" \in made
      BY <3>1, Stages DEF DInv, Locked
    <3> QED BY <2>3, <3>2, EarlyPassing
  <2> QED BY <1>4, <2>1, <2>2, <2>3 DEF SkipManifest
<1> QED BY <1>1, <1>2, <1>3, <1>4

(* Where the command line parts: nothing to compile, a link, a compilation. *)
LEMMA InputSteps ==
  ASSUME DInv, NothingElse \/ GoOn
  PROVE  DInv'
<1>1. /\ stage = "inputs" /\ made \subseteq {"lock"} /\ ~Given("help") /\ ~Incompatible
      /\ (Given("emit lock") => "lock" \in made)
  BY Stages DEF NothingElse, GoOn, Passes, Reports, Does, DInv, OnlyLock, Accepted, Locked
<1>2. CASE NothingElse
  <2>1. Manifests /\ ~invoked.inputs /\ Reports("inputs", 0, "none")
    BY <1>2 DEF NothingElse
  <2>2. Asked \ {"report"} \subseteq made
    BY <1>1, <2>1 DEF Asked, Compiles
  <2> QED BY <2>1, <2>2, Succeeding, Stages
<1>3. CASE GoOn
  <2>1. CASE Given("link only")
    <3>1. Passes("inputs", "runtime")
      BY <1>3, <2>1 DEF GoOn
    <3>2. ~invoked.inputs
      BY <1>1, <2>1 DEF Incompatible
    <3> QED BY <1>1, <3>1, <3>2, Passing, Stages
  <2>2. CASE ~Given("link only")
    <3>1. Passes("inputs", "sources")
      BY <1>3, <2>2 DEF GoOn
    <3>2. invoked.inputs
      BY <1>1, <1>3, <2>2 DEF Incompatible, GoOn
    <3> QED BY <1>1, <2>2, <3>1, <3>2, Passing, Stages
  <2> QED BY <2>1, <2>2
<1> QED BY <1>2, <1>3

(* What DInv says at the stages of a compilation. *)
LEMMA AtStage ==
  ASSUME DInv, stage \in Compiling \cup AfterAst
  PROVE  /\ ~Given("help") /\ ~Incompatible
         /\ Given("emit lock") => "lock" \in made
         /\ stage \in Compiling => invoked.inputs /\ ~Given("link only")
         /\ stage \in AfterAst /\ invoked.inputs /\ Given("ast") => "ast" \in made
         /\ stage \in {"resolve", "ast"} \/ (stage \in AfterAst /\ invoked.inputs) => Whole0
         /\ stage = "ast" \/ (stage \in AfterAst /\ invoked.inputs) => Succeeded
         /\ stage \notin AfterAst => made \subseteq {"lock"}
         /\ problem = "none" /\ outcome = 1 /\ report = "earlier"
BY Stages DEF DInv, Shape, Accepted, Silent, Locked, Dumped, Parsed, Checked, OnlyLock

LEMMA EntrySteps ==
  ASSUME DInv, LoadSources \/ ParseEntry
  PROVE  DInv'
<1>1. CASE LoadSources
  <2>1. stage = "sources" /\ stage \in Compiling
    BY <1>1, Stages DEF LoadSources, Quits, Passes, Does
  <2>2. CASE Quits("sources")
    BY <2>2, Quitting, Stages
  <2>3. CASE text[Entry] # Absent /\ Passes("sources", "parse")
    BY <2>1, <2>3, AtStage, Passing, Stages
  <2> QED BY <1>1, <2>2, <2>3 DEF LoadSources
<1>2. CASE ParseEntry
  <2>1. stage = "parse" /\ stage \in Compiling /\ text[Entry] # Absent
    BY <1>2, Stages DEF ParseEntry, Quits, Passes, Does, Reports, DInv, Parsed
  <2>2. CASE Quits("parse")
    BY <2>2, Quitting, Stages
  <2>3. CASE Reports("parse", 1, "AYM2001")
    BY <2>3, Refusing, Stages
  <2>4. CASE text[Entry] # Garbled /\ Passes("parse", "resolve")
    <3>1. Whole0
      BY <2>1, <2>4 DEF Whole0
    <3> QED BY <2>1, <2>4, <3>1, AtStage, Passing, Stages
  <2> QED BY <1>2, <2>2, <2>3, <2>4 DEF ParseEntry
<1> QED BY <1>1, <1>2

(* The resolver keeps its texts and has one of its ends. *)
LEMMA ResolverKeeps ==
  ASSUME Resolve, status \in Statuses
  PROVE  UNCHANGED text /\ status' \in Statuses
BY DEF Resolve, Keep, NotFound, AlreadyLoaded, Cyclic, Unparsable, Load, Return, Finish, Fail, Receive, Statuses

LEMMA ResolveSteps ==
  ASSUME DInv, ResolveImports \/ ResolverThrows \/ Resolved
  PROVE  DInv'
<1>0. status \in Statuses
  BY DEF DInv, Shape
<1>1. CASE ResolveImports
  <2>1. /\ stage = "resolve" /\ Resolve
        /\ UNCHANGED <<invoked, stage, made, problem, report, outcome>>
    BY <1>1 DEF ResolveImports, driverVars
  <2>2. UNCHANGED text /\ status' \in Statuses
    BY <1>0, <2>1, ResolverKeeps
  <2>3. made \subseteq {"lock"} /\ stage \in Working
    BY <2>1, Stages DEF DInv, OnlyLock
  <2>4. Shape' /\ Accepted' /\ Silent' /\ Locked' /\ Dumped' /\ Parsed' /\ OnlyLock'
    BY <2>1, <2>2, SameCommand DEF DInv, Shape, Accepted, Silent, Locked, Dumped, Parsed, OnlyLock, Whole0
  <2>5. Checked' /\ Sound' /\ Pending' /\ Gone'
    BY <2>1, <2>3, Stages DEF Checked, Sound, Pending, Gone
  <2> QED BY <2>4, <2>5 DEF DInv
<1>2. CASE ResolverThrows
  BY <1>2, Refusing, Stages DEF ResolverThrows
<1>3. CASE Resolved
  <2>1. stage = "resolve" /\ stage \in Compiling
    BY <1>3, Stages DEF Resolved, Passes, Does, Reports
  <2>2. CASE status = "ok" /\ Passes("resolve", "ast")
    <3>1. Succeeded
      BY <2>2 DEF Succeeded
    <3> QED BY <2>1, <2>2, <3>1, AtStage, Passing, Stages
  <2>3. CASE Reports("resolve", 1, status)
    <3>1. status # "none"
      BY <1>0 DEF Statuses
    <3> QED BY <2>3, <3>1, Refusing, Stages
  <2> QED BY <1>3, <2>2, <2>3 DEF Resolved
<1> QED BY <1>1, <1>2, <1>3

LEMMA ProgramSteps ==
  ASSUME DInv, WriteAst \/ Analyze
  PROVE  DInv'
<1>1. CASE WriteAst
  <2>1. stage = "ast" /\ stage \in Compiling
    BY <1>1, Stages DEF WriteAst, Makes, Quits, Passes, Does
  <2>2. CASE Quits("ast")
    BY <2>2, Quitting, Stages
  <2>3. CASE ~Given("ast") /\ Passes("ast", "semantic")
    BY <2>1, <2>3, AtStage, Passing, Stages
  <2>4. CASE Makes("ast", "semantic", {"ast"})
    <3>1. /\ stage' = "semantic" /\ made' = made \cup {"ast"}
          /\ UNCHANGED <<text, status, invoked, problem, report, outcome>>
      BY <2>4 DEF Makes, Does, vars
    <3>2. Shape' /\ Accepted' /\ Silent'
      BY <2>1, <3>1, SameCommand, Stages DEF DInv, Shape, Accepted, Silent
    <3>3. Locked' /\ Dumped' /\ Parsed' /\ Checked' /\ OnlyLock' /\ Sound'
      BY <2>1, <3>1, AtStage, SameCommand, Stages DEF Locked, Dumped, Parsed, Checked, OnlyLock, Sound, Whole0, Succeeded
    <3>4. Pending' /\ Gone'
      BY <3>1 DEF Pending, Gone
    <3> QED BY <3>2, <3>3, <3>4 DEF DInv
  <2> QED BY <1>1, <2>2, <2>3, <2>4 DEF WriteAst
<1>2. CASE Analyze
  <2>1. stage = "semantic" /\ stage \in Compiling /\ stage \in AfterAst
    BY <1>2, Stages DEF Analyze, Reports, Passes, Does
  <2>2. CASE Reports("semantic", 1, "AYM3001")
    BY <2>2, Refusing, Stages
  <2>3. CASE Given("check") /\ Reports("semantic", 0, "none")
    <3>1. Asked \ {"report"} \subseteq made
      BY <2>1, <2>3, AtStage DEF Asked, Compiles
    <3> QED BY <2>3, <3>1, Succeeding, Stages
  <2>4. CASE Passes("semantic", "runtime")
    BY <2>1, <2>4, AtStage, Passing, Stages
  <2> QED BY <1>2, <2>2, <2>3, <2>4 DEF Analyze
<1> QED BY <1>1, <1>2

LEMMA BackendSteps ==
  ASSUME DInv, FindRuntime \/ RunBackend \/ BackendFails
  PROVE  DInv'
<1>1. CASE Quits("runtime") \/ Quits("backend")
  BY <1>1, Quitting, Stages
<1>2. CASE Passes("runtime", "backend")
  <2>1. stage = "runtime" /\ stage \in AfterAst
    BY <1>2, Stages DEF Passes, Does
  <2> QED BY <1>2, <2>1, AtStage, Passing, Stages
<1>3. CASE RunBackend
  <2>1. /\ stage = "backend" /\ stage' = "report" /\ outcome' = 0
        /\ made' = made \cup {Product} \cup Metrics
        /\ UNCHANGED <<text, status, invoked, problem, report>>
    BY <1>3 DEF RunBackend, vars
  <2>2. stage \in AfterAst /\ stage \in Working
    BY <2>1, Stages
  <2>3. Shape' /\ Silent' /\ Locked' /\ Dumped' /\ Parsed' /\ Checked' /\ OnlyLock'
    BY <2>1, Stages DEF DInv, Shape, Silent, Locked, Dumped, Parsed, Checked, OnlyLock
  <2>4. Accepted' /\ Sound'
    BY <2>1, <2>2, AtStage, SameCommand DEF Accepted, Sound, Whole0, Succeeded
  <2>5. Asked \ {"report"} \subseteq made'
    BY <2>1, <2>2, AtStage DEF Asked
  <2>a. problem' = "none" /\ report' = "earlier"
    BY <2>1, <2>2, AtStage
  <2>b. outcome' \in {0, 1} /\ outcome' # 1
    BY <2>1
  <2>6. problem' = "none" /\ report' = "earlier" /\ outcome' \in {0, 1} /\ outcome' # 1
    BY <2>a, <2>b
  <2>7. Pending' /\ Gone'
    BY <2>1, <2>5, <2>6, SameCommand DEF Pending, Gone
  <2> QED BY <2>3, <2>4, <2>7 DEF DInv
<1> QED BY <1>1, <1>2, <1>3 DEF FindRuntime, BackendFails

LEMMA ReportSteps ==
  ASSUME DInv, WithoutReport \/ WriteReport \/ ReportUnwritable
  PROVE  DInv'
<1>1. /\ stage = "report" /\ stage' = "exited" /\ UNCHANGED <<text, status, invoked, problem>>
      /\ made \subseteq made' /\ made' \subseteq made \cup {"report"}
  BY DEF WithoutReport, WriteReport, ReportUnwritable, Passes, Does, vars
<1>2. Shape' /\ Accepted' /\ Silent' /\ Locked' /\ Dumped' /\ Parsed' /\ Checked' /\ OnlyLock' /\ Pending'
  BY <1>1, Stages DEF DInv, Shape, Accepted, Silent, Locked, Dumped, Parsed, Checked, OnlyLock, Pending
<1>3. Sound'
  BY <1>1, SameCommand DEF DInv, Sound, Whole0, Succeeded
<1>4. /\ report = "earlier" /\ outcome \in {0, 1} /\ (outcome = 1 <=> problem # "none")
      /\ outcome = 0 => Asked \ {"report"} \subseteq made
  BY <1>1 DEF DInv, Pending
<1>5. "report" \in Asked <=> Given("diagnostics")
  BY DEF Asked, Product, Metrics
<1>6. CASE WithoutReport
  <2>1. ~Given("diagnostics") /\ UNCHANGED <<report, outcome, made>>
    BY <1>6 DEF WithoutReport, Passes, Does
  <2>2. Gone'
    BY <1>1, <1>4, <1>5, <2>1, SameCommand DEF Gone, Ended0
  <2> QED BY <1>2, <1>3, <2>2 DEF DInv
<1>7. CASE WriteReport
  <2>1. report' = problem /\ made' = made \cup {"report"} /\ outcome' = outcome
    BY <1>7 DEF WriteReport
  <2>2. Gone'
    BY <1>1, <1>4, <2>1, SameCommand DEF Gone, Ended0
  <2> QED BY <1>2, <1>3, <2>2 DEF DInv
<1>8. CASE ReportUnwritable
  <2>1. report' = "unwritable" /\ outcome' = 1
    BY <1>8 DEF ReportUnwritable
  <2>2. Gone'
    BY <1>1, <2>1 DEF Gone, Ended0
  <2> QED BY <1>2, <1>3, <2>2 DEF DInv
<1> QED BY <1>6, <1>7, <1>8

LEMMA DriverInductive ==
  DInv /\ [DriverNext]_<<vars, driverVars>> => DInv'
<1> SUFFICES ASSUME DInv, [DriverNext]_<<vars, driverVars>> PROVE DInv'
  OBVIOUS
<1>1. CASE ShowHelp \/ RejectOptions \/ AcceptOptions
  BY <1>1, OptionSteps
<1>2. CASE ParseManifest \/ EmitLock \/ CheckLock \/ SkipManifest
  BY <1>2, ManifestSteps
<1>3. CASE NothingElse \/ GoOn
  BY <1>3, InputSteps
<1>4. CASE LoadSources \/ ParseEntry
  BY <1>4, EntrySteps
<1>5. CASE ResolveImports \/ ResolverThrows \/ Resolved
  BY <1>5, ResolveSteps
<1>6. CASE WriteAst \/ Analyze
  BY <1>6, ProgramSteps
<1>7. CASE FindRuntime \/ RunBackend \/ BackendFails
  BY <1>7, BackendSteps
<1>8. CASE WithoutReport \/ WriteReport \/ ReportUnwritable
  BY <1>8, ReportSteps
<1>9. CASE UNCHANGED <<vars, driverVars>>
  <2>1. UNCHANGED <<text, status, invoked, stage, made, problem, report, outcome>>
    BY <1>9 DEF vars, driverVars
  <2>2. Shape' /\ Accepted' /\ Silent' /\ Locked' /\ Dumped' /\ Parsed' /\ Checked' /\ OnlyLock'
    BY <2>1, SameCommand DEF DInv, Shape, Accepted, Silent, Locked, Dumped, Parsed, Checked, OnlyLock, Whole0, Succeeded
  <2>3. Sound' /\ Pending' /\ Gone'
    BY <2>1, SameCommand DEF DInv, Sound, Pending, Gone, Ended0, Whole0, Succeeded
  <2> QED BY <2>2, <2>3 DEF DInv
<1> QED BY <1>1, <1>2, <1>3, <1>4, <1>5, <1>6, <1>7, <1>8, <1>9 DEF DriverNext, Invocation, Exited

(* For every command line, program and failure on the way: an exit code of *)
(* 0 means that all that was asked for has been made, a diagnosed error is *)
(* in the report, and nothing is made of a program that does not resolve.  *)
THEOREM Honest ==
  DriverSpec => []ExitIsHonest
<1>1. DInv => ExitIsHonest
  BY DEF DInv, Gone, Sound, Whole0, Ended0, ExitIsHonest
<1> QED BY <1>1, DriverStart, DriverInductive, PTL DEF DriverSpec

(* The driver takes the resolver's steps or leaves it alone. *)
LEMMA ResolverInDriver ==
  /\ DriverInit => Init
  /\ [DriverNext]_<<vars, driverVars>> => [Next]_vars
<1>1. DriverInit => Init
  BY DEF DriverInit
<1>2. [DriverNext]_<<vars, driverVars>> => [Next]_vars
  BY DEF DriverNext, Invocation, ResolveImports, Next, ShowHelp, RejectOptions, AcceptOptions, ParseManifest, EmitLock,
         CheckLock, SkipManifest, NothingElse, GoOn, LoadSources, ParseEntry, ResolverThrows, Resolved, WriteAst, Analyze,
         FindRuntime, RunBackend, BackendFails, WithoutReport, WriteReport, ReportUnwritable, Exited,
         Passes, Quits, Makes, Does, Reports
<1> QED BY <1>1, <1>2

(* The resolver inside of the driver is bounded as it is alone. *)
THEOREM BoundedInDriver ==
  DriverSpec => []RecursionBounded
<1>1. IInv => RecursionBounded
  BY Depth DEF IInv, LoadOK, Above, RecursionBounded
<1> QED BY <1>1, ResolverInDriver, Start, Inductive, PTL DEF DriverSpec

(* What the driver hands on to the analyzer is merged once, in the order   *)
(* of the imports, whole and without a cycle.                              *)
THEOREM ResolvesInDriver ==
  DriverSpec => [](MergedOnce /\ CycleReported /\ ImportsFirst /\ NothingLost)
BY ResolverInDriver, Start, Inductive, MergingStart, MergingInductive,
   OnceMeans, CycleMeans, OrderMeans, CompleteMeans, PTL DEF DriverSpec
=============================================================================
