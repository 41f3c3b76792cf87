--------------------------- MODULE CompilerDriver ---------------------------
(***************************************************************************)
(* One invocation of aymc (compiler/main.cpp, compiler/utils/driver.cpp):  *)
(* its options, the stages they ask for, the files these make and the exit *)
(* code.  The imports are resolved by ModuleResolver; what the backend     *)
(* does inside is NativePipeline.  All the files have names of their own,  *)
(* and those that are read together count as the one entry.                *)
(***************************************************************************)
EXTENDS ModuleResolver

CONSTANT CommandLines   \* what aymc is called with

ManifestWords == {"check manifest", "emit lock", "check lock"}
Words ==
  ManifestWords \cup
  {"help", "malformed", "show", "check", "compile only", "link only", "time", "metrics", "ast", "diagnostics"}

(* `show` stands for --debug and --dump-ast; `malformed` for an unknown    *)
(* option or one without its value, `help` and `malformed` for the first   *)
(* of the two.                                                             *)
CommandLine == [words : SUBSET Words, inputs : BOOLEAN, output : BOOLEAN, backend : {"native", "ir", "other"}]

ASSUME CommandLinesAssumption == CommandLines \subseteq CommandLine

VARIABLES
  invoked,
  stage,
  made,       \* the files this invocation has made
  problem,    \* the error in the DiagnosticEngine, or "none"
  report,     \* what the diagnostics file says
  outcome     \* the exit code, from when it is known

driverVars == <<invoked, stage, made, problem, report, outcome>>

Given(word) == word \in invoked.words
Manifests == invoked.words \cap ManifestWords # {}

(* The checks at the end of parseCompileOptions. *)
Incompatible ==
  \/ invoked.backend = "other"
  \/ Given("compile only") /\ Given("link only")
  \/ Given("check") /\ (Given("compile only") \/ Given("link only") \/ Given("time") \/ Given("metrics"))
  \/ Given("link only") /\ (invoked.inputs \/ ~invoked.output \/ Given("show") \/ Given("ast"))
  \/ ~invoked.inputs /\ ~Manifests /\ ~Given("link only")
-----------------------------------------------------------------------------
DriverInit ==
  /\ Init
  /\ invoked \in CommandLines
  /\ stage = "options" /\ made = {} /\ problem = "none"
  /\ report = "earlier" /\ outcome = 1

Does(now, next) ==
  /\ stage = now /\ stage' = next
  /\ UNCHANGED <<vars, invoked, problem, report, outcome>>
Passes(now, next) == Does(now, next) /\ UNCHANGED made
Makes(now, next, files) == Does(now, next) /\ made' = made \cup files

(* return 1 with nothing but a message. *)
Quits(now) == Passes(now, "exited")

(* return after emitDiagnosticsIfRequested. *)
Reports(now, code, what) ==
  /\ stage = now /\ stage' = "report"
  /\ outcome' = code /\ problem' = what
  /\ UNCHANGED <<vars, invoked, made, report>>

ShowHelp ==
  /\ stage = "options" /\ Given("help")
  /\ stage' = "exited" /\ outcome' = 0
  /\ UNCHANGED <<vars, invoked, made, problem, report>>
RejectOptions == ~Given("help") /\ (Given("malformed") \/ Incompatible) /\ Quits("options")
AcceptOptions ==
  /\ ~Given("help") /\ ~Given("malformed") /\ ~Incompatible
  /\ Passes("options", "manifest")

(* --check-manifest, --emit-lock and --check-lock. *)
LoadsManifest == Given("check manifest") \/ Given("emit lock")
ParseManifest == LoadsManifest /\ (Passes("manifest", "emit lock") \/ Reports("manifest", 1, "AYM5001"))
EmitLock ==
  /\ Given("emit lock")
  /\ Makes("emit lock", "check lock", {"lock"}) \/ Reports("emit lock", 1, "AYM5004")
CheckLock ==
  /\ Given("check lock")
  /\ \/ Passes("check lock", "inputs")
     \/ Reports("check lock", 1, "AYM5005")
     \/ LoadsManifest /\ Reports("check lock", 1, "AYM5007")
SkipManifest ==
  \/ ~LoadsManifest /\ Passes("manifest", "emit lock")
  \/ ~Given("emit lock") /\ Passes("emit lock", "check lock")
  \/ ~Given("check lock") /\ Passes("check lock", "inputs")

(* Mutant: the command ends here whatever else it asks for. *)
NothingElseEver == Manifests /\ Reports("inputs", 0, "none")

NothingElse == Manifests /\ ~invoked.inputs /\ Reports("inputs", 0, "none")
GoOn ==
  /\ ~(Manifests /\ ~invoked.inputs)
  /\ Passes("inputs", IF Given("link only") THEN "runtime" ELSE "sources")

LoadSources ==
  \/ text[Entry] = Absent /\ Quits("sources")
  \/ text[Entry] # Absent /\ Passes("sources", "parse")

(* An error of the lexer is an exception, and so is, in the parser, a      *)
(* number too large for a long long.  In the entry only the end of main    *)
(* catches them.  In a module parseModule catches those of the lexer, and  *)
(* the other passes through the resolver.                                  *)
ParseEntry ==
  \/ text[Entry] = Garbled /\ (Reports("parse", 1, "AYM2001") \/ Quits("parse"))
  \/ text[Entry] # Garbled /\ Passes("parse", "resolve")

ResolveImports == stage = "resolve" /\ Resolve /\ UNCHANGED driverVars
ResolverThrows ==
  /\ Importing /\ text[Node.file] = Garbled /\ Node.file \notin loaded \cup loading
  /\ Reports("resolve", 1, "AYM4001")
Resolved ==
  \/ status = "ok" /\ Passes("resolve", "ast")
  \/ ~Resolving /\ status # "ok" /\ Reports("resolve", 1, status)

WriteAst ==
  \/ Given("ast") /\ (Makes("ast", "semantic", {"ast"}) \/ Quits("ast"))
  \/ ~Given("ast") /\ Passes("ast", "semantic")

Analyze ==
  \/ Reports("semantic", 1, "AYM3001")
  \/ Given("check") /\ Reports("semantic", 0, "none")
  \/ ~Given("check") /\ Passes("semantic", "runtime")

NeedsRuntime == invoked.backend = "native" /\ ~Given("compile only")
FindRuntime == Passes("runtime", "backend") \/ (NeedsRuntime /\ Quits("runtime"))

(* runBackendCompile. *)
Product ==
  CASE invoked.backend = "ir" -> "ir"
    [] invoked.backend # "ir" /\ Given("compile only") -> "object"
    [] invoked.backend # "ir" /\ ~Given("compile only") -> "executable"
Metrics == IF Given("metrics") THEN {"metrics"} ELSE {}
RunBackend ==
  /\ ~(invoked.backend = "ir" /\ Given("link only"))
  /\ stage = "backend" /\ stage' = "report" /\ outcome' = 0
  /\ made' = made \cup {Product} \cup Metrics
  /\ UNCHANGED <<vars, invoked, problem, report>>
BackendFails == Quits("backend")

(* emitDiagnosticsIfRequested. *)
WithoutReport == ~Given("diagnostics") /\ Passes("report", "exited")
WriteReport ==
  /\ Given("diagnostics") /\ stage = "report"
  /\ stage' = "exited" /\ report' = problem /\ made' = made \cup {"report"}
  /\ UNCHANGED <<vars, invoked, problem, outcome>>
ReportUnwritable ==
  /\ Given("diagnostics") /\ stage = "report"
  /\ stage' = "exited" /\ report' = "unwritable" /\ outcome' = 1
  /\ UNCHANGED <<vars, invoked, made, problem>>

Exited == stage = "exited" /\ UNCHANGED <<vars, driverVars>>

Invocation ==
  \/ ShowHelp \/ RejectOptions \/ AcceptOptions
  \/ ParseManifest \/ EmitLock \/ CheckLock \/ SkipManifest \/ NothingElse \/ GoOn
  \/ LoadSources \/ ParseEntry \/ ResolverThrows \/ Resolved
  \/ WriteAst \/ Analyze \/ FindRuntime \/ RunBackend \/ BackendFails
  \/ WithoutReport \/ WriteReport \/ ReportUnwritable

DriverNext == Invocation \/ ResolveImports \/ Exited

DriverSpec == DriverInit /\ [][DriverNext]_<<vars, driverVars>> /\ WF_<<vars, driverVars>>(DriverNext)
-----------------------------------------------------------------------------
(* What a command line asks for.  --link-only next to one of the manifest  *)
(* options is accepted, and the link is not made.                          *)
Compiles == (invoked.inputs \/ (Given("link only") /\ ~Manifests)) /\ ~Given("check")
Asked ==
  {word \in {"ast"} : Given(word) /\ invoked.inputs}
    \cup {file \in {"lock"} : Given("emit lock")}
    \cup {file \in {"report"} : Given("diagnostics")}
    \cup (IF Compiles THEN {Product} \cup Metrics ELSE {})

(* An exit code of 0 means that all that was asked for has been made by    *)
(* this invocation, and that its report, where one is wanted, tells of no  *)
(* error.  An error that was diagnosed is what the report of a failed      *)
(* invocation says, unless it could not be written: never an earlier one.  *)
(* And nothing is made of a program that does not parse or resolve.        *)
Ended0 == stage = "exited" /\ outcome = 0 /\ ~Given("help")
ExitIsHonest ==
  /\ Ended0 => Asked \subseteq made /\ (Given("diagnostics") => report = "none")
  /\ stage = "exited" /\ outcome = 1 => report # "none"
  /\ stage = "exited" /\ problem # "none" => outcome = 1 /\ (Given("diagnostics") => report \in {problem, "unwritable"})
  /\ invoked.inputs /\ made \ {"lock", "report"} # {} => Succeeded /\ text[Entry] \notin {Absent, Garbled}

(* Every invocation ends, those of programs with cyclic imports included.  *)
Exits == <>(stage = "exited")
=============================================================================
