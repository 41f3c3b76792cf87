# AymaraLang in TLA+

Specifications of the parts of AymaraLang (the compiler `aymc`, its C runtime and
the project tool `aym`) whose correctness depends on an order of steps rather than
on one computation: exceptions in compiled programs, the code of expressions, the
runtime's collections, window and terminal, the files `aym` and `aymc` share, versions
and imports, the stages of `aymc` and the tools it runs to make an executable. Each part is a TLA+ module
written from the source, checked by TLC on small instances; the invariants that matter most are
proved with TLAPS for every instance. Paths below are relative to the repository.

To check a run, `tlc -config ExcStructured.cfg MCExceptions.tla` and so on (`PROJECT.json`
names the module of each configuration); to check the proofs, `tlapm` on each of the modules
`*Proofs.tla` (`ExceptionsProofs.tla` and `RuntimeProofs.tla` take ten minutes or more, some of the others a few).

## 1. The system

### Components

| Component | State it keeps | Operations | What makes it correct |
|---|---|---|---|
| Exceptions: `runtime/runtime_exceptions.c`, `compiler/codegen/codegen_stmt_exception.cpp` | `current_handler` and the `AymHandler` records linked by `prev`; at compile time the stacks `finallyStack`, `catchStack`; at run time one slot per `yant'aña` and return addresses of `tukuyawi` subroutines | `aym_try_push/env/pop`, `aym_throw`, `aym_exception_free`; the code emitted for `yant'aña`, `katjaña`, `tukuyawi`, `pantja` | an exception reaches the innermost `yant'aña`; every `tukuyawi` runs once; no released or dead handler is used |
| Control flow: `codegen_stmt_control.cpp`, `codegen_function.cpp` | label stacks, `loopFinallyDepth`, frames | loops, `khiti`, `break`, `continue`, `return`, calls | exits run exactly the `tukuyawi` blocks they leave, innermost first |
| Module resolver: `compiler/utils/module_resolver*.cpp` | `loadedModules`, `loadingModules`, the node lists being merged, manifest and lock it reads | `resolve`, `load`, `findModulePath`, `findPackageModulePath`, `parseModule` | ends; merges each module once and before its users; reports exactly the cycles; takes packages from the locked version |
| Manifest and lock: `compiler/utils/project_manifest.cpp` | `aym.toml`, `aym.lock` | parse, write, verify | a lock that verifies is the whole lock of that manifest |
| Project tool: `tools/aym/main.cpp`, `compiler/utils/project_tool.cpp` | the two files, `.aym/repo`, `.aym/cache` | `new`, `build`, `run`, `test`, `lock`, `cache`, `add` | success means the files agree; sync mends; builds use whole packages; `--frozen` writes nothing |
| Process runner: `compiler/utils/process.cpp` | child, pipes or capture files, deadline | run with timeout and captured output | a result belongs to the child; no child or temporary file stays behind |
| Semantic versions: `compiler/utils/semver.cpp` | comparators, candidate | parse, compare, infer | the least version that meets the requirement, or none when there is none |
| Compiler driver: `compiler/main.cpp`, `driver.cpp` | options, stage reached, files written, diagnostics | the stages of `aymc` | exit code 0 only if everything asked for was produced; the report is of this invocation |
| Native pipeline: `codegen_emit_sections.cpp`, `backend/` | `.asm`, `.o`, executable, runtime objects | assemble, compile the runtime, link | success means an executable of this source and of the present runtime |
| Runtime collections: `runtime_arrays.c`, `runtime_maps_strings.c` | arrays and maps: length, capacity, entries | push, pop, remove, sort, unique, free, `map`/`filter`/`reduce`; set, get, delete, keys | lengths stay within blocks; failed growth changes nothing; they behave as sequences and dictionaries |
| Runtime strings and numbers: `runtime_maps_strings.c`, `math.c` | none | trim, split, join, replace, conversions | equal to their definitions at every boundary; the pass that sizes a block agrees with the one that fills it |
| Runtime I/O: `runtime.c`, `runtime_gfx_linux.c` | terminal mode, key state, graphics session | init, restore, poll; open, draw, present, keys, close; files | the terminal is restored, keys are told once; a window gives everything back, shows what was drawn |
| Expression code: `codegen_expr*.cpp`, `codegen_call_args.cpp`, `codegen_class.cpp` | registers and stack of the running program | the code of each kind of expression | it computes the value of the expression, with the stack aligned at calls |
| Semantic analysis, parser, lexer, AST dump | scopes and tables within one pass | one pass each | accept what the language defines |

### How they interact

`aym` never compiles by itself: it starts `aymc` as a child process, once with
`--check-manifest --emit-lock`, once with `--check-manifest --check-lock`, and once
for each source. The three and any other `aym` share nothing but files: manifest,
lock, local repository and cache. No process takes a lock of any kind, and no file is
written by rename: an `ofstream` truncates when it opens and writes when it closes. The
compiler reads manifest and lock again, during import, at a moment of its own.

Inside `aymc` everything is a call: driver, lexer, parser, resolver, semantic
analysis, code generator, assembler and linker as children. The generator decides
with stacks at compile time what the program does to the handler chain at run time;
runtime and emitted code meet in `setjmp`, `longjmp` and four functions. Everything else the
program asks of the runtime is a C call with arguments in registers; the runtime calls back into the
program in the functions given to `map`, `filter` and `reduce`, and by throwing.

### What is hard

* **Exceptions.** A `tukuyawi` is a subroutine reached in five ways: end of body,
  end of `katjaña`, an unmatched exception, an exit (`break`, `continue`, `return`) and
  a `pantja` inside a `katjaña`. Each way is emitted at another place in the generator and
  relies on stacks kept by others. Errors raised in the C runtime use none of it.
* **Project files.** Any command can be killed, or meet another command or an
  editor, between any two file accesses. An unresolvable requirement stops the lock
  writer in the middle of a file that its destructor still flushes.
* **Native pipeline.** All `aymc` of a machine share one cache of runtime objects, written by
  child processes that can hang, fail, be killed or outlive their parent; time stamps decide
  what is compiled again.
* **Expressions.** The emitter works without a register allocator: what is half made waits in
  `rbx`, `r12`, `r14` or on the stack while a nested expression is emitted over it.
* **Collections.** Functions of the program run in the middle of a traversal; any
  allocation may fail, a map's growth in three parts.
* **Terminal and window.** A user types, leaves and closes at any moment; events are seen only when a call pumps them.
* **Driver.** Some thirty returns, each after other files have been written, and a report that an earlier invocation left.
* **Imports.** Diamonds, cycles, an entry that is imported as a module, and
  selective imports of a module that is already loaded.

Every hazard, with its line and the properties aimed at it, is in `PROJECT.json`.

## 2. Modules and how they correspond to the code

`PROJECT.json` maps each definition to the lines it stands for.

| Module | Models |
|---|---|
| `HandlerChain` | `runtime_exceptions.c`: the heap of handlers with their addresses, which `free` gives back and `calloc` may hand out again; `held` (their `exception` field) and `current`; one action per function |
| `EmittedCode` | the programs of interest and the compile-time decisions of the generator: which `tukuyawi` labels an exit or a `pantja` calls (`LoopFinallys`, `ReturnFinallys`, `ThrowFinallys`), what the semantic analysis accepts |
| `Disciplines` | the rules a program may keep for what the language promises of `yant'aña` to hold of its code: `Structured`, the rules of a run, and `Disciplined`, those of the proofs; models no code of its own |
| `Exceptions` | the compiled program running: position, work in progress, frames and return addresses, slots; drives the actions of `HandlerChain` the way the emitted code does |
| `TrySemantics` | what the language promises of `yant'aña` (`docs/exceptions.md`), with no handler or stack: the abstract specification |
| `MCExceptions` | families of all small programs, one family per question |
| `ExceptionsProofs` | proofs about `HandlerChain`, `EmittedCode` and `Exceptions` |
| `ProjectFiles` | what `aym.toml` and `aym.lock` can hold, `Verifies`, what is in a file after a write that may be cut, clash or stop half-way |
| `AymTool` | the commands of `aym` as sequences of file accesses, one action per access, any number of processes, kills and edits; the package search of the compiler |
| `AymToolPlans` | for the proofs about `AymTool`: what an undisturbed command knows at each stage of its plan, what a stage gives, spoils and needs; models no code of its own |
| `MCAymTool`, `AymToolProofs` | instances of `AymTool`, and proofs about it |
| `Semver` | `parseSemverRequirement` and the two loops of `inferResolvedVersion`, one action per case of a round |
| `MCProject`, `SemverProofs` | the tool with versions as `semver.cpp` infers them, next to all small requirements; proofs about `Semver` |
| `Ascending`, `AscendingProofs` | what a loop over a list takes of it, in order; the lemmas about such loops, finite sets in order and first elements of sequences, among them induction on naturals |
| `ModuleResolver` | `resolve` and `load`: the recursion as a stack of frames, one per list of nodes being resolved |
| `MCModuleResolver`, `ModuleResolverProofs` | all small programs of three files, and proofs |
| `CompilerDriver` | one invocation of `aymc`: options, stages, files, report, exit code; EXTENDS `ModuleResolver`, whose actions are one of its stages |
| `MCCompiler`, `CompilerDriverProofs` | all small programs, and command lines of up to three options; proofs |
| `NativePipeline` | `assembleAndLinkOutput` and `runProcessCommand`: stages, cache of runtime objects, children with a timeout, capture files; nasm and gcc are external |
| `MCNativePipeline`, `NativePipelineProofs` | an instance with two compilers, and proofs |
| `CollectionsSpec` | what a program may rely on of lists and maps: sequences and dictionaries, the abstract specification |
| `Collections` | `runtime_arrays.c`, the maps of `runtime_maps_strings.c` and the higher-order functions of `runtime.c`, with blocks, capacities and failing allocations |
| `ExpressionCode` | the instructions emitted for expressions, a machine that runs them, and the value an expression has |
| `Graphics` | `aym_gfx_*` on Windows (`runtime.c`) and Linux (`runtime_gfx_linux.c`), and the user in front of the window |
| `Terminal` | the terminal's mode and `tecla`, and the user who types |
| `Texts` | the calls on texts and the conversions, as operators |
| `MCRuntime`, `RuntimeProofs` | the five modules above side by side, where a behaviour is one of one of them; proofs about `Collections`, `Graphics` and `Terminal` |

**Exceptions.** A program is a sequence of statements in text order, each saying in
which block it stands; any statement may be skipped at run time, so conditions need no
values. `Exceptions` is nearly an interpreter of the emitted code: `TryStart` pushes a handler and
stores it in the slot, `EndTryBody` pops it, `AtCatchLabel` is the code after `setjmp`
returns for the second time, `CallFinally` and the return of a `tukuyawi` use the
machine stack. A `longjmp` drops frames; whether the target frame is alive is
`Jumpable`. A handler is named by its place in the order of allocation, but whoever holds a pointer holds an address, and what it leads to is the
newest record at that address (`At`): a pointer that outlives its record leads to another one once `calloc` has reused the memory. Uses that C leaves undefined (a released handler, a dead frame, a
foreign return address) put the machine in the status `undefined`, from which nothing
goes on. A call is modelled together with the function it calls. Left out: the
values of expressions, texts of exceptions, names of catch variables, out of memory.

**Project files.** `Plan(c)` is the sequence of file accesses of command `c`; an action
takes the head of a process's plan, so any two commands interleave at every access.
A manifest is the table of the dependencies in force, whether it still has its `[package]`
(a file cut short has not, and does not parse), and the names that a later line, or a second `[dependencies]`, gives
again (`later`): the parser keeps the last line of a name, `add` edits the first. A lock is absent, empty, garbled, or written, with the table its checksum
is of and the entries it holds: fewer than the table when the writer stopped half-way, more when the tail of
another text shows behind it. Copying a
package into the cache is five steps, so a kill leaves directories without modules
(`dirs`) or a module cut short (`torn`). The edition of a package in the
repository is a number that the user's edits increase. `quiet` is a history variable: nobody
else has written since the command began. The checksum of the code (FNV-1a over the
table) is taken as injective.

**Versions.** A requirement is what stands between its commas: a prefix and numbers. `at` is the loop index,
`candidate` and `hasCandidate` are the variables of that name. `MaxPart` is `INT_MAX`, at which increments
saturate. The versions the tool uses in `MCProject` are those its three requirements mean, which TLC verifies
(`ResolvedAsMeant`) and which by `InfersLeast` are what the code infers.

**Driver.** `stage` is the place in `main`; every `return` is an action that goes to `exited` or, where
the code calls `emitDiagnosticsIfRequested` first, to `report`. `report` is what the diagnostics file says: `earlier` until it is
written. Whether manifest, lock, semantic analysis and backend succeed is open; the
entry and the modules are `ModuleResolver`'s texts, and a module that does not parse may also stop the resolver with
an exception: `parseModule` catches those of the lexer, but not the one of a number that does not fit (`parser_expr_primary.cpp:17`). The output paths are taken as different from each other.

**Collections.** A list is a record of `len`, `cap` and cells, of which those never written hold `Junk`. An
operation is an action with its outcomes: done, thrown, no memory (counted in `outages`). A higher-order
call is a frame in `calls`: between its rounds the program runs, calls anything, throws past it or returns. A map's growth that fails leaves
`freed` blocks; using them, or a freed list, sets `undefined`, where nothing is promised. Texts are values like others.

**Expression code.** `Emit` returns the instructions of an expression as the emitter writes them, over `Place` for
variables and `EmitCallArgs` for arguments. The machine has the registers the emitter uses, a stack of cells of
eight bytes, code addresses and a heap; the runtime leaves anything in the registers a C function may change. `Eval` is the
meaning of the expression. Three functions and a class are part of every program.

**Graphics and terminal.** `win` holds the variables of the runtime and what it has been given (`has`);
`world` the user: keys held, events not yet pumped. A key that is held repeats, on X11 as pairs of a release and a press. `past.owed` is the
history of the presses the program has not asked for yet, those that a loss of the focus has taken included. A call pumps events where the code does. Every call of the window system that the
code checks may fail. The canvas is a row of cells, painted in order. The terminal sends the bytes of a
key one by one; a `read` that does not wait may come between two of them.

**Imports.** A name in an import stands for the file `findModulePath` finds for it;
files hold declarations, other statements and imports (whole, selective, aliased), or
are absent, or do not parse. A merged node carries where it comes from and its present name.

**Native pipeline.** `Plan(mode)` is the sequence of stages; a stage is skipped (`CacheHit`), fails,
or starts a child and waits for it. A file is absent, torn or whole, and holds the set of things it is made of: the
program of one invocation, editions of runtime sources; so an executable holds what its
inputs held. A child opens its output, and later completes it or fails; when it is
killed it may go on as an orphan, as the children of gcc do. `quiet` tells whether
someone else has written this output since the invocation began, `sound` whether every change of
the runtime can be seen in the time stamps (the ones of the three sources that `runtime.c`
includes cannot, nor one made while gcc reads). The assembler text is written in one step:
whoever assembles a text has written it, so a text cut short by a kill is never read. The
poll loop is one state: a child that ends between `waitpid` and the deadline is
killed or reaped, as chance has it.

## 3. Runs

| Run | Question | Result |
|---|---|---|
| `ExcStructured` | do programs whose exceptions cross at most one pending `katjaña`, and whose exits leave only `katjaña` blocks, and programs without exceptions whose exits leave any block but a `tukuyawi`, do what the language says? | holds: chain mirrors nesting, `tukuyawi` exactly once, refinement of `TrySemantics`, every exception lands |
| `ExcAny` | what holds of every program the compiler accepts? | the types; and no released handler is used, however addresses are reused, unless an exit leaves a body or a `tukuyawi` |
| `ExcErrorInCatch`, `ExcNestedPantja`, `ExcKhiti`, `ExcReturn` | the four restrictions above, dropped one at a time | each is violated, see "Findings" |
| `tool_alone` | one user, any two commands in sequence, a kill at any access, an edit at any moment | holds: success means locked, sync mends, whole packages, doctor, add; every small requirement gets the least version that meets it |
| `tool_shared` | two commands at once | a lock that verifies is whole; frozen keeps the project |
| `modules` | every program of three small files, and command lines of up to three options on a few of them, any stage failing | holds: imports are merged once, in order; every invocation ends and its exit code is honest |
| `pipeline` | two `aymc` with a shared cache, tools that hang or outlive them, kills, a change of the runtime | holds: success is fresh and complete, nothing is left behind, a timeout ends |
| `runtime` | sequences of calls on lists and maps, programs with nested expressions on two platforms, graphics sessions, terminals, calls on texts | holds: see the properties of the five modules |
| `modules_symbols` | is AYM4005 about symbols that are missing? | violated, see "Findings" |

### Bounds, and why they are enough

* Exceptions: four statements (five without exceptions, and six in the programs of `ExitsOutOfTwo`) and at most
  `MaxTries` entries into a `yant'aña`, loops included: four, and three in `ExcStructured`, where each
  entry may also get the address of any handler released before; a handler that is released, one that takes its address and one that is still linked are three. Three constructs meet in every known defect (an exit,
  a `yant'aña` around it, something around that); four statements put every part of one
  `yant'aña` inside every part of another and leave two for what happens there. `ExitsOutOfTwo` is an exit out of a `katjaña`
  that stands in another one, both reached by runtime errors: the proof of the refinement found it, see section 4. `ExcAny` uses
  typed handlers only: a catch-all adds no way to push, pop or jump.
* Tool: two dependencies, two versions and an unresolvable requirement, two commands
  (the second meets every state the first, killed anywhere, can leave) and one edit. With two
  processes: one dependency, two commands, and those commands that meet at
  a shared file, and `lock check`, which has to see what they leave half done. `CHECK_DEADLOCK FALSE`: when the commands allowed have been run, nothing is left to do.
  A name gets a second line in `aym.toml` from the editor only: dependency 1 in `tool_alone`, none in `tool_shared`. Dependency 2 is not added with `^2.0.0`. `Procs` is a symmetry set in `tool_shared`, where no liveness is checked.
* Modules: an entry with up to two imports and two modules of up to two nodes, absent
  and garbled files among them: diamonds, cycles of length one, two and three,
  the entry imported, selective imports of both kinds. The texts are constants of a behaviour,
  so more files add programs, not steps between the same ones. Both modules range over the same
  texts, so of a program and its mirror image (2 and 3 exchanged) only the one whose entry imports 2 first is run. Options act on disjoint stages but for the pairs
  `parseCompileOptions` refuses; three of them at once show every pair next to a third. The full set of texts is
  run with a plain command line only, and all command lines with four texts: the driver looks at whether the entry is there,
  parses and resolves, and at nothing else of it.
* Versions: numbers up to 3, so that 3 is the limit; ten versions that lie at and around the borders, each
  with eight prefixes, alone and in pairs; threes of fewer. A comparator meets the candidate and its own bounds, never two others
  at once, and the theorem removes the bound.
* Runtime: five calls on two lists and a map, with one failing allocation and one higher-order call (a nested one is on another
  list, or meets the same changes as any other call of its function); capacities 0 to 4 need five pushes. Programs: two levels of
  expressions inside a statement, which is where one part's register meets another's. Graphics: three acts of the user, two
  openings; the third act of a user can only repeat the state two have led to. Three keys typed. Texts of up
  to four letters (five for `replace`), separators of up to two: overlaps, and matches at both ends.
  `CHECK_DEADLOCK FALSE`: a program that has ended, or used its calls, stops.
* Pipeline: one runtime unit (units are compiled one after the other, each by the same code), one that
  includes other sources; two invocations, one compiling or linking `app` with a timeout, the other
  compiling `game` or, to an object only, `app`, without one; one change of the runtime. Two invocations meet every torn or stale
  object the other can leave. `CHECK_DEADLOCK FALSE`: it ends when both have run.

### Fairness

`ExcStructured` uses `FairSpec`, weak fairness of `Next`: the processor goes on
executing the program. Nothing is assumed of which branch a program takes, so a loop may run
until the bound; `EveryThrowLands` speaks of the time an exception is in flight, in which the code takes no branch
of the program's. `modules` assumes the same of the compiler: weak fairness of `DriverNext`, one thread that waits
for nobody, since the backend's children have `pipeline` to themselves; `Exits` is checked with it. `pipeline` assumes that each `aymc` goes on when it can and that time passes; nothing of the tools,
so `TimeoutEnds` rests on the kill alone. `AymTool` has no fairness and no liveness: any command may be killed, and the code promises
no progress to two commands that disturb each other.

### Findings

Each is a run that TLC ends with a counterexample, and an entry with quotes in `PROJECT.json`.

1. `ExcErrorInCatch`: a runtime error in a `katjaña` leaves without its `tukuyawi`.
2. `ExcNestedPantja`: a `pantja` that an inner `yant'aña` will catch runs the `tukuyawi` of the outer one first.
3. `ExcKhiti`: the `break` the parser appends to a `kuna` runs the `tukuyawi` of the `yant'aña` around the `khiti`.
4. `ExcReturn`: `return` (and `break`, `continue`) out of a body leave its handler registered; a later `pantja` jumps into a dead frame.
5. `modules_symbols`: a second, selective import of a loaded module reports its symbols as missing.

Seen while modelling, the code of expressions first. The emitter holds what is half made in a
register that the code inside of it may write, so `[a + b, c]` and `[[1], [2]]` store into the
wrong object (`codegen_expr.cpp:23-36`), and so do maps, `a[i][j]`, objects made while others are
made, calls of methods and assignments to elements; arguments that do not fit into
registers are dropped (the fifth on Windows, the seventh, the blue of `uja_suyu`, on Linux).
`RightWhenDisciplined` therefore speaks of programs in which no part writes the register held for it (`Disciplined`).
A map whose growth fails half-way points to freed blocks (`runtime_maps_strings.c:47`); after that `KeepsPromise` promises nothing.
`LeftAsFound` excepts a Windows window that was opened again after the user closed it without `aym_gfx_close` (the bitmap leaks, the console stays hidden)
and an `XCreateImage` that fails (the pixels leak); `ShowsWhatWasDrawn` a rectangle drawn over a text on Linux, where texts are painted
when the frame is shown; `KeysFollow` keys held while shift or the focus changes, and presses the program had not asked for when the window lost the focus, which
drops them (`runtime_gfx_linux.c:227-229`, `runtime.c:442-445`). `O_NONBLOCK` is never taken back, and `tecla` loses bytes of an escape sequence that
arrives in parts, or the keys behind a lone escape. Versions at `INT_MAX` have bounds that are their own: `>1.2.2147483647` finds nothing although `1.3.0` would do.
`--link-only` next to `--check-manifest` ends with 0 and links nothing. Wrong options, an input that is not there, an error of the lexer
or a number too large in the entry, an AST file that cannot be written, a missing runtime and a failing backend leave the diagnostics file as an earlier invocation left
it: `ExitIsHonest` says only that the report of a diagnosed error is of this invocation.

Also seen, and stated by no document, so not a finding: two `add` at once
lose one entry, and `add` killed between truncation and write leaves an empty manifest;
`add` of a requirement that cannot be resolved fails but has changed `aym.toml`;
`add` of a name that `aym.toml` gives twice, or only in a second `[dependencies]`, ends with exit code 0 and leaves the requirement in force as it was, since it edits the first
line (`project_tool.cpp:372-389`) and the parser keeps the last (`project_manifest.cpp:299-301`), which is the exception in `AddIsExact`; `cache doctor`
looks for directories only and accepts a module cut short (`DoctorFindsAll` says no more
than that; a build copies the package anew, which `CompilesWhole` shows); a build may import from a package another
build is copying; a selective import drops the nodes of
everything the module imports while these stay loaded; a `return` inside a `tukuyawi`
leaves the return address on the stack; an exit out of a body, besides what `ExcReturn` shows, can close the chain to a cycle, as in `yant'aña` { loop { `yant'aña` { `break` } } }
followed by another `yant'aña`: the inner handler stays current, the outer one is released while linked (`runtime_exceptions.c:40-46`), the third takes its
address, and the two are then linked to each other; a gcc killed by the timeout can leave a cached
object that is incomplete and newer than its source, with which every later link fails until
somebody deletes it; a full build on Linux keeps the `.asm` and `.o` with or without `--emit-asm`.

## 4. Proofs

Liveness, fairness and `ENABLED` are beyond the prover and stay with TLC, and so does what is
defined by a `RECURSIVE` operator (expressions, texts). Assumptions about
constants are the named `ASSUME`s of the modules; TLC evaluates them in every run.

* `ExceptionsProofs`. `ExceptionsType`: `TypeOK`, for whatever the compiler accepts. That `break`, `continue` and `return` have somewhere to go
  is what the semantic analysis accepts (`Accepts`). Its invariant, `TypeInv`, has it that of two handlers with one address the older one has been released (`HeapOK`): `calloc` returns
  memory that nobody has. So a pointer to a handler that is still allocated leads to that handler (`Dereference`), and all that is said below of handlers by name is true of them
  by address; of a released one nothing is said. What a program does without its discipline to the links is not a theorem: the chain may then become a cycle (see "Also seen").

  `Defined`, `OnceEach`, `AlwaysRun`, `NestingKept` and `ThrowFinds`: in every `Disciplined` program, of any length and nesting and with
  any number of entries into a `yant'aña`, nothing undefined happens, each `tukuyawi` runs exactly once, the chain mirrors
  the nesting and an exception finds the innermost body. `Disciplined` excludes the four ways of writing a program that "Findings"
  is about, and `return` out of a `tukuyawi`; that it excludes no program of `ExcStructured` is an assumption that TLC
  evaluates there (`StructuredAreDisciplined`). The hypothesis is about the text of the program, which never changes.

  None of the five is inductive, or follows from the others. Their invariant, `NestInv`, says at every instruction what four
  things have to do with the blocks around control: the registry lists the bodies, each handler knowing a beginning of the machine
  stack (`RegistryOK`); the stack holds one return address for each function and `tukuyawi` that has not returned (`Mirrors`); each entry into a
  `yant'aña` has run its `tukuyawi` once unless it is still due (`RanOK`, `Due`); and what is left of the
  straight-line code, here and at every return address, is right for the block it is at (`WorkOK`): an exit still calls the `tukuyawi`
  blocks it owes, innermost first, an exception may be thrown where it will be. The last one is where compile time meets run time. The lemmas
  before it are about the generator alone: blocks around a block are a chain (`AroundNested`), a list of labels is taken from the top of
  `finallyStack` (`FinallysFall`), and what `LoopFinallys`, `ReturnFinallys` and `ThrowFinallys` list is what the exit leaves, for every
  program that keeps the rules. Without the rules `WorkOK` fails first, at the instruction where the generator
  has planned too much or too little. A program that has no exception may also leave bodies by an exit: their
  handlers stay in the chain, where nobody looks for them, so of the chain `NestInv` then says only that the handlers of the bodies around control
  are alive (`HeldOK`).

  `LanguageKept`: of the same programs, the emitted code implements `TrySemantics` (`ImplementsLanguage`). The abstract state of every
  instruction is read off the blocks around control and the code still planned (`BarsAre`): a region for each `yant'aña`, in
  its phase, and in a `tukuyawi` the signal that its return address will go on with. An action maps to one step or to none (`Mapped`): those that go
  on executing or move between blocks of no `yant'aña` to none (`Kept`, `QuietNext`); a `pantja` or a runtime error to `Raise`, and the code planned
  for an exit to `Leave`; the call of a `tukuyawi` to `Finish` or, for an exit or an exception, `RunFinally` (`CallFinallyMapped`); the jump of an exit and a
  `longjmp` to `Drop`, for the regions left behind; a catch label to `Catch` or `Drop`; the end of a `tukuyawi` to `Finish`. `NestInv` gives what these need: that the called `tukuyawi` is the
  next one owed, with nothing owed and no matching `katjaña` further in, and that frames above the one that goes on are unwound
  (`FramesKept`). The proof found a step that no run had: an exit or a `pantja` calls a `tukuyawi` past a `katjaña`
  that owes none, in one instruction, where `TrySemantics` had demanded that the inner region be dropped first. `RunFinally` now picks the
  innermost region that owes something, past `Idle` ones, and `ExcStructured` runs the programs that do it.
* `AymToolProofs`: `VerifiedLock`, `Frozen`, `SuccessLocks`, `SyncsMend`, `BuildsWhole`, `DoctorRight`, `AddsExactly` and `Types`.
  For any number of processes, dependencies,
  commands, edits and kills, a lock that passes verification is the whole lock of that manifest
  and everything in it is resolved, and a step of a frozen or read-only command leaves manifest and
  lock alone. `IInv` says that no lock ever holds an unresolved entry, and that all
  the steps still planned by a read-only command are among those that do not write (`CalmStages`):
  the property speaks of one step, the invariant of all that a doctor or a
  repair may put before it. Plans are kept in `Seq(CalmStages)` by lemmas on `\o`, `Tail` and `CopyAll`.

  The next five are about a command that nobody disturbs, in whatever state killed commands, failed ones and
  edits have left the files. The properties speak of its end, so their invariant `SInv` has to say of every
  stage why what is left of the plan will do. `AymToolPlans` has the vocabulary: the facts a command may
  know (`Known`: that its workspace is the manifest on disk, that the lock is its lock, that each locked package is stored, or
  still in its list of packages to copy, and so on), what a stage gives, spoils and needs (`Gives`, `Spoils`, `Needs`). A plan is `Good`
  when each fact a stage needs is known at the start or given by an earlier stage and not spoilt in between; what it
  needs at its `"end"` is what the properties promise. Three things are proved: every command line
  has a good plan (`PlanSane`), an action turns what is known before it into what is known after it, and the stages a doctor
  puts before the plan when it repairs leave it good. Copies and imports are loops over packages that the plan
  holds unrolled; in them the invariant says how far into which package the command is (`Copying`, `Importing`).
  A failing step contradicts a needed fact, except where the manifest is broken or cannot be resolved, which is `SyncsMend`.
  `Types` needs `BoundsAssumption`: there is a command to run, and the number of edits is bounded. `AddsExactly` is about the dependencies in force: the one added has the new
  requirement unless a later line gives its name again, and the others have theirs.
* `AscendingProofs`: `AscendingIsLoop` and what follows from it for lists. A loop that appends some of the
  elements it passes computes `Ascending`, and its result keeps order and elements. `NatSetInduction`
  turns the library's induction on naturals, whose parameter is an operator, into a statement about sets
  that can be cited; existence of the loop's values is proved with it. `OrderExists`, that a finite set of numbers can be
  listed in order, is how a plan of unknown length is known to exist; `HeadCons`, `Associate` and the like take plans apart.
* `ModuleResolverProofs`: `Bounded`, `EachMergedOnce`, `CyclesReported`, `ImportsComeFirst` and `NoneLost`. For
  every finite set of files and every text, `loading` is
  the set of files on the recursion above the entry, disjoint from `loaded`, and the recursion is at
  most one deeper than the number of files. `IInv` adds that no file is twice above the entry
  (`Distinct`); `Load` keeps it by its guard on `loading`, `Return` by removing the top, and the
  bound is the pigeonhole principle. The other four are about the lists being merged. Their invariant `MInv`
  follows the recursion: each frame stands for a list at a position, linked to the import of the frame below
  that opened it; what a loaded file imports is loaded or is a cycle already reported; and what a frame has
  merged so far is all that its list asked for up to there, once, in order. `Return` is the step that
  needs all of it: the frame's list is appended to the one below in one piece.

* `SemverProofs`: `InfersLeast`. For every `MaxPart` and every requirement of any length, the version inferred meets
  the requirement and no lower one does; and when no number is at its limit, no answer means that there is none. The lemmas
  say what each comparator means by its bounds (`CaretMeans`, `TildeMeans`); the invariant, that in the second loop the
  candidate is zero or some lower bound, and above all the lower bounds seen: the candidate that ends up below
  an upper bound is the least, and one that is not has nothing below it to take its place.
* `CompilerDriverProofs`: `Honest`, `BoundedInDriver` and `ResolvesInDriver`. For every command line and program, stage by stage: what has been
  made so far of what is asked for before it (`Locked`, `Dumped`), that no error is pending outside of `report` (`Silent`, `Pending`),
  and that from `ast` on the program has parsed and resolved (`Sound`); none holds alone, since `report` is reached from ten places
  and has to know what the way there has made. The other two carry all that is proved of `ModuleResolver`
  over to a run of the compiler: every step of the driver is one of its steps or leaves it alone.
* `NativePipelineProofs`: `NothingLeft` and `SuccessFresh`. For any number of compilers at once, any list of runtime
  units, kills, timeouts and edits, whoever runs without a compiler waiting for it was left behind by one that was
  killed, and exit code 0 of a compiler nobody disturbed means an executable of its source and of the present runtime.
  The first half of `IInv` is about processes: run numbers are unique, a waiting compiler has one child, of its own
  run, and tools with no parent belong to killed ones. The second says what each finished stage has left
  (`Fact`), as long as nobody else writes: a stage still running has either not opened its output or holds in it what the
  stage promises (`Partly`), and a cached object that is not older than the runtime is of the runtime, as long as no
  tool was killed in the middle of writing it (`sound`, which is where the property is bounded by what the code does).
* `RuntimeProofs`: `ListsWithinBlocks`, `RoundsKept`, `PromiseKept` (the refinement of `CollectionsSpec`), `KeysTold`, `PressesTold`, `SessionsGivenBack` and `FramesShown`.
  For any number of lists, maps, nested higher-order calls and failed allocations,
  lengths stay within blocks and no cell below them is unwritten. The invariant adds the types of the calls in
  progress (a list being filled belongs to a frame) to those of lists and maps; `GoodArrays` and `GoodMaps` are closed under each operation (`PushedGood`,
  `RemovedGood`, `CopiedGood`, `AppendedGood` and the like), and each action uses one of them.
  `RoundsKept` needs of every call in progress, and not only of the innermost, that its counters fit what it has seen and given, that the
  list it makes is live and hidden from the program, and that no two calls make the same one (`HofInv`): a function may do anything to the
  lists the program has, and a return writes to one list only. What a filter has kept is stated by a one-to-one map that keeps the order,
  from the places of the list to the rounds that gave something; a push adds one pair to it.

  `PromiseKept` maps each call to a step of `CollectionsSpec` or to none (`ArrayUniqueMaps`, `MapSetMaps` and the others ending in `Maps`). It needs
  two things more (`PromiseInv`): no key stands twice in a map (`KeysDiffer`), since a search finds the first of them and a deletion would
  uncover the second, and that a list being made is nobody's until it is handed over, which is in `HofInv`. Then what the
  program reads of a map after a growth, an overwriting or a deletion is the old function with one key changed (`AppendedDict`, `OverwrittenDict`, `DeletedDict`),
  half a growth included (`AlikeDict`), and a list that is sorted or made unique is the old one along a bijection or an increasing injection.
  The promise ends where `undefined` begins: what a program that uses freed memory sees is not modelled.

  `KeysTold`: the bytes in the poll, the queue and still to be sent are, one behind the other, the last bytes of the keys typed (`Tailing`), and they begin
  where the keys told end (`After`, `Behind`). That the first byte read is the first of a key is what is lost when
  a sequence arrives in parts, so this part of `TermInv` is conditional on `hasty`, as the property is.

  The three about the graphics session have one invariant, `SessionInv`. `KeysFollow` speaks of the moment when all events are pumped; the invariant of what pumping
  would make of the window at any moment (`Pumped`), which an event the user adds changes by one step (`PumpMore`), a call that pumps not at all, and a new colour
  neither (`PumpColored`, over two runs of the loop at once). What is owed to the program, except what a loss of the focus has taken, is among the hits while the window is open. `SessionKept` says what a session has:
  on Linux all or nothing, on Windows at least the window's context until it is closed, so that none is opened over an old one unless it was abandoned.
  Both ways of clipping a rectangle paint the cells between its edges, for all integers (`SpanIs`). `WidthAssumption` is the test at the head of `aym_gfx_open`.

Only model-checked: `EveryThrowLands`, `Exits` and `TimeoutEnds` (liveness), and the properties of `ExpressionCode` and
`Texts`, which are about recursion over expressions and letters.

## 5. Not modelled, and why

* Lexer and most of the parser, AST dump, formatting of diagnostics, type names and printing of values: no state outlives a token, a tree or a
  line, and their correctness is about texts.
* Semantic analysis but for the places of `break`, `continue` and `return`: one pass over tables of scopes and classes
  that nothing disturbs; what could go wrong there is which programs it accepts.
* In the code of expressions: texts and their concatenation, division, static members, `super`, functions as values, and the builtins that
  take the same paths as the ones modelled.
* In the runtime: files, arguments, random numbers, time, console lines, `math.c` (calls of libm), sub-texts and concatenation,
  failed allocations of texts and of handlers (`aym_try_push` returns NULL unchecked), the Windows console, fonts.
* In the process runner and the pipeline: Windows, a `waitpid` that fails, the limits of captured text, the figures in the metrics.
* In the driver: several inputs (read one after the other into one text), output paths that coincide, the spelling of options.
