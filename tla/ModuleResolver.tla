--------------------------- MODULE ModuleResolver ---------------------------
(***************************************************************************)
(* apnaq: ModuleResolver::resolve and load (compiler/utils/module_resolver *)
(* .cpp, module_resolver_resolve.cpp) merge the modules a program imports, *)
(* and those these import, into one list of nodes.  The recursion of the   *)
(* code is a stack here, one frame for each list being resolved.           *)
(*                                                                         *)
(* A name in an import stands for the file findModulePath finds for it.    *)
(***************************************************************************)
EXTENDS Naturals, Sequences, SequencesExt, FiniteSets, Ascending

CONSTANTS
  Files,       \* files that can be imported; the entry may be one of them
  Entry,
  Names,       \* names of declarations and aliases
  Texts        \* what the files may hold: functions from Files

(* The nodes of a file: declarations, other statements (name ""), imports. *)
(* `take` says what an import wants of the other file: everything, a list  *)
(* of symbols, or symbols with their aliases.                              *)
Decl(name) == [node |-> "decl", name |-> name]
Whole == [mode |-> "whole", names |-> {}]
Only(names) == [mode |-> "only", names |-> names]
Renamed(to) == [mode |-> "alias", names |-> DOMAIN to, to |-> to]
ImportOf(file, take) == [node |-> "import", file |-> file, take |-> take]

(* Besides a sequence of nodes, what can be found in place of a file.      *)
Absent == <<[node |-> "absent"]>>
Garbled == <<[node |-> "garbled"]>>

Nodes(t) == IF t \in {Absent, Garbled} THEN << >> ELSE t

Takes ==
  {Whole} \cup {Only(names) : names \in SUBSET Names}
          \cup {Renamed(to) : to \in UNION {[D -> Names] : D \in SUBSET Names}}
SourceNodes ==
  [node : {"decl"}, name : Names \cup {""}] \cup [node : {"import"}, file : Files, take : Takes]

ASSUME FilesAssumption == IsFiniteSet(Files) /\ Entry \in Files
ASSUME TextsAssumption == \A t \in Texts : t \in [Files -> Seq(SourceNodes) \cup {Absent, Garbled}]

VARIABLES
  text,          \* the contents of the files, fixed
  stack,         \* the lists being resolved, the entry's first
  loading, loaded,
  status

vars == <<text, stack, loading, loaded, status>>

(* A merged node: where it comes from, and the name it has now. *)
Merged(f, i, name) == [file |-> f, at |-> i, name |-> name]
Frame(f) == [file |-> f, next |-> 1, out |-> << >>]

Top == Last(stack)
TopNodes == Nodes(text[Top.file])
Resolving == status = "resolving"
More == Resolving /\ Top.next <= Len(TopNodes)
Node == TopNodes[Top.next]

Importing == More /\ Node.node = "import"
-----------------------------------------------------------------------------
Init ==
  /\ text \in Texts
  /\ stack = <<Frame(Entry)>>
  /\ loading = {} /\ loaded = {}
  /\ status = "resolving"

Put(f, nodes) == [file |-> f.file, next |-> f.next + 1, out |-> f.out \o nodes]

(* Mutants: what was put out before is lost; an import that brings nothing *)
(* is looked at again.                                                     *)
AdvancedAnew(frames, nodes) ==
  [frames EXCEPT ![Len(frames)] = [Put(@, nodes) EXCEPT !.out = nodes]]
AdvancedOnNodes(frames, nodes) ==
  IF nodes = << >> THEN frames ELSE [frames EXCEPT ![Len(frames)] = Put(@, nodes)]

(* The frames with the node at hand done and `nodes` put out for it.       *)
Advanced(frames, nodes) == [frames EXCEPT ![Len(frames)] = Put(@, nodes)]

Keep ==
  /\ More /\ Node.node = "decl"
  /\ stack' = Advanced(stack, <<Merged(Top.file, Top.next, Node.name)>>)
  /\ UNCHANGED <<text, loading, loaded, status>>

(* What an import takes of the nodes of its module: all; the first node of *)
(* each name wanted; or every node of a name that has an alias.            *)
Taken(take, nodes) ==
  CASE take.mode = "whole" -> nodes
    [] take.mode = "only" ->
         LET first == {i \in DOMAIN nodes : nodes[i].name \in take.names
                                            /\ \A j \in 1..(i - 1) : nodes[j].name # nodes[i].name}
             kept == Ascending(first, Len(nodes))
         IN  [k \in DOMAIN kept |-> nodes[kept[k]]]
    [] take.mode = "alias" ->
         LET kept == Ascending({i \in DOMAIN nodes : nodes[i].name \in take.names}, Len(nodes))
         IN  [k \in DOMAIN kept |-> [nodes[kept[k]] EXCEPT !.name = take.to[@]]]

Missing(take, nodes) == take.names \ {nodes[i].name : i \in DOMAIN nodes}

Fail(code) ==
  /\ status' = code
  /\ UNCHANGED <<text, stack, loading, loaded>>

(* The import at the top of `frames` receives the nodes of its module.     *)
Receive(frames, take, nodes) ==
  IF Missing(take, nodes) = {}
    THEN stack' = Advanced(frames, Taken(take, nodes)) /\ UNCHANGED status
    ELSE stack' = frames /\ status' = "AYM4005"

(* load: AYM4001 when the file is not found; nothing more of a module that *)
(* is loaded; AYM4002 when it is being loaded; AYM4004 when it does not    *)
(* parse; otherwise its nodes are resolved.                                *)
NotFound == Importing /\ text[Node.file] = Absent /\ Fail("AYM4001")

AlreadyLoaded ==
  /\ Importing /\ text[Node.file] # Absent /\ Node.file \in loaded
  /\ Receive(stack, Node.take, << >>)
  /\ UNCHANGED <<text, loading, loaded>>

Cyclic ==
  /\ Importing /\ text[Node.file] # Absent
  /\ Node.file \notin loaded /\ Node.file \in loading
  /\ Fail("AYM4002")

(* The module that does not parse stays in loadingModules.  AYM4004 stands *)
(* for AYM4003, an error of its lexer, too.                                *)
Unparsable ==
  /\ Importing /\ text[Node.file] = Garbled
  /\ Node.file \notin loaded /\ Node.file \notin loading
  /\ status' = "AYM4004"
  /\ loading' = loading \cup {Node.file}
  /\ UNCHANGED <<text, stack, loaded>>

(* Mutant: a module counts as loaded as soon as it is begun. *)
LoadEager ==
  /\ Importing /\ text[Node.file] \notin {Absent, Garbled}
  /\ Node.file \notin loaded /\ Node.file \notin loading
  /\ stack' = Append(stack, Frame(Node.file))
  /\ loading' = loading \cup {Node.file}
  /\ loaded' = loaded \cup {Node.file}
  /\ UNCHANGED <<text, status>>

Load ==
  /\ Importing /\ text[Node.file] \notin {Absent, Garbled}
  /\ Node.file \notin loaded /\ Node.file \notin loading
  /\ stack' = Append(stack, Frame(Node.file))
  /\ loading' = loading \cup {Node.file}
  /\ UNCHANGED <<text, loaded, status>>

(* Mutants: the module's nodes go before what has been merged so far; the  *)
(* module is not entered among the loaded ones.                            *)
ReturnInFront ==
  /\ Resolving /\ ~More /\ Len(stack) > 1
  /\ LET below == Front(stack)
         taken == Taken(Nodes(text[Last(below).file])[Last(below).next].take, Top.out)
     IN  stack' = [below EXCEPT ![Len(below)] = [Put(@, taken) EXCEPT !.out = taken \o Last(below).out]]
  /\ loading' = loading \ {Top.file}
  /\ loaded' = loaded \cup {Top.file}
  /\ UNCHANGED <<text, status>>
ReturnUnmarked ==
  /\ Resolving /\ ~More /\ Len(stack) > 1
  /\ LET below == Front(stack)
         import == Nodes(text[Last(below).file])[Last(below).next]
     IN  Receive(below, import.take, Top.out)
  /\ loading' = loading \ {Top.file}
  /\ UNCHANGED <<text, loaded>>

(* A module is resolved: load returns its nodes to the import.             *)
Return ==
  /\ Resolving /\ ~More /\ Len(stack) > 1
  /\ LET below == Front(stack)
         import == Nodes(text[Last(below).file])[Last(below).next]
     IN  Receive(below, import.take, Top.out)
  /\ loading' = loading \ {Top.file}
  /\ loaded' = loaded \cup {Top.file}
  /\ UNCHANGED text

Finish ==
  /\ Resolving /\ ~More /\ Len(stack) = 1
  /\ Fail("ok")

(* The compiler goes on, or reports the error. *)
Ended == ~Resolving /\ UNCHANGED vars

Resolve == Keep \/ NotFound \/ AlreadyLoaded \/ Cyclic \/ Unparsable \/ Load \/ Return \/ Finish

Next == Resolve \/ Ended

Spec == Init /\ [][Next]_vars /\ WF_vars(Next)
-----------------------------------------------------------------------------
(* The modules being loaded are those on the recursion, each once, and no  *)
(* module is loaded twice: so the recursion is never deeper than there are *)
(* files, the entry imported as a module included.                         *)
RecursionBounded ==
  /\ loading \cap loaded = {}
  /\ Resolving => loading = {stack[i].file : i \in 2..Len(stack)}
  /\ Len(stack) <= Cardinality(Files) + 1

Result == Head(stack).out
Succeeded == status = "ok"

(* A module imported along several ways is merged once.                    *)
MergedOnce ==
  Succeeded => \A i, j \in DOMAIN Result :
    Result[i].file = Result[j].file /\ Result[i].at = Result[j].at => i = j

(* The files the entry imports, directly or not.                           *)
ImportsOf(f) ==
  LET nodes == Nodes(text[f])
  IN  {nodes[i].file : i \in {j \in DOMAIN nodes : nodes[j].node = "import"}}
Reachable ==
  {f \in Files : \A C \in SUBSET Files :
     ImportsOf(Entry) \subseteq C /\ (\A g \in C : ImportsOf(g) \subseteq C) => f \in C}
From(f) ==
  {g \in Files : \A C \in SUBSET Files :
     ImportsOf(f) \subseteq C /\ (\A h \in C : ImportsOf(h) \subseteq C) => g \in C}

(* AYM4002 is reported for a cycle, and a program with one never passes.   *)
CycleReported ==
  /\ Succeeded => \A f \in Reachable : f \notin From(f)
  /\ status = "AYM4002" => \E f \in Reachable : f \in From(f)

(* A module's own nodes come after all that its imports before them bring. *)
ImportsFirst ==
  Succeeded => \A i, j \in DOMAIN Result :
    LET nodes == Nodes(text[Result[i].file]) IN
      (\E k \in 1..(Result[i].at - 1) :
         nodes[k].node = "import" /\ (Result[j].file = nodes[k].file \/ Result[j].file \in From(nodes[k].file)))
      => j < i

(* Without selective imports nothing is lost: every node of every file the *)
(* entry reaches is in the program.                                        *)
Decls(f) == {i \in DOMAIN Nodes(text[f]) : Nodes(text[f])[i].node = "decl"}
AllWhole(f) ==
  \A i \in DOMAIN Nodes(text[f]) :
    Nodes(text[f])[i].node = "import" => Nodes(text[f])[i].take = Whole
NothingLost ==
  Succeeded /\ (\A f \in Reachable \cup {Entry} : AllWhole(f)) =>
    \A f \in Reachable \cup {Entry} : \A i \in Decls(f) :
      \E j \in DOMAIN Result : Result[j].file = f /\ Result[j].at = i

(* AYM4005 means what its hint in diagnostic_catalog.cpp:25 asks to check:  *)
(* that a symbol the import names is not in the module it names.           *)
MissingMeansAbsent ==
  status = "AYM4005" =>
    LET nodes == Nodes(text[Node.file])
    IN  \E name \in Node.take.names :
          \A i \in DOMAIN nodes : ~(nodes[i].node = "decl" /\ nodes[i].name = name)
=============================================================================
