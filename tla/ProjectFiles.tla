---------------------------- MODULE ProjectFiles ----------------------------
(***************************************************************************)
(* The two text files of a project, aym.toml and aym.lock, as far as the   *)
(* functions of compiler/utils/project_manifest.cpp tell them apart.       *)
(*                                                                         *)
(* Checksums are of 64 bits and are taken to be injective: the checksum of *)
(* a manifest is its table of dependencies.  The package's own name,       *)
(* version and edition never change here.                                  *)
(***************************************************************************)
EXTENDS Naturals, FiniteSets

CONSTANTS
  Deps,            \* names of dependencies: numbers, in the order of std::map
  Requirements,    \* the requirements parseSemverRequirement accepts
  Versions,
  Resolved         \* inferResolvedVersion: a version, or Unresolvable

Unresolvable == "AYM5010"

ASSUME DepsAssumption == Deps \subseteq Nat /\ IsFiniteSet(Deps)
ASSUME ResolvedAssumption ==
  Resolved \in [Requirements -> Versions \cup {Unresolvable}]

Tables == UNION {[D -> Requirements] : D \in SUBSET Deps}
NoDeps == [d \in {} |-> d]

(* A manifest that parses has a [package]; one that was cut short has not. *)
(* `deps` is what parseProjectManifestFile makes of [dependencies], where  *)
(* the last line of a name is in force; `later` has the names whose last   *)
(* line is a second one, or stands in a second [dependencies].             *)
Manifest ==
  {m \in [package : BOOLEAN, deps : Tables, later : SUBSET Deps] : m.later \subseteq DOMAIN m.deps}
EmptyManifest == [package |-> FALSE, deps |-> NoDeps, later |-> {}]
Valid(m) == m.package

With(table, d, r) ==
  [e \in DOMAIN table \cup {d} |-> IF e = d THEN r ELSE table[e]]

(* Mutant: [dependencies] is written anew. *)
UpsertAlone(m, d, r) == [m EXCEPT !.deps = With(NoDeps, d, r), !.later = {}]

(* upsertProjectDependency: in the first [dependencies] the first line of  *)
(* the name is replaced, or one is inserted; every other line stays, and a *)
(* later one of the same name stays in force.                              *)
Upsert(m, d, r) == IF d \in m.later THEN m ELSE [m EXCEPT !.deps = With(@, d, r)]

-----------------------------------------------------------------------------
(* A lock file: `sum` is its manifest_checksum, `deps` its [[dependency]]  *)
(* blocks, each with the requirement it was resolved from.  Only a written *)
(* one parses.                                                             *)
LockStates == {"absent", "empty", "garbled", "written"}
Lock == [state : LockStates, sum : Tables, deps : Tables]
LockOf(state) == [state |-> state, sum |-> NoDeps, deps |-> NoDeps]
Parses(lock) == lock.state = "written"

(* writeProjectLockFileDetailed resolves one dependency after the other    *)
(* while it writes, and stops at the first it cannot resolve.              *)
Resolvable(table) == \A d \in DOMAIN table : Resolved[table[d]] # Unresolvable
Written(table) ==
  {d \in DOMAIN table : \A e \in DOMAIN table : e <= d => Resolved[table[e]] # Unresolvable}
LockText(m) ==
  [state |-> "written", sum |-> m.deps, deps |-> [d \in Written(m.deps) |-> m.deps[d]]]

(* Mutants: verification without the manifest checksum and the missing     *)
(* dependencies, or without anything.                                      *)
VerifiesEntries(m, lock) ==
  \A d \in DOMAIN lock.deps : d \in DOMAIN m.deps /\ lock.deps[d] = m.deps[d]
VerifiesNothing(m, lock) == TRUE

(* verifyLockAgainstManifestDetailed: the checksum, no dependency missing, *)
(* each with the manifest's requirement, none extra.                       *)
Verifies(m, lock) ==
  /\ lock.sum = m.deps
  /\ \A d \in DOMAIN m.deps : d \in DOMAIN lock.deps /\ lock.deps[d] = m.deps[d]
  /\ DOMAIN lock.deps \subseteq DOMAIN m.deps

(* Writing through an ofstream opened when the file was truncated: what    *)
(* another process has put there since is overwritten from the start, and  *)
(* its tail stays when it was longer.                                      *)
WithTail(new, old) ==
  [d \in DOMAIN new \cup DOMAIN old |-> IF d \in DOMAIN new THEN new[d] ELSE old[d]]
Longer(old, new) == Cardinality(DOMAIN old) > Cardinality(DOMAIN new)

LockAfterWrite(old, new) ==
  {new} \cup (IF old.state \in {"garbled", "written"} THEN {LockOf("garbled")} ELSE {})
        \cup (IF old.state = "written" /\ Longer(old.deps, new.deps)
                THEN {[new EXCEPT !.deps = WithTail(@, old.deps)]} ELSE {})

ManifestAfterWrite(old, new) ==
  {new} \cup (IF old.package THEN {EmptyManifest} ELSE {})
        \cup (IF old.package /\ Longer(old.deps, new.deps)
                THEN {[new EXCEPT !.deps = WithTail(@, old.deps)]} ELSE {})
=============================================================================
