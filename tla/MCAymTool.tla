----------------------------- MODULE MCAymTool -----------------------------
(***************************************************************************)
(* AymTool on small projects.                                              *)
(***************************************************************************)
EXTENDS AymTool

(* ^1.2.3 and ^2.0.0 resolve to their lower bounds, the last to none.      *)
SomeRequirements == {"^1.2.3", "^2.0.0", ">=1.0.0, <1.0.0"}
SomeVersions == {"1.2.3", "2.0.0"}
SomeResolved ==
  [r \in SomeRequirements |-> CASE r = "^1.2.3" -> "1.2.3" [] r = "^2.0.0" -> "2.0.0"
                                [] OTHER -> Unresolvable]

(* The command lines: options that change nothing are left at their        *)
(* defaults.                                                               *)
Plain(name) ==
  [name |-> name, frozen |-> FALSE, doctor |-> FALSE, fix |-> FALSE,
   dep |-> 1, req |-> "^1.2.3"]
Frozen(c) == [c EXCEPT !.frozen = TRUE]
Fixing(c) == [c EXCEPT !.doctor = TRUE, !.fix = TRUE]

(* Dependency 2 is not added with ^2.0.0: it differs from 1 in nothing.    *)
Adds ==
  {[Plain("add") EXCEPT !.dep = d, !.req = r] : d \in Deps, r \in Requirements}
    \ {[Plain("add") EXCEPT !.dep = 2, !.req = "^2.0.0"]}

AllCommands ==
  {Plain(name) : name \in Names \ {"add"}} \cup Adds
    \cup {Frozen(Plain(name)) : name \in {"build", "lock sync", "cache sync"}}
    \cup {Fixing(Plain("build")), Frozen(Fixing(Plain("build"))), [Plain("cache doctor") EXCEPT !.fix = TRUE]}

(* Those that meet at the manifest, the lock or the cache. *)
MeetingCommands ==
  Adds \cup {Plain("build"), Plain("lock check"), Plain("cache clean"), Frozen(Fixing(Plain("build")))}

(* No name of aym.toml gets a second line here: one user's commands        *)
(* and edits (MCProject) are where that matters.                           *)
SharedSpec == Init /\ manifest.later = {} /\ [][Next /\ manifest'.later = {}]_vars

Symmetry == Permutations(Procs)
=============================================================================
