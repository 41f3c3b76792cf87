----------------------------- MODULE MCProject -----------------------------
(***************************************************************************)
(* The tool on a project whose requirements resolve as semver.cpp resolves *)
(* them, and the resolution of every small requirement on its own: a       *)
(* behaviour is one of the two, and the other stays as it is at first.     *)
(* Only dependency 1 gets a second line in aym.toml, and from the editor.  *)
(***************************************************************************)
EXTENDS MCAymTool, Semver

VARIABLE resolving

(* Requirements at the limits of the numbers, alone, in pairs and in       *)
(* threes; the texts that do not parse.                                    *)
Boundary ==
  {<<0, 0, 0>>, <<0, 0, 1>>, <<0, 0, 3>>, <<0, 1, 0>>, <<0, 3, 1>>,
   <<1, 2, 3>>, <<1, 3, 0>>, <<2, 0, 0>>, <<3, 0, 0>>, <<3, 3, 3>>}
Written3 == [prefix : Marks, parts : Boundary]
Broken ==
  {[prefix |-> "", parts |-> << >>], [prefix |-> "^", parts |-> <<1, 2>>],
   [prefix |-> ">", parts |-> <<1, 2, 4>>], [prefix |-> "~", parts |-> <<1, -1, 0>>]}
FewSegments == [prefix : {">", "<=", "^", ""}, parts : {<<0, 0, 1>>, <<1, 2, 3>>, <<2, 0, 0>>}]
SmallRequirementTexts ==
  {[any |-> a, segments |-> << >>] : a \in BOOLEAN}
    \cup {[any |-> FALSE, segments |-> s] :
            s \in {<<x>> : x \in Written3 \cup Broken}
                    \cup {<<x, y>> : x \in Written3, y \in Written3 \cup Broken} \cup [1..3 -> FewSegments]}

(* What the tool's requirements say, and the names of versions.            *)
Says(r) ==
  CASE r = "^1.2.3" -> <<[prefix |-> "^", parts |-> <<1, 2, 3>>]>>
    [] r = "^2.0.0" -> <<[prefix |-> "^", parts |-> <<2, 0, 0>>]>>
    [] r = ">=1.0.0, <1.0.0" -> <<[prefix |-> ">=", parts |-> <<1, 0, 0>>], [prefix |-> "<", parts |-> <<1, 0, 0>>]>>
NamedVersions == [v \in {V(1, 2, 3), V(2, 0, 0)} |-> IF v = V(1, 2, 3) THEN "1.2.3" ELSE "2.0.0"]

(* By InfersLeast this is what semver.cpp infers: no number is at a limit. *)
LeastMeant(r) ==
  LET meant == {v \in Version : \A i \in DOMAIN Says(r) : Means(Says(r)[i], v)}
  IN  IF meant = {} THEN Unresolvable
      ELSE NamedVersions[CHOOSE v \in meant : \A u \in meant : ~Before(u, v)]
ASSUME ResolvedAsMeant == \A r \in SomeRequirements : SomeResolved[r] = LeastMeant(r)
-----------------------------------------------------------------------------
AnyText == [any |-> TRUE, segments |-> << >>]
ProjectInit ==
  /\ Init /\ manifest.later = {} /\ resolving \in BOOLEAN
  /\ SemverInit /\ (resolving \/ asked = AnyText)
  /\ resolving => DOMAIN manifest.deps = {}
ProjectNext ==
  /\ UNCHANGED resolving
  /\ \/ ~resolving /\ Next /\ manifest'.later \subseteq {1} /\ UNCHANGED semverVars
     \/ resolving /\ SemverNext /\ UNCHANGED vars
ProjectSpec == ProjectInit /\ [][ProjectNext]_<<resolving, vars, semverVars>>
=============================================================================
