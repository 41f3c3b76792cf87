------------------------------- MODULE Semver -------------------------------
(***************************************************************************)
(* Version requirements (compiler/utils/semver.cpp): parseSemverRequirement*)
(* turns a text into comparators and inferResolvedVersion walks them twice *)
(* to find the version a dependency is resolved to.  No registry is asked: *)
(* every version there can be counts as one to choose from.                *)
(*                                                                         *)
(* A text is what lies between its commas, each with a prefix and the      *)
(* numbers between its dots; what is no number is a negative one.          *)
(***************************************************************************)
EXTENDS Integers, Sequences

CONSTANTS
  MaxPart,           \* numeric_limits<int>::max()
  RequirementTexts   \* what a requirement may say

Version == [major : 0..MaxPart, minor : 0..MaxPart, patch : 0..MaxPart]
V(major, minor, patch) == [major |-> major, minor |-> minor, patch |-> patch]
Zero == V(0, 0, 0)

Ops == {"exact", "greater", "greater equal", "less", "less equal", "caret", "tilde"}
Comparator == [op : Ops, version : Version]

Marks == {"", "=", ">", ">=", "<", "<=", "^", "~"}
Segment == [prefix : Marks, parts : Seq(Int)]

ASSUME MaxPartAssumption == MaxPart \in Nat
ASSUME RequirementsAssumption ==
  \A t \in RequirementTexts :
    t \in [any : BOOLEAN, segments : Seq(Segment)] /\ (t.any => t.segments = << >>)

VARIABLES
  asked,         \* the text
  comparators, at,
  candidate, hasCandidate,
  stage, answer

semverVars == <<asked, comparators, at, candidate, hasCandidate, stage, answer>>

Segments == asked.segments
-----------------------------------------------------------------------------
(* compareSemver *)
Before(u, v) ==
  \/ u.major < v.major
  \/ u.major = v.major /\ u.minor < v.minor
  \/ u.major = v.major /\ u.minor = v.minor /\ u.patch < v.patch

Increment(n) == IF n >= MaxPart THEN MaxPart ELSE n + 1

BumpPatch(v) == V(v.major, v.minor, Increment(v.patch))

(* Mutant: the upper bound of an early version is that of any other. *)
UpperBoundOfMajor(v) == V(Increment(v.major), 0, 0)

UpperBoundForCaret(v) ==
  CASE v.major > 0 -> V(Increment(v.major), 0, 0)
    [] v.major = 0 /\ v.minor > 0 -> V(0, Increment(v.minor), 0)
    [] v.major = 0 /\ v.minor = 0 -> V(0, 0, Increment(v.patch))
UpperBoundForTilde(v) == V(v.major, Increment(v.minor), 0)

SatisfiesComparator(v, c) ==
  CASE c.op = "exact" -> v = c.version
    [] c.op = "greater" -> Before(c.version, v)
    [] c.op = "greater equal" -> ~Before(v, c.version)
    [] c.op = "less" -> Before(v, c.version)
    [] c.op = "less equal" -> ~Before(c.version, v)
    [] c.op = "caret" -> ~Before(v, c.version) /\ Before(v, UpperBoundForCaret(c.version))
    [] c.op = "tilde" -> ~Before(v, c.version) /\ Before(v, UpperBoundForTilde(c.version))

(* semverSatisfies *)
Satisfies(v) == \A i \in DOMAIN comparators : SatisfiesComparator(v, comparators[i])
-----------------------------------------------------------------------------
(* parseSemverVersion: three numbers of an int. *)
WellFormed(parts) == Len(parts) = 3 /\ \A i \in 1..3 : parts[i] \in 0..MaxPart

OpOf(prefix) ==
  CASE prefix \in {"", "="} -> "exact"
    [] prefix = ">" -> "greater"
    [] prefix = ">=" -> "greater equal"
    [] prefix = "<" -> "less"
    [] prefix = "<=" -> "less equal"
    [] prefix = "^" -> "caret"
    [] prefix = "~" -> "tilde"
VersionOf(parts) == V(parts[1], parts[2], parts[3])
ComparatorOf(segment) == [op |-> OpOf(segment.prefix), version |-> VersionOf(segment.parts)]

NoAnswer == [kind |-> "none", version |-> Zero]
Answer(kind, v) ==
  /\ stage' = "done" /\ answer' = [kind |-> kind, version |-> v]
  /\ UNCHANGED <<asked, comparators, at, candidate, hasCandidate>>

SemverInit ==
  /\ asked \in RequirementTexts
  /\ comparators = << >> /\ at = 1
  /\ candidate = Zero /\ hasCandidate = FALSE
  /\ stage = "parse" /\ answer = NoAnswer

To(next) == stage' = next /\ at' = 1 /\ UNCHANGED <<asked, comparators, candidate, hasCandidate, answer>>

ParseSegment ==
  /\ stage = "parse" /\ ~asked.any
  /\ at \in DOMAIN Segments /\ WellFormed(Segments[at].parts)
  /\ comparators' = Append(comparators, ComparatorOf(Segments[at]))
  /\ at' = at + 1
  /\ UNCHANGED <<asked, candidate, hasCandidate, stage, answer>>

Reject ==
  /\ stage = "parse" /\ ~asked.any
  /\ Segments = << >> \/ (at \in DOMAIN Segments /\ ~WellFormed(Segments[at].parts))
  /\ Answer("invalid", Zero)

Parsed ==
  /\ stage = "parse"
  /\ asked.any \/ (Segments # << >> /\ at \notin DOMAIN Segments)
  /\ To("exact")

InferAny == stage = "exact" /\ asked.any /\ Answer("version", Zero)

More == at \in DOMAIN comparators
AtHand == comparators[at]
WalkOn(v, has) ==
  /\ candidate' = v /\ hasCandidate' = has /\ at' = at + 1
  /\ UNCHANGED <<asked, comparators, stage, answer>>

(* The first pass: exact versions, which all have to be one.               *)
NotExact == stage = "exact" /\ More /\ AtHand.op # "exact" /\ WalkOn(candidate, hasCandidate)
FirstExact == stage = "exact" /\ More /\ AtHand.op = "exact" /\ ~hasCandidate /\ WalkOn(AtHand.version, TRUE)
SameExact ==
  /\ stage = "exact" /\ More /\ AtHand.op = "exact" /\ hasCandidate /\ candidate = AtHand.version
  /\ WalkOn(candidate, hasCandidate)
Conflict ==
  /\ stage = "exact" /\ More /\ AtHand.op = "exact" /\ hasCandidate /\ candidate # AtHand.version
  /\ Answer("conflict", Zero)
ExactDone ==
  /\ stage = "exact" /\ ~asked.any /\ ~More
  /\ To(IF hasCandidate THEN "check" ELSE "bounds")

(* The second pass: the highest of the lower bounds.                       *)
Contributes(c) == c.op \in {"caret", "tilde", "greater equal", "greater"}
LowerBound(c) == IF c.op = "greater" THEN BumpPatch(c.version) ELSE c.version
Bound ==
  /\ stage = "bounds" /\ More
  /\ IF Contributes(AtHand) /\ (~hasCandidate \/ Before(candidate, LowerBound(AtHand)))
       THEN WalkOn(LowerBound(AtHand), TRUE)
       ELSE WalkOn(candidate, hasCandidate)
BoundsDone == stage = "bounds" /\ ~More /\ To("check")

Decide ==
  /\ stage = "check"
  /\ IF Satisfies(candidate) THEN Answer("version", candidate) ELSE Answer("unresolved", Zero)

SemverNext ==
  \/ ParseSegment \/ Reject \/ Parsed \/ InferAny
  \/ NotExact \/ FirstExact \/ SameExact \/ Conflict \/ ExactDone
  \/ Bound \/ BoundsDone \/ Decide

SemverSpec == SemverInit /\ [][SemverNext]_semverVars
-----------------------------------------------------------------------------
(* What a requirement means: ^ keeps the leftmost number that is not zero, *)
(* ~ the first two.                                                        *)
Means(segment, v) ==
  LET b == VersionOf(segment.parts)
      up == b = v \/ Before(b, v)
  IN  CASE segment.prefix \in {"", "="} -> v = b
        [] segment.prefix = ">" -> Before(b, v)
        [] segment.prefix = ">=" -> up
        [] segment.prefix = "<" -> Before(v, b)
        [] segment.prefix = "<=" -> v = b \/ Before(v, b)
        [] segment.prefix = "~" -> up /\ v.major = b.major /\ v.minor = b.minor
        [] segment.prefix = "^" ->
             /\ up /\ v.major = b.major
             /\ b.major = 0 => v.minor = b.minor
             /\ b.major = 0 /\ b.minor = 0 => v.patch = b.patch
Meant(v) == \A i \in DOMAIN Segments : Means(Segments[i], v)

(* A number there is no next one to: bounds computed from it are its own.  *)
AtLimit(segment) ==
  LET b == VersionOf(segment.parts) IN
    \/ segment.prefix = ">" /\ b.patch = MaxPart
    \/ segment.prefix = "~" /\ b.minor = MaxPart
    \/ segment.prefix = "^" /\ b.major = MaxPart
    \/ segment.prefix = "^" /\ b.major = 0 /\ (b.minor = MaxPart \/ (b.minor = 0 /\ b.patch = MaxPart))

(* The version inferred is the least of those the text means; when there   *)
(* is no answer there is none to give, unless a number is at its limit.    *)
LeastOrNone ==
  /\ answer.kind = "version" =>
       Meant(answer.version) /\ \A v \in Version : Meant(v) => ~Before(v, answer.version)
  /\ answer.kind \in {"conflict", "unresolved"} /\ (\A i \in DOMAIN Segments : ~AtLimit(Segments[i])) =>
       \A v \in Version : ~Meant(v)
=============================================================================
