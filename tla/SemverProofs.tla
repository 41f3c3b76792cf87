---------------------------- MODULE SemverProofs ----------------------------
(***************************************************************************)
(* Whatever requirement is asked for, of any length and with numbers of    *)
(* any width, the version inferred is the least one it means.              *)
(***************************************************************************)
EXTENDS Semver, TLAPS

(* Versions are ordered.                                                   *)
LEMMA Ordered ==
  ASSUME NEW u \in Version, NEW v \in Version, NEW w \in Version
  PROVE  /\ ~Before(u, u)
         /\ u = v \/ Before(u, v) \/ Before(v, u)
         /\ Before(u, v) => ~Before(v, u)
         /\ Before(u, v) /\ Before(v, w) => Before(u, w)
         /\ ~Before(u, v) /\ ~Before(v, w) => ~Before(u, w)
         /\ ~Before(u, Zero)
<1>1. MaxPart \in Nat
  BY MaxPartAssumption
<1>2. u.major = v.major /\ u.minor = v.minor /\ u.patch = v.patch => u = v
  BY DEF Version
<1> QED BY <1>1, <1>2 DEF Before, Version, Zero, V

LEMMA ZeroVersion == Zero \in Version
  BY MaxPartAssumption DEF Zero, V, Version

(* A segment that parses and what it is parsed to.                         *)
Good == {s \in Segment : WellFormed(s.parts)}

LEMMA Parses ==
  ASSUME NEW s \in Good
  PROVE  /\ ComparatorOf(s) \in Comparator /\ VersionOf(s.parts) \in Version
         /\ ComparatorOf(s).version = VersionOf(s.parts) /\ ComparatorOf(s).op = OpOf(s.prefix)
         /\ s.prefix \in Marks
<1>1. s.prefix \in Marks /\ s.parts[1] \in 0..MaxPart /\ s.parts[2] \in 0..MaxPart /\ s.parts[3] \in 0..MaxPart
  BY DEF Good, Segment, WellFormed
<1>2. VersionOf(s.parts) \in Version
  BY <1>1 DEF VersionOf, V, Version
<1>3. OpOf(s.prefix) \in Ops
  BY <1>1 DEF OpOf, Ops, Marks
<1> QED BY <1>1, <1>2, <1>3 DEF ComparatorOf, Comparator

LEMMA Bounds ==
  ASSUME NEW b \in Version
  PROVE  /\ BumpPatch(b) \in Version /\ UpperBoundForTilde(b) \in Version
         /\ UpperBoundForCaret(b) \in Version
<1>1. /\ b.major \in 0..MaxPart /\ b.minor \in 0..MaxPart /\ b.patch \in 0..MaxPart /\ 0 \in 0..MaxPart
  BY MaxPartAssumption DEF Version
<1>2. \A n \in 0..MaxPart : Increment(n) \in 0..MaxPart
  BY MaxPartAssumption DEF Increment
<1>3. \A x, y, z \in 0..MaxPart : V(x, y, z) \in Version
  BY DEF V, Version
<1> QED BY <1>1, <1>2, <1>3 DEF BumpPatch, UpperBoundForTilde, UpperBoundForCaret

(* ^ and ~ keep the numbers they are to keep, and leave out no version but *)
(* at the limit.                                                           *)
LEMMA TildeMeans ==
  ASSUME NEW b \in Version, NEW v \in Version
  PROVE  /\ ~Before(v, b) /\ Before(v, UpperBoundForTilde(b)) => v.major = b.major /\ v.minor = b.minor
         /\ b.minor # MaxPart /\ v.major = b.major /\ v.minor = b.minor => Before(v, UpperBoundForTilde(b))
  BY MaxPartAssumption DEF Before, UpperBoundForTilde, Increment, V, Version

SameLeading(b, v) ==
  /\ v.major = b.major
  /\ b.major = 0 => v.minor = b.minor
  /\ b.major = 0 /\ b.minor = 0 => v.patch = b.patch
CaretLimit(b) ==
  \/ b.major = MaxPart
  \/ b.major = 0 /\ (b.minor = MaxPart \/ (b.minor = 0 /\ b.patch = MaxPart))

LEMMA CaretMeans ==
  ASSUME NEW b \in Version, NEW v \in Version
  PROVE  /\ ~Before(v, b) /\ Before(v, UpperBoundForCaret(b)) => SameLeading(b, v)
         /\ ~CaretLimit(b) /\ SameLeading(b, v) => Before(v, UpperBoundForCaret(b))
<1>1. CASE b.major > 0
  <2>1. UpperBoundForCaret(b) = V(Increment(b.major), 0, 0)
    BY <1>1 DEF UpperBoundForCaret, Version
  <2> QED BY <1>1, <2>1, MaxPartAssumption DEF Before, Increment, V, Version, SameLeading, CaretLimit
<1>2. CASE b.major = 0 /\ b.minor > 0
  <2>1. UpperBoundForCaret(b) = V(0, Increment(b.minor), 0)
    BY <1>2 DEF UpperBoundForCaret, Version
  <2> QED BY <1>2, <2>1, MaxPartAssumption DEF Before, Increment, V, Version, SameLeading, CaretLimit
<1>3. CASE b.major = 0 /\ b.minor = 0
  <2>1. UpperBoundForCaret(b) = V(0, 0, Increment(b.patch))
    BY <1>3 DEF UpperBoundForCaret, Version
  <2> QED BY <1>3, <2>1, MaxPartAssumption DEF Before, Increment, V, Version, SameLeading, CaretLimit
<1> QED BY <1>1, <1>2, <1>3 DEF Version

(* The code's comparison of a version with a comparator, and its meaning.  *)
LEMMA Sound ==
  ASSUME NEW s \in Good, NEW v \in Version
  PROVE  /\ SatisfiesComparator(v, ComparatorOf(s)) => Means(s, v)
         /\ ~AtLimit(s) /\ Means(s, v) => SatisfiesComparator(v, ComparatorOf(s))
<1> DEFINE b == VersionOf(s.parts)
           c == ComparatorOf(s)
<1>1. b \in Version /\ c.version = b /\ c.op = OpOf(s.prefix) /\ s.prefix \in Marks
  BY Parses
<1>2. /\ ~Before(b, b) /\ (b = v \/ Before(b, v) \/ Before(v, b)) /\ (Before(b, v) => ~Before(v, b))
  BY <1>1, Ordered
<1>3. /\ ~Before(v, b) /\ Before(v, UpperBoundForTilde(b)) => v.major = b.major /\ v.minor = b.minor
      /\ b.minor # MaxPart /\ v.major = b.major /\ v.minor = b.minor => Before(v, UpperBoundForTilde(b))
  BY <1>1, TildeMeans
<1>4. /\ ~Before(v, b) /\ Before(v, UpperBoundForCaret(b)) => SameLeading(b, v)
      /\ ~CaretLimit(b) /\ SameLeading(b, v) => Before(v, UpperBoundForCaret(b))
  BY <1>1, CaretMeans
<1> HIDE DEF b, c
<1>5. CASE s.prefix \in {"", "="}
  <2>1. c.op = "exact"
    BY <1>1, <1>5 DEF OpOf
  <2>2. Means(s, v) <=> v = b
    BY <1>5 DEF Means, b
  <2>3. SatisfiesComparator(v, c) <=> v = b
    BY <1>1, <2>1 DEF SatisfiesComparator
  <2> QED BY <2>2, <2>3 DEF c
<1>6. CASE s.prefix = ">"
  <2>1. c.op = "greater"
    BY <1>1, <1>6 DEF OpOf
  <2>2. Means(s, v) <=> Before(b, v)
    BY <1>6 DEF Means, b
  <2>3. SatisfiesComparator(v, c) <=> Before(b, v)
    BY <1>1, <2>1 DEF SatisfiesComparator
  <2> QED BY <2>2, <2>3 DEF c
<1>7. CASE s.prefix = ">="
  <2>1. c.op = "greater equal"
    BY <1>1, <1>7 DEF OpOf
  <2>2. Means(s, v) <=> b = v \/ Before(b, v)
    BY <1>7 DEF Means, b
  <2>3. SatisfiesComparator(v, c) <=> ~Before(v, b)
    BY <1>1, <2>1 DEF SatisfiesComparator
  <2> QED BY <1>2, <2>2, <2>3 DEF c
<1>8. CASE s.prefix = "<"
  <2>1. c.op = "less"
    BY <1>1, <1>8 DEF OpOf
  <2>2. Means(s, v) <=> Before(v, b)
    BY <1>8 DEF Means, b
  <2>3. SatisfiesComparator(v, c) <=> Before(v, b)
    BY <1>1, <2>1 DEF SatisfiesComparator
  <2> QED BY <2>2, <2>3 DEF c
<1>9. CASE s.prefix = "<="
  <2>1. c.op = "less equal"
    BY <1>1, <1>9 DEF OpOf
  <2>2. Means(s, v) <=> v = b \/ Before(v, b)
    BY <1>9 DEF Means, b
  <2>3. SatisfiesComparator(v, c) <=> ~Before(b, v)
    BY <1>1, <2>1 DEF SatisfiesComparator
  <2> QED BY <1>2, <2>2, <2>3 DEF c
<1>10. CASE s.prefix = "^"
  <2>1. c.op = "caret"
    BY <1>1, <1>10 DEF OpOf
  <2>2. Means(s, v) <=> (b = v \/ Before(b, v)) /\ SameLeading(b, v)
    BY <1>10 DEF Means, SameLeading, b
  <2>3. SatisfiesComparator(v, c) <=> ~Before(v, b) /\ Before(v, UpperBoundForCaret(b))
    BY <1>1, <2>1 DEF SatisfiesComparator
  <2>4. ~AtLimit(s) => ~CaretLimit(b)
    BY <1>10 DEF AtLimit, CaretLimit, b
  <2> QED BY <1>2, <1>4, <2>2, <2>3, <2>4 DEF c
<1>11. CASE s.prefix = "~"
  <2>1. c.op = "tilde"
    BY <1>1, <1>11 DEF OpOf
  <2>2. Means(s, v) <=> (b = v \/ Before(b, v)) /\ v.major = b.major /\ v.minor = b.minor
    BY <1>11 DEF Means, b
  <2>3. SatisfiesComparator(v, c) <=> ~Before(v, b) /\ Before(v, UpperBoundForTilde(b))
    BY <1>1, <2>1 DEF SatisfiesComparator
  <2>4. ~AtLimit(s) => b.minor # MaxPart
    BY <1>11 DEF AtLimit, b
  <2> QED BY <1>2, <1>3, <2>2, <2>3, <2>4 DEF c
<1> QED BY <1>1, <1>5, <1>6, <1>7, <1>8, <1>9, <1>10, <1>11 DEF Marks

(* An exact segment means its version alone.                               *)
LEMMA ExactMeans ==
  ASSUME NEW s \in Good, ComparatorOf(s).op = "exact", NEW v, Means(s, v)
  PROVE  v = ComparatorOf(s).version
<1>1. s.prefix \in {"", "="}
  BY Parses DEF OpOf, Marks
<1> QED BY <1>1, Parses DEF Means

(* No version a segment means is lower than its bound.                     *)
LEMMA BoundMeans ==
  ASSUME NEW s \in Good, Contributes(ComparatorOf(s)), NEW v \in Version, Means(s, v)
  PROVE  LowerBound(ComparatorOf(s)) \in Version /\ ~Before(v, LowerBound(ComparatorOf(s)))
<1> DEFINE b == VersionOf(s.parts)
<1>1. b \in Version /\ ComparatorOf(s).version = b /\ ComparatorOf(s).op = OpOf(s.prefix)
  BY Parses
<1>2. s.prefix \in {">", ">=", "^", "~"}
  BY <1>1, Parses DEF Contributes, OpOf, Marks
<1>3. CASE s.prefix = ">"
  <2>1. LowerBound(ComparatorOf(s)) = BumpPatch(b) /\ Before(b, v)
    BY <1>1, <1>3 DEF LowerBound, OpOf, Means
  <2>2. Before(b, v) => ~Before(v, BumpPatch(b))
    BY <1>1, MaxPartAssumption DEF BumpPatch, Increment, Before, V, Version
  <2> QED BY <1>1, <2>1, <2>2, Bounds
<1>4. CASE s.prefix \in {">=", "^", "~"}
  <2>1. LowerBound(ComparatorOf(s)) = b /\ (b = v \/ Before(b, v))
    BY <1>1, <1>4 DEF LowerBound, OpOf, Means
  <2> QED BY <1>1, <2>1, Ordered
<1> QED BY <1>2, <1>3, <1>4

(* A candidate that is not below the bounds and still does not satisfy a   *)
(* comparator is too high, and so is every version that is not below it.   *)
LEMMA TooHigh ==
  ASSUME NEW s \in Good, ~AtLimit(s), ComparatorOf(s).op # "exact",
         NEW u \in Version, ~SatisfiesComparator(u, ComparatorOf(s)),
         Contributes(ComparatorOf(s)) => ~Before(u, LowerBound(ComparatorOf(s))),
         NEW v \in Version, ~Before(v, u)
  PROVE  ~Means(s, v)
<1> DEFINE c == ComparatorOf(s)
           b == VersionOf(s.parts)
<1>1. b \in Version /\ c.version = b /\ c.op = OpOf(s.prefix) /\ c.op \in Ops \ {"exact"} /\ s.prefix \in Marks
  BY Parses DEF Comparator
<1>2. SUFFICES ~SatisfiesComparator(v, c)
  BY Sound
<1>3. Contributes(c) => ~Before(u, LowerBound(c))
  OBVIOUS
<1>4. ~SatisfiesComparator(u, c)
  OBVIOUS
<1>5. s.prefix = ">" => b.patch # MaxPart
  BY DEF AtLimit
<1>6. c.op = "greater" => s.prefix = ">"
  BY <1>1 DEF OpOf, Marks
<1> HIDE DEF b, c
<1>7. CASE c.op = "greater"
  <2>1. ~Before(u, BumpPatch(b)) /\ ~Before(b, u)
    BY <1>1, <1>3, <1>4, <1>7 DEF Contributes, LowerBound, SatisfiesComparator
  <2>2. b.patch # MaxPart => Before(b, BumpPatch(b))
    BY <1>1, MaxPartAssumption DEF BumpPatch, Increment, Before, V, Version
  <2>3. BumpPatch(b) \in Version
    BY <1>1, Bounds
  <2> QED BY <1>1, <1>5, <1>6, <1>7, <2>1, <2>2, <2>3, Ordered
<1>8. CASE c.op = "greater equal"
  BY <1>1, <1>3, <1>4, <1>8 DEF Contributes, LowerBound, SatisfiesComparator
<1>9. CASE c.op = "less"
  <2>1. ~Before(u, b)
    BY <1>1, <1>4, <1>9 DEF SatisfiesComparator
  <2>2. ~Before(v, b)
    BY <1>1, <2>1, Ordered
  <2> QED BY <1>1, <1>9, <2>2 DEF SatisfiesComparator
<1>10. CASE c.op = "less equal"
  <2>1. Before(b, u)
    BY <1>1, <1>4, <1>10 DEF SatisfiesComparator
  <2>2. Before(b, v)
    BY <1>1, <2>1, Ordered
  <2> QED BY <1>1, <1>10, <2>2 DEF SatisfiesComparator
<1>11. CASE c.op = "caret"
  <2>1. ~Before(u, UpperBoundForCaret(b)) /\ UpperBoundForCaret(b) \in Version
    BY <1>1, <1>3, <1>4, <1>11, Bounds DEF Contributes, LowerBound, SatisfiesComparator
  <2>2. ~Before(v, UpperBoundForCaret(b))
    BY <2>1, Ordered
  <2> QED BY <1>1, <1>11, <2>2 DEF SatisfiesComparator
<1>12. CASE c.op = "tilde"
  <2>1. ~Before(u, UpperBoundForTilde(b)) /\ UpperBoundForTilde(b) \in Version
    BY <1>1, <1>3, <1>4, <1>12, Bounds DEF Contributes, LowerBound, SatisfiesComparator
  <2>2. ~Before(v, UpperBoundForTilde(b))
    BY <2>1, Ordered
  <2> QED BY <1>1, <1>12, <2>2 DEF SatisfiesComparator
<1> QED BY <1>1, <1>7, <1>8, <1>9, <1>10, <1>11, <1>12 DEF Ops
-----------------------------------------------------------------------------
(* The inductive invariant.  What has been parsed is what was asked for;   *)
(* and the candidate is the exact version there is, or no version asked    *)
(* for is lower and no bound so far is higher.                             *)
Translated(n) ==
  /\ n \in Nat /\ DOMAIN comparators = 1..n
  /\ 1..n \subseteq DOMAIN Segments
  /\ \A i \in 1..n : Segments[i] \in Good /\ comparators[i] = ComparatorOf(Segments[i])
Whole == Translated(Len(Segments))
NoExact(S) == \A i \in S : comparators[i].op # "exact"
IsExact == \E i \in DOMAIN comparators : comparators[i].op = "exact" /\ comparators[i].version = candidate
Low == \A v \in Version : Meant(v) => ~Before(v, candidate)
Above(S) ==
  \A i \in S : Contributes(comparators[i]) => hasCandidate /\ ~Before(candidate, LowerBound(comparators[i]))
Done == DOMAIN comparators \cap 1..(at - 1)

Inv ==
  /\ asked \in RequirementTexts /\ at \in Nat \ {0}
  /\ candidate \in Version /\ hasCandidate \in BOOLEAN
  /\ stage \in {"parse", "exact", "bounds", "check", "done"}
  /\ stage # "done" => answer = NoAnswer
  /\ stage = "parse" =>
       Translated(at - 1) /\ comparators \in Seq(Comparator) /\ ~hasCandidate /\ candidate = Zero
  /\ stage \in {"exact", "bounds", "check"} => Whole
  /\ stage = "exact" =>
       (hasCandidate => IsExact) /\ (~hasCandidate => NoExact(Done) /\ candidate = Zero)
  /\ stage = "bounds" => NoExact(DOMAIN comparators) /\ Low /\ Above(Done)
  /\ stage = "check" => IsExact \/ (NoExact(DOMAIN comparators) /\ Low /\ Above(DOMAIN comparators))
  /\ stage = "done" => LeastOrNone
-----------------------------------------------------------------------------
LEMMA Text ==
  ASSUME Inv
  PROVE  /\ Segments \in Seq(Segment) /\ DOMAIN Segments = 1..Len(Segments) /\ Len(Segments) \in Nat
         /\ asked.any => Segments = << >>
  BY RequirementsAssumption DEF Inv, Segments

LEMMA WholeText ==
  ASSUME Inv, Whole
  PROVE  /\ DOMAIN comparators = DOMAIN Segments
         /\ \A i \in DOMAIN Segments : Segments[i] \in Good /\ comparators[i] = ComparatorOf(Segments[i])
  BY Text DEF Whole, Translated

LEMMA SatisfiedMeant ==
  ASSUME Inv, Whole, NEW v \in Version
  PROVE  /\ Satisfies(v) => Meant(v)
         /\ (\A i \in DOMAIN Segments : ~AtLimit(Segments[i])) /\ Meant(v) => Satisfies(v)
  BY WholeText, Sound DEF Satisfies, Meant

(* Every version meant is the exact one, where there is one.               *)
LEMMA ExactMeant ==
  ASSUME Inv, Whole, NEW i \in DOMAIN comparators, comparators[i].op = "exact", NEW v \in Version, Meant(v)
  PROVE  v = comparators[i].version
  BY WholeText, ExactMeans DEF Meant

LEMMA ParseSegmentKeeps == ASSUME Inv, ParseSegment PROVE Inv'
<1>1. /\ stage = "parse" /\ at \in DOMAIN Segments /\ WellFormed(Segments[at].parts)
      /\ comparators' = Append(comparators, ComparatorOf(Segments[at])) /\ at' = at + 1
      /\ asked' = asked /\ candidate' = candidate /\ hasCandidate' = hasCandidate
      /\ stage' = stage /\ answer' = answer /\ Segments' = Segments
  BY DEF ParseSegment, Segments
<1>2. /\ Translated(at - 1) /\ comparators \in Seq(Comparator) /\ at \in Nat \ {0}
  BY <1>1 DEF Inv
<1>3. Segments[at] \in Good
  BY <1>1, Text DEF Good
<1>4. ComparatorOf(Segments[at]) \in Comparator
  BY <1>3, Parses
<1>5. Len(comparators) = at - 1
  BY <1>2 DEF Translated
<1>6. comparators' \in Seq(Comparator) /\ DOMAIN comparators' = 1..at
  BY <1>1, <1>2, <1>4, <1>5
<1>7. \A i \in 1..at : Segments[i] \in Good /\ comparators'[i] = ComparatorOf(Segments[i])
  BY <1>1, <1>2, <1>3, <1>5 DEF Translated
<1>8. 1..at \subseteq DOMAIN Segments
  BY <1>1, Text
<1>9. Translated(at - 1)'
  BY <1>1, <1>2, <1>6, <1>7, <1>8 DEF Translated
<1> QED BY <1>1, <1>6, <1>9 DEF Inv

(* Steps that walk on, and steps that go to the next stage.                *)
LEMMA StepTypes ==
  ASSUME Inv, NEW v \in Version, NEW has \in BOOLEAN, stage \in {"exact", "bounds"}, WalkOn(v, has)
  PROVE  /\ asked' \in RequirementTexts /\ at' \in Nat \ {0} /\ candidate' = v /\ hasCandidate' = has
         /\ stage' = stage /\ answer' = NoAnswer /\ comparators' = comparators /\ Segments' = Segments
         /\ Whole' /\ Done' = DOMAIN comparators \cap 1..at
<1>1. /\ asked' = asked /\ at' = at + 1 /\ candidate' = v /\ hasCandidate' = has
      /\ stage' = stage /\ answer' = answer /\ comparators' = comparators
  BY DEF WalkOn
<1>2. Segments' = Segments
  BY <1>1 DEF Segments
<1>3. Whole'
  BY <1>1, <1>2 DEF Inv, Whole, Translated
<1>4. at \in Nat \ {0} /\ asked \in RequirementTexts /\ answer = NoAnswer
  BY DEF Inv
<1>5. Done' = DOMAIN comparators \cap 1..at
  BY <1>1, <1>4 DEF Done
<1> QED BY <1>1, <1>2, <1>3, <1>4, <1>5

LEMMA More1 ==
  ASSUME Inv, NEW i \in DOMAIN comparators \cap 1..at
  PROVE  i \in Done \/ i = at
  BY DEF Inv, Done

LEMMA ExactKeeps ==
  ASSUME Inv, NotExact \/ FirstExact \/ SameExact
  PROVE  Inv'
<1>1. stage = "exact" /\ Whole /\ at \in DOMAIN comparators /\ candidate \in Version /\ hasCandidate \in BOOLEAN
  BY DEF NotExact, FirstExact, SameExact, More, Inv
<1>2. AtHand = ComparatorOf(Segments[at]) /\ Segments[at] \in Good /\ AtHand = comparators[at]
  BY <1>1, WholeText DEF AtHand
<1>3. AtHand.version \in Version
  BY <1>2, Parses
<1>4. CASE NotExact
  <2>1. AtHand.op # "exact" /\ WalkOn(candidate, hasCandidate)
    BY <1>4 DEF NotExact
  <2>2. hasCandidate' => IsExact'
    BY <1>1, <2>1, StepTypes DEF Inv, IsExact
  <2>3. ~hasCandidate' => NoExact(Done)' /\ candidate' = Zero
    BY <1>1, <1>2, <2>1, StepTypes, More1 DEF Inv, NoExact
  <2> QED BY <1>1, <2>1, <2>2, <2>3, StepTypes DEF Inv
<1>5. CASE FirstExact \/ SameExact
  <2>1. AtHand.op = "exact" /\ WalkOn(AtHand.version, TRUE)
    BY <1>1, <1>5 DEF FirstExact, SameExact
  <2>2. IsExact'
    BY <1>1, <1>2, <1>3, <2>1, StepTypes DEF IsExact
  <2> QED BY <1>1, <1>3, <2>1, <2>2, StepTypes DEF Inv
<1> QED BY <1>4, <1>5

LEMMA BoundKeeps == ASSUME Inv, Bound PROVE Inv'
<1>1. stage = "bounds" /\ Whole /\ at \in DOMAIN comparators /\ candidate \in Version /\ hasCandidate \in BOOLEAN
  BY DEF Bound, More, Inv
<1>2. NoExact(DOMAIN comparators) /\ Low /\ Above(Done)
  BY <1>1 DEF Inv
<1>3. AtHand = ComparatorOf(Segments[at]) /\ Segments[at] \in Good /\ AtHand = comparators[at]
      /\ at \in DOMAIN Segments
  BY <1>1, WholeText DEF AtHand
<1>4. \A i \in DOMAIN comparators : Contributes(comparators[i]) =>
        \A v \in Version : Meant(v) => ~Before(v, LowerBound(comparators[i]))
  BY <1>1, WholeText, BoundMeans DEF Meant
<1>5. \A v \in Version : Meant(v)' <=> Meant(v)
  BY DEF Bound, WalkOn, Meant, Segments
<1>6. CASE Contributes(AtHand) /\ (~hasCandidate \/ Before(candidate, LowerBound(AtHand)))
  <2> DEFINE b == LowerBound(AtHand)
  <2>1. b \in Version
    <3>1. AtHand.version \in Version
      BY <1>3, Parses
    <3> QED BY <3>1, Bounds DEF LowerBound
  <2>2. WalkOn(b, TRUE)
    BY <1>6 DEF Bound
  <2>3. \A v \in Version : Meant(v) => ~Before(v, b)
    BY <1>1, <1>3, <1>4, <1>6
  <2>4. \A i \in Done : Contributes(comparators[i]) => ~Before(b, LowerBound(comparators[i]))
    <3> SUFFICES ASSUME NEW i \in Done, Contributes(comparators[i])
                 PROVE  ~Before(b, LowerBound(comparators[i]))
      OBVIOUS
    <3>1. hasCandidate /\ ~Before(candidate, LowerBound(comparators[i])) /\ Before(candidate, b)
      BY <1>2, <1>6 DEF Above
    <3>2. LowerBound(comparators[i]) \in Version
      <4>1. i \in DOMAIN Segments /\ comparators[i] = ComparatorOf(Segments[i]) /\ Segments[i] \in Good
        BY <1>1, WholeText DEF Done
      <4>2. comparators[i].version \in Version
        BY <4>1, Parses
      <4> QED BY <4>2, Bounds DEF LowerBound
    <3> QED BY <1>1, <2>1, <3>1, <3>2, Ordered
  <2>5. ~Before(b, b)
    BY <2>1, Ordered
  <2> HIDE DEF b
  <2>6. candidate' = b /\ hasCandidate' /\ comparators' = comparators /\ Done' = DOMAIN comparators \cap 1..at
    BY <1>1, <2>1, <2>2, StepTypes
  <2>7. Low'
    BY <1>5, <2>3, <2>6 DEF Low
  <2>8. Above(Done)'
    <3> SUFFICES ASSUME NEW i \in DOMAIN comparators \cap 1..at, Contributes(comparators[i])
                 PROVE  ~Before(b, LowerBound(comparators[i]))
      BY <2>6 DEF Above
    <3>1. CASE i \in Done
      BY <2>4, <3>1
    <3>2. CASE i = at
      BY <1>3, <2>5, <3>2 DEF b
    <3> QED BY <3>1, <3>2, More1
  <2> QED BY <1>1, <1>2, <2>1, <2>2, <2>6, <2>7, <2>8, StepTypes DEF Inv, NoExact
<1>7. CASE ~(Contributes(AtHand) /\ (~hasCandidate \/ Before(candidate, LowerBound(AtHand))))
  <2>1. WalkOn(candidate, hasCandidate)
    BY <1>7 DEF Bound
  <2>2. /\ candidate' = candidate /\ hasCandidate' = hasCandidate
        /\ comparators' = comparators /\ Done' = DOMAIN comparators \cap 1..at
    BY <1>1, <2>1, StepTypes
  <2>3. Low'
    BY <1>2, <1>5, <2>2 DEF Low
  <2>4. Above(Done)'
    <3> SUFFICES ASSUME NEW i \in DOMAIN comparators \cap 1..at, Contributes(comparators[i])
                 PROVE  hasCandidate /\ ~Before(candidate, LowerBound(comparators[i]))
      BY <2>2 DEF Above
    <3>1. CASE i \in Done
      BY <1>2, <3>1 DEF Above
    <3>2. CASE i = at
      BY <1>3, <1>7, <3>2
    <3> QED BY <3>1, <3>2, More1
  <2> QED BY <1>1, <1>2, <2>1, <2>2, <2>3, <2>4, StepTypes DEF Inv, NoExact
<1> QED BY <1>6, <1>7

(* Steps that go to the next stage.                                        *)
LEMMA ToTypes ==
  ASSUME Inv, NEW next \in {"exact", "bounds", "check"}, stage # "done", Whole, To(next)
  PROVE  /\ asked' \in RequirementTexts /\ at' = 1 /\ candidate' = candidate /\ hasCandidate' = hasCandidate
         /\ stage' = next /\ answer' = NoAnswer /\ comparators' = comparators /\ Segments' = Segments
         /\ Whole' /\ Done' = {} /\ \A v : Meant(v)' <=> Meant(v)
<1>1. /\ asked' = asked /\ at' = 1 /\ candidate' = candidate /\ hasCandidate' = hasCandidate
      /\ stage' = next /\ answer' = answer /\ comparators' = comparators /\ Segments' = Segments
  BY DEF To, Segments
<1>2. Whole' /\ \A v : Meant(v)' <=> Meant(v)
  BY <1>1 DEF Whole, Translated, Meant
<1>3. Done' = {}
  BY <1>1 DEF Done
<1> QED BY <1>1, <1>2, <1>3 DEF Inv

LEMMA ParsedKeeps == ASSUME Inv, Parsed PROVE Inv'
<1>1. stage = "parse" /\ Translated(at - 1) /\ ~hasCandidate /\ candidate = Zero /\ at \in Nat \ {0} /\ To("exact")
  BY DEF Parsed, Inv
<1>2. Whole
  <2>1. CASE asked.any
    <3>1. Segments = << >>
      BY <2>1, Text
    <3>2. at = 1
      BY <1>1, <3>1 DEF Translated
    <3> QED BY <1>1, <3>1, <3>2 DEF Whole
  <2>2. CASE Segments # << >> /\ at \notin DOMAIN Segments
    <3>1. at - 1 <= Len(Segments)
      BY <1>1, Text DEF Translated
    <3>2. at - 1 = Len(Segments)
      BY <1>1, <2>2, <3>1, Text
    <3> QED BY <1>1, <3>2 DEF Whole
  <2> QED BY <2>1, <2>2 DEF Parsed
<1> QED BY <1>1, <1>2, ToTypes DEF Inv, NoExact

LEMMA ExactDoneKeeps == ASSUME Inv, ExactDone PROVE Inv'
<1>1. stage = "exact" /\ Whole /\ at \notin DOMAIN comparators /\ at \in Nat \ {0}
  BY DEF ExactDone, More, Inv
<1>2. CASE hasCandidate
  <2>1. To("check") /\ IsExact
    BY <1>1, <1>2 DEF ExactDone, Inv
  <2>2. IsExact'
    BY <1>1, <2>1, ToTypes DEF IsExact
  <2> QED BY <1>1, <2>1, <2>2, ToTypes DEF Inv
<1>3. CASE ~hasCandidate
  <2>1. To("bounds") /\ NoExact(Done) /\ candidate = Zero
    BY <1>1, <1>3 DEF ExactDone, Inv
  <2>2. NoExact(DOMAIN comparators)
    <3>1. DOMAIN comparators = 1..Len(Segments) /\ Len(Segments) \in Nat
      BY <1>1, WholeText, Text
    <3>2. Done = DOMAIN comparators
      BY <1>1, <3>1 DEF Done
    <3> QED BY <2>1, <3>2
  <2>3. \A v \in Version : ~Before(v, Zero)
    BY ZeroVersion, Ordered
  <2>4. NoExact(DOMAIN comparators)' /\ Low' /\ Above(Done)'
    BY <1>1, <2>1, <2>2, <2>3, ToTypes DEF NoExact, Low, Above
  <2> QED BY <1>1, <2>1, <2>4, ToTypes DEF Inv
<1> QED BY <1>2, <1>3

LEMMA BoundsDoneKeeps == ASSUME Inv, BoundsDone PROVE Inv'
<1>1. /\ stage = "bounds" /\ Whole /\ at \notin DOMAIN comparators /\ at \in Nat \ {0} /\ To("check")
      /\ NoExact(DOMAIN comparators) /\ Low /\ Above(Done)
  BY DEF BoundsDone, More, Inv
<1>2. DOMAIN comparators = 1..Len(Segments) /\ Len(Segments) \in Nat
  BY <1>1, WholeText, Text
<1>3. Done = DOMAIN comparators
  BY <1>1, <1>2 DEF Done
<1>4. NoExact(DOMAIN comparators)' /\ Low' /\ Above(DOMAIN comparators)'
  BY <1>1, <1>3, ToTypes DEF NoExact, Low, Above
<1> QED BY <1>1, <1>4, ToTypes DEF Inv

LEMMA RejectKeeps == ASSUME Inv, Reject PROVE Inv'
<1>1. /\ stage' = "done" /\ answer' = [kind |-> "invalid", version |-> Zero]
      /\ asked' = asked /\ at' = at /\ candidate' = candidate /\ hasCandidate' = hasCandidate
  BY DEF Reject, Answer
<1>2. LeastOrNone'
  BY <1>1 DEF LeastOrNone
<1> QED BY <1>1, <1>2 DEF Inv

(* An answer that is right.                                                *)
LEMMA AnswerKeeps ==
  ASSUME Inv, NEW kind \in {"version", "conflict", "unresolved"}, NEW u \in Version, Answer(kind, u),
         kind = "version" => Meant(u) /\ \A v \in Version : Meant(v) => ~Before(v, u),
         kind # "version" /\ (\A i \in DOMAIN Segments : ~AtLimit(Segments[i])) =>
           \A v \in Version : ~Meant(v)
  PROVE  Inv'
<1>1. /\ stage' = "done" /\ answer' = [kind |-> kind, version |-> u]
      /\ asked' = asked /\ at' = at /\ candidate' = candidate /\ hasCandidate' = hasCandidate
  BY DEF Answer
<1>2. Segments' = Segments /\ \A v : Meant(v)' <=> Meant(v)
  BY <1>1 DEF Segments, Meant
<1>3. LeastOrNone'
  BY <1>1, <1>2 DEF LeastOrNone
<1> QED BY <1>1, <1>3 DEF Inv

LEMMA InferAnyKeeps == ASSUME Inv, InferAny PROVE Inv'
<1>1. Segments = << >> /\ Answer("version", Zero)
  BY Text DEF InferAny
<1>2. Meant(Zero)
  BY <1>1 DEF Meant
<1>3. \A v \in Version : ~Before(v, Zero)
  BY ZeroVersion, Ordered
<1> QED BY <1>1, <1>2, <1>3, ZeroVersion, AnswerKeeps

LEMMA ConflictKeeps == ASSUME Inv, Conflict PROVE Inv'
<1>1. /\ stage = "exact" /\ Whole /\ at \in DOMAIN comparators /\ comparators[at].op = "exact"
      /\ IsExact /\ candidate # comparators[at].version /\ Answer("conflict", Zero)
  BY DEF Conflict, More, AtHand, Inv
<1>2. PICK i \in DOMAIN comparators : comparators[i].op = "exact" /\ comparators[i].version = candidate
  BY <1>1 DEF IsExact
<1>3. \A v \in Version : ~Meant(v)
  BY <1>1, <1>2, ExactMeant
<1> QED BY <1>1, <1>3, ZeroVersion, AnswerKeeps

LEMMA DecideKeeps == ASSUME Inv, Decide PROVE Inv'
<1>1. stage = "check" /\ Whole /\ candidate \in Version
  BY DEF Decide, Inv
<1>2. Low
  <2>1. CASE IsExact
    <3>1. \A v \in Version : Meant(v) => v = candidate
      BY <1>1, <2>1, ExactMeant DEF IsExact
    <3>2. ~Before(candidate, candidate)
      BY <1>1, Ordered
    <3> QED BY <3>1, <3>2 DEF Low
  <2> QED BY <1>1, <2>1 DEF Inv
<1>3. CASE Satisfies(candidate)
  <2>1. Answer("version", candidate)
    BY <1>3 DEF Decide
  <2>2. Meant(candidate)
    BY <1>1, <1>3, SatisfiedMeant
  <2> QED BY <1>1, <1>2, <2>1, <2>2, AnswerKeeps DEF Low
<1>4. CASE ~Satisfies(candidate)
  <2>1. Answer("unresolved", Zero)
    BY <1>4 DEF Decide
  <2>2. ASSUME \A i \in DOMAIN Segments : ~AtLimit(Segments[i]), NEW v \in Version, Meant(v)
        PROVE  FALSE
    <3>1. CASE IsExact
      <4>1. v = candidate
        BY <1>1, <2>2, <3>1, ExactMeant DEF IsExact
      <4> QED BY <1>1, <1>4, <2>2, <4>1, SatisfiedMeant
    <3>2. CASE NoExact(DOMAIN comparators) /\ Above(DOMAIN comparators)
      <4>1. PICK i \in DOMAIN comparators : ~SatisfiesComparator(candidate, comparators[i])
        BY <1>4 DEF Satisfies
      <4>2. /\ i \in DOMAIN Segments /\ Segments[i] \in Good /\ comparators[i] = ComparatorOf(Segments[i])
            /\ ~AtLimit(Segments[i]) /\ Means(Segments[i], v)
        BY <1>1, <2>2, WholeText DEF Meant
      <4>3. /\ comparators[i].op # "exact"
            /\ Contributes(comparators[i]) => ~Before(candidate, LowerBound(comparators[i]))
        BY <3>2 DEF NoExact, Above
      <4>4. ~Before(v, candidate)
        BY <1>2, <2>2 DEF Low
      <4>5. ~Means(Segments[i], v)
        BY <1>1, <2>2, <4>1, <4>2, <4>3, <4>4, TooHigh
      <4> QED BY <4>2, <4>5
    <3> QED BY <1>1, <3>1, <3>2 DEF Inv
  <2>3. (\A i \in DOMAIN Segments : ~AtLimit(Segments[i])) => \A v \in Version : ~Meant(v)
    BY <2>2
  <2> QED BY <2>1, <2>3, ZeroVersion, AnswerKeeps
<1> QED BY <1>3, <1>4

(* inferResolvedVersion, after parseSemverRequirement: the version it      *)
(* gives is the least of those the requirement means, and it fails only    *)
(* when there is none or a number is the greatest an int can be.           *)
THEOREM InfersLeast == SemverSpec => []LeastOrNone
<1>1. SemverInit => Inv
  <2>1. DOMAIN << >> = 1..0 /\ << >> \in Seq(Comparator)
    OBVIOUS
  <2> SUFFICES ASSUME SemverInit PROVE Inv
    OBVIOUS
  <2>2. at = 1 /\ comparators = << >> /\ stage = "parse" /\ asked \in RequirementTexts /\ answer = NoAnswer
        /\ candidate = Zero /\ hasCandidate = FALSE
    BY DEF SemverInit
  <2>3. Translated(0)
    BY <2>1, <2>2 DEF Translated
  <2>4. Translated(at - 1) /\ comparators \in Seq(Comparator)
    BY <2>1, <2>2, <2>3
  <2>5. stage \notin {"exact", "bounds", "check", "done"} /\ at \in Nat \ {0}
    BY <2>2
  <2>6. hasCandidate \in BOOLEAN /\ ~hasCandidate
    BY <2>2, Zenon
  <2>7. stage \in {"parse", "exact", "bounds", "check", "done"}
    BY <2>2
  <2> QED BY ONLY <2>2, <2>4, <2>5, <2>6, <2>7, ZeroVersion DEF Inv
<1>2. Inv /\ [SemverNext]_semverVars => Inv'
  <2> SUFFICES ASSUME Inv, [SemverNext]_semverVars PROVE Inv'
    OBVIOUS
  <2>1. CASE SemverNext
    BY <2>1, ParseSegmentKeeps, RejectKeeps, ParsedKeeps, InferAnyKeeps, ExactKeeps, ConflictKeeps,
       ExactDoneKeeps, BoundKeeps, BoundsDoneKeeps, DecideKeeps DEF SemverNext
  <2>2. CASE UNCHANGED semverVars
    <3>1. Segments' = Segments
      BY <2>2 DEF semverVars, Segments
    <3>2. /\ asked' = asked /\ comparators' = comparators /\ at' = at /\ candidate' = candidate
          /\ hasCandidate' = hasCandidate /\ stage' = stage /\ answer' = answer
      BY <2>2 DEF semverVars
    <3>3. Translated(at - 1)' = Translated(at - 1) /\ Whole' = Whole
      BY <3>1, <3>2 DEF Translated, Whole
    <3>4. NoExact(DOMAIN comparators)' = NoExact(DOMAIN comparators) /\ NoExact(Done)' = NoExact(Done)
          /\ IsExact' = IsExact
      BY <3>2 DEF NoExact, IsExact, Done
    <3>5. Meant(candidate)' = Meant(candidate) /\ \A v : Meant(v)' = Meant(v)
      BY <3>1, <3>2 DEF Meant
    <3>6. Low' = Low /\ Above(Done)' = Above(Done) /\ Above(DOMAIN comparators)' = Above(DOMAIN comparators)
      BY <3>2, <3>5 DEF Low, Above, Done
    <3>7. LeastOrNone' = LeastOrNone
      BY <3>1, <3>2, <3>5 DEF LeastOrNone
    <3> QED BY <3>2, <3>3, <3>4, <3>6, <3>7 DEF Inv
  <2> QED BY <2>1, <2>2
<1>3. Inv => LeastOrNone
  BY DEF Inv, LeastOrNone, NoAnswer
<1> QED BY <1>1, <1>2, <1>3, PTL DEF SemverSpec
=============================================================================
