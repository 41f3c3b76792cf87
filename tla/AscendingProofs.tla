--------------------------- MODULE AscendingProofs ---------------------------
(***************************************************************************)
(* Induction over the natural numbers, stated for a set instead of a       *)
(* predicate, and what it shows of Ascending; finite sets in order; and    *)
(* sequences taken apart at their first element.                           *)
(***************************************************************************)
EXTENDS Ascending, FiniteSetTheorems, FunctionTheorems, SequenceTheorems, TLAPS

(* If n were missing, adding one would map the k <= n of S into those that *)
(* are not 0, one fewer.                                                   *)
LEMMA NatSetInduction ==
  ASSUME NEW S, 0 \in S, \A n \in Nat : n \in S => n + 1 \in S
  PROVE  Nat \subseteq S
<1> SUFFICES ASSUME NEW n \in Nat, n \notin S PROVE FALSE
  OBVIOUS
<1> DEFINE A == {k \in 0..n : k \in S}
           B == A \ {0}
           f == [k \in A |-> k + 1]
<1>1. A \subseteq 0..n /\ IsFiniteSet(0..n)
  BY FS_Interval
<1>2. IsFiniteSet(A) /\ 0 \in A
  BY <1>1, FS_Subset
<1>3. IsFiniteSet(B) /\ Cardinality(B) = Cardinality(A) - 1 /\ Cardinality(A) \in Nat
  BY <1>2, FS_RemoveElement, FS_CardinalityType
<1>4. \A k \in A : k + 1 \in B
  <2> TAKE k \in A
  <2>1. k \in Nat /\ k \in S /\ k + 1 \in S /\ k # n /\ k <= n
    OBVIOUS
  <2> QED BY <2>1
<1>5. f \in [A -> B]
  BY <1>4
<1>6. \A j, k \in A : f[j] = f[k] => j = k
  OBVIOUS
<1>7. f \in Injection(A, B)
  BY <1>5, <1>6, Fun_IsInj DEF Injection, IsInjective
<1>8. Cardinality(A) <= Cardinality(B)
  BY <1>2, <1>3, <1>7, FS_Injection
<1> QED BY <1>3, <1>8
-----------------------------------------------------------------------------
(* f is what the loop has kept before each of the places up to n.          *)
IsScan(f, S, n) ==
  /\ f \in [0..n -> Seq(Nat)]
  /\ f[0] = << >>
  /\ \A i \in 1..n : f[i] = IF i \in S THEN Append(f[i - 1], i) ELSE f[i - 1]

LEMMA ScanExists ==
  ASSUME NEW S, NEW n \in Nat
  PROVE  \E f : IsScan(f, S, n)
<1> DEFINE M == {m \in Nat : \E f : IsScan(f, S, m)}
<1>1. 0 \in M
  <2>1. IsScan([i \in 0..0 |-> << >>], S, 0)
    BY DEF IsScan
  <2> QED BY <2>1
<1>2. ASSUME NEW m \in Nat, m \in M PROVE m + 1 \in M
  <2>1. PICK f : IsScan(f, S, m)
    BY <1>2
  <2> DEFINE next == IF m + 1 \in S THEN Append(f[m], m + 1) ELSE f[m]
             g == [i \in 0..(m + 1) |-> IF i = m + 1 THEN next ELSE f[i]]
  <2>2. f[m] \in Seq(Nat)
    BY <2>1 DEF IsScan
  <2>3. next \in Seq(Nat)
    BY <2>2
  <2>4. g \in [0..(m + 1) -> Seq(Nat)] /\ g[0] = << >> /\ g[m + 1] = next
    <3> HIDE DEF next
    <3> QED BY <2>1, <2>3 DEF IsScan
  <2>5. ASSUME NEW i \in 1..(m + 1)
        PROVE  g[i] = IF i \in S THEN Append(g[i - 1], i) ELSE g[i - 1]
    <3>1. g[i - 1] = f[i - 1]
      OBVIOUS
    <3>2. CASE i = m + 1
      BY <3>1, <3>2
    <3>3. CASE i # m + 1
      <4>1. i \in 1..m /\ g[i] = f[i]
        BY <3>3
      <4> QED BY <2>1, <3>1, <4>1 DEF IsScan
    <3> QED BY <3>2, <3>3
  <2> HIDE DEF g
  <2>6. IsScan(g, S, m + 1)
    BY <2>4, <2>5 DEF IsScan
  <2> QED BY <2>6
<1> HIDE DEF M
<1>3. n \in M
  BY <1>1, <1>2, NatSetInduction
<1> QED BY <1>3 DEF M

LEMMA AscendingIsScan ==
  ASSUME NEW S, NEW n \in Nat
  PROVE  \E f : IsScan(f, S, n) /\ Ascending(S, n) = f[n]
<1> DEFINE Body(f) == [i \in 0..n |-> IF i = 0 THEN << >>
                         ELSE IF i \in S THEN Append(f[i - 1], i) ELSE f[i - 1]]
           upto == CHOOSE f : f = Body(f)
<1>1. PICK g : IsScan(g, S, n)
  BY ScanExists
<1>2. g = Body(g)
  <2>1. DOMAIN g = 0..n /\ g = [i \in 0..n |-> g[i]]
    BY <1>1 DEF IsScan
  <2>2. ASSUME NEW i \in 0..n PROVE g[i] = Body(g)[i]
    <3>1. CASE i = 0
      BY <1>1, <3>1 DEF IsScan
    <3>2. CASE i # 0
      <4>1. i \in 1..n
        BY <3>2
      <4> QED BY <1>1, <3>2, <4>1 DEF IsScan
    <3> QED BY <3>1, <3>2
  <2>3. DOMAIN Body(g) = 0..n /\ Body(g) = [i \in 0..n |-> Body(g)[i]]
    OBVIOUS
  <2> HIDE DEF Body
  <2>4. [i \in 0..n |-> g[i]] = [i \in 0..n |-> Body(g)[i]]
    BY <2>2
  <2> QED BY <2>1, <2>3, <2>4
<1>3. upto = Body(upto)
  <2> HIDE DEF Body
  <2> QED BY <1>2
<1>4. Ascending(S, n) = upto[n]
  BY DEF Ascending
<1> HIDE DEF upto
<1>5. /\ DOMAIN upto = 0..n /\ upto[0] = << >>
      /\ \A i \in 1..n : upto[i] = IF i \in S THEN Append(upto[i - 1], i) ELSE upto[i - 1]
  <2>1. upto = [i \in 0..n |-> IF i = 0 THEN << >>
                  ELSE IF i \in S THEN Append(upto[i - 1], i) ELSE upto[i - 1]]
    BY <1>3
  <2>2. DOMAIN upto = 0..n
    BY <2>1
  <2>3. \A i \in 0..n : upto[i] = IF i = 0 THEN << >>
                  ELSE IF i \in S THEN Append(upto[i - 1], i) ELSE upto[i - 1]
    BY <2>1
  <2>4. \A i \in 1..n : i \in 0..n /\ i # 0
    OBVIOUS
  <2>5. 0 \in 0..n
    OBVIOUS
  <2> QED BY <2>2, <2>3, <2>4, <2>5
<1>6. \A i \in 0..n : upto[i] = g[i]
  <2> DEFINE M == {i \in Nat : i <= n => upto[i] = g[i]}
  <2>1. 0 \in M
    BY <1>1, <1>5 DEF IsScan
  <2>2. ASSUME NEW i \in Nat, i \in M PROVE i + 1 \in M
    <3> SUFFICES ASSUME i + 1 <= n PROVE upto[i + 1] = g[i + 1]
      OBVIOUS
    <3>1. upto[i] = g[i] /\ i + 1 \in 1..n /\ (i + 1) - 1 = i
      BY <2>2
    <3> HIDE DEF M
    <3> QED BY <1>1, <1>5, <3>1 DEF IsScan
  <2> HIDE DEF M
  <2>3. Nat \subseteq M
    BY <2>1, <2>2, NatSetInduction
  <2> QED BY <2>3 DEF M
<1>7. \A i \in 0..n : upto[i] \in Seq(Nat)
  BY <1>1, <1>6 DEF IsScan
<1>8. IsScan(upto, S, n)
  BY <1>3, <1>5, <1>7 DEF IsScan
<1> QED BY <1>4, <1>8
-----------------------------------------------------------------------------
(* The loop keeps exactly the places in S, each once and in order.         *)
Lists(s, S) ==
  /\ s \in Seq(S)
  /\ \A i \in S : \E j \in 1..Len(s) : s[j] = i
  /\ \A i, j \in 1..Len(s) : i < j => s[i] < s[j]

LEMMA AscendingLists ==
  ASSUME NEW n \in Nat, NEW S \in SUBSET (1..n)
  PROVE  Lists(Ascending(S, n), S)
<1>1. PICK f : IsScan(f, S, n) /\ Ascending(S, n) = f[n]
  BY AscendingIsScan
<1> DEFINE Part(m) == S \cap (1..m)
           M == {m \in Nat : m <= n => Lists(f[m], Part(m))}
<1>2. 0 \in M
  <2>1. f[0] = << >> /\ Part(0) = {}
    BY <1>1 DEF IsScan
  <2>2. Lists(<< >>, {})
    BY DEF Lists
  <2> HIDE DEF Part
  <2> QED BY <2>1, <2>2
<1>3. ASSUME NEW m \in Nat, m \in M PROVE m + 1 \in M
  <2> SUFFICES ASSUME m + 1 <= n PROVE Lists(f[m + 1], Part(m + 1))
    OBVIOUS
  <2>1. Lists(f[m], Part(m)) /\ m + 1 \in 1..n /\ (m + 1) - 1 = m
    BY <1>3
  <2>2. f[m + 1] = IF m + 1 \in S THEN Append(f[m], m + 1) ELSE f[m]
    BY <1>1, <2>1 DEF IsScan
  <2>3. CASE m + 1 \notin S
    <3>1. Part(m + 1) = Part(m) /\ f[m + 1] = f[m]
      BY <2>2, <2>3
    <3> QED BY <2>1, <3>1
  <2>4. CASE m + 1 \in S
    <3> DEFINE s == f[m]
               t == f[m + 1]
    <3>1. Part(m + 1) = Part(m) \cup {m + 1} /\ t = Append(s, m + 1)
      BY <2>2, <2>4
    <3>2. s \in Seq(Part(m + 1)) /\ Len(s) \in Nat
      <4>1. s \in Seq(Part(m)) /\ Part(m) \subseteq Part(m + 1)
        BY <2>1, <3>1 DEF Lists
      <4> HIDE DEF s, Part
      <4> QED BY <4>1, SeqMonotonic
    <3>3. /\ t \in Seq(Part(m + 1)) /\ Len(t) = Len(s) + 1 /\ t[Len(s) + 1] = m + 1
          /\ \A i \in 1..Len(s) : t[i] = s[i]
      <4> DEFINE P == Part(m + 1)
      <4>1. m + 1 \in P
        BY <3>1
      <4> HIDE DEF s, t, P
      <4> QED BY <3>1, <3>2, <4>1, AppendProperties
    <3>4. \A i \in 1..Len(s) : s[i] \in Part(m)
      BY <2>1 DEF Lists
    <3>5. \A i \in 1..Len(s) : s[i] \in Nat /\ s[i] < m + 1
      BY <3>4
    <3>6. ASSUME NEW i \in Part(m + 1) PROVE \E j \in 1..Len(t) : t[j] = i
      <4>1. CASE i = m + 1
        <5>1. Len(s) + 1 \in 1..Len(t) /\ t[Len(s) + 1] = i
          <6> HIDE DEF s, t, Part
          <6> QED BY <3>2, <3>3, <4>1
        <5> HIDE DEF s, t, Part
        <5> QED BY <5>1
      <4>2. CASE i # m + 1
        <5>1. i \in Part(m)
          BY <3>1, <4>2
        <5>2. PICK j \in 1..Len(s) : s[j] = i
          BY <2>1, <5>1 DEF Lists
        <5> HIDE DEF s, t
        <5>3. j \in 1..Len(t) /\ t[j] = i
          BY <3>2, <3>3, <5>2
        <5> QED BY <5>3
      <4> QED BY <4>1, <4>2
    <3>7. ASSUME NEW i \in 1..Len(t), NEW j \in 1..Len(t), i < j PROVE t[i] < t[j]
      <4> HIDE DEF s, t, Part
      <4>1. i \in 1..Len(s)
        BY <3>2, <3>3, <3>7
      <4>2. CASE j = Len(s) + 1
        BY <3>3, <3>5, <4>1, <4>2
      <4>3. CASE j \in 1..Len(s)
        BY <2>1, <3>3, <3>7, <4>1, <4>3 DEF Lists, s
      <4> QED BY <3>2, <3>3, <4>2, <4>3
    <3> HIDE DEF s, Part
    <3> QED BY <3>3, <3>6, <3>7 DEF Lists
  <2> QED BY <2>3, <2>4
<1> HIDE DEF M
<1>4. n \in M
  BY <1>2, <1>3, NatSetInduction
<1>5. Part(n) = S
  OBVIOUS
<1>6. Lists(f[n], Part(n))
  <2> HIDE DEF Part
  <2> QED BY <1>4 DEF M
<1> QED BY <1>1, <1>5, <1>6
-----------------------------------------------------------------------------
(* A set of naturals has a least element, and a finite one can be listed   *)
(* in order.                                                               *)
LEMMA Least ==
  ASSUME NEW D, D \subseteq Nat, D # {}
  PROVE  \E m \in D : \A y \in D : m <= y
<1> DEFINE Has == \E m \in D : \A y \in D : m <= y
           M == {k \in Nat : (\E y \in D : y <= k) => Has}
<1>1. 0 \in M
  <2> SUFFICES ASSUME NEW y \in D, y <= 0 PROVE Has
    OBVIOUS
  <2>1. y = 0 /\ \A z \in D : 0 <= z
    OBVIOUS
  <2> QED BY <2>1
<1>2. ASSUME NEW k \in Nat, k \in M PROVE k + 1 \in M
  <2> SUFFICES ASSUME NEW y \in D, y <= k + 1 PROVE Has
    OBVIOUS
  <2>1. CASE \E z \in D : z <= k
    BY <1>2, <2>1
  <2>2. CASE ~\E z \in D : z <= k
    <3>1. \A z \in D : y <= z
      BY <2>2
    <3> QED BY <3>1
  <2> QED BY <2>1, <2>2
<1> HIDE DEF M, Has
<1>3. Nat \subseteq M
  BY <1>1, <1>2, NatSetInduction
<1>4. PICK x \in D : TRUE
  OBVIOUS
<1>5. x \in M /\ x <= x
  BY <1>3, <1>4
<1> QED BY <1>5 DEF M, Has

Increasing(s) == \A i, j \in DOMAIN s : i < j => s[i] < s[j]

LEMMA OrderExists ==
  ASSUME NEW D, D \subseteq Nat, IsFiniteSet(D)
  PROVE  \E s \in [1..Cardinality(D) -> D] : Increasing(s)
<1> DEFINE Can(n) == \A E \in SUBSET D : Cardinality(E) = n => \E s \in [1..n -> E] : Increasing(s)
           M == {n \in Nat : Can(n)}
<1>1. 0 \in M
  <2> SUFFICES ASSUME NEW E \in SUBSET D PROVE \E s \in [1..0 -> E] : Increasing(s)
    OBVIOUS
  <2>1. << >> \in [1..0 -> E]
    OBVIOUS
  <2>2. Increasing(<< >>)
    BY DEF Increasing
  <2> QED BY <2>1, <2>2
<1>2. ASSUME NEW n \in Nat, n \in M PROVE n + 1 \in M
  <2> SUFFICES ASSUME NEW E \in SUBSET D, Cardinality(E) = n + 1
               PROVE  \E s \in [1..(n + 1) -> E] : Increasing(s)
    OBVIOUS
  <2>1. IsFiniteSet(E) /\ E # {}
    <3>1. Cardinality({}) # n + 1
      BY FS_EmptySet
    <3> QED BY <3>1, FS_Subset
  <2>2. PICK m \in E : \A y \in E : m <= y
    BY <2>1, Least
  <2> DEFINE F == E \ {m}
  <2>3. F \in SUBSET D /\ Cardinality(F) = n
    <3>1. Cardinality(F) = Cardinality(E) - 1
      BY <2>1, FS_RemoveElement
    <3> QED BY <3>1
  <2> HIDE DEF F
  <2>4. PICK s \in [1..n -> F] : Increasing(s)
    BY <1>2, <2>3
  <2>5. \A i \in 1..n : s[i] \in E /\ m < s[i]
    <3> TAKE i \in 1..n
    <3>1. s[i] \in E /\ s[i] # m
      BY <2>4 DEF F
    <3>2. m \in Nat /\ s[i] \in Nat /\ m <= s[i]
      BY <2>2, <3>1
    <3> QED BY <3>1, <3>2
  <2> DEFINE t == [i \in 1..(n + 1) |-> IF i = 1 THEN m ELSE s[i - 1]]
  <2>6. \A i \in 2..(n + 1) : i - 1 \in 1..n
    OBVIOUS
  <2>7. /\ DOMAIN t = 1..(n + 1) /\ t[1] = m
        /\ \A i \in 2..(n + 1) : t[i] = s[i - 1]
    OBVIOUS
  <2>8. t \in [1..(n + 1) -> E]
    BY <2>5, <2>6
  <2> HIDE DEF t
  <2>9. ASSUME NEW i \in 1..(n + 1), NEW j \in 1..(n + 1), i < j PROVE t[i] < t[j]
    <3>1. j \in 2..(n + 1) /\ j - 1 \in 1..n /\ t[j] = s[j - 1]
      BY <2>6, <2>7, <2>9
    <3>2. CASE i = 1
      BY <2>5, <2>7, <3>1, <3>2
    <3>3. CASE i # 1
      <4>1. i \in 2..(n + 1) /\ i - 1 \in 1..n /\ t[i] = s[i - 1] /\ i - 1 < j - 1
        BY <2>6, <2>7, <2>9, <3>3
      <4> QED BY <2>4, <3>1, <4>1 DEF Increasing
    <3> QED BY <3>2, <3>3
  <2>10. Increasing(t)
    BY <2>7, <2>9 DEF Increasing
  <2> QED BY <2>8, <2>10
<1> HIDE DEF M
<1>3. Cardinality(D) \in M
  BY <1>1, <1>2, NatSetInduction, FS_CardinalityType
<1> QED BY <1>3 DEF M

(* Sequences element by element: short ones, and the first of a longer one.*)
LEMMA FirstStep ==
  ASSUME NEW S, NEW a \in S, NEW t \in Seq(S), NEW x \in Seq(S),
         Len(x) = Len(t) + 1, x[1] = a, \A i \in 1..Len(t) : x[i + 1] = t[i]
  PROVE  x = <<a>> \o t
<1> DEFINE u == <<a>> \o t
<1>1. <<a>> \in Seq(S) /\ Len(<<a>>) = 1 /\ <<a>>[1] = a
  OBVIOUS
<1> DEFINE v == <<a>>
<1> HIDE DEF v
<1>2. /\ u \in Seq(S) /\ Len(u) = Len(v) + Len(t) /\ Len(t) \in Nat
      /\ \A i \in 1 .. Len(v) + Len(t) : u[i] = IF i <= Len(v) THEN v[i] ELSE t[i - Len(v)]
  BY <1>1, ConcatProperties, LenProperties DEF v
<1> HIDE DEF u
<1>3. \A i \in 1..Len(u) : u[i] = x[i]
  <2> TAKE i \in 1..Len(u)
  <2>1. CASE i = 1
    BY <1>1, <1>2, <2>1 DEF v
  <2>2. CASE i # 1
    <3>1. i - 1 \in 1..Len(t) /\ (i - 1) + 1 = i
      BY <1>1, <1>2, <2>2 DEF v
    <3>2. x[i] = t[i - 1]
      BY <3>1
    <3> QED BY <1>1, <1>2, <2>2, <3>2 DEF v
  <2> QED BY <2>1, <2>2
<1>4. Len(u) = Len(x)
  BY <1>1, <1>2 DEF v
<1>5. u = x
  BY <1>2, <1>3, <1>4, SeqEqual
<1> QED BY <1>5 DEF u

LEMMA SplitTwo ==
  ASSUME NEW S, NEW a \in S, NEW b \in S
  PROVE  <<a, b>> = <<a>> \o <<b>>
<1>1. <<b>> \in Seq(S) /\ <<a, b>> \in Seq(S)
  OBVIOUS
<1>2. /\ Len(<<a, b>>) = Len(<<b>>) + 1 /\ <<a, b>>[1] = a
      /\ \A i \in 1..Len(<<b>>) : <<a, b>>[i + 1] = <<b>>[i]
  OBVIOUS
<1> QED BY <1>1, <1>2, FirstStep

LEMMA SplitThree ==
  ASSUME NEW S, NEW a \in S, NEW b \in S, NEW c \in S
  PROVE  <<a, b, c>> = <<a>> \o <<b, c>>
<1>1. <<b, c>> \in Seq(S) /\ <<a, b, c>> \in Seq(S)
  OBVIOUS
<1>2. /\ Len(<<a, b, c>>) = Len(<<b, c>>) + 1 /\ <<a, b, c>>[1] = a
      /\ \A i \in 1..Len(<<b, c>>) : <<a, b, c>>[i + 1] = <<b, c>>[i]
  OBVIOUS
<1> QED BY <1>1, <1>2, FirstStep

LEMMA SplitFour ==
  ASSUME NEW S, NEW a \in S, NEW b \in S, NEW c \in S, NEW d \in S
  PROVE  <<a, b, c, d>> = <<a>> \o <<b, c, d>>
<1> DEFINE t == <<a, b, c, d>>
           u == <<b, c, d>>
<1>1. t \in Seq(S) /\ u \in Seq(S)
  OBVIOUS
<1>2. Len(t) = Len(u) + 1 /\ t[1] = a /\ \A i \in 1..Len(u) : t[i + 1] = u[i]
  OBVIOUS
<1> HIDE DEF t, u
<1>3. t = <<a>> \o u
  BY <1>1, <1>2, FirstStep
<1> QED BY <1>3 DEF t, u

LEMMA Associate ==
  ASSUME NEW S, NEW s \in Seq(S)
  PROVE  \A y, z \in Seq(S) : (y \o z) \o s = y \o (z \o s)
BY ConcatAssociative

LEMMA TwoSteps ==
  ASSUME NEW S, NEW a \in S, NEW b \in S, NEW s \in Seq(S)
  PROVE  <<a, b>> \o s = <<a>> \o (<<b>> \o s)
<1> DEFINE u == <<a>>
           v == <<b>>
<1>1. u \in Seq(S) /\ v \in Seq(S)
  OBVIOUS
<1>2. <<a, b>> = u \o v
  BY SplitTwo
<1> HIDE DEF u, v
<1>3. (u \o v) \o s = u \o (v \o s)
  BY <1>1, Associate
<1> QED BY <1>2, <1>3 DEF u, v

LEMMA ThreeSteps ==
  ASSUME NEW S, NEW a \in S, NEW b \in S, NEW c \in S, NEW s \in Seq(S)
  PROVE  <<a, b, c>> \o s = <<a>> \o (<<b>> \o (<<c>> \o s))
<1> DEFINE u == <<a>>
           v == <<b, c>>
<1>1. u \in Seq(S) /\ v \in Seq(S)
  OBVIOUS
<1>2. <<a, b, c>> = u \o v
  BY SplitThree
<1> HIDE DEF u, v
<1>3. (u \o v) \o s = u \o (v \o s)
  BY <1>1, Associate
<1>4. v \o s = <<b>> \o (<<c>> \o s)
  BY TwoSteps DEF v
<1> QED BY <1>2, <1>3, <1>4 DEF u

LEMMA OneStep ==
  ASSUME NEW S, NEW a \in S
  PROVE  <<a>> \in Seq(S) /\ <<a>> \o << >> = <<a>>
<1>1. <<a>> \in Seq(S)
  OBVIOUS
<1> QED BY <1>1, ConcatEmptySeq

LEMMA HeadCons ==
  ASSUME NEW S, NEW e \in S, NEW t \in Seq(S)
  PROVE  LET x == <<e>> \o t IN x # << >> /\ Head(x) = e /\ Tail(x) = t
<1> DEFINE u == <<e>>
           x == u \o t
<1>1. u \in Seq(S) /\ Len(u) = 1 /\ u[1] = e /\ Len(t) \in Nat
  BY LenProperties
<1> HIDE DEF u
<1>2. /\ x \in Seq(S) /\ Len(x) = Len(u) + Len(t)
      /\ \A i \in 1..(Len(u) + Len(t)) : x[i] = IF i <= Len(u) THEN u[i] ELSE t[i - Len(u)]
  BY <1>1, ConcatProperties
<1> HIDE DEF x
<1>3. Len(x) = Len(t) + 1 /\ x[1] = e /\ \A i \in 1..Len(t) : x[i + 1] = t[i]
  <2>1. Len(x) = Len(t) + 1 /\ x[1] = e
    BY <1>1, <1>2
  <2>2. ASSUME NEW i \in 1..Len(t) PROVE x[i + 1] = t[i]
    <3>1. i + 1 \in 1..(Len(u) + Len(t)) /\ ~(i + 1 <= Len(u)) /\ (i + 1) - Len(u) = i
      BY <1>1
    <3> QED BY <1>2, <3>1
  <2> QED BY <2>1, <2>2
<1>4. x # << >>
  BY <1>1, <1>2, <1>3, EmptySeq
<1> DEFINE z == Tail(x)
<1>5. Head(x) = x[1] /\ z \in Seq(S) /\ Len(z) = Len(x) - 1
      /\ \A i \in 1..Len(z) : z[i] = x[i + 1]
  BY <1>2, <1>4, HeadTailProperties
<1> HIDE DEF z
<1>6. z = t
  BY <1>1, <1>3, <1>5, SeqEqual
<1> QED BY <1>3, <1>4, <1>5, <1>6 DEF x, u, z

(* The first step of a plan given in two parts. *)
LEMMA TailCat ==
  ASSUME NEW S, NEW a \in Seq(S), NEW b \in Seq(S), NEW s \in Seq(S),
         Len(a) = Len(b) + 1, \A i \in 1..Len(b) : a[i + 1] = b[i]
  PROVE  LET x == a \o s IN x # << >> /\ Head(x) = a[1] /\ Tail(x) = b \o s
<1> DEFINE e == a[1]
<1>1. e \in S
  <2>1. 1 \in 1..Len(a)
    BY LenProperties
  <2> QED BY <2>1, ElementOfSeq
<1> DEFINE u == <<e>>
           y == b \o s
<1>2. a[1] = e /\ u \in Seq(S)
  BY <1>1
<1> HIDE DEF e
<1>3. a = u \o b
  BY <1>1, <1>2, FirstStep
<1> HIDE DEF u
<1>4. (u \o b) \o s = u \o (b \o s)
  BY <1>2, Associate
<1>5. y \in Seq(S)
  BY ConcatProperties
<1> HIDE DEF y
<1> DEFINE z == u \o y
<1>6. z # << >> /\ Head(z) = e /\ Tail(z) = y
  BY <1>1, <1>5, HeadCons DEF u
<1> HIDE DEF z
<1>7. a \o s = z
  BY <1>3, <1>4 DEF y, z
<1> QED BY <1>2, <1>6, <1>7 DEF y
=============================================================================
