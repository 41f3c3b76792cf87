-------------------------- MODULE ExceptionsProofs --------------------------
(***************************************************************************)
(* Proofs about the emitted code of yant'aña.  First the types of every    *)
(* compiled program, disciplined or not, with what calloc promises of the  *)
(* addresses it hands out again.  Then what the language promises, of      *)
(* every program that is Disciplined: an invariant (NestInv) that says at  *)
(* every instruction what the registry, the machine stack, the slots and   *)
(* the code still planned have to do with the blocks around control.       *)
(* Last, from that invariant, the refinement: every step of the emitted    *)
(* code is a step of TrySemantics or none.                                 *)
(***************************************************************************)
EXTENDS Exceptions, AscendingProofs

(* The blocks around a block: the recursive function Around is written     *)
(* with, and what it holds.                                                *)

(* f[n] is what `around` holds of statement n. *)
IsAround(p, f, n) ==
  /\ f \in [0..n -> SUBSET Block(Len(p))]
  /\ f[0] = {}
  /\ \A m \in 1..n : f[m] = f[p[m].in.of] \cup {p[m].in}

(* What a well-formed program says of one statement. *)
LEMMA StatementType ==
  ASSUME NEW p, WellFormed(p), NEW n \in 1..Len(p)
  PROVE  /\ Len(p) \in Nat
         /\ p[n] \in Statement(n)
         /\ p[n].in \in Block(Len(p)) /\ p[n].in.of \in 0..(n - 1)
         /\ IsBlock(p, p[n].in) /\ Accepts(p, p[n])
<1>1. Len(p) \in Nat
  BY DEF WellFormed
<1>2. p[n] \in Statement(n) /\ IsBlock(p, p[n].in) /\ Accepts(p, p[n])
  BY DEF WellFormed
<1>3. p[n].in \in Block(n - 1)
  BY <1>2 DEF Statement
<1>4. p[n].in.of \in 0..(n - 1)
  BY <1>3 DEF Block
<1>5. p[n].in \in Block(Len(p))
  BY <1>1, <1>3 DEF Block
<1> QED BY <1>1, <1>2, <1>4, <1>5

(* The recursion has a function on every program: induction on the length. *)
LEMMA AroundExists ==
  ASSUME NEW p, WellFormed(p)
  PROVE  \E f : IsAround(p, f, Len(p))
<1> DEFINE M == {m \in Nat : m <= Len(p) => \E f : IsAround(p, f, m)}
<1>0. Len(p) \in Nat
  BY DEF WellFormed
<1>1. 0 \in M
  <2>1. IsAround(p, [i \in 0..0 |-> {}], 0)
    BY DEF IsAround
  <2> QED BY <2>1
<1>2. ASSUME NEW m \in Nat, m \in M PROVE m + 1 \in M
  <2> SUFFICES ASSUME m + 1 <= Len(p) PROVE \E f : IsAround(p, f, m + 1)
    OBVIOUS
  <2>1. PICK f : IsAround(p, f, m)
    BY <1>0, <1>2
  <2> DEFINE in == p[m + 1].in
             next == f[in.of] \cup {in}
             g == [i \in 0..(m + 1) |-> IF i = m + 1 THEN next ELSE f[i]]
  <2>2. m + 1 \in 1..Len(p)
    BY <1>0
  <2>3. in \in Block(Len(p)) /\ in.of \in 0..m
    <3>1. in.of \in 0..((m + 1) - 1)
      BY <2>2, StatementType
    <3> QED BY <2>2, <3>1, StatementType
  <2> HIDE DEF in
  <2>4. next \in SUBSET Block(Len(p))
    BY <2>1, <2>3 DEF IsAround
  <2>5. g \in [0..(m + 1) -> SUBSET Block(Len(p))] /\ g[0] = {} /\ g[m + 1] = next
    <3> HIDE DEF next
    <3> QED BY <2>1, <2>4 DEF IsAround
  <2>6. g[m + 1] = g[in.of] \cup {in}
    BY <2>3, <2>5
  <2>7. ASSUME NEW i \in 1..m PROVE g[i] = g[p[i].in.of] \cup {p[i].in}
    <3>1. i \in 1..Len(p)
      BY <1>0
    <3>2. p[i].in.of \in 0..(i - 1)
      BY <3>1, StatementType
    <3>3. g[i] = f[i] /\ g[p[i].in.of] = f[p[i].in.of]
      BY <3>2
    <3> HIDE DEF g
    <3> QED BY <2>1, <3>3 DEF IsAround
  <2> HIDE DEF g
  <2>8. IsAround(p, g, m + 1)
    <3> SUFFICES ASSUME NEW i \in 1..(m + 1) PROVE g[i] = g[p[i].in.of] \cup {p[i].in}
      BY <2>5 DEF IsAround
    <3>1. i = m + 1 \/ i \in 1..m
      OBVIOUS
    <3> QED BY <2>6, <2>7, <3>1 DEF in
  <2> QED BY <2>8
<1> HIDE DEF M
<1>3. Len(p) \in M
  BY <1>0, <1>1, <1>2, NatSetInduction
<1> QED BY <1>0, <1>3 DEF M

(* The recursion Around is written with. *)
LEMMA AroundIs ==
  ASSUME NEW p, WellFormed(p)
  PROVE  \E f : IsAround(p, f, Len(p)) /\ \A b : Around(p, b) = f[b.of] \cup {b}
<1> DEFINE Body(f) == [n \in 0..Len(p) |-> IF n = 0 THEN {} ELSE f[p[n].in.of] \cup {p[n].in}]
           around == CHOOSE f : f = Body(f)
<1>1. PICK g : IsAround(p, g, Len(p))
  BY AroundExists
<1>2. g = Body(g)
  <2>1. DOMAIN g = 0..Len(p) /\ g = [i \in 0..Len(p) |-> g[i]]
    BY <1>1 DEF IsAround
  <2>2. ASSUME NEW i \in 0..Len(p) PROVE g[i] = Body(g)[i]
    <3>1. i = 0 \/ i \in 1..Len(p)
      OBVIOUS
    <3> QED BY <1>1, <3>1 DEF IsAround
  <2>3. DOMAIN Body(g) = 0..Len(p) /\ Body(g) = [i \in 0..Len(p) |-> Body(g)[i]]
    OBVIOUS
  <2> HIDE DEF Body
  <2>4. [i \in 0..Len(p) |-> g[i]] = [i \in 0..Len(p) |-> Body(g)[i]]
    BY <2>2
  <2> QED BY <2>1, <2>3, <2>4
<1>3. around = Body(around)
  <2> HIDE DEF Body
  <2> QED BY <1>2
<1>4. \A b : Around(p, b) = around[b.of] \cup {b}
  BY DEF Around
<1> HIDE DEF around
<1>5. /\ around[0] = {}
      /\ \A n \in 1..Len(p) : around[n] = around[p[n].in.of] \cup {p[n].in}
      /\ DOMAIN around = 0..Len(p)
  <2>0. Len(p) \in Nat
    BY DEF WellFormed
  <2>1. \A n \in 0..Len(p) : around[n] = IF n = 0 THEN {} ELSE around[p[n].in.of] \cup {p[n].in}
    BY <1>3
  <2>2. DOMAIN around = 0..Len(p)
    BY <1>3
  <2>3. 0 \in 0..Len(p) /\ \A n \in 1..Len(p) : n \in 0..Len(p) /\ n # 0
    BY <2>0
  <2> QED BY <2>1, <2>2, <2>3
<1>6. \A n \in 0..Len(p) : around[n] \in SUBSET Block(Len(p))
  <2>0. Len(p) \in Nat
    BY DEF WellFormed
  <2> DEFINE M == {m \in Nat : \A n \in 0..Len(p) : n <= m => around[n] \in SUBSET Block(Len(p))}
  <2>1. 0 \in M
    BY <1>5
  <2>2. ASSUME NEW m \in Nat, m \in M PROVE m + 1 \in M
    <3> SUFFICES ASSUME NEW n \in 0..Len(p), n = m + 1 PROVE around[n] \in SUBSET Block(Len(p))
      <4>1. \A n \in 0..Len(p) : n <= m + 1 => n <= m \/ n = m + 1
        OBVIOUS
      <4> QED BY <2>2, <4>1
    <3>1. n \in 1..Len(p)
      OBVIOUS
    <3>2. p[n].in \in Block(Len(p)) /\ p[n].in.of \in 0..(n - 1)
      BY <3>1, StatementType
    <3>3. around[p[n].in.of] \in SUBSET Block(Len(p))
      BY <2>2, <3>2
    <3> HIDE DEF M
    <3> QED BY <1>5, <3>1, <3>2, <3>3
  <2> HIDE DEF M
  <2>3. Nat \subseteq M
    BY <2>1, <2>2, NatSetInduction
  <2>4. Len(p) \in M
    BY <2>0, <2>3
  <2> QED BY <2>0, <2>4 DEF M
<1>7. IsAround(p, around, Len(p))
  <2>1. around = [n \in 0..Len(p) |-> around[n]]
    BY <1>3
  <2> QED BY <1>5, <1>6, <2>1 DEF IsAround
<1> QED BY <1>4, <1>7

(* The blocks around a block, one statement at a time. *)
LEMMA AroundMain ==
  ASSUME NEW p, WellFormed(p), NEW b, b.of = 0 PROVE Around(p, b) = {b}
BY AroundIs DEF IsAround

(* The blocks around a block: those around its statement, and itself. *)
LEMMA AroundStep ==
  ASSUME NEW p, WellFormed(p), NEW b, b.of \in 1..Len(p)
  PROVE  Around(p, b) = Around(p, p[b.of].in) \cup {b}
<1>1. PICK f : IsAround(p, f, Len(p)) /\ \A c : Around(p, c) = f[c.of] \cup {c}
  BY AroundIs
<1>2. f[b.of] = f[p[b.of].in.of] \cup {p[b.of].in}
  BY <1>1 DEF IsAround
<1> QED BY <1>1, <1>2

(* The blocks around a block are nested: an outer one belongs to an        *)
(* earlier statement, and has around it those further out.                 *)
Nested(p, b) ==
  \A c \in Around(p, b) :
    /\ c \in Block(Len(p))
    /\ c = b \/ (c.of < b.of /\ IsBlock(p, c))
    /\ Around(p, c) = {d \in Around(p, b) : d.of <= c.of}

(* The blocks around a block are a chain. *)
LEMMA AroundNested ==
  ASSUME NEW p, WellFormed(p), NEW b \in Block(Len(p))
  PROVE  Nested(p, b)
<1>0. Len(p) \in Nat
  BY DEF WellFormed
<1> DEFINE M == {m \in Nat : \A d \in Block(Len(p)) : d.of <= m => Nested(p, d)}
<1>1. 0 \in M
  <2> SUFFICES ASSUME NEW d \in Block(Len(p)), d.of <= 0 PROVE Nested(p, d)
    OBVIOUS
  <2>1. d.of = 0
    BY DEF Block
  <2>2. Around(p, d) = {d}
    BY <2>1, AroundMain
  <2> QED BY <2>1, <2>2 DEF Nested
<1>2. ASSUME NEW m \in Nat, m \in M PROVE m + 1 \in M
  <2> SUFFICES ASSUME NEW d \in Block(Len(p)), d.of = m + 1 PROVE Nested(p, d)
    <3>1. \A d \in Block(Len(p)) : d.of \in Nat
      BY <1>0 DEF Block
    <3>2. \A d \in Block(Len(p)) : d.of <= m + 1 => d.of <= m \/ d.of = m + 1
      BY <3>1
    <3> QED BY <1>2, <3>2
  <2> DEFINE in == p[d.of].in
  <2>1. d.of \in 1..Len(p)
    BY <1>0 DEF Block
  <2>2. in \in Block(Len(p)) /\ in.of \in 0..(d.of - 1) /\ IsBlock(p, in)
    BY <2>1, StatementType
  <2>3. Around(p, d) = Around(p, in) \cup {d}
    BY <2>1, AroundStep
  <2>4. Nested(p, in)
    BY <1>2, <2>2
  <2> HIDE DEF M, in
  <2>5. ASSUME NEW c \in Around(p, in)
        PROVE  /\ c \in Block(Len(p)) /\ c.of \in Nat /\ c.of < d.of /\ IsBlock(p, c)
               /\ Around(p, c) = {e \in Around(p, d) : e.of <= c.of}
    <3>1. c \in Block(Len(p)) /\ Around(p, c) = {e \in Around(p, in) : e.of <= c.of}
          /\ (c = in \/ (c.of < in.of /\ IsBlock(p, c)))
      BY <2>4 DEF Nested
    <3>2. c.of \in Nat /\ c.of < d.of
      BY <3>1, <2>2, <1>0 DEF Block
    <3>3. ~(d.of <= c.of)
      BY <3>2
    <3>4. {e \in Around(p, d) : e.of <= c.of} = {e \in Around(p, in) : e.of <= c.of}
      BY <2>3, <3>3
    <3> QED BY <3>1, <3>2, <3>4, <2>2
  <2>6. {e \in Around(p, d) : e.of <= d.of} = Around(p, d)
    BY <2>3, <2>5
  <2> QED BY <2>3, <2>5, <2>6 DEF Nested
<1> HIDE DEF M
<1>3. Nat \subseteq M
  BY <1>1, <1>2, NatSetInduction
<1> QED BY <1>0, <1>3 DEF M, Block

(* Deepest picks the statement of a member that stands furthest in. *)
LEMMA Innermost ==
  ASSUME NEW n \in Nat, NEW S, S \subseteq Block(n)
  PROVE  \/ S = {} /\ Deepest(S) = 0
         \/ \E c \in S : Deepest(S) = c.of /\ \A d \in S : d.of <= c.of
<1>1. ASSUME S # {} PROVE \E c \in S : \A d \in S : d.of <= c.of
  <2> DEFINE D == {n - c.of : c \in S}
  <2>1. \A c \in S : c.of \in 0..n
    BY DEF Block
  <2>2. D \subseteq Nat /\ D # {}
    BY <1>1, <2>1
  <2>3. PICK m \in D : \A y \in D : m <= y
    BY <2>2, Least
  <2>4. PICK c \in S : m = n - c.of
    BY <2>3
  <2>5. ASSUME NEW d \in S PROVE d.of <= c.of
    <3>1. n - c.of <= n - d.of
      BY <2>3, <2>4
    <3> QED BY <2>1, <3>1
  <2> QED BY <2>5
<1>2. CASE S = {}
  BY <1>2 DEF Deepest
<1>3. CASE S # {}
  <2>1. PICK c \in S : \A d \in S : d.of <= c.of
    BY <1>1, <1>3
  <2> DEFINE O == {d.of : d \in S}
  <2>2. \A d \in S : d.of \in Nat
    BY DEF Block
  <2>3. c.of \in O /\ \A y \in O : c.of >= y
    BY <2>1, <2>2
  <2>4. Max(O) \in O /\ \A y \in O : Max(O) >= y
    BY <2>3 DEF Max
  <2>5. Max(O) = c.of
    <3>1. \A x, y \in O : x >= y /\ y >= x => x = y
      BY <2>2
    <3> QED BY <2>3, <2>4, <3>1
  <2>6. Deepest(S) = c.of
    BY <1>3, <2>5 DEF Deepest
  <2> QED BY <2>1, <2>6
<1> QED BY <1>2, <1>3

(* s lists S, the greatest first. *)
Falling(s, S) ==
  /\ s \in Seq(S)
  /\ \A t \in S : \E i \in 1..Len(s) : s[i] = t
  /\ \A i, j \in 1..Len(s) : i < j => s[j] < s[i]

(* The order of the calls the generator emits: the top of its stack first. *)
LEMMA ReverseFalls ==
  ASSUME NEW n \in Nat, NEW S \in SUBSET (1..n)
  PROVE  Falling(Reverse(Ascending(S, n)), S)
<1> DEFINE s == Ascending(S, n)
           r == Reverse(s)
<1>1. Lists(s, S)
  BY AscendingLists
<1> HIDE DEF s
<1>2. s \in Seq(S) /\ Len(s) \in Nat
  BY <1>1 DEF Lists
<1>3. r \in Seq(S) /\ Len(r) = Len(s) /\ \A i \in 1..Len(r) : r[i] = s[Len(s) - i + 1]
  <2>1. r = [i \in 1..Len(s) |-> s[(Len(s) - i) + 1]]
    BY DEF Reverse
  <2>2. \A i \in 1..Len(s) : (Len(s) - i) + 1 \in 1..Len(s)
    BY <1>2
  <2>3. r \in [1..Len(s) -> S]
    BY <1>2, <2>1, <2>2
  <2>4. r \in Seq(S) /\ Len(r) = Len(s)
    BY <1>2, <2>1, <2>3
  <2> QED BY <2>1, <2>4
<1> HIDE DEF r
<1>4. ASSUME NEW t \in S PROVE \E i \in 1..Len(r) : r[i] = t
  <2>1. PICK j \in 1..Len(s) : s[j] = t
    BY <1>1 DEF Lists
  <2>2. Len(s) - j + 1 \in 1..Len(r) /\ Len(s) - (Len(s) - j + 1) + 1 = j
    BY <1>2, <1>3
  <2> QED BY <1>3, <2>1, <2>2
<1>5. ASSUME NEW i \in 1..Len(r), NEW j \in 1..Len(r), i < j PROVE r[j] < r[i]
  <2>1. /\ Len(s) - i + 1 \in 1..Len(s) /\ Len(s) - j + 1 \in 1..Len(s)
        /\ Len(s) - j + 1 < Len(s) - i + 1
    BY <1>2, <1>3, <1>5
  <2> QED BY <1>1, <1>3, <2>1 DEF Lists
<1>6. Falling(r, S)
  BY <1>3, <1>4, <1>5 DEF Falling
<1> QED BY <1>6 DEF r, s

(* A list of one number. *)
LEMMA FallingOne ==
  ASSUME NEW x \in Nat, NEW s, Falling(s, {x}) PROVE s = <<x>>
<1>1. s \in Seq({x}) /\ Len(s) \in Nat
  BY DEF Falling
<1>2. PICK i \in 1..Len(s) : s[i] = x
  BY DEF Falling
<1>3. \A k \in 1..Len(s) : s[k] = x
  BY <1>1
<1>4. ~(2 <= Len(s))
  <2> SUFFICES ASSUME 2 <= Len(s) PROVE FALSE
    OBVIOUS
  <2>1. 1 \in 1..Len(s) /\ 2 \in 1..Len(s) /\ 1 < 2
    BY <1>1
  <2>2. s[2] < s[1]
    BY <2>1 DEF Falling
  <2> QED BY <1>3, <2>1, <2>2
<1>5. Len(s) = 1
  <2> DEFINE l == Len(s)
  <2>1. l \in Nat /\ i \in 1..l /\ ~(2 <= l)
    BY <1>1, <1>4
  <2> HIDE DEF l
  <2>2. l = 1
    BY <2>1
  <2> QED BY <2>2 DEF l
<1>6. s[1] = x
  BY <1>3, <1>5
<1> QED BY <1>1, <1>5, <1>6

(* Its head is the greatest, its tail lists the others. *)
LEMMA FallingHead ==
  ASSUME NEW S, S \subseteq Nat, NEW s, Falling(s, S)
  PROVE  /\ s = << >> <=> S = {}
         /\ s # << >> => /\ Head(s) \in S /\ \A t \in S : t <= Head(s)
                         /\ Falling(Tail(s), {t \in S : t < Head(s)})
<1>1. s \in Seq(S) /\ Len(s) \in Nat
  BY DEF Falling
<1>2. s = << >> <=> S = {}
  <2>1. CASE s = << >>
    BY <2>1 DEF Falling
  <2>2. CASE s # << >>
    <3>1. s[1] \in S
      BY <1>1, <2>2
    <3> QED BY <2>2, <3>1
  <2> QED BY <2>1, <2>2
<1>3. ASSUME s # << >>
      PROVE  /\ Head(s) \in S /\ \A t \in S : t <= Head(s)
             /\ Falling(Tail(s), {t \in S : t < Head(s)})
  <2> DEFINE h == Head(s)
             u == Tail(s)
             R == {t \in S : t < h}
  <2>1. /\ h = s[1] /\ h \in S /\ 1 \in 1..Len(s)
        /\ u \in Seq(S) /\ Len(u) = Len(s) - 1 /\ \A i \in 1..Len(u) : u[i] = s[i + 1]
    BY <1>1, <1>3
  <2> HIDE DEF h, u
  <2>2. ASSUME NEW t \in S PROVE t = h \/ (t < h /\ \E i \in 1..Len(u) : u[i] = t)
    <3>1. PICK i \in 1..Len(s) : s[i] = t
      BY DEF Falling
    <3>2. CASE i = 1
      BY <2>1, <3>1, <3>2
    <3>3. CASE i # 1
      <4>1. i - 1 \in 1..Len(u) /\ (i - 1) + 1 = i /\ 1 < i
        BY <1>1, <2>1, <3>3
      <4>2. u[i - 1] = t
        BY <2>1, <3>1, <4>1
      <4>3. t < h
        BY <2>1, <3>1, <4>1 DEF Falling
      <4> QED BY <4>1, <4>2, <4>3
    <3> QED BY <3>2, <3>3
  <2>3. ASSUME NEW i \in 1..Len(u) PROVE i + 1 \in 1..Len(s) /\ 1 < i + 1
    BY <1>1, <2>1
  <2>4. \A i \in 1..Len(u) : u[i] \in R
    BY <2>1, <2>3 DEF Falling
  <2>5. u \in Seq(R)
    <3>1. Len(u) \in Nat /\ u = [i \in 1..Len(u) |-> u[i]]
      BY <2>1
    <3>2. u \in [1..Len(u) -> R]
      BY <2>4, <3>1
    <3> QED BY <3>1, <3>2
  <2>6. ASSUME NEW i \in 1..Len(u), NEW j \in 1..Len(u), i < j PROVE u[j] < u[i]
    <3>1. i + 1 \in 1..Len(s) /\ j + 1 \in 1..Len(s) /\ i + 1 < j + 1
      BY <2>3, <2>6
    <3>2. s[j + 1] < s[i + 1]
      BY <3>1 DEF Falling
    <3> QED BY <2>1, <3>2
  <2>7. Falling(u, R)
    BY <2>2, <2>5, <2>6 DEF Falling
  <2>8. \A t \in S : t <= h
    BY <2>1, <2>2
  <2> QED BY <2>1, <2>7, <2>8 DEF h, u
<1> QED BY <1>2, <1>3

-----------------------------------------------------------------------------
(* What stands around a block, further out and further in. *)

(* A tukuyawi on the stack, or a function that has not returned. *)
FrameOf(p, c) == KindOf(p, c) = "call" \/ (IsTry(p, c) /\ c.part = "fin")

(* The statements around block b with a tukuyawi still to run, and those   *)
(* with a return address on the stack.                                     *)
Due(p, b) == {c.of : c \in {d \in Around(p, b) : OnFinallyStack(p, d)}}
Framed(p, b) == {c.of : c \in {d \in Around(p, b) : FrameOf(p, d)}}

(* Of the blocks of one statement, at most one is around a block. *)
LEMMA OneBlock ==
  ASSUME NEW p, WellFormed(p), NEW b \in Block(Len(p)),
         NEW c \in Around(p, b), NEW d \in Around(p, b), c.of = d.of
  PROVE  c = d
<1>1. c \in Block(Len(p)) /\ Around(p, c) = {e \in Around(p, b) : e.of <= c.of}
  BY AroundNested DEF Nested
<1>2. d.of <= c.of /\ ~(d.of < c.of)
  BY <1>1 DEF Block, WellFormed
<1>3. d \in Around(p, c)
  BY <1>1, <1>2
<1>4. Nested(p, c)
  BY <1>1, AroundNested
<1> QED BY <1>2, <1>3, <1>4 DEF Nested

(* A block is around itself. *)
LEMMA BlockItself ==
  ASSUME NEW p, WellFormed(p), NEW b PROVE b \in Around(p, b)
BY AroundIs

(* What is around a block is a block of an earlier statement. *)
LEMMA BlockType ==
  ASSUME NEW p, WellFormed(p), NEW b \in Block(Len(p)), NEW c \in Around(p, b)
  PROVE  /\ c \in Block(Len(p)) /\ c.of \in 0..Len(p) /\ c.of <= b.of
         /\ IsBlock(p, b) => IsBlock(p, c)
         /\ c.of # 0 => c.of \in 1..Len(p)
<1>1. c \in Block(Len(p)) /\ (c = b \/ (c.of < b.of /\ IsBlock(p, c)))
  BY AroundNested DEF Nested
<1> QED BY <1>1 DEF Block, WellFormed

(* The parts of a try, and what only a try has. *)
LEMMA BlockParts ==
  ASSUME NEW p, WellFormed(p), NEW b \in Block(Len(p)), IsBlock(p, b)
  PROVE  /\ b.of # 0 => b.of \in 1..Len(p)
         /\ b.of = 0 => b = MainBlock /\ KindOf(p, b) = "main" /\ ~IsTry(p, b)
         /\ KindOf(p, b) = "main" => b.of = 0
         /\ IsTry(p, b) => b.part \in {"body", "catch", "fin"} /\ p[b.of].kind = "try"
         /\ IsTry(p, b) /\ b.part = "fin" => p[b.of].fin
         /\ IsTry(p, b) /\ b.part = "catch" => p[b.of].cat # "none"
         /\ b.part \in {"catch", "fin"} => IsTry(p, b)
         /\ KindOf(p, b) \in {"loop", "call"} => b.part = "body"
         /\ KindOf(p, b) = "switch" => b.part \in {"kuna", "yaqha"}
         /\ b.part \in {"kuna", "yaqha"} => KindOf(p, b) = "switch"
<1>1. CASE b.of = 0
  BY <1>1 DEF IsBlock, MainBlock, KindOf, IsTry
<1>2. CASE b.of # 0
  <2>1. b.of \in 1..Len(p) /\ b.part \in PartsOf(p[b.of])
    BY <1>2 DEF Block, IsBlock, MainBlock, WellFormed
  <2>2. p[b.of].kind \in Kinds /\ p[b.of].fin \in BOOLEAN
    BY <2>1, StatementType DEF Statement
  <2>3. KindOf(p, b) = p[b.of].kind /\ KindOf(p, b) # "main"
    BY <1>2, <2>2 DEF KindOf, Kinds
  <2> QED BY <1>2, <2>1, <2>2, <2>3 DEF PartsOf, IsTry, Kinds
<1> QED BY <1>1, <1>2

(* What is around a statement further out is what belongs to an earlier    *)
(* statement.                                                              *)
LEMMA Outward ==
  ASSUME NEW p, WellFormed(p), NEW b \in Block(Len(p)),
         NEW c \in Around(p, b), c.of # 0
  PROVE  LET in == p[c.of].in IN
         /\ in \in Block(Len(p)) /\ IsBlock(p, in)
         /\ Around(p, in) = {d \in Around(p, b) : d.of < c.of}
         /\ TryBlocks(p, in) = {d \in TryBlocks(p, b) : d.of < c.of}
         /\ Bodies(p, in) = {t \in Bodies(p, b) : t < c.of}
         /\ Due(p, in) = {t \in Due(p, b) : t < c.of}
         /\ Framed(p, in) = {t \in Framed(p, b) : t < c.of}
<1> DEFINE in == p[c.of].in
<1>1. c \in Block(Len(p)) /\ c.of \in 1..Len(p)
  BY BlockType
<1>2. in \in Block(Len(p)) /\ IsBlock(p, in) /\ in.of \in 0..(c.of - 1)
  BY <1>1, StatementType
<1>3. Around(p, c) = Around(p, in) \cup {c} /\ Around(p, c) = {d \in Around(p, b) : d.of <= c.of}
  BY <1>1, AroundStep, AroundNested DEF Nested
<1> HIDE DEF in
<1>4. Around(p, in) = {d \in Around(p, b) : d.of < c.of}
  <2>1. ASSUME NEW d \in Around(p, in) PROVE d.of < c.of
    <3>1. d.of <= in.of /\ d.of \in 0..Len(p)
      BY <1>2, BlockType
    <3> QED BY <1>1, <1>2, <3>1 DEF WellFormed
  <2>2. ASSUME NEW d \in Around(p, b), d.of < c.of PROVE d \in Around(p, in)
    <3>1. d.of \in 0..Len(p)
      BY BlockType
    <3>2. d.of <= c.of /\ d # c
      BY <1>1, <2>2, <3>1 DEF WellFormed
    <3> QED BY <1>3, <3>2
  <2> QED BY <1>3, <2>1, <2>2
<1>5. /\ TryBlocks(p, in) = {d \in TryBlocks(p, b) : d.of < c.of}
      /\ Bodies(p, in) = {t \in Bodies(p, b) : t < c.of}
      /\ Due(p, in) = {t \in Due(p, b) : t < c.of}
      /\ Framed(p, in) = {t \in Framed(p, b) : t < c.of}
  BY <1>4 DEF TryBlocks, Bodies, Due, Framed
<1> QED BY <1>2, <1>4, <1>5 DEF in

(* What one block adds to those around it. *)
LEMMA Inward ==
  ASSUME NEW p, WellFormed(p), NEW b \in Block(Len(p)), b.of # 0
  PROVE  LET in == p[b.of].in IN
         /\ TryBlocks(p, b) = TryBlocks(p, in) \cup (IF IsTry(p, b) THEN {b} ELSE {})
         /\ Bodies(p, b) = Bodies(p, in) \cup
              (IF IsTry(p, b) /\ b.part = "body" THEN {b.of} ELSE {})
         /\ Due(p, b) = Due(p, in) \cup (IF OnFinallyStack(p, b) THEN {b.of} ELSE {})
         /\ Framed(p, b) = Framed(p, in) \cup (IF FrameOf(p, b) THEN {b.of} ELSE {})
<1> DEFINE in == p[b.of].in
<1>1. b.of \in 1..Len(p)
  BY DEF Block, WellFormed
<1>2. Around(p, b) = Around(p, in) \cup {b}
  BY <1>1, AroundStep
<1> HIDE DEF in
<1>3. TryBlocks(p, b) = TryBlocks(p, in) \cup (IF IsTry(p, b) THEN {b} ELSE {})
  BY <1>2 DEF TryBlocks
<1>4. Bodies(p, b) = Bodies(p, in) \cup (IF IsTry(p, b) /\ b.part = "body" THEN {b.of} ELSE {})
  BY <1>3 DEF Bodies
<1>5. Due(p, b) = Due(p, in) \cup (IF OnFinallyStack(p, b) THEN {b.of} ELSE {})
  BY <1>2 DEF Due
<1>6. Framed(p, b) = Framed(p, in) \cup (IF FrameOf(p, b) THEN {b.of} ELSE {})
  BY <1>2 DEF Framed
<1> QED BY <1>3, <1>4, <1>5, <1>6 DEF in

(* Around the main program there is nothing. *)
LEMMA MainSets ==
  ASSUME NEW p, WellFormed(p)
  PROVE  /\ Around(p, MainBlock) = {MainBlock}
         /\ TryBlocks(p, MainBlock) = {} /\ Bodies(p, MainBlock) = {}
         /\ Due(p, MainBlock) = {} /\ Framed(p, MainBlock) = {}
<1>1. Around(p, MainBlock) = {MainBlock}
  BY AroundMain DEF MainBlock
<1>2. KindOf(p, MainBlock) = "main"
  BY DEF KindOf, MainBlock
<1> QED BY <1>1, <1>2 DEF TryBlocks, Bodies, Due, Framed, IsTry, OnFinallyStack, FrameOf

(* The block of a member of one of the sets.                               *)
LEMMA MemberBlock ==
  ASSUME NEW p, WellFormed(p), NEW b \in Block(Len(p)), IsBlock(p, b), NEW t
  PROVE  /\ t \in Bodies(p, b) => /\ [of |-> t, part |-> "body"] \in Around(p, b)
                                  /\ t \in 1..Len(p) /\ p[t].kind = "try"
         /\ t \in Due(p, b) => \E c \in Around(p, b) :
              /\ c.of = t /\ IsTry(p, c) /\ c.part \in {"body", "catch"}
              /\ t \in 1..Len(p) /\ p[t].fin /\ p[t].kind = "try"
         /\ t \in Framed(p, b) => \E c \in Around(p, b) :
              c.of = t /\ FrameOf(p, c) /\ t \in 1..Len(p)
<1>1. \A c \in Around(p, b) : c \in Block(Len(p)) /\ IsBlock(p, c)
  BY BlockType
<1>2. ASSUME NEW c \in Around(p, b), IsTry(p, c) \/ FrameOf(p, c)
      PROVE  c.of \in 1..Len(p) /\ (IsTry(p, c) => p[c.of].kind = "try")
  BY <1>1, <1>2, BlockParts DEF FrameOf, KindOf, IsTry
<1>3. \A c \in Around(p, b) : c = [of |-> c.of, part |-> c.part]
  BY <1>1 DEF Block
<1>4. ASSUME t \in Bodies(p, b)
      PROVE  /\ [of |-> t, part |-> "body"] \in Around(p, b)
             /\ t \in 1..Len(p) /\ p[t].kind = "try"
  <2>1. PICK c \in Around(p, b) : c.of = t /\ IsTry(p, c) /\ c.part = "body"
    BY <1>4 DEF Bodies, TryBlocks
  <2> QED BY <1>2, <1>3, <2>1
<1>5. t \in Due(p, b) => \E c \in Around(p, b) :
        /\ c.of = t /\ IsTry(p, c) /\ c.part \in {"body", "catch"}
        /\ t \in 1..Len(p) /\ p[t].fin /\ p[t].kind = "try"
  BY <1>2 DEF Due, OnFinallyStack
<1>6. t \in Framed(p, b) => \E c \in Around(p, b) :
        c.of = t /\ FrameOf(p, c) /\ t \in 1..Len(p)
  BY <1>2 DEF Framed
<1> QED BY <1>4, <1>5, <1>6

(* The same of a try whose tukuyawi is due.                                *)
LEMMA DueBlock ==
  ASSUME NEW p, WellFormed(p), NEW b \in Block(Len(p)), IsBlock(p, b), NEW t \in Due(p, b)
  PROVE  \E c \in Around(p, b) :
           /\ c.of = t /\ IsTry(p, c) /\ c.part \in {"body", "catch"}
           /\ t \in 1..Len(p) /\ p[t].fin /\ p[t].kind = "try"
BY MemberBlock

-----------------------------------------------------------------------------
(* What the generator plans at compile time, for every program that keeps  *)
(* the rules: this is where the rules are used.                            *)

(* An exception may be thrown at b: every katjaña around it that owes its  *)
(* tukuyawi stands around the body of a try that catches everything.       *)
SafeAt(p, b) ==
  \A c \in TryBlocks(p, b) : Owing(p, c) =>
    \E d \in TryBlocks(p, b) : d.part = "body" /\ p[d.of].cat = "any" /\ d.of > c.of

(* The goals that leave a loop, a khiti or a function. *)
Exits == {"break", "continue", "return"}

(* What an exit leaves.                                                    *)
Leaves(goal) ==
  CASE goal = "break" -> {"loop", "switch"}
    [] goal = "continue" -> {"loop"}
    [] goal = "return" -> {"call"}

(* The straight-line code w at block b: the end of a block has at most its *)
(* own tukuyawi to run; an exit leaves no frame but the one it returns     *)
(* from, no body in a program without such exits, and lists the tukuyawi   *)
(* it owes; an exception has at most the tukuyawi of the innermost try to  *)
(* run, and is safe to throw after it.                                     *)
FallOK(p, w, b) ==
  /\ w.to \in 1..Len(p) /\ w.exc = 0
  /\ \/ w.todo = <<w.to>> /\ w.to \in Due(p, b) /\ b.of = w.to
     \/ w.todo = << >> /\ b = p[w.to].in
     \/ /\ w.todo = << >> /\ b.of = w.to
        /\ w.to \notin Due(p, b) /\ w.to \notin Framed(p, b)
ExitOK(p, w, b) ==
  /\ \E c \in Around(p, b) : c.of = w.to /\ KindOf(p, c) \in Leaves(w.goal)
  /\ \A c \in Around(p, b) : c.of > w.to =>
       ~FrameOf(p, c) /\ (LeavesNoBody(p) => ~(IsTry(p, c) /\ c.part = "body"))
  /\ Falling(w.todo, {t \in Due(p, b) : t > w.to})
ThrowOK(p, w, b) ==
  /\ LeavesNoBody(p)
  /\ \/ w.todo = << >> /\ SafeAt(p, b)
     \/ \E t \in Due(p, b) :
          /\ w.todo = <<t>>
          /\ \A c \in TryBlocks(p, b) : c.of <= t
          /\ \A u \in Framed(p, b) : u < t
          /\ SafeAt(p, p[t].in)
          /\ [of |-> t, part |-> "body"] \in Around(p, b) => p[t].cat # "any"
CaughtOK(p, w, b) ==
  /\ LeavesNoBody(p)
  /\ w.todo = << >> /\ w.to \in 1..Len(p)
  /\ b = [of |-> w.to, part |-> "body"] /\ IsTry(p, b)
  /\ p[w.to].cat # "any" => SafeAt(p, p[w.to].in)
-----------------------------------------------------------------------------
(* Deepest, of some of the blocks around a block. *)
LEMMA AroundBlocks ==
  ASSUME NEW p, WellFormed(p), NEW b \in Block(Len(p)), NEW S, S \subseteq Around(p, b)
  PROVE  \/ S = {} /\ Deepest(S) = 0
         \/ \E c \in S : Deepest(S) = c.of /\ \A d \in S : d.of <= c.of
<1>1. S \subseteq Block(Len(p))
  BY BlockType
<1>2. Len(p) \in Nat
  BY DEF WellFormed
<1> QED BY <1>1, <1>2, Innermost

(* The function being emitted: its call is the innermost around the block. *)
LEMMA TheFunction ==
  ASSUME NEW p, WellFormed(p), NEW b \in Block(Len(p))
  PROVE  LET f == FunctionOf(p, b) IN
         /\ f \in Nat
         /\ f = 0 \/ \E c \in Around(p, b) : c.of = f /\ KindOf(p, c) = "call"
         /\ \A c \in Around(p, b) : KindOf(p, c) = "call" => c.of <= f
         /\ Emitting(p, b) = {c \in Around(p, b) : c.of >= f}
<1> DEFINE S == {c \in Around(p, b) : KindOf(p, c) = "call"}
<1>1. \/ S = {} /\ Deepest(S) = 0
      \/ \E c \in S : Deepest(S) = c.of /\ \A d \in S : d.of <= c.of
  BY AroundBlocks
<1>2. \A c \in Around(p, b) : c.of \in Nat
  BY BlockType
<1>3. FunctionOf(p, b) = Deepest(S)
  BY DEF FunctionOf
<1>4. Emitting(p, b) = {c \in Around(p, b) : c.of >= FunctionOf(p, b)}
  BY DEF Emitting
<1> QED BY <1>1, <1>2, <1>3, <1>4

(* The calls emitted for the labels above a limit. *)
LEMMA FinallysFall ==
  ASSUME NEW p, WellFormed(p), NEW b \in Block(Len(p)), NEW limit
  PROVE  Falling(FinallysAbove(p, b, limit), PushedAbove(p, b, limit))
<1>1. Len(p) \in Nat
  BY DEF WellFormed
<1>2. PushedAbove(p, b, limit) \subseteq 1..Len(p)
  <2> SUFFICES ASSUME NEW c \in Around(p, b), OnFinallyStack(p, c) PROVE c.of \in 1..Len(p)
    BY TheFunction DEF PushedAbove
  <2>1. c.of # 0
    BY DEF OnFinallyStack, IsTry, KindOf
  <2> QED BY <2>1, BlockType
<1>3. PushedAbove(p, b, limit) \in SUBSET (1..Len(p))
  BY <1>2
<1> QED BY <1>1, <1>3, ReverseFalls DEF FinallysAbove

(* Between a khiti and the loop around it there is no tukuyawi to run.     *)
LEMMA SwitchGap ==
  ASSUME NEW p, WellFormed(p), NEW b \in Block(Len(p)),
         NEW s \in Around(p, b), KindOf(p, s) = "switch", SwitchInLoop(p, s.of),
         s.of >= FunctionOf(p, b),
         \A d \in Emitting(p, b) : IsLoop(p, d) => d.of < s.of,
         NEW d \in Emitting(p, b), OnFinallyStack(p, d),
         d.of > Deepest({c \in Emitting(p, b) : IsLoop(p, c)})
  PROVE  d.of > s.of
<1> DEFINE in == p[s.of].in
           f == FunctionOf(p, b)
           g == FunctionOf(p, in)
           L == {c \in Emitting(p, b) : IsLoop(p, c)}
           K == {c \in Emitting(p, in) : IsLoop(p, c)}
<1>1. s.of # 0 /\ p[s.of].kind = "switch"
  BY DEF KindOf
<1>2. in \in Block(Len(p)) /\ Around(p, in) = {c \in Around(p, b) : c.of < s.of}
  BY <1>1, Outward
<1>3. /\ f \in Nat
      /\ f = 0 \/ \E c \in Around(p, b) : c.of = f /\ KindOf(p, c) = "call"
      /\ \A c \in Around(p, b) : KindOf(p, c) = "call" => c.of <= f
      /\ Emitting(p, b) = {c \in Around(p, b) : c.of >= f}
  BY TheFunction
<1>4. /\ g \in Nat
      /\ g = 0 \/ \E c \in Around(p, in) : c.of = g /\ KindOf(p, c) = "call"
      /\ \A c \in Around(p, in) : KindOf(p, c) = "call" => c.of <= g
      /\ Emitting(p, in) = {c \in Around(p, in) : c.of >= g}
  BY <1>2, TheFunction
<1>5. \A c \in Around(p, b) : c.of \in Nat
  BY BlockType
<1>6. FunctionOf(p, b) = f /\ FunctionOf(p, in) = g
  OBVIOUS
<1> HIDE DEF in, f, g
<1>7. f = g
  <2>1. ASSUME NEW c \in Around(p, b), c.of = f, KindOf(p, c) = "call" PROVE c \in Around(p, in)
    <3>1. c # s /\ c.of # s.of
      BY <2>1, OneBlock
    <3> QED BY <1>2, <1>3, <1>5, <1>6, <2>1, <3>1
  <2>2. f <= g
    BY <1>3, <1>4, <2>1
  <2>3. g <= f
    BY <1>2, <1>3, <1>4
  <2> QED BY <1>3, <1>4, <2>2, <2>3
<1>8. Emitting(p, in) = {c \in Emitting(p, b) : c.of < s.of}
  BY <1>2, <1>3, <1>4, <1>7
<1>9. K = L
  BY <1>8
<1>10. LoopFinallys(p, in) = << >>
  BY <1>1 DEF SwitchInLoop, in
<1>11. LoopFinallys(p, in) = FinallysAbove(p, in, Deepest(L))
  <2>1. LoopFinallys(p, in) = FinallysAbove(p, in, Deepest(K))
    BY DEF LoopFinallys
  <2> HIDE DEF K, L
  <2> QED BY <1>9, <2>1
<1>12. Falling(<< >>, PushedAbove(p, in, Deepest(L)))
  BY <1>2, <1>10, <1>11, FinallysFall
<1>13. PushedAbove(p, in, Deepest(L)) = {}
  BY <1>12 DEF Falling
<1>14. SUFFICES ASSUME ~(d.of > s.of) PROVE FALSE
  OBVIOUS
<1>15. d # s /\ d.of # s.of
  <2>1. ~OnFinallyStack(p, s)
    BY DEF OnFinallyStack, IsTry
  <2> QED BY <1>3, <2>1, OneBlock
<1>16. d \in Emitting(p, in)
  BY <1>3, <1>5, <1>8, <1>14, <1>15
<1> QED BY <1>13, <1>16 DEF PushedAbove
-----------------------------------------------------------------------------
(* A runtime error the rules admit is safe to throw where it stands. *)
LEMMA FailSafe ==
  ASSUME NEW p, WellFormed(p), NEW b \in Block(Len(p)), IsBlock(p, b),
         {c \in Exposed(p, b) : Owing(p, c)} = {}
  PROVE  SafeAt(p, b)
<1> DEFINE S == {c \in TryBlocks(p, b) : c.part = "body" /\ p[c.of].cat = "any"}
<1>1. S \subseteq Around(p, b)
  BY DEF TryBlocks
<1>2. \/ S = {} /\ Deepest(S) = 0
      \/ \E c \in S : Deepest(S) = c.of /\ \A d \in S : d.of <= c.of
  BY <1>1, AroundBlocks
<1>3. Exposed(p, b) = {c \in TryBlocks(p, b) : c.of > Deepest(S)}
  BY DEF Exposed
<1> SUFFICES ASSUME NEW c \in TryBlocks(p, b), Owing(p, c) PROVE \E d \in S : d.of > c.of
  BY DEF SafeAt
<1>4. ~(c.of > Deepest(S)) /\ c \in Around(p, b) /\ IsTry(p, c)
  BY <1>3 DEF TryBlocks
<1>5. c.of \in Nat /\ c.of # 0
  BY <1>4, BlockType DEF IsTry, KindOf
<1>6. PICK d \in S : Deepest(S) = d.of
  BY <1>2, <1>4, <1>5
<1>7. d \in Around(p, b) /\ d.of \in Nat
  BY <1>1, BlockType
<1>8. d.of # c.of
  <2>1. d # c
    BY DEF Owing
  <2> QED BY <1>4, <1>7, <2>1, OneBlock
<1> QED BY <1>4, <1>5, <1>6, <1>7, <1>8

(* So is a pantja, after the tukuyawi the generator calls for it, if any. *)
LEMMA ThrowPlan ==
  ASSUME NEW p, WellFormed(p), NEW n \in 1..Len(p), p[n].kind = "throw", ThrowsOneLevel(p, n),
         LeavesNoBody(p),
         NEW w, w.todo = ThrowFinallys(p, p[n].in)
  PROVE  /\ ThrowOK(p, w, p[n].in)
         /\ w.todo # << >> => Bodies(p, p[Head(w.todo)].in) = Bodies(p, p[n].in)
<1> DEFINE b == p[n].in
           E == {c \in Emitting(p, b) : c.part = "catch"}
           own == {c \in TryBlocks(p, b) \cap Emitting(p, b) : Owing(p, c)}
           owing == {c \in Exposed(p, b) : Owing(p, c)}
<1>1. b \in Block(Len(p)) /\ IsBlock(p, b)
  BY StatementType
<1>2. \/ owing = {} /\ own = {}
      \/ \E c \in own : owing = {c} /\ c.of = Deepest(TryBlocks(p, b))
  BY DEF ThrowsOneLevel
<1>3. ThrowFinallys(p, b) =
        IF Deepest(E) = 0 \/ ~p[Deepest(E)].fin THEN << >> ELSE FinallysAbove(p, b, Deepest(E) - 1)
  BY DEF ThrowFinallys
<1> HIDE DEF b
<1>4. Emitting(p, b) = {c \in Around(p, b) : c.of >= FunctionOf(p, b)}
  BY <1>1, TheFunction
<1>5. \/ E = {} /\ Deepest(E) = 0
      \/ \E c \in E : Deepest(E) = c.of /\ \A d \in E : d.of <= c.of
  BY <1>1, <1>4, AroundBlocks
<1>6. \A c \in Around(p, b) : c.of \in Nat /\ (c.part = "catch" => IsTry(p, c))
  BY <1>1, BlockType, BlockParts
<1>7. CASE owing = {} /\ own = {}
  <2>1. SafeAt(p, b)
    BY <1>1, <1>7, FailSafe
  <2>2. Deepest(E) = 0 \/ ~p[Deepest(E)].fin
    <3> SUFFICES ASSUME NEW c \in E, Deepest(E) = c.of, p[c.of].fin PROVE FALSE
      BY <1>5
    <3>1. c \in own
      BY <1>4, <1>6 DEF TryBlocks, Owing
    <3> QED BY <3>1, <1>7
  <2> QED BY <1>3, <2>1, <2>2 DEF ThrowOK, b
<1>8. ASSUME NEW c \in own, owing = {c}, c.of = Deepest(TryBlocks(p, b))
      PROVE  ThrowOK(p, w, b) /\ Bodies(p, p[Head(w.todo)].in) = Bodies(p, b)
  <2>1. /\ c \in Around(p, b) /\ IsTry(p, c) /\ c.part = "catch" /\ p[c.of].fin
        /\ c \in Emitting(p, b) /\ c \in E /\ c.of >= FunctionOf(p, b) /\ c \in TryBlocks(p, b)
    BY <1>4 DEF TryBlocks, Owing
  <2>2. \A d \in TryBlocks(p, b) : d.of <= c.of
    <3>1. TryBlocks(p, b) \subseteq Around(p, b)
      BY DEF TryBlocks
    <3> QED BY <1>1, <1>8, <2>1, <3>1, AroundBlocks
  <2>3. Deepest(E) = c.of
    <3>1. PICK d \in E : Deepest(E) = d.of /\ \A e \in E : e.of <= d.of
      BY <1>5, <2>1
    <3>2. d \in TryBlocks(p, b) /\ d \in Around(p, b)
      BY <1>4, <1>6 DEF TryBlocks
    <3>3. d.of <= c.of /\ c.of <= d.of /\ c.of \in Nat /\ d.of \in Nat
      BY <1>6, <2>1, <2>2, <3>1, <3>2
    <3> QED BY <3>1, <3>3
  <2>4. c.of # 0 /\ c.of \in Nat
    BY <1>6, <2>1 DEF IsTry, KindOf
  <2>5. PushedAbove(p, b, c.of - 1) = {c.of}
    <3>1. c.of \in PushedAbove(p, b, c.of - 1)
      BY <2>1, <2>4 DEF PushedAbove, OnFinallyStack
    <3>2. ASSUME NEW d \in Emitting(p, b), OnFinallyStack(p, d), d.of > c.of - 1 PROVE d.of = c.of
      <4>1. d \in TryBlocks(p, b) /\ d.of \in Nat
        BY <1>4, <1>6, <3>2 DEF TryBlocks, OnFinallyStack
      <4> QED BY <2>2, <2>4, <3>2, <4>1
    <3> QED BY <3>1, <3>2 DEF PushedAbove
  <2>6. w.todo = FinallysAbove(p, b, c.of - 1)
    BY <1>3, <2>1, <2>3, <2>4 DEF b
  <2>7. Falling(w.todo, {c.of})
    BY <1>1, <2>5, <2>6, FinallysFall
  <2>8. w.todo = <<c.of>>
    BY <2>4, <2>7, FallingOne
  <2>9. c.of \in Due(p, b)
    BY <2>1 DEF Due, OnFinallyStack
  <2>10. SafeAt(p, p[c.of].in)
    <3> DEFINE in == p[c.of].in
    <3>1. TryBlocks(p, in) = {d \in TryBlocks(p, b) : d.of < c.of} /\ in \in Block(Len(p)) /\ IsBlock(p, in)
      BY <1>1, <2>1, <2>4, Outward
    <3> HIDE DEF in
    <3> DEFINE S == {d \in TryBlocks(p, b) : d.part = "body" /\ p[d.of].cat = "any"}
               T == {d \in TryBlocks(p, in) : d.part = "body" /\ p[d.of].cat = "any"}
    <3>2. S = T
      <4> SUFFICES ASSUME NEW d \in S PROVE d.of < c.of
        BY <3>1
      <4>1. d \in Around(p, b) /\ d # c
        BY <2>1 DEF TryBlocks
      <4>2. d.of # c.of
        BY <1>1, <2>1, <4>1, OneBlock
      <4> QED BY <1>6, <2>2, <2>4, <4>1, <4>2
    <3>3. Exposed(p, b) = {d \in TryBlocks(p, b) : d.of > Deepest(S)}
          /\ Exposed(p, in) = {d \in TryBlocks(p, in) : d.of > Deepest(T)}
      BY DEF Exposed
    <3>4. {d \in Exposed(p, in) : Owing(p, d)} = {}
      <4> SUFFICES ASSUME NEW d \in Exposed(p, in), Owing(p, d) PROVE FALSE
        OBVIOUS
      <4>1. d \in Exposed(p, b) /\ d.of < c.of
        BY <3>1, <3>2, <3>3
      <4>2. d = c
        BY <1>8, <4>1
      <4> QED BY <2>4, <4>1, <4>2
    <3>5. SafeAt(p, in)
      BY <3>1, <3>4, FailSafe
    <3> QED BY <3>5 DEF in
  <2>11. ASSUME NEW d \in Around(p, b), FrameOf(p, d) PROVE d.of < c.of
    <3>1. d # c /\ d.of \in Nat
      BY <1>6, <2>1, <2>11 DEF FrameOf, IsTry
    <3>2. d.of # c.of
      BY <1>1, <2>1, <3>1, OneBlock
    <3>3. CASE IsTry(p, d)
      <4>1. d \in TryBlocks(p, b)
        BY <3>3 DEF TryBlocks
      <4> QED BY <2>2, <2>4, <3>1, <3>2, <4>1
    <3>4. CASE ~IsTry(p, d)
      <4>1. d.of <= FunctionOf(p, b) /\ FunctionOf(p, b) \in Nat
        BY <1>1, <2>11, <3>4, TheFunction DEF FrameOf
      <4> QED BY <2>1, <2>4, <3>1, <3>2, <4>1
    <3> QED BY <3>3, <3>4
  <2>12. \A u \in Framed(p, b) : u < c.of
    BY <2>11 DEF Framed
  <2>13. Bodies(p, p[c.of].in) = Bodies(p, b)
    <3>1. Bodies(p, p[c.of].in) = {t \in Bodies(p, b) : t < c.of}
      BY <1>1, <2>1, <2>4, Outward
    <3>2. ASSUME NEW d \in TryBlocks(p, b), d.part = "body" PROVE d.of < c.of
      <4>1. d # c /\ d \in Around(p, b)
        BY <2>1, <3>2 DEF TryBlocks
      <4>2. d.of # c.of /\ d.of \in Nat
        BY <1>1, <1>6, <2>1, <4>1, OneBlock
      <4> QED BY <2>2, <2>4, <4>2
    <3>3. \A t \in Bodies(p, b) : t < c.of
      BY <3>2 DEF Bodies
    <3> QED BY <3>1, <3>3
  <2>14. Head(w.todo) = c.of
    BY <2>8
  <2>15. [of |-> c.of, part |-> "body"] \notin Around(p, b)
    <3> DEFINE d == [of |-> c.of, part |-> "body"]
    <3>1. d # c /\ d.of = c.of
      BY <2>1
    <3> HIDE DEF d
    <3>2. d \notin Around(p, b)
      BY <1>1, <2>1, <3>1, OneBlock
    <3> QED BY <3>2 DEF d
  <2> QED BY <2>2, <2>8, <2>9, <2>10, <2>12, <2>13, <2>14, <2>15 DEF ThrowOK
<1>9. QED BY <1>2, <1>7, <1>8 DEF b

(* An exit that leaves no tukuyawi, with the labels of what it leaves.     *)
LEMMA ExitCore ==
  ASSUME NEW p, WellFormed(p), NEW b \in Block(Len(p)), NEW w,
         NEW c \in Around(p, b), c.of = w.to, KindOf(p, c) \in Leaves(w.goal),
         w.to >= FunctionOf(p, b),
         \A d \in Around(p, b) : d.of > w.to =>
           ~(IsTry(p, d) /\ d.part = "fin") /\ (LeavesNoBody(p) => ~(IsTry(p, d) /\ d.part = "body")),
         NEW limit, w.todo = FinallysAbove(p, b, limit),
         \A d \in Emitting(p, b) : OnFinallyStack(p, d) => (d.of > limit <=> d.of > w.to)
  PROVE  ExitOK(p, w, b)
<1>1. /\ FunctionOf(p, b) \in Nat
      /\ \A d \in Around(p, b) : KindOf(p, d) = "call" => d.of <= FunctionOf(p, b)
      /\ Emitting(p, b) = {d \in Around(p, b) : d.of >= FunctionOf(p, b)}
  BY TheFunction
<1>2. \A d \in Around(p, b) : d.of \in Nat
  BY BlockType
<1>3. \A d \in Around(p, b) : d.of > w.to =>
       ~FrameOf(p, d) /\ (LeavesNoBody(p) => ~(IsTry(p, d) /\ d.part = "body"))
  BY <1>1, <1>2 DEF FrameOf
<1>4. PushedAbove(p, b, limit) = {t \in Due(p, b) : t > w.to}
  <2>1. \A d \in Around(p, b) : d.of > w.to => d \in Emitting(p, b)
    BY <1>1, <1>2
  <2>2. Emitting(p, b) \subseteq Around(p, b)
    BY <1>1
  <2>3. ASSUME NEW t \in PushedAbove(p, b, limit) PROVE t \in Due(p, b) /\ t > w.to
    <3>1. PICK d \in Emitting(p, b) : OnFinallyStack(p, d) /\ d.of > limit /\ t = d.of
      BY DEF PushedAbove
    <3> QED BY <2>2, <3>1 DEF Due
  <2>4. ASSUME NEW t \in Due(p, b), t > w.to PROVE t \in PushedAbove(p, b, limit)
    <3>1. PICK d \in Around(p, b) : OnFinallyStack(p, d) /\ t = d.of
      BY DEF Due
    <3>2. d \in Emitting(p, b) /\ d.of > limit
      BY <2>1, <2>4, <3>1
    <3> QED BY <3>1, <3>2 DEF PushedAbove
  <2> QED BY <2>3, <2>4
<1>5. Falling(w.todo, {t \in Due(p, b) : t > w.to})
  BY <1>4, FinallysFall
<1> QED BY <1>3, <1>5 DEF ExitOK

(* return: to the function, past all the labels. *)
LEMMA ReturnPlan ==
  ASSUME NEW p, WellFormed(p), NEW n \in 1..Len(p), p[n].kind = "return",
         ExitsLeaveNo("fin", p, n),
         NEW w, w.goal = "return", w.to = FunctionOf(p, p[n].in), w.todo = ReturnFinallys(p, p[n].in)
  PROVE  ExitOK(p, w, p[n].in)
<1> DEFINE b == p[n].in
           f == FunctionOf(p, b)
           none == 0
<1>1. b \in Block(Len(p)) /\ IsBlock(p, b) /\ Accepts(p, p[n])
  BY StatementType
<1>2. /\ f \in Nat
      /\ f = 0 \/ \E c \in Around(p, b) : c.of = f /\ KindOf(p, c) = "call"
      /\ \A c \in Around(p, b) : KindOf(p, c) = "call" => c.of <= f
      /\ Emitting(p, b) = {c \in Around(p, b) : c.of >= f}
  BY <1>1, TheFunction
<1>3. PICK c \in Around(p, b) : KindOf(p, c) = "call"
  BY <1>1, <1>2 DEF Accepts
<1>4. c.of # 0 /\ c.of \in Nat /\ c.of <= f
  BY <1>1, <1>2, <1>3, BlockType DEF KindOf
<1>5. PICK d \in Around(p, b) : d.of = f /\ KindOf(p, d) = "call"
  BY <1>2, <1>4
<1>6. \A e \in Around(p, b) : e.of > w.to =>
         ~(IsTry(p, e) /\ e.part = "fin") /\ (LeavesNoBody(p) => ~(IsTry(p, e) /\ e.part = "body"))
  <2>1. ExitTarget(p, n) = w.to
    BY DEF ExitTarget
  <2> QED BY <2>1 DEF ExitsLeaveNo, LeftBy, LeavesNoBody
<1>7. KindOf(p, d) \in Leaves(w.goal)
  BY <1>5 DEF Leaves
<1>8. w.todo = FinallysAbove(p, b, none)
  BY DEF ReturnFinallys
<1>9. \A e \in Emitting(p, b) : OnFinallyStack(p, e) => (e.of > none <=> e.of > w.to)
  <2> SUFFICES ASSUME NEW e \in Emitting(p, b), OnFinallyStack(p, e) PROVE e.of > 0 /\ e.of > f
    OBVIOUS
  <2>1. e \in Around(p, b) /\ e.of >= f
    BY <1>2
  <2>2. e # d
    BY <1>5 DEF OnFinallyStack, IsTry
  <2>3. e.of # f /\ e.of \in Nat
    BY <1>1, <1>5, <2>1, <2>2, OneBlock, BlockType
  <2> QED BY <1>2, <2>1, <2>3
<1>10. w.to = d.of /\ w.to >= FunctionOf(p, b)
  BY <1>2, <1>5
<1> HIDE DEF b, none
<1>11. ExitOK(p, w, b)
  BY <1>1, <1>6, <1>7, <1>8, <1>9, <1>10, ExitCore
<1> QED BY <1>11 DEF b

(* continue: to the innermost loop. *)
LEMMA ContinuePlan ==
  ASSUME NEW p, WellFormed(p), NEW n \in 1..Len(p), p[n].kind = "continue",
         ExitsLeaveNo("fin", p, n),
         NEW w, w.goal = "continue", w.to = ContinueTarget(p, p[n].in), w.todo = LoopFinallys(p, p[n].in)
  PROVE  ExitOK(p, w, p[n].in)
<1> DEFINE b == p[n].in
           f == FunctionOf(p, b)
           L == {c \in Emitting(p, b) : IsLoop(p, c)}
           l == Deepest(L)
<1>1. b \in Block(Len(p)) /\ IsBlock(p, b) /\ Accepts(p, p[n])
  BY StatementType
<1>2. /\ f \in Nat
      /\ Emitting(p, b) = {c \in Around(p, b) : c.of >= f}
  BY <1>1, TheFunction
<1>3. L # {}
  BY <1>1 DEF Accepts, IsLoop
<1>4. PICK d \in L : l = d.of
  <2>1. L \subseteq Around(p, b)
    BY <1>2
  <2>2. \/ L = {} /\ Deepest(L) = 0
        \/ \E c \in L : Deepest(L) = c.of /\ \A e \in L : e.of <= c.of
    BY <1>1, <2>1, AroundBlocks
  <2> QED BY <1>3, <2>2
<1>5. \A e \in Around(p, b) : e.of > w.to =>
         ~(IsTry(p, e) /\ e.part = "fin") /\ (LeavesNoBody(p) => ~(IsTry(p, e) /\ e.part = "body"))
  <2>1. ExitTarget(p, n) = w.to
    BY DEF ExitTarget
  <2> QED BY <2>1 DEF ExitsLeaveNo, LeftBy, LeavesNoBody
<1>6. d \in Around(p, b) /\ d.of >= f /\ KindOf(p, d) \in Leaves(w.goal)
  BY <1>2 DEF Leaves, IsLoop
<1>7. w.to = l /\ w.todo = FinallysAbove(p, b, l)
  BY DEF ContinueTarget, LoopFinallys
<1> HIDE DEF b, l
<1>8. ExitOK(p, w, b)
  BY <1>1, <1>4, <1>5, <1>6, <1>7, ExitCore
<1> QED BY <1>8 DEF b

(* A break leaves the innermost loop or khiti; both take the same labels.  *)
LEMMA BreakPlan ==
  ASSUME NEW p, WellFormed(p), NEW n \in 1..Len(p), p[n].kind = "break",
         ExitsLeaveNo("fin", p, n),
         \A s \in 1..Len(p) : SwitchInLoop(p, s),
         NEW w, w.goal = "break", w.to = BreakTarget(p, p[n].in), w.todo = LoopFinallys(p, p[n].in)
  PROVE  ExitOK(p, w, p[n].in)
<1> DEFINE b == p[n].in
           f == FunctionOf(p, b)
           L == {c \in Emitting(p, b) : IsLoop(p, c)}
           T == {c \in Emitting(p, b) : KindOf(p, c) \in {"loop", "switch"}}
           l == Deepest(L)
<1>1. b \in Block(Len(p)) /\ IsBlock(p, b) /\ Accepts(p, p[n])
  BY StatementType
<1>2. /\ f \in Nat
      /\ Emitting(p, b) = {c \in Around(p, b) : c.of >= f}
  BY <1>1, TheFunction
<1>3. T # {}
  BY <1>1 DEF Accepts
<1>4. PICK d \in T : Deepest(T) = d.of /\ \A e \in T : e.of <= d.of
  BY <1>1, <1>2, <1>3, AroundBlocks
<1>5. \A e \in Around(p, b) : e.of > w.to =>
         ~(IsTry(p, e) /\ e.part = "fin") /\ (LeavesNoBody(p) => ~(IsTry(p, e) /\ e.part = "body"))
  <2>1. ExitTarget(p, n) = w.to
    BY DEF ExitTarget
  <2> QED BY <2>1 DEF ExitsLeaveNo, LeftBy, LeavesNoBody
<1>6. d \in Around(p, b) /\ d.of >= f /\ KindOf(p, d) \in Leaves(w.goal)
  BY <1>2 DEF Leaves
<1>7. w.to = d.of /\ w.todo = FinallysAbove(p, b, l)
  BY <1>4 DEF BreakTarget, LoopFinallys
<1>8. \A e \in Around(p, b) : e.of \in Nat
  BY <1>1, BlockType
<1>9. L \subseteq T /\ L \subseteq Around(p, b)
  BY <1>2 DEF IsLoop
<1>10. \/ L = {} /\ l = 0
       \/ \E c \in L : l = c.of /\ \A e \in L : e.of <= c.of
  BY <1>1, <1>9, AroundBlocks
<1>11. l \in Nat /\ l <= d.of
  BY <1>4, <1>6, <1>8, <1>9, <1>10
<1>12. \A e \in Emitting(p, b) : OnFinallyStack(p, e) => (e.of > l <=> e.of > w.to)
  <2>1. CASE d \in L
    <3>1. l = d.of
      BY <1>4, <1>8, <1>9, <1>10, <1>11, <2>1
    <3> QED BY <1>7, <3>1
  <2>2. CASE d \notin L
    <3>1. KindOf(p, d) = "switch"
      BY <2>2 DEF IsLoop
    <3>2. ASSUME NEW e \in Emitting(p, b), IsLoop(p, e) PROVE e.of < d.of
      <4>1. e # d /\ e \in Around(p, b) /\ e.of <= d.of
        BY <1>2, <1>4, <1>9, <2>2, <3>2
      <4>2. e.of # d.of
        BY <1>1, <1>6, <4>1, OneBlock
      <4> QED BY <1>6, <1>8, <4>1, <4>2
    <3>3. d.of \in 1..Len(p)
      BY <1>1, <1>6, <3>1, BlockType DEF KindOf
    <3>4. SwitchInLoop(p, d.of)
      BY <3>3
    <3>5. ASSUME NEW e \in Emitting(p, b), OnFinallyStack(p, e), e.of > l PROVE e.of > d.of
      <4> HIDE DEF b
      <4> QED BY <1>1, <1>6, <3>1, <3>2, <3>4, <3>5, SwitchGap
    <3>6. ASSUME NEW e \in Emitting(p, b), e.of > d.of PROVE e.of > l
      <4>1. e.of \in Nat /\ d.of \in Nat
        BY <1>2, <1>6, <1>8
      <4> QED BY <1>11, <3>6, <4>1
    <3> QED BY <1>7, <3>5, <3>6
  <2> QED BY <2>1, <2>2
<1> HIDE DEF b, l
<1>13. ExitOK(p, w, b)
  BY <1>1, <1>5, <1>6, <1>7, <1>12, ExitCore
<1> QED BY <1>13 DEF b

(* The break that ends a kuna block runs nothing and leaves its khiti.     *)
LEMMA KunaPlan ==
  ASSUME NEW p, WellFormed(p), NEW b \in Block(Len(p)), IsBlock(p, b), KindOf(p, b) = "switch",
         SwitchInLoop(p, b.of),
         NEW w, w.goal = "break", w.to = BreakTarget(p, b), w.todo = LoopFinallys(p, b)
  PROVE  ExitOK(p, w, b)
<1> DEFINE f == FunctionOf(p, b)
           L == {c \in Emitting(p, b) : IsLoop(p, c)}
           T == {c \in Emitting(p, b) : KindOf(p, c) \in {"loop", "switch"}}
           l == Deepest(L)
<1>1. /\ f \in Nat
      /\ f = 0 \/ \E c \in Around(p, b) : c.of = f /\ KindOf(p, c) = "call"
      /\ Emitting(p, b) = {c \in Around(p, b) : c.of >= f}
  BY TheFunction
<1>2. \A c \in Around(p, b) : c.of \in Nat /\ c.of <= b.of
  BY BlockType
<1>3. b \in Around(p, b) /\ b.of \in Nat
  BY <1>2, BlockItself
<1>4. b.of >= f
  BY <1>1, <1>2, <1>3
<1>5. b \in T
  BY <1>1, <1>3, <1>4
<1>6. PICK d \in T : Deepest(T) = d.of /\ \A e \in T : e.of <= d.of
  BY <1>1, <1>5, AroundBlocks
<1>7. w.to = b.of
  <2>1. d.of = b.of
    BY <1>1, <1>2, <1>3, <1>5, <1>6
  <2> QED BY <1>6, <2>1 DEF BreakTarget
<1>8. w.todo = FinallysAbove(p, b, l)
  BY DEF LoopFinallys
<1>9. ASSUME NEW e \in Emitting(p, b), IsLoop(p, e) PROVE e.of < b.of
  <2>1. e # b /\ e \in Around(p, b) /\ e.of <= b.of
    BY <1>1, <1>2, <1>9 DEF IsLoop
  <2>2. e.of # b.of
    BY <1>3, <2>1, OneBlock
  <2> QED BY <1>2, <1>3, <2>1, <2>2
<1>10. ASSUME NEW e \in Emitting(p, b), OnFinallyStack(p, e) PROVE e.of > l <=> e.of > w.to
  <2>1. ~(e.of > b.of)
    BY <1>1, <1>2, <1>3
  <2>2. ~(e.of > l)
    <3> SUFFICES ASSUME e.of > l PROVE FALSE
      OBVIOUS
    <3>1. e.of > b.of
      BY <1>3, <1>4, <1>9, <1>10, SwitchGap
    <3> QED BY <2>1, <3>1
  <2> QED BY <1>7, <2>1, <2>2
<1>11. KindOf(p, b) \in Leaves(w.goal)
  BY DEF Leaves
<1>12. \A e \in Around(p, b) : e.of > w.to =>
           ~(IsTry(p, e) /\ e.part = "fin") /\ (LeavesNoBody(p) => ~(IsTry(p, e) /\ e.part = "body"))
  BY <1>2, <1>3, <1>7
<1> HIDE DEF l
<1> QED BY <1>3, <1>4, <1>7, <1>8, <1>10, <1>11, <1>12, ExitCore

-----------------------------------------------------------------------------
(* The types of the variables. *)

(* The values the variables take, for every program the compiler accepts.  *)
Finallys(p) == {t \in 1..Len(p) : p[t].fin}
(* Straight-line code: what it runs is finally blocks, and where it leads, *)
(* if it leads to a statement.                                             *)
WorkType(p) ==
  {w \in [todo : Seq(Finallys(p)), goal : Goals, to : 0..Len(p), exc : 0..Len(p)] :
     w.goal \in {"run", "throw"} \/ w.to # 0}
(* Return addresses. *)
FrameType(p) == [kind : {"call", "fin"}, of : 1..Len(p), then : WorkType(p), born : Nat]
(* What setjmp has saved. *)
EnvType(p) == [at : 1..Len(p), stack : Seq(FrameType(p))]

(* Work of the parts of a work. *)
LEMMA WorkIsType ==
  ASSUME NEW p, NEW todo \in Seq(Finallys(p)), NEW goal \in Goals,
         NEW to \in 0..Len(p), NEW exc \in 0..Len(p), goal \in {"run", "throw"} \/ to # 0
  PROVE  Work(todo, goal, to, exc) \in WorkType(p)
BY DEF Work, WorkType

(* No work. *)
LEMMA RunningType ==
  ASSUME NEW p, WellFormed(p) PROVE Running \in WorkType(p)
<1>1. Len(p) \in Nat /\ << >> \in Seq(Finallys(p)) /\ "run" \in Goals
  BY DEF WellFormed, Goals
<1>2. 0 \in 0..Len(p)
  BY <1>1
<1> QED BY <1>1, <1>2, WorkIsType DEF Running

(* The tukuyawi of a try, if it has one. *)
LEMMA OwnFinallyType ==
  ASSUME NEW p, NEW t \in 1..Len(p)
  PROVE  (IF p[t].fin THEN <<t>> ELSE << >>) \in Seq(Finallys(p))
<1>1. CASE p[t].fin
  <2>1. t \in Finallys(p)
    BY <1>1 DEF Finallys
  <2>2. <<t>> \in Seq(Finallys(p))
    BY <2>1
  <2> QED BY <1>1, <2>2
<1>2. CASE ~p[t].fin
  BY <1>2
<1> QED BY <1>1, <1>2

(* The calls emitted are calls of finally blocks. *)
LEMMA FinallysType ==
  ASSUME NEW p, WellFormed(p), NEW b \in Block(Len(p)), NEW limit
  PROVE  FinallysAbove(p, b, limit) \in Seq(Finallys(p))
<1>1. PushedAbove(p, b, limit) \subseteq Finallys(p)
  <2> SUFFICES ASSUME NEW c \in Around(p, b), OnFinallyStack(p, c) PROVE c.of \in Finallys(p)
    BY TheFunction DEF PushedAbove
  <2>1. c.of # 0
    BY DEF OnFinallyStack, IsTry, KindOf
  <2> QED BY <2>1, BlockType DEF Finallys, OnFinallyStack
<1>2. FinallysAbove(p, b, limit) \in Seq(PushedAbove(p, b, limit))
  BY FinallysFall DEF Falling
<1> DEFINE s == FinallysAbove(p, b, limit)
           S == PushedAbove(p, b, limit)
           T == Finallys(p)
<1>3. s \in Seq(S) /\ S \subseteq T
  BY <1>1, <1>2
<1> HIDE DEF s, S, T
<1>4. s \in Seq(T)
  BY <1>3, SeqMonotonic
<1> QED BY <1>4 DEF s, T

(* For each of the three ways to leave. *)
LEMMA TodoTypes ==
  ASSUME NEW p, WellFormed(p), NEW b \in Block(Len(p))
  PROVE  /\ LoopFinallys(p, b) \in Seq(Finallys(p))
         /\ ReturnFinallys(p, b) \in Seq(Finallys(p))
         /\ ThrowFinallys(p, b) \in Seq(Finallys(p))
BY FinallysType DEF LoopFinallys, ReturnFinallys, ThrowFinallys

(* Where they lead is a statement, when there is one to lead to. *)
LEMMA TargetTypes ==
  ASSUME NEW p, WellFormed(p), NEW b \in Block(Len(p))
  PROVE  /\ FunctionOf(p, b) \in 0..Len(p)
         /\ BreakTarget(p, b) \in 0..Len(p)
         /\ ContinueTarget(p, b) \in 0..Len(p)
         /\ (\E c \in Emitting(p, b) : KindOf(p, c) = "call") => FunctionOf(p, b) # 0
         /\ (\E c \in Emitting(p, b) : KindOf(p, c) \in {"loop", "switch"}) => BreakTarget(p, b) # 0
         /\ (\E c \in Emitting(p, b) : KindOf(p, c) = "loop") => ContinueTarget(p, b) # 0
<1>1. Emitting(p, b) \subseteq Around(p, b)
  BY TheFunction
<1>2. ASSUME NEW S, S \subseteq Around(p, b), \A c \in S : KindOf(p, c) # "main"
      PROVE  Deepest(S) \in 0..Len(p) /\ (S # {} => Deepest(S) # 0)
  <2>1. \/ S = {} /\ Deepest(S) = 0
        \/ \E c \in S : Deepest(S) = c.of /\ \A d \in S : d.of <= c.of
    BY <1>2, AroundBlocks
  <2>2. \A c \in S : c.of \in 0..Len(p) /\ c.of # 0
    BY <1>2, BlockType DEF KindOf
  <2>3. 0 \in 0..Len(p)
    BY DEF WellFormed
  <2> QED BY <2>1, <2>2, <2>3
<1> DEFINE C == {c \in Around(p, b) : KindOf(p, c) = "call"}
           T == {c \in Emitting(p, b) : KindOf(p, c) \in {"loop", "switch"}}
           L == {c \in Emitting(p, b) : IsLoop(p, c)}
<1>3. Deepest(C) \in 0..Len(p) /\ (C # {} => Deepest(C) # 0)
  <2>1. C \subseteq Around(p, b) /\ \A c \in C : KindOf(p, c) # "main"
    OBVIOUS
  <2> HIDE DEF C
  <2> QED BY <2>1, <1>2
<1>4. Deepest(T) \in 0..Len(p) /\ (T # {} => Deepest(T) # 0)
  <2>1. T \subseteq Around(p, b) /\ \A c \in T : KindOf(p, c) # "main"
    BY <1>1
  <2> HIDE DEF T
  <2> QED BY <2>1, <1>2
<1>5. Deepest(L) \in 0..Len(p) /\ (L # {} => Deepest(L) # 0)
  <2>1. L \subseteq Around(p, b) /\ \A c \in L : KindOf(p, c) # "main"
    BY <1>1 DEF IsLoop
  <2> HIDE DEF L
  <2> QED BY <2>1, <1>2
<1>6. FunctionOf(p, b) = Deepest(C) /\ BreakTarget(p, b) = Deepest(T) /\ ContinueTarget(p, b) = Deepest(L)
  BY DEF FunctionOf, BreakTarget, ContinueTarget
<1>7. /\ (\E c \in Emitting(p, b) : KindOf(p, c) = "call") => C # {}
      /\ (\E c \in Emitting(p, b) : KindOf(p, c) \in {"loop", "switch"}) => T # {}
      /\ (\E c \in Emitting(p, b) : KindOf(p, c) = "loop") => L # {}
  BY <1>1 DEF IsLoop
<1> HIDE DEF C, T, L
<1> QED BY <1>3, <1>4, <1>5, <1>6, <1>7

(* And the semantic analyser sees to it that there is. *)
LEMMA ExitTypes ==
  ASSUME NEW p, WellFormed(p), NEW n \in 1..Len(p)
  PROVE  LET b == p[n].in IN
         /\ p[n].kind = "return" => FunctionOf(p, b) \in 1..Len(p)
         /\ p[n].kind = "break" => BreakTarget(p, b) \in 1..Len(p)
         /\ p[n].kind = "continue" => ContinueTarget(p, b) \in 1..Len(p)
<1> DEFINE b == p[n].in
<1>1. b \in Block(Len(p)) /\ Accepts(p, p[n]) /\ Len(p) \in Nat
  BY StatementType
<1>2. /\ p[n].kind = "return" => \E c \in Emitting(p, b) : KindOf(p, c) = "call"
      /\ p[n].kind = "break" => \E c \in Emitting(p, b) : KindOf(p, c) \in {"loop", "switch"}
      /\ p[n].kind = "continue" => \E c \in Emitting(p, b) : KindOf(p, c) = "loop"
  BY <1>1 DEF Accepts
<1> HIDE DEF b
<1>3. \A x \in 0..Len(p) : x # 0 => x \in 1..Len(p)
  BY <1>1
<1>4. /\ p[n].kind = "return" => FunctionOf(p, b) \in 1..Len(p)
      /\ p[n].kind = "break" => BreakTarget(p, b) \in 1..Len(p)
      /\ p[n].kind = "continue" => ContinueTarget(p, b) \in 1..Len(p)
  BY <1>1, <1>2, <1>3, TargetTypes
<1> QED BY <1>4 DEF b

(* Links lead to handlers allocated at some time; and calloc hands out the *)
(* address of no record that is still allocated, so that of two handlers   *)
(* with one address the older one has been released.                       *)
HeapOK(hp) ==
  /\ \A h \in 1..Len(hp) : hp[h].prev \in 0..Len(hp)
  /\ \A h, g \in 1..Len(hp) : h < g /\ hp[h].at = hp[g].at => ~hp[h].live

(* The type invariant that is inductive: TypeOK, and the types of the      *)
(* values the actions read.                                                *)
TypeInv ==
  /\ prog \in Programs
  /\ pos \in Block(Len(prog)) /\ last \in 0..Len(prog)
  /\ work \in WorkType(prog)
  /\ stack \in Seq(FrameType(prog))
  /\ slot \in [1..Len(prog) -> 0..Len(heap)]
  /\ env \in Seq(EnvType(prog)) /\ Len(env) = Len(heap)
  /\ ran \in Seq(0..2) /\ Len(ran) = Len(heap)
  /\ held \in Seq(0..Len(prog)) /\ Len(held) = Len(heap)
  /\ heap \in Seq(Handler) /\ current \in 0..Len(heap) /\ Len(heap) <= MaxTries
  /\ HeapOK(heap)
  /\ status \in {"running", "finished", "unhandled", "undefined"}

(* What it says of the program. *)
LEMMA ProgramFacts ==
  ASSUME TypeInv
  PROVE  /\ WellFormed(prog) /\ Len(prog) \in Nat
         /\ Len(heap) \in Nat /\ 0 \in 0..Len(prog) /\ 0 \in 0..Len(heap)
         /\ pos.of \in 0..Len(prog)
         /\ \A n \in 1..Len(prog) :
              /\ prog[n].in \in Block(Len(prog)) /\ n \in 0..Len(prog)
              /\ \A q \in {"body", "catch", "fin", "kuna", "yaqha"} :
                   [of |-> n, part |-> q] \in Block(Len(prog))
<1>1. WellFormed(prog)
  BY ProgramsAssumption DEF TypeInv
<1>2. Len(prog) \in Nat
  BY <1>1 DEF WellFormed
<1>3. Len(heap) \in Nat
  BY DEF TypeInv
<1>4. \A n \in 1..Len(prog) : prog[n].in \in Block(Len(prog))
  BY <1>1, StatementType
<1>5. pos \in Block(Len(prog))
  BY DEF TypeInv
<1> QED BY <1>1, <1>2, <1>3, <1>4, <1>5 DEF Block

(* The history counts to two. *)
LEMMA MinTwo ==
  ASSUME NEW x \in 0..2
  PROVE  /\ Min({2, x + 1}) \in 0..2
         /\ x = 0 => Min({2, x + 1}) = 1
<1> DEFINE S == {2, x + 1}
           m == Min(S)
<1>1. x \in Nat /\ x <= 2 /\ S = {2, x + 1}
  OBVIOUS
<1>2. \E z \in S : \A y \in S : z <= y
  BY <1>1
<1> HIDE DEF S
<1>3. m \in S /\ \A y \in S : m <= y
  BY <1>2 DEF Min
<1> HIDE DEF m
<1>4. (m = 2 \/ m = x + 1) /\ m <= 2 /\ m <= x + 1
  BY <1>1, <1>3
<1>5. m \in 0..2 /\ (x = 0 => m = 1)
  BY <1>1, <1>4
<1> QED BY <1>5 DEF m, S

(* The steps that only plan what to do next. *)
LEMMA PlanType ==
  ASSUME TypeInv, NEW w \in WorkType(prog), Begin(w)
  PROVE  TypeInv'
BY DEF TypeInv, Begin, chainVars

(* Where control goes wrong, nothing changes but the status. *)
LEMMA UndefinedType == ASSUME TypeInv, Undefined PROVE TypeInv'
BY DEF TypeInv, Undefined, chainVars

(* The steps that move control and leave the rest to a return address. *)
LEMMA MoveType ==
  ASSUME TypeInv, NEW b \in Block(Len(prog)), NEW n \in 0..Len(prog), GoTo(b, n),
         work' \in WorkType(prog), stack' \in Seq(FrameType(prog)),
         UNCHANGED <<chainVars, prog, slot, env, ran, status>>
  PROVE  TypeInv'
BY DEF TypeInv, GoTo, chainVars

(* The four sequences indexed by handlers grow together. *)
LEMMA Longer4 ==
  ASSUME TypeInv, NEW h \in Handler, heap' = Append(heap, h),
         NEW x \in 0..Len(prog), held' = Append(held, x),
         NEW e \in EnvType(prog), env' = Append(env, e),
         NEW r \in 0..2, ran' = Append(ran, r)
  PROVE  /\ heap' \in Seq(Handler) /\ Len(heap') = Len(heap) + 1
         /\ held' \in Seq(0..Len(prog)) /\ Len(held') = Len(heap) + 1
         /\ env' \in Seq(EnvType(prog)) /\ Len(env') = Len(heap) + 1
         /\ ran' \in Seq(0..2) /\ Len(ran') = Len(heap) + 1
<1>1. heap \in Seq(Handler) /\ held \in Seq(0..Len(prog)) /\ env \in Seq(EnvType(prog)) /\ ran \in Seq(0..2)
      /\ Len(held) = Len(heap) /\ Len(env) = Len(heap) /\ Len(ran) = Len(heap)
  BY DEF TypeInv
<1>2. heap' \in Seq(Handler) /\ Len(heap') = Len(heap) + 1
  BY <1>1
<1>3. held' \in Seq(0..Len(prog)) /\ Len(held') = Len(held) + 1
  BY <1>1
<1>4. env' \in Seq(EnvType(prog)) /\ Len(env') = Len(env) + 1
  BY <1>1
<1>5. ran' \in Seq(0..2) /\ Len(ran') = Len(ran) + 1
  BY <1>1
<1> QED BY <1>1, <1>2, <1>3, <1>4, <1>5

(* What calloc may return. *)
LEMMA FreeType ==
  ASSUME TypeInv, NEW a \in Free
  PROVE  a \in Nat /\ \A g \in 1..Len(heap) : heap[g].at = a => ~heap[g].live
<1>1. \A g \in 1..Len(heap) : heap[g] \in Handler
  BY DEF TypeInv
<1>2. \A g \in 1..Len(heap) : heap[g].at \in Nat
  BY <1>1 DEF Handler
<1> QED BY <1>2, ProgramFacts DEF Free

(* A record more at such an address. *)
LEMMA HeapPush ==
  ASSUME NEW hp \in Seq(Handler), HeapOK(hp), NEW h \in Handler, h.prev \in 0..Len(hp),
         \A g \in 1..Len(hp) : hp[g].at = h.at => ~hp[g].live
  PROVE  HeapOK(Append(hp, h))
<1> DEFINE hq == Append(hp, h)
           l == Len(hp)
<1>1. /\ l \in Nat /\ Len(hq) = l + 1 /\ hq[l + 1] = h
      /\ \A i \in 1..l : hq[i] = hp[i]
  OBVIOUS
<1>2. \A i \in 1..(l + 1) : i \in 1..l \/ i = l + 1
  BY <1>1
<1>3. /\ \A i \in 1..l : hp[i].prev \in 0..l
      /\ \A i, j \in 1..l : i < j /\ hp[i].at = hp[j].at => ~hp[i].live
  BY DEF HeapOK
<1>4. h.prev \in 0..l /\ \A g \in 1..l : hp[g].at = h.at => ~hp[g].live
  OBVIOUS
<1> HIDE DEF hq, l
<1>5. ASSUME NEW i \in 1..Len(hq) PROVE hq[i].prev \in 0..Len(hq)
  <2>1. hq[i].prev \in 0..l
    BY <1>1, <1>2, <1>3, <1>4
  <2> QED BY <1>1, <2>1
<1>6. ASSUME NEW i \in 1..Len(hq), NEW j \in 1..Len(hq), i < j, hq[i].at = hq[j].at
      PROVE  ~hq[i].live
  <2>1. i \in 1..l
    BY <1>1, <1>6
  <2>2. CASE j \in 1..l
    BY <1>1, <1>3, <1>6, <2>1, <2>2
  <2>3. CASE j = l + 1
    BY <1>1, <1>4, <1>6, <2>1, <2>3
  <2> QED BY <1>1, <1>2, <2>2, <2>3
<1>7. HeapOK(hq)
  BY <1>5, <1>6 DEF HeapOK
<1> QED BY <1>7 DEF hq

(* A pointer leads to a record of its address; while its own record is     *)
(* allocated, to that one.                                                 *)
LEMMA Dereference ==
  ASSUME TypeInv, NEW h \in 1..Len(heap)
  PROVE  /\ At(h) \in 1..Len(heap)
         /\ heap[h].live => At(h) = h
<1> DEFINE l == Len(heap)
           S == {g \in 1..l : heap[g].at = heap[h].at}
           D == {l - g : g \in S}
<1>1. l \in Nat /\ h \in 1..l
  BY ProgramFacts
<1>2. D \subseteq Nat /\ D # {} /\ S \subseteq Nat
  BY <1>1
<1>3. PICK m \in D : \A y \in D : m <= y
  BY <1>2, Least
<1>4. PICK g \in S : m = l - g
  BY <1>3
<1>5. ASSUME NEW i \in S PROVE g >= i
  <2>1. l - g <= l - i
    BY <1>3, <1>4
  <2>2. g \in 1..l /\ i \in 1..l
    BY <1>4
  <2> HIDE DEF S, D, l
  <2> QED BY <1>1, <2>1, <2>2
<1>6. At(h) \in S /\ \A i \in S : At(h) >= i
  <2>1. At(h) = Max(S)
    BY DEF At
  <2> HIDE DEF S
  <2> QED BY <1>4, <1>5, <2>1 DEF Max
<1>7. ASSUME heap[h].live PROVE At(h) = h
  <2>1. \A i \in S : ~(h < i)
    BY <1>7 DEF TypeInv, HeapOK
  <2>2. h \in S
    OBVIOUS
  <2>3. At(h) >= h /\ ~(h < At(h)) /\ At(h) \in Nat /\ h \in Nat
    <3> HIDE DEF S
    <3> QED BY <1>2, <1>6, <2>1, <2>2
  <2> QED BY <2>3
<1> QED BY <1>6, <1>7

(* A try that is entered is within the bound. *)
LEMMA Within ==
  ASSUME NEW l \in Nat, l < MaxTries, NEW m, m = l + 1
  PROVE  m <= MaxTries /\ m \in 0..m
BY MaxTriesAssumption

(* Every statement keeps the type invariant. *)
LEMMA StatementTypes ==
  ASSUME TypeInv, NEW n \in 1..Len(prog), StatementStep(n)
  PROVE  TypeInv'
<1> USE ProgramFacts
<1>0. Executing => Running \in WorkType(prog) /\ work = Running /\ status = "running"
  BY RunningType DEF Executing
<1>1. pos = prog[n].in \/ ~StatementStep(n)
  BY DEF StatementStep, Throw, RuntimeError, Break, Continue, Return, Call, EnterLoop, EnterSwitch,
         EnterTry, Reaches
<1>2. /\ LoopFinallys(prog, pos) \in Seq(Finallys(prog))
      /\ ReturnFinallys(prog, pos) \in Seq(Finallys(prog))
      /\ ThrowFinallys(prog, pos) \in Seq(Finallys(prog))
  BY TodoTypes DEF TypeInv
<1>3. CASE Throw(n)
  <2>1. Work(ThrowFinallys(prog, pos), "throw", 0, n) \in WorkType(prog)
    BY <1>2, WorkIsType DEF Goals
  <2> QED BY <1>3, <2>1, PlanType DEF Throw
<1>4. CASE RuntimeError(n)
  <2>1. Work(<< >>, "throw", 0, n) \in WorkType(prog)
    <3>1. << >> \in Seq(Finallys(prog)) /\ "throw" \in Goals
      BY DEF Goals
    <3> QED BY <3>1, WorkIsType
  <2> QED BY <1>4, <2>1, PlanType DEF RuntimeError
<1>5. CASE Break(n)
  <2>1. BreakTarget(prog, pos) \in 1..Len(prog)
    BY <1>1, <1>5, ExitTypes DEF Break, Reaches
  <2>2. Work(LoopFinallys(prog, pos), "break", BreakTarget(prog, pos), 0) \in WorkType(prog)
    BY <1>2, <2>1, WorkIsType DEF Goals
  <2> QED BY <1>5, <2>2, PlanType DEF Break
<1>6. CASE Continue(n)
  <2>1. ContinueTarget(prog, pos) \in 1..Len(prog)
    BY <1>1, <1>6, ExitTypes DEF Continue, Reaches
  <2>2. Work(LoopFinallys(prog, pos), "continue", ContinueTarget(prog, pos), 0) \in WorkType(prog)
    BY <1>2, <2>1, WorkIsType DEF Goals
  <2> QED BY <1>6, <2>2, PlanType DEF Continue
<1>7. CASE Return(n)
  <2>1. FunctionOf(prog, pos) \in 1..Len(prog)
    BY <1>1, <1>7, ExitTypes DEF Return, Reaches
  <2>2. Work(ReturnFinallys(prog, pos), "return", FunctionOf(prog, pos), 0) \in WorkType(prog)
    BY <1>2, <2>1, WorkIsType DEF Goals
  <2> QED BY <1>7, <2>2, PlanType DEF Return
<1>8. CASE Call(n)
  <2>1. Frame("call", n, Running) \in FrameType(prog)
    BY RunningType DEF Frame, FrameType
  <2>2. stack' \in Seq(FrameType(prog))
    <3>1. stack \in Seq(FrameType(prog)) /\ stack' = Append(stack, Frame("call", n, Running))
      BY <1>8 DEF TypeInv, Call
    <3> QED BY <2>1, <3>1
  <2>3. work' \in WorkType(prog)
    BY <1>8 DEF TypeInv, Call
  <2> QED BY <1>8, <2>2, <2>3, MoveType DEF Call
<1>9. CASE EnterLoop(n) \/ EnterSwitch(n)
  <2>1. work' \in WorkType(prog) /\ stack' \in Seq(FrameType(prog))
    BY <1>9 DEF TypeInv, EnterLoop, EnterSwitch
  <2>2. CASE EnterLoop(n)
    BY <2>1, <2>2, MoveType DEF EnterLoop
  <2>3. CASE EnterSwitch(n)
    BY <2>1, <2>3, MoveType DEF EnterSwitch
  <2> QED BY <1>9, <2>2, <2>3
<1>10. CASE EnterTry(n)
  <2>0. PICK a \in Free : heap' = Append(heap, [at |-> a, prev |-> current, live |-> TRUE])
    BY <1>10 DEF EnterTry, TryPush
  <2> DEFINE h == [at |-> a, prev |-> current, live |-> TRUE]
             e == [at |-> n, stack |-> stack]
             none == 0
  <2>1. h \in Handler /\ e \in EnvType(prog) /\ none \in 0..2 /\ none \in 0..Len(prog)
    <3>1. a \in Nat
      BY FreeType
    <3> QED BY <3>1 DEF TypeInv, Handler, EnvType
  <2>7. h.prev = current /\ \A g \in 1..Len(heap) : heap[g].at = h.at => ~heap[g].live
    BY FreeType
  <2>2. /\ heap' = Append(heap, h) /\ held' = Append(held, none) /\ env' = Append(env, e)
        /\ ran' = Append(ran, none) /\ current' = Len(heap) + 1
        /\ slot' = [slot EXCEPT ![n] = current'] /\ Len(heap) < MaxTries
        /\ pos' = [of |-> n, part |-> "body"] /\ last' = none
        /\ UNCHANGED <<prog, work, stack, status>>
    BY <1>10, <2>0 DEF EnterTry, TryPush, GoTo, NULL
  <2> HIDE DEF h, e, none
  <2>3. /\ heap' \in Seq(Handler) /\ Len(heap') = Len(heap) + 1
        /\ held' \in Seq(0..Len(prog)) /\ Len(held') = Len(heap) + 1
        /\ env' \in Seq(EnvType(prog)) /\ Len(env') = Len(heap) + 1
        /\ ran' \in Seq(0..2) /\ Len(ran') = Len(heap) + 1
    BY <2>1, <2>2, Longer4
  <2>4. Len(heap') <= MaxTries /\ current' \in 0..Len(heap')
    BY <2>2, <2>3, Within
  <2>5. slot' \in [1..Len(prog) -> 0..Len(heap')]
    <3>1. \A x \in 0..Len(heap) : x \in 0..Len(heap')
      BY <2>3
    <3>2. slot \in [1..Len(prog) -> 0..Len(heap)]
      BY DEF TypeInv
    <3> QED BY <2>2, <2>4, <3>1, <3>2
  <2>6. pos' \in Block(Len(prog)) /\ last' \in 0..Len(prog)
    BY <2>1, <2>2
  <2>8. HeapOK(heap')
    <3>1. heap \in Seq(Handler) /\ current \in 0..Len(heap) /\ HeapOK(heap)
      BY DEF TypeInv
    <3> QED BY <2>1, <2>2, <2>7, <3>1, HeapPush
  <2> QED BY <2>2, <2>3, <2>4, <2>5, <2>6, <2>8 DEF TypeInv
<1> QED BY <1>3, <1>4, <1>5, <1>6, <1>7, <1>8, <1>9, <1>10 DEF StatementStep

(* aym_try_pop leaves a registry of the same length. *)
LEMMA PopType ==
  ASSUME TypeInv, NEW h, IsLive(h), TryPop(h)
  PROVE  /\ heap' \in Seq(Handler) /\ Len(heap') = Len(heap)
         /\ current' \in 0..Len(heap)
         /\ held' = held /\ HeapOK(heap')
<1> DEFINE g == At(h)
<1>1. g \in 1..Len(heap) /\ heap \in Seq(Handler) /\ current \in 0..Len(heap) /\ Len(heap) \in Nat
  BY Dereference DEF TypeInv, IsLive
<1>2. /\ heap' = [heap EXCEPT ![g].live = FALSE] /\ held' = held
      /\ current' = heap[g].prev \/ current' = current
  BY DEF TryPop
<1> HIDE DEF g
<1>3. heap[g] \in Handler
  BY <1>1
<1> DEFINE freed == [heap[g] EXCEPT !.live = FALSE]
<1>4. freed \in Handler /\ freed.at = heap[g].at /\ freed.prev = heap[g].prev /\ ~freed.live
  BY <1>3 DEF Handler
<1>5. heap' = [heap EXCEPT ![g] = freed]
  BY <1>2
<1> HIDE DEF freed
<1>6. /\ heap' \in Seq(Handler) /\ Len(heap') = Len(heap)
      /\ \A i \in 1..Len(heap) : heap'[i] = IF i = g THEN freed ELSE heap[i]
  BY <1>1, <1>4, <1>5
<1>7. \A i \in 1..Len(heap) :
        /\ heap'[i].prev = heap[i].prev /\ heap'[i].at = heap[i].at
        /\ heap'[i].live => heap[i].live
  BY <1>4, <1>6
<1>8. HeapOK(heap)
  BY DEF TypeInv
<1>9. HeapOK(heap')
  BY <1>6, <1>7, <1>8 DEF HeapOK
<1>10. heap[g].prev \in 0..Len(heap)
  BY <1>1, <1>8 DEF HeapOK
<1> QED BY <1>1, <1>2, <1>6, <1>9, <1>10

(* A step that releases a handler. *)
LEMMA PopStep ==
  ASSUME TypeInv, NEW h, IsLive(h), TryPop(h),
         pos' \in Block(Len(prog)), last' \in 0..Len(prog), work' \in WorkType(prog),
         UNCHANGED <<prog, stack, slot, env, ran, status>>
  PROVE  TypeInv'
BY PopType DEF TypeInv

(* A sequence without its last element. *)
LEMMA FrontOf ==
  ASSUME NEW S, NEW s \in Seq(S), Len(s) # 0
  PROVE  LET f == SubSeq(s, 1, Len(s) - 1) IN
         /\ f \in Seq(S) /\ Len(f) = Len(s) - 1
         /\ \A i \in 1..(Len(s) - 1) : f[i] = s[i]
<1> DEFINE m == 1
           l == Len(s) - 1
           f == SubSeq(s, m, l)
<1>1. m \in Int /\ l \in Int /\ \A i \in m..l : s[i] \in S
  OBVIOUS
<1>2. m = 1 /\ l \in Nat /\ l = Len(s) - 1
  OBVIOUS
<1> HIDE DEF m, l
<1>3. /\ f \in Seq(S) /\ Len(f) = IF m <= l THEN l - m + 1 ELSE 0
      /\ \A i \in 1..(l - m + 1) : f[i] = s[m + i - 1]
  BY <1>1, SubSeqProperties
<1> HIDE DEF f
<1>4. Len(f) = l /\ \A i \in 1..l : f[i] = s[i]
  BY <1>2, <1>3
<1> QED BY <1>2, <1>3, <1>4 DEF f

(* The top of the stack, and the rest. *)
LEMMA TopFrame ==
  ASSUME TypeInv, stack # << >>
  PROVE  /\ Last(stack) \in FrameType(prog) /\ Front(stack) \in Seq(FrameType(prog))
         /\ Len(stack) \in Nat \ {0} /\ Last(stack) = stack[Len(stack)]
         /\ Len(Front(stack)) = Len(stack) - 1
         /\ \A i \in 1..(Len(stack) - 1) : Front(stack)[i] = stack[i]
<1> DEFINE F == FrameType(prog)
<1>1. stack \in Seq(F)
  BY DEF TypeInv
<1> HIDE DEF F
<1>2. Len(stack) \in Nat /\ Len(stack) # 0
  BY <1>1
<1>3. stack[Len(stack)] \in F
  BY <1>1, <1>2
<1>4. Front(stack) = SubSeq(stack, 1, Len(stack) - 1) /\ Last(stack) = stack[Len(stack)]
  BY DEF Front, Last
<1>5. Front(stack) \in Seq(F) /\ Len(Front(stack)) = Len(stack) - 1
      /\ \A i \in 1..(Len(stack) - 1) : Front(stack)[i] = stack[i]
  BY <1>1, <1>2, <1>4, FrontOf
<1> QED BY <1>2, <1>3, <1>4, <1>5 DEF F

(* Every end of a block keeps the type invariant. *)
LEMMA EndTypes ==
  ASSUME TypeInv, BlockEnd
  PROVE  TypeInv'
<1> USE ProgramFacts
<1>1. KindOf(prog, pos) # "main" => pos.of \in 1..Len(prog)
  BY DEF KindOf
<1> DEFINE own == OwnFinally(pos.of)
<1>2. pos.of \in 1..Len(prog) => Work(own, "fall", pos.of, 0) \in WorkType(prog)
  <2> SUFFICES ASSUME pos.of \in 1..Len(prog) PROVE Work(own, "fall", pos.of, 0) \in WorkType(prog)
    OBVIOUS
  <2>1. own \in Seq(Finallys(prog)) /\ "fall" \in Goals /\ pos.of # 0
    BY OwnFinallyType DEF OwnFinally, Goals
  <2> HIDE DEF own
  <2> QED BY <2>1, WorkIsType
<1> HIDE DEF own
<1>3. CASE EndTryBody
  <2>1. pos.of \in 1..Len(prog)
    BY <1>1, <1>3 DEF EndTryBody, EndsBlock
  <2>2. CASE ~IsLive(slot[pos.of])
    BY <1>3, <2>2, UndefinedType DEF EndTryBody
  <2>3. CASE IsLive(slot[pos.of])
    <3>1. /\ TryPop(slot[pos.of]) /\ work' = Work(own, "fall", pos.of, 0)
          /\ UNCHANGED <<prog, pos, last, stack, slot, env, ran, status>>
      BY <1>3, <2>3 DEF EndTryBody, own
    <3>2. pos' \in Block(Len(prog)) /\ last' \in 0..Len(prog)
      BY <3>1 DEF TypeInv
    <3> QED BY <1>2, <2>1, <2>3, <3>1, <3>2, PopStep
  <2> QED BY <2>2, <2>3
<1>4. CASE EndCatch
  <2>1. pos.of \in 1..Len(prog)
    BY <1>1, <1>4 DEF EndCatch, EndsBlock
  <2> QED BY <1>2, <1>4, <2>1, PlanType DEF EndCatch, own
<1>5. CASE EndFinally
  <2>1. pos.of \in 1..Len(prog)
    BY <1>1, <1>5 DEF EndFinally, EndsBlock
  <2>2. CASE ~OnTop("fin", pos.of)
    BY <1>5, <2>2, UndefinedType DEF EndFinally
  <2>3. CASE OnTop("fin", pos.of)
    <3>1. Last(stack) \in FrameType(prog) /\ Front(stack) \in Seq(FrameType(prog))
      BY <2>3, TopFrame DEF OnTop
    <3>2. Last(stack).then \in WorkType(prog)
      BY <3>1 DEF FrameType
    <3> QED BY <1>5, <2>1, <2>3, <3>1, <3>2, MoveType DEF EndFinally, AfterStmt
  <2> QED BY <2>2, <2>3
<1>6. CASE EndLoopBody
  <2>1. pos.of \in 1..Len(prog) /\ NextRound(pos.of)
    BY <1>1, <1>6 DEF EndLoopBody, EndsBlock
  <2>2. work' \in WorkType(prog) /\ stack' \in Seq(FrameType(prog))
    BY <2>1, RunningType DEF NextRound, TypeInv
  <2> QED BY <2>1, <2>2, MoveType DEF NextRound, AfterStmt
<1>7. CASE EndKuna
  <2>1. BreakTarget(prog, pos) \in 1..Len(prog)
    <3>1. \E c \in Emitting(prog, pos) : KindOf(prog, c) \in {"loop", "switch"}
      <4>1. KindOf(prog, pos) = "switch"
        BY <1>7 DEF EndKuna, EndsBlock
      <4>2. pos \in Around(prog, pos) /\ pos \in Block(Len(prog))
        BY BlockItself DEF TypeInv
      <4>3. FunctionOf(prog, pos) <= pos.of
        <5>1. FunctionOf(prog, pos) = 0
              \/ \E c \in Around(prog, pos) : c.of = FunctionOf(prog, pos)
          BY <4>2, TheFunction
        <5> QED BY <4>2, <5>1, BlockType
      <4>4. pos \in Emitting(prog, pos)
        <5>1. FunctionOf(prog, pos) \in Nat /\ Emitting(prog, pos) = {c \in Around(prog, pos) : c.of >= FunctionOf(prog, pos)}
          BY <4>2, TheFunction
        <5> QED BY <4>2, <4>3, <5>1
      <4> QED BY <4>1, <4>4
    <3>2. pos \in Block(Len(prog))
      BY DEF TypeInv
    <3>3. BreakTarget(prog, pos) \in 0..Len(prog) /\ BreakTarget(prog, pos) # 0
      BY <3>1, <3>2, TargetTypes
    <3> QED BY <3>3
  <2>2. LoopFinallys(prog, pos) \in Seq(Finallys(prog)) /\ "break" \in Goals
    BY TodoTypes DEF TypeInv, Goals
  <2>3. Work(LoopFinallys(prog, pos), "break", BreakTarget(prog, pos), 0) \in WorkType(prog)
    BY <2>1, <2>2, WorkIsType
  <2> QED BY <1>7, <2>3, PlanType DEF EndKuna
<1>8. CASE EndYaqha
  <2>1. pos.of \in 1..Len(prog)
    BY <1>1, <1>8 DEF EndYaqha, EndsBlock
  <2>2. << >> \in Seq(Finallys(prog)) /\ "fall" \in Goals /\ pos.of # 0
    BY <2>1 DEF Goals
  <2>3. Work(<< >>, "fall", pos.of, 0) \in WorkType(prog)
    BY <2>1, <2>2, WorkIsType
  <2> QED BY <1>8, <2>3, PlanType DEF EndYaqha
<1>9. ASSUME NEW f \in 1..Len(prog), Epilogue(f) PROVE TypeInv'
  <2>1. CASE ~OnTop("call", f)
    BY <1>9, <2>1, UndefinedType DEF Epilogue
  <2>2. CASE OnTop("call", f)
    <3>1. Front(stack) \in Seq(FrameType(prog))
      BY <2>2, TopFrame DEF OnTop
    <3>2. work' \in WorkType(prog)
      BY <1>9, <2>2, RunningType DEF Epilogue
    <3> QED BY <1>9, <2>2, <3>1, <3>2, MoveType DEF Epilogue, AfterStmt
  <2> QED BY <2>1, <2>2
<1>10. CASE EndFunction
  <2>1. pos.of \in 1..Len(prog)
    BY <1>1, <1>10 DEF EndFunction, EndsBlock
  <2> QED BY <1>9, <1>10, <2>1 DEF EndFunction
<1>11. CASE EndMain
  BY <1>11 DEF EndMain, TypeInv, chainVars
<1> QED BY <1>3, <1>4, <1>5, <1>6, <1>7, <1>8, <1>10, <1>11 DEF BlockEnd

(* Counting a run of a tukuyawi keeps the type of the history. *)
LEMMA RanType ==
  ASSUME NEW h, NEW r \in Seq(0..2)
  PROVE  LET q == [r EXCEPT ![h] = Min({2, @ + 1})] IN q \in Seq(0..2) /\ Len(q) = Len(r)
<1> DEFINE q == [r EXCEPT ![h] = Min({2, @ + 1})]
<1>1. Len(r) \in Nat /\ DOMAIN r = 1..Len(r) /\ \A i \in 1..Len(r) : r[i] \in 0..2
  OBVIOUS
<1>2. DOMAIN q = 1..Len(r) /\ \A i \in 1..Len(r) : q[i] = IF i = h THEN Min({2, r[h] + 1}) ELSE r[i]
  BY <1>1
<1>3. q = [i \in 1..Len(r) |-> q[i]]
  BY <1>2
<1>4. \A i \in 1..Len(r) : q[i] \in 0..2
  <2> SUFFICES ASSUME NEW i \in 1..Len(r) PROVE q[i] \in 0..2
    OBVIOUS
  <2>1. CASE i = h
    <3>1. r[h] \in 0..2
      BY <1>1, <2>1
    <3>2. Min({2, r[h] + 1}) \in 0..2
      <4> DEFINE x == r[h]
      <4>1. x \in 0..2
        BY <3>1
      <4> HIDE DEF x
      <4>2. Min({2, x + 1}) \in 0..2
        BY ONLY <4>1, MinTwo
      <4> QED BY <4>2 DEF x
    <3> QED BY <1>2, <2>1, <3>2
  <2>2. CASE i # h
    BY <1>1, <1>2, <2>2
  <2> QED BY <2>1, <2>2
<1> HIDE DEF q
<1>5. q \in [1..Len(r) -> 0..2]
  BY <1>3, <1>4
<1>6. q \in Seq(0..2) /\ Len(q) = Len(r)
  BY <1>1, <1>5
<1> QED BY <1>6 DEF q

(* The first element, and the rest. *)
LEMMA HeadTail ==
  ASSUME NEW S, NEW s \in Seq(S), s # << >>
  PROVE  Head(s) \in S /\ Tail(s) \in Seq(S)
OBVIOUS

(* A sequence with one element replaced. *)
LEMMA ReplaceOne ==
  ASSUME NEW S, NEW s \in Seq(S), NEW x \in S, NEW i
  PROVE  LET q == [s EXCEPT ![i] = x] IN q \in Seq(S) /\ Len(q) = Len(s)
<1> DEFINE q == [s EXCEPT ![i] = x]
<1>1. Len(s) \in Nat /\ DOMAIN s = 1..Len(s) /\ \A j \in 1..Len(s) : s[j] \in S
  OBVIOUS
<1>2. DOMAIN q = 1..Len(s) /\ \A j \in 1..Len(s) : q[j] \in S
  BY <1>1
<1>3. q = [j \in 1..Len(s) |-> q[j]]
  BY <1>2
<1> HIDE DEF q
<1>4. q \in [1..Len(s) -> S]
  BY <1>2, <1>3
<1>5. q \in Seq(S) /\ Len(q) = Len(s)
  BY <1>1, <1>4
<1> QED BY <1>5 DEF q

(* A work with the rest of its calls. *)
LEMMA ReplaceTodo ==
  ASSUME NEW A, NEW B, NEW C, NEW D, NEW w \in [todo : A, goal : B, to : C, exc : D], NEW x
  PROVE  [w EXCEPT !.todo = x] = Work(x, w.goal, w.to, w.exc)
BY DEF Work

(* Every step of emitted code keeps the type invariant. *)
LEMMA EmittedTypes ==
  ASSUME TypeInv, EmittedStep
  PROVE  TypeInv'
<1> USE ProgramFacts
<1>0. work \in [todo : Seq(Finallys(prog)), goal : Goals, to : 0..Len(prog), exc : 0..Len(prog)]
      /\ (work.goal \in {"run", "throw"} \/ work.to \in 1..Len(prog))
  BY DEF TypeInv, WorkType
<1>1. CASE CallFinally
  <2> DEFINE t == Head(work.todo)
             then == [work EXCEPT !.todo = Tail(@)]
  <2>1. work.todo \in Seq(Finallys(prog)) /\ work.todo # << >>
    BY <1>0, <1>1 DEF CallFinally
  <2>2. t \in Finallys(prog) /\ Tail(work.todo) \in Seq(Finallys(prog))
    BY <2>1, HeadTail
  <2>3. then = Work(Tail(work.todo), work.goal, work.to, work.exc)
    <3> DEFINE A == Seq(Finallys(prog))
               C == 0..Len(prog)
               x == Tail(work.todo)
    <3>1. work \in [todo : A, goal : Goals, to : C, exc : C] /\ then = [work EXCEPT !.todo = x]
      BY <1>0
    <3> HIDE DEF A, C, x, then
    <3>2. then = Work(x, work.goal, work.to, work.exc)
      BY ONLY <3>1, ReplaceTodo
    <3> QED BY <3>2 DEF x
  <2>4. then \in WorkType(prog)
    <3>1. work.goal \in {"run", "throw"} \/ work.to # 0
      BY <1>0
    <3> HIDE DEF then
    <3> QED BY <1>0, <2>2, <2>3, <3>1, WorkIsType
  <2>5. t \in 1..Len(prog)
    BY <2>2 DEF Finallys
  <2> HIDE DEF t, then
  <2>6. Frame("fin", t, then) \in FrameType(prog)
    BY <2>4, <2>5 DEF Frame, FrameType
  <2>7. /\ stack' = Append(stack, Frame("fin", t, then))
        /\ GoTo([of |-> t, part |-> "fin"], 0) /\ work' = Running
        /\ ran' = [ran EXCEPT ![slot[t]] = Min({2, @ + 1})]
        /\ UNCHANGED <<chainVars, prog, slot, env, status>>
    BY <1>1 DEF CallFinally, t, then
  <2>8. stack' \in Seq(FrameType(prog))
    <3>1. stack \in Seq(FrameType(prog))
      BY DEF TypeInv
    <3> QED BY <2>6, <2>7, <3>1
  <2>9. ran' \in Seq(0..2) /\ Len(ran') = Len(ran)
    <3>1. ran \in Seq(0..2)
      BY DEF TypeInv
    <3> QED BY <2>7, <3>1, RanType
  <2>10. pos' \in Block(Len(prog)) /\ last' \in 0..Len(prog) /\ work' \in WorkType(prog)
    BY <2>5, <2>7, RunningType DEF GoTo
  <2> QED BY <2>7, <2>8, <2>9, <2>10 DEF TypeInv, chainVars
<1>2. CASE Jump
  <2>1. work.to \in 1..Len(prog)
    BY <1>0, <1>2 DEF Jump, Doing
  <2>2. work' \in WorkType(prog) /\ stack' \in Seq(FrameType(prog))
    BY <1>2, RunningType DEF Jump, TypeInv
  <2> QED BY <1>2, <2>1, <2>2, MoveType DEF Jump, AfterStmt
<1>3. CASE JumpToContinue
  <2>1. work.to \in 1..Len(prog) /\ NextRound(work.to)
    BY <1>0, <1>3 DEF JumpToContinue, Doing
  <2>2. work' \in WorkType(prog) /\ stack' \in Seq(FrameType(prog))
    BY <2>1, RunningType DEF NextRound, TypeInv
  <2> QED BY <2>1, <2>2, MoveType DEF NextRound, AfterStmt
<1>4. CASE JumpToEpilogue
  <2>1. work.to \in 1..Len(prog) /\ Epilogue(work.to)
    BY <1>0, <1>4 DEF JumpToEpilogue, Doing
  <2>2. CASE ~OnTop("call", work.to)
    BY <2>1, <2>2, UndefinedType DEF Epilogue
  <2>3. CASE OnTop("call", work.to)
    <3>1. Front(stack) \in Seq(FrameType(prog))
      BY <2>3, TopFrame DEF OnTop
    <3>2. work' \in WorkType(prog)
      BY <2>1, <2>3, RunningType DEF Epilogue
    <3> QED BY <2>1, <2>3, <3>1, <3>2, MoveType DEF Epilogue, AfterStmt
  <2> QED BY <2>2, <2>3
<1>5. CASE Unhandled
  BY <1>5 DEF Unhandled, TypeInv, chainVars
<1>6. CASE LongJump
  <2>1. CASE ~Jumpable(current)
    BY <1>6, <2>1, UndefinedType DEF LongJump
  <2>2. CASE Jumpable(current)
    <3> DEFINE h == At(current)
    <3>1. h \in 1..Len(heap)
      BY <2>2, Dereference DEF Jumpable, IsLive
    <3>2. env[h] \in EnvType(prog)
      <4>1. env \in Seq(EnvType(prog)) /\ Len(env) = Len(heap)
        BY DEF TypeInv
      <4> QED BY <3>1, <4>1
    <3> DEFINE at == env[h].at
    <3>3. at \in 1..Len(prog) /\ env[h].stack \in Seq(FrameType(prog))
      BY <3>2 DEF EnvType
    <3>4. /\ held' = [held EXCEPT ![h] = work.exc]
          /\ stack' = env[h].stack
          /\ pos' = [of |-> at, part |-> "body"] /\ last' = 0
          /\ work' = Work(<< >>, "caught", at, 0)
          /\ UNCHANGED <<heap, current, prog, slot, env, ran, status>>
      BY <1>6, <2>2 DEF LongJump, ThrowTo, GoTo
    <3> HIDE DEF at, h
    <3>5. work' \in WorkType(prog)
      <4>1. << >> \in Seq(Finallys(prog)) /\ "caught" \in Goals /\ at # 0
        BY <3>3 DEF Goals
      <4> QED BY <3>3, <3>4, <4>1, WorkIsType
    <3>6. held' \in Seq(0..Len(prog)) /\ Len(held') = Len(held)
      <4>1. held \in Seq(0..Len(prog)) /\ work.exc \in 0..Len(prog)
        BY <1>0 DEF TypeInv
      <4> DEFINE S == 0..Len(prog)
                 x == work.exc
      <4>2. held \in Seq(S) /\ x \in S /\ held' = [held EXCEPT ![h] = x]
        BY <3>4, <4>1
      <4> HIDE DEF S, x
      <4>3. held' \in Seq(S) /\ Len(held') = Len(held)
        BY <4>2, ReplaceOne
      <4> QED BY <4>3 DEF S
    <3>7. pos' \in Block(Len(prog)) /\ last' \in 0..Len(prog)
      BY <3>3, <3>4
    <3> QED BY <3>3, <3>4, <3>5, <3>6, <3>7 DEF TypeInv
  <2> QED BY <2>1, <2>2
<1>7. ASSUME NEW t \in 1..Len(prog), AtCatchLabel(t) PROVE TypeInv'
  <2>1. CASE ~IsLive(slot[t])
    BY <1>7, <2>1, UndefinedType DEF AtCatchLabel
  <2>2. CASE IsLive(slot[t])
    <3>1. TryPop(slot[t]) /\ UNCHANGED <<prog, stack, slot, env, ran, status>>
      BY <1>7, <2>2 DEF AtCatchLabel
    <3>2. held[At(slot[t])] \in 0..Len(prog)
      <4>1. held \in Seq(0..Len(prog)) /\ At(slot[t]) \in 1..Len(held)
        BY <2>2, Dereference DEF TypeInv, IsLive
      <4> QED BY <4>1
    <3>3. work' \in WorkType(prog) /\ pos' \in Block(Len(prog)) /\ last' \in 0..Len(prog)
      <4>1. CASE work' = Running /\ GoTo([of |-> t, part |-> "catch"], 0)
        BY <4>1, RunningType DEF GoTo
      <4>2. CASE /\ work' = Work(OwnFinally(t), "throw", 0, held[At(slot[t])])
                 /\ IF prog[t].fin THEN UNCHANGED <<pos, last>> ELSE AfterStmt(t)
        <5>1. OwnFinally(t) \in Seq(Finallys(prog)) /\ "throw" \in Goals
          BY OwnFinallyType DEF OwnFinally, Goals
        <5>2. work' \in WorkType(prog)
          BY <3>2, <4>2, <5>1, WorkIsType
        <5>3. pos' \in Block(Len(prog)) /\ last' \in 0..Len(prog)
          BY <4>2 DEF TypeInv, AfterStmt, GoTo
        <5> QED BY <5>2, <5>3
      <4> QED BY <1>7, <2>2, <4>1, <4>2 DEF AtCatchLabel
    <3> QED BY <2>2, <3>1, <3>3, PopStep
  <2> QED BY <2>1, <2>2
<1> QED BY <1>1, <1>2, <1>3, <1>4, <1>5, <1>6, <1>7 DEF EmittedStep

(* It holds at the start. *)
LEMMA TypeInit == ASSUME Init PROVE TypeInv
<1>1. prog \in Programs /\ WellFormed(prog)
  BY ProgramsAssumption DEF Init
<1>2. Len(prog) \in Nat /\ MaxTries \in Nat
  BY <1>1, MaxTriesAssumption DEF WellFormed
<1>3. Running \in WorkType(prog)
  BY <1>1, RunningType
<1>4. /\ pos \in Block(Len(prog)) /\ last \in 0..Len(prog)
  BY <1>2 DEF Init, MainBlock, Block
<1>5. heap = << >> /\ held = << >> /\ env = << >> /\ ran = << >> /\ stack = << >> /\ current = 0
      /\ work = Running /\ status = "running"
  BY DEF Init, ChainInit, NULL
<1>6. slot \in [1..Len(prog) -> 0..Len(heap)]
  BY <1>5 DEF Init, NULL
<1>7. heap \in Seq(Handler) /\ held \in Seq(0..Len(prog)) /\ env \in Seq(EnvType(prog)) /\ ran \in Seq(0..2)
      /\ stack \in Seq(FrameType(prog)) /\ Len(heap) = 0 /\ Len(held) = 0 /\ Len(env) = 0 /\ Len(ran) = 0
  BY <1>5
<1>8. current \in 0..Len(heap) /\ Len(heap) <= MaxTries /\ HeapOK(heap)
  BY <1>2, <1>5, <1>7 DEF HeapOK
<1> QED BY <1>1, <1>3, <1>4, <1>5, <1>6, <1>7, <1>8 DEF TypeInv

(* And every step keeps it. *)
LEMMA TypeStep ==
  ASSUME TypeInv, [Next]_vars PROVE TypeInv'
<1>1. CASE Stopped \/ UNCHANGED vars
  BY <1>1 DEF Stopped, vars, chainVars, machineVars, TypeInv
<1> QED BY <1>1, StatementTypes, EndTypes, EmittedTypes DEF Next

-----------------------------------------------------------------------------
(* The machine stack, and the registry as a list of bodies. *)

(* The stack holds one return address for each statement of S, the         *)
(* innermost on top.                                                       *)
Mirrors(st, S) ==
  /\ \A i \in 1..Len(st) : st[i].of \in S
  /\ \A t \in S : \E i \in 1..Len(st) : st[i].of = t
  /\ \A i, j \in 1..Len(st) : i < j => st[i].of < st[j].of

(* IsPrefix, without the sequence operators. *)
Prefix(r, s) == Len(r) <= Len(s) /\ \A i \in 1..Len(r) : r[i] = s[i]

(* A stack begins with itself. *)
LEMMA PrefixSelf ==
  ASSUME NEW R, NEW r \in Seq(R) PROVE Prefix(r, r)
<1>1. Len(r) \in Nat
  OBVIOUS
<1> QED BY <1>1 DEF Prefix

(* What a stack begins with it still begins with after a push. *)
LEMMA PrefixAppend ==
  ASSUME NEW R, NEW r \in Seq(R), NEW s \in Seq(R), NEW e \in R, Prefix(r, s)
  PROVE  Prefix(r, Append(s, e))
<1>1. /\ Len(r) \in Nat /\ Len(s) \in Nat /\ Len(r) <= Len(s) /\ Len(Append(s, e)) = Len(s) + 1
      /\ \A i \in 1..Len(s) : Append(s, e)[i] = s[i]
      /\ \A i \in 1..Len(r) : r[i] = s[i]
  BY DEF Prefix
<1>2. \A i \in 1..Len(r) : i \in 1..Len(s)
  BY <1>1
<1>3. Len(r) <= Len(Append(s, e))
  BY <1>1
<1> QED BY <1>1, <1>2, <1>3 DEF Prefix

(* Of two beginnings of a stack, the one with fewer frames begins the      *)
(* other.                                                                  *)
LEMMA PrefixCompare ==
  ASSUME NEW R, NEW r \in Seq(R), NEW s \in Seq(R), NEW st \in Seq(R),
         NEW S, NEW T, NEW U, \A u \in U : u \in Nat, S \subseteq T,
         Prefix(r, st), Prefix(s, st), Mirrors(r, S), Mirrors(s, T), Mirrors(st, U)
  PROVE  Prefix(r, s)
<1>1. Len(r) \in Nat /\ Len(s) \in Nat /\ Len(st) \in Nat /\ Len(r) <= Len(st) /\ Len(s) <= Len(st)
  BY DEF Prefix
<1>2. Len(r) <= Len(s)
  <2> SUFFICES ASSUME ~(Len(r) <= Len(s)) PROVE FALSE
    OBVIOUS
  <2> DEFINE k == Len(s) + 1
  <2>1. k \in 1..Len(r) /\ k \in 1..Len(st) /\ \A i \in 1..Len(s) : i \in 1..Len(st) /\ i < k
    BY <1>1
  <2> HIDE DEF k
  <2>2. r[k].of \in T /\ r[k] = st[k]
    BY <2>1 DEF Mirrors, Prefix
  <2>3. PICK i \in 1..Len(s) : s[i].of = r[k].of
    BY <2>2 DEF Mirrors
  <2>4. st[i].of < st[k].of
    BY <2>1 DEF Mirrors
  <2>5. st[i].of = st[k].of /\ st[k].of \in Nat
    BY <2>1, <2>2, <2>3 DEF Prefix, Mirrors
  <2> QED BY <2>4, <2>5
<1>3. \A i \in 1..Len(r) : i \in 1..Len(s)
  BY <1>1, <1>2
<1> QED BY <1>2, <1>3 DEF Prefix

(* A call and a return. *)
LEMMA MirrorsAppend ==
  ASSUME NEW R, NEW st \in Seq(R), NEW e \in R, NEW S, NEW T,
         T = S \cup {e.of}, \A u \in S : u < e.of, Mirrors(st, S)
  PROVE  Mirrors(Append(st, e), T)
<1> DEFINE q == Append(st, e)
           l == Len(st)
<1>1. l \in Nat /\ Len(q) = l + 1 /\ q[l + 1] = e /\ \A i \in 1..l : q[i] = st[i]
  OBVIOUS
<1> HIDE DEF q
<1>2. \A i \in 1..Len(q) : i = l + 1 \/ i \in 1..l
  BY <1>1
<1>3. \A i \in 1..l : i \in 1..Len(q)
  BY <1>1
<1>4. l + 1 \in 1..Len(q)
  BY <1>1
<1>5. \A i \in 1..Len(q) : q[i].of \in T
  BY <1>1, <1>2 DEF Mirrors
<1>6. ASSUME NEW t \in T PROVE \E i \in 1..Len(q) : q[i].of = t
  <2>1. CASE t = e.of
    BY <1>1, <1>4, <2>1
  <2>2. CASE t # e.of
    <3>1. PICK i \in 1..l : st[i].of = t
      BY <2>2 DEF Mirrors
    <3> QED BY <1>1, <1>3, <3>1
  <2> QED BY <2>1, <2>2
<1>7. ASSUME NEW i \in 1..Len(q), NEW j \in 1..Len(q), i < j PROVE q[i].of < q[j].of
  <2>1. i \in 1..l
    BY <1>1, <1>7
  <2>2. q[i] = st[i] /\ st[i].of \in S
    BY <1>1, <2>1 DEF Mirrors
  <2>3. CASE j = l + 1
    BY <1>1, <2>2, <2>3
  <2>4. CASE j \in 1..l
    BY <1>1, <1>7, <2>1, <2>4 DEF Mirrors
  <2> QED BY <1>2, <2>3, <2>4
<1>8. Mirrors(q, T)
  BY <1>5, <1>6, <1>7 DEF Mirrors
<1> QED BY <1>8 DEF q

(* The return address on top belongs to the innermost frame; without it    *)
(* the stack mirrors the frames further out, and begins with what it began *)
(* with below.                                                             *)
LEMMA MirrorsFront ==
  ASSUME NEW R, NEW st \in Seq(R), NEW S, \A u \in S : u \in Nat, NEW f \in S, \A u \in S : u <= f,
         Mirrors(st, S), NEW q \in Seq(R), Len(q) = Len(st) - 1,
         \A i \in 1..(Len(st) - 1) : q[i] = st[i]
  PROVE  /\ st # << >> /\ st[Len(st)].of = f
         /\ Mirrors(q, {u \in S : u < f})
         /\ \A r \in Seq(R) : \A Q : (\A u \in Q : u < f) /\ Prefix(r, st) /\ Mirrors(r, Q) => Prefix(r, q)
<1> DEFINE l == Len(st)
<1>0. l \in Nat /\ l = Len(st)
  OBVIOUS
<1> HIDE DEF l
<1>1. PICK k \in 1..l : st[k].of = f
  BY <1>0 DEF Mirrors
<1>2. \A i \in 1..l : st[i].of \in S /\ st[i].of \in Nat /\ st[i].of <= f
  BY <1>0 DEF Mirrors
<1>3. k = l
  <2> SUFFICES ASSUME k # l PROVE FALSE
    OBVIOUS
  <2>1. k < l /\ l \in 1..l
    BY <1>0
  <2>2. st[k].of < st[l].of
    BY <1>0, <2>1 DEF Mirrors
  <2> QED BY <1>1, <1>2, <2>1, <2>2
<1>4. st # << >> /\ st[l].of = f /\ l \in 1..l
  BY <1>0, <1>1, <1>3
<1> DEFINE m == l - 1
<1>5. m \in Nat /\ Len(q) = m /\ (\A i \in 1..m : i \in 1..l /\ i < l /\ q[i] = st[i])
      /\ \A i \in 1..l : i = l \/ i \in 1..m
  BY <1>0, <1>4
<1> HIDE DEF m
<1>6. Mirrors(q, {u \in S : u < f})
  <2>1. \A i \in 1..m : q[i].of \in S /\ q[i].of < f
    BY <1>0, <1>2, <1>4, <1>5 DEF Mirrors
  <2>2. ASSUME NEW t \in S, t < f PROVE \E i \in 1..m : q[i].of = t
    <3>1. PICK i \in 1..l : st[i].of = t
      BY <1>0 DEF Mirrors
    <3>2. i # l
      BY <1>2, <1>4, <2>2, <3>1
    <3> QED BY <1>5, <3>1, <3>2
  <2>3. \A i, j \in 1..m : i < j => q[i].of < q[j].of
    BY <1>0, <1>5 DEF Mirrors
  <2> QED BY <1>5, <2>1, <2>2, <2>3 DEF Mirrors
<1>7. ASSUME NEW r \in Seq(R), NEW Q, \A u \in Q : u < f, Prefix(r, st), Mirrors(r, Q)
      PROVE  Prefix(r, q)
  <2>1. Len(r) \in Nat /\ Len(r) <= l /\ \A i \in 1..Len(r) : r[i] = st[i]
    BY <1>0, <1>7 DEF Prefix
  <2>2. Len(r) # l
    <3> SUFFICES ASSUME Len(r) = l PROVE FALSE
      OBVIOUS
    <3>1. r[l].of \in Q /\ r[l] = st[l]
      BY <1>4, <1>7, <2>1 DEF Mirrors
    <3> QED BY <1>2, <1>4, <1>7, <3>1
  <2>3. Len(r) <= m
    BY <1>0, <2>1, <2>2 DEF m
  <2>4. \A i \in 1..Len(r) : i \in 1..m
    BY <1>5, <2>1, <2>3
  <2> QED BY <1>5, <2>1, <2>3, <2>4 DEF Prefix
<1> QED BY <1>0, <1>4, <1>6, <1>7
-----------------------------------------------------------------------------
(* x is the handler of the innermost of some try bodies, 0 without one.    *)
Names(x, sl, B) ==
  /\ B = {} => x = 0
  /\ \A t \in B : (\A u \in B : u <= t) => x = sl[t]

(* The registry lists the bodies B, each with a handler that knows the     *)
(* stack of the function its try stands in.                                *)
LinkedOK(p, B, cur, hp, sl, en, st) ==
  /\ Names(cur, sl, B)
  /\ \A t \in B :
       /\ sl[t] \in 1..Len(hp) /\ hp[sl[t]].live /\ en[sl[t]].at = t
       /\ Names(hp[sl[t]].prev, sl, {u \in B : u < t})
       /\ Prefix(en[sl[t]].stack, st)
       /\ Mirrors(en[sl[t]].stack, Framed(p, p[t].in))

(* aym_try_push for the body of a try inside all of them. *)
LEMMA LinkPush ==
  ASSUME NEW p, NEW B, NEW n, n \in Nat, \A u \in B : u < n /\ u \in Nat, NEW cur, NEW R,
         NEW hp \in Seq(R), NEW E, NEW en \in Seq(E), Len(en) = Len(hp),
         NEW h \in R, h.prev = cur, h.live, NEW e \in E, e.at = n,
         NEW sl, NEW nl, \A u \in B : nl[u] = sl[u], nl[n] = Len(hp) + 1,
         NEW st, LinkedOK(p, B, cur, hp, sl, en, st),
         Prefix(e.stack, st), Mirrors(e.stack, Framed(p, p[n].in))
  PROVE  LinkedOK(p, B \cup {n}, Len(hp) + 1, Append(hp, h), nl, Append(en, e), st)
<1> DEFINE l == Len(hp)
           hq == Append(hp, h)
           eq == Append(en, e)
           C == B \cup {n}
<1>1. /\ l \in Nat /\ Len(hq) = l + 1 /\ hq[l + 1] = h /\ (\A i \in 1..l : hq[i] = hp[i])
      /\ eq[l + 1] = e /\ (\A i \in 1..l : eq[i] = en[i])
      /\ l + 1 \in 1..(l + 1) /\ \A i \in 1..l : i \in 1..(l + 1)
  OBVIOUS
<1>2. nl[n] = l + 1
  OBVIOUS
<1>3. \A t \in B : sl[t] \in 1..l
  BY DEF LinkedOK
<1> HIDE DEF l, hq, eq
<1>4. Names(l + 1, nl, C)
  <2>1. \A t \in B : ~(n <= t)
    OBVIOUS
  <2> QED BY <1>2, <2>1 DEF Names
<1>5. ASSUME NEW t \in B
      PROVE  /\ nl[t] \in 1..Len(hq) /\ hq[nl[t]].live /\ eq[nl[t]].at = t
             /\ Names(hq[nl[t]].prev, nl, {u \in C : u < t})
             /\ Prefix(eq[nl[t]].stack, st)
             /\ Mirrors(eq[nl[t]].stack, Framed(p, p[t].in))
  <2>1. nl[t] = sl[t] /\ sl[t] \in 1..l /\ hq[sl[t]] = hp[sl[t]] /\ eq[sl[t]] = en[sl[t]]
        /\ sl[t] \in 1..Len(hq)
    BY <1>1, <1>3
  <2>2. {u \in C : u < t} = {u \in B : u < t}
    OBVIOUS
  <2>3. Names(hp[sl[t]].prev, sl, {u \in B : u < t})
    BY DEF LinkedOK
  <2>4. Names(hp[sl[t]].prev, nl, {u \in B : u < t})
    BY <2>3 DEF Names
  <2>5. /\ hp[sl[t]].live /\ en[sl[t]].at = t
        /\ Prefix(en[sl[t]].stack, st) /\ Mirrors(en[sl[t]].stack, Framed(p, p[t].in))
    BY DEF LinkedOK
  <2>6. nl[t] \in 1..Len(hq) /\ hq[nl[t]] = hp[sl[t]] /\ eq[nl[t]] = en[sl[t]]
    BY <2>1
  <2> QED BY <2>2, <2>4, <2>5, <2>6
<1>6. /\ nl[n] \in 1..Len(hq) /\ hq[nl[n]].live /\ eq[nl[n]].at = n
      /\ Names(hq[nl[n]].prev, nl, {u \in C : u < n})
      /\ Prefix(eq[nl[n]].stack, st)
      /\ Mirrors(eq[nl[n]].stack, Framed(p, p[n].in))
  <2>1. {u \in C : u < n} = B
    OBVIOUS
  <2>2. Names(cur, nl, B)
    BY DEF LinkedOK, Names
  <2> QED BY <1>1, <1>2, <2>1, <2>2
<1> HIDE DEF C
<1>7. LinkedOK(p, C, l + 1, hq, nl, eq, st)
  <2>1. \A t \in C : t \in B \/ t = n
    BY DEF C
  <2> QED BY <1>4, <1>5, <1>6, <2>1 DEF LinkedOK
<1> QED BY <1>7 DEF C, l, hq, eq

(* aym_try_pop of the innermost. *)
LEMMA LinkPop ==
  ASSUME NEW p, NEW B, \A u \in B : u \in Nat, NEW t \in B, \A u \in B : u <= t,
         NEW cur, NEW hp, NEW hq, NEW sl, NEW en, NEW st, NEW cur2,
         Len(hq) = Len(hp),
         \A i \in 1..Len(hp) : i # sl[t] => hq[i] = hp[i],
         cur = sl[t] => cur2 = hp[sl[t]].prev,
         LinkedOK(p, B, cur, hp, sl, en, st)
  PROVE  LinkedOK(p, {u \in B : u < t}, cur2, hq, sl, en, st)
<1> DEFINE C == {u \in B : u < t}
<1>1. cur = sl[t]
  BY DEF LinkedOK, Names
<1>2. Names(cur2, sl, C)
  BY <1>1 DEF LinkedOK
<1>3. ASSUME NEW u \in C
      PROVE  /\ sl[u] \in 1..Len(hq) /\ hq[sl[u]].live /\ en[sl[u]].at = u
             /\ Names(hq[sl[u]].prev, sl, {v \in C : v < u})
             /\ Prefix(en[sl[u]].stack, st)
             /\ Mirrors(en[sl[u]].stack, Framed(p, p[u].in))
  <2>1. u \in B /\ u < t /\ u # t
    OBVIOUS
  <2>2. en[sl[u]].at = u /\ en[sl[t]].at = t /\ sl[u] \in 1..Len(hp)
    BY <2>1 DEF LinkedOK
  <2>3. sl[u] # sl[t]
    BY <2>1, <2>2
  <2>4. hq[sl[u]] = hp[sl[u]]
    BY <2>2, <2>3
  <2>5. {v \in C : v < u} = {v \in B : v < u}
    BY <2>1
  <2> HIDE DEF C
  <2> QED BY <2>1, <2>2, <2>4, <2>5 DEF LinkedOK
<1> HIDE DEF C
<1>4. LinkedOK(p, C, cur2, hq, sl, en, st)
  BY <1>2, <1>3 DEF LinkedOK
<1> QED BY <1>4 DEF C

(* The stack may change above what the handlers know. *)
LEMMA LinkStack ==
  ASSUME NEW p, NEW B, NEW cur, NEW hp, NEW sl, NEW en, NEW st, NEW st2,
         LinkedOK(p, B, cur, hp, sl, en, st),
         \A t \in B : Prefix(en[sl[t]].stack, st2)
  PROVE  LinkedOK(p, B, cur, hp, sl, en, st2)
BY DEF LinkedOK

(* The bodies B, each with a handler of its own that has not been released.*)
HeldOK(B, hp, sl, en) ==
  \A t \in B : sl[t] \in 1..Len(hp) /\ hp[sl[t]].live /\ en[sl[t]].at = t

(* A break out of a body leaves its handler in the registry; the links are *)
(* the nesting of the bodies in a program without.                         *)
RegistryOK(p, B, cur, hp, sl, en, st) ==
  /\ HeldOK(B, hp, sl, en)
  /\ LeavesNoBody(p) => LinkedOK(p, B, cur, hp, sl, en, st)

(* C are the bodies of B around a block further out, where an exit leads.  *)
Further(p, C, B) == C \subseteq B /\ (LeavesNoBody(p) => C = B)

(* aym_try_push and aym_try_pop, as far as every program goes. *)
LEMMA RegistryPush ==
  ASSUME NEW p, NEW B, NEW n, n \in Nat, \A u \in B : u < n /\ u \in Nat, NEW cur, NEW R,
         NEW hp \in Seq(R), NEW E, NEW en \in Seq(E), Len(en) = Len(hp),
         NEW h \in R, h.prev = cur, h.live, NEW e \in E, e.at = n,
         NEW sl, NEW nl, \A u \in B : nl[u] = sl[u], nl[n] = Len(hp) + 1,
         NEW st, RegistryOK(p, B, cur, hp, sl, en, st),
         Prefix(e.stack, st), Mirrors(e.stack, Framed(p, p[n].in))
  PROVE  RegistryOK(p, B \cup {n}, Len(hp) + 1, Append(hp, h), nl, Append(en, e), st)
<1> DEFINE l == Len(hp)
           hq == Append(hp, h)
           eq == Append(en, e)
           C == B \cup {n}
<1>1. /\ l \in Nat /\ Len(hq) = l + 1 /\ hq[l + 1] = h /\ (\A i \in 1..l : hq[i] = hp[i])
      /\ eq[l + 1] = e /\ (\A i \in 1..l : eq[i] = en[i])
      /\ l + 1 \in 1..(l + 1) /\ \A i \in 1..l : i \in 1..(l + 1)
  OBVIOUS
<1>2. nl[n] = l + 1
  OBVIOUS
<1>3. \A t \in B : sl[t] \in 1..l /\ hp[sl[t]].live /\ en[sl[t]].at = t
  BY DEF RegistryOK, HeldOK
<1>4. LeavesNoBody(p) => LinkedOK(p, C, l + 1, hq, nl, eq, st)
  BY LinkPush DEF RegistryOK
<1> HIDE DEF l, hq, eq
<1>5. ASSUME NEW t \in B PROVE nl[t] \in 1..Len(hq) /\ hq[nl[t]].live /\ eq[nl[t]].at = t
  <2>1. nl[t] = sl[t] /\ sl[t] \in 1..l /\ hq[sl[t]] = hp[sl[t]] /\ eq[sl[t]] = en[sl[t]]
        /\ sl[t] \in 1..Len(hq)
    BY <1>1, <1>3
  <2> QED BY <1>3, <2>1
<1>6. nl[n] \in 1..Len(hq) /\ hq[nl[n]].live /\ eq[nl[n]].at = n
  BY <1>1, <1>2
<1>7. HeldOK(C, hq, nl, eq)
  BY <1>5, <1>6 DEF HeldOK
<1> QED BY <1>4, <1>7 DEF RegistryOK, l, hq, eq

(* aym_try_pop of the innermost. *)
LEMMA RegistryPop ==
  ASSUME NEW p, NEW B, \A u \in B : u \in Nat, NEW t \in B, \A u \in B : u <= t,
         NEW cur, NEW hp, NEW hq, NEW sl, NEW en, NEW st, NEW cur2,
         Len(hq) = Len(hp),
         \A i \in 1..Len(hp) : i # sl[t] => hq[i] = hp[i],
         cur = sl[t] => cur2 = hp[sl[t]].prev,
         RegistryOK(p, B, cur, hp, sl, en, st)
  PROVE  RegistryOK(p, {u \in B : u < t}, cur2, hq, sl, en, st)
<1> DEFINE C == {u \in B : u < t}
<1>1. LeavesNoBody(p) => LinkedOK(p, C, cur2, hq, sl, en, st)
  BY LinkPop DEF RegistryOK
<1>2. ASSUME NEW u \in C PROVE sl[u] \in 1..Len(hq) /\ hq[sl[u]].live /\ en[sl[u]].at = u
  <2>1. u \in B /\ u < t /\ u # t
    OBVIOUS
  <2>2. en[sl[u]].at = u /\ en[sl[t]].at = t /\ sl[u] \in 1..Len(hp) /\ hp[sl[u]].live
    BY <2>1 DEF RegistryOK, HeldOK
  <2>3. hq[sl[u]] = hp[sl[u]]
    BY <2>1, <2>2
  <2> QED BY <2>2, <2>3
<1> HIDE DEF C
<1>3. HeldOK(C, hq, sl, en)
  BY <1>2 DEF HeldOK
<1> QED BY <1>1, <1>3 DEF RegistryOK, C

(* Fewer bodies, and another stack. *)
LEMMA RegistryLess ==
  ASSUME NEW p, NEW B, NEW C, Further(p, C, B),
         NEW cur, NEW hp, NEW sl, NEW en, NEW st, RegistryOK(p, B, cur, hp, sl, en, st)
  PROVE  RegistryOK(p, C, cur, hp, sl, en, st)
<1>1. HeldOK(C, hp, sl, en)
  BY DEF Further, RegistryOK, HeldOK
<1>2. ASSUME LeavesNoBody(p) PROVE LinkedOK(p, C, cur, hp, sl, en, st)
  <2>1. C = B /\ LinkedOK(p, B, cur, hp, sl, en, st)
    BY <1>2 DEF Further, RegistryOK
  <2> QED BY <2>1
<1> QED BY <1>1, <1>2 DEF RegistryOK

(* The stack may change above what the handlers know. *)
LEMMA RegistryStack ==
  ASSUME NEW p, NEW B, NEW cur, NEW hp, NEW sl, NEW en, NEW st, NEW st2,
         RegistryOK(p, B, cur, hp, sl, en, st),
         LeavesNoBody(p) => \A t \in B : Prefix(en[sl[t]].stack, st2)
  PROVE  RegistryOK(p, B, cur, hp, sl, en, st2)
<1>1. LeavesNoBody(p) => LinkedOK(p, B, cur, hp, sl, en, st2)
  BY LinkStack DEF RegistryOK
<1> QED BY <1>1 DEF RegistryOK

-----------------------------------------------------------------------------
(* The invariant: what is due, what is planned, and what the registry and  *)
(* the stack list.                                                         *)

(* What the straight-line code w at block b still does is right for a      *)
(* program at b.                                                           *)
WorkOK(p, w, b) ==
  /\ w.goal = "run" => w = Running
  /\ w.goal = "fall" => FallOK(p, w, b)
  /\ w.goal \in Exits => ExitOK(p, w, b)
  /\ w.goal = "throw" => ThrowOK(p, w, b)
  /\ w.goal = "caught" => CaughtOK(p, w, b)

(* Where the code w at block b counts as being for the registry: the end   *)
(* of a body releases its handler before the tukuyawi runs.                *)
Outside(p, w, b) ==
  IF w.goal = "fall" THEN p[w.to].in
  ELSE IF w.goal = "throw" /\ w.todo # << >> THEN p[Head(w.todo)].in
  ELSE b

(* The code a tukuyawi returns to is sound where its try stands.           *)
FrameOK(p, f) ==
  IF p[f.of].kind = "call" THEN f.kind = "call" /\ f.then = Running
  ELSE /\ f.kind = "fin" /\ f.then.goal \notin {"run", "caught"}
       /\ WorkOK(p, f.then, p[f.of].in)
       /\ Bodies(p, Outside(p, f.then, p[f.of].in)) = Bodies(p, p[f.of].in)

(* A tukuyawi has been run once for each handler, unless it is still due.  *)
RanOK(p, rn, sl, en, D) ==
  \A h \in 1..Len(rn) :
    rn[h] = IF ~p[en[h].at].fin \/ (sl[en[h].at] = h /\ en[h].at \in D) THEN 0 ELSE 1

(* While the program runs: the registry lists the bodies around the block  *)
(* control counts as being in, the stack holds the frames around it, what  *)
(* is planned and what every tukuyawi on the stack returns to is sound,    *)
(* and each slot names the last handler of its try.                        *)
RunningOK ==
  /\ RegistryOK(prog, Bodies(prog, Outside(prog, work, pos)), current, heap, slot, env, stack)
  /\ WorkOK(prog, work, pos)
  /\ Mirrors(stack, Framed(prog, pos))
  /\ \A i \in 1..Len(stack) : FrameOK(prog, stack[i])
  /\ \A t \in 1..Len(prog) : slot[t] # 0 => env[slot[t]].at = t
  /\ \A c \in TryBlocks(prog, pos) : slot[c.of] # 0

(* The invariant of a disciplined program. *)
NestInv ==
  /\ IsBlock(prog, pos)
  /\ status # "undefined"
  /\ RanOK(prog, ran, slot, env, Due(prog, pos))
  /\ status \in {"finished", "unhandled"} => Due(prog, pos) = {}
  /\ status = "running" => RunningOK

(* The steps that leave the slots and the history alone. *)
LEMMA ChangeNest ==
  ASSUME TypeInv, NestInv, status = "running",
         UNCHANGED <<prog, slot, env, ran, status>>,
         IsBlock(prog, pos'), Due(prog, pos') = Due(prog, pos),
         RegistryOK(prog, Bodies(prog, Outside(prog, work', pos')), current', heap', slot, env, stack'),
         WorkOK(prog, work', pos'),
         Mirrors(stack', Framed(prog, pos')),
         \A i \in 1..Len(stack') : FrameOK(prog, stack'[i]),
         \A c \in TryBlocks(prog, pos') : \E d \in TryBlocks(prog, pos) : d.of = c.of
  PROVE  NestInv'
<1>1. RunningOK'
  <2>1. \A c \in TryBlocks(prog, pos') : slot[c.of] # 0
    BY DEF NestInv, RunningOK
  <2> QED BY <2>1 DEF NestInv, RunningOK
<1> HIDE DEF RunningOK
<1> QED BY <1>1 DEF NestInv

(* Those that leave the registry alone, too. *)
LEMMA MoveNest ==
  ASSUME TypeInv, NestInv, status = "running",
         UNCHANGED <<heap, current, prog, slot, env, ran, status>>,
         IsBlock(prog, pos'), Due(prog, pos') = Due(prog, pos),
         RegistryOK(prog, Bodies(prog, Outside(prog, work', pos')), current, heap, slot, env, stack'),
         WorkOK(prog, work', pos'),
         Mirrors(stack', Framed(prog, pos')),
         \A i \in 1..Len(stack') : FrameOK(prog, stack'[i]),
         \A c \in TryBlocks(prog, pos') : \E d \in TryBlocks(prog, pos) : d.of = c.of
  PROVE  NestInv'
<1>1. UNCHANGED <<prog, slot, env, ran, status>> /\ heap' = heap /\ current' = current
  OBVIOUS
<1>2. RegistryOK(prog, Bodies(prog, Outside(prog, work', pos')), current', heap', slot, env, stack')
  BY <1>1
<1> QED BY <1>1, <1>2, ChangeNest

(* Those that only plan. *)
LEMMA PlanNest ==
  ASSUME TypeInv, NestInv, status = "running", NEW w, Begin(w), WorkOK(prog, w, pos),
         Bodies(prog, Outside(prog, w, pos)) = Bodies(prog, Outside(prog, work, pos))
  PROVE  NestInv'
<1>1. work' = w /\ pos' = pos /\ stack' = stack
      /\ UNCHANGED <<heap, current, prog, slot, env, ran, status>>
  BY DEF Begin, chainVars
<1>2. /\ IsBlock(prog, pos)
      /\ RegistryOK(prog, Bodies(prog, Outside(prog, work, pos)), current, heap, slot, env, stack)
      /\ Mirrors(stack, Framed(prog, pos))
      /\ \A i \in 1..Len(stack) : FrameOK(prog, stack[i])
  BY DEF NestInv, RunningOK
<1> QED BY <1>1, <1>2, MoveNest

(* What an exit with nothing left to run jumps out of holds no handler and *)
(* no tukuyawi.                                                            *)
LEMMA ExitDone ==
  ASSUME NEW p, WellFormed(p), NEW b \in Block(Len(p)), IsBlock(p, b), NEW w, w.goal \in Exits,
         ExitOK(p, w, b), w.todo = << >>
  PROVE  LET in == p[w.to].in IN
         /\ w.to \in 1..Len(p) /\ in \in Block(Len(p)) /\ IsBlock(p, in)
         /\ Due(p, in) = Due(p, b) /\ Further(p, Bodies(p, in), Bodies(p, b))
         /\ Framed(p, in) = {u \in Framed(p, b) : u < w.to}
         /\ \A u \in Framed(p, b) : u <= w.to
         /\ w.to \in Framed(p, b) <=> w.goal = "return"
         /\ p[w.to].kind \in Leaves(w.goal)
         /\ TryBlocks(p, in) \subseteq TryBlocks(p, b)
<1> DEFINE in == p[w.to].in
<1>1. PICK c \in Around(p, b) : c.of = w.to /\ KindOf(p, c) \in Leaves(w.goal)
  BY DEF ExitOK
<1>2. KindOf(p, c) \in {"loop", "switch", "call"} /\ (KindOf(p, c) = "call" <=> w.goal = "return")
  BY <1>1 DEF Leaves, Exits
<1>3. c.of # 0 /\ c.of \in 1..Len(p) /\ KindOf(p, c) = p[c.of].kind /\ ~IsTry(p, c)
  BY <1>2, BlockType DEF KindOf, IsTry
<1>4. /\ in \in Block(Len(p)) /\ IsBlock(p, in)
      /\ TryBlocks(p, in) = {d \in TryBlocks(p, b) : d.of < c.of}
      /\ Bodies(p, in) = {t \in Bodies(p, b) : t < c.of}
      /\ Due(p, in) = {t \in Due(p, b) : t < c.of}
      /\ Framed(p, in) = {t \in Framed(p, b) : t < c.of}
  BY <1>1, <1>3, Outward
<1>5. ASSUME NEW d \in Around(p, b)
      PROVE  /\ d.of \in Nat /\ c.of \in Nat
             /\ d.of = c.of => d = c
             /\ d.of > c.of => ~FrameOf(p, d)
             /\ d.of > c.of /\ LeavesNoBody(p) => ~(IsTry(p, d) /\ d.part = "body")
  BY <1>1, OneBlock, BlockType DEF ExitOK
<1>6. ASSUME LeavesNoBody(p), NEW t \in Bodies(p, b) PROVE t < c.of
  <2>1. PICK d \in Around(p, b) : d.of = t /\ IsTry(p, d) /\ d.part = "body"
    BY DEF Bodies, TryBlocks
  <2> QED BY <1>3, <1>5, <1>6, <2>1
<1>7. {t \in Due(p, b) : t > c.of} = {}
  BY <1>1 DEF ExitOK, Falling
<1>8. ASSUME NEW t \in Due(p, b) PROVE t < c.of
  <2>1. PICK d \in Around(p, b) : d.of = t /\ IsTry(p, d)
    BY DEF Due, OnFinallyStack
  <2>2. ~(t > c.of)
    BY <1>7
  <2> QED BY <1>3, <1>5, <2>1, <2>2
<1>9. ASSUME NEW t \in Framed(p, b) PROVE t <= c.of
  <2>1. PICK d \in Around(p, b) : d.of = t /\ FrameOf(p, d)
    BY DEF Framed
  <2> QED BY <1>5, <2>1
<1>10. c.of \in Framed(p, b) <=> w.goal = "return"
  <2>1. CASE w.goal = "return"
    BY <1>2, <2>1 DEF Framed, FrameOf
  <2>2. CASE w.goal # "return"
    <3> SUFFICES ASSUME NEW d \in Around(p, b), d.of = c.of, FrameOf(p, d) PROVE FALSE
      BY <2>2 DEF Framed
    <3>1. d = c
      BY <1>5
    <3> QED BY <1>2, <1>3, <2>2, <3>1 DEF FrameOf
  <2> QED BY <2>1, <2>2
<1> HIDE DEF in
<1>11. Due(p, in) = Due(p, b) /\ Further(p, Bodies(p, in), Bodies(p, b))
  BY <1>4, <1>6, <1>8 DEF Further
<1>12. TryBlocks(p, in) \subseteq TryBlocks(p, b)
  BY <1>4
<1> QED BY <1>1, <1>3, <1>4, <1>9, <1>10, <1>11, <1>12 DEF in

(* The finally routines an exit or an exception still has to call.         *)
LEMMA NextFinally ==
  ASSUME NEW p, WellFormed(p), NEW b \in Block(Len(p)), IsBlock(p, b),
         NEW w \in WorkType(p), WorkOK(p, w, b), w.todo # << >>,
         NEW t, t = Head(w.todo), NEW v, v = Work(Tail(w.todo), w.goal, w.to, w.exc)
  PROVE  LET in == p[t].in IN
         /\ t \in Due(p, b)
         /\ \A u \in Due(p, b) : u <= t
         /\ \A u \in Framed(p, b) : u < t
         /\ Further(p, Bodies(p, in), Bodies(p, Outside(p, w, b)))
         /\ v.goal \notin {"run", "caught"} /\ WorkOK(p, v, in)
         /\ Bodies(p, Outside(p, v, in)) = Bodies(p, in)
<1> DEFINE in == p[t].in
<1>1. /\ v.todo = Tail(w.todo) /\ v.goal = w.goal /\ v.to = w.to /\ v.exc = w.exc
  BY DEF Work
<1>2. \A u \in Due(p, b) \cup Framed(p, b) \cup Bodies(p, b) : u \in Nat
  <2>1. \A u \in 1..Len(p) : u \in Nat
    BY DEF WellFormed
  <2> QED BY <2>1, MemberBlock
<1>3. w.goal \notin {"run", "caught"}
  BY DEF WorkOK, CaughtOK, Running, Work
<1>4. w.goal \in Goals
  BY DEF WorkType
<1>5. \A c \in Around(p, b) : c.of \in Nat /\ c.of <= b.of /\ b.of \in Nat
  BY BlockType, BlockItself
<1>6. CASE w.goal = "fall"
  <2>1. w.todo = <<w.to>> /\ w.to \in Due(p, b) /\ b.of = w.to /\ w.exc = 0 /\ w.to \in 1..Len(p)
    BY <1>6 DEF WorkOK, FallOK
  <2> DEFINE o == w.to
  <2>a. w.todo = <<o>> /\ t = Head(w.todo)
    BY <2>1
  <2> HIDE DEF o
  <2>b. t = o /\ Tail(w.todo) = << >>
    BY ONLY <2>a
  <2>2. t = w.to /\ Tail(w.todo) = << >>
    BY <2>b DEF o
  <2>3. PICK c \in Around(p, b) : c.of = t /\ IsTry(p, c) /\ c.part \in {"body", "catch"}
    <3>1. t \in Due(p, b)
      BY <2>1, <2>2
    <3>2. \E c \in Around(p, b) :
            /\ c.of = t /\ IsTry(p, c) /\ c.part \in {"body", "catch"}
            /\ t \in 1..Len(p) /\ p[t].fin /\ p[t].kind = "try"
      BY <3>1, DueBlock
    <3> QED BY <3>2
  <2>4. c = b
    <3>1. b \in Around(p, b)
      BY BlockItself
    <3> QED BY <2>1, <2>2, <2>3, <3>1, OneBlock
  <2>5. ASSUME NEW d \in Around(p, b), FrameOf(p, d) PROVE d.of < t
    <3>1. d # b
      BY <2>3, <2>4, <2>5 DEF FrameOf, IsTry
    <3>2. d.of # b.of
      BY <3>1, BlockItself, OneBlock
    <3> QED BY <1>5, <2>1, <2>2, <3>2
  <2>6. \A u \in Framed(p, b) : u < t
    BY <2>5 DEF Framed
  <2>7. \A u \in Due(p, b) : u <= t
    BY <1>5, <2>1, <2>2 DEF Due
  <2>8. Outside(p, w, b) = in /\ Outside(p, v, in) = in
    BY <1>1, <1>6, <2>2 DEF Outside
  <2>9. WorkOK(p, v, in)
    BY <1>1, <1>6, <2>1, <2>2 DEF WorkOK, FallOK, Exits
  <2> QED BY <1>1, <1>3, <2>1, <2>2, <2>6, <2>7, <2>8, <2>9 DEF Further
<1>7. CASE w.goal = "throw"
  <2>1. PICK x \in Due(p, b) :
       /\ w.todo = <<x>>
       /\ \A c \in TryBlocks(p, b) : c.of <= x
       /\ \A u \in Framed(p, b) : u < x
       /\ SafeAt(p, p[x].in)
    BY <1>7 DEF WorkOK, ThrowOK
  <2>a. w.todo = <<x>> /\ t = Head(w.todo)
    BY <2>1
  <2>2. x = t /\ Tail(w.todo) = << >>
    BY ONLY <2>a
  <2>3. \A u \in Due(p, b) : u <= t
    BY <2>1, <2>2 DEF Due, OnFinallyStack, TryBlocks
  <2>4. Outside(p, w, b) = in /\ Outside(p, v, in) = in
    BY <1>1, <1>7, <2>2 DEF Outside
  <2>5. WorkOK(p, v, in)
    BY <1>1, <1>7, <2>1, <2>2 DEF WorkOK, ThrowOK, Exits
  <2> QED BY <1>1, <1>3, <2>1, <2>2, <2>3, <2>4, <2>5 DEF Further
<1>8. CASE w.goal \in Exits
  <2> DEFINE S == {u \in Due(p, b) : u > w.to}
  <2>1. /\ Falling(w.todo, S)
        /\ \A c \in Around(p, b) : c.of > w.to =>
             ~FrameOf(p, c) /\ (LeavesNoBody(p) => ~(IsTry(p, c) /\ c.part = "body"))
    BY <1>8 DEF WorkOK, ExitOK
  <2>2. PICK e \in Around(p, b) : e.of = w.to /\ KindOf(p, e) \in Leaves(w.goal)
    BY <1>8 DEF WorkOK, ExitOK
  <2>3. t \in S /\ (\A u \in S : u <= t) /\ Falling(Tail(w.todo), {u \in S : u < t})
    <3>1. S \subseteq Nat
      BY <1>2
    <3> DEFINE s == w.todo
    <3>2. Falling(s, S) /\ s # << >> /\ t = Head(s)
      BY <2>1
    <3> HIDE DEF S, s
    <3>3. /\ Head(s) \in S /\ \A u \in S : u <= Head(s)
          /\ Falling(Tail(s), {u \in S : u < Head(s)})
      BY ONLY <3>1, <3>2, FallingHead
    <3>4. t \in S /\ (\A u \in S : u <= t) /\ Falling(Tail(s), {u \in S : u < t})
      BY ONLY <3>2, <3>3, Zenon
    <3> QED BY <3>4 DEF s
  <2>4. t \in Due(p, b) /\ t > w.to /\ t \in Nat /\ w.to \in Nat
    BY <1>2, <1>5, <2>2, <2>3
  <2>5. \A u \in Due(p, b) : u <= t
    BY <1>2, <2>3, <2>4
  <2>6. \A u \in Framed(p, b) : u < t
    <3> SUFFICES ASSUME NEW d \in Around(p, b), FrameOf(p, d) PROVE d.of < t
      BY DEF Framed
    <3>1. ~(d.of > w.to)
      BY <2>1
    <3> QED BY <1>5, <2>4, <3>1
  <2>7. LeavesNoBody(p) => \A u \in Bodies(p, b) : u < t
    <3> SUFFICES ASSUME LeavesNoBody(p), NEW d \in Around(p, b), IsTry(p, d), d.part = "body" PROVE d.of < t
      BY DEF Bodies, TryBlocks
    <3>1. ~(d.of > w.to)
      BY <2>1
    <3> QED BY <1>5, <2>4, <3>1
  <2>8. PICK c \in Around(p, b) : c.of = t /\ t \in 1..Len(p)
    BY <2>4, DueBlock
  <2>9. /\ Around(p, in) = {d \in Around(p, b) : d.of < t}
        /\ Bodies(p, in) = {u \in Bodies(p, b) : u < t}
        /\ Due(p, in) = {u \in Due(p, b) : u < t}
    <3>1. c.of # 0
      BY <2>8
    <3> QED BY <2>8, <3>1, Outward
  <2>10. Further(p, Bodies(p, in), Bodies(p, b))
    BY <2>7, <2>9 DEF Further
  <2>11. Outside(p, w, b) = b /\ Outside(p, v, in) = in
    BY <1>1, <1>8 DEF Outside, Exits
  <2>12. ExitOK(p, v, in)
    <3>1. e \in Around(p, in)
      BY <2>2, <2>4, <2>9
    <3>2. {u \in S : u < t} = {u \in Due(p, in) : u > v.to}
      BY <1>1, <2>9
    <3>3. Falling(v.todo, {u \in Due(p, in) : u > v.to})
      BY <1>1, <2>3, <3>2
    <3>4. \A d \in Around(p, in) : d.of > v.to =>
            ~FrameOf(p, d) /\ (LeavesNoBody(p) => ~(IsTry(p, d) /\ d.part = "body"))
      BY <1>1, <2>1, <2>9
    <3> QED BY <1>1, <2>2, <3>1, <3>3, <3>4 DEF ExitOK
  <2>13. WorkOK(p, v, in)
    BY <1>1, <1>8, <2>12 DEF WorkOK, Exits
  <2> HIDE DEF in
  <2> QED BY <1>1, <1>3, <2>4, <2>5, <2>6, <2>10, <2>11, <2>13 DEF in
<1> QED BY <1>3, <1>4, <1>6, <1>7, <1>8 DEF Goals, Exits

-----------------------------------------------------------------------------
(* Every step keeps it, one kind of step at a time. *)

(* Between two plans there is nothing to get wrong. *)
LEMMA RunningSound ==
  ASSUME NEW p, NEW b
  PROVE  WorkOK(p, Running, b) /\ Outside(p, Running, b) = b
BY DEF WorkOK, Outside, Running, Work, Exits

(* What is known while statements execute. *)
LEMMA Execute ==
  ASSUME TypeInv, NestInv, Executing
  PROVE  /\ WellFormed(prog) /\ status = "running" /\ work = Running
         /\ pos \in Block(Len(prog)) /\ IsBlock(prog, pos)
         /\ Outside(prog, work, pos) = pos
         /\ RegistryOK(prog, Bodies(prog, pos), current, heap, slot, env, stack)
         /\ Mirrors(stack, Framed(prog, pos))
         /\ \A i \in 1..Len(stack) : FrameOK(prog, stack[i])
         /\ \A c \in TryBlocks(prog, pos) : slot[c.of] # 0
<1>1. status = "running" /\ work = Running
  BY DEF Executing
<1>2. Outside(prog, work, pos) = pos
  BY <1>1, RunningSound
<1>3. RunningOK
  BY <1>1 DEF NestInv
<1> QED BY <1>1, <1>2, <1>3, ProgramFacts DEF NestInv, RunningOK, TypeInv

(* An exit that is planned. *)
LEMMA ExitNest ==
  ASSUME TypeInv, NestInv, Executing, NEW w, w.goal \in Exits, ExitOK(prog, w, pos), Begin(w)
  PROVE  NestInv'
<1>1. status = "running" /\ Outside(prog, work, pos) = pos
  BY Execute
<1>2. WorkOK(prog, w, pos) /\ Outside(prog, w, pos) = pos
  BY DEF WorkOK, Outside, Exits
<1> QED BY <1>1, <1>2, PlanNest

(* break, continue and return plan what the rules promise. *)
LEMMA ExitsNest ==
  ASSUME TypeInv, NestInv, Disciplined(prog), NEW n \in 1..Len(prog),
         Break(n) \/ Continue(n) \/ Return(n)
  PROVE  NestInv'
<1>1. Executing /\ prog[n].in = pos
  BY DEF Break, Continue, Return, Reaches
<1>2. /\ WellFormed(prog)
      /\ ExitsLeaveNo("fin", prog, n)
      /\ \A s \in 1..Len(prog) : SwitchInLoop(prog, s)
  BY ProgramFacts DEF Disciplined
<1>3. CASE Break(n)
  <2> DEFINE w == Work(LoopFinallys(prog, pos), "break", BreakTarget(prog, pos), 0)
  <2>1. /\ w.goal = "break" /\ w.to = BreakTarget(prog, prog[n].in)
        /\ w.todo = LoopFinallys(prog, prog[n].in) /\ prog[n].kind = "break" /\ Begin(w)
    BY <1>1, <1>3 DEF Work, Break, Reaches
  <2> HIDE DEF w
  <2>2. ExitOK(prog, w, prog[n].in)
    BY <1>2, <2>1, BreakPlan
  <2> QED BY <1>1, <2>1, <2>2, ExitNest DEF Exits
<1>4. CASE Continue(n)
  <2> DEFINE w == Work(LoopFinallys(prog, pos), "continue", ContinueTarget(prog, pos), 0)
  <2>1. /\ w.goal = "continue" /\ w.to = ContinueTarget(prog, prog[n].in)
        /\ w.todo = LoopFinallys(prog, prog[n].in) /\ prog[n].kind = "continue" /\ Begin(w)
    BY <1>1, <1>4 DEF Work, Continue, Reaches
  <2> HIDE DEF w
  <2>2. ExitOK(prog, w, prog[n].in)
    BY <1>2, <2>1, ContinuePlan
  <2> QED BY <1>1, <2>1, <2>2, ExitNest DEF Exits
<1>5. CASE Return(n)
  <2> DEFINE w == Work(ReturnFinallys(prog, pos), "return", FunctionOf(prog, pos), 0)
  <2>1. /\ w.goal = "return" /\ w.to = FunctionOf(prog, prog[n].in)
        /\ w.todo = ReturnFinallys(prog, prog[n].in) /\ prog[n].kind = "return" /\ Begin(w)
    BY <1>1, <1>5 DEF Work, Return, Reaches
  <2> HIDE DEF w
  <2>2. ExitOK(prog, w, prog[n].in)
    BY <1>2, <2>1, ReturnPlan
  <2> QED BY <1>1, <2>1, <2>2, ExitNest DEF Exits
<1> QED BY <1>3, <1>4, <1>5

(* So do pantja and a runtime error. *)
LEMMA ThrowsNest ==
  ASSUME TypeInv, NestInv, Disciplined(prog), NEW n \in 1..Len(prog),
         Throw(n) \/ RuntimeError(n)
  PROVE  NestInv'
<1>1. Executing /\ prog[n].in = pos
  BY DEF Throw, RuntimeError, Reaches
<1>2. WellFormed(prog) /\ LeavesNoBody(prog) /\ ThrowsOneLevel(prog, n)
  <2>1. prog[n].kind \in {"throw", "fail"}
    BY DEF Throw, RuntimeError, Reaches
  <2> QED BY <2>1, ProgramFacts DEF Disciplined
<1>3. status = "running" /\ Outside(prog, work, pos) = pos /\ pos \in Block(Len(prog))
      /\ IsBlock(prog, pos)
  BY <1>1, Execute
<1>4. CASE Throw(n)
  <2> DEFINE w == Work(ThrowFinallys(prog, pos), "throw", 0, n)
  <2>1. /\ w.goal = "throw" /\ w.todo = ThrowFinallys(prog, prog[n].in)
        /\ prog[n].kind = "throw" /\ Begin(w)
    BY <1>1, <1>4 DEF Work, Throw, Reaches
  <2> HIDE DEF w
  <2>2. /\ ThrowOK(prog, w, prog[n].in)
        /\ w.todo # << >> => Bodies(prog, prog[Head(w.todo)].in) = Bodies(prog, prog[n].in)
    BY <1>2, <2>1, ThrowPlan
  <2>3. WorkOK(prog, w, pos)
    BY <1>1, <2>1, <2>2 DEF WorkOK, Exits
  <2>4. Bodies(prog, Outside(prog, w, pos)) = Bodies(prog, pos)
    BY <1>1, <2>1, <2>2 DEF Outside
  <2> QED BY <1>3, <2>1, <2>3, <2>4, PlanNest
<1>5. CASE RuntimeError(n)
  <2> DEFINE w == Work(<< >>, "throw", 0, n)
  <2>1. w.goal = "throw" /\ w.todo = << >> /\ prog[n].kind = "fail" /\ Begin(w)
    BY <1>5 DEF Work, RuntimeError, Reaches
  <2> HIDE DEF w
  <2>2. SafeAt(prog, pos)
    <3>1. {c \in Exposed(prog, pos) : Owing(prog, c)} = {}
      BY <1>1, <1>2, <2>1 DEF ThrowsOneLevel
    <3> QED BY <1>2, <1>3, <3>1, FailSafe
  <2>3. WorkOK(prog, w, pos) /\ Outside(prog, w, pos) = pos
    BY <1>2, <2>1, <2>2 DEF WorkOK, Exits, ThrowOK, Outside
  <2> QED BY <1>3, <2>1, <2>3, PlanNest
<1> QED BY <1>4, <1>5

(* The end of a block is planned. *)
LEMMA FallNest ==
  ASSUME TypeInv, NestInv, Executing, NEW w, w.goal = "fall", FallOK(prog, w, pos), Begin(w),
         Bodies(prog, prog[w.to].in) = Bodies(prog, pos)
  PROVE  NestInv'
<1>1. status = "running" /\ Outside(prog, work, pos) = pos
  BY Execute
<1>2. WorkOK(prog, w, pos) /\ Outside(prog, w, pos) = prog[w.to].in
  BY DEF WorkOK, Outside, Exits
<1> QED BY <1>1, <1>2, PlanNest

(* The end of a part of a try: its own tukuyawi comes next, if it has one. *)
LEMMA OwnFall ==
  ASSUME TypeInv, IsBlock(prog, pos), KindOf(prog, pos) = "try", pos.part \in {"body", "catch"},
         NEW w, w = Work(OwnFinally(pos.of), "fall", pos.of, 0)
  PROVE  /\ w.goal = "fall" /\ w.to = pos.of /\ pos.of \in 1..Len(prog)
         /\ FallOK(prog, w, pos)
<1>1. WellFormed(prog) /\ pos \in Block(Len(prog))
  BY ProgramFacts DEF TypeInv
<1>2. pos.of \in 1..Len(prog) /\ IsTry(prog, pos)
  <2>1. pos.of # 0
    BY DEF KindOf
  <2> QED BY <1>1, <2>1, BlockParts DEF IsTry
<1>3. w.goal = "fall" /\ w.to = pos.of /\ w.exc = 0 /\ w.todo = OwnFinally(pos.of)
  BY DEF Work
<1>4. pos \in Around(prog, pos)
  BY <1>1, BlockItself
<1>5. CASE prog[pos.of].fin
  <2>1. w.todo = <<w.to>>
    BY <1>3, <1>5 DEF OwnFinally
  <2>2. w.to \in Due(prog, pos)
    BY <1>2, <1>3, <1>4, <1>5 DEF Due, OnFinallyStack
  <2> QED BY <1>2, <1>3, <2>1, <2>2 DEF FallOK
<1>6. CASE ~prog[pos.of].fin
  <2>1. w.todo = << >>
    BY <1>3, <1>6 DEF OwnFinally
  <2>2. w.to \notin Due(prog, pos)
    <3> SUFFICES ASSUME NEW c \in Around(prog, pos), OnFinallyStack(prog, c), c.of = pos.of PROVE FALSE
      BY <1>3 DEF Due
    <3> QED BY <1>6 DEF OnFinallyStack
  <2>3. w.to \notin Framed(prog, pos)
    <3> SUFFICES ASSUME NEW c \in Around(prog, pos), FrameOf(prog, c), c.of = pos.of PROVE FALSE
      BY <1>3 DEF Framed
    <3>1. c = pos
      BY <1>1, <1>4, OneBlock
    <3> QED BY <3>1 DEF FrameOf, IsTry
  <2> QED BY <1>2, <1>3, <2>1, <2>2, <2>3 DEF FallOK
<1> QED BY <1>2, <1>3, <1>5, <1>6

(* A block that is no body has the bodies around its statement. *)
LEMMA BodiesSame ==
  ASSUME NEW p, WellFormed(p), NEW b \in Block(Len(p)), b.of # 0,
         ~(IsTry(p, b) /\ b.part = "body")
  PROVE  Bodies(p, b) = Bodies(p, p[b.of].in)
<1>1. Bodies(p, b) = Bodies(p, p[b.of].in) \cup
        (IF IsTry(p, b) /\ b.part = "body" THEN {b.of} ELSE {})
  BY Inward
<1> QED BY <1>1

(* The ends of a katjaña, a kuna and a yaqha. *)
LEMMA EndPlansNest ==
  ASSUME TypeInv, NestInv, Disciplined(prog), EndCatch \/ EndKuna \/ EndYaqha
  PROVE  NestInv'
<1>1. Executing
  BY DEF EndCatch, EndKuna, EndYaqha, EndsBlock
<1>2. WellFormed(prog) /\ pos \in Block(Len(prog)) /\ IsBlock(prog, pos)
  BY <1>1, Execute
<1>3. CASE EndCatch
  <2> DEFINE w == Work(OwnFinally(pos.of), "fall", pos.of, 0)
  <2>1. KindOf(prog, pos) = "try" /\ pos.part = "catch" /\ Begin(w)
    BY <1>3 DEF EndCatch, EndsBlock
  <2>2. w.goal = "fall" /\ w.to = pos.of /\ pos.of \in 1..Len(prog) /\ FallOK(prog, w, pos)
    BY <1>2, <2>1, OwnFall
  <2> HIDE DEF w
  <2>3. Bodies(prog, prog[pos.of].in) = Bodies(prog, pos)
    <3>1. pos.of # 0
      BY <2>1 DEF KindOf
    <3> QED BY <1>2, <2>1, <3>1, BodiesSame
  <2> QED BY <1>1, <2>1, <2>2, <2>3, FallNest
<1>4. CASE EndKuna
  <2> DEFINE w == Work(LoopFinallys(prog, pos), "break", BreakTarget(prog, pos), 0)
  <2>1. /\ KindOf(prog, pos) = "switch" /\ Begin(w)
        /\ w.goal = "break" /\ w.to = BreakTarget(prog, pos) /\ w.todo = LoopFinallys(prog, pos)
    BY <1>4 DEF EndKuna, EndsBlock, Work
  <2> HIDE DEF w
  <2>2. SwitchInLoop(prog, pos.of)
    <3>1. pos.of \in 1..Len(prog)
      <4>1. pos.of # 0
        BY <2>1 DEF KindOf
      <4> QED BY <1>2, <4>1, BlockParts
    <3> QED BY <3>1 DEF Disciplined
  <2>3. ExitOK(prog, w, pos)
    BY <1>2, <2>1, <2>2, KunaPlan
  <2> QED BY <1>1, <2>1, <2>3, ExitNest DEF Exits
<1>5. CASE EndYaqha
  <2> DEFINE w == Work(<< >>, "fall", pos.of, 0)
  <2>1. /\ KindOf(prog, pos) = "switch" /\ Begin(w)
        /\ w.goal = "fall" /\ w.to = pos.of /\ w.todo = << >> /\ w.exc = 0
    BY <1>5 DEF EndYaqha, EndsBlock, Work
  <2> HIDE DEF w
  <2>2. pos.of # 0 /\ pos.of \in 1..Len(prog)
    <3>1. pos.of # 0
      BY <2>1 DEF KindOf
    <3> QED BY <1>2, <3>1, BlockParts
  <2>3. ~IsTry(prog, pos) /\ ~FrameOf(prog, pos) /\ pos \in Around(prog, pos)
    BY <1>2, <2>1, BlockItself DEF IsTry, FrameOf
  <2>4. pos.of \notin Due(prog, pos) /\ pos.of \notin Framed(prog, pos)
    <3>1. ASSUME NEW c \in Around(prog, pos), c.of = pos.of PROVE ~OnFinallyStack(prog, c) /\ ~FrameOf(prog, c)
      <4>1. c = pos
        BY <1>2, <2>3, <3>1, OneBlock
      <4> QED BY <2>3, <4>1 DEF OnFinallyStack
    <3> QED BY <3>1 DEF Due, Framed
  <2>5. FallOK(prog, w, pos)
    BY <2>1, <2>2, <2>4 DEF FallOK
  <2>6. Bodies(prog, prog[pos.of].in) = Bodies(prog, pos)
    BY <1>2, <2>2, <2>3, BodiesSame
  <2> QED BY <1>1, <2>1, <2>5, <2>6, FallNest
<1> QED BY <1>3, <1>4, <1>5

(* What part q of statement n adds to what stands around n. *)
LEMMA Into ==
  ASSUME NEW p, WellFormed(p), NEW n \in 1..Len(p),
         NEW q \in {"body", "catch", "fin", "kuna", "yaqha"},
         NEW b, b = [of |-> n, part |-> q]
  PROVE  LET in == p[n].in
             k == p[n].kind
         IN
         /\ b \in Block(Len(p)) /\ (IsBlock(p, b) <=> q \in PartsOf(p[n]))
         /\ KindOf(p, b) = k /\ (IsTry(p, b) <=> k = "try")
         /\ TryBlocks(p, b) = TryBlocks(p, in) \cup (IF k = "try" THEN {b} ELSE {})
         /\ Bodies(p, b) = Bodies(p, in) \cup (IF k = "try" /\ q = "body" THEN {n} ELSE {})
         /\ Due(p, b) = Due(p, in) \cup
              (IF k = "try" /\ p[n].fin /\ q \in {"body", "catch"} THEN {n} ELSE {})
         /\ Framed(p, b) = Framed(p, in) \cup
              (IF k = "call" \/ (k = "try" /\ q = "fin") THEN {n} ELSE {})
         /\ \A u \in Bodies(p, in) \cup Due(p, in) \cup Framed(p, in) : u < n /\ u \in Nat /\ u \in 1..Len(p)
         /\ \A c \in TryBlocks(p, in) : c.of < n /\ c.of \in 1..Len(p)
<1> DEFINE in == p[n].in
<1>1. b.of = n /\ b.part = q /\ n # 0 /\ n \in Nat
  BY DEF WellFormed
<1>2. b \in Block(Len(p)) /\ in \in Block(Len(p)) /\ IsBlock(p, in) /\ in.of < n /\ in.of \in Nat
  BY StatementType DEF Block
<1>3. IsBlock(p, b) <=> q \in PartsOf(p[n])
  BY <1>1 DEF IsBlock, MainBlock
<1>4. KindOf(p, b) = p[n].kind /\ (IsTry(p, b) <=> p[n].kind = "try")
  BY <1>1 DEF KindOf, IsTry
<1>5. /\ TryBlocks(p, b) = TryBlocks(p, in) \cup (IF IsTry(p, b) THEN {b} ELSE {})
      /\ Bodies(p, b) = Bodies(p, in) \cup
           (IF IsTry(p, b) /\ b.part = "body" THEN {b.of} ELSE {})
      /\ Due(p, b) = Due(p, in) \cup (IF OnFinallyStack(p, b) THEN {b.of} ELSE {})
      /\ Framed(p, b) = Framed(p, in) \cup (IF FrameOf(p, b) THEN {b.of} ELSE {})
  BY <1>1, <1>2, Inward
<1>6. \A c \in Around(p, in) : c.of < n /\ c.of \in Nat /\ (c.of # 0 => c.of \in 1..Len(p))
  BY <1>1, <1>2, BlockType
<1>7. \A c \in Around(p, in) : IsTry(p, c) \/ FrameOf(p, c) => c.of # 0
  BY DEF IsTry, FrameOf, KindOf
<1>8. \A u \in Bodies(p, in) \cup Due(p, in) \cup Framed(p, in) : u < n /\ u \in Nat /\ u \in 1..Len(p)
  BY <1>6, <1>7 DEF Bodies, TryBlocks, Due, OnFinallyStack, Framed
<1>9. \A c \in TryBlocks(p, in) : c.of < n /\ c.of \in 1..Len(p)
  BY <1>6, <1>7 DEF TryBlocks
<1> HIDE DEF in
<1>10. /\ TryBlocks(p, b) = TryBlocks(p, in) \cup (IF p[n].kind = "try" THEN {b} ELSE {})
       /\ Bodies(p, b) = Bodies(p, in) \cup (IF p[n].kind = "try" /\ q = "body" THEN {n} ELSE {})
       /\ Due(p, b) = Due(p, in) \cup
            (IF p[n].kind = "try" /\ p[n].fin /\ q \in {"body", "catch"} THEN {n} ELSE {})
       /\ Framed(p, b) = Framed(p, in) \cup
            (IF p[n].kind = "call" \/ (p[n].kind = "try" /\ q = "fin") THEN {n} ELSE {})
  BY <1>1, <1>4, <1>5 DEF OnFinallyStack, FrameOf
<1> QED BY <1>2, <1>3, <1>4, <1>8, <1>9, <1>10 DEF in

(* Into a loop or a khiti. *)
LEMMA IntoPlain ==
  ASSUME NEW p, WellFormed(p), NEW n \in 1..Len(p), p[n].kind \in {"loop", "switch"},
         NEW q \in {"body", "kuna", "yaqha"}, q \in PartsOf(p[n]),
         NEW b, b = [of |-> n, part |-> q]
  PROVE  LET in == p[n].in IN
         /\ b \in Block(Len(p)) /\ IsBlock(p, b)
         /\ TryBlocks(p, b) = TryBlocks(p, in) /\ Bodies(p, b) = Bodies(p, in)
         /\ Due(p, b) = Due(p, in) /\ Framed(p, b) = Framed(p, in)
<1> DEFINE in == p[n].in
           k == p[n].kind
<1>1. /\ b \in Block(Len(p)) /\ (IsBlock(p, b) <=> q \in PartsOf(p[n]))
      /\ TryBlocks(p, b) = TryBlocks(p, in) \cup (IF k = "try" THEN {b} ELSE {})
      /\ Bodies(p, b) = Bodies(p, in) \cup (IF k = "try" /\ q = "body" THEN {n} ELSE {})
      /\ Due(p, b) = Due(p, in) \cup
           (IF k = "try" /\ p[n].fin /\ q \in {"body", "catch"} THEN {n} ELSE {})
      /\ Framed(p, b) = Framed(p, in) \cup
           (IF k = "call" \/ (k = "try" /\ q = "fin") THEN {n} ELSE {})
  BY Into
<1>2. k # "try" /\ k # "call"
  OBVIOUS
<1> HIDE DEF in, k
<1>3. /\ TryBlocks(p, b) = TryBlocks(p, in) /\ Bodies(p, b) = Bodies(p, in)
      /\ Due(p, b) = Due(p, in) /\ Framed(p, b) = Framed(p, in)
  BY <1>1, <1>2
<1> QED BY <1>1, <1>3 DEF in

(* Into a function. *)
LEMMA IntoCall ==
  ASSUME NEW p, WellFormed(p), NEW n \in 1..Len(p), p[n].kind = "call",
         NEW b, b = [of |-> n, part |-> "body"]
  PROVE  LET in == p[n].in IN
         /\ b \in Block(Len(p)) /\ KindOf(p, b) = "call" /\ (IsBlock(p, b) <=> "body" \in PartsOf(p[n]))
         /\ TryBlocks(p, b) = TryBlocks(p, in)
         /\ Bodies(p, b) = Bodies(p, in)
         /\ Due(p, b) = Due(p, in)
         /\ Framed(p, b) = Framed(p, in) \cup {n}
         /\ \A u \in Bodies(p, in) \cup Due(p, in) \cup Framed(p, in) : u < n /\ u \in Nat /\ u \in 1..Len(p)
         /\ \A c \in TryBlocks(p, in) : c.of < n /\ c.of \in 1..Len(p)
<1> DEFINE in == p[n].in
           k == p[n].kind
           q == "body"
<1>1. q \in {"body", "catch", "fin", "kuna", "yaqha"} /\ b = [of |-> n, part |-> q] /\ k = "call"
  OBVIOUS
<1> HIDE DEF q
<1>2. /\ b \in Block(Len(p)) /\ KindOf(p, b) = k /\ (IsBlock(p, b) <=> q \in PartsOf(p[n]))
      /\ TryBlocks(p, b) = TryBlocks(p, in) \cup (IF k = "try" THEN {b} ELSE {})
      /\ Bodies(p, b) = Bodies(p, in) \cup (IF k = "try" /\ q = "body" THEN {n} ELSE {})
      /\ Due(p, b) = Due(p, in) \cup
           (IF k = "try" /\ p[n].fin /\ q \in {"body", "catch"} THEN {n} ELSE {})
      /\ Framed(p, b) = Framed(p, in) \cup
           (IF k = "call" \/ (k = "try" /\ q = "fin") THEN {n} ELSE {})
      /\ \A u \in Bodies(p, in) \cup Due(p, in) \cup Framed(p, in) : u < n /\ u \in Nat /\ u \in 1..Len(p)
      /\ \A c \in TryBlocks(p, in) : c.of < n /\ c.of \in 1..Len(p)
  <2>1. WellFormed(p) /\ n \in 1..Len(p)
    OBVIOUS
  <2>2. q \in {"body", "catch", "fin", "kuna", "yaqha"} /\ b = [of |-> n, part |-> q]
    BY <1>1
  <2> QED BY ONLY <2>1, <2>2, Into
<1> HIDE DEF in, k
<1>3. /\ TryBlocks(p, b) = TryBlocks(p, in)
      /\ Bodies(p, b) = Bodies(p, in)
      /\ Due(p, b) = Due(p, in)
      /\ Framed(p, b) = Framed(p, in) \cup {n}
  BY <1>1, <1>2 DEF q
<1> QED BY <1>1, <1>2, <1>3 DEF in, q

(* Into the body of a try. *)
LEMMA IntoBody ==
  ASSUME NEW p, WellFormed(p), NEW n \in 1..Len(p), p[n].kind = "try",
         NEW b, b = [of |-> n, part |-> "body"]
  PROVE  LET in == p[n].in IN
         /\ b \in Block(Len(p)) /\ KindOf(p, b) = "try" /\ (IsBlock(p, b) <=> "body" \in PartsOf(p[n]))
         /\ TryBlocks(p, b) = TryBlocks(p, in) \cup {b}
         /\ Bodies(p, b) = Bodies(p, in) \cup {n}
         /\ Due(p, b) = Due(p, in) \cup (IF p[n].fin THEN {n} ELSE {})
         /\ Framed(p, b) = Framed(p, in)
         /\ \A u \in Bodies(p, in) \cup Due(p, in) \cup Framed(p, in) : u < n /\ u \in Nat /\ u \in 1..Len(p)
         /\ \A c \in TryBlocks(p, in) : c.of < n /\ c.of \in 1..Len(p)
<1> DEFINE in == p[n].in
           k == p[n].kind
           q == "body"
<1>1. q \in {"body", "catch", "fin", "kuna", "yaqha"} /\ b = [of |-> n, part |-> q] /\ k = "try"
  OBVIOUS
<1> HIDE DEF q
<1>2. /\ b \in Block(Len(p)) /\ KindOf(p, b) = k /\ (IsBlock(p, b) <=> q \in PartsOf(p[n]))
      /\ TryBlocks(p, b) = TryBlocks(p, in) \cup (IF k = "try" THEN {b} ELSE {})
      /\ Bodies(p, b) = Bodies(p, in) \cup (IF k = "try" /\ q = "body" THEN {n} ELSE {})
      /\ Due(p, b) = Due(p, in) \cup
           (IF k = "try" /\ p[n].fin /\ q \in {"body", "catch"} THEN {n} ELSE {})
      /\ Framed(p, b) = Framed(p, in) \cup
           (IF k = "call" \/ (k = "try" /\ q = "fin") THEN {n} ELSE {})
      /\ \A u \in Bodies(p, in) \cup Due(p, in) \cup Framed(p, in) : u < n /\ u \in Nat /\ u \in 1..Len(p)
      /\ \A c \in TryBlocks(p, in) : c.of < n /\ c.of \in 1..Len(p)
  BY <1>1, Into
<1> HIDE DEF in, k
<1>3. /\ TryBlocks(p, b) = TryBlocks(p, in) \cup {b}
      /\ Bodies(p, b) = Bodies(p, in) \cup {n}
      /\ Due(p, b) = Due(p, in) \cup (IF p[n].fin THEN {n} ELSE {})
      /\ Framed(p, b) = Framed(p, in)
  BY <1>1, <1>2 DEF q
<1> QED BY <1>1, <1>2, <1>3 DEF in, q

(* Into a katjaña. *)
LEMMA IntoCatch ==
  ASSUME NEW p, WellFormed(p), NEW n \in 1..Len(p), p[n].kind = "try",
         NEW b, b = [of |-> n, part |-> "catch"]
  PROVE  LET in == p[n].in IN
         /\ b \in Block(Len(p)) /\ KindOf(p, b) = "try" /\ (IsBlock(p, b) <=> "catch" \in PartsOf(p[n]))
         /\ TryBlocks(p, b) = TryBlocks(p, in) \cup {b}
         /\ Bodies(p, b) = Bodies(p, in)
         /\ Due(p, b) = Due(p, in) \cup (IF p[n].fin THEN {n} ELSE {})
         /\ Framed(p, b) = Framed(p, in)
         /\ \A u \in Bodies(p, in) \cup Due(p, in) \cup Framed(p, in) : u < n /\ u \in Nat /\ u \in 1..Len(p)
         /\ \A c \in TryBlocks(p, in) : c.of < n /\ c.of \in 1..Len(p)
<1> DEFINE in == p[n].in
           k == p[n].kind
           q == "catch"
<1>1. q \in {"body", "catch", "fin", "kuna", "yaqha"} /\ b = [of |-> n, part |-> q] /\ k = "try"
  OBVIOUS
<1> HIDE DEF q
<1>2. /\ b \in Block(Len(p)) /\ KindOf(p, b) = k /\ (IsBlock(p, b) <=> q \in PartsOf(p[n]))
      /\ TryBlocks(p, b) = TryBlocks(p, in) \cup (IF k = "try" THEN {b} ELSE {})
      /\ Bodies(p, b) = Bodies(p, in) \cup (IF k = "try" /\ q = "body" THEN {n} ELSE {})
      /\ Due(p, b) = Due(p, in) \cup
           (IF k = "try" /\ p[n].fin /\ q \in {"body", "catch"} THEN {n} ELSE {})
      /\ Framed(p, b) = Framed(p, in) \cup
           (IF k = "call" \/ (k = "try" /\ q = "fin") THEN {n} ELSE {})
      /\ \A u \in Bodies(p, in) \cup Due(p, in) \cup Framed(p, in) : u < n /\ u \in Nat /\ u \in 1..Len(p)
      /\ \A c \in TryBlocks(p, in) : c.of < n /\ c.of \in 1..Len(p)
  BY <1>1, Into
<1> HIDE DEF in, k
<1>3. /\ TryBlocks(p, b) = TryBlocks(p, in) \cup {b}
      /\ Bodies(p, b) = Bodies(p, in)
      /\ Due(p, b) = Due(p, in) \cup (IF p[n].fin THEN {n} ELSE {})
      /\ Framed(p, b) = Framed(p, in)
  BY <1>1, <1>2 DEF q
<1> QED BY <1>1, <1>2, <1>3 DEF in, q

(* Into a tukuyawi. *)
LEMMA IntoFin ==
  ASSUME NEW p, WellFormed(p), NEW n \in 1..Len(p), p[n].kind = "try",
         NEW b, b = [of |-> n, part |-> "fin"]
  PROVE  LET in == p[n].in IN
         /\ b \in Block(Len(p)) /\ KindOf(p, b) = "try" /\ (IsBlock(p, b) <=> "fin" \in PartsOf(p[n]))
         /\ TryBlocks(p, b) = TryBlocks(p, in) \cup {b}
         /\ Bodies(p, b) = Bodies(p, in)
         /\ Due(p, b) = Due(p, in)
         /\ Framed(p, b) = Framed(p, in) \cup {n}
         /\ \A u \in Bodies(p, in) \cup Due(p, in) \cup Framed(p, in) : u < n /\ u \in Nat /\ u \in 1..Len(p)
         /\ \A c \in TryBlocks(p, in) : c.of < n /\ c.of \in 1..Len(p)
<1> DEFINE in == p[n].in
           k == p[n].kind
           q == "fin"
<1>1. q \in {"body", "catch", "fin", "kuna", "yaqha"} /\ b = [of |-> n, part |-> q] /\ k = "try"
  OBVIOUS
<1> HIDE DEF q
<1>2. /\ b \in Block(Len(p)) /\ KindOf(p, b) = k /\ (IsBlock(p, b) <=> q \in PartsOf(p[n]))
      /\ TryBlocks(p, b) = TryBlocks(p, in) \cup (IF k = "try" THEN {b} ELSE {})
      /\ Bodies(p, b) = Bodies(p, in) \cup (IF k = "try" /\ q = "body" THEN {n} ELSE {})
      /\ Due(p, b) = Due(p, in) \cup
           (IF k = "try" /\ p[n].fin /\ q \in {"body", "catch"} THEN {n} ELSE {})
      /\ Framed(p, b) = Framed(p, in) \cup
           (IF k = "call" \/ (k = "try" /\ q = "fin") THEN {n} ELSE {})
      /\ \A u \in Bodies(p, in) \cup Due(p, in) \cup Framed(p, in) : u < n /\ u \in Nat /\ u \in 1..Len(p)
      /\ \A c \in TryBlocks(p, in) : c.of < n /\ c.of \in 1..Len(p)
  BY <1>1, Into
<1> HIDE DEF in, k
<1>3. /\ TryBlocks(p, b) = TryBlocks(p, in) \cup {b}
      /\ Bodies(p, b) = Bodies(p, in)
      /\ Due(p, b) = Due(p, in)
      /\ Framed(p, b) = Framed(p, in) \cup {n}
  BY <1>1, <1>2 DEF q
<1> QED BY <1>1, <1>2, <1>3 DEF in, q

(* Control moves to a block with the same try statements and calls around. *)
LEMMA StayNest ==
  ASSUME TypeInv, NestInv, status = "running",
         UNCHANGED <<chainVars, prog, stack, slot, env, ran, status>>, work' = Running,
         NEW b, pos' = b, IsBlock(prog, b), Due(prog, b) = Due(prog, pos),
         Further(prog, Bodies(prog, b), Bodies(prog, Outside(prog, work, pos))),
         Framed(prog, b) = Framed(prog, pos),
         TryBlocks(prog, b) \subseteq TryBlocks(prog, pos)
  PROVE  NestInv'
<1>1. /\ RegistryOK(prog, Bodies(prog, Outside(prog, work, pos)), current, heap, slot, env, stack)
      /\ Mirrors(stack, Framed(prog, pos))
      /\ \A i \in 1..Len(stack) : FrameOK(prog, stack[i])
  BY DEF NestInv, RunningOK
<1>2. WorkOK(prog, work', pos') /\ Outside(prog, work', pos') = b
  BY RunningSound
<1>3. UNCHANGED <<heap, current, prog, slot, env, ran, status>> /\ stack' = stack
  BY DEF chainVars
<1>4. RegistryOK(prog, Bodies(prog, Outside(prog, work', pos')), current, heap, slot, env, stack')
  <2> DEFINE B == Bodies(prog, Outside(prog, work, pos))
             C == Bodies(prog, b)
  <2>1. Further(prog, C, B) /\ RegistryOK(prog, B, current, heap, slot, env, stack)
    BY <1>1
  <2> HIDE DEF B, C
  <2>2. RegistryOK(prog, C, current, heap, slot, env, stack)
    BY <2>1, RegistryLess
  <2> QED BY <1>2, <1>3, <2>2 DEF C
<1>5. Mirrors(stack', Framed(prog, pos'))
  BY <1>1, <1>3
<1>6. \A i \in 1..Len(stack') : FrameOK(prog, stack'[i])
  BY <1>1, <1>3
<1>7. \A c \in TryBlocks(prog, pos') : \E d \in TryBlocks(prog, pos) : d.of = c.of
  OBVIOUS
<1> QED BY <1>2, <1>3, <1>4, <1>5, <1>6, <1>7, MoveNest

(* A loop or a khiti is entered. *)
LEMMA EntersNest ==
  ASSUME TypeInv, NestInv, NEW n \in 1..Len(prog), EnterLoop(n) \/ EnterSwitch(n)
  PROVE  NestInv'
<1>1. Executing /\ prog[n].in = pos
  BY DEF EnterLoop, EnterSwitch, Reaches
<1>2. /\ WellFormed(prog) /\ status = "running" /\ Outside(prog, work, pos) = pos /\ work = Running
  BY <1>1, Execute
<1>3. PICK q \in {"body", "kuna", "yaqha"} :
        /\ pos' = [of |-> n, part |-> q] /\ prog[n].kind \in {"loop", "switch"}
        /\ q \in PartsOf(prog[n])
  BY DEF EnterLoop, EnterSwitch, Reaches, GoTo, PartsOf
<1> DEFINE b == [of |-> n, part |-> q]
<1>4. /\ b \in Block(Len(prog)) /\ IsBlock(prog, b)
      /\ TryBlocks(prog, b) = TryBlocks(prog, pos) /\ Bodies(prog, b) = Bodies(prog, pos)
      /\ Due(prog, b) = Due(prog, pos) /\ Framed(prog, b) = Framed(prog, pos)
  BY <1>1, <1>2, <1>3, IntoPlain
<1>5. UNCHANGED <<chainVars, prog, stack, slot, env, ran, status>> /\ work' = Running
  BY <1>2 DEF EnterLoop, EnterSwitch
<1>6. pos' = b
  BY <1>3
<1> HIDE DEF b
<1>7. Further(prog, Bodies(prog, b), Bodies(prog, Outside(prog, work, pos)))
  BY <1>2, <1>4 DEF Further
<1> QED BY <1>2, <1>4, <1>5, <1>6, <1>7, StayNest
-----------------------------------------------------------------------------
(* The stack a handler knows. *)
LEMMA HandlerStack ==
  ASSUME TypeInv, NEW t, slot[t] \in 1..Len(heap)
  PROVE  env[slot[t]].stack \in Seq(FrameType(prog))
<1>1. env[slot[t]] \in EnvType(prog)
  BY DEF TypeInv
<1> QED BY <1>1 DEF EnvType

(* Another return address on the stack. *)
LEMMA RegistryAppend ==
  ASSUME TypeInv, NEW B, RegistryOK(prog, B, current, heap, slot, env, stack),
         NEW e \in FrameType(prog)
  PROVE  RegistryOK(prog, B, current, heap, slot, env, Append(stack, e))
<1>1. ASSUME LeavesNoBody(prog), NEW t \in B PROVE Prefix(env[slot[t]].stack, Append(stack, e))
  <2>1. Prefix(env[slot[t]].stack, stack) /\ slot[t] \in 1..Len(heap)
    BY <1>1 DEF RegistryOK, LinkedOK
  <2>2. env[slot[t]].stack \in Seq(FrameType(prog)) /\ stack \in Seq(FrameType(prog))
    BY <2>1, HandlerStack DEF TypeInv
  <2> QED BY <2>1, <2>2, PrefixAppend
<1> QED BY <1>1, RegistryStack

(* Call and return of functions. *)
LEMMA CallNest ==
  ASSUME TypeInv, NestInv, NEW n \in 1..Len(prog), Call(n)
  PROVE  NestInv'
<1>1. Executing /\ prog[n].in = pos /\ prog[n].kind = "call"
  BY DEF Call, Reaches
<1>2. /\ WellFormed(prog) /\ status = "running" /\ work = Running
      /\ RegistryOK(prog, Bodies(prog, pos), current, heap, slot, env, stack)
      /\ Mirrors(stack, Framed(prog, pos))
      /\ \A i \in 1..Len(stack) : FrameOK(prog, stack[i])
  BY <1>1, Execute
<1> DEFINE b == [of |-> n, part |-> "body"]
           e == Frame("call", n, Running)
<1>3. /\ stack' = Append(stack, e) /\ pos' = b /\ work' = Running
      /\ UNCHANGED <<heap, current, prog, slot, env, ran, status>>
  BY <1>2 DEF Call, GoTo, chainVars
<1>4. e \in FrameType(prog) /\ e.of = n /\ e.kind = "call" /\ e.then = Running
      /\ stack \in Seq(FrameType(prog))
  BY <1>2, RunningType, ProgramFacts DEF Frame, FrameType, TypeInv
<1>5. /\ b \in Block(Len(prog)) /\ IsBlock(prog, b)
      /\ TryBlocks(prog, b) = TryBlocks(prog, pos) /\ Bodies(prog, b) = Bodies(prog, pos)
      /\ Due(prog, b) = Due(prog, pos) /\ Framed(prog, b) = Framed(prog, pos) \cup {n}
      /\ \A u \in Framed(prog, pos) : u < n
  <2>1. "body" \in PartsOf(prog[n])
    BY <1>1 DEF PartsOf
  <2> DEFINE in == prog[n].in
  <2>2. /\ b \in Block(Len(prog)) /\ (IsBlock(prog, b) <=> "body" \in PartsOf(prog[n]))
        /\ TryBlocks(prog, b) = TryBlocks(prog, in) /\ Bodies(prog, b) = Bodies(prog, in)
        /\ Due(prog, b) = Due(prog, in) /\ Framed(prog, b) = Framed(prog, in) \cup {n}
        /\ \A u \in Framed(prog, in) : u < n
    BY <1>1, <1>2, IntoCall
  <2> HIDE DEF b
  <2> QED BY <1>1, <2>1, <2>2
<1> HIDE DEF b, e
<1>6. Mirrors(stack', Framed(prog, pos'))
  <2> DEFINE S == Framed(prog, pos)
             T == Framed(prog, b)
  <2>1. T = S \cup {e.of} /\ (\A u \in S : u < e.of) /\ Mirrors(stack, S)
    BY <1>2, <1>4, <1>5
  <2> HIDE DEF S, T
  <2>2. Mirrors(Append(stack, e), T)
    BY <1>4, <2>1, MirrorsAppend
  <2> QED BY <1>3, <2>2 DEF T
<1>7. \A i \in 1..Len(stack') : FrameOK(prog, stack'[i])
  <2> SUFFICES ASSUME NEW i \in 1..Len(stack') PROVE FrameOK(prog, stack'[i])
    OBVIOUS
  <2>1. (i \in 1..Len(stack) /\ stack'[i] = stack[i]) \/ stack'[i] = e
    BY <1>3, <1>4
  <2>2. FrameOK(prog, e)
    BY <1>1, <1>4 DEF FrameOK
  <2> QED BY <1>2, <2>1, <2>2
<1>8. RegistryOK(prog, Bodies(prog, pos), current, heap, slot, env, stack')
  <2> DEFINE B == Bodies(prog, pos)
  <2>1. RegistryOK(prog, B, current, heap, slot, env, stack)
    BY <1>2
  <2> HIDE DEF B
  <2>2. RegistryOK(prog, B, current, heap, slot, env, Append(stack, e))
    BY <1>4, <2>1, RegistryAppend
  <2> QED BY <1>3, <2>2 DEF B
<1>9. WorkOK(prog, work', pos') /\ Outside(prog, work', pos') = b
  BY <1>3, RunningSound
<1>10. RegistryOK(prog, Bodies(prog, Outside(prog, work', pos')), current, heap, slot, env, stack')
  BY <1>5, <1>8, <1>9
<1>11. \A c \in TryBlocks(prog, pos') : \E d \in TryBlocks(prog, pos) : d.of = c.of
  BY <1>3, <1>5
<1>12. IsBlock(prog, pos') /\ Due(prog, pos') = Due(prog, pos)
  BY <1>3, <1>5
<1> QED BY <1>2, <1>3, <1>6, <1>7, <1>9, <1>10, <1>11, <1>12, MoveNest

(* A try that is entered has a handler of its own, and its tukuyawi is due *)
(* when it has one.                                                        *)
LEMMA RanPush ==
  ASSUME NEW p, NEW rn \in Seq(0..2), NEW sl, NEW E, NEW en \in Seq(E), Len(en) = Len(rn),
         NEW e \in E, NEW n, e.at = n, n \in DOMAIN sl, NEW D, n \notin D,
         NEW nl, nl = [sl EXCEPT ![n] = Len(rn) + 1],
         NEW C, C = D \cup (IF p[n].fin THEN {n} ELSE {}),
         RanOK(p, rn, sl, en, D), \A h \in 1..Len(rn) : en[h].at \in DOMAIN sl
  PROVE  RanOK(p, Append(rn, 0), nl, Append(en, e), C)
<1> DEFINE l == Len(rn)
           rq == Append(rn, 0)
           eq == Append(en, e)
<1>1. /\ l \in Nat /\ Len(rq) = l + 1 /\ rq[l + 1] = 0 /\ eq[l + 1] = e
      /\ \A h \in 1..l : rq[h] = rn[h] /\ eq[h] = en[h]
  OBVIOUS
<1>2. \A h \in 1..l : rn[h] = IF ~p[en[h].at].fin \/ (sl[en[h].at] = h /\ en[h].at \in D) THEN 0 ELSE 1
  BY DEF RanOK
<1>3. nl[n] = l + 1 /\ \A t \in DOMAIN sl : t # n => nl[t] = sl[t]
  OBVIOUS
<1>4. \A h \in 1..l : en[h].at \in DOMAIN sl
  OBVIOUS
<1> HIDE DEF l, rq, eq
<1> SUFFICES ASSUME NEW h \in 1..Len(rq)
             PROVE  rq[h] = IF ~p[eq[h].at].fin \/ (nl[eq[h].at] = h /\ eq[h].at \in C) THEN 0 ELSE 1
  BY DEF RanOK, rq, eq
<1>5. CASE h \in 1..l
  <2> DEFINE t == en[h].at
  <2>1. t \in DOMAIN sl /\ rq[h] = IF ~p[t].fin \/ (sl[t] = h /\ t \in D) THEN 0 ELSE 1
    BY <1>1, <1>2, <1>4, <1>5
  <2>2. eq[h].at = t /\ h # l + 1
    BY <1>1, <1>5
  <2> HIDE DEF t
  <2>3. CASE t = n
    <3>1. nl[t] # h /\ t \notin D
      BY <1>3, <2>2, <2>3
    <3> QED BY <2>1, <2>2, <3>1
  <2>4. CASE t # n
    <3>1. nl[t] = sl[t] /\ (t \in C <=> t \in D)
      BY <1>3, <2>1, <2>4
    <3> QED BY <2>1, <2>2, <3>1
  <2> QED BY <2>3, <2>4
<1>6. CASE h = l + 1
  <2>1. eq[h].at = n /\ rq[h] = 0 /\ nl[n] = h
    BY <1>1, <1>3, <1>6
  <2>2. p[n].fin => n \in C
    OBVIOUS
  <2> QED BY <2>1, <2>2
<1>7. h \in 1..l \/ h = l + 1
  BY <1>1
<1> QED BY <1>5, <1>6, <1>7

(* A try is entered: aym_try_push, and the slot, for the innermost body. *)
LEMMA EnterTryNest ==
  ASSUME TypeInv, NestInv, NEW n \in 1..Len(prog), EnterTry(n)
  PROVE  NestInv'
<1>1. Executing /\ prog[n].in = pos /\ prog[n].kind = "try"
  BY DEF EnterTry, Reaches
<1>2. /\ WellFormed(prog) /\ status = "running" /\ work = Running
      /\ RegistryOK(prog, Bodies(prog, pos), current, heap, slot, env, stack)
      /\ Mirrors(stack, Framed(prog, pos))
      /\ \A i \in 1..Len(stack) : FrameOK(prog, stack[i])
      /\ \A c \in TryBlocks(prog, pos) : slot[c.of] # 0
  BY <1>1, Execute
<1>0. PICK a \in Free : heap' = Append(heap, [at |-> a, prev |-> current, live |-> TRUE])
  BY DEF EnterTry, TryPush
<1> DEFINE b == [of |-> n, part |-> "body"]
           e == [at |-> n, stack |-> stack]
           h == [at |-> a, prev |-> current, live |-> TRUE]
           l == Len(heap)
<1>3. /\ heap' = Append(heap, h) /\ current' = l + 1 /\ env' = Append(env, e)
      /\ slot' = [slot EXCEPT ![n] = l + 1] /\ ran' = Append(ran, 0)
      /\ pos' = b /\ work' = Running /\ UNCHANGED <<prog, stack, status>>
  BY <1>0, <1>2 DEF EnterTry, TryPush, GoTo
<1>4. /\ l \in Nat /\ heap \in Seq(Handler) /\ env \in Seq(EnvType(prog)) /\ Len(env) = l
      /\ ran \in Seq(0..2) /\ Len(ran) = l /\ h \in Handler /\ h.prev = current /\ h.live
      /\ stack \in Seq(FrameType(prog)) /\ slot \in [1..Len(prog) -> 0..l]
      /\ e.at = n /\ e.stack = stack /\ e \in EnvType(prog)
  <2>1. a \in Nat
    BY FreeType
  <2> QED BY <2>1 DEF TypeInv, Handler, EnvType
<1>5. /\ IsBlock(prog, b)
      /\ TryBlocks(prog, b) = TryBlocks(prog, pos) \cup {b}
      /\ Bodies(prog, b) = Bodies(prog, pos) \cup {n}
      /\ Due(prog, b) = Due(prog, pos) \cup (IF prog[n].fin THEN {n} ELSE {})
      /\ Framed(prog, b) = Framed(prog, pos)
      /\ \A u \in Bodies(prog, pos) \cup Due(prog, pos) : u < n /\ u \in Nat /\ u \in 1..Len(prog)
      /\ \A c \in TryBlocks(prog, pos) : c.of < n /\ c.of \in 1..Len(prog)
  <2>1. "body" \in PartsOf(prog[n])
    BY <1>1 DEF PartsOf
  <2> DEFINE in == prog[n].in
  <2>2. /\ b \in Block(Len(prog)) /\ (IsBlock(prog, b) <=> "body" \in PartsOf(prog[n]))
        /\ TryBlocks(prog, b) = TryBlocks(prog, in) \cup {b} /\ Bodies(prog, b) = Bodies(prog, in) \cup {n}
        /\ Due(prog, b) = Due(prog, in) \cup (IF prog[n].fin THEN {n} ELSE {})
        /\ Framed(prog, b) = Framed(prog, in)
        /\ \A u \in Bodies(prog, in) \cup Due(prog, in) \cup Framed(prog, in) : u < n /\ u \in Nat /\ u \in 1..Len(prog)
        /\ \A c \in TryBlocks(prog, in) : c.of < n /\ c.of \in 1..Len(prog)
    BY <1>1, <1>2, IntoBody
  <2> HIDE DEF b
  <2> QED BY <1>1, <2>1, <2>2
<1>6. b.of = n /\ n \in Nat
  BY ProgramFacts
<1> HIDE DEF b, e, h, l
<1>7. /\ slot'[n] = l + 1 /\ \A t \in 1..Len(prog) : t # n => slot'[t] = slot[t]
      /\ env'[l + 1] = e /\ \A g \in 1..l : env'[g] = env[g]
  BY <1>3, <1>4
<1>8. RegistryOK(prog, Bodies(prog, pos) \cup {n}, l + 1, heap', slot', env', stack)
  <2> DEFINE B == Bodies(prog, pos)
             nl == slot'
  <2>1. /\ \A u \in B : u < n /\ u \in Nat
        /\ \A u \in B : nl[u] = slot[u]
        /\ nl[n] = l + 1
        /\ RegistryOK(prog, B, current, heap, slot, env, stack)
    <3>1. \A u \in B : u < n /\ u \in Nat /\ u \in 1..Len(prog)
      BY <1>5
    <3>2. \A u \in B : u # n
      BY <1>6, <3>1
    <3> QED BY <1>2, <1>7, <3>1, <3>2
  <2>2. Prefix(e.stack, stack) /\ Mirrors(e.stack, Framed(prog, prog[n].in))
    <3>1. Prefix(stack, stack)
      BY <1>4, PrefixSelf
    <3> QED BY <1>1, <1>2, <1>4, <3>1
  <2> HIDE DEF B, nl
  <2>3. RegistryOK(prog, B \cup {n}, Len(heap) + 1, Append(heap, h), nl, Append(env, e), stack)
    BY <1>4, <1>6, <2>1, <2>2, RegistryPush DEF l
  <2> QED BY <1>3, <2>3 DEF B, nl, l
<1>9. RanOK(prog, ran', slot', env', Due(prog, b))
  <2> DEFINE D == Due(prog, pos)
             C == Due(prog, b)
             nl == slot'
  <2>1. n \notin D /\ C = D \cup (IF prog[n].fin THEN {n} ELSE {})
    <3>1. \A u \in D : u < n /\ u \in Nat
      BY <1>5
    <3> QED BY <1>5, <1>6, <3>1
  <2>2. n \in DOMAIN slot /\ nl = [slot EXCEPT ![n] = Len(ran) + 1]
    BY <1>3, <1>4
  <2>3. \A g \in 1..Len(ran) : env[g].at \in DOMAIN slot
    <3> SUFFICES ASSUME NEW g \in 1..Len(ran) PROVE env[g].at \in DOMAIN slot
      OBVIOUS
    <3>1. env[g] \in EnvType(prog)
      BY <1>4
    <3> QED BY <1>4, <3>1 DEF EnvType
  <2>4. RanOK(prog, ran, slot, env, D)
    BY DEF NestInv
  <2> HIDE DEF D, C, nl
  <2>5. RanOK(prog, Append(ran, 0), nl, Append(env, e), C)
    BY <1>4, <2>1, <2>2, <2>3, <2>4, RanPush
  <2> QED BY <1>3, <2>5 DEF C, nl
<1>10. \A t \in 1..Len(prog) : slot'[t] # 0 => env'[slot'[t]].at = t
  <2> SUFFICES ASSUME NEW t \in 1..Len(prog), slot'[t] # 0 PROVE env'[slot'[t]].at = t
    OBVIOUS
  <2>1. CASE t = n
    BY <1>4, <1>7, <2>1
  <2>2. CASE t # n
    <3>1. slot'[t] = slot[t] /\ slot[t] # 0 /\ slot[t] \in 0..l
      BY <1>4, <1>7, <2>2
    <3>2. env[slot[t]].at = t
      BY <1>2, <3>1 DEF NestInv, RunningOK
    <3>3. slot[t] \in 1..l
      BY <1>4, <3>1
    <3> QED BY <1>7, <3>1, <3>2, <3>3
  <2> QED BY <2>1, <2>2
<1>11. \A c \in TryBlocks(prog, b) : slot'[c.of] # 0
  <2> SUFFICES ASSUME NEW c \in TryBlocks(prog, b) PROVE slot'[c.of] # 0
    OBVIOUS
  <2>1. CASE c = b
    BY <1>4, <1>6, <1>7, <2>1
  <2>2. CASE c \in TryBlocks(prog, pos)
    <3>1. c.of # n /\ c.of \in 1..Len(prog)
      BY <1>5, <1>6, <2>2
    <3> QED BY <1>2, <1>7, <2>2, <3>1
  <2> QED BY <1>5, <2>1, <2>2
<1>12. WorkOK(prog, work', pos') /\ Outside(prog, work', pos') = b
  BY <1>3, RunningSound
<1>13. RunningOK'
  <2>1. RegistryOK(prog, Bodies(prog, Outside(prog, work', pos')), current', heap', slot', env', stack')
    BY <1>3, <1>5, <1>8, <1>12
  <2>2. Mirrors(stack', Framed(prog, pos')) /\ \A i \in 1..Len(stack') : FrameOK(prog, stack'[i])
    BY <1>2, <1>3, <1>5
  <2> QED BY <1>3, <1>10, <1>11, <1>12, <2>1, <2>2 DEF RunningOK
<1> HIDE DEF RunningOK
<1>14. status' = "running" /\ prog' = prog /\ pos' = b
  BY <1>2, <1>3
<1> QED BY <1>5, <1>9, <1>13, <1>14 DEF NestInv
-----------------------------------------------------------------------------
(* aym_try_pop on the handler of the innermost body. *)
LEMMA PopNest ==
  ASSUME TypeInv, NEW B, NEW t \in B, \A u \in B : u \in Nat /\ u <= t,
         RegistryOK(prog, B, current, heap, slot, env, stack)
  PROVE  /\ IsLive(slot[t])
         /\ TryPop(slot[t]) =>
              RegistryOK(prog, {u \in B : u < t}, current', heap', slot, env, stack)
<1>1. slot[t] \in 1..Len(heap) /\ heap[slot[t]].live /\ At(slot[t]) = slot[t]
  BY Dereference DEF RegistryOK, HeldOK
<1>2. IsLive(slot[t])
  BY <1>1 DEF IsLive
<1>3. ASSUME TryPop(slot[t])
      PROVE  RegistryOK(prog, {u \in B : u < t}, current', heap', slot, env, stack)
  <2> DEFINE hq == heap'
             cq == current'
  <2>1. /\ Len(hq) = Len(heap)
        /\ \A i \in 1..Len(heap) : i # slot[t] => hq[i] = heap[i]
    BY <1>1, <1>3 DEF TryPop, TypeInv
  <2>2. current = slot[t] => cq = heap[slot[t]].prev
    BY <1>1, <1>3 DEF TryPop, SamePointer, NULL
  <2> HIDE DEF hq, cq
  <2>3. RegistryOK(prog, {u \in B : u < t}, cq, hq, slot, env, stack)
    BY <2>1, <2>2, RegistryPop
  <2> QED BY <2>3 DEF hq, cq
<1> QED BY <1>2, <1>3

(* What the innermost body is, when control is in it. *)
LEMMA InBody ==
  ASSUME NEW p, WellFormed(p), NEW b \in Block(Len(p)), IsBlock(p, b), IsTry(p, b), b.part = "body"
  PROVE  /\ b.of \in 1..Len(p) /\ b.of \in Bodies(p, b)
         /\ \A u \in Bodies(p, b) : u \in Nat /\ u <= b.of
         /\ {u \in Bodies(p, b) : u < b.of} = Bodies(p, p[b.of].in)
<1>1. b.of # 0 /\ b \in Around(p, b)
  BY BlockItself DEF IsTry, KindOf
<1>2. b.of \in 1..Len(p) /\ b.of \in Bodies(p, b)
  BY <1>1, BlockType DEF Bodies, TryBlocks
<1>3. \A u \in Bodies(p, b) : u \in Nat /\ u <= b.of
  BY BlockType DEF Bodies, TryBlocks
<1>4. Bodies(p, p[b.of].in) = {u \in Bodies(p, b) : u < b.of}
  BY <1>1, Outward
<1> QED BY <1>2, <1>3, <1>4

(* A body ends: aym_try_pop of its slot, which names the current handler   *)
(* when no exit has leaked one.                                            *)
LEMMA EndTryBodyNest ==
  ASSUME TypeInv, NestInv, EndTryBody
  PROVE  NestInv'
<1>1. Executing /\ KindOf(prog, pos) = "try" /\ IsTry(prog, pos) /\ pos.part = "body"
  BY DEF EndTryBody, EndsBlock, IsTry
<1>2. /\ WellFormed(prog) /\ status = "running" /\ work = Running
      /\ pos \in Block(Len(prog)) /\ IsBlock(prog, pos)
      /\ RegistryOK(prog, Bodies(prog, pos), current, heap, slot, env, stack)
      /\ Mirrors(stack, Framed(prog, pos))
      /\ \A i \in 1..Len(stack) : FrameOK(prog, stack[i])
  BY <1>1, Execute
<1> DEFINE t == pos.of
           B == Bodies(prog, pos)
           w == Work(OwnFinally(pos.of), "fall", pos.of, 0)
<1>3. /\ t \in 1..Len(prog) /\ t \in B
      /\ \A u \in B : u \in Nat /\ u <= t
      /\ {u \in B : u < t} = Bodies(prog, prog[t].in)
  BY <1>1, <1>2, InBody
<1>4. w.goal = "fall" /\ w.to = t /\ FallOK(prog, w, pos)
  BY <1>1, <1>2, OwnFall
<1>5. /\ IsLive(slot[t])
      /\ TryPop(slot[t]) =>
           RegistryOK(prog, {u \in B : u < t}, current', heap', slot, env, stack)
  <2> HIDE DEF B, t
  <2>1. \A u \in B : u \in Nat /\ u <= t
    BY <1>3
  <2>2. RegistryOK(prog, B, current, heap, slot, env, stack)
    BY <1>2 DEF B
  <2> QED BY <1>3, <2>1, <2>2, PopNest
<1>6. TryPop(slot[t]) /\ work' = w /\ UNCHANGED <<prog, pos, last, stack, slot, env, ran, status>>
  BY <1>5 DEF EndTryBody
<1> HIDE DEF w, B, t
<1>7. WorkOK(prog, w, pos) /\ Outside(prog, w, pos) = prog[t].in
  BY <1>4 DEF WorkOK, Outside, Exits
<1>8. RegistryOK(prog, Bodies(prog, Outside(prog, work', pos')), current', heap', slot, env, stack')
  BY <1>3, <1>5, <1>6, <1>7
<1>9. WorkOK(prog, work', pos')
  BY <1>6, <1>7
<1>10. /\ Mirrors(stack', Framed(prog, pos')) /\ \A i \in 1..Len(stack') : FrameOK(prog, stack'[i])
       /\ IsBlock(prog, pos') /\ Due(prog, pos') = Due(prog, pos)
       /\ \A c \in TryBlocks(prog, pos') : \E d \in TryBlocks(prog, pos) : d.of = c.of
  BY <1>2, <1>6
<1>11. UNCHANGED <<prog, slot, env, ran, status>>
  BY <1>6
<1> QED BY <1>2, <1>8, <1>9, <1>10, <1>11, ChangeNest

(* A tukuyawi is run: it is due no longer. *)
LEMMA RanMark ==
  ASSUME NEW p, NEW rn \in Seq(0..2), NEW sl, NEW en, NEW D, NEW t \in D, p[t].fin,
         \A u \in D : u \in Nat /\ u <= t,
         sl[t] \in 1..Len(rn), en[sl[t]].at = t,
         NEW C, C = {u \in D : u < t},
         RanOK(p, rn, sl, en, D)
  PROVE  RanOK(p, [rn EXCEPT ![sl[t]] = Min({2, @ + 1})], sl, en, C)
<1> DEFINE g == sl[t]
           l == Len(rn)
           rq == [rn EXCEPT ![g] = Min({2, @ + 1})]
<1>1. \A h \in 1..l : rn[h] = IF ~p[en[h].at].fin \/ (sl[en[h].at] = h /\ en[h].at \in D) THEN 0 ELSE 1
  BY DEF RanOK
<1>2. rn[g] = 0 /\ g \in 1..l /\ rn[g] \in 0..2
  BY <1>1
<1>3. Len(rq) = l /\ rq[g] = Min({2, rn[g] + 1}) /\ \A h \in 1..l : h # g => rq[h] = rn[h]
  <2> DEFINE m == Min({2, rn[g] + 1})
             rm == [rn EXCEPT ![g] = m]
  <2> HIDE DEF m, g
  <2>1. Len(rm) = l /\ rm[g] = m /\ \A h \in 1..l : h # g => rm[h] = rn[h]
    BY <1>2
  <2> QED BY <2>1 DEF m
<1>4. rq[g] = 1
  <2> DEFINE x == rn[g]
  <2>1. x \in 0..2 /\ x = 0
    BY <1>2
  <2> HIDE DEF x
  <2>2. Min({2, x + 1}) = 1
    BY <2>1, MinTwo
  <2> QED BY <1>3, <2>2 DEF x
<1>5. t \notin C /\ \A u \in D : u # t => u \in C
  OBVIOUS
<1> HIDE DEF rq, l
<1> SUFFICES ASSUME NEW h \in 1..l
             PROVE  rq[h] = IF ~p[en[h].at].fin \/ (sl[en[h].at] = h /\ en[h].at \in C) THEN 0 ELSE 1
  BY <1>3 DEF RanOK, rq
<1>6. CASE h = g
  BY <1>4, <1>5, <1>6
<1>7. CASE h # g
  <2> DEFINE s == en[h].at
  <2>1. rq[h] = IF ~p[s].fin \/ (sl[s] = h /\ s \in D) THEN 0 ELSE 1
    BY <1>1, <1>3, <1>7
  <2> HIDE DEF s
  <2>2. (sl[s] = h /\ s \in D) <=> (sl[s] = h /\ s \in C)
    BY <1>5, <1>7
  <2> QED BY <2>1, <2>2 DEF s
<1> QED BY <1>6, <1>7

(* A finally subroutine is called: the innermost that is due, and it is    *)
(* due no longer.                                                          *)
LEMMA CallFinallyNest ==
  ASSUME TypeInv, NestInv, CallFinally
  PROVE  NestInv'
<1> DEFINE w == work
           t == Head(work.todo)
           v == Work(Tail(work.todo), work.goal, work.to, work.exc)
           in == prog[t].in
           e == Frame("fin", t, v)
           b == [of |-> t, part |-> "fin"]
<1>1. status = "running" /\ w.todo # << >> /\ w \in WorkType(prog) /\ WellFormed(prog)
      /\ pos \in Block(Len(prog)) /\ IsBlock(prog, pos) /\ stack \in Seq(FrameType(prog))
  BY ProgramFacts DEF CallFinally, TypeInv, NestInv
<1>2. /\ RegistryOK(prog, Bodies(prog, Outside(prog, w, pos)), current, heap, slot, env, stack)
      /\ WorkOK(prog, w, pos)
      /\ Mirrors(stack, Framed(prog, pos))
      /\ \A i \in 1..Len(stack) : FrameOK(prog, stack[i])
      /\ \A u \in 1..Len(prog) : slot[u] # 0 => env[slot[u]].at = u
      /\ \A c \in TryBlocks(prog, pos) : slot[c.of] # 0
      /\ RanOK(prog, ran, slot, env, Due(prog, pos))
  BY <1>1 DEF NestInv, RunningOK
<1>3. [work EXCEPT !.todo = Tail(@)] = v
  <2>1. work \in [todo : Seq(Finallys(prog)), goal : Goals, to : 0..Len(prog), exc : 0..Len(prog)]
    BY <1>1 DEF WorkType
  <2> DEFINE A == Seq(Finallys(prog))
             C == 0..Len(prog)
             x == Tail(work.todo)
             then == [work EXCEPT !.todo = x]
  <2>2. work \in [todo : A, goal : Goals, to : C, exc : C] /\ then = [work EXCEPT !.todo = x]
    BY <2>1
  <2> HIDE DEF A, C, x, then
  <2>3. then = Work(x, work.goal, work.to, work.exc)
    BY ONLY <2>2, ReplaceTodo
  <2> QED BY <2>3 DEF then, x
<1>4. /\ stack' = Append(stack, e) /\ pos' = b /\ work' = Running
      /\ ran' = [ran EXCEPT ![slot[t]] = Min({2, @ + 1})]
      /\ UNCHANGED <<heap, current, prog, slot, env, status>>
  <2> HIDE DEF v
  <2> QED BY <1>3 DEF CallFinally, GoTo, chainVars
<1>5. /\ t \in Due(prog, pos)
      /\ \A u \in Due(prog, pos) : u <= t
      /\ \A u \in Framed(prog, pos) : u < t
      /\ Further(prog, Bodies(prog, in), Bodies(prog, Outside(prog, w, pos)))
      /\ v.goal \notin {"run", "caught"} /\ WorkOK(prog, v, in)
      /\ Bodies(prog, Outside(prog, v, in)) = Bodies(prog, in)
  <2> DEFINE tt == t
             vv == v
  <2>1. tt = Head(w.todo) /\ vv = Work(Tail(w.todo), w.goal, w.to, w.exc)
    OBVIOUS
  <2> HIDE DEF tt, vv, w
  <2>2. /\ tt \in Due(prog, pos)
        /\ \A u \in Due(prog, pos) : u <= tt
        /\ \A u \in Framed(prog, pos) : u < tt
        /\ Further(prog, Bodies(prog, prog[tt].in), Bodies(prog, Outside(prog, w, pos)))
        /\ vv.goal \notin {"run", "caught"} /\ WorkOK(prog, vv, prog[tt].in)
        /\ Bodies(prog, Outside(prog, vv, prog[tt].in)) = Bodies(prog, prog[tt].in)
    <3>1. w.todo # << >> /\ w \in WorkType(prog) /\ WorkOK(prog, w, pos)
      BY <1>1, <1>2
    <3> QED BY ONLY <1>1, <2>1, <3>1, NextFinally
  <2> QED BY <2>2 DEF tt, vv
<1>6. v \in WorkType(prog)
  <2>1. /\ work.todo \in Seq(Finallys(prog)) /\ work.goal \in Goals /\ work.to \in 0..Len(prog)
        /\ work.exc \in 0..Len(prog) /\ (work.goal \in {"run", "throw"} \/ work.to # 0)
    BY <1>1 DEF WorkType
  <2>2. Tail(work.todo) \in Seq(Finallys(prog))
    BY <1>1, <2>1, HeadTail
  <2> QED BY <2>1, <2>2, WorkIsType
<1> HIDE DEF t, v, w
<1>7. PICK c \in Around(prog, pos) :
        /\ c.of = t /\ IsTry(prog, c) /\ t \in 1..Len(prog) /\ prog[t].fin /\ prog[t].kind = "try"
  <2>1. t \in Due(prog, pos)
    BY <1>5
  <2>2. WellFormed(prog) /\ pos \in Block(Len(prog)) /\ IsBlock(prog, pos)
    BY <1>1
  <2> QED BY ONLY <2>1, <2>2, DueBlock
<1>8. c.of # 0 /\ c \in TryBlocks(prog, pos)
  BY <1>7 DEF IsTry, KindOf, TryBlocks
<1>9. /\ TryBlocks(prog, in) = {d \in TryBlocks(prog, pos) : d.of < t}
      /\ Due(prog, in) = {u \in Due(prog, pos) : u < t}
      /\ Framed(prog, in) = {u \in Framed(prog, pos) : u < t}
  BY <1>1, <1>7, <1>8, Outward
<1>10. /\ IsBlock(prog, b) /\ b.of = t
       /\ TryBlocks(prog, b) = TryBlocks(prog, in) \cup {b} /\ Bodies(prog, b) = Bodies(prog, in)
       /\ Due(prog, b) = Due(prog, in) /\ Framed(prog, b) = Framed(prog, in) \cup {t}
  <2>1. "fin" \in PartsOf(prog[t])
    BY <1>7 DEF PartsOf
  <2> QED BY <1>1, <1>7, <2>1, IntoFin
<1>11. /\ e \in FrameType(prog) /\ e.of = t /\ e.kind = "fin" /\ e.then = v
  BY <1>6, <1>7, ProgramFacts DEF Frame, FrameType
<1>12. FrameOK(prog, e)
  BY <1>5, <1>7, <1>11 DEF FrameOK
<1> HIDE DEF e, b, in
<1>13. Framed(prog, in) = Framed(prog, pos)
  BY <1>5, <1>9
<1>14. Mirrors(stack', Framed(prog, b))
  <2> DEFINE S == Framed(prog, pos)
             T == Framed(prog, b)
  <2>1. T = S \cup {e.of} /\ (\A u \in S : u < e.of) /\ Mirrors(stack, S)
    BY <1>2, <1>5, <1>10, <1>11, <1>13
  <2> HIDE DEF S, T
  <2>2. Mirrors(Append(stack, e), T)
    BY <1>1, <1>11, <2>1, MirrorsAppend
  <2> QED BY <1>4, <2>2 DEF T
<1>15. \A i \in 1..Len(stack') : FrameOK(prog, stack'[i])
  <2> SUFFICES ASSUME NEW i \in 1..Len(stack') PROVE FrameOK(prog, stack'[i])
    OBVIOUS
  <2>1. (i \in 1..Len(stack) /\ stack'[i] = stack[i]) \/ stack'[i] = e
    BY <1>1, <1>4, <1>11
  <2> QED BY <1>2, <1>12, <2>1
<1>16. RegistryOK(prog, Bodies(prog, b), current, heap, slot, env, stack')
  <2> DEFINE B == Bodies(prog, b)
  <2>1. RegistryOK(prog, B, current, heap, slot, env, stack)
    <3> DEFINE A == Bodies(prog, Outside(prog, w, pos))
    <3>1. Further(prog, B, A) /\ RegistryOK(prog, A, current, heap, slot, env, stack)
      BY <1>2, <1>5, <1>10 DEF in
    <3> HIDE DEF A, B
    <3> QED BY <3>1, RegistryLess
  <2> HIDE DEF B
  <2>2. RegistryOK(prog, B, current, heap, slot, env, Append(stack, e))
    BY <1>11, <2>1, RegistryAppend
  <2> QED BY <1>4, <2>2 DEF B
<1>17. slot[t] \in 1..Len(ran) /\ env[slot[t]].at = t
  <2>1. slot[t] # 0
    BY <1>2, <1>7, <1>8
  <2>2. slot[t] \in 0..Len(heap) /\ Len(ran) = Len(heap) /\ Len(heap) \in Nat
    BY <1>7, ProgramFacts DEF TypeInv
  <2> QED BY <1>2, <1>7, <2>1, <2>2
<1>18. RanOK(prog, ran', slot, env, Due(prog, b))
  <2> DEFINE D == Due(prog, pos)
             C == Due(prog, b)
  <2>1. C = {u \in D : u < t}
    BY <1>9, <1>10
  <2>2. \A u \in D : u \in Nat /\ u <= t
    <3>1. \A u \in D : u \in 1..Len(prog)
      BY <1>1, MemberBlock
    <3> QED BY <1>5, <3>1, ProgramFacts
  <2>3. t \in D /\ RanOK(prog, ran, slot, env, D) /\ ran \in Seq(0..2)
    BY <1>2, <1>5 DEF TypeInv
  <2> HIDE DEF C, D
  <2>4. RanOK(prog, [ran EXCEPT ![slot[t]] = Min({2, @ + 1})], slot, env, C)
    BY <1>7, <1>17, <2>1, <2>2, <2>3, RanMark
  <2> QED BY <1>4, <2>4 DEF C
<1>19. \A d \in TryBlocks(prog, b) : slot[d.of] # 0
  BY <1>2, <1>7, <1>8, <1>9, <1>10
<1>20. RunningOK'
  <2>1. WorkOK(prog, work', pos') /\ Outside(prog, work', pos') = b
    BY <1>4, RunningSound
  <2>2. RegistryOK(prog, Bodies(prog, Outside(prog, work', pos')), current', heap', slot', env', stack')
    BY <1>4, <1>16, <2>1
  <2>3. /\ Mirrors(stack', Framed(prog, pos'))
        /\ \A u \in 1..Len(prog) : slot'[u] # 0 => env'[slot'[u]].at = u
        /\ \A d \in TryBlocks(prog, pos') : slot'[d.of] # 0
    BY <1>2, <1>4, <1>14, <1>19
  <2>4. prog' = prog
    BY <1>4
  <2> QED BY <1>15, <2>1, <2>2, <2>3, <2>4 DEF RunningOK
<1> HIDE DEF RunningOK
<1>21. /\ status' = "running" /\ prog' = prog /\ pos' = b /\ slot' = slot /\ env' = env
  BY <1>1, <1>4
<1> QED BY <1>10, <1>18, <1>20, <1>21 DEF NestInv
-----------------------------------------------------------------------------
(* The top of the stack belongs to the innermost frame, and below it are   *)
(* the frames further out.                                                 *)
LEMMA ReturnStack ==
  ASSUME TypeInv, NEW S, \A u \in S : u \in Nat, NEW f \in S, \A u \in S : u <= f,
         Mirrors(stack, S), \A i \in 1..Len(stack) : FrameOK(prog, stack[i]),
         NEW B, \A t \in B : t \in 1..Len(prog) /\ t <= f,
         RegistryOK(prog, B, current, heap, slot, env, stack)
  PROVE  /\ stack # << >> /\ Last(stack).of = f /\ FrameOK(prog, Last(stack))
         /\ Mirrors(Front(stack), {u \in S : u < f})
         /\ \A i \in 1..Len(Front(stack)) : FrameOK(prog, Front(stack)[i])
         /\ RegistryOK(prog, B, current, heap, slot, env, Front(stack))
<1>1. WellFormed(prog) /\ stack \in Seq(FrameType(prog)) /\ Len(stack) \in Nat
  <2>1. WellFormed(prog)
    BY ProgramFacts
  <2>2. stack \in Seq(FrameType(prog))
    BY DEF TypeInv
  <2> QED BY ONLY <2>1, <2>2
<1>2. stack # << >>
  <2>1. \E i \in 1..Len(stack) : stack[i].of = f
    BY DEF Mirrors
  <2> QED BY <1>1, <2>1
<1>3. /\ Front(stack) \in Seq(FrameType(prog))
      /\ Last(stack) = stack[Len(stack)] /\ Len(stack) \in Nat \ {0}
      /\ Len(Front(stack)) = Len(stack) - 1
      /\ \A i \in 1..(Len(stack) - 1) : Front(stack)[i] = stack[i]
  BY <1>2, TopFrame
<1> DEFINE q == Front(stack)
           R == FrameType(prog)
<1> HIDE DEF q, R
<1>4. /\ stack[Len(stack)].of = f
      /\ Mirrors(q, {u \in S : u < f})
      /\ \A r \in Seq(R) : \A Q : (\A u \in Q : u < f) /\ Prefix(r, stack) /\ Mirrors(r, Q) => Prefix(r, q)
  <2>1. stack \in Seq(R) /\ q \in Seq(R) /\ Len(q) = Len(stack) - 1
        /\ \A i \in 1..(Len(stack) - 1) : q[i] = stack[i]
    BY <1>1, <1>3 DEF q, R
  <2> DEFINE st == stack
  <2>2. /\ st \in Seq(R) /\ q \in Seq(R) /\ Len(q) = Len(st) - 1
        /\ \A i \in 1..(Len(st) - 1) : q[i] = st[i]
        /\ \A u \in S : u \in Nat
        /\ f \in S /\ \A u \in S : u <= f
        /\ Mirrors(st, S)
    BY <2>1
  <2> HIDE DEF st
  <2>3. /\ st # << >> /\ st[Len(st)].of = f
        /\ Mirrors(q, {u \in S : u < f})
        /\ \A r \in Seq(R) : \A Q : (\A u \in Q : u < f) /\ Prefix(r, st) /\ Mirrors(r, Q) => Prefix(r, q)
    BY ONLY <2>2, MirrorsFront
  <2> QED BY <2>3 DEF st
<1>5. FrameOK(prog, Last(stack)) /\ \A i \in 1..Len(q) : FrameOK(prog, q[i])
  <2>1. Len(stack) \in 1..Len(stack) /\ \A i \in 1..Len(q) : i \in 1..Len(stack) /\ i \in 1..(Len(stack) - 1)
    BY <1>3 DEF q
  <2> QED BY <1>3, <2>1 DEF q
<1>6. RegistryOK(prog, B, current, heap, slot, env, q)
  <2> SUFFICES ASSUME LeavesNoBody(prog), NEW t \in B PROVE Prefix(env[slot[t]].stack, q)
    BY RegistryStack
  <2> DEFINE r == env[slot[t]].stack
             Q == Framed(prog, prog[t].in)
  <2>1. Prefix(r, stack) /\ Mirrors(r, Q) /\ slot[t] \in 1..Len(heap)
    BY DEF RegistryOK, LinkedOK
  <2>2. r \in Seq(R)
    BY <2>1, HandlerStack DEF R
  <2>3. \A u \in Q : u < f
    <3>1. t \in 1..Len(prog) /\ t <= f /\ f \in Nat /\ t \in Nat
      BY <1>1 DEF WellFormed
    <3>2. "body" \in {"body", "catch", "fin", "kuna", "yaqha"}
      OBVIOUS
    <3>3. \A u \in Q : u < t /\ u \in Nat
      BY <1>1, <3>1, <3>2, Into
    <3> QED BY <3>1, <3>3
  <2> HIDE DEF r, Q
  <2> QED BY <1>4, <2>1, <2>2, <2>3 DEF r
<1> QED BY <1>2, <1>3, <1>4, <1>5, <1>6 DEF q

(* The frames around a block that is a frame itself. *)
LEMMA InFrame ==
  ASSUME NEW p, WellFormed(p), NEW b \in Block(Len(p)), IsBlock(p, b), FrameOf(p, b)
  PROVE  LET in == p[b.of].in IN
         /\ b.of \in 1..Len(p) /\ b.of \in Framed(p, b)
         /\ \A u \in Framed(p, b) : u \in Nat /\ u <= b.of
         /\ in \in Block(Len(p)) /\ IsBlock(p, in)
         /\ Framed(p, in) = {u \in Framed(p, b) : u < b.of}
         /\ Bodies(p, in) = Bodies(p, b) /\ Due(p, in) = Due(p, b)
         /\ \A t \in Bodies(p, b) : t \in 1..Len(p) /\ t <= b.of
         /\ TryBlocks(p, in) \subseteq TryBlocks(p, b)
<1> DEFINE in == p[b.of].in
<1>1. b.of # 0 /\ b \in Around(p, b) /\ ~(IsTry(p, b) /\ b.part \in {"body", "catch"})
  BY BlockItself DEF IsTry, KindOf, FrameOf
<1>2. b.of \in 1..Len(p) /\ b.of \in Framed(p, b)
  BY <1>1, BlockType DEF Framed
<1>3. \A c \in Around(p, b) : c.of \in Nat /\ c.of <= b.of
  BY BlockType
<1>4. \A u \in Framed(p, b) : u \in Nat /\ u <= b.of
  BY <1>3 DEF Framed
<1>5. /\ in \in Block(Len(p)) /\ IsBlock(p, in)
      /\ Framed(p, in) = {u \in Framed(p, b) : u < b.of}
      /\ TryBlocks(p, in) = {c \in TryBlocks(p, b) : c.of < b.of}
  BY <1>1, Outward
<1>6. Bodies(p, in) = Bodies(p, b)
  BY <1>1, BodiesSame
<1>7. Due(p, in) = Due(p, b)
  <2>1. Due(p, b) = Due(p, in) \cup (IF OnFinallyStack(p, b) THEN {b.of} ELSE {})
    BY <1>1, Inward
  <2>2. ~OnFinallyStack(p, b)
    BY <1>1 DEF OnFinallyStack
  <2> HIDE DEF in
  <2> QED BY <2>1, <2>2
<1>8. \A t \in Bodies(p, b) : t \in 1..Len(p) /\ t <= b.of
  <2>1. \A t \in Bodies(p, b) : t \in 1..Len(p)
    BY MemberBlock
  <2>2. \A t \in Bodies(p, b) : t <= b.of
    BY <1>3 DEF Bodies, TryBlocks
  <2> QED BY <2>1, <2>2
<1> HIDE DEF in
<1>9. TryBlocks(p, in) \subseteq TryBlocks(p, b)
  BY <1>5
<1> QED BY <1>2, <1>4, <1>5, <1>6, <1>7, <1>8, <1>9 DEF in

(* It returns, to sound code where its try stands. *)
LEMMA EndFinallyNest ==
  ASSUME TypeInv, NestInv, EndFinally
  PROVE  NestInv'
<1> DEFINE t == pos.of
           in == prog[t].in
           v == Last(stack).then
<1>1. Executing /\ KindOf(prog, pos) = "try" /\ IsTry(prog, pos) /\ pos.part = "fin"
  BY DEF EndFinally, EndsBlock, IsTry
<1>2. /\ WellFormed(prog) /\ status = "running" /\ work = Running
      /\ pos \in Block(Len(prog)) /\ IsBlock(prog, pos)
      /\ RegistryOK(prog, Bodies(prog, pos), current, heap, slot, env, stack)
      /\ Mirrors(stack, Framed(prog, pos))
      /\ \A i \in 1..Len(stack) : FrameOK(prog, stack[i])
  BY <1>1, Execute
<1>3. /\ t \in 1..Len(prog) /\ t \in Framed(prog, pos)
      /\ \A u \in Framed(prog, pos) : u \in Nat /\ u <= t
      /\ in \in Block(Len(prog)) /\ IsBlock(prog, in)
      /\ Framed(prog, in) = {u \in Framed(prog, pos) : u < t}
      /\ Bodies(prog, in) = Bodies(prog, pos) /\ Due(prog, in) = Due(prog, pos)
      /\ \A u \in Bodies(prog, pos) : u \in 1..Len(prog) /\ u <= t
      /\ TryBlocks(prog, in) \subseteq TryBlocks(prog, pos)
  BY <1>1, <1>2, InFrame DEF FrameOf
<1> DEFINE S == Framed(prog, pos)
           B == Bodies(prog, pos)
<1>4. /\ stack # << >> /\ Last(stack).of = t /\ FrameOK(prog, Last(stack))
      /\ Mirrors(Front(stack), {u \in S : u < t})
      /\ \A i \in 1..Len(Front(stack)) : FrameOK(prog, Front(stack)[i])
      /\ RegistryOK(prog, B, current, heap, slot, env, Front(stack))
  <2>1. /\ \A u \in S : u \in Nat
        /\ t \in S /\ \A u \in S : u <= t
        /\ Mirrors(stack, S)
        /\ \A u \in B : u \in 1..Len(prog) /\ u <= t
        /\ RegistryOK(prog, B, current, heap, slot, env, stack)
    BY <1>2, <1>3
  <2> HIDE DEF S, B, t
  <2> QED BY <1>2, <2>1, ReturnStack
<1>5. prog[t].kind = "try"
  BY <1>1, <1>2, BlockParts
<1>6. /\ Last(stack).kind = "fin" /\ v.goal \notin {"run", "caught"} /\ WorkOK(prog, v, in)
      /\ Bodies(prog, Outside(prog, v, in)) = Bodies(prog, in)
  BY <1>4, <1>5 DEF FrameOK
<1>7. work' = v /\ stack' = Front(stack) /\ pos' = in
      /\ UNCHANGED <<heap, current, prog, slot, env, ran, status>>
  BY <1>4, <1>6 DEF EndFinally, OnTop, AfterStmt, GoTo, chainVars
<1> HIDE DEF v, in, t
<1>8. RegistryOK(prog, Bodies(prog, Outside(prog, work', pos')), current, heap, slot, env, stack')
  BY <1>3, <1>4, <1>6, <1>7
<1>9. WorkOK(prog, work', pos') /\ Mirrors(stack', Framed(prog, pos'))
  BY <1>3, <1>4, <1>6, <1>7
<1>10. \A i \in 1..Len(stack') : FrameOK(prog, stack'[i])
  BY <1>4, <1>7
<1>11. /\ IsBlock(prog, pos') /\ Due(prog, pos') = Due(prog, pos)
       /\ \A c \in TryBlocks(prog, pos') : \E d \in TryBlocks(prog, pos) : d.of = c.of
  BY <1>3, <1>7
<1> QED BY <1>2, <1>7, <1>8, <1>9, <1>10, <1>11, MoveNest

(* endfunc, for the innermost function that has not returned. *)
LEMMA EpilogueNest ==
  ASSUME TypeInv, NestInv, status = "running", NEW f \in 1..Len(prog), Epilogue(f),
         prog[f].kind = "call", f \in Framed(prog, pos),
         \A u \in Framed(prog, pos) : u \in Nat /\ u <= f,
         NEW in, in = prog[f].in, IsBlock(prog, in),
         Framed(prog, in) = {u \in Framed(prog, pos) : u < f},
         Further(prog, Bodies(prog, in), Bodies(prog, Outside(prog, work, pos))),
         Due(prog, in) = Due(prog, pos),
         \A t \in Bodies(prog, in) : t \in 1..Len(prog) /\ t <= f,
         TryBlocks(prog, in) \subseteq TryBlocks(prog, pos)
  PROVE  NestInv'
<1> DEFINE S == Framed(prog, pos)
           B == Bodies(prog, in)
<1>1. /\ RegistryOK(prog, B, current, heap, slot, env, stack)
      /\ Mirrors(stack, S)
      /\ \A i \in 1..Len(stack) : FrameOK(prog, stack[i])
  <2> DEFINE A == Bodies(prog, Outside(prog, work, pos))
  <2>1. Further(prog, B, A) /\ RegistryOK(prog, A, current, heap, slot, env, stack)
    BY DEF NestInv, RunningOK
  <2> HIDE DEF A, B
  <2>2. RegistryOK(prog, B, current, heap, slot, env, stack)
    BY <2>1, RegistryLess
  <2> QED BY <2>2 DEF NestInv, RunningOK
<1>2. /\ stack # << >> /\ Last(stack).of = f /\ FrameOK(prog, Last(stack))
      /\ Mirrors(Front(stack), {u \in S : u < f})
      /\ \A i \in 1..Len(Front(stack)) : FrameOK(prog, Front(stack)[i])
      /\ RegistryOK(prog, B, current, heap, slot, env, Front(stack))
  <2>1. /\ \A u \in S : u \in Nat
        /\ f \in S /\ \A u \in S : u <= f
        /\ \A u \in B : u \in 1..Len(prog) /\ u <= f
    OBVIOUS
  <2> HIDE DEF S, B
  <2> QED BY <1>1, <2>1, ReturnStack
<1>3. Last(stack).kind = "call"
  BY <1>2 DEF FrameOK
<1>4. work' = Running /\ stack' = Front(stack) /\ pos' = in
      /\ UNCHANGED <<heap, current, prog, slot, env, ran, status>>
  BY <1>2, <1>3 DEF Epilogue, OnTop, AfterStmt, GoTo, chainVars
<1>5. WorkOK(prog, work', pos') /\ Outside(prog, work', pos') = in
  BY <1>4, RunningSound
<1>6. RegistryOK(prog, Bodies(prog, Outside(prog, work', pos')), current, heap, slot, env, stack')
  BY <1>2, <1>4, <1>5
<1>7. Mirrors(stack', Framed(prog, pos'))
  BY <1>2, <1>4
<1>8. \A i \in 1..Len(stack') : FrameOK(prog, stack'[i])
  BY <1>2, <1>4
<1>9. /\ IsBlock(prog, pos') /\ Due(prog, pos') = Due(prog, pos)
      /\ \A c \in TryBlocks(prog, pos') : \E d \in TryBlocks(prog, pos) : d.of = c.of
  BY <1>4
<1> QED BY <1>4, <1>5, <1>6, <1>7, <1>8, <1>9, MoveNest

(* What an exit that has run its tukuyawi leaves. *)
LEMMA Exiting ==
  ASSUME TypeInv, NestInv, status = "running", work.goal \in Exits, work.todo = << >>,
         NEW in, in = prog[work.to].in
  PROVE  /\ WellFormed(prog) /\ work.to \in 1..Len(prog)
         /\ IsBlock(prog, in) /\ Due(prog, in) = Due(prog, pos)
         /\ Further(prog, Bodies(prog, in), Bodies(prog, Outside(prog, work, pos)))
         /\ Framed(prog, in) = {u \in Framed(prog, pos) : u < work.to}
         /\ \A u \in Framed(prog, pos) : u \in Nat /\ u <= work.to
         /\ work.to \in Framed(prog, pos) <=> work.goal = "return"
         /\ prog[work.to].kind \in Leaves(work.goal)
         /\ TryBlocks(prog, in) \subseteq TryBlocks(prog, pos)
<1>1. WellFormed(prog) /\ pos \in Block(Len(prog)) /\ IsBlock(prog, pos)
  BY ProgramFacts DEF TypeInv, NestInv
<1>2. ExitOK(prog, work, pos)
  BY DEF NestInv, RunningOK, WorkOK
<1>3. Outside(prog, work, pos) = pos
  BY DEF Outside, Exits
<1>4. \A u \in Framed(prog, pos) : u \in Nat
  <2>1. \A u \in Framed(prog, pos) : u \in 1..Len(prog)
    BY <1>1, MemberBlock
  <2> QED BY <2>1, ProgramFacts
<1> DEFINE w == work
           d == prog[w.to].in
<1>5. w.goal \in Exits /\ ExitOK(prog, w, pos) /\ w.todo = << >>
  BY <1>2
<1> HIDE DEF w
<1>6. /\ w.to \in 1..Len(prog) /\ d \in Block(Len(prog)) /\ IsBlock(prog, d)
      /\ Due(prog, d) = Due(prog, pos) /\ Further(prog, Bodies(prog, d), Bodies(prog, pos))
      /\ Framed(prog, d) = {u \in Framed(prog, pos) : u < w.to}
      /\ \A u \in Framed(prog, pos) : u <= w.to
      /\ w.to \in Framed(prog, pos) <=> w.goal = "return"
      /\ prog[w.to].kind \in Leaves(w.goal)
      /\ TryBlocks(prog, d) \subseteq TryBlocks(prog, pos)
  BY <1>1, <1>5, ExitDone
<1>7. in = d
  BY DEF w
<1> QED BY <1>1, <1>3, <1>4, <1>6, <1>7 DEF w

(* A function ends, or returns once its tukuyawi blocks have run. *)
LEMMA FunctionsNest ==
  ASSUME TypeInv, NestInv, EndFunction \/ JumpToEpilogue
  PROVE  NestInv'
<1>1. CASE EndFunction
  <2> DEFINE f == pos.of
             in == prog[f].in
  <2>1. Executing /\ KindOf(prog, pos) = "call" /\ Epilogue(f)
    BY <1>1 DEF EndFunction, EndsBlock
  <2>2. /\ WellFormed(prog) /\ status = "running" /\ Outside(prog, work, pos) = pos
        /\ pos \in Block(Len(prog)) /\ IsBlock(prog, pos)
    BY <2>1, Execute
  <2>3. /\ f \in 1..Len(prog) /\ f \in Framed(prog, pos)
        /\ \A u \in Framed(prog, pos) : u \in Nat /\ u <= f
        /\ in \in Block(Len(prog)) /\ IsBlock(prog, in)
        /\ Framed(prog, in) = {u \in Framed(prog, pos) : u < f}
        /\ Bodies(prog, in) = Bodies(prog, pos) /\ Due(prog, in) = Due(prog, pos)
        /\ \A t \in Bodies(prog, pos) : t \in 1..Len(prog) /\ t <= f
        /\ TryBlocks(prog, in) \subseteq TryBlocks(prog, pos)
    BY <2>1, <2>2, InFrame DEF FrameOf
  <2>4. prog[f].kind = "call"
    BY <2>1 DEF KindOf
  <2>5. /\ Further(prog, Bodies(prog, in), Bodies(prog, Outside(prog, work, pos)))
        /\ \A t \in Bodies(prog, in) : t \in 1..Len(prog) /\ t <= f
        /\ in = prog[f].in
    BY <2>2, <2>3 DEF Further
  <2> HIDE DEF f, in
  <2> QED BY <2>1, <2>2, <2>3, <2>4, <2>5, EpilogueNest
<1>2. CASE JumpToEpilogue
  <2> DEFINE f == work.to
             in == prog[f].in
  <2>1. status = "running" /\ work.goal = "return" /\ work.todo = << >> /\ Epilogue(f)
    BY <1>2 DEF JumpToEpilogue, Doing
  <2>2. /\ WellFormed(prog) /\ f \in 1..Len(prog)
        /\ IsBlock(prog, in) /\ Due(prog, in) = Due(prog, pos)
        /\ Further(prog, Bodies(prog, in), Bodies(prog, Outside(prog, work, pos)))
        /\ Framed(prog, in) = {u \in Framed(prog, pos) : u < f}
        /\ \A u \in Framed(prog, pos) : u \in Nat /\ u <= f
        /\ f \in Framed(prog, pos)
        /\ prog[f].kind \in Leaves(work.goal)
        /\ TryBlocks(prog, in) \subseteq TryBlocks(prog, pos)
    BY <2>1, Exiting DEF Exits
  <2>3. prog[f].kind = "call"
    BY <2>1, <2>2 DEF Leaves
  <2>4. \A t \in Bodies(prog, in) : t \in 1..Len(prog) /\ t <= f
    <3>1. "body" \in {"body", "catch", "fin", "kuna", "yaqha"} /\ f \in Nat
      BY <2>2, ProgramFacts
    <3>2. \A t \in Bodies(prog, in) : t < f /\ t \in Nat /\ t \in 1..Len(prog)
      BY <2>2, <3>1, Into
    <3> QED BY <3>1, <3>2
  <2>5. in = prog[f].in
    OBVIOUS
  <2> HIDE DEF f, in
  <2> QED BY <2>1, <2>2, <2>3, <2>4, <2>5, EpilogueNest
<1> QED BY <1>1, <1>2

(* The jump behind a try, a loop or a khiti. *)
LEMMA JumpsNest ==
  ASSUME TypeInv, NestInv, Jump
  PROVE  NestInv'
<1> DEFINE in == prog[work.to].in
<1>1. /\ status = "running" /\ work.goal \in {"fall", "break"} /\ work.todo = << >>
      /\ UNCHANGED <<chainVars, prog, stack, slot, env, ran, status>> /\ work' = Running
      /\ pos' = in
  BY DEF Jump, Doing, AfterStmt, GoTo
<1>2. WellFormed(prog) /\ pos \in Block(Len(prog)) /\ IsBlock(prog, pos)
  BY ProgramFacts DEF TypeInv, NestInv
<1>3. CASE work.goal = "break"
  <2>1. /\ IsBlock(prog, in) /\ Due(prog, in) = Due(prog, pos)
        /\ Further(prog, Bodies(prog, in), Bodies(prog, Outside(prog, work, pos)))
        /\ Framed(prog, in) = {u \in Framed(prog, pos) : u < work.to}
        /\ \A u \in Framed(prog, pos) : u \in Nat /\ u <= work.to
        /\ work.to \notin Framed(prog, pos) /\ work.to \in 1..Len(prog)
        /\ TryBlocks(prog, in) \subseteq TryBlocks(prog, pos)
    BY <1>1, <1>3, Exiting DEF Exits
  <2>2. work.to \in Nat
    BY <2>1, ProgramFacts
  <2> HIDE DEF in
  <2>3. Framed(prog, in) = Framed(prog, pos)
    BY <2>1, <2>2
  <2> QED BY <1>1, <2>1, <2>3, StayNest
<1>4. CASE work.goal = "fall"
  <2>1. FallOK(prog, work, pos)
    BY <1>1, <1>4 DEF NestInv, RunningOK, WorkOK
  <2>2. Outside(prog, work, pos) = in
    BY <1>4 DEF Outside
  <2>3. work.to \in 1..Len(prog) /\ (pos = in \/ (pos.of = work.to /\ work.to \notin Due(prog, pos)
                                                   /\ work.to \notin Framed(prog, pos)))
    BY <1>1, <2>1 DEF FallOK
  <2>4. CASE pos = in
    <3>1. Further(prog, Bodies(prog, in), Bodies(prog, Outside(prog, work, pos)))
      BY <2>2 DEF Further
    <3> QED BY <1>1, <1>2, <2>4, <3>1, StayNest
  <2>5. CASE pos.of = work.to /\ work.to \notin Due(prog, pos) /\ work.to \notin Framed(prog, pos)
    <3>1. pos.of # 0 /\ pos \in Around(prog, pos)
      BY <1>2, <2>3, <2>5, ProgramFacts, BlockItself
    <3>2. /\ IsBlock(prog, in)
          /\ TryBlocks(prog, in) = {d \in TryBlocks(prog, pos) : d.of < pos.of}
          /\ Due(prog, in) = {t \in Due(prog, pos) : t < pos.of}
          /\ Framed(prog, in) = {t \in Framed(prog, pos) : t < pos.of}
      BY <1>2, <2>5, <3>1, Outward
    <3>3. \A c \in Around(prog, pos) : c.of \in Nat /\ c.of <= pos.of
      BY <1>2, BlockType
    <3>4. \A t \in Due(prog, pos) \cup Framed(prog, pos) : t \in Nat /\ t <= pos.of
      BY <3>3 DEF Due, Framed
    <3>5. pos.of \in Nat
      BY <3>1, <3>3
    <3> HIDE DEF in
    <3>6. \A t \in Due(prog, pos) : t < pos.of
      BY <2>5, <3>4, <3>5
    <3>7. \A t \in Framed(prog, pos) : t < pos.of
      BY <2>5, <3>4, <3>5
    <3>8. /\ Due(prog, in) = Due(prog, pos) /\ Framed(prog, in) = Framed(prog, pos)
          /\ TryBlocks(prog, in) \subseteq TryBlocks(prog, pos)
      BY <3>2, <3>6, <3>7
    <3>9. Further(prog, Bodies(prog, in), Bodies(prog, Outside(prog, work, pos)))
      BY <2>2 DEF Further
    <3> QED BY <1>1, <3>2, <3>8, <3>9, StayNest
  <2> QED BY <2>3, <2>4, <2>5
<1> QED BY <1>1, <1>3, <1>4

(* The next round of a loop, or its end. *)
LEMMA RoundNest ==
  ASSUME TypeInv, NestInv, status = "running", NEW n \in 1..Len(prog), prog[n].kind = "loop",
         NextRound(n), NEW in, in = prog[n].in,
         Due(prog, in) = Due(prog, pos),
         Further(prog, Bodies(prog, in), Bodies(prog, Outside(prog, work, pos))),
         Framed(prog, in) = Framed(prog, pos),
         TryBlocks(prog, in) \subseteq TryBlocks(prog, pos)
  PROVE  NestInv'
<1> DEFINE b == [of |-> n, part |-> "body"]
<1>1. /\ UNCHANGED <<chainVars, prog, stack, slot, env, ran, status>> /\ work' = Running
      /\ pos' = b \/ pos' = in
  BY DEF NextRound, AfterStmt, GoTo
<1>2. WellFormed(prog) /\ IsBlock(prog, in)
  BY ProgramFacts, StatementType
<1>3. /\ IsBlock(prog, b)
      /\ TryBlocks(prog, b) = TryBlocks(prog, in) /\ Bodies(prog, b) = Bodies(prog, in)
      /\ Due(prog, b) = Due(prog, in) /\ Framed(prog, b) = Framed(prog, in)
  <2>1. "body" \in PartsOf(prog[n]) /\ prog[n].kind \in {"loop", "switch"}
        /\ "body" \in {"body", "kuna", "yaqha"}
    BY DEF PartsOf
  <2> QED BY <1>2, <2>1, IntoPlain
<1> HIDE DEF b
<1>4. CASE pos' = in
  BY <1>1, <1>2, <1>4, StayNest
<1>5. CASE pos' = b
  BY <1>1, <1>3, <1>5, StayNest
<1> QED BY <1>1, <1>4, <1>5

(* The end of a loop body, and continue. *)
LEMMA LoopsNest ==
  ASSUME TypeInv, NestInv, EndLoopBody \/ JumpToContinue
  PROVE  NestInv'
<1>1. CASE EndLoopBody
  <2> DEFINE n == pos.of
             in == prog[n].in
  <2>1. Executing /\ KindOf(prog, pos) = "loop" /\ pos.part = "body" /\ NextRound(n)
    BY <1>1 DEF EndLoopBody, EndsBlock
  <2>2. /\ WellFormed(prog) /\ status = "running" /\ Outside(prog, work, pos) = pos
        /\ pos \in Block(Len(prog)) /\ IsBlock(prog, pos)
    BY <2>1, Execute
  <2>3. n \in 1..Len(prog) /\ prog[n].kind = "loop"
    <3>1. pos.of # 0
      BY <2>1 DEF KindOf
    <3> QED BY <2>1, <2>2, <3>1, BlockParts DEF KindOf
  <2>4. pos = [of |-> n, part |-> "body"]
    BY <2>1, <2>2 DEF Block
  <2>5. /\ TryBlocks(prog, pos) = TryBlocks(prog, in) /\ Bodies(prog, pos) = Bodies(prog, in)
        /\ Due(prog, pos) = Due(prog, in) /\ Framed(prog, pos) = Framed(prog, in)
    <3>1. "body" \in PartsOf(prog[n]) /\ prog[n].kind \in {"loop", "switch"}
          /\ "body" \in {"body", "kuna", "yaqha"}
      BY <2>3 DEF PartsOf
    <3> QED BY <2>2, <2>3, <2>4, <3>1, IntoPlain
  <2>6. Further(prog, Bodies(prog, in), Bodies(prog, Outside(prog, work, pos)))
    BY <2>2, <2>5 DEF Further
  <2> HIDE DEF n
  <2> QED BY <2>1, <2>2, <2>3, <2>5, <2>6, RoundNest
<1>2. CASE JumpToContinue
  <2> DEFINE n == work.to
             in == prog[n].in
  <2>1. status = "running" /\ work.goal = "continue" /\ work.todo = << >> /\ NextRound(n)
    BY <1>2 DEF JumpToContinue, Doing
  <2>2. /\ n \in 1..Len(prog)
        /\ Due(prog, in) = Due(prog, pos)
        /\ Further(prog, Bodies(prog, in), Bodies(prog, Outside(prog, work, pos)))
        /\ Framed(prog, in) = {u \in Framed(prog, pos) : u < n}
        /\ \A u \in Framed(prog, pos) : u \in Nat /\ u <= n
        /\ n \notin Framed(prog, pos)
        /\ prog[n].kind \in Leaves(work.goal)
        /\ TryBlocks(prog, in) \subseteq TryBlocks(prog, pos)
    BY <2>1, Exiting DEF Exits
  <2>3. prog[n].kind = "loop" /\ n \in Nat
    BY <2>1, <2>2, ProgramFacts DEF Leaves
  <2> HIDE DEF n
  <2>4. Framed(prog, in) = Framed(prog, pos)
    <3> HIDE DEF in
    <3> QED BY <2>2, <2>3
  <2> QED BY <2>1, <2>2, <2>3, <2>4, RoundNest
<1> QED BY <1>1, <1>2

(* The program ends, with nothing due and nothing on the stack. *)
LEMMA EndMainNest ==
  ASSUME TypeInv, NestInv, EndMain
  PROVE  NestInv'
<1>1. Executing /\ KindOf(prog, pos) = "main"
  BY DEF EndMain, EndsBlock
<1>2. /\ WellFormed(prog) /\ pos \in Block(Len(prog)) /\ IsBlock(prog, pos)
      /\ Mirrors(stack, Framed(prog, pos))
  BY <1>1, Execute
<1>3. pos = MainBlock
  BY <1>1, <1>2, BlockParts
<1>4. Framed(prog, pos) = {} /\ Due(prog, pos) = {}
  BY <1>2, <1>3, MainSets
<1>5. stack = << >>
  <2>1. \A i \in 1..Len(stack) : FALSE
    BY <1>2, <1>4 DEF Mirrors
  <2>2. stack \in Seq(FrameType(prog)) /\ Len(stack) \in Nat
    BY DEF TypeInv
  <2> QED BY <2>1, <2>2
<1>6. status' = "finished" /\ UNCHANGED <<prog, pos, slot, env, ran>>
  BY <1>5 DEF EndMain
<1> QED BY <1>4, <1>6 DEF NestInv

(* The innermost of the bodies around a block. *)
LEMMA TopBody ==
  ASSUME NEW p, WellFormed(p), NEW b \in Block(Len(p)), IsBlock(p, b), Bodies(p, b) # {}
  PROVE  \E t \in Bodies(p, b) : \A u \in Bodies(p, b) : u <= t
<1> DEFINE S == {c \in TryBlocks(p, b) : c.part = "body"}
<1>1. S \subseteq Around(p, b) /\ Bodies(p, b) = {c.of : c \in S}
  BY DEF TryBlocks, Bodies
<1>2. \/ S = {} /\ Deepest(S) = 0
      \/ \E c \in S : Deepest(S) = c.of /\ \A d \in S : d.of <= c.of
  BY <1>1, AroundBlocks
<1> QED BY <1>1, <1>2

(* What an exception about to be thrown meets. *)
LEMMA Throwing ==
  ASSUME TypeInv, NestInv, Doing("throw")
  PROVE  /\ WellFormed(prog) /\ status = "running"
         /\ pos \in Block(Len(prog)) /\ IsBlock(prog, pos)
         /\ SafeAt(prog, pos) /\ Outside(prog, work, pos) = pos
         /\ LeavesNoBody(prog)
         /\ RegistryOK(prog, Bodies(prog, pos), current, heap, slot, env, stack)
         /\ LinkedOK(prog, Bodies(prog, pos), current, heap, slot, env, stack)
         /\ Bodies(prog, pos) = {} => current = 0 /\ Due(prog, pos) = {}
         /\ \A t \in Bodies(prog, pos) : (\A u \in Bodies(prog, pos) : u <= t) =>
              /\ current = slot[t] /\ current # 0 /\ At(current) = current /\ env[current].at = t
              /\ \A u \in Due(prog, pos) : u <= t
<1>1. status = "running" /\ work.goal = "throw" /\ work.todo = << >>
  BY DEF Doing
<1>2. WellFormed(prog) /\ pos \in Block(Len(prog)) /\ IsBlock(prog, pos)
  BY ProgramFacts DEF TypeInv, NestInv
<1>3. Outside(prog, work, pos) = pos
  BY <1>1 DEF Outside
<1>4. SafeAt(prog, pos) /\ LeavesNoBody(prog)
  BY <1>1 DEF NestInv, RunningOK, WorkOK, ThrowOK
<1>5. /\ RegistryOK(prog, Bodies(prog, pos), current, heap, slot, env, stack)
      /\ LinkedOK(prog, Bodies(prog, pos), current, heap, slot, env, stack)
  BY <1>1, <1>3, <1>4 DEF NestInv, RunningOK, RegistryOK
<1>6. ASSUME NEW x \in Due(prog, pos)
      PROVE  \E u \in Bodies(prog, pos) : x <= u
  <2>1. PICK c \in Around(prog, pos) :
          c.of = x /\ IsTry(prog, c) /\ c.part \in {"body", "catch"} /\ prog[x].fin
    BY <1>2, <1>6, DueBlock
  <2>2. c \in TryBlocks(prog, pos) /\ c.of \in Nat
    BY <1>2, <2>1, BlockType DEF TryBlocks
  <2>3. CASE c.part = "body"
    BY <2>1, <2>2, <2>3 DEF Bodies
  <2>4. CASE c.part = "catch"
    <3>1. PICK d \in TryBlocks(prog, pos) : d.part = "body" /\ d.of > c.of
      BY <1>4, <2>1, <2>2, <2>4 DEF SafeAt, Owing
    <3>2. d.of \in Nat /\ d.of \in Bodies(prog, pos)
      BY <1>2, <3>1, BlockType DEF TryBlocks, Bodies
    <3> QED BY <2>1, <2>2, <3>1, <3>2
  <2> QED BY <2>1, <2>3, <2>4
<1>7. Bodies(prog, pos) = {} => current = 0 /\ Due(prog, pos) = {}
  BY <1>5, <1>6 DEF LinkedOK, Names
<1>8. ASSUME NEW t \in Bodies(prog, pos), \A u \in Bodies(prog, pos) : u <= t
      PROVE  /\ current = slot[t] /\ current # 0 /\ At(current) = current /\ env[current].at = t
             /\ \A u \in Due(prog, pos) : u <= t
  <2>1. current = slot[t] /\ slot[t] \in 1..Len(heap) /\ env[slot[t]].at = t
        /\ At(current) = current
    <3>1. current = slot[t]
      BY <1>5, <1>8 DEF LinkedOK, Names
    <3>2. slot[t] \in 1..Len(heap) /\ heap[slot[t]].live /\ env[slot[t]].at = t
      BY <1>5, <1>8 DEF LinkedOK
    <3>3. At(slot[t]) = slot[t]
      BY <3>2, Dereference
    <3> QED BY <3>1, <3>2, <3>3
  <2>2. \A u \in Bodies(prog, pos) \cup Due(prog, pos) : u \in Nat
    <3>1. \A u \in Bodies(prog, pos) \cup Due(prog, pos) : u \in 1..Len(prog)
      BY <1>2, MemberBlock
    <3> QED BY <3>1, ProgramFacts
  <2>3. \A x \in Due(prog, pos) : x <= t
    BY <1>6, <1>8, <2>2
  <2> QED BY <2>1, <2>3
<1> QED BY <1>1, <1>2, <1>3, <1>4, <1>5, <1>7, <1>8

(* Without a handler there is no body around the exception, and then       *)
(* nothing is due: no tukuyawi is lost.                                    *)
LEMMA UnhandledNest ==
  ASSUME TypeInv, NestInv, Unhandled
  PROVE  NestInv'
<1>1. Doing("throw") /\ current = 0 /\ status' = "unhandled" /\ UNCHANGED <<prog, pos, slot, env, ran>>
  BY DEF Unhandled, NULL
<1>2. WellFormed(prog) /\ pos \in Block(Len(prog)) /\ IsBlock(prog, pos)
  BY <1>1, Throwing
<1>3. Bodies(prog, pos) = {}
  <2> SUFFICES ASSUME Bodies(prog, pos) # {} PROVE FALSE
    OBVIOUS
  <2>1. PICK t \in Bodies(prog, pos) : \A u \in Bodies(prog, pos) : u <= t
    BY <1>2, TopBody
  <2> QED BY <1>1, <2>1, Throwing
<1>4. Due(prog, pos) = {}
  BY <1>1, <1>3, Throwing
<1> QED BY <1>1, <1>4 DEF NestInv

(* The stack the innermost handler knows is a prefix of the stack, so that *)
(* longjmp finds its frame.                                                *)
LEMMA MayJump ==
  ASSUME TypeInv, NEW B, NEW t \in B, LinkedOK(prog, B, current, heap, slot, env, stack),
         current = slot[t]
  PROVE  Jumpable(current)
<1>1. /\ slot[t] \in 1..Len(heap) /\ heap[slot[t]].live
      /\ Prefix(env[slot[t]].stack, stack)
  BY DEF LinkedOK
<1> DEFINE r == env[At(current)].stack
<1>0. At(current) = current
  BY <1>1, Dereference
<1>2. r \in Seq(FrameType(prog)) /\ stack \in Seq(FrameType(prog)) /\ Prefix(r, stack)
  BY <1>0, <1>1, HandlerStack DEF TypeInv
<1> HIDE DEF r
<1>3. IsPrefix(r, stack)
  BY <1>2 DEF IsPrefix, Prefix
<1>4. IsLive(current)
  BY <1>0, <1>1 DEF IsLive
<1> QED BY <1>3, <1>4 DEF Jumpable, r

(* The frames around an outer body are among those around an inner one. *)
LEMMA FramesGrow ==
  ASSUME NEW p, WellFormed(p), NEW b \in Block(Len(p)), IsBlock(p, b),
         NEW u \in Bodies(p, b), NEW t \in Bodies(p, b), u <= t
  PROVE  Framed(p, p[u].in) \subseteq Framed(p, p[t].in)
<1>1. ASSUME NEW x \in Bodies(p, b)
      PROVE  /\ Framed(p, p[x].in) = {y \in Framed(p, b) : y < x} /\ x \in 1..Len(p)
  <2>1. [of |-> x, part |-> "body"] \in Around(p, b) /\ x \in 1..Len(p)
    BY MemberBlock
  <2> DEFINE c == [of |-> x, part |-> "body"]
  <2>2. c \in Around(p, b) /\ c.of # 0 /\ c.of = x
    BY <2>1 DEF WellFormed
  <2> HIDE DEF c
  <2> QED BY <2>1, <2>2, Outward
<1>2. u \in Nat /\ t \in Nat
  BY <1>1 DEF WellFormed
<1>3. \A y \in Framed(p, b) : y \in Nat
  <2>1. \A y \in Framed(p, b) : y \in 1..Len(p)
    BY MemberBlock
  <2> QED BY <2>1 DEF WellFormed
<1> QED BY <1>1, <1>2, <1>3

(* longjmp reaches the innermost body, in a frame that is still there, and *)
(* nothing is due further in.                                              *)
LEMMA LongJumpNest ==
  ASSUME TypeInv, NestInv, LongJump
  PROVE  NestInv'
<1>1. Doing("throw") /\ current # 0
  BY DEF LongJump, NULL
<1> DEFINE B == Bodies(prog, pos)
<1>2. /\ WellFormed(prog) /\ status = "running"
      /\ pos \in Block(Len(prog)) /\ IsBlock(prog, pos)
      /\ SafeAt(prog, pos) /\ Outside(prog, work, pos) = pos
      /\ LeavesNoBody(prog)
      /\ RegistryOK(prog, B, current, heap, slot, env, stack)
      /\ LinkedOK(prog, B, current, heap, slot, env, stack)
      /\ B = {} => current = 0
  BY <1>1, Throwing
<1>3. PICK t \in B : \A u \in B : u <= t
  BY <1>1, <1>2, TopBody
<1>4. /\ current = slot[t] /\ At(current) = current /\ env[current].at = t
      /\ \A u \in Due(prog, pos) : u <= t
  BY <1>1, <1>3, Throwing
<1> DEFINE b == [of |-> t, part |-> "body"]
           in == prog[t].in
           r == env[current].stack
           w == Work(<< >>, "caught", t, 0)
<1>5. /\ UNCHANGED <<heap, current, prog, slot, env, ran, status>>
      /\ stack' = r /\ pos' = b /\ work' = w
  <2>1. Jumpable(current)
    BY <1>2, <1>3, <1>4, MayJump
  <2> QED BY <1>4, <2>1 DEF LongJump, ThrowTo, GoTo
<1>6. b \in Around(prog, pos) /\ t \in 1..Len(prog) /\ prog[t].kind = "try"
  BY <1>2, <1>3, MemberBlock
<1>7. t \in Nat /\ b.of = t /\ b.part = "body" /\ b.of # 0
  BY <1>6, ProgramFacts
<1>8. b \in Block(Len(prog)) /\ IsBlock(prog, b) /\ IsTry(prog, b)
  BY <1>2, <1>6, <1>7, BlockType DEF IsTry, KindOf
<1>9. Around(prog, b) = {d \in Around(prog, pos) : d.of <= t}
  BY <1>2, <1>6, <1>7, AroundNested DEF Nested
<1>10. /\ slot[t] \in 1..Len(heap) /\ Prefix(r, stack) /\ Mirrors(r, Framed(prog, in))
  BY <1>2, <1>3, <1>4 DEF LinkedOK
<1>11. r \in Seq(FrameType(prog)) /\ stack \in Seq(FrameType(prog))
       /\ Mirrors(stack, Framed(prog, pos)) /\ \A i \in 1..Len(stack) : FrameOK(prog, stack[i])
  BY <1>2, <1>4, <1>10, HandlerStack DEF TypeInv, NestInv, RunningOK
<1>12. TryBlocks(prog, in) = {d \in TryBlocks(prog, pos) : d.of < t}
       /\ Framed(prog, in) = {u \in Framed(prog, pos) : u < t}
  BY <1>2, <1>6, <1>7, Outward
<1>13. Framed(prog, b) = Framed(prog, in)
  BY <1>2, <1>6, IntoBody
<1> HIDE DEF b, in, r, w, B
<1>14. Due(prog, b) = Due(prog, pos) /\ Bodies(prog, b) = B /\ TryBlocks(prog, b) \subseteq TryBlocks(prog, pos)
  <2>1. TryBlocks(prog, b) = {d \in TryBlocks(prog, pos) : d.of <= t}
    BY <1>9 DEF TryBlocks
  <2>2. Bodies(prog, b) = {u \in B : u <= t}
    BY <2>1 DEF Bodies, B
  <2>3. Due(prog, b) = {u \in Due(prog, pos) : u <= t}
    BY <1>9 DEF Due
  <2> QED BY <1>3, <1>4, <2>1, <2>2, <2>3
<1>15. \A u \in B : u \in 1..Len(prog) /\ u \in Nat
  <2>1. \A u \in B : u \in 1..Len(prog)
    BY <1>2, MemberBlock DEF B
  <2> QED BY <2>1, ProgramFacts
<1>16. RegistryOK(prog, B, current, heap, slot, env, r)
  <2> SUFFICES ASSUME NEW u \in B PROVE Prefix(env[slot[u]].stack, r)
    BY <1>2, RegistryStack
  <2> DEFINE q == env[slot[u]].stack
             S == Framed(prog, prog[u].in)
             T == Framed(prog, in)
             U == Framed(prog, pos)
  <2>1. Prefix(q, stack) /\ Mirrors(q, S) /\ slot[u] \in 1..Len(heap)
    BY <1>2 DEF LinkedOK
  <2>2. q \in Seq(FrameType(prog))
    BY <2>1, HandlerStack
  <2>3. S \subseteq T
    BY <1>2, <1>3, FramesGrow DEF B, in
  <2>4. \A y \in U : y \in Nat
    <3>1. \A y \in U : y \in 1..Len(prog)
      BY <1>2, MemberBlock
    <3> QED BY <3>1, ProgramFacts
  <2> HIDE DEF q, S, T, U
  <2>5. Mirrors(r, T) /\ Mirrors(stack, U)
    BY <1>10, <1>11 DEF T, U
  <2>6. Prefix(q, r)
    BY <1>10, <1>11, <2>1, <2>2, <2>3, <2>4, <2>5, PrefixCompare
  <2> QED BY <2>6 DEF q
<1>17. w.goal = "caught" /\ w.to = t /\ w.todo = << >>
  BY DEF w, Work
<1>18. prog[t].cat # "any" => SafeAt(prog, in)
  <2> SUFFICES ASSUME prog[t].cat # "any", NEW c \in TryBlocks(prog, in), Owing(prog, c)
               PROVE  \E d \in TryBlocks(prog, in) : d.part = "body" /\ prog[d.of].cat = "any" /\ d.of > c.of
    BY DEF SafeAt
  <2>1. c \in TryBlocks(prog, pos)
    BY <1>12
  <2>2. PICK d \in TryBlocks(prog, pos) : d.part = "body" /\ prog[d.of].cat = "any" /\ d.of > c.of
    BY <1>2, <2>1 DEF SafeAt
  <2>3. d.of \in B
    BY <2>2 DEF Bodies, B
  <2>4. d.of # t
    BY <2>2
  <2>5. d.of \in Nat /\ d.of <= t
    BY <1>3, <1>15, <2>3
  <2>6. d.of < t
    <3> DEFINE x == d.of
    <3>1. x # t /\ x \in Nat /\ x <= t /\ t \in Nat
      BY <1>7, <2>4, <2>5
    <3> HIDE DEF x
    <3>2. x < t
      BY ONLY <3>1
    <3> QED BY <3>2 DEF x
  <2> QED BY <1>12, <2>2, <2>6
<1>19. WorkOK(prog, work', pos') /\ Outside(prog, work', pos') = b
  <2>1. CaughtOK(prog, w, b)
    BY <1>2, <1>6, <1>8, <1>17, <1>18 DEF CaughtOK, b, in
  <2> QED BY <1>5, <1>17, <2>1 DEF WorkOK, Outside, Exits
<1>20. RegistryOK(prog, Bodies(prog, Outside(prog, work', pos')), current, heap, slot, env, stack')
  BY <1>5, <1>14, <1>16, <1>19
<1>21. Mirrors(stack', Framed(prog, pos'))
  BY <1>5, <1>10, <1>13
<1>22. \A i \in 1..Len(stack') : FrameOK(prog, stack'[i])
  <2>1. \A i \in 1..Len(r) : i \in 1..Len(stack) /\ r[i] = stack[i]
    BY <1>10, <1>11 DEF Prefix
  <2> QED BY <1>5, <1>11, <2>1
<1>23. /\ IsBlock(prog, pos') /\ Due(prog, pos') = Due(prog, pos)
       /\ \A c \in TryBlocks(prog, pos') : \E d \in TryBlocks(prog, pos) : d.of = c.of
  BY <1>5, <1>8, <1>14
<1> QED BY <1>2, <1>5, <1>19, <1>20, <1>21, <1>22, <1>23, MoveNest
-----------------------------------------------------------------------------
(* The catch label releases that handler; a katjaña runs, or the tukuyawi  *)
(* and the exception goes on.                                              *)
LEMMA CatchNest ==
  ASSUME TypeInv, NestInv, NEW t \in 1..Len(prog), AtCatchLabel(t)
  PROVE  NestInv'
<1> DEFINE in == prog[t].in
           B == Bodies(prog, pos)
<1>1. status = "running" /\ work.goal = "caught" /\ work.todo = << >> /\ t = work.to
  BY DEF AtCatchLabel, Doing
<1>2. WellFormed(prog) /\ pos \in Block(Len(prog)) /\ IsBlock(prog, pos)
  BY ProgramFacts DEF TypeInv, NestInv
<1>3. CaughtOK(prog, work, pos) /\ Outside(prog, work, pos) = pos
  BY <1>1 DEF NestInv, RunningOK, WorkOK, Outside
<1>4. /\ pos = [of |-> t, part |-> "body"] /\ IsTry(prog, pos) /\ LeavesNoBody(prog)
      /\ prog[t].cat # "any" => SafeAt(prog, in)
  BY <1>1, <1>3 DEF CaughtOK
<1>5. /\ RegistryOK(prog, B, current, heap, slot, env, stack)
      /\ Mirrors(stack, Framed(prog, pos))
      /\ \A i \in 1..Len(stack) : FrameOK(prog, stack[i])
  BY <1>1, <1>3 DEF NestInv, RunningOK
<1>6. /\ t \in B /\ \A u \in B : u \in Nat /\ u <= t
      /\ {u \in B : u < t} = Bodies(prog, in)
  BY <1>2, <1>4, InBody
<1>7. /\ IsLive(slot[t])
      /\ TryPop(slot[t]) => RegistryOK(prog, {u \in B : u < t}, current', heap', slot, env, stack)
  <2> HIDE DEF B
  <2> QED BY <1>5, <1>6, PopNest
<1>8. /\ TryPop(slot[t]) /\ UNCHANGED <<prog, stack, slot, env, ran, status>>
      /\ \/ /\ prog[t].cat # "none" /\ work' = Running
            /\ pos' = [of |-> t, part |-> "catch"]
         \/ /\ prog[t].cat # "any"
            /\ work' = Work(OwnFinally(t), "throw", 0, held[At(slot[t])])
            /\ pos' = IF prog[t].fin THEN pos ELSE in
  BY <1>7 DEF AtCatchLabel, GoTo, AfterStmt
<1>9. prog[t].kind = "try"
  BY <1>2, <1>4, BlockParts
<1>10. /\ TryBlocks(prog, pos) = TryBlocks(prog, in) \cup {pos}
       /\ Due(prog, pos) = Due(prog, in) \cup (IF prog[t].fin THEN {t} ELSE {})
       /\ Framed(prog, pos) = Framed(prog, in)
       /\ \A u \in Bodies(prog, in) \cup Due(prog, in) \cup Framed(prog, in) : u < t /\ u \in Nat /\ u \in 1..Len(prog)
       /\ \A c \in TryBlocks(prog, in) : c.of < t /\ c.of \in 1..Len(prog)
  BY <1>2, <1>4, <1>9, IntoBody
<1> HIDE DEF B
<1>11. RegistryOK(prog, Bodies(prog, in), current', heap', slot, env, stack')
  BY <1>6, <1>7, <1>8
<1>12. UNCHANGED <<prog, slot, env, ran, status>> /\ stack' = stack /\ t \in Nat
  BY <1>8, ProgramFacts
<1>13. ASSUME prog[t].cat # "none", work' = Running, pos' = [of |-> t, part |-> "catch"] PROVE NestInv'
  <2> DEFINE b == [of |-> t, part |-> "catch"]
  <2>1. /\ IsBlock(prog, b) /\ b.of = t
        /\ TryBlocks(prog, b) = TryBlocks(prog, in) \cup {b} /\ Bodies(prog, b) = Bodies(prog, in)
        /\ Due(prog, b) = Due(prog, in) \cup (IF prog[t].fin THEN {t} ELSE {})
        /\ Framed(prog, b) = Framed(prog, in)
    <3>1. "catch" \in PartsOf(prog[t])
      BY <1>9, <1>13 DEF PartsOf
    <3> QED BY <1>2, <1>9, <3>1, IntoCatch
  <2>2. pos' = b /\ work' = Running /\ pos.of = t
    BY <1>4, <1>13
  <2> HIDE DEF b, in
  <2>3. WorkOK(prog, work', pos') /\ Outside(prog, work', pos') = b
    BY <2>2, RunningSound
  <2>4. RegistryOK(prog, Bodies(prog, Outside(prog, work', pos')), current', heap', slot, env, stack')
    BY <1>11, <2>1, <2>3
  <2>5. Mirrors(stack', Framed(prog, pos')) /\ \A i \in 1..Len(stack') : FrameOK(prog, stack'[i])
    BY <1>5, <1>10, <1>12, <2>1, <2>2
  <2>6. \A c \in TryBlocks(prog, pos') : \E d \in TryBlocks(prog, pos) : d.of = c.of
    BY <1>10, <2>1, <2>2
  <2>7. IsBlock(prog, pos') /\ Due(prog, pos') = Due(prog, pos)
    BY <1>10, <2>1, <2>2
  <2> QED BY <1>1, <1>12, <2>3, <2>4, <2>5, <2>6, <2>7, ChangeNest
<1>14. ASSUME prog[t].cat # "any", work' = Work(OwnFinally(t), "throw", 0, held[At(slot[t])]),
              pos' = IF prog[t].fin THEN pos ELSE in
       PROVE  NestInv'
  <2> DEFINE w == work'
  <2>1. w.goal = "throw" /\ w.todo = OwnFinally(t) /\ SafeAt(prog, in)
    BY <1>4, <1>14 DEF Work
  <2> HIDE DEF w
  <2>2. CASE prog[t].fin
    <3> DEFINE o == t
    <3>1. w.todo = <<o>> /\ pos' = pos
      BY <1>14, <2>1, <2>2 DEF OwnFinally
    <3> HIDE DEF o
    <3>2. Head(w.todo) = o /\ w.todo # << >>
      BY ONLY <3>1
    <3>3. Outside(prog, w, pos') = in
      BY <2>1, <3>2 DEF Outside, o
    <3>4. ThrowOK(prog, w, pos)
      <4>1. t \in Due(prog, pos)
        BY <1>10, <2>2
      <4>2. \A c \in TryBlocks(prog, pos) : c.of <= t
        <5>1. \A c \in TryBlocks(prog, in) : c.of <= t
          <6>1. \A c \in TryBlocks(prog, in) : c.of < t /\ c.of \in Nat
            BY <1>10, ProgramFacts
          <6> QED BY <1>12, <6>1
        <5>2. pos.of <= t
          BY <1>4, <1>12
        <5> QED BY <1>10, <5>1, <5>2
      <4>3. \A u \in Framed(prog, pos) : u < t
        BY <1>10
      <4>4. w.todo = <<t>>
        BY <3>1 DEF o
      <4> QED BY <1>4, <1>14, <2>1, <4>1, <4>2, <4>3, <4>4 DEF ThrowOK
    <3>5. WorkOK(prog, work', pos')
      BY <2>1, <3>1, <3>4 DEF WorkOK, Exits, w
    <3>6. RegistryOK(prog, Bodies(prog, Outside(prog, work', pos')), current', heap', slot, env, stack')
      BY <1>11, <3>3 DEF w
    <3>7. /\ Mirrors(stack', Framed(prog, pos')) /\ \A i \in 1..Len(stack') : FrameOK(prog, stack'[i])
          /\ IsBlock(prog, pos') /\ Due(prog, pos') = Due(prog, pos)
          /\ \A c \in TryBlocks(prog, pos') : \E d \in TryBlocks(prog, pos) : d.of = c.of
      BY <1>2, <1>5, <1>12, <3>1
    <3> QED BY <1>1, <1>12, <3>5, <3>6, <3>7, ChangeNest
  <2>3. CASE ~prog[t].fin
    <3>1. w.todo = << >> /\ pos' = in
      BY <1>14, <2>1, <2>3 DEF OwnFinally
    <3>2. IsBlock(prog, in)
      BY <1>2, StatementType
    <3>3. Due(prog, in) = Due(prog, pos)
      BY <1>10, <2>3
    <3> HIDE DEF in
    <3>4. Outside(prog, work', pos') = in
      BY <2>1, <3>1 DEF Outside, w
    <3>5. WorkOK(prog, work', pos')
      BY <1>4, <2>1, <3>1 DEF WorkOK, Exits, ThrowOK, w
    <3>6. RegistryOK(prog, Bodies(prog, Outside(prog, work', pos')), current', heap', slot, env, stack')
      BY <1>11, <3>4
    <3>7. /\ Mirrors(stack', Framed(prog, pos')) /\ \A i \in 1..Len(stack') : FrameOK(prog, stack'[i])
          /\ IsBlock(prog, pos') /\ Due(prog, pos') = Due(prog, pos)
          /\ \A c \in TryBlocks(prog, pos') : \E d \in TryBlocks(prog, pos) : d.of = c.of
      BY <1>5, <1>10, <1>12, <3>1, <3>2, <3>3
    <3> QED BY <1>1, <1>12, <3>5, <3>6, <3>7, ChangeNest
  <2> QED BY <2>2, <2>3
<1> QED BY <1>8, <1>13, <1>14

-----------------------------------------------------------------------------
(* The theorems. *)

(* It holds at the start. *)
LEMMA NestInit == ASSUME Init, \A p \in Programs : WellFormed(p) PROVE NestInv
<1>1. WellFormed(prog)
  BY DEF Init
<1>2. /\ pos = MainBlock /\ work = Running /\ stack = << >> /\ env = << >> /\ ran = << >>
      /\ slot = [t \in 1..Len(prog) |-> 0] /\ status = "running" /\ current = 0
  BY DEF Init, ChainInit, NULL
<1>3. /\ TryBlocks(prog, pos) = {} /\ Bodies(prog, pos) = {}
      /\ Due(prog, pos) = {} /\ Framed(prog, pos) = {}
  BY <1>1, <1>2, MainSets
<1>4. WorkOK(prog, work, pos) /\ Outside(prog, work, pos) = pos
  BY <1>2, RunningSound
<1>5. RegistryOK(prog, Bodies(prog, pos), current, heap, slot, env, stack)
  BY <1>2, <1>3 DEF RegistryOK, HeldOK, LinkedOK, Names
<1>6. Mirrors(stack, Framed(prog, pos)) /\ \A i \in 1..Len(stack) : FrameOK(prog, stack[i])
  <2>1. Len(stack) = 0
    BY <1>2
  <2> QED BY <1>3, <2>1 DEF Mirrors
<1>7. RanOK(prog, ran, slot, env, Due(prog, pos))
  <2>1. Len(ran) = 0
    BY <1>2
  <2> QED BY <2>1 DEF RanOK
<1>8. RunningOK
  BY <1>2, <1>3, <1>4, <1>5, <1>6 DEF RunningOK
<1>9. IsBlock(prog, pos)
  BY <1>2 DEF IsBlock
<1> QED BY <1>2, <1>7, <1>8, <1>9 DEF NestInv

(* Every step keeps the invariant, when the program keeps the rules. *)
LEMMA NestStep ==
  ASSUME TypeInv, NestInv, Disciplined(prog), [Next]_vars
  PROVE  NestInv'
<1>1. ASSUME NEW n \in 1..Len(prog), StatementStep(n) PROVE NestInv'
  BY <1>1, ThrowsNest, ExitsNest, CallNest, EntersNest, EnterTryNest DEF StatementStep
<1>2. CASE BlockEnd
  BY <1>2, EndTryBodyNest, EndPlansNest, EndFinallyNest, LoopsNest, FunctionsNest, EndMainNest
     DEF BlockEnd
<1>3. CASE EmittedStep
  BY <1>3, CallFinallyNest, JumpsNest, LoopsNest, FunctionsNest, UnhandledNest, LongJumpNest,
     CatchNest DEF EmittedStep
<1>4. CASE Stopped \/ UNCHANGED vars
  <2>1. UNCHANGED <<heap, held, current, prog, pos, last, work, stack, slot, env, ran, status>>
    BY <1>4 DEF Stopped, vars, chainVars, machineVars
  <2>2. RunningOK => RunningOK'
    BY <2>1 DEF RunningOK, RegistryOK, HeldOK, LinkedOK, Names, WorkOK, Outside
  <2>3. IsBlock(prog, pos)' = IsBlock(prog, pos) /\ Due(prog, pos)' = Due(prog, pos)
    BY <2>1
  <2>4. RanOK(prog, ran, slot, env, Due(prog, pos)) => RanOK(prog, ran, slot, env, Due(prog, pos))'
    BY <2>1, <2>3 DEF RanOK
  <2> QED BY <2>1, <2>2, <2>3, <2>4 DEF NestInv
<1> QED BY <1>1, <1>2, <1>3, <1>4 DEF Next

(* The program is chosen once. *)
LEMMA ProgramKept == ASSUME [Next]_vars PROVE prog' = prog
<1>1. CASE Next
  BY <1>1 DEF Next, StatementStep, BlockEnd, EmittedStep, Stopped, vars, machineVars,
     Throw, RuntimeError, Break, Continue, Return, Begin, Call, EnterLoop, EnterSwitch, EnterTry,
     EndTryBody, EndCatch, EndFinally, EndLoopBody, EndKuna, EndYaqha, EndFunction, EndMain,
     CallFinally, Jump, JumpToContinue, JumpToEpilogue, Unhandled, LongJump, AtCatchLabel,
     Undefined, NextRound, Epilogue
<1>2. CASE UNCHANGED vars
  BY <1>2 DEF vars, machineVars
<1> QED BY <1>1, <1>2

(* The types of every program. *)
LEMMA Sound == Spec => []TypeInv
<1>1. Init => TypeInv
  BY TypeInit
<1>2. TypeInv /\ [Next]_vars => TypeInv'
  BY TypeStep
<1>3. QED BY <1>1, <1>2, PTL DEF Spec

(* The invariant of the disciplined programs. *)
LEMMA Nesting == Spec => [](Disciplined(prog) => NestInv)
<1>1. Init => (Disciplined(prog) => NestInv)
  BY NestInit, ProgramsAssumption
<1>2. TypeInv /\ [Next]_vars /\ (Disciplined(prog) => NestInv) => (Disciplined(prog) => NestInv)'
  <2> SUFFICES ASSUME TypeInv, [Next]_vars, Disciplined(prog) => NestInv, Disciplined(prog)'
               PROVE  NestInv'
    OBVIOUS
  <2>1. prog' = prog
    BY ProgramKept
  <2>2. Disciplined(prog)
    BY <2>1
  <2> QED BY <2>2, NestStep
<1>3. QED BY <1>1, <1>2, Sound, PTL DEF Spec

(* Type correctness of the compiled program (module Exceptions), for every *)
(* program the compiler accepts and any number of tries entered.           *)
THEOREM ExceptionsType == Spec => []TypeOK
<1>1. TypeInv => TypeOK
  <2> SUFFICES ASSUME TypeInv PROVE TypeOK
    OBVIOUS
  <2>1. WellFormed(prog)
    BY ProgramFacts
  <2>2. pos.of \in 0..Len(prog) /\ pos.part \in {"body", "catch", "fin", "kuna", "yaqha"}
    BY DEF TypeInv, Block
  <2>3. /\ work.todo \in Seq(Finallys(prog)) /\ work.goal \in Goals
        /\ work.to \in 0..Len(prog) /\ work.exc \in 0..Len(prog)
    BY DEF TypeInv, WorkType
  <2>4. \A i \in 1..Len(work.todo) : prog[work.todo[i]].fin
    BY <2>3 DEF Finallys
  <2>5. ChainTypeOK
    BY DEF TypeInv, ChainTypeOK, HeapOK
  <2> QED BY <2>1, <2>2, <2>3, <2>4, <2>5 DEF TypeInv, TypeOK
<1>2. QED BY <1>1, Sound, PTL

(* The code emitted for yant'aña (codegen_stmt_exception.cpp) reaches      *)
(* nothing undefined in a disciplined program: no aym_try_pop of a         *)
(* released handler, no longjmp into a frame that has returned, no return  *)
(* through the address of another call.                                    *)
THEOREM Defined == Spec => [](Disciplined(prog) => NeverUndefined)
<1>1. NestInv => NeverUndefined
  BY DEF NestInv, NeverUndefined
<1>2. QED BY <1>1, Nesting, PTL

(* No two ways out of a try run its tukuyawi twice: the inline calls of    *)
(* pantja, break, continue and return and the one at the end of the try    *)
(* never meet in one run of it.                                            *)
THEOREM OnceEach == Spec => [](Disciplined(prog) => FinallyOnce)
<1>1. TypeInv /\ NestInv => FinallyOnce
  <2> SUFFICES ASSUME TypeInv, NestInv, NEW h \in 1..Len(heap) PROVE ran[h] <= 1
    BY DEF FinallyOnce
  <2>1. h \in 1..Len(ran) /\ RanOK(prog, ran, slot, env, Due(prog, pos))
    BY DEF TypeInv, NestInv
  <2>2. ran[h] = 0 \/ ran[h] = 1
    BY <2>1 DEF RanOK
  <2> QED BY <2>2
<1>2. QED BY <1>1, Sound, Nesting, PTL

(* docs/exceptions.md:13 of every disciplined program: control outside a   *)
(* try with a tukuyawi it once entered, or at the end of the program, has  *)
(* run it.                                                                 *)
THEOREM AlwaysRun == Spec => [](Disciplined(prog) => FinallyAlways)
<1>1. TypeInv /\ NestInv => FinallyAlways
  <2> SUFFICES ASSUME TypeInv, NestInv,
                      Executing \/ status = "finished" \/ status = "unhandled",
                      NEW h \in 1..Len(heap), prog[env[h].at].fin,
                      ~(status = "running" /\ IsInside(h))
               PROVE  ran[h] >= 1
    BY DEF FinallyAlways
  <2> DEFINE t == env[h].at
  <2>1. ran[h] = IF slot[t] = h /\ t \in Due(prog, pos) THEN 0 ELSE 1
    BY DEF TypeInv, NestInv, RanOK
  <2>2. ~(slot[t] = h /\ t \in Due(prog, pos))
    <3>1. CASE Executing
      <4> SUFFICES ASSUME NEW c \in Around(prog, pos), OnFinallyStack(prog, c), c.of = t, slot[t] = h
                   PROVE  FALSE
        BY DEF Due
      <4>1. c \in TryBlocks(prog, pos) /\ slot[c.of] = h
        BY DEF TryBlocks, OnFinallyStack
      <4> QED BY <3>1, <4>1 DEF IsInside, Executing
    <3>2. CASE status \in {"finished", "unhandled"}
      BY <3>2 DEF NestInv
    <3> QED BY <3>1, <3>2
  <2> QED BY <2>1, <2>2
<1>2. QED BY <1>1, Sound, Nesting, PTL

(* The handler of the innermost body, as Exceptions writes it. *)
LEMMA NamesHandler ==
  ASSUME NEW p, WellFormed(p), NEW b \in Block(Len(p)), NEW x, Names(x, slot, Bodies(p, b))
  PROVE  x = HandlerOf(InnermostBody(p, b))
<1> DEFINE S == {c \in TryBlocks(p, b) : c.part = "body"}
<1>1. S \subseteq Around(p, b) /\ Bodies(p, b) = {c.of : c \in S} /\ InnermostBody(p, b) = Deepest(S)
  BY DEF TryBlocks, Bodies, InnermostBody
<1>2. \/ S = {} /\ Deepest(S) = 0
      \/ \E c \in S : Deepest(S) = c.of /\ \A d \in S : d.of <= c.of
  BY <1>1, AroundBlocks
<1>3. CASE S = {} /\ Deepest(S) = 0
  BY <1>1, <1>3 DEF Names, HandlerOf, NULL
<1>4. ASSUME NEW c \in S, Deepest(S) = c.of, \A d \in S : d.of <= c.of
      PROVE  x = HandlerOf(InnermostBody(p, b))
  <2>1. c.of # 0
    BY DEF TryBlocks, IsTry, KindOf
  <2>2. c.of \in Bodies(p, b) /\ \A u \in Bodies(p, b) : u <= c.of
    BY <1>1, <1>4
  <2>3. x = slot[c.of]
    BY <2>2 DEF Names
  <2> HIDE DEF S
  <2> QED BY <1>1, <1>4, <2>1, <2>3 DEF HandlerOf
<1> QED BY <1>2, <1>3, <1>4

(* The bodies around a try further out. *)
LEMMA BodyOut ==
  ASSUME NEW p, WellFormed(p), NEW b \in Block(Len(p)), IsBlock(p, b), NEW t \in Bodies(p, b)
  PROVE  /\ p[t].in \in Block(Len(p))
         /\ Bodies(p, p[t].in) = {u \in Bodies(p, b) : u < t}
<1> DEFINE c == [of |-> t, part |-> "body"]
<1>1. c \in Around(p, b) /\ t \in 1..Len(p)
  BY MemberBlock
<1>2. c.of # 0 /\ c.of = t
  BY <1>1 DEF WellFormed
<1> HIDE DEF c
<1> QED BY <1>1, <1>2, Outward

(* In a disciplined program no exit of which leaves a body,                *)
(* current_handler and the prev links are, between two statements, exactly *)
(* the try bodies control is inside of.                                    *)
THEOREM NestingKept == Spec => [](Disciplined(prog) => NestingMirrored)
<1>1. TypeInv /\ NestInv => NestingMirrored
  <2> SUFFICES ASSUME TypeInv, NestInv, LeavesNoBody(prog), Executing
               PROVE  /\ current = HandlerOf(InnermostBody(prog, pos))
                      /\ \A t \in Bodies(prog, pos) :
                           /\ Allocated(slot[t])
                           /\ heap[slot[t]].prev = HandlerOf(InnermostBody(prog, prog[t].in))
    BY DEF NestingMirrored, ChainMatchesNesting
  <2>1. /\ WellFormed(prog) /\ pos \in Block(Len(prog)) /\ IsBlock(prog, pos)
        /\ LinkedOK(prog, Bodies(prog, pos), current, heap, slot, env, stack)
    BY Execute DEF RegistryOK
  <2>2. current = HandlerOf(InnermostBody(prog, pos))
    BY <2>1, NamesHandler DEF LinkedOK
  <2>3. ASSUME NEW t \in Bodies(prog, pos)
        PROVE  /\ Allocated(slot[t])
               /\ heap[slot[t]].prev = HandlerOf(InnermostBody(prog, prog[t].in))
    <3> DEFINE in == prog[t].in
               x == heap[slot[t]].prev
    <3>1. /\ slot[t] \in 1..Len(heap) /\ heap[slot[t]].live
          /\ Names(x, slot, {u \in Bodies(prog, pos) : u < t})
      BY <2>1 DEF LinkedOK
    <3>2. in \in Block(Len(prog)) /\ Bodies(prog, in) = {u \in Bodies(prog, pos) : u < t}
      BY <2>1, BodyOut
    <3>3. Names(x, slot, Bodies(prog, in))
      BY <3>1, <3>2
    <3> HIDE DEF in, x
    <3>4. x = HandlerOf(InnermostBody(prog, in))
      BY <2>1, <3>2, <3>3, NamesHandler
    <3> QED BY <3>1, <3>4 DEF Allocated, NULL, in, x
  <2> QED BY <2>2, <2>3
<1>2. QED BY <1>1, Sound, Nesting, PTL

(* When aym_throw is called, current_handler belongs to the innermost try  *)
(* body around the exception, in a frame that is still there; without one  *)
(* around it is null and the program ends.                                 *)
THEOREM ThrowFinds == Spec => [](Disciplined(prog) => ThrowReachesInnermost)
<1>1. TypeInv /\ NestInv => ThrowReachesInnermost
  <2> SUFFICES ASSUME TypeInv, NestInv, Doing("throw")
               PROVE  LET t == InnermostBody(prog, pos) IN
                      IF t = 0 THEN current = NULL
                      ELSE current # NULL /\ Jumpable(current) /\ env[At(current)].at = t
    BY DEF ThrowReachesInnermost
  <2> DEFINE S == {c \in TryBlocks(prog, pos) : c.part = "body"}
             t == InnermostBody(prog, pos)
  <2>1. /\ WellFormed(prog) /\ pos \in Block(Len(prog)) /\ IsBlock(prog, pos)
        /\ LinkedOK(prog, Bodies(prog, pos), current, heap, slot, env, stack)
        /\ Bodies(prog, pos) = {} => current = 0
        /\ \A u \in Bodies(prog, pos) : (\A x \in Bodies(prog, pos) : x <= u) =>
              current = slot[u] /\ current # 0 /\ At(current) = current /\ env[current].at = u
    BY Throwing
  <2>2. S \subseteq Around(prog, pos) /\ Bodies(prog, pos) = {c.of : c \in S} /\ t = Deepest(S)
    BY DEF TryBlocks, Bodies, InnermostBody
  <2>3. \/ S = {} /\ Deepest(S) = 0
        \/ \E c \in S : Deepest(S) = c.of /\ \A d \in S : d.of <= c.of
    BY <2>1, <2>2, AroundBlocks
  <2>4. ASSUME S = {}, Deepest(S) = 0
        PROVE  t = 0 /\ current = 0
    BY <2>1, <2>2, <2>4
  <2>5. ASSUME NEW c \in S, Deepest(S) = c.of, \A d \in S : d.of <= c.of
        PROVE  t # 0 /\ current # 0 /\ Jumpable(current) /\ env[At(current)].at = t
    <3>1. t = c.of /\ t # 0
      BY <2>2, <2>5 DEF TryBlocks, IsTry, KindOf
    <3>2. t \in Bodies(prog, pos) /\ \A u \in Bodies(prog, pos) : u <= t
      BY <2>2, <2>5, <3>1
    <3> HIDE DEF t, S
    <3>3. current = slot[t] /\ current # 0 /\ env[At(current)].at = t
      BY <2>1, <3>2
    <3>4. Jumpable(current)
      BY <2>1, <3>2, <3>3, MayJump
    <3> QED BY <3>1, <3>3, <3>4
  <2> HIDE DEF t, S
  <2>6. IF t = 0 THEN current = NULL
        ELSE current # NULL /\ Jumpable(current) /\ env[At(current)].at = t
    BY <2>3, <2>4, <2>5 DEF NULL
  <2> QED BY <2>6 DEF t
<1>2. QED BY <1>1, Sound, Nesting, PTL

-----------------------------------------------------------------------------
(* The refinement: the emitted code, step by step, is the language.        *)

(* f gives, for each of the first n statements, the tries control is       *)
(* inside of where it stands.                                              *)
IsPath(p, f, n) ==
  /\ f \in [0..n -> Seq(Block(Len(p)))]
  /\ f[0] = << >>
  /\ \A m \in 1..n : f[m] = Entered(p, f[p[m].in.of], p[m].in)

(* The recursion has a function on every program: induction on the length. *)
LEMMA PathExists ==
  ASSUME NEW p, WellFormed(p)
  PROVE  \E f : IsPath(p, f, Len(p))
<1> DEFINE M == {m \in Nat : m <= Len(p) => \E f : IsPath(p, f, m)}
<1>0. Len(p) \in Nat
  BY DEF WellFormed
<1>1. 0 \in M
  <2>1. IsPath(p, [i \in 0..0 |-> << >>], 0)
    BY DEF IsPath
  <2> QED BY <2>1
<1>2. ASSUME NEW m \in Nat, m \in M PROVE m + 1 \in M
  <2> SUFFICES ASSUME m + 1 <= Len(p) PROVE \E f : IsPath(p, f, m + 1)
    OBVIOUS
  <2>1. PICK f : IsPath(p, f, m)
    BY <1>0, <1>2
  <2> DEFINE in == p[m + 1].in
             next == Entered(p, f[in.of], in)
             g == [i \in 0..(m + 1) |-> IF i = m + 1 THEN next ELSE f[i]]
  <2>2. m + 1 \in 1..Len(p)
    BY <1>0
  <2>3. in \in Block(Len(p)) /\ in.of \in 0..m
    <3>1. in.of \in 0..((m + 1) - 1)
      BY <2>2, StatementType
    <3> QED BY <2>2, <3>1, StatementType
  <2> HIDE DEF in
  <2>4. next \in Seq(Block(Len(p)))
    <3>1. f[in.of] \in Seq(Block(Len(p)))
      BY <2>1, <2>3 DEF IsPath
    <3> QED BY <2>3, <3>1 DEF Entered
  <2>5. g \in [0..(m + 1) -> Seq(Block(Len(p)))] /\ g[0] = << >> /\ g[m + 1] = next
    <3> HIDE DEF next
    <3> QED BY <2>1, <2>4 DEF IsPath
  <2>6. g[m + 1] = Entered(p, g[in.of], in)
    BY <2>3, <2>5
  <2>7. ASSUME NEW i \in 1..m PROVE g[i] = Entered(p, g[p[i].in.of], p[i].in)
    <3>1. i \in 1..Len(p)
      BY <1>0
    <3>2. p[i].in.of \in 0..(i - 1)
      BY <3>1, StatementType
    <3>3. g[i] = f[i] /\ g[p[i].in.of] = f[p[i].in.of]
      BY <3>2
    <3> HIDE DEF g
    <3> QED BY <2>1, <3>3 DEF IsPath
  <2> HIDE DEF g
  <2>8. IsPath(p, g, m + 1)
    <3> SUFFICES ASSUME NEW i \in 1..(m + 1) PROVE g[i] = Entered(p, g[p[i].in.of], p[i].in)
      BY <2>5 DEF IsPath
    <3>1. i = m + 1 \/ i \in 1..m
      OBVIOUS
    <3> QED BY <2>6, <2>7, <3>1 DEF in
  <2> QED BY <2>8
<1> HIDE DEF M
<1>3. Len(p) \in M
  BY <1>0, <1>1, <1>2, NatSetInduction
<1> QED BY <1>0, <1>3 DEF M

(* The recursion Inside is written with. *)
LEMMA PathIs ==
  ASSUME NEW p, WellFormed(p)
  PROVE  \E f : IsPath(p, f, Len(p)) /\ \A b : Inside(p, b) = Entered(p, f[b.of], b)
<1> DEFINE Body(f) == [n \in 0..Len(p) |-> IF n = 0 THEN << >> ELSE Entered(p, f[p[n].in.of], p[n].in)]
           inside == CHOOSE f : f = Body(f)
<1>1. PICK g : IsPath(p, g, Len(p))
  BY PathExists
<1>2. g = Body(g)
  <2>1. DOMAIN g = 0..Len(p) /\ g = [i \in 0..Len(p) |-> g[i]]
    BY <1>1 DEF IsPath
  <2>2. ASSUME NEW i \in 0..Len(p) PROVE g[i] = Body(g)[i]
    <3>1. i = 0 \/ i \in 1..Len(p)
      OBVIOUS
    <3> QED BY <1>1, <3>1 DEF IsPath
  <2>3. DOMAIN Body(g) = 0..Len(p) /\ Body(g) = [i \in 0..Len(p) |-> Body(g)[i]]
    OBVIOUS
  <2> HIDE DEF Body
  <2>4. [i \in 0..Len(p) |-> g[i]] = [i \in 0..Len(p) |-> Body(g)[i]]
    BY <2>2
  <2> QED BY <2>1, <2>3, <2>4
<1>3. inside = Body(inside)
  <2> HIDE DEF Body
  <2> QED BY <1>2
<1>4. \A b : Inside(p, b) = Entered(p, inside[b.of], b)
  BY DEF Inside
<1> HIDE DEF inside
<1>5. /\ inside[0] = << >>
      /\ \A n \in 1..Len(p) : inside[n] = Entered(p, inside[p[n].in.of], p[n].in)
      /\ DOMAIN inside = 0..Len(p)
  <2>0. Len(p) \in Nat
    BY DEF WellFormed
  <2>1. \A n \in 0..Len(p) : inside[n] = IF n = 0 THEN << >> ELSE Entered(p, inside[p[n].in.of], p[n].in)
    BY <1>3
  <2>2. DOMAIN inside = 0..Len(p)
    BY <1>3
  <2>3. 0 \in 0..Len(p) /\ \A n \in 1..Len(p) : n \in 0..Len(p) /\ n # 0
    BY <2>0
  <2> QED BY <2>1, <2>2, <2>3
<1>6. \A n \in 0..Len(p) : inside[n] \in Seq(Block(Len(p)))
  <2>0. Len(p) \in Nat
    BY DEF WellFormed
  <2> DEFINE M == {m \in Nat : \A n \in 0..Len(p) : n <= m => inside[n] \in Seq(Block(Len(p)))}
  <2>1. 0 \in M
    BY <1>5
  <2>2. ASSUME NEW m \in Nat, m \in M PROVE m + 1 \in M
    <3> SUFFICES ASSUME NEW n \in 0..Len(p), n = m + 1 PROVE inside[n] \in Seq(Block(Len(p)))
      <4>1. \A n \in 0..Len(p) : n <= m + 1 => n <= m \/ n = m + 1
        OBVIOUS
      <4> QED BY <2>2, <4>1
    <3>1. n \in 1..Len(p)
      OBVIOUS
    <3>2. p[n].in \in Block(Len(p)) /\ p[n].in.of \in 0..(n - 1)
      BY <3>1, StatementType
    <3>3. inside[p[n].in.of] \in Seq(Block(Len(p)))
      BY <2>2, <3>2
    <3> HIDE DEF M
    <3>4. inside[n] = Entered(p, inside[p[n].in.of], p[n].in)
      BY <1>5, <3>1
    <3> QED BY <3>2, <3>3, <3>4 DEF Entered
  <2> HIDE DEF M
  <2>3. Nat \subseteq M
    BY <2>1, <2>2, NatSetInduction
  <2>4. Len(p) \in M
    BY <2>0, <2>3
  <2> QED BY <2>0, <2>4 DEF M
<1>7. IsPath(p, inside, Len(p))
  <2>1. inside = [n \in 0..Len(p) |-> inside[n]]
    BY <1>3
  <2> QED BY <1>5, <1>6, <2>1 DEF IsPath
<1> QED BY <1>4, <1>7

(* The tries control is inside of, one block at a time. *)
LEMMA InsideMain ==
  ASSUME NEW p, WellFormed(p), NEW b, b.of = 0 PROVE Inside(p, b) = << >>
<1>1. PICK f : IsPath(p, f, Len(p)) /\ \A c : Inside(p, c) = Entered(p, f[c.of], c)
  BY PathIs
<1>2. f[b.of] = << >>
  BY <1>1 DEF IsPath
<1> QED BY <1>1, <1>2 DEF Entered, IsTry, KindOf

(* A block adds itself to the tries around it, when it is one. *)
LEMMA InsideStep ==
  ASSUME NEW p, WellFormed(p), NEW b, b.of \in 1..Len(p)
  PROVE  Inside(p, b) = Entered(p, Inside(p, p[b.of].in), b)
<1>1. PICK f : IsPath(p, f, Len(p)) /\ \A c : Inside(p, c) = Entered(p, f[c.of], c)
  BY PathIs
<1>2. f[b.of] = Entered(p, f[p[b.of].in.of], p[b.of].in)
  BY <1>1 DEF IsPath
<1> QED BY <1>1, <1>2

(* What Entered leaves as it was. *)
LEMMA EnteredLen ==
  ASSUME NEW S, NEW p, NEW s \in Seq(S), NEW b \in S
  PROVE  LET e == Entered(p, s, b) IN
         /\ e \in Seq(S) /\ Len(s) \in Nat
         /\ Len(e) = IF IsTry(p, b) THEN Len(s) + 1 ELSE Len(s)
         /\ \A i \in 1..Len(s) : e[i] = s[i]
         /\ IsTry(p, b) => e[Len(e)] = b
<1>1. Len(s) \in Nat
  OBVIOUS
<1>2. CASE IsTry(p, b)
  <2> DEFINE e == Append(s, b)
  <2>1. e \in Seq(S) /\ Len(e) = Len(s) + 1 /\ (\A i \in 1..Len(s) : e[i] = s[i]) /\ e[Len(s) + 1] = b
    OBVIOUS
  <2>2. Entered(p, s, b) = e
    BY <1>2 DEF Entered
  <2> HIDE DEF e
  <2> QED BY <1>1, <1>2, <2>1, <2>2
<1>3. CASE ~IsTry(p, b)
  BY <1>1, <1>3 DEF Entered
<1> QED BY <1>2, <1>3

(* The tries around b, the outermost first: those around a block further   *)
(* out come first, the others belong to later statements.                  *)
Lined(p, b) ==
  LET s == Inside(p, b) IN
  /\ s \in Seq(Block(Len(p)))
  /\ \A i \in 1..Len(s) : s[i] \in TryBlocks(p, b)
  /\ \A c \in Around(p, b) :
       /\ Len(Inside(p, c)) \in 0..Len(s)
       /\ \A i \in 1..Len(Inside(p, c)) : Inside(p, c)[i] = s[i]
       /\ \A i \in (Len(Inside(p, c)) + 1)..Len(s) : s[i].of > c.of
       /\ IsTry(p, c) => Len(Inside(p, c)) > 0 /\ s[Len(Inside(p, c))] = c

(* The tries around a block are a chain, as the blocks are. *)
LEMMA InsideLined ==
  ASSUME NEW p, WellFormed(p), NEW b \in Block(Len(p))
  PROVE  Lined(p, b)
<1>0. Len(p) \in Nat
  BY DEF WellFormed
<1> DEFINE M == {m \in Nat : \A d \in Block(Len(p)) : d.of <= m => Lined(p, d)}
<1>1. 0 \in M
  <2> SUFFICES ASSUME NEW d \in Block(Len(p)), d.of <= 0 PROVE Lined(p, d)
    OBVIOUS
  <2>1. d.of = 0
    BY DEF Block
  <2>2. Around(p, d) = {d} /\ Inside(p, d) = << >> /\ ~IsTry(p, d)
    BY <2>1, AroundMain, InsideMain DEF IsTry, KindOf
  <2> QED BY <2>1, <2>2 DEF Lined
<1>2. ASSUME NEW m \in Nat, m \in M PROVE m + 1 \in M
  <2> SUFFICES ASSUME NEW d \in Block(Len(p)), d.of = m + 1 PROVE Lined(p, d)
    <3>1. \A d \in Block(Len(p)) : d.of \in Nat
      BY <1>0 DEF Block
    <3>2. \A d \in Block(Len(p)) : d.of <= m + 1 => d.of <= m \/ d.of = m + 1
      BY <3>1
    <3> QED BY <1>2, <3>2
  <2> DEFINE in == p[d.of].in
             s == Inside(p, in)
             e == Inside(p, d)
  <2>1. d.of \in 1..Len(p)
    BY <1>0 DEF Block
  <2>2. in \in Block(Len(p)) /\ in.of \in 0..(d.of - 1) /\ IsBlock(p, in)
    BY <2>1, StatementType
  <2>3. Around(p, d) = Around(p, in) \cup {d}
    BY <2>1, AroundStep
  <2>4. Lined(p, in) /\ Nested(p, in)
    BY <1>2, <2>2, AroundNested
  <2>5. e = Entered(p, s, d)
    BY <2>1, InsideStep
  <2>6. s \in Seq(Block(Len(p)))
    BY <2>4 DEF Lined
  <2>7. /\ e \in Seq(Block(Len(p))) /\ Len(s) \in Nat
        /\ Len(e) = IF IsTry(p, d) THEN Len(s) + 1 ELSE Len(s)
        /\ \A i \in 1..Len(s) : e[i] = s[i]
        /\ IsTry(p, d) => e[Len(e)] = d
    <3> DEFINE S == Block(Len(p))
    <3>1. s \in Seq(S) /\ d \in S
      BY <2>6
    <3> HIDE DEF e, s, in, S
    <3>2. LET x == Entered(p, s, d) IN
            /\ x \in Seq(S) /\ Len(s) \in Nat
            /\ Len(x) = IF IsTry(p, d) THEN Len(s) + 1 ELSE Len(s)
            /\ \A i \in 1..Len(s) : x[i] = s[i]
            /\ IsTry(p, d) => x[Len(x)] = d
      BY ONLY <3>1, EnteredLen
    <3> QED BY <2>5, <3>2 DEF S
  <2>8. /\ \A i \in 1..Len(s) : s[i] \in TryBlocks(p, in)
        /\ \A c \in Around(p, in) :
             /\ Len(Inside(p, c)) \in 0..Len(s)
             /\ \A i \in 1..Len(Inside(p, c)) : Inside(p, c)[i] = s[i]
             /\ \A i \in (Len(Inside(p, c)) + 1)..Len(s) : s[i].of > c.of
             /\ IsTry(p, c) => Len(Inside(p, c)) > 0 /\ s[Len(Inside(p, c))] = c
    BY <2>4 DEF Lined
  <2>9. \A c \in Around(p, in) : c.of \in Nat /\ c.of < d.of
    <3> SUFFICES ASSUME NEW c \in Around(p, in) PROVE c.of \in Nat /\ c.of < d.of
      OBVIOUS
    <3>1. c \in Block(Len(p)) /\ (c = in \/ c.of < in.of)
      BY <2>4 DEF Nested
    <3> QED BY <2>2, <3>1, <1>0 DEF Block
  <2> HIDE DEF M, in, s, e
  <2>10. \A i \in 1..Len(e) : i \in 1..Len(s) \/ (IsTry(p, d) /\ i = Len(e))
    BY <2>7
  <2>11. \A i \in 1..Len(e) : e[i] \in TryBlocks(p, d)
    BY <2>3, <2>7, <2>8, <2>10 DEF TryBlocks
  <2>12. ASSUME NEW c \in Around(p, d)
         PROVE  /\ Len(Inside(p, c)) \in 0..Len(e)
                /\ \A i \in 1..Len(Inside(p, c)) : Inside(p, c)[i] = e[i]
                /\ \A i \in (Len(Inside(p, c)) + 1)..Len(e) : e[i].of > c.of
                /\ IsTry(p, c) => Len(Inside(p, c)) > 0 /\ e[Len(Inside(p, c))] = c
    <3>1. CASE c = d
      <4>1. Inside(p, c) = e /\ Len(e) \in Nat
        BY <2>7, <3>1 DEF e
      <4> QED BY <2>7, <3>1, <4>1
    <3>2. CASE c \in Around(p, in)
      <4> DEFINE r == Inside(p, c)
      <4>1. /\ Len(r) \in 0..Len(s)
            /\ \A i \in 1..Len(r) : r[i] = s[i]
            /\ \A i \in (Len(r) + 1)..Len(s) : s[i].of > c.of
            /\ IsTry(p, c) => Len(r) > 0 /\ s[Len(r)] = c
        BY <2>8, <3>2
      <4> HIDE DEF r
      <4>2. Len(r) \in 0..Len(e) /\ \A i \in 1..Len(r) : r[i] = e[i]
        BY <2>7, <4>1
      <4>3. ASSUME NEW i \in (Len(r) + 1)..Len(e) PROVE e[i].of > c.of
        <5>1. i \in 1..Len(e)
          BY <4>1
        <5>2. CASE i \in 1..Len(s)
          <6>1. i \in (Len(r) + 1)..Len(s)
            BY <4>1, <5>2
          <6> QED BY <2>7, <4>1, <5>2, <6>1
        <5>3. CASE IsTry(p, d) /\ i = Len(e)
          BY <2>7, <2>9, <3>2, <5>3
        <5> QED BY <2>10, <5>1, <5>2, <5>3
      <4>4. IsTry(p, c) => Len(r) > 0 /\ e[Len(r)] = c
        BY <2>7, <4>1
      <4> QED BY <4>2, <4>3, <4>4 DEF r
    <3> QED BY <2>3, <3>1, <3>2
  <2> QED BY <2>7, <2>11, <2>12 DEF Lined, e
<1> HIDE DEF M
<1>3. Nat \subseteq M
  BY <1>1, <1>2, NatSetInduction
<1> QED BY <1>0, <1>3 DEF M, Block

(* What is in flight, when it is not an exception that has just landed. *)
Plain(p, w) ==
  [kind  |-> CASE w.goal \in {"throw", "caught"} -> "raise"
               [] w.goal \in Exits -> "leave"
               [] OTHER -> "none",
   exc   |-> w.exc,
   depth |-> IF w.goal \in Exits THEN Len(Inside(p, p[w.to].in)) ELSE 0]

(* An exception that has just landed. *)
Landed(e) == [kind |-> "raise", exc |-> e, depth |-> 0]

(* The frame of statement t on stack st. *)
FrameFor(st, t) == st[CHOOSE i \in 1..Len(st) : st[i].of = t]

(* The abstract region of a try around control, and all of them. *)
Region(p, st, c) ==
  [try |-> c.of, phase |-> c.part, cat |-> p[c.of].cat, fin |-> p[c.of].fin,
   then |-> IF c.part = "fin" THEN Plain(p, FrameFor(st, c.of).then) ELSE Plain(p, Running)]
Regions(p, st, b) == [i \in 1..Len(Inside(p, b)) |-> Region(p, st, Inside(p, b)[i])]

(* The one frame of a statement. *)
OnlyFrame(st, t, i) ==
  /\ i \in 1..Len(st) /\ st[i].of = t /\ FrameFor(st, t) = st[i]
  /\ \A j \in 1..Len(st) : st[j].of = t => j = i

(* A statement around control with a frame has exactly one. *)
LEMMA TheFrame ==
  ASSUME NEW S, NEW st \in Seq(S), NEW F, Mirrors(st, F), F \subseteq Nat, NEW t \in F
  PROVE  \E i : OnlyFrame(st, t, i)
<1>1. PICK i \in 1..Len(st) : st[i].of = t
  BY DEF Mirrors
<1>2. ASSUME NEW j \in 1..Len(st), st[j].of = t PROVE j = i
  <2>1. ~(i < j) /\ ~(j < i)
    BY <1>1, <1>2 DEF Mirrors
  <2> QED BY <2>1
<1>3. (CHOOSE j \in 1..Len(st) : st[j].of = t) = i
  BY <1>1, <1>2
<1> QED BY <1>1, <1>2, <1>3 DEF FrameFor, OnlyFrame

(* The abstract state, while the program runs. *)
BarsOK ==
  TypeInv /\ NestInv /\ status = "running" =>
     /\ regionsBar = Regions(prog, stack, pos)
     /\ signalBar = IF work.goal = "caught" THEN Landed(held[current]) ELSE Plain(prog, work)

(* So it is: the mapping reads the regions and the signal off the blocks   *)
(* around control and the code still planned.                              *)
LEMMA BarsAre == BarsOK
<1> SUFFICES ASSUME TypeInv, NestInv, status = "running"
             PROVE  /\ regionsBar = Regions(prog, stack, pos)
                    /\ signalBar = IF work.goal = "caught" THEN Landed(held[current]) ELSE Plain(prog, work)
  BY DEF BarsOK
<1> DEFINE s == Inside(prog, pos)
<1>1. WellFormed(prog) /\ pos \in Block(Len(prog)) /\ IsBlock(prog, pos)
  BY ProgramFacts DEF TypeInv, NestInv
<1>2. s \in Seq(Block(Len(prog))) /\ \A i \in 1..Len(s) : s[i] \in TryBlocks(prog, pos)
  BY <1>1, InsideLined DEF Lined
<1>3. DOMAIN s = 1..Len(s)
  BY <1>2
<1>4. stack \in Seq(FrameType(prog)) /\ Mirrors(stack, Framed(prog, pos))
      /\ \A i \in 1..Len(stack) : FrameOK(prog, stack[i])
  BY DEF TypeInv, NestInv, RunningOK
<1>5. Framed(prog, pos) \subseteq Nat
  <2>1. \A u \in Framed(prog, pos) : u \in 1..Len(prog)
    BY <1>1, MemberBlock
  <2> QED BY <2>1, ProgramFacts
<1>6. ASSUME NEW c \in TryBlocks(prog, pos) PROVE RegionOf(c) = Region(prog, stack, c)
  <2>1. SignalOf(Running) = Plain(prog, Running)
    BY DEF SignalOf, Plain, DepthOf, Exits, Running, Work
  <2>2. CASE c.part # "fin"
    BY <2>1, <2>2 DEF RegionOf, Region
  <2>3. CASE c.part = "fin"
    <3>1. c.of \in Framed(prog, pos) /\ IsTry(prog, c) /\ c \in Around(prog, pos)
      BY <2>3 DEF TryBlocks, Framed, FrameOf
    <3>2. PICK i \in 1..Len(stack) :
            /\ stack[i].of = c.of /\ FrameFor(stack, c.of) = stack[i]
            /\ \A j \in 1..Len(stack) : stack[j].of = c.of => j = i
      BY <1>4, <1>5, <3>1, TheFrame DEF OnlyFrame
    <3>3. stack[i].kind = "fin" /\ stack[i].then.goal # "caught"
      <4>1. FrameOK(prog, stack[i])
        BY <1>4, <3>2
      <4>2. prog[c.of].kind # "call"
        BY <3>1 DEF IsTry, KindOf
      <4> QED BY <3>2, <4>1, <4>2 DEF FrameOK
    <3>4. CallerOf(c.of) = i
      <4> DEFINE I == {j \in 1..Len(stack) : stack[j].kind = "fin" /\ stack[j].of = c.of}
      <4>1. I = {i}
        BY <3>2, <3>3
      <4>2. Max({i}) = i
        BY <3>2 DEF Max
      <4>3. CallerOf(c.of) = IF I # {} THEN Max(I) ELSE 0
        BY DEF CallerOf, SelectLastInSeq
      <4> QED BY <4>1, <4>2, <4>3
    <3>5. i # 0
      BY <3>2
    <3>6. SignalOf(stack[i].then) = Plain(prog, stack[i].then)
      BY <3>3 DEF SignalOf, Plain, DepthOf, Exits
    <3> QED BY <2>3, <3>2, <3>4, <3>5, <3>6 DEF RegionOf, Region
  <2> QED BY <2>2, <2>3
<1>7. regionsBar = [i \in 1..Len(s) |-> RegionOf(s[i])]
  BY <1>3 DEF regionsBar
<1> HIDE DEF s
<1>8. [i \in 1..Len(s) |-> RegionOf(s[i])] = [i \in 1..Len(s) |-> Region(prog, stack, s[i])]
  BY <1>2, <1>6
<1>9. SignalOf(work) = IF work.goal = "caught" THEN Landed(held[current]) ELSE Plain(prog, work)
  BY DEF SignalOf, Plain, Landed, DepthOf, Exits
<1> QED BY <1>7, <1>8, <1>9 DEF Regions, signalBar, s

(* The same after a step. *)
LEMMA BarsNext == BarsOK'
BY BarsAre, PTL

(* Regions, one by one. *)
RegionsOK(p, st, b, r) ==
  /\ Len(r) = Len(Inside(p, b)) /\ Len(r) \in Nat
  /\ r \in Seq({r[i] : i \in 1..Len(r)})
  /\ \A i \in 1..Len(r) :
       /\ Inside(p, b)[i] \in TryBlocks(p, b)
       /\ r[i] = Region(p, st, Inside(p, b)[i])

(* Regions has one of them for each try around control.                    *)
LEMMA RegionAt ==
  ASSUME NEW p, WellFormed(p), NEW b \in Block(Len(p)), NEW st
  PROVE  RegionsOK(p, st, b, Regions(p, st, b))
<1> DEFINE s == Inside(p, b)
<1>1. Len(s) \in Nat /\ \A i \in 1..Len(s) : s[i] \in TryBlocks(p, b)
  <2>1. s \in Seq(Block(Len(p))) /\ \A i \in 1..Len(s) : s[i] \in TryBlocks(p, b)
    BY InsideLined DEF Lined
  <2> HIDE DEF s
  <2> QED BY <2>1
<1> HIDE DEF s
<1> DEFINE n == Len(s)
           r == [i \in 1..n |-> Region(p, st, s[i])]
<1> HIDE DEF n
<1>2. n \in Nat
  BY <1>1 DEF n
<1>3. Len(r) = n /\ r \in Seq({r[i] : i \in 1..n})
  <2> DEFINE S == {r[i] : i \in 1..n}
  <2>1. r \in [1..n -> S]
    OBVIOUS
  <2>2. DOMAIN r = 1..n
    OBVIOUS
  <2> HIDE DEF S, r
  <2>3. r \in Seq(S)
    BY <1>2, <2>1
  <2>4. Len(r) = n
    BY <1>2, <2>2, <2>3
  <2> QED BY <2>3, <2>4 DEF S
<1>4. Regions(p, st, b) = r
  BY DEF Regions, r, n, s
<1>5. \A i \in 1..n : r[i] = Region(p, st, s[i])
  OBVIOUS
<1> HIDE DEF r
<1> QED BY <1>1, <1>2, <1>3, <1>4, <1>5 DEF n, s, RegionsOK

(* A sequence that agrees with a longer one, or is one longer. *)
LEMMA CutAt ==
  ASSUME NEW S, NEW s \in Seq(S), NEW T, NEW r \in Seq(T), NEW k \in 0..Len(s), Len(r) = k,
         \A i \in 1..k : r[i] = s[i]
  PROVE  r = SubSeq(s, 1, k)
<1>1. SubSeq(s, 1, k) \in Seq(S) /\ Len(SubSeq(s, 1, k)) = k
      /\ \A i \in 1..k : SubSeq(s, 1, k)[i] = s[i]
  OBVIOUS
<1> DEFINE q == SubSeq(s, 1, k)
<1>2. q = [i \in 1..k |-> q[i]] /\ r = [i \in 1..k |-> r[i]]
  BY <1>1
<1> HIDE DEF q
<1>3. [i \in 1..k |-> q[i]] = [i \in 1..k |-> r[i]]
  BY <1>1 DEF q
<1> QED BY <1>2, <1>3 DEF q

(* A sequence with one element more. *)
LEMMA OneMore ==
  ASSUME NEW S, NEW s \in Seq(S), NEW T, NEW r \in Seq(T), Len(r) = Len(s) + 1, NEW e,
         \A i \in 1..Len(s) : r[i] = s[i], r[Len(r)] = e
  PROVE  r = Append(s, e)
<1> DEFINE U == S \cup {e}
           q == Append(s, e)
<1>1. s \in Seq(U) /\ e \in U
  OBVIOUS
<1>2. Len(q) = Len(s) + 1 /\ q \in Seq(U) /\ (\A i \in 1..Len(s) : q[i] = s[i]) /\ q[Len(s) + 1] = e
  <2> HIDE DEF U
  <2> QED BY <1>1
<1> HIDE DEF q, U
<1>3. \A i \in 1..Len(r) : r[i] = q[i]
  <2>1. \A i \in 1..Len(r) : i \in 1..Len(s) \/ i = Len(s) + 1
    OBVIOUS
  <2> QED BY <1>2, <2>1
<1>4. q = [i \in 1..Len(r) |-> q[i]] /\ r = [i \in 1..Len(r) |-> r[i]]
  BY <1>2
<1>5. [i \in 1..Len(r) |-> q[i]] = [i \in 1..Len(r) |-> r[i]]
  BY <1>3
<1> QED BY <1>4, <1>5 DEF q

(* A frame stays the frame of its statement while the stack grows over it  *)
(* or shrinks down to it.                                                  *)
Framing(p, st, b) ==
  st \in Seq(FrameType(p)) /\ Mirrors(st, Framed(p, b)) /\ Framed(p, b) \subseteq Nat

(* So FrameFor names the same frame before and after.                      *)
LEMMA FramesKept ==
  ASSUME NEW p, NEW st, NEW st2, NEW b, NEW b2, Framing(p, st, b), Framing(p, st2, b2),
         Prefix(st, st2) \/ Prefix(st2, st)
  PROVE  \A t \in Framed(p, b) \cap Framed(p, b2) : FrameFor(st, t) = FrameFor(st2, t)
<1> DEFINE S == FrameType(p)
           F == Framed(p, b)
           F2 == Framed(p, b2)
<1>0. /\ st \in Seq(S) /\ Mirrors(st, F) /\ F \subseteq Nat
      /\ st2 \in Seq(S) /\ Mirrors(st2, F2) /\ F2 \subseteq Nat
  BY DEF Framing
<1> HIDE DEF S, F, F2
<1> SUFFICES ASSUME NEW t, t \in F, t \in F2 PROVE FrameFor(st, t) = FrameFor(st2, t)
  BY DEF F, F2
<1>1. PICK i : OnlyFrame(st, t, i)
  BY <1>0, TheFrame
<1>2. PICK k : OnlyFrame(st2, t, k)
  BY <1>0, TheFrame
<1>3. CASE Prefix(st, st2)
  <2>1. i \in 1..Len(st2) /\ st[i] = st2[i]
    BY <1>1, <1>3 DEF Prefix, OnlyFrame
  <2>2. i = k
    BY <1>1, <1>2, <2>1 DEF OnlyFrame
  <2> QED BY <1>1, <1>2, <2>1, <2>2 DEF OnlyFrame
<1>4. CASE Prefix(st2, st)
  <2>1. k \in 1..Len(st) /\ st[k] = st2[k]
    BY <1>2, <1>4 DEF Prefix, OnlyFrame
  <2>2. i = k
    BY <1>1, <1>2, <2>1 DEF OnlyFrame
  <2> QED BY <1>1, <1>2, <2>1, <2>2 DEF OnlyFrame
<1> QED BY <1>3, <1>4

(* The regions of a block further out, before or after the stack changed.  *)
LEMMA RegionsOut ==
  ASSUME NEW p, WellFormed(p), NEW b \in Block(Len(p)), NEW c \in Around(p, b),
         NEW st, NEW st2, \A t \in Framed(p, c) : FrameFor(st, t) = FrameFor(st2, t)
  PROVE  /\ Len(Inside(p, c)) \in 0..Len(Regions(p, st, b))
         /\ Regions(p, st2, c) = SubSeq(Regions(p, st, b), 1, Len(Inside(p, c)))
<1> DEFINE k == Len(Inside(p, c))
           r == Regions(p, st2, c)
           s == Regions(p, st, b)
<1>1. c \in Block(Len(p))
  BY AroundNested DEF Nested
<1>2. /\ Len(r) = k /\ r \in Seq({r[i] : i \in 1..Len(r)})
      /\ \A i \in 1..k : Inside(p, c)[i] \in TryBlocks(p, c) /\ r[i] = Region(p, st2, Inside(p, c)[i])
  <2>1. RegionsOK(p, st2, c, r)
    BY <1>1, RegionAt
  <2> HIDE DEF r
  <2> QED BY <2>1 DEF RegionsOK, k
<1>3. /\ Len(s) = Len(Inside(p, b)) /\ s \in Seq({s[i] : i \in 1..Len(s)})
      /\ \A i \in 1..Len(s) : s[i] = Region(p, st, Inside(p, b)[i])
  <2>1. RegionsOK(p, st, b, s)
    BY RegionAt
  <2> HIDE DEF s
  <2> QED BY <2>1 DEF RegionsOK
<1>4. k \in 0..Len(Inside(p, b)) /\ \A i \in 1..k : Inside(p, c)[i] = Inside(p, b)[i]
  BY InsideLined DEF Lined
<1>5. ASSUME NEW d \in TryBlocks(p, c) PROVE Region(p, st2, d) = Region(p, st, d)
  <2>1. d.part = "fin" => d.of \in Framed(p, c)
    BY DEF TryBlocks, Framed, FrameOf
  <2> QED BY <2>1 DEF Region
<1> HIDE DEF r, s, k
<1>6. \A i \in 1..k : r[i] = s[i]
  <2> SUFFICES ASSUME NEW i \in 1..k PROVE r[i] = s[i]
    OBVIOUS
  <2>1. Inside(p, c)[i] \in TryBlocks(p, c) /\ Inside(p, c)[i] = Inside(p, b)[i]
    BY <1>2, <1>4
  <2>2. r[i] = Region(p, st, Inside(p, c)[i])
    BY <1>2, <1>5, <2>1
  <2>3. i \in 1..Len(Inside(p, b))
    BY <1>4
  <2>4. s[i] = Region(p, st, Inside(p, b)[i])
    BY <1>3, <2>3
  <2> QED BY <2>1, <2>2, <2>4
<1>7. k \in 0..Len(s)
  BY <1>3, <1>4
<1>8. r = SubSeq(s, 1, k)
  <2> DEFINE S == {s[i] : i \in 1..Len(s)}
             T == {r[i] : i \in 1..Len(r)}
  <2>1. s \in Seq(S) /\ r \in Seq(T) /\ Len(r) = k
    BY <1>2, <1>3
  <2> HIDE DEF S, T
  <2> QED BY <1>6, <1>7, <2>1, CutAt
<1> QED BY <1>7, <1>8 DEF r, s, k

(* The regions with one more try. *)
LEMMA RegionsIn ==
  ASSUME NEW p, WellFormed(p), NEW b \in Block(Len(p)), IsTry(p, b), NEW st, NEW st2,
         \A t \in Framed(p, p[b.of].in) : FrameFor(st, t) = FrameFor(st2, t)
  PROVE  Regions(p, st2, b) = Append(Regions(p, st, p[b.of].in), Region(p, st2, b))
<1> DEFINE c == p[b.of].in
           r == Regions(p, st2, b)
           s == Regions(p, st, c)
<1>1. b.of \in 1..Len(p)
  <2>1. Len(p) \in Nat /\ b.of \in 0..Len(p) /\ b.of # 0
    BY DEF Block, WellFormed, IsTry, KindOf
  <2> QED BY <2>1
<1>2. c \in Around(p, b) /\ c \in Block(Len(p)) /\ b \in Around(p, b)
  <2>1. Around(p, b) = Around(p, c) \cup {b}
    BY <1>1, AroundStep
  <2>2. c \in Block(Len(p))
    BY <1>1, StatementType
  <2>3. c \in Around(p, c)
    BY <2>2, BlockItself
  <2> QED BY <2>1, <2>2, <2>3
<1>3. Inside(p, b) = Append(Inside(p, c), b)
  BY <1>1, InsideStep DEF Entered
<1>4. Inside(p, c) \in Seq(Block(Len(p)))
  BY <1>2, InsideLined DEF Lined
<1>5. Len(Inside(p, b)) = Len(Inside(p, c)) + 1 /\ Inside(p, b)[Len(Inside(p, b))] = b
  <2> DEFINE u == Inside(p, c)
             S == Block(Len(p))
  <2>1. u \in Seq(S) /\ b \in S
    BY <1>4
  <2> HIDE DEF u, S
  <2>2. Len(Append(u, b)) = Len(u) + 1 /\ Append(u, b)[Len(u) + 1] = b
    BY <2>1
  <2> QED BY <1>3, <2>2 DEF u
<1>6. /\ Len(r) = Len(Inside(p, b)) /\ r \in Seq({r[i] : i \in 1..Len(r)}) /\ Len(r) \in Nat
      /\ \A i \in 1..Len(r) : r[i] = Region(p, st2, Inside(p, b)[i])
  <2>1. RegionsOK(p, st2, b, r)
    BY RegionAt
  <2> HIDE DEF r
  <2> QED BY <2>1 DEF RegionsOK
<1>7. /\ Len(s) = Len(Inside(p, c)) /\ s \in Seq({s[i] : i \in 1..Len(s)}) /\ Len(s) \in Nat
  BY <1>2, RegionAt DEF RegionsOK
<1>8. /\ Len(Inside(p, c)) \in 0..Len(r)
      /\ s = SubSeq(r, 1, Len(Inside(p, c)))
  BY <1>2, RegionsOut
<1>9. r[Len(r)] = Region(p, st2, b)
  BY <1>5, <1>6, <1>7
<1> HIDE DEF r, s, c
<1>10. \A i \in 1..Len(s) : r[i] = s[i]
  BY <1>6, <1>7, <1>8
<1>11. r = Append(s, Region(p, st2, b))
  <2> DEFINE S == {s[i] : i \in 1..Len(s)}
             T == {r[i] : i \in 1..Len(r)}
             e == Region(p, st2, b)
  <2>1. s \in Seq(S) /\ r \in Seq(T) /\ Len(r) = Len(s) + 1 /\ r[Len(r)] = e
    BY <1>5, <1>6, <1>7, <1>9
  <2> HIDE DEF S, T, e
  <2>2. r = Append(s, e)
    BY <1>10, <2>1, OneMore
  <2> QED BY <2>2 DEF e
<1> QED BY <1>11 DEF r, s, c

(* The same tries, whose frames have not changed. *)
LEMMA RegionsSame ==
  ASSUME NEW p, WellFormed(p), NEW c \in Block(Len(p)), NEW b, Inside(p, b) = Inside(p, c),
         NEW st, NEW st2, \A t \in Framed(p, c) : FrameFor(st, t) = FrameFor(st2, t)
  PROVE  Regions(p, st2, b) = Regions(p, st, c)
<1> DEFINE s == Inside(p, c)
<1>1. \A i \in 1..Len(s) : s[i] \in TryBlocks(p, c)
  BY InsideLined DEF Lined
<1>2. ASSUME NEW d \in TryBlocks(p, c) PROVE Region(p, st2, d) = Region(p, st, d)
  <2>1. d.part = "fin" => d.of \in Framed(p, c)
    BY DEF TryBlocks, Framed, FrameOf
  <2> QED BY <2>1 DEF Region
<1>3. Regions(p, st2, b) = [i \in 1..Len(s) |-> Region(p, st2, s[i])]
      /\ Regions(p, st, c) = [i \in 1..Len(s) |-> Region(p, st, s[i])]
  BY DEF Regions
<1> HIDE DEF s
<1> QED BY <1>1, <1>2, <1>3

(* The signals of the work an instruction leaves. *)
LEMMA Signals ==
  ASSUME NEW p, NEW w
  PROVE  /\ w.goal \in {"run", "fall"} /\ w.exc = 0 => Plain(p, w) = Language!None
         /\ w.goal = "throw" => Plain(p, w) = Language!Raising(w.exc)
         /\ w.goal \in Exits /\ w.exc = 0 =>
              Plain(p, w) = Language!Leaving(Len(Inside(p, p[w.to].in)))
         /\ w.goal \in Exits => /\ Plain(p, w).kind = "leave"
                                /\ Plain(p, w).depth = Len(Inside(p, p[w.to].in))
<1> DEFINE d == Len(Inside(p, p[w.to].in))
           g == w.goal
<1> HIDE DEF d
<1>1. Plain(p, w) = [kind  |-> CASE g \in {"throw", "caught"} -> "raise"
                                 [] g \in Exits -> "leave"
                                 [] OTHER -> "none",
                     exc   |-> w.exc,
                     depth |-> IF g \in Exits THEN d ELSE 0]
  BY DEF Plain, d
<1> HIDE DEF g
<1>2. g \in {"run", "fall"} => Plain(p, w) = [kind |-> "none", exc |-> w.exc, depth |-> 0]
  BY <1>1 DEF Exits
<1>3. g = "throw" => Plain(p, w) = [kind |-> "raise", exc |-> w.exc, depth |-> 0]
  BY <1>1 DEF Exits
<1>4. g \in Exits => Plain(p, w) = [kind |-> "leave", exc |-> w.exc, depth |-> d]
  BY <1>1 DEF Exits
<1> USE DEF Language!None, Language!Raising, Language!Leaving, Language!Signal
<1>5. g \in {"run", "fall"} /\ w.exc = 0 => Plain(p, w) = Language!None
  BY <1>2
<1>6. g = "throw" => Plain(p, w) = Language!Raising(w.exc)
  BY <1>3
<1>7. g \in Exits /\ w.exc = 0 => Plain(p, w) = Language!Leaving(d)
  BY <1>4
<1>8. g \in Exits => Plain(p, w).kind = "leave" /\ Plain(p, w).depth = d
  BY <1>4
<1> QED BY <1>5, <1>6, <1>7, <1>8 DEF d, g

(* The step the abstract specification takes. *)
Mapped == [Language!Next]_(Language!absVars)

(* Both ends of a step of a running program. *)
Step ==
  /\ TypeInv /\ NestInv /\ TypeInv' /\ NestInv' /\ prog' = prog
  /\ status = "running" /\ status' = "running"

(* What both ends give. *)
LEMMA StepFacts ==
  ASSUME Step
  PROVE  /\ WellFormed(prog) /\ pos \in Block(Len(prog)) /\ pos' \in Block(Len(prog))
         /\ IsBlock(prog, pos) /\ IsBlock(prog, pos')
         /\ regionsBar = Regions(prog, stack, pos) /\ regionsBar' = Regions(prog, stack', pos')
         /\ signalBar = IF work.goal = "caught" THEN Landed(held[current]) ELSE Plain(prog, work)
         /\ signalBar' = IF work'.goal = "caught" THEN Landed(held'[current']) ELSE Plain(prog, work')
         /\ stack \in Seq(FrameType(prog)) /\ stack' \in Seq(FrameType(prog))
         /\ Mirrors(stack, Framed(prog, pos)) /\ Mirrors(stack', Framed(prog, pos'))
         /\ Framed(prog, pos) \subseteq Nat /\ Framed(prog, pos') \subseteq Nat
         /\ WorkOK(prog, work, pos) /\ WorkOK(prog, work', pos')
<1>1. TypeInv /\ NestInv /\ status = "running" /\ prog' = prog
  BY DEF Step
<1>2. TypeInv' /\ NestInv' /\ status' = "running"
  BY DEF Step
<1>3. WellFormed(prog) /\ Len(prog) \in Nat
  BY <1>1, ProgramFacts
<1>4. /\ pos \in Block(Len(prog)) /\ IsBlock(prog, pos) /\ stack \in Seq(FrameType(prog))
      /\ Mirrors(stack, Framed(prog, pos)) /\ WorkOK(prog, work, pos)
  BY <1>1 DEF TypeInv, NestInv, RunningOK
<1>5. /\ pos' \in Block(Len(prog)) /\ IsBlock(prog, pos') /\ stack' \in Seq(FrameType(prog))
      /\ Mirrors(stack', Framed(prog, pos')) /\ WorkOK(prog, work', pos')
  BY <1>1, <1>2 DEF TypeInv, NestInv, RunningOK
<1>6. \A b \in Block(Len(prog)) : IsBlock(prog, b) => Framed(prog, b) \subseteq Nat
  <2> SUFFICES ASSUME NEW b \in Block(Len(prog)), IsBlock(prog, b) PROVE Framed(prog, b) \subseteq Nat
    OBVIOUS
  <2>1. \A u \in Framed(prog, b) : u \in 1..Len(prog)
    BY <1>3, MemberBlock
  <2> QED BY <1>3, <2>1
<1>7. /\ regionsBar = Regions(prog, stack, pos)
      /\ signalBar = IF work.goal = "caught" THEN Landed(held[current]) ELSE Plain(prog, work)
  BY <1>1, BarsAre DEF BarsOK
<1>8. /\ regionsBar' = Regions(prog, stack', pos')
      /\ signalBar' = IF work'.goal = "caught" THEN Landed(held'[current']) ELSE Plain(prog, work')
  BY <1>1, <1>2, BarsNext DEF BarsOK
<1> QED BY <1>3, <1>4, <1>5, <1>6, <1>7, <1>8

(* A step within a block, between blocks of one try, out of some tries and *)
(* into one.                                                               *)
LEMMA SameTries ==
  ASSUME Step, stack' = stack, Inside(prog, pos') = Inside(prog, pos)
  PROVE  regionsBar' = regionsBar
BY StepFacts, RegionsSame

(* A step out to a block around control drops the regions further in. *)
LEMMA Outwards ==
  ASSUME Step, pos' \in Around(prog, pos), Prefix(stack, stack') \/ Prefix(stack', stack)
  PROVE  /\ Len(Inside(prog, pos')) \in 0..Len(regionsBar)
         /\ regionsBar' = SubSeq(regionsBar, 1, Len(Inside(prog, pos')))
<1>1. Framed(prog, pos') \subseteq Framed(prog, pos)
  <2>1. Around(prog, pos') \subseteq Around(prog, pos)
    BY StepFacts, AroundNested DEF Nested
  <2> QED BY <2>1 DEF Framed
<1>2. Framing(prog, stack, pos) /\ Framing(prog, stack', pos')
  BY StepFacts DEF Framing
<1>3. \A t \in Framed(prog, pos) \cap Framed(prog, pos') : FrameFor(stack, t) = FrameFor(stack', t)
  BY <1>2, FramesKept
<1>4. \A t \in Framed(prog, pos') : FrameFor(stack, t) = FrameFor(stack', t)
  BY <1>1, <1>3
<1> QED BY <1>4, StepFacts, RegionsOut

(* A step into a block of a statement adds a region when it is a try. *)
LEMMA Inwards ==
  ASSUME Step, NEW n \in 1..Len(prog), pos = prog[n].in, pos'.of = n,
         Prefix(stack, stack') \/ Prefix(stack', stack)
  PROVE  regionsBar' = IF IsTry(prog, pos') THEN Append(regionsBar, Region(prog, stack', pos'))
                                            ELSE regionsBar
<1>1. Framed(prog, pos) \subseteq Framed(prog, pos')
  <2>1. Around(prog, pos') = Around(prog, pos) \cup {pos'}
    BY StepFacts, AroundStep
  <2> QED BY <2>1 DEF Framed
<1>2. Framing(prog, stack, pos) /\ Framing(prog, stack', pos')
  BY StepFacts DEF Framing
<1>3. \A t \in Framed(prog, pos) \cap Framed(prog, pos') : FrameFor(stack, t) = FrameFor(stack', t)
  BY <1>2, FramesKept
<1>4. \A t \in Framed(prog, pos) : FrameFor(stack, t) = FrameFor(stack', t)
  BY <1>1, <1>3
<1>5. CASE IsTry(prog, pos')
  <2>1. pos'.of \in 1..Len(prog) /\ prog[pos'.of].in = pos
    OBVIOUS
  <2>2. Regions(prog, stack', pos') = Append(Regions(prog, stack, pos), Region(prog, stack', pos'))
    <3> DEFINE b == pos'
               u == stack'
    <3>1. /\ WellFormed(prog) /\ b \in Block(Len(prog)) /\ IsTry(prog, b)
          /\ \A t \in Framed(prog, prog[b.of].in) : FrameFor(stack, t) = FrameFor(u, t)
      BY <1>4, <1>5, <2>1, StepFacts
    <3> HIDE DEF b, u
    <3>2. Regions(prog, u, b) = Append(Regions(prog, stack, prog[b.of].in), Region(prog, u, b))
      BY ONLY <3>1, RegionsIn
    <3> QED BY <2>1, <3>2 DEF b, u
  <2> QED BY <1>5, <2>2, StepFacts
<1>6. CASE ~IsTry(prog, pos')
  <2>1. Inside(prog, pos') = Inside(prog, pos)
    BY <1>6, StepFacts, InsideStep DEF Entered
  <2> QED BY <1>4, <1>6, <2>1, StepFacts, RegionsSame
<1> QED BY <1>5, <1>6

(* A step that changes nothing in the language. *)
LEMMA Kept == regionsBar' = regionsBar /\ signalBar' = signalBar => Mapped
BY DEF Mapped, Language!absVars

(* Nothing is in flight while statements execute. *)
LEMMA Quiet == Step /\ work = Running => signalBar = Language!None
<1> SUFFICES ASSUME Step, work = Running PROVE signalBar = Language!None
  OBVIOUS
<1>1. work.goal = "run" /\ work.exc = 0
  BY DEF Running, Work
<1> QED BY <1>1, StepFacts, Signals

(* Nor once they go on executing. *)
LEMMA QuietNext == Step /\ work' = Running => signalBar' = Language!None
<1> SUFFICES ASSUME Step, work' = Running PROVE signalBar' = Language!None
  OBVIOUS
<1>1. work'.goal = "run" /\ work'.exc = 0
  BY DEF Running, Work
<1> QED BY <1>1, StepFacts, Signals

(* A statement of the program is one TrySemantics knows of. *)
LEMMA KnownStatement ==
  ASSUME TypeInv, NEW n \in 1..Len(prog)
  PROVE  n \in 1..MaxLen
<1>1. prog \in Programs
  BY DEF TypeInv
<1>2. Len(prog) <= MaxLen /\ MaxLen \in Nat /\ Len(prog) \in Nat
  BY <1>1, ProgramsAssumption, ProgramFacts
<1> QED BY <1>2

(* Straight-line code begins: an exception is raised, an exit is on its    *)
(* way, or the end of a block goes unnoticed.                              *)
LEMMA BeginMapped ==
  ASSUME Step, Executing, prog' = prog, pos' = pos, stack' = stack, NEW w, work' = w, w.exc = 0,
         w.goal \in Exits \cup {"fall"}
  PROVE  Mapped
<1>1. regionsBar' = regionsBar
  BY SameTries
<1>2. signalBar = Language!None
  BY Quiet DEF Executing
<1>3. CASE w.goal = "fall"
  <2>1. signalBar' = Language!None
    BY <1>3, StepFacts, Signals
  <2> QED BY <1>1, <1>2, <2>1, Kept
<1>4. CASE w.goal \in Exits
  <2> DEFINE d == Len(Inside(prog, prog[w.to].in))
  <2>1. signalBar' = Language!Leaving(d)
    <3>1. w.goal # "caught"
      BY <1>4 DEF Exits
    <3> QED BY <1>4, <3>1, StepFacts, Signals
  <2>2. d \in 0..Len(regionsBar)
    <3>1. WellFormed(prog) /\ pos \in Block(Len(prog)) /\ regionsBar = Regions(prog, stack, pos)
      BY StepFacts
    <3>2. PICK c \in Around(prog, pos) : c.of = w.to /\ KindOf(prog, c) \in Leaves(w.goal)
      BY <1>4, StepFacts DEF WorkOK, ExitOK
    <3>3. ~IsTry(prog, c) /\ c.of # 0
      BY <1>4, <3>2 DEF Leaves, Exits, IsTry, KindOf
    <3>4. c.of \in 1..Len(prog)
      <4>1. c \in Block(Len(prog))
        BY <3>1, <3>2, AroundNested DEF Nested
      <4>2. Len(prog) \in Nat /\ c.of \in 0..Len(prog)
        BY <3>1, <4>1 DEF Block, WellFormed
      <4> QED BY <3>3, <4>2
    <3>5. Inside(prog, c) = Inside(prog, prog[w.to].in)
      BY <3>1, <3>2, <3>3, <3>4, InsideStep DEF Entered
    <3>6. Len(Inside(prog, c)) \in 0..Len(Inside(prog, pos))
      BY <3>1, <3>2, InsideLined DEF Lined
    <3>7. Len(regionsBar) = Len(Inside(prog, pos))
      BY <3>1, RegionAt DEF RegionsOK
    <3> QED BY <3>5, <3>6, <3>7
  <2> HIDE DEF d
  <2>3. Language!Leave(d)
    BY <1>1, <1>2, <2>1, <2>2 DEF Language!Leave
  <2> QED BY <2>2, <2>3 DEF Mapped, Language!Next
<1> QED BY <1>3, <1>4

(* An exception is raised. *)
LEMMA RaiseMapped ==
  ASSUME Step, Executing, prog' = prog, pos' = pos, stack' = stack, NEW n \in 1..Len(prog),
         work'.goal = "throw", work'.exc = n
  PROVE  Mapped
<1>1. regionsBar' = regionsBar
  BY SameTries
<1>2. signalBar = Language!None
  BY Quiet DEF Executing
<1>3. signalBar' = Language!Raising(n)
  BY StepFacts, Signals
<1>4. n \in 1..MaxLen
  BY KnownStatement DEF Step
<1>5. Language!Raise(n)
  BY <1>1, <1>2, <1>3 DEF Language!Raise
<1> QED BY <1>4, <1>5 DEF Mapped, Language!Next

(* pantja, a runtime error and the exits. *)
LEMMA PlansMapped ==
  ASSUME Step, NEW n \in 1..Len(prog),
         Throw(n) \/ RuntimeError(n) \/ Break(n) \/ Continue(n) \/ Return(n)
  PROVE  Mapped
<1>1. Executing /\ prog' = prog /\ pos' = pos /\ stack' = stack
  BY DEF Throw, RuntimeError, Break, Continue, Return, Reaches, Begin
<1>2. CASE Throw(n) \/ RuntimeError(n)
  <2>1. work'.goal = "throw" /\ work'.exc = n
    BY <1>2 DEF Throw, RuntimeError, Begin, Work
  <2> QED BY <1>1, <2>1, RaiseMapped
<1>3. CASE Break(n) \/ Continue(n) \/ Return(n)
  <2>1. work'.goal \in Exits \cup {"fall"} /\ work'.exc = 0
    BY <1>3 DEF Break, Continue, Return, Begin, Work, Exits
  <2> QED BY <1>1, <2>1, BeginMapped
<1> QED BY <1>2, <1>3

(* The ends of blocks that plan what comes next. *)
LEMMA EndPlansMapped ==
  ASSUME Step, EndTryBody \/ EndCatch \/ EndKuna \/ EndYaqha
  PROVE  Mapped
<1>1. /\ Executing /\ prog' = prog /\ pos' = pos /\ stack' = stack
      /\ work'.goal \in Exits \cup {"fall"} /\ work'.exc = 0
  <2>1. CASE EndTryBody
    <3>1. ~Undefined
      BY DEF Step, Undefined
    <3> QED BY <2>1, <3>1 DEF EndTryBody, EndsBlock, TryPop, Work
  <2>2. CASE EndCatch \/ EndKuna \/ EndYaqha
    BY <2>2 DEF EndCatch, EndKuna, EndYaqha, EndsBlock, Begin, Work, Exits
  <2> QED BY <2>1, <2>2
<1> QED BY <1>1, BeginMapped

(* A push, and a pop. *)
LEMMA PrefixMore ==
  ASSUME NEW R, NEW r \in Seq(R), NEW e PROVE Prefix(r, Append(r, e))
<1>1. /\ Len(r) \in Nat /\ Len(Append(r, e)) = Len(r) + 1
      /\ \A i \in 1..Len(r) : Append(r, e)[i] = r[i]
  OBVIOUS
<1> QED BY <1>1 DEF Prefix

(* What a pop leaves. *)
LEMMA PrefixFront ==
  ASSUME NEW R, NEW r \in Seq(R), r # << >> PROVE Prefix(Front(r), r)
<1>0. Len(r) \in Nat /\ Len(r) # 0
  OBVIOUS
<1>1. /\ Len(Front(r)) = Len(r) - 1
      /\ \A i \in 1..(Len(r) - 1) : Front(r)[i] = r[i]
  BY <1>0, FrontOf DEF Front
<1> QED BY <1>0, <1>1 DEF Prefix

(* Control goes into a block: of a try, or of anything else. *)
LEMMA EntersMapped ==
  ASSUME Step, NEW n \in 1..Len(prog), Reaches(n, prog[n].kind), work' = work,
         pos'.of = n, pos'.part # "fin", Prefix(stack, stack'),
         prog[n].kind = "try" => pos'.part = "body"
  PROVE  Mapped
<1>1. pos = prog[n].in /\ work = Running /\ work' = Running
  BY DEF Reaches, Executing
<1>2. signalBar = Language!None /\ signalBar' = Language!None
  BY <1>1, Quiet, QuietNext
<1>3. regionsBar' = IF IsTry(prog, pos') THEN Append(regionsBar, Region(prog, stack', pos'))
                                         ELSE regionsBar
  BY <1>1, Inwards
<1>4. CASE ~IsTry(prog, pos')
  BY <1>2, <1>3, <1>4, Kept
<1>5. CASE IsTry(prog, pos')
  <2>1. n \in 1..MaxLen /\ prog[n].cat \in {"none", "typed", "any"} /\ prog[n].fin \in BOOLEAN
    <3>1. prog[n] \in Statement(n)
      BY StepFacts, StatementType
    <3> QED BY <3>1, KnownStatement DEF Step, Statement
  <2>2. pos'.part = "body"
    BY <1>5 DEF IsTry, KindOf
  <2>3. Plain(prog, Running) = Language!None
    BY Signals DEF Running, Work
  <2>4. Region(prog, stack', pos') =
          [try |-> n, phase |-> "body", cat |-> prog[n].cat, fin |-> prog[n].fin, then |-> Language!None]
    BY <2>2, <2>3 DEF Region
  <2>5. Language!Enter(n, prog[n].cat, prog[n].fin)
    BY <1>2, <1>3, <1>5, <2>4 DEF Language!Enter
  <2> QED BY <2>1, <2>5 DEF Mapped, Language!Next, Language!Catches
<1> QED BY <1>4, <1>5

(* The statements with blocks of their own. *)
LEMMA IntoMapped ==
  ASSUME Step, NEW n \in 1..Len(prog),
         Call(n) \/ EnterLoop(n) \/ EnterSwitch(n) \/ EnterTry(n)
  PROVE  Mapped
<1>0. stack \in Seq(FrameType(prog))
  BY StepFacts
<1>1. CASE Call(n)
  <2>1. /\ Reaches(n, prog[n].kind) /\ work' = work /\ pos'.of = n /\ pos'.part # "fin"
        /\ prog[n].kind = "try" => pos'.part = "body"
        /\ stack' = Append(stack, Frame("call", n, Running))
    BY <1>1 DEF Call, Reaches, GoTo
  <2>2. Prefix(stack, stack')
    BY <1>0, <2>1, PrefixMore
  <2> QED BY <2>1, <2>2, EntersMapped
<1>2. CASE EnterLoop(n) \/ EnterSwitch(n) \/ EnterTry(n)
  <2>1. /\ Reaches(n, prog[n].kind) /\ work' = work /\ stack' = stack
        /\ pos'.of = n /\ pos'.part # "fin"
        /\ prog[n].kind = "try" => pos'.part = "body"
    BY <1>2 DEF EnterLoop, EnterSwitch, EnterTry, Reaches, GoTo
  <2>2. Prefix(stack, stack')
    BY <1>0, <2>1 DEF Prefix
  <2> QED BY <2>1, <2>2, EntersMapped
<1> QED BY <1>1, <1>2

(* A try that what is in flight has nothing to run in. *)
Unheeding(c) ==
  /\ prog[c.of].fin => c.part = "fin"
  /\ signalBar.kind = "raise" => ~(c.part = "body" /\ prog[c.of].cat = "any")

(* The tries further in than c are idle regions. *)
LEMMA IdleWithin ==
  ASSUME Step, NEW c \in Around(prog, pos),
         \A d \in TryBlocks(prog, pos) : d.of > c.of => Unheeding(d)
  PROVE  /\ Len(Inside(prog, c)) \in 0..Len(regionsBar)
         /\ \A i \in (Len(Inside(prog, c)) + 1)..Len(regionsBar) : Language!Idle(regionsBar[i])
<1> DEFINE s == Inside(prog, pos)
           k == Len(Inside(prog, c))
<1>1. Lined(prog, pos) /\ RegionsOK(prog, stack, pos, regionsBar)
  BY StepFacts, InsideLined, RegionAt
<1>2. /\ Len(regionsBar) = Len(s) /\ Len(s) \in Nat
      /\ \A i \in 1..Len(regionsBar) : s[i] \in TryBlocks(prog, pos) /\ regionsBar[i] = Region(prog, stack, s[i])
  BY <1>1 DEF RegionsOK
<1>3. k \in 0..Len(s) /\ \A i \in (k + 1)..Len(s) : s[i].of > c.of
  BY <1>1 DEF Lined
<1> HIDE DEF s, k
<1>4. ASSUME NEW i \in (k + 1)..Len(regionsBar) PROVE Language!Idle(regionsBar[i])
  <2>1. i \in 1..Len(regionsBar) /\ i \in (k + 1)..Len(s)
    BY <1>2, <1>3
  <2>2. Unheeding(s[i]) /\ regionsBar[i] = Region(prog, stack, s[i])
    BY <1>2, <1>3, <2>1
  <2> DEFINE d == s[i]
             r == regionsBar[i]
  <2>3. r.fin = prog[d.of].fin /\ r.phase = d.part /\ r.cat = prog[d.of].cat
    BY <2>2 DEF Region
  <2> HIDE DEF r, d
  <2>4. Unheeding(d)
    BY <2>2 DEF d
  <2>5. Language!Idle(r)
    BY <2>3, <2>4 DEF Unheeding, Language!Idle, Language!OwesFinally, Language!CatchesAll
  <2> QED BY <2>5 DEF r
<1> QED BY <1>2, <1>3, <1>4 DEF k

(* What is in flight leaves the tries further in than c. *)
LEMMA DropMapped ==
  ASSUME Step, pos' \in Around(prog, pos), Prefix(stack, stack') \/ Prefix(stack', stack),
         NEW c \in Around(prog, pos), Inside(prog, c) = Inside(prog, pos'),
         \A d \in TryBlocks(prog, pos) : d.of > c.of => Unheeding(d),
         signalBar.kind \in {"raise", "leave"},
         signalBar.kind = "leave" => signalBar.depth = Len(Inside(prog, c)) /\ signalBar' = Language!None,
         signalBar.kind = "raise" => signalBar' = signalBar
  PROVE  Mapped
<1> DEFINE k == Len(Inside(prog, c))
<1>1. k \in 0..Len(regionsBar) /\ \A i \in (k + 1)..Len(regionsBar) : Language!Idle(regionsBar[i])
  BY IdleWithin
<1>2. regionsBar' = SubSeq(regionsBar, 1, k)
  BY Outwards
<1>3. signalBar.kind = "leave" => signalBar.depth = k /\ signalBar' = Language!None
  OBVIOUS
<1> HIDE DEF k
<1>4. Language!DropTo(k)
  BY <1>1, <1>2 DEF Language!DropTo
<1>5. signalBar.kind = "leave" => k >= signalBar.depth
  BY <1>1, <1>3
<1>6. signalBar' = IF signalBar.kind = "leave" /\ k = signalBar.depth THEN Language!None ELSE signalBar
  <2>1. "raise" # "leave"
    OBVIOUS
  <2> QED BY <1>3, <2>1
<1>7. Language!Drop
  BY <1>1, <1>4, <1>5, <1>6 DEF Language!Drop
<1> QED BY <1>7 DEF Mapped, Language!Next

(* An exit arrives. *)
LEMMA ExitMapped ==
  ASSUME Step, work.goal \in Exits, work.todo = << >>, work' = Running,
         pos' = prog[work.to].in \/ (pos'.of = work.to /\ pos'.part = "body" /\ prog[work.to].kind = "loop"),
         Prefix(stack, stack') \/ Prefix(stack', stack)
  PROVE  Mapped
<1>1. WellFormed(prog) /\ pos \in Block(Len(prog)) /\ IsBlock(prog, pos) /\ ExitOK(prog, work, pos)
  BY StepFacts DEF WorkOK
<1>2. PICK c \in Around(prog, pos) : c.of = work.to /\ KindOf(prog, c) \in Leaves(work.goal)
  BY <1>1 DEF ExitOK
<1>3. c \in Block(Len(prog)) /\ c.of # 0 /\ c.of \in 1..Len(prog) /\ ~IsTry(prog, c)
      /\ IsBlock(prog, c) /\ KindOf(prog, c) = prog[c.of].kind
  <2>1. c.of # 0 /\ ~IsTry(prog, c) /\ KindOf(prog, c) = prog[c.of].kind
    BY <1>2 DEF Leaves, Exits, IsTry, KindOf
  <2> QED BY <1>1, <2>1, BlockType
<1>4. Inside(prog, c) = Inside(prog, prog[work.to].in)
  BY <1>1, <1>2, <1>3, InsideStep DEF Entered
<1>5. pos' \in Around(prog, pos) /\ Inside(prog, c) = Inside(prog, pos')
  <2>1. CASE pos' = prog[work.to].in
    <3>1. pos' \in Around(prog, pos')
      BY <1>1, BlockItself
    <3> QED BY <1>1, <1>2, <1>3, <1>4, <2>1, <3>1, Outward
  <2>2. CASE pos'.of = work.to /\ pos'.part = "body" /\ prog[work.to].kind = "loop"
    <3>1. c.part = "body"
      BY <1>1, <1>2, <1>3, <2>2, BlockParts
    <3>2. pos' \in Block(Len(prog))
      BY StepFacts
    <3>3. pos' = c
      BY <1>2, <1>3, <2>2, <3>1, <3>2 DEF Block
    <3> QED BY <3>3
  <2> QED BY <2>1, <2>2
<1>6. signalBar.kind = "leave" /\ signalBar.depth = Len(Inside(prog, c))
  <2>1. work.goal # "caught"
    BY DEF Exits
  <2> QED BY <1>4, <2>1, StepFacts, Signals
<1>7. ASSUME NEW d \in TryBlocks(prog, pos), d.of > c.of PROVE Unheeding(d)
  <2>1. {t \in Due(prog, pos) : t > work.to} = {}
    BY <1>1 DEF ExitOK, Falling
  <2>2. ~OnFinallyStack(prog, d)
    BY <1>2, <1>7, <2>1 DEF Due, TryBlocks
  <2>3. d.part \in {"body", "catch", "fin"} /\ prog[d.of].fin \in BOOLEAN
    <3>1. d \in Around(prog, pos) /\ IsTry(prog, d)
      BY DEF TryBlocks
    <3>2. d \in Block(Len(prog)) /\ IsBlock(prog, d) /\ d.of # 0
      BY <1>1, <3>1, BlockType DEF IsTry, KindOf
    <3>3. d.of \in 1..Len(prog)
      BY <1>1, <3>1, <3>2, BlockType
    <3> QED BY <1>1, <3>1, <3>2, <3>3, BlockParts, StatementType DEF Statement
  <2> QED BY <1>6, <2>2, <2>3 DEF Unheeding, OnFinallyStack, TryBlocks
<1>8. signalBar' = Language!None
  BY QuietNext
<1> QED BY <1>2, <1>5, <1>6, <1>7, <1>8, DropMapped

(* A step out of a block that is no try goes unnoticed. *)
LEMMA OutMapped ==
  ASSUME Step, pos.of # 0, pos' = prog[pos.of].in, ~IsTry(prog, pos),
         Prefix(stack, stack') \/ Prefix(stack', stack),
         signalBar' = signalBar
  PROVE  Mapped
<1>1. WellFormed(prog) /\ pos \in Block(Len(prog)) /\ pos.of \in 1..Len(prog)
  BY StepFacts DEF Block, WellFormed
<1>2. pos \in Around(prog, pos) /\ pos' \in Around(prog, pos')
  BY <1>1, BlockItself
<1>3. pos' \in Around(prog, pos)
  BY <1>1, <1>2, Outward
<1>4. Inside(prog, pos') = Inside(prog, pos)
  BY <1>1, InsideStep DEF Entered
<1> DEFINE r == regionsBar
<1>5. regionsBar' = SubSeq(r, 1, Len(Inside(prog, pos)))
  BY <1>3, <1>4, Outwards
<1>6. RegionsOK(prog, stack, pos, r)
  BY StepFacts, RegionAt
<1> HIDE DEF r
<1>7. Len(Inside(prog, pos)) = Len(r) /\ SubSeq(r, 1, Len(r)) = r
  BY <1>6 DEF RegionsOK
<1> QED BY <1>5, <1>7, Kept DEF r

(* The innermost region, and the ones around it. *)
LEMMA TopRegion ==
  ASSUME Step, IsTry(prog, pos)
  PROVE  /\ regionsBar # << >> /\ Len(regionsBar) \in Nat
         /\ Language!Top = Region(prog, stack, pos)
         /\ Len(regionsBar) = Len(Inside(prog, pos))
         /\ pos.of \in 1..Len(prog) /\ prog[pos.of].in \in Around(prog, pos)
         /\ Len(Inside(prog, prog[pos.of].in)) = Len(regionsBar) - 1
<1> DEFINE in == prog[pos.of].in
<1>1. WellFormed(prog) /\ pos \in Block(Len(prog)) /\ pos.of \in 1..Len(prog)
  BY StepFacts DEF Block, WellFormed, IsTry, KindOf
<1>2. pos \in Around(prog, pos) /\ in \in Around(prog, in)
  BY <1>1, BlockItself
<1>3. in \in Around(prog, pos) /\ in \in Block(Len(prog))
  BY <1>1, <1>2, Outward
<1>4. Inside(prog, pos) = Append(Inside(prog, in), pos)
  BY <1>1, InsideStep DEF Entered
<1> DEFINE u == Inside(prog, in)
           S == Block(Len(prog))
<1>5. u \in Seq(S) /\ pos \in S
  BY <1>1, <1>3, InsideLined DEF Lined
<1>6. RegionsOK(prog, stack, pos, regionsBar)
  BY StepFacts, RegionAt
<1> HIDE DEF in, u, S
<1>7. Len(Append(u, pos)) = Len(u) + 1 /\ Append(u, pos)[Len(u) + 1] = pos /\ Len(u) \in Nat
  BY <1>5
<1>8. /\ Len(Inside(prog, pos)) = Len(u) + 1 /\ Inside(prog, pos)[Len(u) + 1] = pos
  BY <1>4, <1>7 DEF u
<1>9. Len(regionsBar) = Len(u) + 1 /\ regionsBar[Len(u) + 1] = Region(prog, stack, pos)
  BY <1>6, <1>7, <1>8 DEF RegionsOK
<1>10. regionsBar # << >>
  BY <1>7, <1>9
<1>11. Len(u) = Len(regionsBar) - 1
  BY <1>7, <1>9
<1> QED BY <1>1, <1>3, <1>7, <1>8, <1>9, <1>10, <1>11 DEF u, in, Language!Top

(* A try whose tukuyawi is not owed ends. *)
LEMMA PopMapped ==
  ASSUME Step, IsTry(prog, pos), pos' = prog[pos.of].in,
         prog[pos.of].fin => pos.part = "fin",
         Prefix(stack, stack') \/ Prefix(stack', stack),
         signalBar = Language!None, signalBar' = Language!Top.then
  PROVE  Mapped
<1>1. /\ regionsBar # << >>
      /\ Language!Top = Region(prog, stack, pos)
      /\ pos' \in Around(prog, pos)
      /\ Len(Inside(prog, pos')) = Len(regionsBar) - 1
  BY TopRegion
<1>2. regionsBar' = Language!Pop
  BY <1>1, Outwards DEF Language!Pop
<1> DEFINE r == Language!Top
<1>3. r.fin = prog[pos.of].fin /\ r.phase = pos.part
  BY <1>1 DEF Region
<1> HIDE DEF r
<1>4. ~Language!OwesFinally(r)
  BY <1>3 DEF Language!OwesFinally
<1>5. Language!Finish
  BY <1>1, <1>2, <1>4 DEF Language!Finish, r
<1> QED BY <1>5 DEF Mapped, Language!Next

(* The end of a loop's body, of a function, and what a plain jump does. *)
LEMMA LoopEndMapped ==
  ASSUME Step, EndLoopBody \/ JumpToContinue
  PROVE  Mapped
<1>1. CASE EndLoopBody
  <2>1. /\ Executing /\ KindOf(prog, pos) = "loop" /\ pos.part = "body"
        /\ stack' = stack /\ work' = Running
        /\ pos' = [of |-> pos.of, part |-> "body"] \/ pos' = prog[pos.of].in
    BY <1>1 DEF EndLoopBody, EndsBlock, NextRound, AfterStmt, GoTo
  <2>2. signalBar' = Language!None /\ signalBar = Language!None /\ work = Running
    BY <2>1, Quiet, QuietNext DEF Executing
  <2>3. CASE pos' = [of |-> pos.of, part |-> "body"]
    <3>1. pos' = pos
      BY <2>1, <2>3, StepFacts DEF Block
    <3> QED BY <2>1, <2>2, <3>1, SameTries, Kept
  <2>4. CASE pos' = prog[pos.of].in
    <3>1. pos.of # 0 /\ ~IsTry(prog, pos)
      BY <2>1 DEF KindOf, IsTry
    <3>2. Prefix(stack, stack')
      BY <2>1, StepFacts, PrefixSelf
    <3> QED BY <2>2, <2>4, <3>1, <3>2, OutMapped
  <2> QED BY <2>1, <2>3, <2>4
<1>2. CASE JumpToContinue
  <2>1. /\ work.goal = "continue" /\ work.todo = << >> /\ stack' = stack /\ work' = Running
        /\ pos' = [of |-> work.to, part |-> "body"] \/ pos' = prog[work.to].in
    BY <1>2 DEF JumpToContinue, Doing, NextRound, AfterStmt, GoTo
  <2>2. work.goal \in Exits
    BY <2>1 DEF Exits
  <2>3. prog[work.to].kind = "loop"
    <3>1. prog[work.to].kind \in Leaves(work.goal)
      BY <2>1, <2>2, Exiting DEF Step
    <3> QED BY <2>1, <3>1 DEF Leaves
  <2>4. Prefix(stack, stack')
    BY <2>1, StepFacts, PrefixSelf
  <2>5. pos' = prog[work.to].in \/ (pos'.of = work.to /\ pos'.part = "body" /\ prog[work.to].kind = "loop")
    BY <2>1, <2>3
  <2> QED BY <2>1, <2>2, <2>4, <2>5, ExitMapped
<1> QED BY <1>1, <1>2

(* The end of a function, and return. *)
LEMMA FunctionEndMapped ==
  ASSUME Step, EndFunction \/ JumpToEpilogue
  PROVE  Mapped
<1>0. ~Undefined
  BY DEF Step, Undefined
<1>1. stack # << >> /\ stack' = Front(stack) /\ work' = Running
  BY <1>0 DEF EndFunction, JumpToEpilogue, Epilogue, OnTop
<1>2. Prefix(stack', stack)
  BY <1>1, StepFacts, PrefixFront
<1>3. CASE EndFunction
  <2>1. Executing /\ KindOf(prog, pos) = "call" /\ pos' = prog[pos.of].in
    BY <1>0, <1>3 DEF EndFunction, EndsBlock, Epilogue, AfterStmt, GoTo
  <2>2. signalBar' = Language!None /\ signalBar = Language!None
    BY <1>1, <2>1, Quiet, QuietNext DEF Executing
  <2>3. pos.of # 0 /\ ~IsTry(prog, pos)
    BY <2>1 DEF KindOf, IsTry
  <2> QED BY <1>2, <2>1, <2>2, <2>3, OutMapped
<1>4. CASE JumpToEpilogue
  <2>1. work.goal = "return" /\ work.todo = << >> /\ pos' = prog[work.to].in
    BY <1>0, <1>4 DEF JumpToEpilogue, Doing, Epilogue, AfterStmt, GoTo
  <2>2. work.goal \in Exits
    BY <2>1 DEF Exits
  <2> QED BY <1>1, <1>2, <2>1, <2>2, ExitMapped
<1> QED BY <1>3, <1>4

(* The jump behind a try, a loop or a khiti. *)
LEMMA JumpMapped ==
  ASSUME Step, Jump
  PROVE  Mapped
<1>1. /\ work.goal \in {"fall", "break"} /\ work.todo = << >> /\ stack' = stack /\ work' = Running
      /\ pos' = prog[work.to].in
  BY DEF Jump, Doing, AfterStmt, GoTo
<1>2. Prefix(stack, stack')
  BY <1>1, StepFacts, PrefixSelf
<1>3. CASE work.goal = "break"
  BY <1>1, <1>2, <1>3, ExitMapped DEF Exits
<1>4. CASE work.goal = "fall"
  <2>1. FallOK(prog, work, pos)
    BY <1>4, StepFacts DEF WorkOK
  <2>2. signalBar' = Language!None /\ signalBar = Language!None
    <3>1. signalBar = Plain(prog, work) /\ work.exc = 0
      BY <1>4, <2>1, StepFacts DEF FallOK
    <3> QED BY <1>1, <1>4, <3>1, QuietNext, Signals
  <2>3. work.to \in 1..Len(prog)
    BY <2>1 DEF FallOK
  <2>4. CASE pos = prog[work.to].in
    <3>1. pos' = pos
      BY <1>1, <2>4
    <3> QED BY <1>1, <2>2, <3>1, SameTries, Kept
  <2>5. CASE pos.of = work.to /\ work.to \notin Due(prog, pos) /\ work.to \notin Framed(prog, pos)
    <3>1. pos.of # 0 /\ pos' = prog[pos.of].in
      BY <1>1, <2>3, <2>5, ProgramFacts DEF Step
    <3>2. CASE ~IsTry(prog, pos)
      BY <1>2, <2>2, <3>1, <3>2, OutMapped
    <3>3. CASE IsTry(prog, pos)
      <4>1. pos \in Around(prog, pos)
        BY StepFacts, BlockItself
      <4>2. ~OnFinallyStack(prog, pos) /\ pos.part # "fin"
        BY <2>5, <3>3, <4>1 DEF Due, Framed, FrameOf
      <4>3. pos.part \in {"body", "catch", "fin"}
        BY <3>3, StepFacts, BlockParts
      <4>4. ~prog[pos.of].fin
        BY <3>3, <4>2, <4>3 DEF OnFinallyStack
      <4>5. Language!Top.then = Language!None
        <5>1. Region(prog, stack, pos).then = Plain(prog, Running)
          BY <4>2 DEF Region
        <5>2. Plain(prog, Running) = Language!None
          BY Signals DEF Running, Work
        <5>3. Language!Top = Region(prog, stack, pos)
          BY <3>3, TopRegion
        <5> QED BY <5>1, <5>2, <5>3
      <4> QED BY <1>2, <2>2, <3>1, <3>3, <4>4, <4>5, PopMapped
    <3> QED BY <3>2, <3>3
  <2> QED BY <1>1, <2>1, <2>4, <2>5 DEF FallOK
<1> QED BY <1>1, <1>3, <1>4

(* A tukuyawi ends, and hands control back to what it was called by. *)
LEMMA EndFinallyMapped ==
  ASSUME Step, EndFinally
  PROVE  Mapped
<1> DEFINE t == pos.of
           v == Last(stack).then
<1>1. Executing /\ IsTry(prog, pos) /\ KindOf(prog, pos) = "try" /\ pos.part = "fin"
  BY DEF EndFinally, EndsBlock, IsTry
<1>2. OnTop("fin", t) /\ work' = v /\ stack' = Front(stack) /\ pos' = prog[t].in
  <2>1. ~Undefined
    BY DEF Step, Undefined
  <2> QED BY <2>1 DEF EndFinally, AfterStmt, GoTo
<1>3. /\ stack \in Seq(FrameType(prog)) /\ stack # << >> /\ Last(stack).of = t
      /\ \A i \in 1..Len(stack) : FrameOK(prog, stack[i])
  BY <1>2, StepFacts DEF Step, NestInv, RunningOK, OnTop
<1>4. Len(stack) \in 1..Len(stack) /\ Last(stack) = stack[Len(stack)]
  BY <1>3 DEF Last
<1>5. v.goal \notin {"run", "caught"}
  <2>1. FrameOK(prog, Last(stack)) /\ prog[t].kind # "call"
    BY <1>1, <1>3, <1>4 DEF KindOf
  <2> QED BY <1>3, <2>1 DEF FrameOK
<1>6. FrameFor(stack, t) = Last(stack)
  <2>1. t \in Framed(prog, pos)
    <3>1. pos \in Around(prog, pos)
      BY StepFacts, BlockItself
    <3> QED BY <1>1, <3>1 DEF Framed, FrameOf
  <2>2. Mirrors(stack, Framed(prog, pos)) /\ Framed(prog, pos) \subseteq Nat
    BY StepFacts
  <2>3. PICK i : OnlyFrame(stack, t, i)
    BY <1>3, <2>1, <2>2, TheFrame
  <2> QED BY <1>3, <1>4, <2>3 DEF OnlyFrame
<1>7. Language!Top.then = Plain(prog, v)
  <2>1. Language!Top = Region(prog, stack, pos)
    BY <1>1, TopRegion
  <2>2. Region(prog, stack, pos).then = Plain(prog, FrameFor(stack, pos.of).then)
    BY <1>1 DEF Region
  <2> QED BY <1>6, <2>1, <2>2
<1>8. signalBar' = Plain(prog, v) /\ signalBar = Language!None
  <2>1. work'.goal # "caught"
    BY <1>2, <1>5
  <2>2. signalBar' = Plain(prog, work')
    BY <2>1, StepFacts
  <2>3. signalBar = Language!None
    BY <1>1, Quiet DEF Executing
  <2> HIDE DEF v
  <2> QED BY <1>2, <2>2, <2>3
<1>9. Prefix(stack', stack)
  BY <1>2, <1>3, PrefixFront
<1> HIDE DEF v
<1> QED BY <1>1, <1>2, <1>7, <1>8, <1>9, PopMapped

(* The region of a try whose tukuyawi begins. *)
LEMMA FinRegion ==
  ASSUME Step, NEW c \in Around(prog, pos), IsTry(prog, c), NEW t, t = c.of, NEW e, e.of = t,
         stack' = Append(stack, e), e \in FrameType(prog), pos' = [of |-> t, part |-> "fin"]
  PROVE  LET k == Len(Inside(prog, c)) IN
         /\ k \in 1..Len(regionsBar) /\ Len(regionsBar) = Len(Inside(prog, pos))
         /\ regionsBar[k] = Region(prog, stack, c)
         /\ regionsBar' = Append(SubSeq(regionsBar, 1, k - 1),
                                 [try |-> t, phase |-> "fin", cat |-> prog[t].cat, fin |-> prog[t].fin,
                                  then |-> Plain(prog, e.then)])
<1> DEFINE k == Len(Inside(prog, c))
           in == prog[t].in
           b == [of |-> t, part |-> "fin"]
           st2 == stack'
<1>1. /\ WellFormed(prog) /\ pos \in Block(Len(prog)) /\ b \in Block(Len(prog))
      /\ stack \in Seq(FrameType(prog)) /\ stack' \in Seq(FrameType(prog))
      /\ regionsBar = Regions(prog, stack, pos) /\ regionsBar' = Regions(prog, st2, b)
  BY StepFacts
<1>2. c \in Block(Len(prog)) /\ t \in 1..Len(prog) /\ c.of # 0
  <2>1. c.of # 0
    BY DEF IsTry, KindOf
  <2> QED BY <1>1, <2>1, BlockType
<1>3. b.of = t /\ b.part = "fin" /\ IsTry(prog, b)
  BY <1>2 DEF IsTry, KindOf
<1>4. in \in Around(prog, pos) /\ in \in Block(Len(prog)) /\ Framed(prog, in) \subseteq Framed(prog, pos)
  <2>1. in \in Around(prog, in)
    BY <1>1, BlockItself
  <2> QED BY <1>1, <1>2, <2>1, Outward
<1>5. Framed(prog, in) \subseteq Framed(prog, b)
  <2>1. Around(prog, b) = Around(prog, in) \cup {b}
    BY <1>1, <1>2, <1>3, AroundStep
  <2> QED BY <2>1 DEF Framed
<1>6. \A u \in Framed(prog, in) : FrameFor(stack, u) = FrameFor(st2, u)
  <2>1. Framing(prog, stack, pos) /\ Framing(prog, st2, b)
    BY StepFacts DEF Framing
  <2>2. Prefix(stack, st2)
    BY <1>1, PrefixMore
  <2> HIDE DEF b, st2
  <2>3. \A u \in Framed(prog, pos) \cap Framed(prog, b) : FrameFor(stack, u) = FrameFor(st2, u)
    BY <2>1, <2>2, FramesKept
  <2> QED BY <1>4, <1>5, <2>3
<1>7. FrameFor(st2, t) = e
  <2>1. t \in Framed(prog, b)
    <3>1. b \in Around(prog, b)
      BY <1>1, BlockItself
    <3> QED BY <1>3, <3>1 DEF Framed, FrameOf
  <2>2. Mirrors(st2, Framed(prog, b)) /\ Framed(prog, b) \subseteq Nat
    BY StepFacts
  <2>3. PICK i : OnlyFrame(st2, t, i)
    BY <1>1, <2>1, <2>2, TheFrame
  <2>4. Len(st2) \in 1..Len(st2) /\ st2[Len(st2)] = e
    BY <1>1
  <2> QED BY <2>3, <2>4 DEF OnlyFrame
<1>8. Regions(prog, st2, b) = Append(Regions(prog, st2, in), Region(prog, st2, b))
  <2> HIDE DEF b, st2
  <2>1. in = prog[b.of].in
    BY <1>3
  <2> HIDE DEF in
  <2> QED BY <1>1, <1>3, <2>1, RegionsIn
<1>9. Regions(prog, st2, in) = SubSeq(regionsBar, 1, Len(Inside(prog, in)))
  <2> HIDE DEF in, st2
  <2> QED BY <1>1, <1>4, <1>6, RegionsOut
<1>10. Region(prog, st2, b) =
         [try |-> t, phase |-> "fin", cat |-> prog[t].cat, fin |-> prog[t].fin, then |-> Plain(prog, e.then)]
  <2> HIDE DEF st2
  <2> QED BY <1>7 DEF Region
<1>11. Len(Inside(prog, in)) = k - 1 /\ k \in Nat
  <2> DEFINE u == Inside(prog, in)
             S == Block(Len(prog))
  <2>1. Inside(prog, c) = Append(u, c)
    BY <1>1, <1>2, InsideStep DEF Entered
  <2>2. u \in Seq(S) /\ c \in S
    BY <1>1, <1>2, <1>4, InsideLined DEF Lined
  <2> HIDE DEF u, S
  <2>3. Len(Append(u, c)) = Len(u) + 1 /\ Len(u) \in Nat
    BY <2>2
  <2> QED BY <2>1, <2>3 DEF u
<1>12. /\ k \in 1..Len(regionsBar) /\ Len(regionsBar) = Len(Inside(prog, pos))
       /\ regionsBar[k] = Region(prog, stack, c)
  <2>1. Lined(prog, pos) /\ RegionsOK(prog, stack, pos, regionsBar)
    BY <1>1, InsideLined, RegionAt
  <2>2. k \in 0..Len(Inside(prog, pos)) /\ k > 0 /\ Inside(prog, pos)[k] = c
    BY <2>1 DEF Lined
  <2>3. Len(regionsBar) = Len(Inside(prog, pos)) /\ Len(regionsBar) \in Nat
        /\ \A i \in 1..Len(regionsBar) : regionsBar[i] = Region(prog, stack, Inside(prog, pos)[i])
    BY <2>1 DEF RegionsOK
  <2> HIDE DEF k
  <2> QED BY <2>2, <2>3
<1> HIDE DEF b, in, st2, k
<1> QED BY <1>1, <1>8, <1>9, <1>10, <1>11, <1>12 DEF k

(* A region with another phase, alone and on top of the others. *)
Rephased(r, x, y) == [r EXCEPT !.phase = x, !.then = y]
TopRephased(s, k, x, y) == [s EXCEPT ![k].phase = x, ![k].then = y]

(* What a region is then. *)
LEMMA PhaseSet ==
  ASSUME NEW t, NEW ph, NEW cat, NEW fin, NEW th, NEW x, NEW y,
         NEW r, r = [try |-> t, phase |-> ph, cat |-> cat, fin |-> fin, then |-> th]
  PROVE  Rephased(r, x, y) = [try |-> t, phase |-> x, cat |-> cat, fin |-> fin, then |-> y]
<1> DEFINE q == [r EXCEPT !.phase = x]
<1>1. r \in [try : {t}, phase : {ph}, cat : {cat}, fin : {fin}, then : {th}]
  OBVIOUS
<1>2. q = [try |-> r.try, phase |-> x, cat |-> r.cat, fin |-> r.fin, then |-> r.then]
  BY <1>1
<1>3. q = [try |-> t, phase |-> x, cat |-> cat, fin |-> fin, then |-> th]
  <2> HIDE DEF q
  <2> QED BY <1>2
<1> HIDE DEF q
<1>4. q \in [try : {t}, phase : {x}, cat : {cat}, fin : {fin}, then : {th}]
  BY <1>3
<1>5. [q EXCEPT !.then = y] = [try |-> q.try, phase |-> q.phase, cat |-> q.cat, fin |-> q.fin, then |-> y]
  BY <1>4
<1>6. [q EXCEPT !.then = y] = [try |-> t, phase |-> x, cat |-> cat, fin |-> fin, then |-> y]
  BY <1>3, <1>5
<1>7. Rephased(r, x, y) = [[r EXCEPT !.phase = x] EXCEPT !.then = y]
  BY DEF Rephased
<1> QED BY <1>6, <1>7 DEF q

(* The last region replaced is the others and the new one. *)
LEMMA TopSet ==
  ASSUME NEW S, NEW s \in Seq(S), NEW k, k = Len(s), k \in Nat, k > 0, NEW x, NEW y
  PROVE  TopRephased(s, k, x, y) = Append(SubSeq(s, 1, k - 1), Rephased(s[k], x, y))
<1> DEFINE e == [s[k] EXCEPT !.phase = x, !.then = y]
           T == S \cup {e}
           f == [s EXCEPT ![k].phase = x]
           g == [f EXCEPT ![k].then = y]
           h == [s EXCEPT ![k] = e]
<1>1. k \in 1..k /\ s = [i \in 1..k |-> s[i]] /\ DOMAIN s = 1..k
  OBVIOUS
<1>2. f[k] = [s[k] EXCEPT !.phase = x] /\ DOMAIN f = 1..k /\ \A i \in 1..k : i # k => f[i] = s[i]
  BY <1>1
<1>3. g[k] = [f[k] EXCEPT !.then = y] /\ DOMAIN g = 1..k /\ \A i \in 1..k : i # k => g[i] = f[i]
  <2> HIDE DEF f
  <2> QED BY <1>1, <1>2
<1>4. g[k] = e
  <2> HIDE DEF g, f
  <2> QED BY <1>2, <1>3
<1>5. g = [i \in 1..k |-> g[i]] /\ h = [i \in 1..k |-> h[i]]
  <2>1. g = [i \in 1..k |-> g[i]]
    <3> HIDE DEF f
    <3> QED BY <1>2
  <2>2. h = [i \in 1..k |-> h[i]]
    BY <1>1
  <2> QED BY <2>1, <2>2
<1>6. h[k] = e /\ \A i \in 1..k : i # k => h[i] = s[i]
  <2> HIDE DEF e
  <2> QED BY <1>1
<1> HIDE DEF e, f, g, h, T
<1>7. \A i \in 1..k : g[i] = h[i]
  BY <1>2, <1>3, <1>4, <1>6
<1>8. g = h
  <2>1. [i \in 1..k |-> g[i]] = [i \in 1..k |-> h[i]]
    BY <1>7
  <2> QED BY <1>5, <2>1
<1>9. h = Append(SubSeq(s, 1, k - 1), e)
  <2> DEFINE q == SubSeq(s, 1, k - 1)
  <2>1. q \in Seq(S) /\ Len(q) = k - 1 /\ \A i \in 1..(k - 1) : q[i] = s[i]
    BY <1>1
  <2> HIDE DEF q
  <2>2. h \in Seq(T) /\ Len(h) = k
    <3>1. \A i \in 1..k : h[i] \in T
      <4>1. \A i \in 1..k : s[i] \in S
        BY <1>1
      <4> QED BY <1>6, <4>1 DEF T
    <3>2. h \in [1..k -> T]
      BY <1>5, <3>1
    <3>3. h \in Seq(T)
      BY <3>2
    <3>4. DOMAIN h = 1..k
      BY <3>2
    <3> QED BY <3>3, <3>4
  <2>3. \A i \in 1..Len(q) : h[i] = q[i]
    BY <1>6, <2>1
  <2>4. h = Append(q, e)
    BY <1>6, <2>1, <2>2, <2>3, OneMore
  <2> QED BY <2>4 DEF q
<1>10. e = Rephased(s[k], x, y) /\ g = TopRephased(s, k, x, y)
  <2>1. e = Rephased(s[k], x, y)
    BY DEF e, Rephased
  <2>2. g = TopRephased(s, k, x, y)
    BY DEF f, g, TopRephased
  <2> QED BY <2>1, <2>2
<1> QED BY <1>8, <1>9, <1>10

(* The region on top gets another phase. *)
LEMMA SetTopIs ==
  ASSUME Step, IsTry(prog, pos), NEW x, NEW y
  PROVE  Language!SetTop(x, y) =
           Append(SubSeq(regionsBar, 1, Len(regionsBar) - 1),
                  [try |-> pos.of, phase |-> x, cat |-> prog[pos.of].cat, fin |-> prog[pos.of].fin,
                   then |-> y])
<1> DEFINE s == regionsBar
           k == Len(s)
           r == s[k]
           t == pos.of
           ph == pos.part
<1>1. r = Region(prog, stack, pos) /\ s # << >> /\ k \in Nat
  BY TopRegion DEF Language!Top
<1>2. s \in Seq({s[i] : i \in 1..Len(s)})
  <2>1. RegionsOK(prog, stack, pos, s)
    BY StepFacts, RegionAt
  <2> HIDE DEF s
  <2> QED BY <2>1 DEF RegionsOK
<1>3. PICK th : r = [try |-> t, phase |-> ph, cat |-> prog[t].cat, fin |-> prog[t].fin, then |-> th]
  BY <1>1 DEF Region
<1> HIDE DEF s
<1>4. k > 0
  BY <1>1, <1>2
<1> HIDE DEF t, ph
<1>5. TopRephased(s, k, x, y) = Append(SubSeq(s, 1, k - 1), Rephased(s[k], x, y))
  <2> DEFINE S == {s[i] : i \in 1..Len(s)}
  <2>1. s \in Seq(S) /\ k = Len(s) /\ k \in Nat /\ k > 0
    BY <1>1, <1>2, <1>4
  <2> HIDE DEF S, k
  <2> QED BY ONLY <2>1, TopSet
<1> HIDE DEF r
<1>6. Rephased(r, x, y) =
        [try |-> t, phase |-> x, cat |-> prog[t].cat, fin |-> prog[t].fin, then |-> y]
  BY <1>3, PhaseSet
<1>7. Language!SetTop(x, y) = TopRephased(s, k, x, y)
  BY DEF Language!SetTop, TopRephased, s
<1> QED BY <1>5, <1>6, <1>7 DEF r, s, t

(* The call of a tukuyawi, and what it interrupts. *)
LEMMA FinallyCalled ==
  ASSUME Step, CallFinally, NEW t, t = Head(work.todo)
  PROVE  /\ work.todo # << >> /\ t \in Due(prog, pos) /\ \A u \in Due(prog, pos) : u <= t
         /\ signalBar = Plain(prog, work) /\ signalBar' = Language!None
         /\ pos' = [of |-> t, part |-> "fin"]
         /\ \E e \in FrameType(prog) :
              e.of = t /\ stack' = Append(stack, e) /\ Plain(prog, e.then) = Plain(prog, work)
<1> DEFINE x == Tail(work.todo)
           then == [work EXCEPT !.todo = x]
           e == Frame("fin", t, then)
<1>1. /\ work.todo # << >> /\ work' = Running /\ pos' = [of |-> t, part |-> "fin"]
      /\ stack' = Append(stack, e)
  BY DEF CallFinally, GoTo
<1>2. work \in WorkType(prog)
  BY DEF Step, TypeInv
<1>3. then.goal = work.goal /\ then.to = work.to /\ then.exc = work.exc
  <2>1. work \in [todo : Seq(Finallys(prog)), goal : Goals, to : 0..Len(prog), exc : 0..Len(prog)]
    BY <1>2 DEF WorkType
  <2> DEFINE A == Seq(Finallys(prog))
             C == 0..Len(prog)
  <2>2. work \in [todo : A, goal : Goals, to : C, exc : C] /\ then = [work EXCEPT !.todo = x]
    BY <2>1
  <2> HIDE DEF A, C, x, then
  <2>3. then = Work(x, work.goal, work.to, work.exc)
    BY ONLY <2>2, ReplaceTodo
  <2> QED BY <2>3 DEF Work
<1> HIDE DEF then
<1>4. e.of = t /\ e.then = then
  BY DEF Frame
<1> HIDE DEF e
<1>5. e \in FrameType(prog)
  <2>1. stack \in Seq(FrameType(prog)) /\ Append(stack, e) \in Seq(FrameType(prog))
    BY <1>1, StepFacts
  <2> DEFINE q == Append(stack, e)
  <2>2. Len(q) = Len(stack) + 1 /\ q[Len(stack) + 1] = e /\ Len(stack) \in Nat
    BY <2>1
  <2>3. q \in Seq(FrameType(prog)) /\ Len(stack) + 1 \in 1..Len(q)
    BY <2>1, <2>2
  <2> HIDE DEF q
  <2> QED BY <2>2, <2>3
<1>6. Plain(prog, then) = Plain(prog, work)
  BY <1>3 DEF Plain
<1>7. signalBar' = Language!None
  BY <1>1, QuietNext
<1>8. signalBar = Plain(prog, work)
  <2>1. work.goal # "caught"
    BY <1>1, StepFacts DEF WorkOK, CaughtOK
  <2> QED BY <2>1, StepFacts
<1>9. t \in Due(prog, pos) /\ \A u \in Due(prog, pos) : u <= t
  <2> DEFINE v == Work(Tail(work.todo), work.goal, work.to, work.exc)
             w == work
  <2>1. /\ WellFormed(prog) /\ pos \in Block(Len(prog)) /\ IsBlock(prog, pos)
        /\ w \in WorkType(prog) /\ WorkOK(prog, w, pos) /\ w.todo # << >> /\ t = Head(w.todo)
        /\ v = Work(Tail(w.todo), w.goal, w.to, w.exc)
    BY <1>1, <1>2, StepFacts
  <2> HIDE DEF v, w
  <2> QED BY <2>1, NextFinally
<1> QED BY <1>1, <1>4, <1>5, <1>6, <1>7, <1>8, <1>9

(* The tukuyawi of a try that ends. *)
LEMMA FallFinallyMapped ==
  ASSUME Step, CallFinally, work.goal = "fall"
  PROVE  Mapped
<1> DEFINE t == Head(work.todo)
<1>1. /\ work.todo # << >> /\ t \in Due(prog, pos)
      /\ signalBar = Plain(prog, work) /\ signalBar' = Language!None
      /\ pos' = [of |-> t, part |-> "fin"]
  BY FinallyCalled
<1>2. PICK e \in FrameType(prog) :
        e.of = t /\ stack' = Append(stack, e) /\ Plain(prog, e.then) = Plain(prog, work)
  BY FinallyCalled
<1>3. FallOK(prog, work, pos)
  BY StepFacts DEF WorkOK
<1>4. t = work.to /\ pos.of = t /\ work.exc = 0
  <2>1. work.todo = <<work.to>> /\ pos.of = work.to /\ work.exc = 0
    BY <1>1, <1>3 DEF FallOK
  <2> DEFINE o == work.to
  <2>2. work.todo = <<o>>
    BY <2>1
  <2> HIDE DEF o
  <2>3. Head(work.todo) = o
    BY ONLY <2>2
  <2> QED BY <2>1, <2>3 DEF o
<1> HIDE DEF t
<1>5. Plain(prog, work) = Language!None
  BY <1>4, Signals
<1>6. PICK c \in Around(prog, pos) :
        c.of = t /\ IsTry(prog, c) /\ c.part \in {"body", "catch"} /\ prog[t].fin
  <2>1. WellFormed(prog) /\ pos \in Block(Len(prog)) /\ IsBlock(prog, pos)
    BY StepFacts
  <2> QED BY <1>1, <2>1, DueBlock
<1>7. pos = c
  <2>1. pos \in Around(prog, pos)
    BY StepFacts, BlockItself
  <2> QED BY <1>4, <1>6, <2>1, StepFacts, OneBlock
<1>8. IsTry(prog, pos) /\ pos.part # "fin" /\ prog[pos.of].fin
  BY <1>4, <1>6, <1>7
<1>9. /\ regionsBar # << >> /\ Len(regionsBar) \in Nat
      /\ Language!Top = Region(prog, stack, pos)
      /\ Len(regionsBar) = Len(Inside(prog, pos))
  BY <1>8, TopRegion
<1>10. regionsBar' = Append(SubSeq(regionsBar, 1, Len(regionsBar) - 1),
                            [try |-> t, phase |-> "fin", cat |-> prog[t].cat, fin |-> prog[t].fin,
                             then |-> Language!None])
  <2> DEFINE k == Len(Inside(prog, c))
  <2>1. regionsBar' = Append(SubSeq(regionsBar, 1, k - 1),
                             [try |-> t, phase |-> "fin", cat |-> prog[t].cat, fin |-> prog[t].fin,
                              then |-> Plain(prog, e.then)])
    BY <1>1, <1>2, <1>6, FinRegion
  <2>2. k = Len(regionsBar)
    BY <1>7, <1>9
  <2>3. Plain(prog, e.then) = Language!None
    BY <1>2, <1>5
  <2> HIDE DEF k
  <2> QED BY <2>1, <2>2, <2>3
<1>11. regionsBar' = Language!SetTop("fin", Language!None)
  BY <1>4, <1>8, <1>10, SetTopIs
<1> DEFINE r == Language!Top
<1>12. r.fin = prog[pos.of].fin /\ r.phase = pos.part
  BY <1>9 DEF Region
<1> HIDE DEF r
<1>13. Language!OwesFinally(r)
  BY <1>8, <1>12 DEF Language!OwesFinally
<1>14. Language!Finish
  BY <1>1, <1>5, <1>9, <1>11, <1>13 DEF Language!Finish, r
<1> QED BY <1>14 DEF Mapped, Language!Next

(* The tukuyawi an exit or an exception runs. *)
LEMMA RunFinallyMapped ==
  ASSUME Step, CallFinally, NEW t, t = Head(work.todo), NEW c \in Around(prog, pos), IsTry(prog, c), c.of = t,
         c.part \in {"body", "catch"}, prog[t].fin,
         \A d \in TryBlocks(prog, pos) : d.of > t => Unheeding(d),
         signalBar.kind \in {"raise", "leave"},
         signalBar.kind = "raise" => ~(c.part = "body" /\ prog[t].cat = "any"),
         signalBar.kind = "leave" => Len(Inside(prog, c)) > signalBar.depth
  PROVE  Mapped
<1>1. /\ work.todo # << >> /\ t \in Due(prog, pos)
      /\ signalBar = Plain(prog, work) /\ signalBar' = Language!None
      /\ pos' = [of |-> t, part |-> "fin"]
  BY FinallyCalled
<1>2. PICK e \in FrameType(prog) :
        e.of = t /\ stack' = Append(stack, e) /\ Plain(prog, e.then) = Plain(prog, work)
  BY FinallyCalled
<1> DEFINE k == Len(Inside(prog, c))
           r == regionsBar[k]
           ph == c.part
<1>3. /\ k \in 1..Len(regionsBar) /\ r = Region(prog, stack, c)
      /\ regionsBar' = Append(SubSeq(regionsBar, 1, k - 1),
                              [try |-> t, phase |-> "fin", cat |-> prog[t].cat, fin |-> prog[t].fin,
                               then |-> Plain(prog, e.then)])
  BY <1>1, <1>2, FinRegion
<1>4. \A i \in (k + 1)..Len(regionsBar) : Language!Idle(regionsBar[i])
  BY IdleWithin
<1>5. signalBar.kind = "leave" => k > signalBar.depth
  OBVIOUS
<1>6. PICK th : r = [try |-> t, phase |-> ph, cat |-> prog[t].cat, fin |-> prog[t].fin, then |-> th]
  BY <1>3 DEF Region
<1> HIDE DEF r, k
<1>7. Rephased(r, "fin", signalBar) =
        [try |-> t, phase |-> "fin", cat |-> prog[t].cat, fin |-> prog[t].fin, then |-> signalBar]
  <2> DEFINE y == signalBar
             x == "fin"
             cat == prog[t].cat
             fin == prog[t].fin
  <2>1. r = [try |-> t, phase |-> ph, cat |-> cat, fin |-> fin, then |-> th]
    BY <1>6
  <2> HIDE DEF ph, y, x, cat, fin
  <2>2. Rephased(r, x, y) = [try |-> t, phase |-> x, cat |-> cat, fin |-> fin, then |-> y]
    BY ONLY <2>1, PhaseSet
  <2> QED BY <2>2 DEF x, y, cat, fin
<1>8. Language!OwesFinally(r) /\ (signalBar.kind = "raise" => ~Language!CatchesAll(r))
  <2>1. r.fin = prog[t].fin /\ r.phase = c.part /\ r.cat = prog[t].cat
    BY <1>6
  <2> QED BY <2>1 DEF Language!OwesFinally, Language!CatchesAll
<1>9. regionsBar' = Append(SubSeq(regionsBar, 1, k - 1), Rephased(r, "fin", signalBar))
  <2>1. Plain(prog, e.then) = signalBar
    BY <1>1, <1>2
  <2> QED BY <1>3, <1>7, <2>1
<1>10. Language!RunFinally
  BY <1>1, <1>3, <1>4, <1>5, <1>8, <1>9 DEF Language!RunFinally, Rephased, r
<1> QED BY <1>10 DEF Mapped, Language!Next

(* A tukuyawi is called, for the end of its try, an exit or an exception. *)
LEMMA CallFinallyMapped ==
  ASSUME Step, CallFinally
  PROVE  Mapped
<1> DEFINE t == Head(work.todo)
<1>1. /\ work.todo # << >> /\ t \in Due(prog, pos) /\ \A u \in Due(prog, pos) : u <= t
      /\ signalBar = Plain(prog, work)
  BY FinallyCalled
<1>2. /\ WellFormed(prog) /\ pos \in Block(Len(prog)) /\ IsBlock(prog, pos)
      /\ WorkOK(prog, work, pos)
  BY StepFacts
<1>3. PICK c \in Around(prog, pos) :
        c.of = t /\ IsTry(prog, c) /\ c.part \in {"body", "catch"} /\ t \in 1..Len(prog) /\ prog[t].fin
  BY <1>1, <1>2, DueBlock
<1>4. \A d \in TryBlocks(prog, pos) : d.of > t /\ prog[d.of].fin => d.part = "fin"
  <2> SUFFICES ASSUME NEW d \in TryBlocks(prog, pos), d.of > t, prog[d.of].fin PROVE d.part = "fin"
    OBVIOUS
  <2>1. d \in Around(prog, pos) /\ IsTry(prog, d)
    BY DEF TryBlocks
  <2>2. d \in Block(Len(prog)) /\ IsBlock(prog, d) /\ d.of \in Nat /\ t \in Nat
    BY <1>2, <1>3, <2>1, BlockType DEF WellFormed
  <2>3. d.part \in {"body", "catch", "fin"}
    BY <1>2, <2>1, <2>2, BlockParts
  <2>4. d.of \notin Due(prog, pos)
    BY <1>1, <2>2
  <2> QED BY <2>1, <2>3, <2>4 DEF Due, OnFinallyStack
<1>5. CASE work.goal = "fall"
  BY <1>5, FallFinallyMapped
<1>6. CASE work.goal \in Exits
  <2>1. signalBar.kind = "leave" /\ signalBar.depth = Len(Inside(prog, prog[work.to].in))
    BY <1>1, <1>6, Signals
  <2>2. \A d \in TryBlocks(prog, pos) : d.of > t => Unheeding(d)
    BY <1>4, <2>1 DEF Unheeding
  <2>3. Len(Inside(prog, c)) > signalBar.depth
    <3>1. ExitOK(prog, work, pos)
      BY <1>2, <1>6 DEF WorkOK
    <3>2. PICK l \in Around(prog, pos) : l.of = work.to /\ KindOf(prog, l) \in Leaves(work.goal)
      BY <3>1 DEF ExitOK
    <3>3. ~IsTry(prog, l) /\ l.of # 0
      BY <1>6, <3>2 DEF Leaves, Exits, IsTry, KindOf
    <3>4. l \in Block(Len(prog)) /\ l.of \in 1..Len(prog) /\ l.of \in Nat
      BY <1>2, <3>3, BlockType DEF WellFormed
    <3>5. Inside(prog, l) = Inside(prog, prog[work.to].in)
      BY <1>2, <3>2, <3>3, <3>4, InsideStep DEF Entered
    <3>6. t > work.to
      <4>1. Falling(work.todo, {u \in Due(prog, pos) : u > work.to})
        BY <3>1 DEF ExitOK
      <4> DEFINE S == {u \in Due(prog, pos) : u > work.to}
                 q == work.todo
      <4>2. q \in Seq(S) /\ q # << >>
        BY <1>1, <4>1 DEF Falling
      <4> HIDE DEF S, q
      <4>3. Head(q) \in S
        BY <4>2
      <4> QED BY <4>3 DEF S, q
    <3> DEFINE s == Inside(prog, pos)
               k == Len(Inside(prog, c))
               r == Inside(prog, l)
               m == Len(r)
    <3>7. Lined(prog, pos) /\ Lined(prog, l)
      BY <1>2, <3>4, InsideLined
    <3>8. /\ s \in Seq(Block(Len(prog))) /\ k \in 0..Len(s) /\ k > 0 /\ s[k] = c
          /\ m \in 0..Len(s) /\ \A i \in 1..m : r[i] = s[i]
      BY <1>3, <3>7 DEF Lined
    <3>9. \A i \in 1..m : r[i].of <= l.of
      <4>1. \A i \in 1..m : r[i] \in TryBlocks(prog, l)
        BY <3>7 DEF Lined
      <4>2. \A d \in TryBlocks(prog, l) : d.of <= l.of
        BY <1>2, <3>4, BlockType DEF TryBlocks
      <4> HIDE DEF m, r
      <4> QED BY <4>1, <4>2
    <3> HIDE DEF s, k, r, m
    <3>10. ~(k <= m)
      <4> SUFFICES ASSUME k <= m PROVE FALSE
        OBVIOUS
      <4>1. k \in 1..m
        BY <3>8
      <4>2. r[k] = c /\ r[k].of <= l.of
        BY <3>8, <3>9, <4>1
      <4>3. t <= work.to /\ t \in Nat /\ work.to \in Nat
        BY <1>2, <1>3, <3>2, <3>4, <4>2 DEF WellFormed
      <4> QED BY <3>6, <4>3
    <3>11. k > m
      BY <3>8, <3>10
    <3> QED BY <2>1, <3>5, <3>11 DEF k, r, m
  <2>4. t = Head(work.todo) /\ c.of = t
    BY <1>3
  <2> HIDE DEF t
  <2> QED BY <1>3, <2>1, <2>2, <2>3, <2>4, RunFinallyMapped
<1>7. CASE work.goal = "throw"
  <2>1. signalBar.kind = "raise"
    <3>1. signalBar = Language!Raising(work.exc)
      BY <1>1, <1>7, Signals
    <3> QED BY <3>1 DEF Language!Raising, Language!Signal
  <2>2. PICK u \in Due(prog, pos) :
          /\ work.todo = <<u>>
          /\ \A d \in TryBlocks(prog, pos) : d.of <= u
          /\ [of |-> u, part |-> "body"] \in Around(prog, pos) => prog[u].cat # "any"
    BY <1>1, <1>2, <1>7 DEF WorkOK, ThrowOK
  <2>3. t = u
    BY ONLY <2>2
  <2>4. \A d \in TryBlocks(prog, pos) : d.of > t => Unheeding(d)
    <3> SUFFICES ASSUME NEW d \in TryBlocks(prog, pos), d.of > t PROVE FALSE
      OBVIOUS
    <3>1. d.of <= t /\ d.of \in Nat /\ t \in Nat
      BY <1>2, <1>3, <2>2, <2>3, BlockType DEF TryBlocks, WellFormed
    <3> QED BY <3>1
  <2>5. c.part = "body" => prog[t].cat # "any"
    <3> SUFFICES ASSUME c.part = "body" PROVE prog[t].cat # "any"
      OBVIOUS
    <3>1. c \in Block(Len(prog))
      BY <1>2, BlockType
    <3>2. c = [of |-> t, part |-> "body"]
      BY <1>3, <3>1 DEF Block
    <3> QED BY <2>2, <2>3, <3>2
  <2>6. t = Head(work.todo) /\ c.of = t
    BY <1>3
  <2> HIDE DEF t
  <2> QED BY <1>3, <2>1, <2>4, <2>5, <2>6, RunFinallyMapped
<1>8. work.goal \in Exits \cup {"fall", "throw"}
  <2>1. work.goal \in Goals
    BY DEF Step, TypeInv, WorkType
  <2>2. work.goal # "run" /\ work.goal # "caught"
    BY <1>1, <1>2 DEF WorkOK, CaughtOK, Running, Work
  <2> QED BY <2>1, <2>2 DEF Goals, Exits
<1> QED BY <1>5, <1>6, <1>7, <1>8

(* longjmp drops what the exception leaves unheard. *)
LEMMA LongJumpMapped ==
  ASSUME Step, LongJump
  PROVE  Mapped
<1>1. Doing("throw") /\ current # 0 /\ TypeInv /\ NestInv
  BY DEF LongJump, NULL, Step
<1> DEFINE B == Bodies(prog, pos)
<1>2. /\ WellFormed(prog) /\ pos \in Block(Len(prog)) /\ IsBlock(prog, pos)
      /\ SafeAt(prog, pos)
      /\ LinkedOK(prog, B, current, heap, slot, env, stack)
      /\ B = {} => current = 0
  BY <1>1, Throwing
<1>3. PICK t \in B : \A u \in B : u <= t
  BY <1>1, <1>2, TopBody
<1>4. current = slot[t] /\ At(current) = current /\ env[current].at = t
  BY <1>1, <1>3, Throwing
<1> DEFINE c == [of |-> t, part |-> "body"]
           r == env[current].stack
<1>5. held' = [held EXCEPT ![current] = work.exc] /\ current' = current
      /\ stack' = r /\ pos' = c /\ work'.goal = "caught"
  <2>1. ~Undefined
    BY DEF Step, Undefined
  <2> QED BY <1>4, <2>1 DEF LongJump, ThrowTo, GoTo, Work
<1>6. c \in Around(prog, pos) /\ t \in 1..Len(prog) /\ t \in Nat /\ c.of = t
  <2>1. c \in Around(prog, pos) /\ t \in 1..Len(prog)
    BY <1>2, <1>3, MemberBlock
  <2> QED BY <1>2, <2>1 DEF WellFormed
<1>7. Prefix(stack', stack)
  <2>1. Prefix(env[slot[t]].stack, stack)
    BY <1>2, <1>3 DEF LinkedOK
  <2> QED BY <1>4, <1>5, <2>1
<1>8. signalBar = Language!Raising(work.exc)
  BY <1>1, StepFacts, Signals DEF Doing
<1>9. signalBar' = Language!Raising(work.exc)
  <2>1. held'[current'] = work.exc
    <3>1. held \in Seq(0..Len(prog)) /\ Len(held) = Len(heap) /\ current \in 0..Len(heap) /\ Len(heap) \in Nat
      BY <1>1, ProgramFacts DEF TypeInv
    <3>2. current \in DOMAIN held
      BY <1>1, <3>1
    <3> QED BY <1>5, <3>2
  <2>2. signalBar' = Landed(held'[current'])
    BY <1>5, StepFacts
  <2> QED BY <2>1, <2>2 DEF Landed, Language!Raising, Language!Signal
<1>10. signalBar.kind = "raise"
  BY <1>8 DEF Language!Raising, Language!Signal
<1> HIDE DEF c, r
<1>11. ASSUME NEW d \in TryBlocks(prog, pos), d.of > c.of PROVE Unheeding(d)
  <2>1. d \in Around(prog, pos) /\ IsTry(prog, d)
    BY DEF TryBlocks
  <2>2. d.of \in Nat /\ d.part \in {"body", "catch", "fin"}
    <3>1. d.of \in Nat /\ d \in Block(Len(prog)) /\ IsBlock(prog, d)
      BY <1>2, <2>1, BlockType DEF WellFormed
    <3> QED BY <1>2, <2>1, <3>1, BlockParts
  <2>3. ASSUME NEW e \in TryBlocks(prog, pos), e.part = "body" PROVE ~(e.of > t) /\ e.of \in Nat
    <3>1. e.of \in B /\ e.of \in Nat
      BY <1>2, <2>3, BlockType DEF Bodies, TryBlocks, WellFormed
    <3>2. e.of <= t
      BY <1>3, <3>1
    <3> QED BY <1>6, <3>1, <3>2
  <2>4. d.part # "body"
    BY <1>6, <1>11, <2>3
  <2>5. ~Owing(prog, d)
    <3> SUFFICES ASSUME Owing(prog, d) PROVE FALSE
      OBVIOUS
    <3>1. PICK e \in TryBlocks(prog, pos) : e.part = "body" /\ e.of > d.of
      BY <1>2 DEF SafeAt
    <3>2. ~(e.of > t) /\ e.of \in Nat /\ d.of > t
      BY <1>6, <1>11, <2>3, <3>1
    <3> QED BY <1>6, <2>2, <3>1, <3>2
  <2> QED BY <2>2, <2>4, <2>5 DEF Unheeding, Owing
<1>12. pos' = c /\ Inside(prog, c) = Inside(prog, pos')
  BY <1>5
<1>13. /\ pos' \in Around(prog, pos) /\ signalBar' = signalBar
       /\ signalBar.kind # "leave"
  BY <1>6, <1>8, <1>9, <1>10, <1>12
<1> QED BY <1>6, <1>7, <1>10, <1>11, <1>12, <1>13, DropMapped

(* At the catch label a katjaña takes the exception, or it goes on. *)
LEMMA CatchMapped ==
  ASSUME Step, NEW t \in 1..Len(prog), AtCatchLabel(t)
  PROVE  Mapped
<1> DEFINE in == prog[t].in
           b == [of |-> t, part |-> "catch"]
<1>1. work.goal = "caught" /\ work.todo = << >> /\ t = work.to /\ TypeInv /\ NestInv /\ status = "running"
  BY DEF AtCatchLabel, Doing, Step
<1>2. WellFormed(prog) /\ pos \in Block(Len(prog)) /\ IsBlock(prog, pos) /\ CaughtOK(prog, work, pos)
  BY <1>1, StepFacts DEF WorkOK
<1>3. pos = [of |-> t, part |-> "body"] /\ IsTry(prog, pos) /\ LeavesNoBody(prog) /\ pos.of = t /\ pos.part = "body"
  BY <1>1, <1>2 DEF CaughtOK
<1>4. current = slot[t] /\ At(slot[t]) = slot[t]
  <2>1. Outside(prog, work, pos) = pos
    BY <1>1 DEF Outside
  <2>2. LinkedOK(prog, Bodies(prog, pos), current, heap, slot, env, stack)
    BY <1>1, <1>3, <2>1 DEF NestInv, RunningOK, RegistryOK
  <2>3. t \in Bodies(prog, pos) /\ \A u \in Bodies(prog, pos) : u <= t
    BY <1>2, <1>3, InBody
  <2> QED BY <1>1, <2>2, <2>3, Dereference DEF LinkedOK, Names
<1>5. /\ stack' = stack
      /\ \/ prog[t].cat # "none" /\ work' = Running /\ pos' = b
         \/ /\ prog[t].cat # "any"
            /\ work' = Work(OwnFinally(t), "throw", 0, held[At(slot[t])])
            /\ pos' = IF prog[t].fin THEN pos ELSE in
  <2>1. ~Undefined
    BY DEF Step, Undefined
  <2> QED BY <2>1 DEF AtCatchLabel, GoTo, AfterStmt
<1>6. signalBar = Landed(held[current]) /\ signalBar.kind = "raise"
  BY <1>1, StepFacts DEF Landed
<1>7. Prefix(stack, stack')
  BY <1>5, StepFacts, PrefixSelf
<1>8. ASSUME prog[t].cat # "none", work' = Running, pos' = b PROVE Mapped
  <2>1. signalBar' = Language!None
    BY <1>8, QuietNext
  <2>2. /\ regionsBar # << >> /\ Language!Top = Region(prog, stack, pos)
        /\ in \in Around(prog, pos) /\ Len(Inside(prog, in)) = Len(regionsBar) - 1
    BY <1>3, TopRegion
  <2>3. regionsBar' = Append(SubSeq(regionsBar, 1, Len(regionsBar) - 1),
                             [try |-> t, phase |-> "catch", cat |-> prog[t].cat, fin |-> prog[t].fin,
                              then |-> Language!None])
    <3>1. regionsBar' = Regions(prog, stack, b) /\ b \in Block(Len(prog))
      BY <1>5, <1>8, StepFacts
    <3>2. b.of = t /\ b.part = "catch" /\ IsTry(prog, b)
      <4>1. t # 0 /\ prog[t].kind = "try"
        BY <1>2, <1>3, BlockParts DEF IsTry, KindOf
      <4> QED BY <4>1 DEF IsTry, KindOf
    <3>3. Regions(prog, stack, b) = Append(Regions(prog, stack, in), Region(prog, stack, b))
      <4> DEFINE st == stack
      <4>1. \A u \in Framed(prog, in) : FrameFor(st, u) = FrameFor(st, u)
        OBVIOUS
      <4>2. in = prog[b.of].in
        BY <3>2
      <4> HIDE DEF b, in, st
      <4>3. Regions(prog, st, b) = Append(Regions(prog, st, in), Region(prog, st, b))
        BY <1>2, <3>1, <3>2, <4>1, <4>2, RegionsIn
      <4> QED BY <4>3 DEF st
    <3>4. Regions(prog, stack, in) = SubSeq(regionsBar, 1, Len(regionsBar) - 1)
      <4> DEFINE st == stack
      <4>1. \A u \in Framed(prog, in) : FrameFor(st, u) = FrameFor(st, u)
        OBVIOUS
      <4>2. regionsBar = Regions(prog, st, pos)
        BY StepFacts
      <4> HIDE DEF in, st
      <4>3. Regions(prog, st, in) = SubSeq(Regions(prog, st, pos), 1, Len(Inside(prog, in)))
        BY <1>2, <2>2, <4>1, RegionsOut
      <4> QED BY <2>2, <4>2, <4>3 DEF st
    <3>5. Region(prog, stack, b) =
            [try |-> t, phase |-> "catch", cat |-> prog[t].cat, fin |-> prog[t].fin, then |-> Language!None]
      <4>1. Plain(prog, Running) = Language!None
        BY Signals DEF Running, Work
      <4> QED BY <3>2, <4>1 DEF Region
    <3> HIDE DEF b, in
    <3> QED BY <3>1, <3>3, <3>4, <3>5
  <2>4. regionsBar' = Language!SetTop("catch", Language!None)
    BY <1>3, <2>3, SetTopIs
  <2> DEFINE r == Language!Top
  <2>5. r.phase = "body" /\ r.cat = prog[t].cat
    BY <1>3, <2>2 DEF Region
  <2> HIDE DEF r
  <2>6. Language!MayCatch(r)
    BY <1>8, <2>5 DEF Language!MayCatch
  <2>7. Language!Catch
    BY <1>6, <2>1, <2>2, <2>4, <2>6 DEF Language!Catch, r
  <2> QED BY <2>7 DEF Mapped, Language!Next
<1>9. ASSUME prog[t].cat # "any", work' = Work(OwnFinally(t), "throw", 0, held[At(slot[t])]),
             pos' = IF prog[t].fin THEN pos ELSE in
      PROVE  Mapped
  <2>1. signalBar' = signalBar
    <3> DEFINE x == held[At(slot[t])]
    <3>1. work'.goal = "throw" /\ work'.exc = x
      BY <1>9 DEF Work
    <3> HIDE DEF x
    <3>2. signalBar' = Language!Raising(x)
      BY <3>1, StepFacts, Signals
    <3>3. signalBar = Landed(x)
      BY <1>4, <1>6 DEF x
    <3> QED BY <3>2, <3>3 DEF Landed, Language!Raising, Language!Signal
  <2>2. CASE prog[t].fin
    <3>1. pos' = pos
      BY <1>9, <2>2
    <3> QED BY <1>5, <2>1, <3>1, SameTries, Kept
  <2>3. CASE ~prog[t].fin
    <3>1. pos' = in /\ in \in Around(prog, pos)
      BY <1>3, <1>9, <2>3, TopRegion
    <3>2. ASSUME NEW d \in TryBlocks(prog, pos), d.of > in.of PROVE Unheeding(d)
      <4>1. Around(prog, pos) = Around(prog, in) \cup {pos}
        BY <1>2, <1>3, AroundStep
      <4>2. d \notin Around(prog, in)
        <5>1. in \in Block(Len(prog)) /\ in.of \in Nat
          BY <1>2, StatementType DEF Block, WellFormed
        <5>2. \A e \in Around(prog, in) : e.of <= in.of /\ e.of \in Nat
          BY <1>2, <5>1, BlockType DEF WellFormed
        <5> HIDE DEF in
        <5> QED BY <3>2, <5>1, <5>2
      <4>3. d = pos
        BY <4>1, <4>2 DEF TryBlocks
      <4> QED BY <1>3, <1>9, <2>3, <4>3 DEF Unheeding
    <3> HIDE DEF in
    <3>3. signalBar.kind # "leave"
      BY <1>6
    <3> QED BY <1>6, <1>7, <2>1, <3>1, <3>2, <3>3, DropMapped
  <2> QED BY <2>2, <2>3
<1> QED BY <1>5, <1>8, <1>9

(* The program ends in its main block, or because nothing catches the      *)
(* exception, and then nothing is owed.                                    *)
LEMMA EndMapped ==
  ASSUME TypeInv, NestInv, NestInv', EndMain \/ Unhandled
  PROVE  Mapped
<1>1. status = "running" /\ status' # "running" /\ status' # "undefined"
  BY DEF EndMain, EndsBlock, Executing, Unhandled, Doing, NestInv
<1>2. regionsBar' = << >> /\ signalBar' = Language!Over
  BY <1>1 DEF regionsBar, signalBar, Language!Over, Language!Signal
<1>3. /\ WellFormed(prog) /\ pos \in Block(Len(prog)) /\ IsBlock(prog, pos)
      /\ regionsBar = Regions(prog, stack, pos)
      /\ signalBar = IF work.goal = "caught" THEN Landed(held[current]) ELSE Plain(prog, work)
  BY <1>1, ProgramFacts, BarsAre DEF BarsOK, TypeInv, NestInv
<1>4. CASE EndMain
  <2>1. work = Running /\ pos = MainBlock
    BY <1>3, <1>4, BlockParts DEF EndMain, EndsBlock, Executing
  <2>2. signalBar = Language!None
    <3>1. work.goal = "run" /\ work.exc = 0
      BY <2>1 DEF Running, Work
    <3> QED BY <1>3, <3>1, Signals
  <2>3. regionsBar = << >>
    <3>1. Inside(prog, pos) = << >>
      BY <1>3, <2>1, InsideMain DEF MainBlock
    <3> QED BY <1>3, <3>1 DEF Regions
  <2>4. Language!End
    BY <1>2, <2>2, <2>3 DEF Language!End
  <2> QED BY <2>4 DEF Mapped, Language!Next
<1>5. CASE Unhandled
  <2>1. Doing("throw") /\ current = 0
    BY <1>5 DEF Unhandled, NULL
  <2>2. SafeAt(prog, pos)
    BY <2>1, Throwing
  <2>3. Bodies(prog, pos) = {}
    <3> SUFFICES ASSUME Bodies(prog, pos) # {} PROVE FALSE
      OBVIOUS
    <3>1. PICK t \in Bodies(prog, pos) : \A u \in Bodies(prog, pos) : u <= t
      BY <1>3, TopBody
    <3> QED BY <2>1, <3>1, Throwing
  <2>4. signalBar.kind = "raise"
    <3>1. signalBar = Language!Raising(work.exc)
      BY <1>3, <2>1, Signals DEF Doing
    <3> QED BY <3>1 DEF Language!Raising, Language!Signal
  <2>5. ASSUME NEW i \in 1..Len(regionsBar) PROVE Language!Idle(regionsBar[i])
    <3> DEFINE d == Inside(prog, pos)[i]
               r == regionsBar[i]
    <3>1. RegionsOK(prog, stack, pos, regionsBar)
      BY <1>3, RegionAt
    <3>2. d \in TryBlocks(prog, pos) /\ r = Region(prog, stack, d)
      BY <3>1 DEF RegionsOK
    <3>3. r.fin = prog[d.of].fin /\ r.phase = d.part /\ r.cat = prog[d.of].cat
      BY <3>2 DEF Region
    <3> HIDE DEF r, d
    <3>4. d.part # "body" /\ ~Owing(prog, d) /\ d.part \in {"body", "catch", "fin"}
      <4>1. \A e \in TryBlocks(prog, pos) : e.part # "body"
        BY <2>3 DEF Bodies
      <4>2. ~Owing(prog, d)
        BY <2>2, <3>2, <4>1 DEF SafeAt
      <4>3. d \in Around(prog, pos) /\ IsTry(prog, d)
        BY <3>2 DEF TryBlocks
      <4>4. d \in Block(Len(prog)) /\ IsBlock(prog, d)
        BY <1>3, <4>3, BlockType
      <4> QED BY <1>3, <3>2, <4>1, <4>2, <4>3, <4>4, BlockParts
    <3>5. Language!Idle(r)
      BY <3>3, <3>4 DEF Owing, Language!Idle, Language!OwesFinally, Language!CatchesAll
    <3> QED BY <3>5 DEF r
  <2>6. Language!End
    BY <1>2, <2>4, <2>5 DEF Language!End
  <2> QED BY <2>6 DEF Mapped, Language!Next
<1> QED BY <1>4, <1>5

(* Nothing happens. *)
LEMMA NothingMapped ==
  ASSUME TypeInv, NestInv, TypeInv', NestInv', prog' = prog, UNCHANGED vars
  PROVE  Mapped
<1>1. UNCHANGED <<heap, held, current, prog, pos, last, work, stack, slot, env, ran, status>>
  BY DEF vars, chainVars, machineVars
<1>2. CASE status = "running"
  <2>1. Step
    BY <1>1, <1>2 DEF Step
  <2>2. regionsBar' = regionsBar
    BY <1>1, <2>1, SameTries
  <2>3. signalBar' = signalBar
    BY <1>1, <2>1, StepFacts
  <2> QED BY <2>2, <2>3, Kept
<1>3. CASE status # "running"
  <2>1. regionsBar' = regionsBar /\ signalBar' = signalBar
    BY <1>1, <1>3 DEF regionsBar, signalBar
  <2> QED BY <2>1, Kept
<1> QED BY <1>2, <1>3

(* Every step of a disciplined program is a step of the language, or goes  *)
(* unnoticed.                                                              *)
LEMMA StepMapped ==
  ASSUME TypeInv, NestInv, TypeInv', NestInv', [Next]_vars
  PROVE  Mapped
<1>0. prog' = prog /\ ~Undefined
  BY ProgramKept DEF NestInv, Undefined
<1>1. CASE UNCHANGED vars \/ Stopped
  BY <1>0, <1>1, NothingMapped DEF Stopped
<1>2. CASE EndMain \/ Unhandled
  BY <1>2, EndMapped
<1>3. CASE /\ ~(EndMain \/ Unhandled \/ Stopped)
           /\ \/ \E n \in 1..Len(prog) : StatementStep(n)
              \/ BlockEnd \/ EmittedStep
  <2>1. status = "running" /\ status' = "running"
    BY <1>0, <1>3 DEF StatementStep, BlockEnd, EmittedStep,
       Throw, RuntimeError, Break, Continue, Return, Begin, Call, EnterLoop, EnterSwitch, EnterTry,
       EndTryBody, EndCatch, EndFinally, EndLoopBody, EndKuna, EndYaqha, EndFunction,
       CallFinally, Jump, JumpToContinue, JumpToEpilogue, LongJump, AtCatchLabel,
       NextRound, Epilogue, Reaches, Executing, EndsBlock, Doing
  <2>2. Step
    BY <1>0, <2>1 DEF Step
  <2>3. ASSUME NEW n \in 1..Len(prog), StatementStep(n) PROVE Mapped
    BY <2>2, <2>3, PlansMapped, IntoMapped DEF StatementStep
  <2>4. CASE BlockEnd
    BY <1>3, <2>2, <2>4, EndPlansMapped, EndFinallyMapped, LoopEndMapped, FunctionEndMapped
       DEF BlockEnd
  <2>5. CASE EmittedStep
    BY <1>3, <2>2, <2>5, CallFinallyMapped, JumpMapped, LoopEndMapped, FunctionEndMapped,
       LongJumpMapped, CatchMapped DEF EmittedStep
  <2> QED BY <1>3, <2>3, <2>4, <2>5
<1> QED BY <1>1, <1>2, <1>3 DEF Next

(* At the start control is inside of nothing. *)
LEMMA InitMapped == Init => Language!Init
<1> SUFFICES ASSUME Init PROVE Language!Init
  OBVIOUS
<1>1. /\ WellFormed(prog) /\ pos = MainBlock /\ work = Running /\ status = "running"
  BY ProgramsAssumption DEF Init
<1>2. Inside(prog, pos) = << >>
  BY <1>1, InsideMain DEF MainBlock
<1>3. regionsBar = << >>
  BY <1>1, <1>2 DEF regionsBar
<1>4. signalBar = Language!None
  BY <1>1 DEF signalBar, SignalOf, Running, Work, Language!None, Language!Signal
<1> QED BY <1>3, <1>4 DEF Language!Init

(* docs/exceptions.md, of the code the compiler emits: a compiled program  *)
(* that keeps the rules enters, catches, finishes and leaves each try as   *)
(* the language says (TrySemantics), for every such program, any number of *)
(* tries entered and any nesting of calls.                                 *)
THEOREM LanguageKept == Spec => (Disciplined(prog) => ImplementsLanguage)
<1> DEFINE I == TypeInv /\ NestInv
<1>1. Init /\ Disciplined(prog) => Language!Init
  BY InitMapped
<1>2. I /\ I' /\ [Next]_vars => [Language!Next]_(Language!absVars)
  BY StepMapped DEF Mapped
<1>3. Disciplined(prog) /\ [Next]_vars => Disciplined(prog)'
  BY ProgramKept
<1>4. Spec => [](TypeInv /\ (Disciplined(prog) => NestInv))
  BY Sound, Nesting, PTL
<1> QED BY <1>1, <1>2, <1>3, <1>4, PTL DEF Spec, ImplementsLanguage, Language!Spec
=============================================================================
