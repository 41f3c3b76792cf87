---------------------------- MODULE RuntimeProofs ----------------------------
(***************************************************************************)
(* What holds of the runtime for any number of lists, maps, keys, values,  *)
(* calls, failed allocations, keys typed and windows opened: of lists and  *)
(* maps, of the calls that run over lists, of the terminal and of the      *)
(* graphics session.                                                       *)
(***************************************************************************)
EXTENDS Collections, Terminal, Graphics, AscendingProofs, FiniteSetTheorems, WellFoundedInduction, SequenceTheorems, TLAPS

(* A sequence is what its elements are. *)
LEMMA SameSeq ==
  ASSUME NEW S, NEW T, NEW a \in Seq(S), NEW b \in Seq(T),
         Len(a) = Len(b), \A i \in 1..Len(a) : a[i] = b[i]
  PROVE  a = b
<1>1. a = [i \in 1..Len(a) |-> a[i]] /\ b = [i \in 1..Len(b) |-> b[i]]
  BY LenProperties
<1> QED BY <1>1

-----------------------------------------------------------------------------
(* Lists and maps.                                                         *)
Cell == Values \cup {Junk}
Run(S) == UNION {[Indices(n) -> S] : n \in Nat}

ArrayRec ==
  [state : {"unused", "live", "freed"}, mine : BOOLEAN, len : Nat, cap : Nat, data : Run(Cell)]
MapRec ==
  [live : BOOLEAN, len : Nat, cap : Nat, keys : Run(Keys \cup {Junk}), values : Run(Cell),
   types : Run(BOOLEAN \cup {Junk}), freed : SUBSET Blocks]
CallRec ==
  [op : {"map", "filter", "reduce"}, src : Arrays, len : Nat, next : Nat, out : Arrays \cup {NULL},
   acc : Values, phase : {"loop", "function"}, start : Seq(Values), changed : BOOLEAN,
   seen : Seq(Values), gave : Seq(Values), lost : BOOLEAN]

GoodArrays == {a \in ArrayRec : ArrayOK(a)}
GoodMaps == {d \in MapRec : MapOK(d)}
GoodCalls == {c \in CallRec : c.phase = "function" => c.seen # << >>}

(* The inductive invariant: a filter pushes what it has seen last, so what *)
(* functions have been given belongs to it.                                *)
Inv ==
  /\ arr \in [Arrays -> GoodArrays]
  /\ map \in [Maps -> GoodMaps]
  /\ calls \in Seq(GoodCalls)
-----------------------------------------------------------------------------
(* Arrays.                                                                 *)
LEMMA RunOf == ASSUME NEW S, NEW n \in Nat, NEW f \in [Indices(n) -> S] PROVE f \in Run(S)
  BY DEF Run

LEMMA GoodArray ==
  ASSUME NEW a \in GoodArrays
  PROVE  /\ a \in ArrayRec /\ a.len \in Nat /\ a.cap \in Nat /\ a.len <= a.cap
         /\ a.data \in [Indices(a.cap) -> Cell]
         /\ \A i \in Indices(a.len) : a.data[i] \in Values
<1>1. /\ a \in ArrayRec /\ a.len \in Nat /\ a.cap \in Nat /\ a.len <= a.cap
      /\ DOMAIN a.data = Indices(a.cap) /\ \A i \in Indices(a.len) : a.data[i] \in Values
  BY DEF GoodArrays, ArrayOK, Indices
<1>2. PICK n \in Nat : a.data \in [Indices(n) -> Cell]
  BY <1>1 DEF ArrayRec, Run
<1>3. a.data \in [Indices(a.cap) -> Cell]
  BY <1>1, <1>2
<1> QED BY <1>1, <1>3

LEMMA WithGood ==
  ASSUME NEW a \in GoodArrays, NEW n \in Nat, NEW cap \in Nat, n <= cap, NEW f \in [Indices(cap) -> Cell],
         \A i \in Indices(n) : f[i] \in Values
  PROVE  ArrayWith(a, n, cap, f) \in GoodArrays
<1> DEFINE b == [state |-> a.state, mine |-> a.mine, len |-> n, cap |-> cap, data |-> f]
<1>1. a.state \in {"unused", "live", "freed"} /\ a.mine \in BOOLEAN
  BY GoodArray DEF ArrayRec
<1>2. f \in Run(Cell)
  BY RunOf
<1>3. b \in ArrayRec
  BY <1>1, <1>2 DEF ArrayRec
<1>4. b \in GoodArrays
  BY <1>3 DEF GoodArrays, ArrayOK, Indices
<1> QED BY <1>4 DEF ArrayWith

(* Another owner or state, the same elements.                              *)
LEMMA SameGood ==
  ASSUME NEW a \in GoodArrays, NEW b \in ArrayRec, b.len = a.len, b.cap = a.cap, b.data = a.data
  PROVE  b \in GoodArrays
  BY DEF GoodArrays, ArrayOK

LEMMA OwnerGood ==
  ASSUME NEW a \in GoodArrays
  PROVE  [a EXCEPT !.state = "freed"] \in GoodArrays /\ Given(a) \in GoodArrays /\ Hidden(a) \in GoodArrays
<1>1. a \in ArrayRec
  BY GoodArray
<1>2. [a EXCEPT !.state = "freed"] \in GoodArrays
  BY <1>1, SameGood DEF ArrayRec
<1>3. Given(a) \in GoodArrays
  BY <1>1, SameGood DEF ArrayRec, Given
<1>4. Hidden(a) \in GoodArrays
  BY <1>1, SameGood DEF ArrayRec, Hidden
<1> QED BY <1>2, <1>3, <1>4

LEMMA StoredGood ==
  ASSUME NEW a \in GoodArrays, a.len < a.cap, NEW v \in Values
  PROVE  Stored(a, v) \in GoodArrays
<1> DEFINE f == [a.data EXCEPT ![a.len] = v]
<1>1. a.len \in Nat /\ a.cap \in Nat /\ a.data \in [Indices(a.cap) -> Cell]
      /\ \A i \in Indices(a.len) : a.data[i] \in Values
  BY GoodArray
<1>2. f \in [Indices(a.cap) -> Cell] /\ \A i \in Indices(a.len + 1) : f[i] \in Values
  BY <1>1 DEF Indices, Cell
<1> HIDE DEF f
<1>3. ArrayWith(a, a.len + 1, a.cap, f) \in GoodArrays
  BY <1>1, <1>2, WithGood
<1> QED BY <1>3 DEF Stored, f

LEMMA GrownGood ==
  ASSUME NEW a \in GoodArrays
  PROVE  Grown(a) \in GoodArrays /\ Grown(a).len = a.len /\ Grown(a).cap > a.cap
<1> DEFINE n == Doubled(a.cap)
           f == [i \in 0..(n - 1) |-> IF i < a.cap THEN a.data[i] ELSE Junk]
<1>1. a.len \in Nat /\ a.cap \in Nat /\ a.len <= a.cap
      /\ a.data \in [Indices(a.cap) -> Cell] /\ \A i \in Indices(a.len) : a.data[i] \in Values
  BY GoodArray
<1>2. n \in Nat /\ n > a.cap
  BY <1>1 DEF Doubled
<1>3. Grown(a) = ArrayWith(a, a.len, n, f)
  BY DEF Grown
<1> HIDE DEF n
<1>4. f \in [Indices(n) -> Cell] /\ \A i \in Indices(a.len) : f[i] \in Values
  <2> DEFINE d == a.data
             cap == a.cap
  <2>1. f = [i \in Indices(n) |-> IF i < cap THEN d[i] ELSE Junk]
    BY DEF Indices
  <2>2. d \in [Indices(cap) -> Cell] /\ cap \in Nat /\ \A i \in Indices(a.len) : d[i] \in Values
    BY <1>1
  <2>3. Indices(a.len) \subseteq Indices(n) /\ \A i \in Indices(a.len) : i < cap
    BY <1>1, <1>2 DEF Indices
  <2>4. \A i \in Indices(n) : i < cap => i \in Indices(cap)
    BY <1>2, <2>2 DEF Indices
  <2>5. Junk \in Cell
    BY DEF Cell
  <2> HIDE DEF d, cap, f
  <2> QED BY <2>1, <2>2, <2>3, <2>4, <2>5
<1> HIDE DEF f
<1>5. ArrayWith(a, a.len, n, f) \in GoodArrays
  BY <1>1, <1>2, <1>4, WithGood
<1> QED BY <1>2, <1>3, <1>5 DEF ArrayWith

(* aym_array_push.                                                         *)
LEMMA PushedGood ==
  ASSUME NEW a \in GoodArrays, NEW v \in Values
  PROVE  Pushed(a, v) \in GoodArrays
<1>1. a.len \in Nat /\ a.cap \in Nat /\ a.len <= a.cap
  BY GoodArray
<1>2. CASE ~Full(a)
  <2>1. a.len < a.cap
    BY <1>1, <1>2 DEF Full
  <2>2. Stored(a, v) \in GoodArrays
    BY <2>1, StoredGood
  <2> QED BY <1>2, <2>2 DEF Pushed
<1>3. CASE Full(a)
  <2>1. Grown(a) \in GoodArrays /\ Grown(a).len = a.len /\ Grown(a).cap > a.cap
    BY GrownGood
  <2>2. Grown(a).cap \in Nat
    BY <2>1, GoodArray
  <2>3. Stored(Grown(a), v) \in GoodArrays
    BY <1>1, <2>1, <2>2, StoredGood
  <2> QED BY <1>3, <2>3 DEF Pushed
<1> QED BY <1>2, <1>3

LEMMA SetCellGood ==
  ASSUME NEW a \in GoodArrays, NEW i \in Int, 0 <= i, i < a.len, NEW v \in Values
  PROVE  SetCell(a, i, v) \in GoodArrays
<1> DEFINE f == [a.data EXCEPT ![i] = v]
<1>1. a.len \in Nat /\ a.cap \in Nat /\ a.len <= a.cap
      /\ a.data \in [Indices(a.cap) -> Cell] /\ \A j \in Indices(a.len) : a.data[j] \in Values
  BY GoodArray
<1>2. f \in [Indices(a.cap) -> Cell] /\ \A j \in Indices(a.len) : f[j] \in Values
  BY <1>1 DEF Indices, Cell
<1> HIDE DEF f
<1>3. ArrayWith(a, a.len, a.cap, f) \in GoodArrays
  BY <1>1, <1>2, WithGood
<1> QED BY <1>3 DEF SetCell, f

LEMMA RemovedGood ==
  ASSUME NEW a \in GoodArrays, NEW i \in Int, a.len > 0
  PROVE  Removed(a, i) \in GoodArrays
<1> DEFINE f == MovedUp(a.data, i, a.len)
<1>1. a.len \in Nat /\ a.cap \in Nat /\ a.len <= a.cap
      /\ a.data \in [Indices(a.cap) -> Cell] /\ \A j \in Indices(a.len) : a.data[j] \in Values
  BY GoodArray
<1>2. f = [j \in Indices(a.cap) |-> IF i <= j /\ j < a.len - 1 THEN a.data[j + 1] ELSE a.data[j]]
  BY <1>1 DEF MovedUp
<1>3. \A j \in Indices(a.len - 1) : j \in Indices(a.len) /\ j + 1 \in Indices(a.len) /\ j \in Indices(a.cap)
  BY <1>1 DEF Indices
<1>4. \A j \in Indices(a.cap) : j < a.len - 1 => j \in Indices(a.len - 1)
  BY <1>1 DEF Indices
<1>5. \A j \in Indices(a.len - 1) : f[j] \in Values
  BY <1>1, <1>2, <1>3
<1>6. f \in [Indices(a.cap) -> Cell]
  BY <1>1, <1>2, <1>3, <1>4 DEF Cell
<1> HIDE DEF f
<1>7. ArrayWith(a, a.len - 1, a.cap, f) \in GoodArrays
  BY <1>1, <1>5, <1>6, WithGood
<1> QED BY <1>7 DEF Removed, f

(* aym_array_pop.                                                          *)
LEMMA PoppedGood ==
  ASSUME NEW a \in GoodArrays, a.len > 0
  PROVE  ArrayWith(a, a.len - 1, a.cap, a.data) \in GoodArrays
<1>1. a.len \in Nat /\ a.cap \in Nat /\ a.len <= a.cap
      /\ a.data \in [Indices(a.cap) -> Cell] /\ \A j \in Indices(a.len) : a.data[j] \in Values
  BY GoodArray
<1>2. \A i \in Indices(a.len - 1) : i \in Indices(a.len)
  BY <1>1 DEF Indices
<1> QED BY <1>1, <1>2, WithGood

LEMMA ZeroedGood == ASSUME NEW n \in Nat PROVE Zeroed(n) \in GoodArrays
<1> DEFINE f == [i \in 0..(n - 1) |-> 0]
           b == [state |-> "live", mine |-> TRUE, len |-> n, cap |-> n, data |-> f]
<1>1. f \in [Indices(n) -> Cell] /\ \A i \in Indices(n) : f[i] \in Values
  BY ValuesAssumption DEF Cell, Indices
<1> HIDE DEF f
<1>2. f \in Run(Cell)
  BY <1>1, RunOf
<1>3. b \in ArrayRec
  BY <1>2 DEF ArrayRec
<1>4. b \in GoodArrays
  BY <1>1, <1>3 DEF GoodArrays, ArrayOK, Indices
<1> QED BY <1>4 DEF Zeroed, f

LEMMA UnusedGood == Unused \in GoodArrays
<1>1. << >> \in [Indices(0) -> Cell]
  BY DEF Indices
<1>2. << >> \in Run(Cell)
  BY <1>1, RunOf
<1>3. Unused \in ArrayRec
  BY <1>2 DEF ArrayRec, Unused
<1> QED BY <1>1, <1>3 DEF GoodArrays, ArrayOK, Unused, Indices

LEMMA CopiedGood ==
  ASSUME NEW a \in GoodArrays, NEW n \in Nat, NEW cap \in Nat, n <= cap,
         NEW f \in [Indices(n) -> Indices(a.len)]
  PROVE  Copied(a, f, n, cap) \in GoodArrays
<1> DEFINE g == [i \in 0..(cap - 1) |-> IF i < n THEN a.data[f[i]] ELSE Junk]
           b == [state |-> "live", mine |-> TRUE, len |-> n, cap |-> cap, data |-> g]
<1>1. \A i \in Indices(a.len) : a.data[i] \in Values
  BY GoodArray
<1>2. \A i \in Indices(n) : a.data[f[i]] \in Values
  BY <1>1
<1>3. g \in [Indices(cap) -> Cell] /\ \A i \in Indices(n) : g[i] \in Values
  BY <1>2 DEF Indices, Cell
<1> HIDE DEF g
<1>4. g \in Run(Cell)
  BY <1>3, RunOf
<1>5. b \in ArrayRec
  BY <1>4 DEF ArrayRec
<1>6. b \in GoodArrays
  BY <1>3, <1>5 DEF GoodArrays, ArrayOK, Indices
<1> QED BY <1>6 DEF Copied, g

(* Entries of a map in a list of their own: aym_map_values.                *)
LEMMA ListedGood ==
  ASSUME NEW n \in Nat, NEW f, \A i \in Indices(n) : f[i] \in Values
  PROVE  Listed(n, f) \in GoodArrays
<1> DEFINE g == [i \in Indices(n) |-> f[i]]
<1>1. g \in [Indices(n) -> Cell] /\ \A i \in Indices(n) : g[i] \in Values
  BY DEF Cell
<1> HIDE DEF g
<1>2. ArrayWith(Zeroed(n), n, n, g) \in GoodArrays
  BY <1>1, ZeroedGood, WithGood
<1> QED BY <1>2 DEF Listed, g
-----------------------------------------------------------------------------
(* Maps: each of their blocks has room for cap entries, and the first n of *)
(* them have been written.                                                 *)
Block(f, n, cap, S) == f \in [Indices(cap) -> S \cup {Junk}] /\ \A i \in Indices(n) : f[i] \in S

LEMMA BlockStored ==
  ASSUME NEW S, NEW n \in Nat, NEW cap \in Nat, NEW f, Block(f, n, cap, S), n <= cap,
         NEW i \in Indices(n), NEW v \in S
  PROVE  Block([f EXCEPT ![i] = v], n, cap, S)
  BY DEF Block, Indices

LEMMA BlockAppended ==
  ASSUME NEW S, NEW n \in Nat, NEW cap \in Nat, NEW f, Block(f, n, cap, S), n < cap, NEW v \in S
  PROVE  Block([f EXCEPT ![n] = v], n + 1, cap, S)
  BY DEF Block, Indices

LEMMA BlockLonger ==
  ASSUME NEW S, NEW n \in Nat, NEW cap \in Nat, NEW f, Block(f, n, cap, S), n <= cap,
         NEW more \in Nat, cap <= more
  PROVE  Block(Longer(f, cap, more), n, more, S)
<1>1. Longer(f, cap, more) = [i \in Indices(more) |-> IF i < cap THEN f[i] ELSE Junk]
  BY DEF Longer, Indices
<1>2. \A i \in Indices(more) : i < cap => i \in Indices(cap)
  BY DEF Indices
<1>3. \A i \in Indices(n) : i \in Indices(more) /\ i < cap
  BY DEF Indices
<1> QED BY <1>1, <1>2, <1>3 DEF Block

LEMMA BlockMoved ==
  ASSUME NEW S, NEW n \in Nat, NEW cap \in Nat, NEW f, Block(f, n, cap, S), n <= cap, NEW k \in Int, n > 0
  PROVE  Block(MovedUp(f, k, n), n - 1, cap, S)
<1>1. MovedUp(f, k, n) = [i \in Indices(cap) |-> IF k <= i /\ i < n - 1 THEN f[i + 1] ELSE f[i]]
  BY DEF Block, MovedUp
<1>2. \A i \in Indices(n - 1) : i \in Indices(n) /\ i + 1 \in Indices(n) /\ i \in Indices(cap)
  BY DEF Indices
<1>3. \A i \in Indices(cap) : i < n - 1 => i \in Indices(n - 1)
  BY DEF Indices
<1> QED BY <1>1, <1>2, <1>3 DEF Block

LEMMA GoodMap ==
  ASSUME NEW d \in GoodMaps
  PROVE  /\ d \in MapRec /\ d.len \in Nat /\ d.cap \in Nat /\ d.len <= d.cap
         /\ Block(d.keys, d.len, d.cap, Keys) /\ Block(d.values, d.len, d.cap, Values)
         /\ Block(d.types, d.len, d.cap, BOOLEAN)
<1>1. /\ d \in MapRec /\ d.len \in Nat /\ d.cap \in Nat /\ d.len <= d.cap
      /\ DOMAIN d.keys = Indices(d.cap) /\ DOMAIN d.values = Indices(d.cap) /\ DOMAIN d.types = Indices(d.cap)
  BY DEF GoodMaps, MapOK, Indices
<1>2. \A i \in Indices(d.len) : d.keys[i] \in Keys /\ d.values[i] \in Values /\ d.types[i] \in BOOLEAN
  BY DEF GoodMaps, MapOK, Indices
<1>3. /\ d.keys \in Run(Keys \cup {Junk}) /\ d.values \in Run(Values \cup {Junk})
      /\ d.types \in Run(BOOLEAN \cup {Junk})
  BY <1>1 DEF MapRec, Cell
<1>4. \A S, f : f \in Run(S) /\ DOMAIN f = Indices(d.cap) => f \in [Indices(d.cap) -> S]
  BY DEF Run
<1>5. d.keys \in [Indices(d.cap) -> Keys \cup {Junk}]
  BY <1>1, <1>3, <1>4
<1>6. d.values \in [Indices(d.cap) -> Values \cup {Junk}]
  BY <1>1, <1>3, <1>4
<1>7. d.types \in [Indices(d.cap) -> BOOLEAN \cup {Junk}]
  BY <1>1, <1>3, <1>4
<1> QED BY <1>1, <1>2, <1>5, <1>6, <1>7 DEF Block

LEMMA BlocksGood ==
  ASSUME NEW live \in BOOLEAN, NEW n \in Nat, NEW cap \in Nat, n <= cap, NEW freed \in SUBSET Blocks,
         NEW ks, Block(ks, n, cap, Keys), NEW vs, Block(vs, n, cap, Values),
         NEW ts, Block(ts, n, cap, BOOLEAN)
  PROVE  [live |-> live, len |-> n, cap |-> cap, keys |-> ks, values |-> vs, types |-> ts, freed |-> freed]
           \in GoodMaps
<1> DEFINE d == [live |-> live, len |-> n, cap |-> cap, keys |-> ks, values |-> vs, types |-> ts, freed |-> freed]
<1>1. ks \in Run(Keys \cup {Junk}) /\ vs \in Run(Cell) /\ ts \in Run(BOOLEAN \cup {Junk})
  BY RunOf DEF Block, Cell
<1>2. d \in MapRec
  BY <1>1 DEF MapRec
<1>3. DOMAIN ks = 0..(cap - 1) /\ DOMAIN vs = 0..(cap - 1) /\ DOMAIN ts = 0..(cap - 1)
  BY DEF Block, Indices
<1>4. \A i \in 0..(n - 1) : ks[i] \in Keys /\ vs[i] \in Values /\ ts[i] \in BOOLEAN
  BY DEF Block, Indices
<1>5. MapOK(d)
  BY <1>3, <1>4 DEF MapOK
<1> QED BY <1>2, <1>5 DEF GoodMaps

LEMMA MapWithGood ==
  ASSUME NEW d \in GoodMaps, NEW n \in Nat, NEW cap \in Nat, n <= cap,
         NEW ks, Block(ks, n, cap, Keys), NEW vs, Block(vs, n, cap, Values),
         NEW ts, Block(ts, n, cap, BOOLEAN)
  PROVE  MapWith(d, n, cap, ks, vs, ts) \in GoodMaps
<1>1. d.live \in BOOLEAN /\ d.freed \in SUBSET Blocks
  BY GoodMap DEF MapRec
<1> QED BY <1>1, BlocksGood DEF MapWith

LEMMA NoMapGood == NoMap \in GoodMaps
<1>1. \A S : Block(<< >>, 0, 0, S)
  BY DEF Block, Indices
<1>2. [live |-> FALSE, len |-> 0, cap |-> 0, keys |-> << >>, values |-> << >>, types |-> << >>, freed |-> {}]
        \in GoodMaps
  BY ONLY <1>1, BlocksGood, 0 \in Nat, 0 <= 0, FALSE \in BOOLEAN, {} \in SUBSET Blocks
<1> QED BY <1>2 DEF NoMap

LEMMA EmptyMapGood == ASSUME NEW n \in Nat PROVE EmptyMap(n) \in GoodMaps
<1> DEFINE ks == [i \in 0..(n - 1) |-> Junk]
           vs == [i \in 0..(n - 1) |-> 0]
           ts == [i \in 0..(n - 1) |-> FALSE]
<1>1. Block(ks, 0, n, Keys)
  BY DEF Block, Indices
<1>2. Block(vs, 0, n, Values)
  BY ValuesAssumption DEF Block, Indices
<1>3. Block(ts, 0, n, BOOLEAN)
  BY DEF Block, Indices
<1> HIDE DEF ks, vs, ts
<1>4. [live |-> TRUE, len |-> 0, cap |-> n, keys |-> ks, values |-> vs, types |-> ts, freed |-> {}] \in GoodMaps
  BY ONLY <1>1, <1>2, <1>3, BlocksGood, n \in Nat, 0 \in Nat, 0 <= n, TRUE \in BOOLEAN, {} \in SUBSET Blocks
<1> QED BY <1>4 DEF EmptyMap, ks, vs, ts

LEMMA GrownMapGood ==
  ASSUME NEW d \in GoodMaps
  PROVE  GrownMap(d) \in GoodMaps /\ GrownMap(d).len = d.len /\ GrownMap(d).cap > d.cap
<1> DEFINE n == Doubled(d.cap)
<1>1. n \in Nat /\ n > d.cap
  BY GoodMap DEF Doubled
<1> HIDE DEF n
<1>2. /\ Block(Longer(d.keys, d.cap, n), d.len, n, Keys) /\ Block(Longer(d.values, d.cap, n), d.len, n, Values)
      /\ Block(Longer(d.types, d.cap, n), d.len, n, BOOLEAN)
  BY <1>1, GoodMap, BlockLonger
<1>3. MapWith(d, d.len, n, Longer(d.keys, d.cap, n), Longer(d.values, d.cap, n), Longer(d.types, d.cap, n)) \in GoodMaps
  BY <1>1, <1>2, GoodMap, MapWithGood
<1>4. GrownMap(d) = MapWith(d, d.len, n, Longer(d.keys, d.cap, n), Longer(d.values, d.cap, n), Longer(d.types, d.cap, n))
  BY DEF GrownMap, n
<1> QED BY <1>1, <1>3, <1>4 DEF MapWith

LEMMA HalfGrownGood ==
  ASSUME NEW d \in GoodMaps, NEW failing
  PROVE  HalfGrown(d, failing) \in GoodMaps
<1> DEFINE freed == IF d.cap = 0 THEN {} ELSE Blocks \ failing
           e == [d EXCEPT !.freed = freed]
<1>1. freed \in SUBSET Blocks
  OBVIOUS
<1> HIDE DEF freed
<1>2. e \in MapRec /\ e.len = d.len /\ e.cap = d.cap /\ e.keys = d.keys /\ e.values = d.values /\ e.types = d.types
  BY <1>1, GoodMap DEF MapRec
<1>3. MapOK(d)
  BY DEF GoodMaps
<1>4. MapOK(e)
  BY ONLY <1>2, <1>3 DEF MapOK
<1> QED BY <1>2, <1>4 DEF HalfGrown, GoodMaps, freed

(* aym_map_find.                                                           *)
LEMMA LeastFound ==
  ASSUME NEW d \in GoodMaps, NEW k, Find(d, k) # {}
  PROVE  \E i \in Find(d, k) : \A j \in Find(d, k) : i <= j
<1> DEFINE R == OpToRel(<, Nat)
<1>1. \A i, j \in Nat : <<i, j>> \in R <=> i < j
  BY DEF OpToRel
<1>2. IsWellFoundedOn(R, Nat)
  BY NatLessThanWellFounded
<1> HIDE DEF R
<1>3. Find(d, k) \subseteq Nat
  BY GoodMap DEF Find
<1>4. PICK i \in Find(d, k) : \A j \in Find(d, k) : ~(<<j, i>> \in R)
  BY <1>2, <1>3, WFMin
<1>5. \A j \in Find(d, k) : i <= j
  <2>1. i \in Nat
    BY <1>3
  <2> TAKE j \in Find(d, k)
  <2>2. j \in Nat /\ ~(<<j, i>> \in R)
    BY <1>3, <1>4
  <2>3. ~(j < i)
    BY <1>1, <2>1, <2>2
  <2> QED BY <2>1, <2>2, <2>3
<1> QED BY <1>5

LEMMA FoundEntry ==
  ASSUME NEW d \in GoodMaps, NEW k, Find(d, k) # {}
  PROVE  At(d, k) \in Indices(d.len) /\ d.len > 0
<1>1. Find(d, k) \subseteq Indices(d.len) /\ d.len \in Nat
  BY GoodMap DEF Find, Indices
<1>2. At(d, k) \in Find(d, k)
  BY LeastFound DEF At
<1> QED BY <1>1, <1>2 DEF Indices

LEMMA OverwrittenGood ==
  ASSUME NEW d \in GoodMaps, NEW k, Find(d, k) # {}, NEW v \in Values, NEW str \in BOOLEAN
  PROVE  Overwritten(d, k, v, str) \in GoodMaps
<1>1. At(d, k) \in Indices(d.len)
  BY FoundEntry
<1>2. /\ Block([d.values EXCEPT ![At(d, k)] = v], d.len, d.cap, Values)
      /\ Block([d.types EXCEPT ![At(d, k)] = str], d.len, d.cap, BOOLEAN)
  BY <1>1, GoodMap, BlockStored
<1> QED BY <1>2, GoodMap, MapWithGood DEF Overwritten

LEMMA AppendedGood ==
  ASSUME NEW d \in GoodMaps, d.len < d.cap, NEW k \in Keys, NEW v \in Values, NEW str \in BOOLEAN
  PROVE  Appended(d, k, v, str) \in GoodMaps
<1>1. d.len + 1 \in Nat /\ d.len + 1 <= d.cap
  BY GoodMap
<1>2. /\ Block([d.keys EXCEPT ![d.len] = k], d.len + 1, d.cap, Keys)
      /\ Block([d.values EXCEPT ![d.len] = v], d.len + 1, d.cap, Values)
      /\ Block([d.types EXCEPT ![d.len] = str], d.len + 1, d.cap, BOOLEAN)
  BY GoodMap, BlockAppended
<1> QED BY <1>1, <1>2, GoodMap, MapWithGood DEF Appended

(* aym_map_delete.                                                         *)
LEMMA DeletedGood ==
  ASSUME NEW d \in GoodMaps, NEW i \in Int, d.len > 0
  PROVE  Deleted(d, i) \in GoodMaps
<1>1. d.len - 1 \in Nat /\ d.len - 1 <= d.cap
  BY GoodMap
<1>2. /\ Block(MovedUp(d.keys, i, d.len), d.len - 1, d.cap, Keys)
      /\ Block(MovedUp(d.values, i, d.len), d.len - 1, d.cap, Values)
      /\ Block(MovedUp(d.types, i, d.len), d.len - 1, d.cap, BOOLEAN)
  BY GoodMap, BlockMoved
<1> QED BY <1>1, <1>2, GoodMap, MapWithGood DEF Deleted
-----------------------------------------------------------------------------
(* Higher-order calls.                                                     *)
LEMMA MarkedGood ==
  ASSUME calls \in Seq(GoodCalls), NEW x
  PROVE  Marked(x) \in Seq(GoodCalls)
<1>1. \A c \in GoodCalls : [c EXCEPT !.changed = @ \/ c.src = x] \in GoodCalls
  BY DEF GoodCalls, CallRec
<1>2. Marked(x) = [f \in 1..Len(calls) |-> [calls[f] EXCEPT !.changed = @ \/ calls[f].src = x]]
  BY DEF Marked
<1>3. Marked(x) \in [1..Len(calls) -> GoodCalls]
  BY <1>1, <1>2
<1> QED BY <1>3

LEMMA PassedGood ==
  ASSUME NEW c \in CallRec, NEW v \in Values
  PROVE  Passed(c, v) \in GoodCalls
<1> DEFINE f == [c EXCEPT !.phase = "function"]
           g == [f EXCEPT !.seen = Append(@, v)]
<1>1. f \in CallRec
  BY DEF CallRec
<1>2. f.seen \in Seq(Values)
  BY <1>1 DEF CallRec
<1> HIDE DEF f
<1>3. Append(f.seen, v) \in Seq(Values) /\ Append(f.seen, v) # << >>
  BY <1>2
<1>4. g \in CallRec
  BY <1>1, <1>3 DEF CallRec
<1>5. g.seen # << >>
  BY <1>1, <1>3 DEF CallRec
<1> QED BY <1>4, <1>5 DEF Passed, GoodCalls, f

LEMMA AnsweredGood ==
  ASSUME NEW c \in CallRec, NEW r \in Values
  PROVE  Answered(c, r) \in CallRec /\ Answered(c, r).phase = "loop"
         /\ Answered(c, r).seen = c.seen /\ Answered(c, r).out = c.out
<1> DEFINE back == [c EXCEPT !.phase = "loop"]
           on == [back EXCEPT !.next = @ + 1]
           answer == [on EXCEPT !.gave = Append(@, r)]
           summed == [answer EXCEPT !.acc = r]
<1>1. back \in CallRec /\ back.phase = "loop" /\ back.seen = c.seen /\ back.out = c.out
  BY DEF CallRec
<1> HIDE DEF back
<1>2. on \in CallRec /\ on.phase = "loop" /\ on.seen = c.seen /\ on.out = c.out
  <2>1. back.next + 1 \in Nat
    BY <1>1 DEF CallRec
  <2>2. on \in CallRec
    BY <1>1, <2>1 DEF CallRec
  <2>3. on.phase = back.phase /\ on.seen = back.seen /\ on.out = back.out
    BY <1>1 DEF CallRec
  <2> QED BY <1>1, <2>2, <2>3
<1> HIDE DEF on
<1>3. Append(on.gave, r) \in Seq(Values)
  BY <1>2 DEF CallRec
<1>4. answer \in CallRec /\ answer.phase = "loop" /\ answer.seen = c.seen /\ answer.out = c.out
  BY <1>2, <1>3 DEF CallRec
<1> HIDE DEF answer
<1>5. summed \in CallRec /\ summed.phase = "loop" /\ summed.seen = c.seen /\ summed.out = c.out
  BY <1>4 DEF CallRec
<1>6. Answered(c, r) = IF c.op = "reduce" THEN summed ELSE answer
  BY DEF Answered, back, on, answer
<1> HIDE DEF summed
<1> QED BY <1>4, <1>5, <1>6

LEMMA CallGood ==
  ASSUME NEW op \in {"map", "filter", "reduce"}, NEW x \in Arrays, arr[x] \in GoodArrays,
         NEW out \in Arrays \cup {NULL}
  PROVE  Call(op, x, out, 0) \in GoodCalls /\ [Call(op, x, out, 0) EXCEPT !.lost = TRUE] \in GoodCalls
<1>1. arr[x].len \in Nat /\ \A i \in Indices(arr[x].len) : arr[x].data[i] \in Values
  BY GoodArray
<1>2. \A i \in 1..arr[x].len : i - 1 \in Indices(arr[x].len)
  BY <1>1 DEF Indices
<1>3. Contents(arr[x]) \in [1..arr[x].len -> Values]
  BY <1>1, <1>2 DEF Contents
<1>4. Contents(arr[x]) \in Seq(Values) /\ << >> \in Seq(Values)
  BY <1>1, <1>3
<1>5. Call(op, x, out, 0) \in CallRec /\ Call(op, x, out, 0).phase = "loop"
  BY <1>1, <1>4, ValuesAssumption DEF Call, CallRec
<1>6. [Call(op, x, out, 0) EXCEPT !.lost = TRUE] \in CallRec
      /\ [Call(op, x, out, 0) EXCEPT !.lost = TRUE].phase = "loop"
  BY <1>5 DEF CallRec
<1> QED BY <1>5, <1>6 DEF GoodCalls

LEMMA TopGood ==
  ASSUME calls \in Seq(GoodCalls), calls # << >>
  PROVE  Top \in GoodCalls /\ Top \in CallRec /\ Len(calls) \in 1..Len(calls)
<1>1. Len(calls) \in 1..Len(calls)
  OBVIOUS
<1> QED BY <1>1 DEF Top, Last, GoodCalls

LEMMA RoundGood ==
  ASSUME calls \in Seq(GoodCalls), calls # << >>, NEW c \in GoodCalls, Round(c)
  PROVE  calls' \in Seq(GoodCalls)
  BY DEF Round
-----------------------------------------------------------------------------
(* Steps.  A call leaves lists, maps and higher-order calls alone or puts  *)
(* good ones in their place.                                               *)
LEMMA NoChangeGood == ASSUME Inv, NoChange PROVE Inv'
  BY DEF Inv, NoChange

LEMMA UpdateGood ==
  ASSUME Inv, NEW x \in Arrays, NEW a \in GoodArrays, Update(x, a)
  PROVE  Inv'
<1>1. arr' \in [Arrays -> GoodArrays] /\ map' = map
  BY DEF Update, Inv
<1>2. calls' \in Seq(GoodCalls)
  BY MarkedGood DEF Update, Inv
<1> QED BY <1>1, <1>2 DEF Inv

LEMMA AddsGood ==
  ASSUME Inv, NEW a \in GoodArrays, Adds(a)
  PROVE  Inv'
  BY DEF Adds, Inv

LEMMA BindGood ==
  ASSUME Inv, NEW m \in Maps, NEW d \in GoodMaps, Bind(m, d)
  PROVE  Inv'
  BY DEF Bind, Inv

LEMMA AbandonGood ==
  ASSUME calls \in Seq(GoodCalls), NEW n \in 0..Len(calls), calls' = SubSeq(calls, 1, n)
  PROVE  calls' \in Seq(GoodCalls)
  OBVIOUS

LEMMA ThrowGood == ASSUME Inv, NEW error, Throw(error) PROVE Inv'
<1>1. calls' \in Seq(GoodCalls)
  BY AbandonGood DEF Throw, Inv
<1> QED BY <1>1 DEF Throw, Inv

LEMMA IgnoredGood == ASSUME Inv, Ignored \/ NoMemory PROVE Inv'
  BY NoChangeGood DEF Ignored, NoMemory

LEMMA HeldGood ==
  ASSUME Inv, NEW x \in Held \cup {NULL}, x # NULL
  PROVE  x \in Arrays /\ arr[x] \in GoodArrays
  BY DEF Held, Inv

LEMMA ArrayNewKeeps == ASSUME Inv, NEW n \in Int, ArrayNew(n) PROVE Inv'
<1>1. CASE n < 0
  BY <1>1, IgnoredGood DEF ArrayNew
<1>2. CASE ~(n < 0)
  <2>1. Zeroed(n) \in GoodArrays
    BY <1>2, ZeroedGood
  <2> QED BY <1>2, <2>1, AddsGood, IgnoredGood DEF ArrayNew
<1> QED BY <1>1, <1>2

LEMMA ArraySetKeeps ==
  ASSUME Inv, NEW x \in Held \cup {NULL}, NEW i \in Int, NEW v \in Values, ArraySet(x, i, v)
  PROVE  Inv'
<1>1. CASE x # NULL /\ 0 <= i /\ i < arr[x].len
  <2>1. x \in Arrays /\ arr[x] \in GoodArrays
    BY <1>1, HeldGood
  <2>2. SetCell(arr[x], i, v) \in GoodArrays
    BY <1>1, <2>1, SetCellGood
  <2> QED BY <1>1, <2>1, <2>2, UpdateGood DEF ArraySet
<1>2. CASE ~(x # NULL /\ 0 <= i /\ i < arr[x].len)
  BY <1>2, IgnoredGood DEF ArraySet
<1> QED BY <1>1, <1>2

LEMMA ArrayPushKeeps ==
  ASSUME Inv, NEW x \in Held \cup {NULL}, NEW v \in Values, ArrayPush(x, v)
  PROVE  Inv'
<1>1. CASE x = NULL
  BY <1>1, IgnoredGood DEF ArrayPush
<1>2. CASE x # NULL
  <2>1. x \in Arrays /\ arr[x] \in GoodArrays
    BY <1>2, HeldGood
  <2>2. Pushed(arr[x], v) \in GoodArrays
    BY <2>1, PushedGood
  <2> QED BY <1>2, <2>1, <2>2, UpdateGood, NoChangeGood DEF ArrayPush
<1> QED BY <1>1, <1>2

LEMMA ArrayPopKeeps == ASSUME Inv, NEW x \in Held \cup {NULL}, ArrayPop(x) PROVE Inv'
<1>1. CASE x = NULL \/ arr[x].len <= 0
  BY <1>1, ThrowGood DEF ArrayPop
<1>2. CASE ~(x = NULL \/ arr[x].len <= 0)
  <2>1. x \in Arrays /\ arr[x] \in GoodArrays
    BY <1>2, HeldGood
  <2>2. arr[x].len > 0
    BY <1>2, <2>1, GoodArray
  <2>3. ArrayWith(arr[x], arr[x].len - 1, arr[x].cap, arr[x].data) \in GoodArrays
    BY <2>1, <2>2, PoppedGood
  <2> QED BY <1>2, <2>1, <2>3, UpdateGood DEF ArrayPop
<1> QED BY <1>1, <1>2

LEMMA ArrayRemoveAtKeeps ==
  ASSUME Inv, NEW x \in Held \cup {NULL}, NEW i \in Int, ArrayRemoveAt(x, i)
  PROVE  Inv'
<1>1. CASE x = NULL \/ i < 0 \/ i >= arr[x].len
  BY <1>1, ThrowGood DEF ArrayRemoveAt
<1>2. CASE ~(x = NULL \/ i < 0 \/ i >= arr[x].len)
  <2>1. x \in Arrays /\ arr[x] \in GoodArrays
    BY <1>2, HeldGood
  <2>2. arr[x].len > 0
    BY <1>2, <2>1, GoodArray
  <2>3. Removed(arr[x], i) \in GoodArrays
    BY <2>1, <2>2, RemovedGood
  <2> QED BY <1>2, <2>1, <2>3, UpdateGood DEF ArrayRemoveAt
<1> QED BY <1>1, <1>2

LEMMA ArraySortKeeps == ASSUME Inv, NEW x \in Held \cup {NULL}, ArraySort(x) PROVE Inv'
<1>1. CASE x = NULL /\ Adds(Zeroed(0))
  BY <1>1, ZeroedGood, AddsGood
<1>2. ASSUME x # NULL, NEW f \in Bijection(Indices(arr[x].len), Indices(arr[x].len)),
             Adds(Copied(arr[x], f, arr[x].len, arr[x].len))
      PROVE  Inv'
  <2>1. arr[x] \in GoodArrays
    BY <1>2, HeldGood
  <2>2. f \in [Indices(arr[x].len) -> Indices(arr[x].len)] /\ arr[x].len \in Nat
    BY <2>1, GoodArray DEF Bijection, Injection
  <2>3. Copied(arr[x], f, arr[x].len, arr[x].len) \in GoodArrays
    BY <2>1, <2>2, CopiedGood
  <2> QED BY <1>2, <2>3, AddsGood
<1>3. CASE NoMemory
  BY <1>3, IgnoredGood
<1> QED BY <1>1, <1>2, <1>3 DEF ArraySort

LEMMA ArrayUniqueKeeps == ASSUME Inv, NEW x \in Held \cup {NULL}, ArrayUnique(x) PROVE Inv'
<1>1. CASE x = NULL /\ Adds(Zeroed(0))
  BY <1>1, ZeroedGood, AddsGood
<1>2. ASSUME x # NULL, NEW K \in SUBSET Indices(arr[x].len), NEW f \in [Indices(Cardinality(K)) -> K],
             NEW cap \in Capacities(Cardinality(K)), Adds(Copied(arr[x], f, Cardinality(K), cap))
      PROVE  Inv'
  <2>1. arr[x] \in GoodArrays /\ arr[x].len \in Nat
    BY <1>2, HeldGood, GoodArray
  <2>2. Cardinality(K) \in Nat
    <3>1. IsFiniteSet(Indices(arr[x].len))
      BY <2>1, FS_Interval DEF Indices
    <3> QED BY <3>1, FS_Subset, FS_CardinalityType
  <2>3. cap \in Nat /\ Cardinality(K) <= cap
    BY <2>2 DEF Capacities
  <2>4. f \in [Indices(Cardinality(K)) -> Indices(arr[x].len)]
    OBVIOUS
  <2>5. Copied(arr[x], f, Cardinality(K), cap) \in GoodArrays
    BY <2>1, <2>2, <2>3, <2>4, CopiedGood
  <2> QED BY <1>2, <2>5, AddsGood
<1>3. CASE NoMemory
  BY <1>3, IgnoredGood
<1> QED BY <1>1, <1>2, <1>3 DEF ArrayUnique

LEMMA ArrayFreeKeeps == ASSUME Inv, NEW x \in Held \cup {NULL}, ArrayFree(x) PROVE Inv'
<1>1. CASE x = NULL
  BY <1>1, IgnoredGood DEF ArrayFree
<1>2. CASE x # NULL
  <2>1. x \in Arrays /\ [arr[x] EXCEPT !.state = "freed"] \in GoodArrays
    BY <1>2, HeldGood, OwnerGood
  <2> QED BY <1>2, <2>1, UpdateGood DEF ArrayFree
<1> QED BY <1>1, <1>2

LEMMA HofBeginKeeps ==
  ASSUME Inv, NEW op \in {"map", "filter", "reduce"}, NEW x \in Held \cup {NULL}, HofBegin(op, x)
  PROVE  Inv'
<1>1. CASE x = NULL
  BY <1>1, ArrayNewKeeps, NoChangeGood DEF HofBegin
<1>2. CASE x # NULL
  <2>1. x \in Arrays /\ arr[x] \in GoodArrays
    BY <1>2, HeldGood
  <2>2. \A out \in Arrays \cup {NULL} :
          Call(op, x, out, 0) \in GoodCalls /\ [Call(op, x, out, 0) EXCEPT !.lost = TRUE] \in GoodCalls
    BY <2>1, CallGood
  <2>3. \A c \in GoodCalls : Enter(c) => calls' \in Seq(GoodCalls)
    BY DEF Enter, Inv
  <2>4. map' = map
    BY <1>2 DEF HofBegin
  <2>5. CASE Enter(Call(op, x, NULL, 0)) /\ UNCHANGED arr
    BY <2>2, <2>3, <2>4, <2>5 DEF Inv
  <2>6. CASE /\ Room # {} /\ arr' = [arr EXCEPT ![Fresh] = Hidden(Zeroed(0))]
             /\ Enter(Call(op, x, Fresh, 0))
    <3>1. Fresh \in Arrays
      BY <2>6 DEF Fresh, Room
    <3>2. Hidden(Zeroed(0)) \in GoodArrays
      BY ZeroedGood, OwnerGood
    <3>3. arr' \in [Arrays -> GoodArrays]
      BY <2>6, <3>1, <3>2 DEF Inv
    <3> QED BY <2>2, <2>3, <2>4, <2>6, <3>1, <3>3 DEF Inv
  <2>7. CASE UNCHANGED arr /\ Enter([Call(op, x, NULL, 0) EXCEPT !.lost = TRUE])
    BY <2>2, <2>3, <2>4, <2>7 DEF Inv
  <2> QED BY <1>2, <2>5, <2>6, <2>7 DEF HofBegin
<1> QED BY <1>1, <1>2

LEMMA HofRoundKeeps == ASSUME Inv, HofRound PROVE Inv'
<1>1. calls \in Seq(GoodCalls) /\ calls # << >> /\ UNCHANGED <<arr, map>>
  BY DEF HofRound, InRuntime, Inv
<1>2. Top \in CallRec
  BY <1>1, TopGood
<1>3. Top.src \in Arrays /\ Top.next \in Nat
  BY <1>2 DEF CallRec
<1>4. arr[Top.src] \in GoodArrays
  BY <1>3 DEF Inv
<1>5. Get(arr[Top.src], Top.next) \in Values
  BY <1>3, <1>4, GoodArray, ValuesAssumption DEF Get, Indices
<1>6. Passed(Top, Get(arr[Top.src], Top.next)) \in GoodCalls
  BY <1>2, <1>5, PassedGood
<1>7. calls' \in Seq(GoodCalls)
  BY <1>1, <1>6, RoundGood DEF HofRound
<1> QED BY <1>1, <1>7 DEF Inv

LEMMA HofReturnKeeps == ASSUME Inv, NEW r \in Values, HofReturn(r) PROVE Inv'
<1> DEFINE c == Answered(Top, r)
<1>1. calls \in Seq(GoodCalls) /\ calls # << >> /\ Top.phase = "function" /\ UNCHANGED map
  BY DEF HofReturn, Inv
<1>2. Top \in CallRec /\ Top.seen \in Seq(Values) /\ Top.seen # << >>
  BY <1>1, TopGood DEF GoodCalls, CallRec
<1>3. c \in CallRec /\ c.phase = "loop" /\ c.seen = Top.seen
  BY <1>2, AnsweredGood
<1> HIDE DEF c
<1>4. c \in GoodCalls /\ [c EXCEPT !.lost = TRUE] \in GoodCalls
  BY <1>3 DEF GoodCalls, CallRec
<1>5. Result(c, r) \in Values
  BY <1>2, <1>3 DEF Result, Last
<1>6. \/ Round(c) /\ UNCHANGED arr
      \/ c.out # NULL /\ Round(c) /\ arr' = [arr EXCEPT ![c.out] = Pushed(@, Result(c, r))]
      \/ Round([c EXCEPT !.lost = TRUE]) /\ UNCHANGED arr
  BY DEF HofReturn, c
<1>7. calls' \in Seq(GoodCalls)
  BY <1>1, <1>4, <1>6, RoundGood
<1>8. CASE UNCHANGED arr
  BY <1>1, <1>7, <1>8 DEF Inv
<1>9. CASE c.out # NULL /\ arr' = [arr EXCEPT ![c.out] = Pushed(@, Result(c, r))]
  <2>1. c.out \in Arrays
    BY <1>3, <1>9 DEF CallRec
  <2>2. Pushed(arr[c.out], Result(c, r)) \in GoodArrays
    BY <1>5, <2>1, PushedGood DEF Inv
  <2>3. arr' \in [Arrays -> GoodArrays]
    BY <1>9, <2>1, <2>2 DEF Inv
  <2> QED BY <1>1, <1>7, <2>3 DEF Inv
<1> QED BY <1>6, <1>8, <1>9

LEMMA HofThrowsKeeps == ASSUME Inv, HofThrows PROVE Inv'
<1>1. calls \in Seq(GoodCalls) /\ UNCHANGED <<arr, map>>
  BY DEF HofThrows, Inv
<1>2. PICK n \in 0..(Len(calls) - 1) : calls' = SubSeq(calls, 1, n)
  BY DEF HofThrows
<1>3. calls' \in Seq(GoodCalls)
  BY <1>1, <1>2, AbandonGood
<1> QED BY <1>1, <1>3 DEF Inv

LEMMA HofEndKeeps == ASSUME Inv, HofEnd PROVE Inv'
<1>1. calls \in Seq(GoodCalls) /\ calls # << >> /\ UNCHANGED map
  BY DEF HofEnd, InRuntime, Inv
<1>2. calls' \in Seq(GoodCalls)
  BY <1>1 DEF HofEnd, Front
<1>3. CASE UNCHANGED arr
  BY <1>1, <1>2, <1>3 DEF Inv
<1>4. CASE Top.out # NULL /\ arr' = [arr EXCEPT ![Top.out] = Given(@)]
  <2>1. Top.out \in Arrays
    BY <1>1, <1>4, TopGood DEF CallRec
  <2>2. arr' \in [Arrays -> GoodArrays]
    BY <1>4, <2>1, OwnerGood DEF Inv
  <2> QED BY <1>1, <1>2, <2>2 DEF Inv
<1> QED BY <1>3, <1>4 DEF HofEnd

LEMMA MapNewKeeps == ASSUME Inv, NEW n \in Int, MapNew(n) PROVE Inv'
<1>1. CASE n < 0
  BY <1>1, IgnoredGood DEF MapNew
<1>2. CASE ~(n < 0)
  <2>1. EmptyMap(n) \in GoodMaps
    BY <1>2, EmptyMapGood
  <2> QED BY <1>2, <2>1, BindGood, IgnoredGood DEF MapNew
<1> QED BY <1>1, <1>2

LEMMA ExistingGood ==
  ASSUME Inv, NEW m \in Existing \cup {NULL}, m # NULL
  PROVE  m \in Maps /\ map[m] \in GoodMaps
  BY DEF Existing, Inv

LEMMA MapSetKeeps ==
  ASSUME Inv, NEW m \in Existing \cup {NULL}, NEW k \in Keys, NEW v \in Values, NEW str \in BOOLEAN,
         MapSet(m, k, v, str)
  PROVE  Inv'
<1> DEFINE d == map[m]
<1>1. CASE m = NULL
  BY <1>1, IgnoredGood DEF MapSet
<1>2. CASE m # NULL /\ Find(d, k) # {}
  <2>1. m \in Maps /\ Overwritten(d, k, v, str) \in GoodMaps
    BY <1>2, ExistingGood, OverwrittenGood
  <2> QED BY <1>2, <2>1, BindGood DEF MapSet
<1>3. CASE m # NULL /\ Find(d, k) = {}
  <2>1. m \in Maps /\ d \in GoodMaps
    BY <1>3, ExistingGood
  <2>2. \/ AppendKey(m, d, k, v, str) \/ GrowthFails(m, d)
    BY <1>3 DEF MapSet
  <2>3. CASE AppendKey(m, d, k, v, str)
    <3> DEFINE e == IF d.len >= d.cap THEN GrownMap(d) ELSE d
    <3>1. e \in GoodMaps /\ e.len < e.cap
      <4>1. d.len \in Nat /\ d.cap \in Nat /\ d.len <= d.cap
        BY <2>1, GoodMap
      <4>2. GrownMap(d) \in GoodMaps /\ GrownMap(d).len = d.len /\ GrownMap(d).cap > d.cap
        BY <2>1, GrownMapGood
      <4>3. GrownMap(d).cap \in Nat
        BY <4>2, GoodMap
      <4> QED BY <2>1, <4>1, <4>2, <4>3
    <3> HIDE DEF e
    <3>2. Appended(e, k, v, str) \in GoodMaps
      BY <3>1, AppendedGood
    <3>3. Bind(m, Appended(e, k, v, str))
      BY <2>3 DEF AppendKey, e
    <3> QED BY <2>1, <3>2, <3>3, BindGood
  <2>4. CASE GrowthFails(m, d)
    BY <2>1, <2>4, HalfGrownGood, BindGood DEF GrowthFails
  <2> QED BY <2>2, <2>3, <2>4
<1> QED BY <1>1, <1>2, <1>3

LEMMA MapGetKeeps == ASSUME Inv, NEW m, NEW k, MapGet(m, k) PROVE Inv'
<1>1. Throw("CLAVE") \/ NoChange
  BY Zenon DEF MapGet
<1> QED BY <1>1, ThrowGood, NoChangeGood

LEMMA MapDeleteKeeps ==
  ASSUME Inv, NEW m \in Existing \cup {NULL}, NEW k \in Keys, MapDelete(m, k)
  PROVE  Inv'
<1>1. CASE m = NULL \/ Find(map[m], k) = {}
  BY <1>1, ThrowGood DEF MapDelete
<1>2. CASE ~(m = NULL \/ Find(map[m], k) = {})
  <2>1. m \in Maps /\ map[m] \in GoodMaps
    BY <1>2, ExistingGood
  <2>2. At(map[m], k) \in Int /\ map[m].len > 0
    BY <1>2, <2>1, FoundEntry, GoodMap DEF Indices
  <2>3. Deleted(map[m], At(map[m], k)) \in GoodMaps
    BY <2>1, <2>2, DeletedGood
  <2> QED BY <1>2, <2>1, <2>3, BindGood DEF MapDelete
<1> QED BY <1>1, <1>2

LEMMA MapValuesKeeps ==
  ASSUME Inv, NEW m \in Existing \cup {NULL}, MapValues(m)
  PROVE  Inv'
<1>1. CASE m = NULL
  BY <1>1, IgnoredGood DEF MapValues
<1>2. CASE m # NULL
  <2>1. map[m] \in GoodMaps
    BY <1>2, ExistingGood
  <2>2. map[m].len \in Nat /\ \A i \in Indices(map[m].len) : map[m].values[i] \in Values
    BY <2>1, GoodMap DEF Block
  <2>3. Listed(map[m].len, map[m].values) \in GoodArrays
    BY <2>2, ListedGood
  <2> QED BY <1>2, <2>3, AddsGood, IgnoredGood DEF MapValues
<1> QED BY <1>1, <1>2
-----------------------------------------------------------------------------
LEMMA InitGood == CollectionInit => Inv
<1>1. << >> \in Seq(GoodCalls)
  OBVIOUS
<1> QED BY <1>1, UnusedGood, NoMapGood DEF CollectionInit, Inv

LEMMA ListCallKeeps == ASSUME Inv, ListCall PROVE Inv'
<1>1. \A n \in Sizes : ArrayNew(n) => Inv'
  BY SizesAssumption, ArrayNewKeeps
<1>2. ASSUME NEW x \in Held \cup {NULL}
      PROVE  /\ \A i \in Sizes, v \in Values : ArraySet(x, i, v) => Inv'
             /\ \A v \in Values : ArrayPush(x, v) => Inv'
             /\ ArrayPop(x) => Inv'
             /\ \A i \in Sizes : ArrayRemoveAt(x, i) => Inv'
             /\ ArraySort(x) \/ ArrayUnique(x) \/ ArrayFree(x) => Inv'
             /\ \A op \in {"map", "filter", "reduce"} : HofBegin(op, x) => Inv'
  <2>1. \A i \in Sizes : i \in Int
    BY SizesAssumption
  <2> QED BY <2>1, ArraySetKeeps, ArrayPushKeeps, ArrayPopKeeps, ArrayRemoveAtKeeps,
             ArraySortKeeps, ArrayUniqueKeeps, ArrayFreeKeeps, HofBeginKeeps
<1> QED BY <1>1, <1>2 DEF ListCall

LEMMA MapCallKeeps ==
  ASSUME Inv, NEW m \in Existing \cup {NULL}, MapCall(m)
  PROVE  Inv'
<1>1. ASSUME NEW k \in Keys, NEW v \in Values, NEW str \in BOOLEAN,
             Safely(m = NULL \/ map[m].freed = {}, MapSet(m, k, v, str))
      PROVE  Inv'
  BY <1>1, MapSetKeeps DEF Safely, Astray, Inv
<1>2. ASSUME NEW k \in Keys, Safely(m = NULL \/ Sound(map[m], k), MapGet(m, k) \/ MapDelete(m, k))
      PROVE  Inv'
  BY <1>2, MapGetKeeps, MapDeleteKeeps DEF Safely, Astray, Inv
<1>3. ASSUME Safely(m = NULL \/ map[m].len = 0 \/ map[m].freed = {}, MapValues(m))
      PROVE  Inv'
  BY <1>3, MapValuesKeeps DEF Safely, Astray, Inv
<1> QED BY <1>1, <1>2, <1>3 DEF MapCall

LEMMA StepKeeps == ASSUME Inv, [CollectionNext]_collectionVars PROVE Inv'
<1>1. CASE ProgramCall
  <2>1. ASSUME NEW n \in Sizes, MapNew(n) PROVE Inv'
    BY <2>1, SizesAssumption, MapNewKeeps
  <2> QED BY <1>1, <2>1, ListCallKeeps, MapCallKeeps DEF ProgramCall
<1>2. CASE UseFreed
  BY <1>2 DEF UseFreed, Inv
<1>3. CASE HofRound
  BY <1>3, HofRoundKeeps
<1>4. CASE HofEnd
  BY <1>4, HofEndKeeps
<1>5. CASE HofThrows
  BY <1>5, HofThrowsKeeps
<1>6. CASE \E r \in Values : HofReturn(r)
  BY <1>6, HofReturnKeeps
<1>7. CASE UNCHANGED collectionVars
  BY <1>7 DEF collectionVars, Inv
<1> QED BY <1>1, <1>2, <1>3, <1>4, <1>5, <1>6, <1>7 DEF CollectionNext

LEMMA InvWithinBlocks == Inv => WithinBlocks
  BY DEF Inv, GoodArrays, GoodMaps, WithinBlocks

(* Every list and map of every program stays within its blocks and shows   *)
(* only cells that have been written: aym_array_*, aym_map_* and aym_hof_* *)
(* whatever allocations fail and whatever the functions do to the lists.   *)
THEOREM ListsWithinBlocks == CollectionSpec => []WithinBlocks
<1>1. CollectionInit => Inv
  BY InitGood
<1>2. Inv /\ [CollectionNext]_collectionVars => Inv'
  BY StepKeeps
<1>3. Inv => WithinBlocks
  BY InvWithinBlocks
<1> QED BY <1>1, <1>2, <1>3, PTL DEF CollectionSpec
-----------------------------------------------------------------------------
(* Calls that run over a list.                                             *)
(* What holds of a higher-order call c, of the list it runs over and of the one it makes. *)
CallOK(c, src, made) ==
  /\ c.len = Len(c.start) /\ c.next <= c.len /\ Len(c.gave) = c.next
  /\ c.phase = "loop" => Len(c.seen) = c.next
  /\ c.phase = "function" => Len(c.seen) = c.next + 1 /\ c.next < c.len
  /\ src.mine /\ src.state # "unused"
  /\ ~c.changed => Contents(src) = c.start /\ \A i \in 1..Len(c.seen) : c.seen[i] = c.start[i]
  /\ c.out # NULL => made.state = "live" /\ ~made.mine
  /\ c.op # "reduce" /\ ~c.lost => c.out # NULL
  /\ c.op = "map" /\ ~c.lost => Contents(made) = c.gave
  /\ c.op = "filter" /\ ~c.lost => Filtered(Contents(made), c)

(* No two of them make the same list. *)
OutsDiffer == \A m, n \in DOMAIN calls : m # n /\ calls[m].out # NULL => calls[m].out # calls[n].out

CallsOK == \A n \in DOMAIN calls : CallOK(calls[n], arr[calls[n].src], arr[calls[n].out])

HofInv == Inv /\ CallsOK /\ OutsDiffer

LEMMA CallIs ==
  ASSUME Inv, NEW n \in DOMAIN calls
  PROVE  calls[n] \in CallRec /\ calls[n].src \in Arrays /\ arr[calls[n].src] \in GoodArrays
         /\ (calls[n].out # NULL => calls[n].out \in Arrays /\ arr[calls[n].out] \in GoodArrays)
<1>1. calls[n] \in CallRec
  BY DEF Inv, GoodCalls
<1> QED BY <1>1 DEF CallRec, Inv

LEMMA ContentsSeq ==
  ASSUME NEW a \in GoodArrays
  PROVE  /\ Contents(a) \in Seq(Values) /\ Len(Contents(a)) = a.len
         /\ \A i \in 1..a.len : Contents(a)[i] = a.data[i - 1]
<1>1. a.len \in Nat /\ \A i \in Indices(a.len) : a.data[i] \in Values
  BY GoodArray
<1>2. \A i \in 1..a.len : i - 1 \in Indices(a.len)
  BY <1>1 DEF Indices
<1>3. Contents(a) \in [1..a.len -> Values]
  BY <1>1, <1>2 DEF Contents
<1>4. \A i \in 1..a.len : Contents(a)[i] = a.data[i - 1]
  BY DEF Contents
<1> QED BY <1>1, <1>3, <1>4

(* What a push adds. *)
LEMMA StoredContents ==
  ASSUME NEW a \in GoodArrays, a.len < a.cap, NEW v \in Values
  PROVE  Contents(Stored(a, v)) = Append(Contents(a), v)
<1> DEFINE f == [a.data EXCEPT ![a.len] = v]
           n == a.len
           s == Contents(a)
           b == Stored(a, v)
           t == Append(s, v)
           u == Contents(b)
<1>1. n \in Nat /\ a.cap \in Nat /\ a.data \in [Indices(a.cap) -> Cell] /\ n < a.cap
  BY GoodArray
<1>2. b \in GoodArrays /\ b.len = n + 1 /\ b.data = f
  BY StoredGood DEF Stored, ArrayWith
<1>3. \A i \in Indices(a.cap) : f[i] = IF i = n THEN v ELSE a.data[i]
  BY <1>1
<1>4. s \in Seq(Values) /\ Len(s) = n /\ \A i \in 1..n : s[i] = a.data[i - 1]
  BY ContentsSeq
<1> HIDE DEF s
<1>5. t \in Seq(Values) /\ Len(t) = n + 1 /\ t[n + 1] = v /\ \A i \in 1..n : t[i] = s[i]
  BY <1>4, AppendProperties
<1> HIDE DEF b, f, n, t
<1>6. u \in Seq(Values) /\ Len(u) = n + 1 /\ \A i \in 1..(n + 1) : u[i] = f[i - 1]
  <2>1. /\ Contents(b) \in Seq(Values) /\ Len(Contents(b)) = b.len
        /\ \A i \in 1..b.len : Contents(b)[i] = b.data[i - 1]
    BY <1>2, ContentsSeq
  <2> QED BY <1>2, <2>1
<1> HIDE DEF u
<1>7. \A i \in 1..(n + 1) : u[i] = t[i]
  <2> SUFFICES ASSUME NEW i \in 1..(n + 1) PROVE u[i] = t[i]
    OBVIOUS
  <2>1. i - 1 \in Indices(a.cap) /\ (i = n + 1 \/ (i \in 1..n /\ i - 1 # n))
    BY <1>1 DEF Indices
  <2> QED BY <1>1, <1>3, <1>4, <1>5, <1>6, <2>1
<1>8. u = t
  BY <1>5, <1>6, <1>7, SameSeq
<1> QED BY <1>8 DEF u, t, s, b

LEMMA GrownContents ==
  ASSUME NEW a \in GoodArrays
  PROVE  Contents(Grown(a)) = Contents(a) /\ Grown(a).state = a.state /\ Grown(a).mine = a.mine
<1> DEFINE n == Doubled(a.cap)
           f == [i \in 0..(n - 1) |-> IF i < a.cap THEN a.data[i] ELSE Junk]
<1>1. a.len \in Nat /\ a.cap \in Nat /\ a.len <= a.cap
  BY GoodArray
<1>2. n \in Nat /\ n > a.cap
  BY <1>1 DEF Doubled
<1>3. Grown(a) = ArrayWith(a, a.len, n, f)
  BY DEF Grown
<1> HIDE DEF n
<1>4. \A i \in 1..a.len : f[i - 1] = a.data[i - 1]
  BY <1>1, <1>2
<1> HIDE DEF f
<1>5. Contents(Grown(a)) = [i \in 1..a.len |-> f[i - 1]]
  BY <1>3 DEF Contents, ArrayWith
<1> QED BY <1>3, <1>4, <1>5 DEF Contents, ArrayWith

LEMMA PushedContents ==
  ASSUME NEW a \in GoodArrays, NEW v \in Values
  PROVE  /\ Contents(Pushed(a, v)) = Append(Contents(a), v)
         /\ Pushed(a, v).state = a.state /\ Pushed(a, v).mine = a.mine
<1>1. a.len \in Nat /\ a.cap \in Nat /\ a.len <= a.cap
  BY GoodArray
<1>2. \A b : Stored(b, v).state = b.state /\ Stored(b, v).mine = b.mine
  BY DEF Stored, ArrayWith
<1>3. CASE ~Full(a)
  <2>1. a.len < a.cap
    BY <1>1, <1>3 DEF Full
  <2>2. Contents(Stored(a, v)) = Append(Contents(a), v)
    BY <2>1, StoredContents
  <2> QED BY <1>2, <1>3, <2>2 DEF Pushed
<1>4. CASE Full(a)
  <2>1. Grown(a) \in GoodArrays /\ Grown(a).len = a.len /\ Grown(a).cap > a.cap
    BY GrownGood
  <2>2. Grown(a).cap \in Nat
    BY <2>1, GoodArray
  <2>3. Contents(Stored(Grown(a), v)) = Append(Contents(Grown(a)), v)
    BY <1>1, <2>1, <2>2, StoredContents
  <2> QED BY <1>2, <1>4, <2>3, GrownContents DEF Pushed
<1> QED BY <1>3, <1>4

(* One round more of a filter: kept, or not. *)
LEMMA FilterKeeps ==
  ASSUME NEW s \in Seq(Values), NEW t, NEW c, NEW d, NEW r \in Values, Filtered(s, c),
         c.gave \in Seq(Values), c.seen \in Seq(Values), Len(c.seen) = Len(c.gave) + 1,
         d.seen = c.seen, d.gave = Append(c.gave, r),
         t = IF r # 0 THEN Append(s, c.seen[Len(c.gave) + 1]) ELSE s
  PROVE  Filtered(t, d)
<1> DEFINE n == Len(c.gave)
           m == Len(s)
           K == KeptRounds(c)
<1>1. n \in Nat /\ m \in Nat /\ DOMAIN s = 1..m
  BY LenProperties
<1>2. /\ DOMAIN d.gave = 1..(n + 1) /\ d.gave[n + 1] = r
      /\ \A i \in 1..n : d.gave[i] = c.gave[i]
  <2>1. /\ Len(Append(c.gave, r)) = Len(c.gave) + 1 /\ Append(c.gave, r)[Len(c.gave) + 1] = r
        /\ Append(c.gave, r) \in Seq(Values) /\ \A i \in 1..Len(c.gave) : Append(c.gave, r)[i] = c.gave[i]
    BY AppendProperties
  <2> QED BY <2>1, LenProperties
<1>3. K = {i \in 1..n : c.gave[i] # 0}
  BY LenProperties DEF KeptRounds
<1>4. PICK f \in Bijection(1..m, K) : /\ \A i, j \in 1..m : i < j => f[i] < f[j]
                                     /\ \A i \in 1..m : s[i] = c.seen[f[i]]
  BY <1>1 DEF Filtered
<1>5. f \in [1..m -> K] /\ \A k \in K : \E i \in 1..m : f[i] = k
  BY <1>4 DEF Bijection, Surjection, Injection
<1> HIDE DEF n, m, K
<1>6. CASE r = 0
  <2>1. KeptRounds(d) = K
    BY <1>1, <1>2, <1>3, <1>6 DEF KeptRounds
  <2>2. KeptRounds(d) = KeptRounds(c)
    BY <2>1 DEF K
  <2>3. t = s
    BY <1>6
  <2> QED BY <2>2, <2>3 DEF Filtered
<1>7. CASE r # 0
  <2> DEFINE g == [i \in 1..(m + 1) |-> IF i = m + 1 THEN n + 1 ELSE f[i]]
             J == K \cup {n + 1}
  <2>1. KeptRounds(d) = J
    BY <1>1, <1>2, <1>3, <1>7 DEF KeptRounds
  <2>2. DOMAIN t = 1..(m + 1) /\ t[m + 1] = c.seen[n + 1] /\ \A i \in 1..m : t[i] = s[i]
    <3>1. t = Append(s, c.seen[n + 1]) /\ c.seen[n + 1] \in Values
      <4>1. n + 1 \in 1..Len(c.seen)
        BY <1>1 DEF n
      <4> QED BY <1>7, <4>1, ElementOfSeq DEF n
    <3> DEFINE v == c.seen[n + 1]
    <3> HIDE DEF v
    <3>2. /\ Append(s, v) \in Seq(Values) /\ Len(Append(s, v)) = Len(s) + 1 /\ Append(s, v)[Len(s) + 1] = v
          /\ \A i \in 1..Len(s) : Append(s, v)[i] = s[i]
      BY <3>1, AppendProperties DEF v
    <3> QED BY <3>1, <3>2, LenProperties DEF m, v
  <2>3. \A i \in 1..m : f[i] \in 1..n /\ f[i] \in K
    BY <1>3, <1>5
  <2>4. \A i \in 1..(m + 1) : i = m + 1 \/ i \in 1..m
    BY <1>1
  <2>5. /\ g \in [1..(m + 1) -> J] /\ g[m + 1] = n + 1 /\ m + 1 \in 1..(m + 1)
        /\ \A i \in 1..m : g[i] = f[i] /\ i \in 1..(m + 1)
    BY <1>1, <2>3, <2>4
  <2> HIDE DEF g, J
  <2>6. \A i, j \in 1..(m + 1) : i < j => g[i] < g[j]
    <3> SUFFICES ASSUME NEW i \in 1..(m + 1), NEW j \in 1..(m + 1), i < j PROVE g[i] < g[j]
      OBVIOUS
    <3>1. i \in 1..m
      BY <1>1
    <3>2. CASE j \in 1..m
      BY <1>4, <2>5, <3>1, <3>2
    <3>3. CASE j = m + 1
      BY <1>1, <2>3, <2>5, <3>1, <3>3
    <3> QED BY <2>4, <3>2, <3>3
  <2>7. \A i \in 1..(m + 1) : t[i] = d.seen[g[i]]
    BY <1>4, <2>2, <2>4, <2>5
  <2>8. \A k \in J : \E i \in 1..(m + 1) : g[i] = k
    BY <1>5, <2>5 DEF J
  <2>9. \A i, j \in 1..(m + 1) : g[i] = g[j] => i = j
    <3> SUFFICES ASSUME NEW i \in 1..(m + 1), NEW j \in 1..(m + 1), i < j PROVE g[i] # g[j]
      BY <1>1
    <3>1. g[i] < g[j] /\ g[i] \in Int /\ g[j] \in Int
      BY <1>1, <1>3, <2>5, <2>6 DEF J
    <3> QED BY <3>1
  <2>10. g \in Bijection(1..(m + 1), J)
    BY <2>5, <2>8, <2>9 DEF Bijection, Injection, Surjection, IsInjective
  <2> DEFINE D == DOMAIN t
             Q == KeptRounds(d)
  <2>11. D = 1..(m + 1) /\ Q = J
    BY <2>1, <2>2
  <2> HIDE DEF D, Q
  <2>12. /\ g \in Bijection(D, Q) /\ \A i, j \in D : i < j => g[i] < g[j]
         /\ \A i \in D : t[i] = d.seen[g[i]]
    BY <2>6, <2>7, <2>10, <2>11
  <2> QED BY <2>12 DEF Filtered, D, Q
<1> QED BY <1>6, <1>7

LEMMA SameFiltered ==
  ASSUME NEW s, NEW c, NEW d, Filtered(s, c), d.gave = c.gave, d.seen = c.seen
  PROVE  Filtered(s, d)
BY DEF Filtered, KeptRounds

(* A call is as before when only what it knows of its list has changed. *)
LEMMA SameCallOK ==
  ASSUME NEW c, NEW d, NEW src, NEW now, NEW made, CallOK(c, src, made),
         d.op = c.op, d.len = c.len, d.next = c.next, d.out = c.out, d.phase = c.phase, d.start = c.start,
         d.seen = c.seen, d.gave = c.gave, d.lost = c.lost,
         now.mine, now.state # "unused", ~d.changed => ~c.changed /\ Contents(now) = Contents(src)
  PROVE  CallOK(d, now, made)
<1>1. \A s : Filtered(s, c) => Filtered(s, d)
  BY SameFiltered
<1> HIDE DEF Filtered
<1> QED BY <1>1 DEF CallOK

(* The list changes that the program has. *)
LEMMA UpdateKeepsCalls ==
  ASSUME HofInv, NEW x \in Held, NEW a \in GoodArrays, a.mine, a.state # "unused", Update(x, a)
  PROVE  HofInv'
<1>1. x \in Arrays /\ arr[x].mine /\ arr' = [arr EXCEPT ![x] = a] /\ calls' = Marked(x) /\ arr \in [Arrays -> GoodArrays]
  BY DEF Held, Update, HofInv, Inv
<1>2. Inv'
  BY <1>1, UpdateGood DEF HofInv
<1>3. DOMAIN calls' = DOMAIN calls
  BY <1>1 DEF Marked
<1>4. ASSUME NEW n \in DOMAIN calls
      PROVE  CallOK(calls'[n], arr'[calls'[n].src], arr'[calls'[n].out]) /\ calls'[n].out = calls[n].out
  <2> DEFINE c == calls[n]
             d == [c EXCEPT !.changed = @ \/ c.src = x]
  <2>1. /\ c \in CallRec /\ c.src \in Arrays /\ (c.out # NULL => c.out \in Arrays)
        /\ CallOK(c, arr[c.src], arr[c.out])
    BY <1>4, CallIs DEF HofInv, CallsOK
  <2>2. calls'[n] = d
    BY <1>1 DEF Marked
  <2> HIDE DEF c
  <2>3. /\ d.op = c.op /\ d.len = c.len /\ d.next = c.next /\ d.out = c.out /\ d.phase = c.phase
        /\ d.start = c.start /\ d.seen = c.seen /\ d.gave = c.gave /\ d.lost = c.lost /\ d.src = c.src
        /\ (~d.changed => ~c.changed /\ c.src # x)
    BY <2>1 DEF CallRec
  <2> HIDE DEF d
  <2>4. c.out # x
    <3>1. CASE c.out = NULL
      <4>1. x # NULL
        BY <1>1, SizesAssumption DEF NULL
      <4> QED BY <3>1, <4>1
    <3>2. CASE c.out # NULL
      BY <1>1, <2>1, <3>2 DEF CallOK
    <3> QED BY <3>1, <3>2
  <2>5. arr'[c.out] = arr[c.out]
    BY <1>1, <2>1, <2>4
  <2>6. arr'[c.src].mine /\ arr'[c.src].state # "unused" /\ (c.src # x => arr'[c.src] = arr[c.src])
    BY <1>1, <2>1 DEF CallOK
  <2> DEFINE src == arr[c.src]
             now == arr'[c.src]
             made == arr[c.out]
  <2>7. CallOK(c, src, made) /\ now.mine /\ now.state # "unused" /\ (~d.changed => ~c.changed /\ Contents(now) = Contents(src))
    BY <2>1, <2>3, <2>6
  <2> HIDE DEF src, now, made
  <2>8. CallOK(d, now, made)
    BY <2>3, <2>7, SameCallOK
  <2> QED BY <2>2, <2>3, <2>5, <2>8 DEF now, made, c
<1>5. CallsOK'
  BY <1>3, <1>4 DEF CallsOK
<1>6. OutsDiffer'
  BY <1>3, <1>4 DEF OutsDiffer, HofInv
<1> QED BY <1>2, <1>5, <1>6 DEF HofInv

(* Lists that come to be are not those of calls. *)
LEMMA FreshIs ==
  ASSUME HofInv, Room # {}
  PROVE  /\ Fresh \in Arrays /\ Fresh # NULL
         /\ \A n \in DOMAIN calls : calls[n].src # Fresh /\ calls[n].out # Fresh
<1>1. Fresh \in Arrays /\ arr[Fresh].state = "unused"
  BY DEF Fresh, Room
<1>2. Fresh # NULL
  BY <1>1, SizesAssumption DEF NULL
<1>3. ASSUME NEW n \in DOMAIN calls PROVE calls[n].src # Fresh /\ calls[n].out # Fresh
  <2>1. CallOK(calls[n], arr[calls[n].src], arr[calls[n].out])
    BY DEF HofInv, CallsOK
  <2> QED BY <1>1, <1>2, <2>1 DEF CallOK
<1> QED BY <1>1, <1>2, <1>3

LEMMA AddsKeepsCalls ==
  ASSUME HofInv, NEW a \in GoodArrays, Adds(a)
  PROVE  HofInv'
<1>1. Room # {} /\ arr' = [arr EXCEPT ![Fresh] = a] /\ calls' = calls /\ Inv'
  BY AddsGood DEF Adds, HofInv
<1>2. ASSUME NEW n \in DOMAIN calls PROVE CallOK(calls[n], arr'[calls[n].src], arr'[calls[n].out])
  <2>1. calls[n].src # Fresh /\ calls[n].out # Fresh
    BY <1>1, FreshIs
  <2>2. arr'[calls[n].src] = arr[calls[n].src] /\ arr'[calls[n].out] = arr[calls[n].out]
    <3>1. \A x : x # Fresh => arr'[x] = arr[x]
      BY <1>1 DEF Inv, HofInv
    <3> QED BY <2>1, <3>1
  <2> QED BY <2>2 DEF HofInv, CallsOK
<1> QED BY <1>1, <1>2 DEF HofInv, CallsOK, OutsDiffer

LEMMA AbandonKeepsCalls ==
  ASSUME HofInv, Inv', arr' = arr, NEW n \in 0..Len(calls), calls' = SubSeq(calls, 1, n)
  PROVE  HofInv'
<1>1. DOMAIN calls' = 1..n /\ 1..n \subseteq DOMAIN calls /\ \A i \in 1..n : calls'[i] = calls[i]
  BY DEF HofInv, Inv
<1> QED BY SMTT(30), <1>1 DEF HofInv, CallsOK, OutsDiffer

LEMMA NoChangeKeepsCalls ==
  ASSUME HofInv, Inv', UNCHANGED <<arr, calls>>
  PROVE  HofInv'
BY DEF HofInv, CallsOK, OutsDiffer

LEMMA ThrowKeepsCalls ==
  ASSUME HofInv, NEW error, Throw(error)
  PROVE  HofInv'
<1>1. Inv' /\ arr' = arr /\ \E n \in 0..Len(calls) : calls' = SubSeq(calls, 1, n)
  BY ThrowGood DEF Throw, HofInv
<1> QED BY <1>1, AbandonKeepsCalls

LEMMA IgnoredKeepsCalls ==
  ASSUME HofInv, Ignored \/ NoMemory \/ NoChange
  PROVE  HofInv'
<1>1. NoChange
  BY DEF Ignored, NoMemory
<1> QED BY <1>1, NoChangeGood, NoChangeKeepsCalls DEF NoChange, HofInv

(* A call more, or one in the place of the innermost. *)
LEMMA EnterKeepsCalls ==
  ASSUME HofInv, Inv', NEW c, Enter(c), CallOK(c, arr'[c.src], arr'[c.out]),
         \A n \in DOMAIN calls : arr'[calls[n].src] = arr[calls[n].src] /\ arr'[calls[n].out] = arr[calls[n].out],
         c.out # NULL => \A n \in DOMAIN calls : calls[n].out # c.out
  PROVE  HofInv'
<1>1. calls' = Append(calls, c) /\ calls \in Seq(GoodCalls)
  BY DEF Enter, HofInv, Inv
<1> DEFINE l == Len(calls)
<1>2. /\ l \in Nat /\ DOMAIN calls = 1..l /\ DOMAIN calls' = 1..(l + 1)
      /\ calls'[l + 1] = c /\ \A i \in 1..l : calls'[i] = calls[i]
  BY <1>1
<1> HIDE DEF l
<1>3. ASSUME NEW n \in 1..(l + 1) PROVE CallOK(calls'[n], arr'[calls'[n].src], arr'[calls'[n].out])
  <2>1. CASE n = l + 1
    BY <1>2, <2>1
  <2>2. CASE n \in 1..l
    BY <1>2, <2>2 DEF HofInv, CallsOK
  <2> QED BY <1>2, <2>1, <2>2
<1>4. ASSUME NEW m \in 1..(l + 1), NEW n \in 1..(l + 1), m # n, calls'[m].out # NULL
      PROVE  calls'[m].out # calls'[n].out
  <2>1. (m = l + 1 \/ m \in 1..l) /\ (n = l + 1 \/ n \in 1..l)
    BY <1>2
  <2>2. CASE m \in 1..l /\ n \in 1..l
    BY <1>2, <1>4, <2>2 DEF HofInv, OutsDiffer
  <2>3. CASE m = l + 1 /\ n \in 1..l
    BY <1>2, <1>4, <2>3
  <2>4. CASE n = l + 1 /\ m \in 1..l
    BY <1>2, <1>4, <2>4
  <2> QED BY <1>4, <2>1, <2>2, <2>3, <2>4
<1> QED BY <1>2, <1>3, <1>4 DEF HofInv, CallsOK, OutsDiffer

LEMMA RoundKeepsCalls ==
  ASSUME HofInv, Inv', calls # << >>, NEW c, Round(c), c.src = Top.src, c.out = Top.out,
         CallOK(c, arr'[c.src], arr'[c.out]),
         \A n \in 1..(Len(calls) - 1) :
           arr'[calls[n].src] = arr[calls[n].src] /\ arr'[calls[n].out] = arr[calls[n].out]
  PROVE  HofInv'
<1>1. calls' = [calls EXCEPT ![Len(calls)] = c] /\ calls \in Seq(GoodCalls) /\ Top = calls[Len(calls)]
  BY DEF Round, HofInv, Inv, Top, Last
<1> DEFINE l == Len(calls)
<1>2. /\ l \in Nat /\ l >= 1 /\ DOMAIN calls = 1..l /\ DOMAIN calls' = 1..l
      /\ calls'[l] = c /\ c.src = calls[l].src /\ c.out = calls[l].out
      /\ \A i \in 1..(l - 1) : calls'[i] = calls[i]
  BY <1>1
<1>3. \A n \in 1..(l - 1) : arr'[calls[n].src] = arr[calls[n].src] /\ arr'[calls[n].out] = arr[calls[n].out]
  OBVIOUS
<1> HIDE DEF l
<1>4. \A n \in 1..l : (n = l \/ n \in 1..(l - 1)) /\ calls'[n].out = calls[n].out
  BY <1>2
<1>5. ASSUME NEW n \in 1..l PROVE CallOK(calls'[n], arr'[calls'[n].src], arr'[calls'[n].out])
  <2>1. CASE n = l
    BY <1>2, <2>1
  <2>2. CASE n \in 1..(l - 1)
    BY <1>2, <1>3, <2>2 DEF HofInv, CallsOK
  <2> QED BY <1>4, <2>1, <2>2
<1>6. \A m, n \in 1..l : m # n /\ calls[m].out # NULL => calls[m].out # calls[n].out
  BY <1>2 DEF HofInv, OutsDiffer
<1> QED BY <1>2, <1>4, <1>5, <1>6 DEF HofInv, CallsOK, OutsDiffer

LEMMA HofBeginKeepsCalls ==
  ASSUME HofInv, NEW op \in {"map", "filter", "reduce"}, NEW x \in Held, HofBegin(op, x)
  PROVE  HofInv'
<1>1. /\ x \in Arrays /\ arr[x].mine /\ arr[x].state = "live" /\ x # NULL
      /\ arr[x] \in GoodArrays /\ arr \in [Arrays -> GoodArrays]
  BY SizesAssumption DEF Held, NULL, HofInv, Inv
<1>2. Inv'
  BY HofBeginKeeps DEF HofInv
<1> DEFINE C(out) == Call(op, x, out, 0)
           lost == [C(NULL) EXCEPT !.lost = TRUE]
<1>3. Contents(arr[x]) \in Seq(Values) /\ Len(Contents(arr[x])) = arr[x].len /\ arr[x].len \in Nat
  BY <1>1, ContentsSeq, GoodArray
<1>4. ASSUME NEW out \in Arrays \cup {NULL}, NEW made, op = "reduce" \/ out # NULL,
             out # NULL => made.state = "live" /\ ~made.mine /\ made.len = 0
      PROVE  CallOK(C(out), arr[x], made)
  <2> DEFINE c == C(out)
  <2>1. /\ c.op = op /\ c.len = arr[x].len /\ c.next = 0 /\ c.out = out /\ c.phase = "loop"
        /\ c.start = Contents(arr[x]) /\ c.seen = << >> /\ c.gave = << >> /\ c.lost = FALSE /\ c.changed = FALSE
    BY DEF Call
  <2> HIDE DEF c
  <2>2. out # NULL => Contents(made) = << >>
    BY <1>4 DEF Contents
  <2>3. Filtered(<< >>, c)
    <3>1. KeptRounds(c) = {} /\ DOMAIN << >> = {}
      BY <2>1 DEF KeptRounds
    <3>2. << >> \in Bijection({}, {})
      BY DEF Bijection, Injection, Surjection, IsInjective
    <3> QED BY <3>1, <3>2 DEF Filtered
  <2>4. CallOK(c, arr[x], made)
    BY <1>1, <1>3, <1>4, <2>1, <2>2, <2>3 DEF CallOK
  <2> QED BY <2>4 DEF c
<1>5. \A out : C(out).src = x /\ C(out).out = out
  BY DEF Call
<1>6. CASE op = "reduce" /\ Enter(C(NULL)) /\ UNCHANGED arr
  <2> DEFINE c == C(NULL)
  <2>1. CallOK(c, arr'[c.src], arr'[c.out]) /\ c.out = NULL
    BY <1>4, <1>5, <1>6
  <2> HIDE DEF c
  <2>2. Enter(c) /\ UNCHANGED arr
    BY <1>6 DEF c
  <2> QED BY <1>2, <2>1, <2>2, EnterKeepsCalls
<1>7. CASE Room # {} /\ arr' = [arr EXCEPT ![Fresh] = Hidden(Zeroed(0))] /\ Enter(C(Fresh))
  <2>1. /\ Fresh \in Arrays /\ Fresh # NULL
        /\ \A n \in DOMAIN calls : calls[n].src # Fresh /\ calls[n].out # Fresh
    BY <1>7, FreshIs
  <2>2. Fresh # x
    BY <1>1, <1>7 DEF Fresh, Room
  <2> DEFINE made == Hidden(Zeroed(0))
             c == C(Fresh)
  <2>3. made.state = "live" /\ ~made.mine /\ made.len = 0
    BY DEF Hidden, Zeroed
  <2>4. arr'[Fresh] = made /\ \A y : y # Fresh => arr'[y] = arr[y]
    BY <1>1, <1>7, <2>1
  <2> HIDE DEF made
  <2>5. CallOK(c, arr[x], made) /\ c.src = x /\ c.out = Fresh
    BY <1>4, <1>5, <2>1, <2>3
  <2>6. Enter(c)
    BY <1>7
  <2> HIDE DEF c
  <2>7. CallOK(c, arr'[c.src], arr'[c.out])
    BY <2>2, <2>4, <2>5
  <2> QED BY <1>2, <2>1, <2>4, <2>5, <2>6, <2>7, EnterKeepsCalls
<1>8. CASE op # "reduce" /\ UNCHANGED arr /\ Enter(lost)
  <2> DEFINE c == lost
  <2>1. /\ c.op = op /\ c.len = arr[x].len /\ c.next = 0 /\ c.out = NULL /\ c.phase = "loop" /\ c.src = x
        /\ c.start = Contents(arr[x]) /\ c.seen = << >> /\ c.gave = << >> /\ c.lost = TRUE /\ c.changed = FALSE
    BY DEF Call
  <2>2. Enter(c) /\ arr' = arr
    BY <1>8
  <2> HIDE DEF c
  <2>3. CallOK(c, arr'[c.src], arr'[c.out])
    BY <1>1, <1>3, <2>1, <2>2 DEF CallOK
  <2> QED BY <1>2, <2>1, <2>2, <2>3, EnterKeepsCalls
<1> QED BY <1>1, <1>6, <1>7, <1>8 DEF HofBegin

(* The innermost call, and that its lists are those of no other. *)
LEMMA TopIs ==
  ASSUME HofInv, calls # << >>
  PROVE  /\ Top \in CallRec /\ Top.src \in Arrays /\ arr[Top.src] \in GoodArrays
         /\ (Top.out # NULL => Top.out \in Arrays /\ arr[Top.out] \in GoodArrays)
         /\ CallOK(Top, arr[Top.src], arr[Top.out])
         /\ \A n \in DOMAIN calls : n # Len(calls) => /\ calls[n].out # NULL => calls[n].out # Top.out
                                                      /\ Top.out # NULL => calls[n].out # Top.out /\ calls[n].src # Top.out
<1>1. Len(calls) \in DOMAIN calls /\ Top = calls[Len(calls)]
  BY DEF HofInv, Inv, Top, Last
<1>2. CallOK(Top, arr[Top.src], arr[Top.out])
  BY <1>1 DEF HofInv, CallsOK
<1>3. ASSUME NEW n \in DOMAIN calls, n # Len(calls)
      PROVE  /\ calls[n].out # NULL => calls[n].out # Top.out
             /\ Top.out # NULL => calls[n].out # Top.out /\ calls[n].src # Top.out
  <2>1. CallOK(calls[n], arr[calls[n].src], arr[calls[n].out])
    BY DEF HofInv, CallsOK
  <2>2. OutsDiffer
    BY DEF HofInv
  <2>3. Top.out # NULL => arr[calls[n].src].mine /\ ~arr[Top.out].mine
    BY <1>2, <2>1 DEF CallOK
  <2> QED BY <1>1, <1>3, <2>2, <2>3 DEF OutsDiffer
<1>4. /\ Top \in CallRec /\ Top.src \in Arrays /\ arr[Top.src] \in GoodArrays
      /\ (Top.out # NULL => Top.out \in Arrays /\ arr[Top.out] \in GoodArrays)
  BY <1>1, CallIs DEF HofInv
<1> QED BY <1>2, <1>3, <1>4

LEMMA HofRoundKeepsCalls ==
  ASSUME HofInv, HofRound
  PROVE  HofInv'
<1>1. calls # << >> /\ Top.phase = "loop" /\ Top.next < Top.len /\ UNCHANGED arr /\ Inv'
  BY HofRoundKeeps DEF HofRound, InRuntime, HofInv, Top
<1>2. CASE UNCHANGED calls
  BY <1>1, <1>2, NoChangeKeepsCalls
<1> DEFINE src == arr[Top.src]
           v == Get(src, Top.next)
           t == Top
           c == Passed(t, v)
<1>3. CASE Round(c)
  <2>1. /\ t \in CallRec /\ t.src \in Arrays /\ src \in GoodArrays /\ CallOK(t, src, arr[t.out])
    BY <1>1, TopIs
  <2>2. t.seen \in Seq(Values) /\ Len(t.seen) = t.next /\ t.next \in Nat /\ t.len \in Nat /\ t.next < t.len
    BY <1>1, <2>1 DEF CallOK, CallRec
  <2>3. v \in Values
    BY <2>1, <2>2, GoodArray, ValuesAssumption DEF Get, Indices
  <2>4. ~t.changed => v = t.start[t.next + 1]
    <3> SUFFICES ASSUME ~t.changed PROVE v = t.start[t.next + 1]
      OBVIOUS
    <3>1. Contents(src) = t.start /\ t.len = Len(t.start)
      BY <2>1 DEF CallOK
    <3>2. Len(Contents(src)) = src.len /\ \A i \in 1..src.len : Contents(src)[i] = src.data[i - 1]
      BY <2>1, ContentsSeq
    <3> DEFINE k == t.next
               l == src.len
    <3>3. t.len = l /\ k \in Nat /\ k < l /\ l \in Nat
      BY <2>1, <2>2, <3>1, <3>2, GoodArray
    <3>4. v = src.data[k]
      BY <3>3 DEF Get
    <3> HIDE DEF k, l, v
    <3>5. k + 1 \in 1..l /\ (k + 1) - 1 = k
      BY <3>3
    <3>6. Contents(src)[k + 1] = src.data[k]
      BY <3>2, <3>5 DEF l
    <3> QED BY <3>1, <3>4, <3>6 DEF k
  <2> HIDE DEF v
  <2>5. /\ c.op = t.op /\ c.len = t.len /\ c.next = t.next /\ c.out = t.out /\ c.phase = "function" /\ c.src = t.src
        /\ c.start = t.start /\ c.seen = Append(t.seen, v) /\ c.gave = t.gave /\ c.lost = t.lost /\ c.changed = t.changed
    BY <2>1 DEF Passed, CallRec
  <2> HIDE DEF c, t, src
  <2>6. /\ Len(c.seen) = t.next + 1 /\ c.seen[t.next + 1] = v
        /\ \A i \in 1..t.next : c.seen[i] = t.seen[i]
    <3>1. /\ Len(Append(t.seen, v)) = Len(t.seen) + 1 /\ Append(t.seen, v)[Len(t.seen) + 1] = v
          /\ \A i \in 1..Len(t.seen) : Append(t.seen, v)[i] = t.seen[i]
      BY <2>2, <2>3, AppendProperties
    <3> QED BY <2>2, <2>5, <3>1
  <2>7. ~c.changed => \A i \in 1..Len(c.seen) : c.seen[i] = c.start[i]
    <3> SUFFICES ASSUME ~c.changed, NEW i \in 1..(t.next + 1) PROVE c.seen[i] = c.start[i]
      BY <2>6
    <3>1. i = t.next + 1 \/ i \in 1..t.next
      BY <2>2
    <3> QED BY <2>1, <2>2, <2>4, <2>5, <2>6, <3>1 DEF CallOK
  <2>8. \A s : Filtered(s, t) /\ t.op = "filter" => Filtered(s, c)
    <3> SUFFICES ASSUME NEW s, Filtered(s, t) PROVE Filtered(s, c)
      OBVIOUS
    <3>1. KeptRounds(c) = KeptRounds(t)
      BY <2>5 DEF KeptRounds
    <3>2. PICK f \in Bijection(DOMAIN s, KeptRounds(t)) :
            /\ \A i, j \in DOMAIN s : i < j => f[i] < f[j]
            /\ \A i \in DOMAIN s : s[i] = t.seen[f[i]]
      BY DEF Filtered
    <3>3. \A i \in DOMAIN s : f[i] \in 1..t.next
      <4>1. KeptRounds(t) \subseteq 1..t.next
        <5>1. t.gave \in Seq(Values) /\ Len(t.gave) = t.next
          BY <2>1 DEF CallRec, CallOK
        <5> QED BY <5>1, LenProperties DEF KeptRounds
      <4> QED BY <3>2, <4>1 DEF Bijection, Injection
    <3>4. \A i \in DOMAIN s : s[i] = c.seen[f[i]]
      BY <2>6, <3>2, <3>3
    <3> QED BY <3>1, <3>2, <3>4 DEF Filtered
  <2>9. CallOK(c, src, arr[c.out])
    <3> HIDE DEF Filtered
    <3> QED BY <2>1, <2>2, <2>5, <2>6, <2>7, <2>8 DEF CallOK
  <2>10. Round(c) /\ c.src = Top.src /\ c.out = Top.out /\ CallOK(c, arr'[c.src], arr'[c.out])
    BY <1>1, <1>3, <2>5, <2>9 DEF t, src, c
  <2> QED BY <1>1, <2>10, RoundKeepsCalls
<1> QED BY <1>2, <1>3 DEF HofRound

(* What a call knows when its function has returned. *)
LEMMA AnsweredIs ==
  ASSUME NEW c \in CallRec, NEW r \in Values, NEW d, d = Answered(c, r)
  PROVE  /\ d.op = c.op /\ d.len = c.len /\ d.next = c.next + 1 /\ d.out = c.out /\ d.phase = "loop" /\ d.src = c.src
         /\ d.start = c.start /\ d.seen = c.seen /\ d.gave = Append(c.gave, r) /\ d.lost = c.lost /\ d.changed = c.changed
BY DEF Answered, CallRec

LEMMA AnsweredOK ==
  ASSUME NEW c \in CallRec, NEW r \in Values, NEW src, NEW made, NEW now, CallOK(c, src, made), c.phase = "function",
         NEW d, d.op = c.op, d.len = c.len, d.next = c.next + 1, d.out = c.out, d.phase = "loop",
         d.start = c.start, d.seen = c.seen, d.gave = Append(c.gave, r), d.changed = c.changed,
         ~d.lost => ~c.lost,
         ~d.lost /\ c.op # "reduce" =>
           /\ made \in GoodArrays
           /\ now = IF Pushes(d, r) THEN Pushed(made, Result(d, r)) ELSE made,
         c.out # NULL => now.state = made.state /\ now.mine = made.mine
  PROVE  CallOK(d, src, now)
<1>1. /\ c.gave \in Seq(Values) /\ c.seen \in Seq(Values) /\ c.next \in Nat /\ c.len \in Nat
      /\ Len(c.gave) = c.next /\ Len(c.seen) = c.next + 1 /\ c.next < c.len
  BY DEF CallRec, CallOK
<1>2. Len(d.gave) = d.next /\ Len(d.seen) = d.next /\ d.next <= d.len
  <2>1. Len(Append(c.gave, r)) = Len(c.gave) + 1
    BY <1>1, AppendProperties
  <2> QED BY <1>1, <2>1
<1>3. c.seen[c.next + 1] \in Values /\ Last(d.seen) = c.seen[c.next + 1]
  <2>1. c.next + 1 \in 1..Len(c.seen)
    BY <1>1
  <2> QED BY <1>1, <2>1, ElementOfSeq DEF Last
<1>4. ASSUME d.op = "map", ~d.lost PROVE Contents(now) = d.gave
  <2>1. Pushes(d, r) /\ Result(d, r) = r
    BY <1>4 DEF Pushes, Result
  <2>2. made \in GoodArrays /\ now = Pushed(made, r) /\ Contents(made) = c.gave
    BY <1>4, <2>1 DEF CallOK
  <2> QED BY <2>2, PushedContents
<1>5. ASSUME d.op = "filter", ~d.lost PROVE Filtered(Contents(now), d)
  <2> DEFINE s == Contents(made)
             w == c.seen[c.next + 1]
             t == IF r # 0 THEN Append(s, w) ELSE s
  <2>1. made \in GoodArrays /\ Filtered(s, c)
    BY <1>5 DEF CallOK
  <2>2. s \in Seq(Values)
    BY <2>1, ContentsSeq
  <2>3. Contents(now) = t
    <3>1. Pushes(d, r) <=> r # 0
      BY <1>5 DEF Pushes
    <3>2. Result(d, r) = w
      BY <1>3, <1>5 DEF Result
    <3>3. now = IF r # 0 THEN Pushed(made, w) ELSE made
      BY <1>5, <3>1, <3>2
    <3> HIDE DEF w
    <3>4. w \in Values
      BY <1>3 DEF w
    <3> QED BY <2>1, <3>3, <3>4, PushedContents
  <2>4. t = IF r # 0 THEN Append(s, c.seen[Len(c.gave) + 1]) ELSE s
    BY <1>1
  <2> HIDE DEF s, t
  <2>5. Filtered(t, d)
    BY ZenonT(30), <1>1, <2>1, <2>2, <2>4, FilterKeeps
  <2> QED BY <2>3, <2>5
<1>6. d.phase = "loop" /\ src.mine /\ src.state # "unused"
  BY DEF CallOK
<1>7. ~d.changed => Contents(src) = d.start /\ \A i \in 1..Len(d.seen) : d.seen[i] = d.start[i]
  BY DEF CallOK
<1>8. d.out # NULL => now.state = "live" /\ ~now.mine
  BY DEF CallOK
<1>9. d.op # "reduce" /\ ~d.lost => d.out # NULL
  BY DEF CallOK
<1>10. d.len = Len(d.start)
  BY DEF CallOK
<1> HIDE DEF Filtered
<1> QED BY <1>2, <1>4, <1>5, <1>6, <1>7, <1>8, <1>9, <1>10 DEF CallOK

LEMMA HofReturnKeepsCalls ==
  ASSUME HofInv, NEW r \in Values, HofReturn(r)
  PROVE  HofInv'
<1> DEFINE t == Top
           d == Answered(t, r)
           e == [d EXCEPT !.lost = TRUE]
           out == t.out
<1>1. calls # << >> /\ t.phase = "function" /\ Inv'
  BY HofReturnKeeps DEF HofReturn, HofInv
<1>2. /\ t \in CallRec /\ t.src \in Arrays /\ (out # NULL => out \in Arrays /\ arr[out] \in GoodArrays)
      /\ CallOK(t, arr[t.src], arr[out])
  BY <1>1, TopIs
<1>3. \/ (~Pushes(d, r) \/ d.out = NULL) /\ Round(d) /\ UNCHANGED arr
      \/ /\ Pushes(d, r) /\ d.out # NULL /\ Round(d)
         /\ arr' = [arr EXCEPT ![d.out] = Pushed(@, Result(d, r))]
      \/ Pushes(d, r) /\ d.out # NULL /\ Round(e) /\ UNCHANGED arr
  BY DEF HofReturn
<1>4. /\ d.op = t.op /\ d.len = t.len /\ d.next = t.next + 1 /\ d.out = out /\ d.phase = "loop" /\ d.src = t.src
      /\ d.start = t.start /\ d.seen = t.seen /\ d.gave = Append(t.gave, r) /\ d.lost = t.lost /\ d.changed = t.changed
  BY <1>2, AnsweredIs
<1>5. d \in CallRec
  BY <1>2, AnsweredGood
<1>6. /\ e.op = t.op /\ e.len = t.len /\ e.next = t.next + 1 /\ e.out = out /\ e.phase = "loop" /\ e.src = t.src
      /\ e.start = t.start /\ e.seen = t.seen /\ e.gave = Append(t.gave, r) /\ e.lost /\ e.changed = t.changed
  BY <1>4, <1>5 DEF CallRec
<1>7. /\ \A n \in DOMAIN calls : n # Len(calls) => /\ calls[n].out # NULL => calls[n].out # out
                                                   /\ out # NULL => calls[n].out # out /\ calls[n].src # out
      /\ Len(calls) \in Nat /\ DOMAIN calls = 1..Len(calls)
  BY <1>1, TopIs DEF HofInv, Inv
<1>8. \A n \in 1..(Len(calls) - 1) : n \in DOMAIN calls /\ n # Len(calls)
  <2> DEFINE k == Len(calls)
  <2>1. k \in Nat /\ DOMAIN calls = 1..k
    BY <1>7
  <2> HIDE DEF k
  <2>2. \A n \in 1..(k - 1) : n \in 1..k /\ n # k
    BY <2>1
  <2> QED BY <2>1, <2>2 DEF k
<1>9. t.op # "reduce" /\ ~t.lost => out # NULL
  BY <1>2 DEF CallOK
<1>10. t = Top /\ out = Top.out
  OBVIOUS
<1> HIDE DEF t, d, e, out
<1>11. CASE (~Pushes(d, r) \/ d.out = NULL) /\ Round(d) /\ UNCHANGED arr
  <2> DEFINE src == arr[t.src]
             made == arr[out]
  <2>1. ~d.lost /\ t.op # "reduce" => made \in GoodArrays /\ made = IF Pushes(d, r) THEN Pushed(made, Result(d, r)) ELSE made
    BY <1>2, <1>4, <1>9, <1>11
  <2> HIDE DEF src, made
  <2>2. CallOK(t, src, made)
    BY <1>2 DEF src, made
  <2>3. CallOK(d, src, made)
    BY <1>1, <1>2, <1>4, <2>1, <2>2, AnsweredOK DEF out
  <2>4. CallOK(d, arr'[d.src], arr'[d.out])
    BY <1>4, <1>11, <2>3 DEF src, made
  <2>5. Round(d) /\ d.src = Top.src /\ d.out = Top.out
    BY <1>4, <1>10, <1>11
  <2> QED BY <1>1, <1>11, <2>4, <2>5, RoundKeepsCalls
<1>12. CASE /\ Pushes(d, r) /\ d.out # NULL /\ Round(d)
            /\ arr' = [arr EXCEPT ![d.out] = Pushed(@, Result(d, r))]
  <2> DEFINE src == arr[t.src]
             made == arr[out]
             now == arr'[out]
  <2>1. out \in Arrays /\ made \in GoodArrays /\ out # NULL
    BY <1>2, <1>4, <1>12
  <2>2. now = Pushed(made, Result(d, r)) /\ \A y : y # out => arr'[y] = arr[y]
    BY <1>4, <1>12, <2>1 DEF HofInv, Inv
  <2>3. t.src # out
    BY <1>2, <2>1 DEF CallOK, out
  <2>4. Result(d, r) \in Values
    <3>1. Len(t.seen) \in 1..Len(t.seen) /\ t.seen \in Seq(Values)
      <4>1. t.seen \in Seq(Values) /\ Len(t.seen) = t.next + 1 /\ t.next \in Nat
        BY <1>1, <1>2 DEF CallOK, CallRec
      <4> QED BY <4>1
    <3>2. Last(d.seen) \in Values
      BY <1>4, <3>1, ElementOfSeq DEF Last
    <3> QED BY <3>2 DEF Result
  <2> HIDE DEF src, made
  <2>5. now.state = made.state /\ now.mine = made.mine
    BY <2>1, <2>2, <2>4, PushedContents
  <2> HIDE DEF now
  <2>6. CallOK(t, src, made)
    BY <1>2 DEF src, made
  <2>7. ~d.lost /\ t.op # "reduce" => made \in GoodArrays /\ now = IF Pushes(d, r) THEN Pushed(made, Result(d, r)) ELSE made
    BY <1>12, <2>1, <2>2
  <2>8. CallOK(d, src, now)
    BY <1>1, <1>2, <1>4, <2>5, <2>6, <2>7, AnsweredOK DEF out
  <2>9. CallOK(d, arr'[d.src], arr'[d.out])
    BY <1>4, <2>2, <2>3, <2>8 DEF src, now
  <2>10. Round(d) /\ d.src = Top.src /\ d.out = Top.out
    BY <1>4, <1>10, <1>12
  <2>11. \A n \in 1..(Len(calls) - 1) :
           arr'[calls[n].src] = arr[calls[n].src] /\ arr'[calls[n].out] = arr[calls[n].out]
    BY <1>7, <1>8, <2>1, <2>2
  <2> QED BY <1>1, <2>9, <2>10, <2>11, RoundKeepsCalls
<1>13. CASE Pushes(d, r) /\ d.out # NULL /\ Round(e) /\ UNCHANGED arr
  <2> DEFINE src == arr[t.src]
             made == arr[out]
  <2> HIDE DEF src, made
  <2>2. CallOK(t, src, made)
    BY <1>2 DEF src, made
  <2>3. CallOK(e, src, made)
    BY <1>1, <1>2, <1>6, <2>2, AnsweredOK DEF out
  <2>4. CallOK(e, arr'[e.src], arr'[e.out])
    BY <1>6, <1>13, <2>3 DEF src, made
  <2>5. Round(e) /\ e.src = Top.src /\ e.out = Top.out
    BY <1>6, <1>10, <1>13
  <2> QED BY <1>1, <1>13, <2>4, <2>5, RoundKeepsCalls
<1> QED BY <1>3, <1>11, <1>12, <1>13

LEMMA HofEndKeepsCalls ==
  ASSUME HofInv, HofEnd
  PROVE  HofInv'
<1> DEFINE l == Len(calls)
           out == Top.out
<1>1. calls # << >> /\ calls' = Front(calls) /\ Inv' /\ calls \in Seq(GoodCalls) /\ arr \in [Arrays -> GoodArrays]
  BY HofEndKeeps DEF HofEnd, InRuntime, HofInv, Inv
<1>2. /\ DOMAIN calls' = 1..(l - 1) /\ 1..(l - 1) \subseteq DOMAIN calls /\ l \in Nat
      /\ \A i \in 1..(l - 1) : calls'[i] = calls[i] /\ i # l
  BY <1>1 DEF Front
<1>3. \/ UNCHANGED arr
      \/ out # NULL /\ arr' = [arr EXCEPT ![out] = Given(@)]
  BY DEF HofEnd
<1>4. \A n \in DOMAIN calls : n # l => /\ calls[n].out # NULL => calls[n].out # out
                                       /\ out # NULL => calls[n].out # out /\ calls[n].src # out
  BY <1>1, TopIs
<1>5. out # NULL => out \in Arrays
  BY <1>1, TopIs
<1> HIDE DEF l, out
<1>6. \A n \in 1..(l - 1) : arr'[calls[n].src] = arr[calls[n].src] /\ arr'[calls[n].out] = arr[calls[n].out]
  <2>1. CASE UNCHANGED arr
    BY <2>1
  <2>2. CASE out # NULL /\ arr' = [arr EXCEPT ![out] = Given(@)]
    <3>1. \A y : y # out => arr'[y] = arr[y]
      BY <1>1, <1>5, <2>2
    <3> QED BY <1>2, <1>4, <2>2, <3>1
  <2> QED BY <1>3, <2>1, <2>2
<1>7. CallsOK'
  BY <1>2, <1>6 DEF HofInv, CallsOK
<1>8. OutsDiffer'
  BY <1>2 DEF HofInv, OutsDiffer
<1> QED BY <1>1, <1>7, <1>8 DEF HofInv

LEMMA ListCallKeepsCalls ==
  ASSUME HofInv, ListCall
  PROVE  HofInv'
<1>1. ASSUME NEW n \in Int, ArrayNew(n) PROVE HofInv'
  <2>1. CASE Ignored \/ NoMemory
    BY <2>1, IgnoredKeepsCalls
  <2>2. CASE ~(n < 0) /\ Adds(Zeroed(n))
    <3>1. Zeroed(n) \in GoodArrays
      BY <2>2, ZeroedGood
    <3> QED BY <2>2, <3>1, AddsKeepsCalls
  <2> QED BY <1>1, <2>1, <2>2 DEF ArrayNew
<1>2. ASSUME NEW x \in Held, NEW a \in GoodArrays, Update(x, a), a.mine = arr[x].mine, a.state # "unused"
      PROVE  HofInv'
  <2>1. a.mine
    BY <1>2 DEF Held
  <2> QED BY <1>2, <2>1, UpdateKeepsCalls
<1>3. \A x \in Held \cup {NULL} : x # NULL =>
        x \in Held /\ x \in Arrays /\ arr[x] \in GoodArrays /\ arr[x].state = "live" /\ arr[x].mine
  BY DEF Held, HofInv, Inv
<1>4. \A a, n, cap, f : ArrayWith(a, n, cap, f).mine = a.mine /\ ArrayWith(a, n, cap, f).state = a.state
  BY DEF ArrayWith
<1>5. ASSUME NEW x \in Held \cup {NULL}, NEW i \in Int, NEW v \in Values, ArraySet(x, i, v) PROVE HofInv'
  <2>1. CASE Ignored
    BY <2>1, IgnoredKeepsCalls
  <2>2. CASE x # NULL /\ 0 <= i /\ i < arr[x].len /\ Update(x, SetCell(arr[x], i, v))
    <3>1. SetCell(arr[x], i, v) \in GoodArrays
      BY <1>3, <2>2, SetCellGood
    <3>2. SetCell(arr[x], i, v).mine = arr[x].mine /\ SetCell(arr[x], i, v).state # "unused"
      BY <1>3, <1>4, <2>2 DEF SetCell
    <3> QED BY <1>2, <1>3, <2>2, <3>1, <3>2
  <2> QED BY <1>5, <2>1, <2>2 DEF ArraySet
<1>6. ASSUME NEW x \in Held \cup {NULL}, NEW v \in Values, ArrayPush(x, v) PROVE HofInv'
  <2>1. CASE Ignored \/ NoChange
    BY <2>1, IgnoredKeepsCalls
  <2>2. CASE x # NULL /\ Update(x, Pushed(arr[x], v))
    <3>1. arr[x] \in GoodArrays /\ arr[x].state = "live" /\ arr[x].mine /\ x \in Held
      BY <1>3, <2>2
    <3>2. Pushed(arr[x], v) \in GoodArrays /\ Pushed(arr[x], v).mine = arr[x].mine /\ Pushed(arr[x], v).state # "unused"
      BY <3>1, PushedGood, PushedContents
    <3> QED BY <1>2, <2>2, <3>1, <3>2
  <2> QED BY <1>6, <2>1, <2>2 DEF ArrayPush
<1>7. ASSUME NEW x \in Held \cup {NULL}, ArrayPop(x) PROVE HofInv'
  <2>1. ASSUME Throw("VACIO") PROVE HofInv'
    BY <2>1, ThrowKeepsCalls
  <2> DEFINE a == ArrayWith(arr[x], arr[x].len - 1, arr[x].cap, arr[x].data)
  <2>2. ASSUME x # NULL, ~(arr[x].len <= 0), Update(x, a) PROVE HofInv'
    <3>1. arr[x] \in GoodArrays /\ arr[x].state = "live" /\ arr[x].len > 0
      BY <1>3, <2>2, GoodArray
    <3>2. a \in GoodArrays
      BY <3>1, PoppedGood
    <3>3. a.mine = arr[x].mine /\ a.state # "unused"
      BY <1>4, <3>1
    <3> QED BY <1>2, <1>3, <2>2, <3>2, <3>3
  <2> HIDE DEF a
  <2> QED BY <1>7, <2>1, <2>2 DEF ArrayPop, a
<1>8. ASSUME NEW x \in Held \cup {NULL}, NEW i \in Int, ArrayRemoveAt(x, i) PROVE HofInv'
  <2>1. ASSUME Throw("INDICE") PROVE HofInv'
    BY <2>1, ThrowKeepsCalls
  <2> DEFINE a == Removed(arr[x], i)
  <2>2. ASSUME ~(x = NULL \/ i < 0 \/ i >= arr[x].len), Update(x, a) PROVE HofInv'
    <3>1. arr[x] \in GoodArrays /\ arr[x].state = "live" /\ arr[x].len > 0
      BY <1>3, <2>2, GoodArray
    <3>2. a \in GoodArrays
      BY <3>1, RemovedGood
    <3>3. a.mine = arr[x].mine /\ a.state # "unused"
      BY <1>4, <3>1 DEF Removed
    <3> QED BY <1>2, <1>3, <2>2, <3>2, <3>3
  <2> HIDE DEF a
  <2> QED BY <1>8, <2>1, <2>2 DEF ArrayRemoveAt, a
<1>9. ASSUME NEW x \in Held \cup {NULL}, ArraySort(x) PROVE HofInv'
  <2>1. CASE NoMemory
    BY <2>1, IgnoredKeepsCalls
  <2>2. ASSUME NEW a \in GoodArrays, Adds(a) PROVE HofInv'
    BY <2>2, AddsKeepsCalls
  <2>3. ASSUME x # NULL, NEW f \in Bijection(Indices(arr[x].len), Indices(arr[x].len))
        PROVE  Copied(arr[x], f, arr[x].len, arr[x].len) \in GoodArrays
    <3>1. arr[x] \in GoodArrays
      BY <1>3, <2>3
    <3>2. f \in [Indices(arr[x].len) -> Indices(arr[x].len)] /\ arr[x].len \in Nat
      BY <3>1, GoodArray DEF Bijection, Injection
    <3> QED BY <3>1, <3>2, CopiedGood
  <2> QED BY <1>9, <2>1, <2>2, <2>3, ZeroedGood DEF ArraySort
<1>10. ASSUME NEW x \in Held \cup {NULL}, ArrayUnique(x) PROVE HofInv'
  <2>1. CASE NoMemory
    BY <2>1, IgnoredKeepsCalls
  <2>2. ASSUME NEW a \in GoodArrays, Adds(a) PROVE HofInv'
    BY <2>2, AddsKeepsCalls
  <2>3. ASSUME x # NULL, NEW K \in SUBSET Indices(arr[x].len), NEW f \in [Indices(Cardinality(K)) -> K],
               NEW cap \in Capacities(Cardinality(K))
        PROVE  Copied(arr[x], f, Cardinality(K), cap) \in GoodArrays
    <3>1. arr[x] \in GoodArrays /\ arr[x].len \in Nat
      BY <1>3, <2>3, GoodArray
    <3>2. Cardinality(K) \in Nat
      <4>1. IsFiniteSet(Indices(arr[x].len))
        BY <3>1, FS_Interval DEF Indices
      <4> QED BY <4>1, FS_Subset, FS_CardinalityType
    <3>3. cap \in Nat /\ Cardinality(K) <= cap
      BY <3>2 DEF Capacities
    <3>4. f \in [Indices(Cardinality(K)) -> Indices(arr[x].len)]
      OBVIOUS
    <3> QED BY <3>1, <3>2, <3>3, <3>4, CopiedGood
  <2> QED BY <1>10, <2>1, <2>2, <2>3, ZeroedGood DEF ArrayUnique
<1>11. ASSUME NEW x \in Held \cup {NULL}, ArrayFree(x) PROVE HofInv'
  <2>1. CASE Ignored
    BY <2>1, IgnoredKeepsCalls
  <2> DEFINE a == [arr[x] EXCEPT !.state = "freed"]
  <2>2. CASE x # NULL /\ Update(x, a)
    <3>1. arr[x] \in GoodArrays
      BY <1>3, <2>2
    <3>2. a \in GoodArrays
      BY <3>1, OwnerGood
    <3>3. a.mine = arr[x].mine /\ a.state = "freed"
      BY <3>1, GoodArray DEF ArrayRec
    <3> HIDE DEF a
    <3> QED BY <1>2, <1>3, <2>2, <3>2, <3>3
  <2> QED BY <1>11, <2>1, <2>2 DEF ArrayFree
<1>12. ASSUME NEW x \in Held \cup {NULL}, NEW op \in {"map", "filter", "reduce"}, HofBegin(op, x) PROVE HofInv'
  <2>1. CASE x = NULL
    <3>1. ArrayNew(0) \/ NoChange
      BY <1>12, <2>1 DEF HofBegin
    <3> QED BY <1>1, <3>1, IgnoredKeepsCalls
  <2>2. CASE x # NULL
    BY <1>3, <1>12, <2>2, HofBeginKeepsCalls
  <2> QED BY <2>1, <2>2
<1>13. \A i \in Sizes : i \in Int
  BY SizesAssumption
<1>14. (\E n \in Sizes : ArrayNew(n)) => HofInv'
  BY <1>1, <1>13
<1>15. ASSUME NEW x \in Held \cup {NULL}
       PROVE  /\ \A i \in Sizes, v \in Values : ArraySet(x, i, v) => HofInv'
              /\ \A v \in Values : ArrayPush(x, v) => HofInv'
              /\ ArrayPop(x) => HofInv'
              /\ \A i \in Sizes : ArrayRemoveAt(x, i) => HofInv'
              /\ ArraySort(x) \/ ArrayUnique(x) \/ ArrayFree(x) => HofInv'
              /\ \A op \in {"map", "filter", "reduce"} : HofBegin(op, x) => HofInv'
  BY <1>5, <1>6, <1>7, <1>8, <1>9, <1>10, <1>11, <1>12, <1>13
<1> QED BY <1>14, <1>15 DEF ListCall

LEMMA MapCallKeepsCalls ==
  ASSUME HofInv, NEW m \in Existing \cup {NULL}, MapCall(m)
  PROVE  HofInv'
<1>1. Inv'
  BY MapCallKeeps DEF HofInv
<1>2. ASSUME UNCHANGED <<arr, calls>> PROVE HofInv'
  BY <1>1, <1>2, NoChangeKeepsCalls
<1>3. ASSUME NEW error, Throw(error) PROVE HofInv'
  BY <1>3, ThrowKeepsCalls
<1>4. ASSUME NEW k, NEW v, NEW str, MapSet(m, k, v, str) PROVE HofInv'
  <2>1. UNCHANGED <<arr, calls>>
    BY <1>4 DEF MapSet, Ignored, NoChange, Bind, AppendKey, GrowthFails
  <2> QED BY <1>2, <2>1
<1>5. ASSUME NEW k, MapGet(m, k) PROVE HofInv'
  <2>1. Throw("CLAVE") \/ NoChange
    BY <1>5, Zenon DEF MapGet
  <2> QED BY <1>2, <1>3, <2>1 DEF NoChange
<1>6. ASSUME NEW k, MapDelete(m, k) PROVE HofInv'
  <2>1. Throw("CLAVE") \/ UNCHANGED <<arr, calls>>
    BY <1>6 DEF MapDelete, Bind
  <2> QED BY <1>2, <1>3, <2>1
<1>7. ASSUME MapValues(m) PROVE HofInv'
  <2>1. CASE Ignored \/ NoMemory
    BY <2>1, IgnoredKeepsCalls
  <2>2. CASE m # NULL /\ Adds(Listed(map[m].len, map[m].values))
    <3>1. map[m] \in GoodMaps
      BY <2>2, ExistingGood DEF HofInv
    <3>2. map[m].len \in Nat /\ \A i \in Indices(map[m].len) : map[m].values[i] \in Values
      BY <3>1, GoodMap DEF Block
    <3>3. Listed(map[m].len, map[m].values) \in GoodArrays
      BY <3>2, ListedGood
    <3> QED BY <2>2, <3>3, AddsKeepsCalls
  <2> QED BY <1>7, <2>1, <2>2 DEF MapValues
<1>8. ASSUME Astray PROVE HofInv'
  BY <1>2, <1>8 DEF Astray
<1> QED BY <1>4, <1>5, <1>6, <1>7, <1>8 DEF MapCall, Safely

LEMMA StepKeepsCalls ==
  ASSUME HofInv, [CollectionNext]_collectionVars
  PROVE  HofInv'
<1>1. Inv'
  BY StepKeeps DEF HofInv
<1>2. ASSUME UNCHANGED <<arr, calls>> PROVE HofInv'
  BY <1>1, <1>2, NoChangeKeepsCalls
<1>3. CASE ProgramCall
  <2>1. ASSUME NEW n, MapNew(n) PROVE HofInv'
    BY <1>2, <2>1 DEF MapNew, Ignored, NoMemory, NoChange, Bind
  <2> QED BY <1>3, <2>1, ListCallKeepsCalls, MapCallKeepsCalls DEF ProgramCall
<1>4. CASE UseFreed
  BY <1>2, <1>4 DEF UseFreed
<1>5. CASE HofRound
  BY <1>5, HofRoundKeepsCalls
<1>6. CASE HofEnd
  BY <1>6, HofEndKeepsCalls
<1>7. CASE HofThrows
  <2>1. arr' = arr /\ \E n \in 0..(Len(calls) - 1) : calls' = SubSeq(calls, 1, n)
    BY <1>7 DEF HofThrows
  <2>2. \A n \in 0..(Len(calls) - 1) : n \in 0..Len(calls)
    <3>1. Len(calls) \in Nat
      BY DEF HofInv, Inv
    <3> DEFINE k == Len(calls)
    <3>2. k \in Nat
      BY <3>1
    <3> HIDE DEF k
    <3>3. \A n \in 0..(k - 1) : n \in 0..k
      BY <3>2
    <3> QED BY <3>3 DEF k
  <2> QED BY <1>1, <2>1, <2>2, AbandonKeepsCalls
<1>8. CASE \E r \in Values : HofReturn(r)
  BY <1>8, HofReturnKeepsCalls
<1>9. CASE UNCHANGED collectionVars
  BY <1>2, <1>9 DEF collectionVars
<1> QED BY <1>3, <1>4, <1>5, <1>6, <1>7, <1>8, <1>9 DEF CollectionNext

LEMMA HofInvRounds == HofInv => RoundsInOrder
<1> SUFFICES ASSUME HofInv, NEW n \in DOMAIN calls
             PROVE  LET c == calls[n] IN
                      /\ c.op = "map" /\ ~c.lost => Contents(arr[c.out]) = c.gave
                      /\ c.op = "filter" /\ ~c.lost => Filtered(Contents(arr[c.out]), c)
                      /\ ~c.changed => c.seen = SubSeq(c.start, 1, Len(c.seen))
  BY DEF RoundsInOrder
<1> DEFINE c == calls[n]
<1>1. c \in CallRec /\ CallOK(c, arr[c.src], arr[c.out])
  BY CallIs DEF HofInv, CallsOK
<1> HIDE DEF c
<1>2. ASSUME ~c.changed PROVE c.seen = SubSeq(c.start, 1, Len(c.seen))
  <2> DEFINE l == Len(c.seen)
  <2>1. /\ c.seen \in Seq(Values) /\ c.start \in Seq(Values) /\ l \in Nat /\ l <= Len(c.start)
        /\ \A i \in 1..l : c.seen[i] = c.start[i]
    BY <1>1, <1>2 DEF CallRec, CallOK
  <2>2. SubSeq(c.start, 1, l) = [i \in 1..l |-> c.start[i]]
    BY <2>1
  <2>3. c.seen = [i \in 1..l |-> c.seen[i]]
    BY <2>1
  <2> QED BY <2>1, <2>2, <2>3
<1> QED BY <1>1, <1>2 DEF CallOK, c

(* For any number of lists, calls within calls and failed allocations, and *)
(* whatever the functions do to the lists: what aym_hof_map and _filter    *)
(* make holds what the rounds have put there so far, in order, and a list  *)
(* that is left alone is gone through element by element.                  *)
THEOREM RoundsKept == CollectionSpec => []RoundsInOrder
<1>1. CollectionInit => HofInv
  BY InitGood DEF CollectionInit, HofInv, CallsOK, OutsDiffer
<1>2. HofInv /\ [CollectionNext]_collectionVars => HofInv'
  BY StepKeepsCalls
<1>3. HofInv => RoundsInOrder
  BY HofInvRounds
<1> QED BY <1>1, <1>2, <1>3, PTL DEF CollectionSpec
-----------------------------------------------------------------------------
(* The refinement of CollectionsSpec.                                      *)
(* What the program sees of a list that it has, or does not have.          *)
LEMMA ListsAre ==
  /\ DOMAIN ListsBar = Held /\ \A x \in Held : ListsBar[x] = Contents(arr[x])
  /\ DOMAIN ListsBar' = Held' /\ \A x \in Held' : ListsBar'[x] = Contents(arr'[x])
BY DEF ListsBar

LEMMA SameLists ==
  ASSUME arr' = arr PROVE ListsBar' = ListsBar
BY DEF ListsBar, Held

LEMMA ListBecomes ==
  ASSUME Inv, NEW x \in Held, NEW a, a.mine, a.state = "live", arr' = [arr EXCEPT ![x] = a]
  PROVE  Promise!Becomes(x, Contents(a)) /\ Held' = Held
<1>1. x \in Arrays /\ arr'[x] = a /\ \A y \in Arrays \ {x} : arr'[y] = arr[y]
  BY DEF Held, Inv
<1>2. Held' = Held
  BY <1>1 DEF Held
<1> QED BY <1>1, <1>2, ListsAre DEF Promise!Becomes, Promise!Others, Held

LEMMA ListComes ==
  ASSUME Inv, NEW x \in Arrays, x \notin Held, NEW a, a.mine, a.state = "live", arr' = [arr EXCEPT ![x] = a]
  PROVE  Promise!New(x) /\ ListsBar'[x] = Contents(a)
<1>1. arr'[x] = a /\ \A y \in Arrays \ {x} : arr'[y] = arr[y]
  BY DEF Inv
<1>2. Held' = Held \cup {x}
  BY <1>1 DEF Held
<1> QED BY <1>1, <1>2, ListsAre DEF Promise!New, Promise!Others, Held

LEMMA ListHides ==
  ASSUME Inv, NEW x \in Arrays, x \notin Held, NEW a, ~a.mine, arr' = [arr EXCEPT ![x] = a]
  PROVE  ListsBar' = ListsBar
<1>1. arr'[x] = a /\ \A y \in Arrays \ {x} : arr'[y] = arr[y]
  BY DEF Inv
<1>2. Held' = Held /\ \A y \in Held : arr'[y] = arr[y]
  BY <1>1 DEF Held
<1> QED BY <1>2 DEF ListsBar

LEMMA ListGoes ==
  ASSUME Inv, NEW x \in Held, NEW a, a.state # "live", arr' = [arr EXCEPT ![x] = a]
  PROVE  DOMAIN ListsBar' = DOMAIN ListsBar \ {x} /\ Promise!Others(x)
<1>1. x \in Arrays /\ arr'[x] = a /\ \A y \in Arrays \ {x} : arr'[y] = arr[y]
  BY DEF Held, Inv
<1>2. Held' = Held \ {x}
  BY <1>1 DEF Held
<1> QED BY <1>1, <1>2, ListsAre DEF Promise!Others, Held

LEMMA SameDicts == ASSUME map' = map PROVE DictsBar' = DictsBar
BY DEF DictsBar, Existing, DictBar, At, Find

LEMMA CalledKeeps ==
  ASSUME arr' = arr, map' = map
  PROVE  ListsBar' = ListsBar /\ DictsBar' = DictsBar
BY SameLists, SameDicts

(* Calls that change nothing: an error, or memory that runs out.           *)
LEMMA ThrowMaps == ASSUME NEW error \in {"VACIO", "INDICE", "CLAVE"}, Throw(error) PROVE Promise!Next
BY CalledKeeps DEF Throw, Enough, Reply, Promise!Next, Promise!Fails, Promise!Refuses, Promise!Fits,
     Promise!Answers, Promise!Returned, Promise!Errors

LEMMA IgnoredMaps == ASSUME Ignored PROVE Promise!Next
BY CalledKeeps DEF Ignored, Enough, Reply, NoChange, Promise!Next, Promise!Fails, Promise!Refuses, Promise!Fits,
     Promise!Answers, Promise!Returned

LEMMA NoMemoryMaps == ASSUME NoMemory PROVE Promise!Next
BY CalledKeeps DEF NoMemory, Lacking, Reply, NoChange, Promise!Next, Promise!Fails, Promise!NoRoom, Promise!RunsOut,
     Promise!Answers, Promise!Returned

-----------------------------------------------------------------------------
(* What the calls do to the elements of a list.                            *)
LEMMA ZeroedContents ==
  ASSUME NEW n \in Nat
  PROVE  /\ Contents(Zeroed(n)) \in [1..n -> {0}] /\ Zeroed(n).mine /\ Zeroed(n).state = "live"
         /\ Zeroed(n).len = n
BY DEF Contents, Zeroed

LEMMA SetCellContents ==
  ASSUME NEW a \in GoodArrays, NEW i \in Indices(a.len), NEW v
  PROVE  Contents(SetCell(a, i, v)) = [Contents(a) EXCEPT ![i + 1] = v] /\ i + 1 \in DOMAIN Contents(a)
<1>1. /\ a.len \in Nat /\ a.cap \in Nat /\ a.len <= a.cap /\ a.data \in [Indices(a.cap) -> Cell]
      /\ i \in Nat /\ i < a.len
  BY GoodArray DEF Indices
<1>2. \A j \in 1..a.len : j - 1 \in Indices(a.cap) /\ (j - 1 = i <=> j = i + 1)
  BY <1>1 DEF Indices
<1> DEFINE b == SetCell(a, i, v)
<1>3. b.len = a.len /\ \A j \in Indices(a.cap) : b.data[j] = IF j = i THEN v ELSE a.data[j]
  BY <1>1 DEF SetCell, ArrayWith
<1> HIDE DEF b
<1>4. Contents(b) = [j \in 1..a.len |-> b.data[j - 1]]
  BY <1>3 DEF Contents
<1>5. \A j \in 1..a.len : b.data[j - 1] = IF j = i + 1 THEN v ELSE a.data[j - 1]
  BY <1>2, <1>3
<1>6. [Contents(a) EXCEPT ![i + 1] = v] = [j \in 1..a.len |-> IF j = i + 1 THEN v ELSE a.data[j - 1]]
  BY DEF Contents
<1>7. i + 1 \in DOMAIN Contents(a)
  BY <1>1 DEF Contents
<1>8. Contents(b) = [j \in 1..a.len |-> IF j = i + 1 THEN v ELSE a.data[j - 1]]
  BY <1>4, <1>5
<1> QED BY <1>6, <1>7, <1>8 DEF b

LEMMA PoppedContents ==
  ASSUME NEW a \in GoodArrays, a.len > 0, NEW b, b = ArrayWith(a, a.len - 1, a.cap, a.data)
  PROVE  /\ Contents(b) = Promise!Front(Contents(a)) /\ Contents(a) # << >>
         /\ Promise!Last(Contents(a)) = a.data[a.len - 1]
<1>1. a.len \in Nat /\ Contents(a) \in Seq(Values) /\ Len(Contents(a)) = a.len
      /\ \A i \in 1..a.len : Contents(a)[i] = a.data[i - 1]
  BY GoodArray, ContentsSeq
<1>2. b.len = a.len - 1 /\ b.data = a.data
  BY DEF ArrayWith
<1>3. SubSeq(Contents(a), 1, a.len - 1) = [i \in 1..(a.len - 1) |-> Contents(a)[i]]
  BY <1>1
<1>4. \A i \in 1..(a.len - 1) : Contents(a)[i] = a.data[i - 1]
  BY <1>1
<1> QED BY <1>1, <1>2, <1>3, <1>4 DEF Contents, Promise!Front, Promise!Last

LEMMA RemovedContents ==
  ASSUME NEW a \in GoodArrays, NEW i \in Indices(a.len)
  PROVE  /\ Contents(Removed(a, i)) = Promise!RemoveAt(Contents(a), i + 1) /\ i + 1 \in DOMAIN Contents(a)
         /\ Contents(a)[i + 1] = a.data[i]
<1> DEFINE s == Contents(a)
           n == a.len
           b == Removed(a, i)
<1>1. /\ n \in Nat /\ s \in Seq(Values) /\ Len(s) = n /\ \A j \in 1..n : s[j] = a.data[j - 1]
      /\ i \in Nat /\ i < n /\ DOMAIN a.data = Indices(a.cap) /\ a.cap \in Nat /\ n <= a.cap
  <2>1. a.len \in Nat /\ a.cap \in Nat /\ a.len <= a.cap /\ DOMAIN a.data = Indices(a.cap)
    BY GoodArray
  <2>2. s \in Seq(Values) /\ Len(s) = n /\ \A j \in 1..n : s[j] = a.data[j - 1]
    BY ContentsSeq
  <2>3. i \in Nat /\ i < n
    BY <2>1 DEF Indices
  <2> QED BY <2>1, <2>2, <2>3
<1>2. b.len = n - 1 /\ \A j \in Indices(n - 1) : b.data[j] = IF i <= j THEN a.data[j + 1] ELSE a.data[j]
  BY <1>1 DEF Removed, MovedUp, ArrayWith, Indices
<1> HIDE DEF b
<1>3. Contents(b) = [j \in 1..(n - 1) |-> b.data[j - 1]]
  BY <1>2 DEF Contents
<1>4. \A j \in 1..(n - 1) : b.data[j - 1] = IF j <= i THEN s[j] ELSE s[j + 1]
  <2>1. ASSUME NEW j \in 1..(n - 1) PROVE b.data[j - 1] = IF j <= i THEN s[j] ELSE s[j + 1]
    <3>1. j - 1 \in Indices(n - 1) /\ (i <= j - 1 <=> ~(j <= i)) /\ j - 1 + 1 = j /\ j + 1 - 1 = j
      BY <1>1 DEF Indices
    <3>2. b.data[j - 1] = IF i <= j - 1 THEN a.data[j - 1 + 1] ELSE a.data[j - 1]
      BY <1>2, <3>1
    <3>3. j \in 1..n /\ j + 1 \in 1..n
      BY <1>1
    <3> HIDE DEF s, n
    <3>4. s[j] = a.data[j - 1] /\ s[j + 1] = a.data[j]
      BY <1>1, <3>1, <3>3
    <3> QED BY <3>1, <3>2, <3>4
  <2> QED BY <2>1
<1> HIDE DEF s, n
<1>5. SubSeq(s, 1, i) \in Seq(Values) /\ Len(SubSeq(s, 1, i)) = i /\ \A j \in 1..i : SubSeq(s, 1, i)[j] = s[j]
  BY <1>1
<1>6. /\ SubSeq(s, i + 2, n) \in Seq(Values) /\ Len(SubSeq(s, i + 2, n)) = n - i - 1
      /\ \A j \in 1..(n - i - 1) : SubSeq(s, i + 2, n)[j] = s[j + i + 1]
  BY <1>1
<1> DEFINE u == SubSeq(s, 1, i)
           w == SubSeq(s, i + 2, n)
<1> HIDE DEF u, w
<1>7. u \o w = [j \in 1..(n - 1) |-> IF j <= i THEN u[j] ELSE w[j - i]]
  BY SMTT(30), <1>1, <1>5, <1>6 DEF u, w
<1>8. \A j \in 1..(n - 1) : (IF j <= i THEN u[j] ELSE w[j - i]) = IF j <= i THEN s[j] ELSE s[j + 1]
  BY <1>1, <1>5, <1>6 DEF u, w
<1>9. Contents(b) = u \o w
  BY <1>3, <1>4, <1>7, <1>8
<1>10. Promise!RemoveAt(s, i + 1) = u \o w
  <2>1. i + 1 - 1 = i /\ i + 1 + 1 = i + 2
    BY <1>1
  <2> QED BY <1>1, <2>1 DEF Promise!RemoveAt, u, w
<1> QED BY <1>1, <1>9, <1>10 DEF s, b

-----------------------------------------------------------------------------
(* Calls over lists keep the promise.                                      *)
LEMMA HeldIs ==
  ASSUME Inv, NEW x \in Held \cup {NULL}, x # NULL
  PROVE  /\ x \in Arrays /\ x \in Held /\ x \in DOMAIN ListsBar /\ arr[x] \in GoodArrays
         /\ arr[x].mine /\ arr[x].state = "live" /\ ListsBar[x] = Contents(arr[x])
BY ListsAre DEF Held, Inv

LEMMA FreshIsNew ==
  ASSUME Inv, NEW a, a.mine, a.state = "live", Adds(a)
  PROVE  /\ Promise!New(Fresh) /\ ListsBar'[Fresh] = Contents(a) /\ DictsBar' = DictsBar
         /\ Fresh \in Arrays /\ reply' = [kind |-> "list", is |-> Fresh]
<1>1. Fresh \in Room /\ arr' = [arr EXCEPT ![Fresh] = a] /\ map' = map /\ reply' = [kind |-> "list", is |-> Fresh]
  BY DEF Adds, Fresh, Reply
<1>2. Fresh \in Arrays /\ Fresh \notin Held
  BY <1>1 DEF Room, Held
<1> QED BY <1>1, <1>2, ListComes, SameDicts

LEMMA ZeroedMaps ==
  ASSUME Inv, NEW n \in Nat, Enough, Adds(Zeroed(n))
  PROVE  Promise!Next
<1>1. /\ Promise!New(Fresh) /\ ListsBar'[Fresh] = Contents(Zeroed(n)) /\ DictsBar' = DictsBar
      /\ Fresh \in Arrays /\ reply' = [kind |-> "list", is |-> Fresh]
  BY ZeroedContents, FreshIsNew
<1>2. Promise!Range(ListsBar'[Fresh]) \subseteq {0}
  BY <1>1, ZeroedContents DEF Promise!Range
<1> QED BY <1>1, <1>2 DEF Enough, Promise!Next, Promise!ListCall, Promise!Fresh, Promise!Fits, Promise!Answers,
                       Promise!Returned

LEMMA ArrayNewMaps == ASSUME Inv, NEW n \in Int, ArrayNew(n) PROVE Promise!Next
<1>1. CASE Ignored \/ NoMemory
  BY <1>1, IgnoredMaps, NoMemoryMaps
<1>2. CASE n >= 0 /\ Enough /\ Adds(Zeroed(n))
  BY <1>2, ZeroedMaps
<1> QED BY <1>1, <1>2 DEF ArrayNew

LEMMA UpdateIs ==
  ASSUME Inv, NEW x \in Held \cup {NULL}, x # NULL, NEW a, Update(x, a)
  PROVE  /\ DictsBar' = DictsBar
         /\ a.mine /\ a.state = "live" => Promise!Becomes(x, Contents(a))
         /\ a.state # "live" => DOMAIN ListsBar' = DOMAIN ListsBar \ {x} /\ Promise!Others(x)
BY HeldIs, ListBecomes, ListGoes, SameDicts DEF Update

LEMMA ArraySetMaps ==
  ASSUME Inv, NEW x \in Held \cup {NULL}, NEW i \in Int, NEW v \in Values, ArraySet(x, i, v)
  PROVE  Promise!Next
<1>1. CASE Ignored
  BY <1>1, IgnoredMaps
<1>2. CASE ~Ignored
  <2>1. x # NULL /\ 0 <= i /\ i < arr[x].len /\ Enough /\ Update(x, SetCell(arr[x], i, v)) /\ Reply("value", v)
    BY <1>2 DEF ArraySet
  <2>2. arr[x] \in GoodArrays /\ arr[x].len \in Nat /\ ListsBar[x] = Contents(arr[x]) /\ arr[x].mine /\ arr[x].state = "live"
        /\ x \in DOMAIN ListsBar
    BY <2>1, HeldIs, GoodArray
  <2>3. i \in Indices(arr[x].len)
    BY <2>1, <2>2 DEF Indices
  <2>4. /\ Contents(SetCell(arr[x], i, v)) = [Contents(arr[x]) EXCEPT ![i + 1] = v]
        /\ i + 1 \in DOMAIN Contents(arr[x])
    BY <2>2, <2>3, SetCellContents
  <2>5. SetCell(arr[x], i, v).mine /\ SetCell(arr[x], i, v).state = "live"
    BY <2>2 DEF SetCell, ArrayWith
  <2>6. Promise!Becomes(x, [ListsBar[x] EXCEPT ![i + 1] = v]) /\ DictsBar' = DictsBar
    <3> DEFINE b == SetCell(arr[x], i, v)
    <3>1. Contents(b) = [ListsBar[x] EXCEPT ![i + 1] = v] /\ b.mine /\ b.state = "live" /\ Update(x, b)
      BY <2>1, <2>2, <2>4, <2>5
    <3> HIDE DEF b
    <3> QED BY ZenonT(30), <2>1, <3>1, UpdateIs
  <2>7. reply'.kind = "value" /\ reply'.is = v
    BY <2>1 DEF Reply
  <2>8. Promise!Set(x)
    BY <2>1, <2>2, <2>4, <2>6, <2>7 DEF Promise!Set, Promise!Fits, Enough
  <2> QED BY <2>2, <2>6, <2>8 DEF Promise!Next, Promise!ListCall
<1> QED BY <1>1, <1>2

LEMMA ArrayPushMaps ==
  ASSUME Inv, NEW x \in Held \cup {NULL}, NEW v \in Values, ArrayPush(x, v)
  PROVE  Promise!Next
<1>1. CASE Ignored
  BY <1>1, IgnoredMaps
<1>2. CASE x # NULL /\ Enough /\ Update(x, Pushed(arr[x], v)) /\ Reply("list", x)
  <2>1. arr[x] \in GoodArrays /\ ListsBar[x] = Contents(arr[x]) /\ arr[x].mine /\ arr[x].state = "live" /\ x \in DOMAIN ListsBar
    BY <1>2, HeldIs
  <2>2. Promise!Becomes(x, Append(ListsBar[x], v)) /\ DictsBar' = DictsBar
    <3> DEFINE b == Pushed(arr[x], v)
    <3>1. Contents(b) = Append(ListsBar[x], v) /\ b.mine /\ b.state = "live"
      BY <2>1, PushedContents
    <3>2. Update(x, b)
      BY <1>2
    <3> HIDE DEF b
    <3> QED BY <1>2, <3>1, <3>2, UpdateIs
  <2> QED BY <1>2, <2>1, <2>2 DEF Promise!Next, Promise!ListCall, Promise!Push, Promise!Fits, Promise!Answers,
                                  Promise!Returned, Reply, Enough
<1>3. CASE x # NULL /\ Lacking(1) /\ Reply("list", x) /\ NoChange
  <2>1. x \in DOMAIN ListsBar /\ ListsBar' = ListsBar /\ DictsBar' = DictsBar
    BY <1>3, HeldIs, CalledKeeps DEF NoChange
  <2> QED BY <1>3, <2>1 DEF Promise!Next, Promise!Fails, Promise!NoRoom, Promise!RunsOut, Promise!Answers,
                            Promise!Returned, Reply, Lacking
<1> QED BY <1>1, <1>2, <1>3 DEF ArrayPush

LEMMA ArrayPopMaps == ASSUME Inv, NEW x \in Held \cup {NULL}, ArrayPop(x) PROVE Promise!Next
<1>1. CASE Throw("VACIO")
  BY <1>1, ThrowMaps
<1> DEFINE a == arr[x]
           b == ArrayWith(a, a.len - 1, a.cap, a.data)
<1>2. CASE ~Throw("VACIO")
  <2>1. x # NULL /\ ~(a.len <= 0) /\ Enough /\ Reply("value", a.data[a.len - 1]) /\ Update(x, b)
    BY <1>2 DEF ArrayPop
  <2>2. a \in GoodArrays /\ ListsBar[x] = Contents(a) /\ a.mine /\ a.state = "live" /\ x \in DOMAIN ListsBar /\ a.len > 0
    BY <2>1, HeldIs, GoodArray
  <2>3. b.mine /\ b.state = "live"
    BY <2>2 DEF ArrayWith
  <2> HIDE DEF a
  <2>4. /\ Contents(b) = Promise!Front(Contents(a)) /\ Contents(a) # << >>
        /\ Promise!Last(Contents(a)) = a.data[a.len - 1]
    BY <2>2, PoppedContents
  <2> HIDE DEF b
  <2>5. Promise!Becomes(x, Promise!Front(ListsBar[x])) /\ DictsBar' = DictsBar
    BY <2>1, <2>2, <2>3, <2>4, UpdateIs
  <2>6. reply' = Promise!Returned("value", Promise!Last(ListsBar[x]))
    BY <2>1, <2>2, <2>4 DEF Reply, Promise!Returned
  <2>7. Promise!Pop(x)
    BY <2>1, <2>2, <2>4, <2>5, <2>6 DEF Promise!Pop, Promise!Fits, Promise!Answers, Enough
  <2> QED BY <2>2, <2>5, <2>7 DEF Promise!Next, Promise!ListCall
<1> QED BY <1>1, <1>2

LEMMA ArrayRemoveAtMaps ==
  ASSUME Inv, NEW x \in Held \cup {NULL}, NEW i \in Int, ArrayRemoveAt(x, i)
  PROVE  Promise!Next
<1>1. CASE Throw("INDICE")
  BY <1>1, ThrowMaps
<1> DEFINE a == arr[x]
           b == Removed(a, i)
<1>2. CASE ~Throw("INDICE")
  <2>1. x # NULL /\ ~(i < 0) /\ ~(i >= a.len) /\ Enough /\ Reply("value", a.data[i]) /\ Update(x, b)
    BY <1>2 DEF ArrayRemoveAt
  <2>2. a \in GoodArrays /\ ListsBar[x] = Contents(a) /\ a.mine /\ a.state = "live" /\ x \in DOMAIN ListsBar /\ a.len \in Nat
    BY <2>1, HeldIs, GoodArray
  <2>3. b.mine /\ b.state = "live"
    BY <2>2 DEF Removed, ArrayWith
  <2>4. i \in Indices(a.len)
    BY <2>1, <2>2 DEF Indices
  <2> HIDE DEF a
  <2>5. Contents(b) = Promise!RemoveAt(Contents(a), i + 1) /\ i + 1 \in DOMAIN Contents(a) /\ Contents(a)[i + 1] = a.data[i]
    BY <2>2, <2>4, RemovedContents
  <2> HIDE DEF b
  <2>6. Promise!Becomes(x, Promise!RemoveAt(ListsBar[x], i + 1)) /\ DictsBar' = DictsBar
    BY <2>1, <2>2, <2>3, <2>5, UpdateIs
  <2>7. reply' = Promise!Returned("value", ListsBar[x][i + 1]) /\ i + 1 \in DOMAIN ListsBar[x]
    BY <2>1, <2>2, <2>5 DEF Reply, Promise!Returned
  <2>8. Promise!RemoveAny(x)
    BY <2>1, <2>6, <2>7 DEF Promise!RemoveAny, Promise!Fits, Promise!Answers, Enough
  <2> QED BY <2>2, <2>6, <2>8 DEF Promise!Next, Promise!ListCall
<1> QED BY <1>1, <1>2

LEMMA ArrayFreeMaps == ASSUME Inv, NEW x \in Held \cup {NULL}, ArrayFree(x) PROVE Promise!Next
<1>1. CASE Ignored
  BY <1>1, IgnoredMaps
<1>2. CASE ~Ignored
  <2>1. x # NULL /\ Enough /\ Update(x, [arr[x] EXCEPT !.state = "freed"]) /\ Reply("none", 0)
    BY <1>2 DEF ArrayFree
  <2>2. arr[x] \in GoodArrays /\ x \in DOMAIN ListsBar
    BY <2>1, HeldIs
  <2>3. [arr[x] EXCEPT !.state = "freed"].state # "live"
    BY <2>2 DEF GoodArrays, ArrayRec
  <2>4. DOMAIN ListsBar' = DOMAIN ListsBar \ {x} /\ Promise!Others(x) /\ DictsBar' = DictsBar
    BY <2>1, <2>3, UpdateIs
  <2> QED BY <2>1, <2>2, <2>4 DEF Promise!Next, Promise!ListCall, Promise!Free, Promise!Fits, Promise!Answers,
                                  Promise!Returned, Reply, Enough
<1> QED BY <1>1, <1>2

(* A copy for sort and unique.                                             *)
LEMMA CopiedContents ==
  ASSUME NEW a \in GoodArrays, NEW n \in Nat, NEW cap \in Nat, n <= cap, NEW f \in [Indices(n) -> Indices(a.len)],
         NEW b, b = Copied(a, f, n, cap)
  PROVE  /\ b.mine /\ b.state = "live" /\ DOMAIN Contents(b) = 1..n
         /\ \A i \in 1..n : /\ i - 1 \in Indices(n) /\ f[i - 1] \in Indices(a.len) /\ f[i - 1] + 1 \in DOMAIN Contents(a)
                            /\ Contents(b)[i] = a.data[f[i - 1]] /\ Contents(a)[f[i - 1] + 1] = a.data[f[i - 1]]
<1>1. a.len \in Nat /\ DOMAIN Contents(a) = 1..a.len /\ \A i \in 1..a.len : Contents(a)[i] = a.data[i - 1]
  BY GoodArray, ContentsSeq DEF Contents
<1>2. b.mine /\ b.state = "live" /\ b.len = n /\ \A i \in Indices(cap) : i < n => b.data[i] = a.data[f[i]]
  BY DEF Copied, Indices
<1>3. DOMAIN Contents(b) = 1..n /\ \A i \in 1..n : Contents(b)[i] = b.data[i - 1]
  BY <1>2 DEF Contents
<1>4. ASSUME NEW i \in 1..n
      PROVE  /\ i - 1 \in Indices(n) /\ f[i - 1] \in Indices(a.len) /\ f[i - 1] + 1 \in DOMAIN Contents(a)
             /\ Contents(b)[i] = a.data[f[i - 1]] /\ Contents(a)[f[i - 1] + 1] = a.data[f[i - 1]]
  <2>1. i - 1 \in Indices(n) /\ i - 1 \in Indices(cap) /\ i - 1 < n
    BY DEF Indices
  <2>2. PICK k : k = f[i - 1] /\ k \in Indices(a.len)
    BY <2>1
  <2>3. k + 1 \in 1..a.len /\ k + 1 - 1 = k
    BY <1>1, <2>2 DEF Indices
  <2>4. Contents(b)[i] = a.data[k] /\ Contents(a)[k + 1] = a.data[k]
    <3>1. Contents(b)[i] = b.data[i - 1] /\ b.data[i - 1] = a.data[f[i - 1]]
      BY <1>2, <1>3, <2>1
    <3>2. PICK l : l = k + 1
      OBVIOUS
    <3>3. l \in 1..a.len /\ l - 1 = k
      BY <1>1, <2>2, <2>3, <3>2 DEF Indices
    <3>4. Contents(a)[l] = a.data[k]
      BY <1>1, <3>3
    <3> QED BY <2>2, <3>1, <3>2, <3>4
  <2> QED BY <1>1, <2>1, <2>2, <2>3, <2>4
<1> QED BY <1>2, <1>3, <1>4

LEMMA ShiftedBijection ==
  ASSUME NEW n \in Nat, NEW f \in Bijection(Indices(n), Indices(n)), NEW g, g = [i \in 1..n |-> f[i - 1] + 1]
  PROVE  g \in Promise!Bijection(1..n, 1..n)
<1>1. /\ f \in [Indices(n) -> Indices(n)] /\ \A i, j \in Indices(n) : f[i] = f[j] => i = j
      /\ \A k \in Indices(n) : \E i \in Indices(n) : f[i] = k
  BY DEF Bijection, Injection, Surjection, IsInjective
<1>2. \A i \in 1..n : i - 1 \in Indices(n)
  BY DEF Indices
<1>3. \A i \in 1..n : g[i] = f[i - 1] + 1 /\ f[i - 1] \in Indices(n) /\ g[i] \in 1..n
  <2>1. \A k \in Indices(n) : k + 1 \in 1..n
    BY DEF Indices
  <2> QED BY <1>1, <1>2, <2>1
<1>4. \A i, j \in 1..n : g[i] = g[j] => i = j
  <2> SUFFICES ASSUME NEW i \in 1..n, NEW j \in 1..n, g[i] = g[j] PROVE i = j
    OBVIOUS
  <2>1. f[i - 1] = f[j - 1]
    <3>1. f[i - 1] \in Int /\ f[j - 1] \in Int /\ f[i - 1] + 1 = f[j - 1] + 1
      BY <1>3 DEF Indices
    <3> QED BY <3>1
  <2>2. i - 1 = j - 1
    BY <1>1, <1>2, <2>1
  <2> QED BY <2>2
<1>5. \A k \in 1..n : \E i \in 1..n : g[i] = k
  <2> SUFFICES ASSUME NEW k \in 1..n PROVE \E i \in 1..n : g[i] = k
    OBVIOUS
  <2>1. PICK i \in Indices(n) : f[i] = k - 1
    BY <1>1, <1>2
  <2>2. PICK j : j = i + 1
    OBVIOUS
  <2>3. j \in 1..n /\ j - 1 = i
    BY <2>2 DEF Indices
  <2>4. g[j] = k - 1 + 1
    BY <1>3, <2>1, <2>3
  <2> QED BY <2>3, <2>4
<1>6. g \in [1..n -> 1..n]
  BY <1>3
<1>7. g \in Promise!Injection(1..n, 1..n)
  BY <1>4, <1>6 DEF Promise!Injection, Promise!IsInjective
<1>8. g \in Promise!Surjection(1..n, 1..n)
  BY <1>5, <1>6 DEF Promise!Surjection
<1> QED BY <1>7, <1>8 DEF Promise!Bijection

LEMMA ArraySortMaps == ASSUME Inv, NEW x \in Held \cup {NULL}, ArraySort(x) PROVE Promise!Next
<1>1. CASE NoMemory
  BY <1>1, NoMemoryMaps
<1>2. CASE Enough /\ Adds(Zeroed(0))
  BY <1>2, ZeroedMaps
<1> DEFINE a == arr[x]
           n == a.len
<1>3. ASSUME x # NULL, Enough, NEW f \in Bijection(Indices(n), Indices(n)), Sorts(a, f), Adds(Copied(a, f, n, n))
      PROVE  Promise!Next
  <2> DEFINE b == Copied(a, f, n, n)
  <2>1. a \in GoodArrays /\ ListsBar[x] = Contents(a) /\ x \in DOMAIN ListsBar /\ n \in Nat
    BY <1>3, HeldIs, GoodArray
  <2>2. f \in [Indices(n) -> Indices(n)]
    BY DEF Bijection, Injection
  <2>3. Sorts(a, f) /\ Adds(b) /\ b = Copied(a, f, n, n)
    BY <1>3
  <2>4. \A i, j \in Indices(n) : i < j => a.data[f[i]] <= a.data[f[j]]
    BY <1>3 DEF Sorts
  <2> HIDE DEF a, b
  <2>5. /\ b.mine /\ b.state = "live" /\ DOMAIN Contents(b) = 1..n
        /\ \A i \in 1..n : /\ i - 1 \in Indices(n) /\ f[i - 1] \in Indices(a.len) /\ f[i - 1] + 1 \in DOMAIN Contents(a)
                           /\ Contents(b)[i] = a.data[f[i - 1]] /\ Contents(a)[f[i - 1] + 1] = a.data[f[i - 1]]
    BY <2>1, <2>2, <2>3, CopiedContents DEF n
  <2>6. /\ Promise!New(Fresh) /\ ListsBar'[Fresh] = Contents(b) /\ DictsBar' = DictsBar
        /\ Fresh \in Arrays /\ reply' = [kind |-> "list", is |-> Fresh]
    BY <2>3, <2>5, FreshIsNew
  <2>7. DOMAIN Contents(a) = 1..n
    BY <2>1 DEF Contents, n
  <2>8. PICK g : g = [i \in 1..n |-> f[i - 1] + 1]
    OBVIOUS
  <2>9. g \in Promise!Bijection(1..n, 1..n)
    BY <2>1, <2>8, ShiftedBijection
  <2>10. Promise!Rearranges(Contents(b), Contents(a))
    <3>1. \A i \in 1..n : Contents(b)[i] = Contents(a)[g[i]]
      BY <2>5, <2>8
    <3> HIDE DEF n
    <3> QED BY <2>5, <2>7, <2>9, <3>1 DEF Promise!Rearranges
  <2>11. \A i, j \in 1..n : i < j => Contents(b)[i] <= Contents(b)[j]
    <3> SUFFICES ASSUME NEW i \in 1..n, NEW j \in 1..n, i < j PROVE Contents(b)[i] <= Contents(b)[j]
      OBVIOUS
    <3>1. i - 1 < j - 1
      OBVIOUS
    <3> QED BY <2>4, <2>5, <3>1
  <2>12. Promise!Sorted(x, Fresh)
    BY <1>3, <2>1, <2>5, <2>6, <2>10, <2>11 DEF Promise!Sorted, Promise!Fits, Enough
  <2> QED BY <2>1, <2>6, <2>12 DEF Promise!Next, Promise!ListCall, Promise!Answers, Promise!Returned
<1> QED BY <1>1, <1>2, <1>3 DEF ArraySort

LEMMA ArrayUniqueMaps ==
  ASSUME Inv, outages \in Nat, NEW x \in Held \cup {NULL}, ArrayUnique(x) PROVE Promise!Next
<1>1. CASE NoMemory
  BY <1>1, NoMemoryMaps
<1>2. CASE Enough /\ Adds(Zeroed(0))
  BY <1>2, ZeroedMaps
<1> DEFINE a == arr[x]
<1>3. ASSUME x # NULL, NEW K \in SUBSET Indices(a.len), Keepable(a, K), Lacking(Cardinality(Losses(a, K))),
             NEW n, n = Cardinality(K), NEW f \in [Indices(n) -> K], NEW cap \in Capacities(n),
             InOrder(f, n), Adds(Copied(a, f, n, cap))
      PROVE  Promise!Next
  <2> DEFINE b == Copied(a, f, n, cap)
  <2>1. a \in GoodArrays /\ ListsBar[x] = Contents(a) /\ x \in DOMAIN ListsBar /\ a.len \in Nat
    BY <1>3, HeldIs, GoodArray
  <2>2. Adds(b) /\ b = Copied(a, f, n, cap)
    BY <1>3
  <2> HIDE DEF a, b
  <2>3. IsFiniteSet(Indices(a.len)) /\ IsFiniteSet(K) /\ IsFiniteSet(Losses(a, K)) /\ n \in Nat
    <3>1. IsFiniteSet(Indices(a.len))
      BY <2>1, FS_Interval DEF Indices
    <3>2. IsFiniteSet(K) /\ IsFiniteSet(Losses(a, K))
      BY <3>1, FS_Subset DEF Losses
    <3> QED BY <1>3, <3>1, <3>2, FS_CardinalityType
  <2>4. cap \in Nat /\ n <= cap /\ f \in [Indices(n) -> Indices(a.len)]
    BY <2>3 DEF Capacities
  <2>5. /\ b.mine /\ b.state = "live" /\ DOMAIN Contents(b) = 1..n
        /\ \A i \in 1..n : /\ i - 1 \in Indices(n) /\ f[i - 1] \in Indices(a.len) /\ f[i - 1] + 1 \in DOMAIN Contents(a)
                           /\ Contents(b)[i] = a.data[f[i - 1]] /\ Contents(a)[f[i - 1] + 1] = a.data[f[i - 1]]
    <3>1. /\ a \in GoodArrays /\ n \in Nat /\ cap \in Nat /\ n <= cap /\ f \in [Indices(n) -> Indices(a.len)]
          /\ b = Copied(a, f, n, cap)
      BY <2>1, <2>2, <2>3, <2>4
    <3> QED BY ONLY <3>1, CopiedContents
  <2>6. /\ Promise!New(Fresh) /\ ListsBar'[Fresh] = Contents(b) /\ DictsBar' = DictsBar
        /\ Fresh \in Arrays /\ reply' = [kind |-> "list", is |-> Fresh]
    BY <2>2, <2>5, FreshIsNew
  <2>7. DOMAIN Contents(a) = 1..a.len /\ \A k \in 1..a.len : Contents(a)[k] = a.data[k - 1] /\ k - 1 \in Indices(a.len)
    BY <2>1 DEF Contents, Indices
  <2>8. \A i, j \in 1..n : i < j => f[i - 1] < f[j - 1]
    <3> SUFFICES ASSUME NEW i \in 1..n, NEW j \in 1..n, i < j PROVE f[i - 1] < f[j - 1]
      OBVIOUS
    <3>1. i - 1 < j - 1 /\ i - 1 \in Indices(n) /\ j - 1 \in Indices(n)
      BY <2>5
    <3> QED BY <1>3, <3>1 DEF InOrder
  <2>9. \A k \in K : \A j \in K : j < k => a.data[j] # a.data[k]
    BY <1>3 DEF Keepable, Seen
  <2>10. \A i \in 1..n : f[i - 1] \in K
    BY <2>5
  <2>11. \A i, j \in 1..n : i < j => Contents(b)[i] # Contents(b)[j]
    BY <2>5, <2>8, <2>9, <2>10
  <2>12. Promise!IsInjective(Contents(b))
    <3>1. \A i, j \in 1..n : i < j \/ j < i \/ i = j
      OBVIOUS
    <3> QED BY <2>5, <2>11, <3>1 DEF Promise!IsInjective
  <2>13. Promise!Range(Contents(b)) \subseteq Promise!Range(Contents(a))
    BY <2>5 DEF Promise!Range
  <2>14. outages' >= outages /\ (outages' = outages => Losses(a, K) = {})
    <3>1. PICK l \in Nat : l = Cardinality(Losses(a, K))
      BY <2>3, FS_CardinalityType
    <3>2. outages' = outages + l
      BY <1>3, <3>1 DEF Lacking
    <3>3. l = 0 => Losses(a, K) = {}
      BY <2>3, <3>1, FS_EmptySet
    <3> QED BY <3>2, <3>3
  <2>15. ASSUME Losses(a, K) = {}
         PROVE  \A k \in Indices(a.len) : k \in K \/ \E j \in K : j < k /\ a.data[j] = a.data[k]
    BY <2>15 DEF Losses, Seen
  <2>16. \A k \in K : \E i \in 1..n : f[i - 1] = k
    <3>1. f \in [Indices(n) -> K] /\ \A i, j \in Indices(n) : f[i] = f[j] => i = j
      <4> SUFFICES ASSUME NEW i \in Indices(n), NEW j \in Indices(n), f[i] = f[j] PROVE i = j
        OBVIOUS
      <4>1. f[i] \in Int /\ f[j] \in Int /\ i \in Int /\ j \in Int
        BY <2>3, <2>4 DEF Indices
      <4>2. ~(i < j) /\ ~(j < i)
        BY <1>3, <4>1 DEF InOrder
      <4> QED BY <4>1, <4>2
    <3>2. f \in Injection(Indices(n), K)
      BY <3>1 DEF Injection, IsInjective
    <3>3. Cardinality(Indices(n)) = n
      BY <2>3, FS_Interval DEF Indices
    <3>4. f \in Surjection(Indices(n), K)
      BY <1>3, <2>3, <3>2, <3>3, FS_Injection
    <3>5. \A i \in Indices(n) : i + 1 \in 1..n /\ i + 1 - 1 = i
      BY <2>3 DEF Indices
    <3>6. \A k \in K : \E i \in Indices(n) : f[i] = k
      BY <3>4 DEF Surjection
    <3> SUFFICES ASSUME NEW k \in K PROVE \E i \in 1..n : f[i - 1] = k
      OBVIOUS
    <3>7. PICK i \in Indices(n) : f[i] = k
      BY <3>6
    <3>8. PICK j : j = i + 1
      OBVIOUS
    <3>9. j \in 1..n /\ j - 1 = i
      BY <2>3, <3>8 DEF Indices
    <3> QED BY <3>7, <3>9
  <2>17. ASSUME Losses(a, K) = {} PROVE Promise!Range(Contents(b)) = Promise!Range(Contents(a))
    <3>1. ASSUME NEW k \in 1..a.len PROVE \E i \in 1..n : Contents(b)[i] = Contents(a)[k]
      <4>1. \E j \in K : a.data[j] = a.data[k - 1]
        BY <2>7, <2>15, <2>17
      <4> QED BY <2>5, <2>7, <2>16, <4>1
    <3>2. Promise!Range(Contents(a)) \subseteq Promise!Range(Contents(b))
      <4>1. \A k \in DOMAIN Contents(a) : \E i \in DOMAIN Contents(b) : Contents(b)[i] = Contents(a)[k]
        BY <2>5, <2>7, <3>1
      <4> QED BY ONLY <4>1 DEF Promise!Range
    <3> QED BY <2>13, <3>2
  <2>18. ASSUME Losses(a, K) = {}, NEW i \in 1..n, NEW j \in 1..n, i < j
         PROVE  \E k \in DOMAIN Contents(a) :
                  Contents(a)[k] = Contents(b)[i] /\ \A l \in 1..k : Contents(a)[l] # Contents(b)[j]
    <3>1. PICK u : u = f[i - 1] /\ u \in Indices(a.len) /\ u + 1 \in DOMAIN Contents(a) /\ Contents(a)[u + 1] = Contents(b)[i]
      BY <2>5
    <3>2. PICK v : v = f[j - 1] /\ v \in K /\ Contents(b)[j] = a.data[v] /\ u < v
      BY <2>5, <2>8, <2>10, <2>18, <3>1
    <3>3. ASSUME NEW l \in 1..(u + 1) PROVE Contents(a)[l] # Contents(b)[j]
      <4>1. l \in 1..a.len /\ l - 1 <= u /\ l - 1 < v /\ l - 1 \in Int /\ v \in Int
        BY SMTT(30), <2>1, <2>7, <3>1, <3>2 DEF Indices
      <4>2. Contents(a)[l] = a.data[l - 1] /\ l - 1 \in Indices(a.len)
        BY <2>7, <4>1
      <4>3. CASE l - 1 \in K
        BY <2>9, <3>2, <4>1, <4>2, <4>3
      <4>4. ASSUME NEW h \in K, h < l - 1, a.data[h] = a.data[l - 1] PROVE Contents(a)[l] # Contents(b)[j]
        <5>1. h < v
          BY <2>1, <4>1, <4>4 DEF Indices
        <5> QED BY <2>9, <3>2, <4>2, <4>4, <5>1
      <4> QED BY <2>15, <2>18, <4>2, <4>3, <4>4
    <3> QED BY <3>1, <3>3
  <2>19. Promise!Unique(x, Fresh)
    BY <2>1, <2>5, <2>6, <2>12, <2>13, <2>14, <2>17, <2>18 DEF Promise!Unique
  <2> QED BY <2>1, <2>6, <2>19 DEF Promise!Next, Promise!ListCall, Promise!Answers, Promise!Returned
<1> QED BY <1>1, <1>2, <1>3 DEF ArrayUnique

-----------------------------------------------------------------------------
(* Higher-order calls keep the promise: what they make is nobody's until   *)
(* they end.                                                               *)
LEMMA BetweenMaps ==
  ASSUME ListsBar' = ListsBar, map' = map, Enough \/ Lacking(1), Reply("calling", 0) \/ Reply("none", 0)
  PROVE  Promise!Next
BY SameDicts DEF Enough, Lacking, Reply, Promise!Next, Promise!Between, Promise!Fits, Promise!RunsOut

LEMMA HofBeginMaps ==
  ASSUME HofInv, NEW op, NEW x \in Held \cup {NULL}, HofBegin(op, x)
  PROVE  Promise!Next
<1>1. CASE x = NULL /\ Enough /\ Reply("made", 0) /\ NoChange
  BY <1>1, CalledKeeps DEF NoChange, Enough, Reply, Promise!Next, Promise!Reduced, Promise!Fits
<1>2. CASE ArrayNew(0)
  BY <1>2, ArrayNewMaps DEF HofInv
<1>3. CASE x # NULL /\ Reply("calling", 0) /\ map' = map /\ arr' = arr /\ (Enough \/ Lacking(1))
  BY <1>3, SameLists, BetweenMaps
<1>4. CASE /\ x # NULL /\ Reply("calling", 0) /\ map' = map /\ Enough /\ Room # {}
           /\ arr' = [arr EXCEPT ![Fresh] = Hidden(Zeroed(0))]
  <2>1. Fresh \in Arrays /\ Fresh \notin Held
    BY <1>4 DEF Fresh, Room, Held
  <2>2. ~Hidden(Zeroed(0)).mine
    BY DEF Hidden, Zeroed
  <2>3. ListsBar' = ListsBar
    BY <1>4, <2>1, <2>2, ListHides DEF HofInv
  <2> QED BY <1>4, <2>3, BetweenMaps
<1> QED BY <1>1, <1>2, <1>3, <1>4 DEF HofBegin

LEMMA HofRoundMaps == ASSUME HofRound PROVE Promise!Next
BY SameLists, BetweenMaps DEF HofRound, InRuntime

LEMMA HofReturnMaps == ASSUME HofInv, NEW r \in Values, HofReturn(r) PROVE Promise!Next
<1> DEFINE c == Answered(Top, r)
<1>1. Reply("calling", 0) /\ map' = map /\ calls # << >> /\ Top.phase = "function"
  BY DEF HofReturn
<1>2. CASE arr' = arr /\ (Enough \/ Lacking(1))
  BY <1>1, <1>2, SameLists, BetweenMaps
<1>3. CASE c.out # NULL /\ Enough /\ arr' = [arr EXCEPT ![c.out] = Pushed(@, Result(c, r))]
  <2>1. Top \in CallRec /\ CallOK(Top, arr[Top.src], arr[Top.out]) /\ (Top.out # NULL => Top.out \in Arrays)
    BY <1>1, TopIs
  <2>2. c.out = Top.out
    BY <2>1, AnsweredIs
  <2>3. Top.out \in Arrays /\ ~arr[Top.out].mine
    BY <1>3, <2>1, <2>2 DEF CallOK
  <2> DEFINE b == Pushed(arr[Top.out], Result(c, r))
  <2>4. ~b.mine
    BY <2>3 DEF Pushed, Stored, Grown, ArrayWith
  <2>5. arr' = [arr EXCEPT ![Top.out] = b]
    BY <1>3, <2>2
  <2> HIDE DEF b
  <2>6. ListsBar' = ListsBar
    BY <2>3, <2>4, <2>5, ListHides DEF Held, HofInv
  <2> QED BY <1>1, <1>3, <2>6, BetweenMaps
<1> QED BY <1>2, <1>3 DEF HofReturn

LEMMA HofThrowsMaps == ASSUME HofThrows PROVE Promise!Next
BY SameLists, BetweenMaps DEF HofThrows

LEMMA HofEndMaps == ASSUME HofInv, HofEnd PROVE Promise!Next
<1>1. /\ map' = map /\ Enough /\ calls # << >>
      /\ IF Top.op = "reduce" \/ Top.out = NULL
           THEN Reply("made", IF Top.op = "reduce" THEN Top.acc ELSE 0) /\ UNCHANGED arr
           ELSE Reply("made", Top.out) /\ arr' = [arr EXCEPT ![Top.out] = Given(@)]
  BY DEF HofEnd, InRuntime
<1>2. CASE Top.op = "reduce" \/ Top.out = NULL
  <2>1. reply'.kind = "made" /\ arr' = arr
    BY <1>1, <1>2 DEF Reply
  <2> QED BY <1>1, <2>1, CalledKeeps DEF Promise!Next, Promise!Reduced, Promise!Fits, Enough
<1>3. CASE ~(Top.op = "reduce" \/ Top.out = NULL)
  <2>1. CallOK(Top, arr[Top.src], arr[Top.out]) /\ Top.out \in Arrays /\ arr[Top.out] \in GoodArrays
    BY <1>1, <1>3, TopIs
  <2>2. ~arr[Top.out].mine /\ arr[Top.out].state = "live"
    BY <1>3, <2>1 DEF CallOK
  <2> DEFINE b == Given(arr[Top.out])
  <2>3. b.mine /\ b.state = "live"
    BY <2>1, <2>2 DEF Given, GoodArrays, ArrayRec
  <2>4. arr' = [arr EXCEPT ![Top.out] = b] /\ reply' = [kind |-> "made", is |-> Top.out]
    BY <1>1, <1>3 DEF Reply
  <2> HIDE DEF b
  <2>5. Promise!New(Top.out) /\ DictsBar' = DictsBar
    BY <1>1, <2>1, <2>2, <2>3, <2>4, ListComes, SameDicts DEF Held, HofInv
  <2> QED BY <1>1, <2>1, <2>4, <2>5 DEF Promise!Next, Promise!Computed, Promise!Answers, Promise!Returned, Enough
<1> QED BY <1>2, <1>3

LEMMA ListCallMaps == ASSUME HofInv, outages \in Nat, ListCall PROVE Promise!Next
<1>1. Inv /\ Sizes \subseteq Int
  BY SizesAssumption DEF HofInv
<1>2. ASSUME NEW n \in Sizes, ArrayNew(n) PROVE Promise!Next
  BY <1>1, <1>2, ArrayNewMaps
<1>3. ASSUME NEW x \in Held \cup {NULL}, NEW i \in Sizes, NEW v \in Values, ArraySet(x, i, v) PROVE Promise!Next
  BY <1>1, <1>3, ArraySetMaps
<1>4. ASSUME NEW x \in Held \cup {NULL}, NEW v \in Values, ArrayPush(x, v) PROVE Promise!Next
  BY <1>1, <1>4, ArrayPushMaps
<1>5. ASSUME NEW x \in Held \cup {NULL}, NEW i \in Sizes, ArrayRemoveAt(x, i) PROVE Promise!Next
  BY <1>1, <1>5, ArrayRemoveAtMaps
<1>6. ASSUME NEW x \in Held \cup {NULL}, ArrayPop(x) \/ ArraySort(x) \/ ArrayUnique(x) \/ ArrayFree(x)
      PROVE  Promise!Next
  BY <1>1, <1>6, ArrayPopMaps, ArraySortMaps, ArrayUniqueMaps, ArrayFreeMaps
<1>7. ASSUME NEW x \in Held \cup {NULL}, NEW op, HofBegin(op, x) PROVE Promise!Next
  BY <1>7, HofBeginMaps
<1> QED BY <1>2, <1>3, <1>4, <1>5, <1>6, <1>7 DEF ListCall

-----------------------------------------------------------------------------
(* Maps: no key twice, so what a search finds is the entry of the key.     *)
OneEach(d) == \A i, j \in Indices(d.len) : d.keys[i] = d.keys[j] => i = j
KeysDiffer == \A m \in Maps : OneEach(map[m])

PromiseInv == HofInv /\ KeysDiffer /\ outages \in Nat

LEMMA KeyFound ==
  ASSUME NEW d \in GoodMaps, NEW k, Find(d, k) # {}
  PROVE  At(d, k) \in Indices(d.len) /\ d.keys[At(d, k)] = k
<1>1. At(d, k) \in Indices(d.len) /\ d.len \in Nat
  BY FoundEntry, GoodMap
<1>2. PICK i \in Find(d, k) : \A j \in Find(d, k) : i <= j
  BY LeastFound
<1>3. At(d, k) \in Find(d, k)
  BY <1>2 DEF At
<1> QED BY <1>1, <1>3 DEF Find

LEMMA DictIs ==
  ASSUME NEW d \in GoodMaps
  PROVE  /\ DictBar(d) = [k \in DOMAIN DictBar(d) |-> DictBar(d)[k]]
         /\ \A k : k \in DOMAIN DictBar(d) <=> Find(d, k) # {}
         /\ \A k : k \in DOMAIN DictBar(d) <=> \E i \in Indices(d.len) : d.keys[i] = k
         /\ \A k \in DOMAIN DictBar(d) :
              DictBar(d)[k] = [value |-> d.values[At(d, k)], str |-> d.types[At(d, k)]]
<1>1. DOMAIN DictBar(d) = {d.keys[i] : i \in Indices(d.len)}
  BY DEF DictBar, Indices
<1>2. \A k : Find(d, k) = {i \in Indices(d.len) : d.keys[i] = k}
  BY DEF Find, Indices
<1>3. DictBar(d) = [k \in DOMAIN DictBar(d) |-> DictBar(d)[k]]
  BY DEF DictBar
<1>4. \A k \in DOMAIN DictBar(d) : DictBar(d)[k] = [value |-> d.values[At(d, k)], str |-> d.types[At(d, k)]]
  BY DEF DictBar
<1> QED BY <1>1, <1>2, <1>3, <1>4

LEMMA EntryIs ==
  ASSUME NEW d \in GoodMaps, OneEach(d), NEW i \in Indices(d.len)
  PROVE  /\ At(d, d.keys[i]) = i /\ d.keys[i] \in DOMAIN DictBar(d)
         /\ DictBar(d)[d.keys[i]] = [value |-> d.values[i], str |-> d.types[i]]
<1> DEFINE k == d.keys[i]
<1>1. i \in Find(d, k)
  BY DEF Find, Indices
<1>2. At(d, k) = i
  BY <1>1, KeyFound DEF OneEach
<1> QED BY <1>2, DictIs

LEMMA AlikeDict ==
  ASSUME NEW d \in GoodMaps, NEW e \in GoodMaps, e.len = d.len,
         \A i \in Indices(d.len) : e.keys[i] = d.keys[i] /\ e.values[i] = d.values[i] /\ e.types[i] = d.types[i]
  PROVE  /\ DictBar(e) = DictBar(d) /\ (OneEach(d) => OneEach(e))
         /\ \A k : Find(e, k) = Find(d, k)
<1>1. \A k : Find(e, k) = Find(d, k)
  BY DEF Find, Indices
<1>2. \A k : At(e, k) = At(d, k)
  BY <1>1 DEF At
<1>3. DOMAIN DictBar(e) = DOMAIN DictBar(d)
  BY <1>1, DictIs
<1>4. ASSUME NEW k \in DOMAIN DictBar(d) PROVE DictBar(e)[k] = DictBar(d)[k]
  <2>1. At(d, k) \in Indices(d.len)
    BY DictIs, KeyFound
  <2> QED BY <1>2, <1>3, <2>1, DictIs
<1>5. DictBar(e) = DictBar(d)
  <2>1. DictBar(e) = [k \in DOMAIN DictBar(e) |-> DictBar(e)[k]] /\ DictBar(d) = [k \in DOMAIN DictBar(d) |-> DictBar(d)[k]]
    BY DictIs
  <2> QED BY <1>3, <1>4, <2>1
<1>6. OneEach(d) => OneEach(e)
  BY DEF OneEach
<1> QED BY <1>1, <1>5, <1>6

(* The map f, with k bound to this value. *)
Rebound(f, k, v, str) ==
  [l \in DOMAIN f \cup {k} |-> IF l = k THEN [value |-> v, str |-> str] ELSE f[l]]

LEMMA OverwrittenDict ==
  ASSUME NEW d \in GoodMaps, OneEach(d), d.live, NEW k \in DOMAIN DictBar(d), NEW v \in Values, NEW str \in BOOLEAN,
         NEW e, e = Overwritten(d, k, v, str)
  PROVE  /\ OneEach(e) /\ e.live
         /\ DictBar(e) = Rebound(DictBar(d), k, v, str)
<1>1. e \in GoodMaps /\ Find(d, k) # {}
  BY DictIs, OverwrittenGood
<1>2. At(d, k) \in Indices(d.len) /\ d.keys[At(d, k)] = k /\ d.len \in Nat /\ d.cap \in Nat /\ d.len <= d.cap
      /\ DOMAIN d.values = Indices(d.cap) /\ DOMAIN d.types = Indices(d.cap)
  BY <1>1, KeyFound, GoodMap DEF Block
<1>3. /\ e.len = d.len /\ e.keys = d.keys /\ e.live = d.live
      /\ e.values = [d.values EXCEPT ![At(d, k)] = v] /\ e.types = [d.types EXCEPT ![At(d, k)] = str]
  BY DEF Overwritten, MapWith
<1>4. \A i \in Indices(d.len) : i \in Indices(d.cap)
  BY <1>2 DEF Indices
<1>5. \A i \in Indices(d.len) : /\ e.values[i] = IF i = At(d, k) THEN v ELSE d.values[i]
                                /\ e.types[i] = IF i = At(d, k) THEN str ELSE d.types[i]
  BY <1>2, <1>3, <1>4
<1>6. OneEach(e)
  BY <1>3 DEF OneEach
<1>7. \A l : l \in DOMAIN DictBar(e) <=> l \in DOMAIN DictBar(d)
  BY <1>1, <1>3, DictIs
<1>8. k \in DOMAIN DictBar(d)
  BY DictIs
<1>9. ASSUME NEW l \in DOMAIN DictBar(d)
      PROVE  DictBar(e)[l] = IF l = k THEN [value |-> v, str |-> str] ELSE DictBar(d)[l]
  <2>1. PICK i \in Indices(d.len) : d.keys[i] = l
    BY DictIs
  <2>2. DictBar(d)[l] = [value |-> d.values[i], str |-> d.types[i]]
    BY <2>1, EntryIs
  <2>3. DictBar(e)[l] = [value |-> e.values[i], str |-> e.types[i]]
    <3>1. i \in Indices(e.len) /\ e.keys[i] = l
      BY <1>3, <2>1
    <3> QED BY ONLY <1>1, <1>6, <3>1, EntryIs
  <2>4. l = k <=> i = At(d, k)
    BY <1>2, <2>1 DEF OneEach
  <2> QED BY <1>5, <2>2, <2>3, <2>4
<1>10. DictBar(e) = [l \in DOMAIN DictBar(e) |-> DictBar(e)[l]]
  BY <1>1, DictIs
<1>11. DOMAIN DictBar(e) = DOMAIN DictBar(d) \cup {k}
  BY <1>7, <1>8
<1>12. \A l \in DOMAIN DictBar(e) : DictBar(e)[l] = IF l = k THEN [value |-> v, str |-> str] ELSE DictBar(d)[l]
  BY <1>7, <1>9
<1>13. DictBar(e) = Rebound(DictBar(d), k, v, str)
  BY <1>10, <1>11, <1>12 DEF Rebound
<1> QED BY <1>3, <1>6, <1>13

LEMMA AppendedDict ==
  ASSUME NEW d \in GoodMaps, OneEach(d), d.live, d.len < d.cap, NEW k \in Keys, Find(d, k) = {}, NEW v \in Values,
         NEW str \in BOOLEAN, NEW e, e = Appended(d, k, v, str)
  PROVE  /\ OneEach(e) /\ e.live
         /\ DictBar(e) = Rebound(DictBar(d), k, v, str)
<1> DEFINE n == d.len
<1>1. e \in GoodMaps /\ n \in Nat /\ d.cap \in Nat /\ n < d.cap
  BY AppendedGood, GoodMap
<1>2. DOMAIN d.keys = Indices(d.cap) /\ DOMAIN d.values = Indices(d.cap) /\ DOMAIN d.types = Indices(d.cap)
  BY GoodMap DEF Block
<1>3. /\ e.len = n + 1 /\ e.live = d.live /\ e.keys = [d.keys EXCEPT ![n] = k]
      /\ e.values = [d.values EXCEPT ![n] = v] /\ e.types = [d.types EXCEPT ![n] = str]
  BY DEF Appended, MapWith
<1>4. /\ n \in Indices(d.cap) /\ n \in Indices(e.len) /\ n \notin Indices(n)
      /\ \A i \in Indices(e.len) : i \in Indices(n) \/ i = n
      /\ \A i \in Indices(n) : i \in Indices(d.cap) /\ i \in Indices(e.len) /\ i # n
  BY <1>1, <1>3 DEF Indices
<1>5. /\ e.keys[n] = k /\ e.values[n] = v /\ e.types[n] = str
      /\ \A i \in Indices(n) : e.keys[i] = d.keys[i] /\ e.values[i] = d.values[i] /\ e.types[i] = d.types[i]
  BY <1>2, <1>3, <1>4
<1>6. \A i \in Indices(n) : d.keys[i] # k
  BY DEF Find, Indices
<1>7. OneEach(e)
  BY <1>4, <1>5, <1>6 DEF OneEach
<1>8. DOMAIN DictBar(e) = DOMAIN DictBar(d) \cup {k}
  <2>1. \A l : (\E i \in Indices(e.len) : e.keys[i] = l) <=> l = k \/ \E i \in Indices(n) : d.keys[i] = l
    BY <1>4, <1>5
  <2>2. \A l : l \in DOMAIN DictBar(e) <=> \E i \in Indices(e.len) : e.keys[i] = l
    BY <1>1, DictIs
  <2>3. \A l : l \in DOMAIN DictBar(d) <=> \E i \in Indices(n) : d.keys[i] = l
    BY DictIs
  <2> QED BY <2>1, <2>2, <2>3
<1>9. ASSUME NEW i \in Indices(e.len)
      PROVE  DictBar(e)[e.keys[i]] = [value |-> e.values[i], str |-> e.types[i]]
  BY <1>1, <1>7, EntryIs
<1>10. ASSUME NEW l \in DOMAIN DictBar(d) \cup {k}
       PROVE  DictBar(e)[l] = IF l = k THEN [value |-> v, str |-> str] ELSE DictBar(d)[l]
  <2>1. CASE l = k
    BY <1>4, <1>5, <1>9, <2>1
  <2>2. CASE l # k
    <3>1. PICK i \in Indices(n) : d.keys[i] = l
      BY <2>2, DictIs
    <3>2. DictBar(d)[l] = [value |-> d.values[i], str |-> d.types[i]]
      BY <3>1, EntryIs
    <3> QED BY <1>4, <1>5, <1>9, <2>2, <3>1, <3>2
  <2> QED BY <2>1, <2>2
<1>11. DictBar(e) = [l \in DOMAIN DictBar(e) |-> DictBar(e)[l]]
  BY <1>1, DictIs
<1>12. DictBar(e) = Rebound(DictBar(d), k, v, str)
  BY <1>8, <1>10, <1>11 DEF Rebound
<1> QED BY <1>3, <1>7, <1>12

LEMMA DeletedDict ==
  ASSUME NEW d \in GoodMaps, OneEach(d), d.live, NEW i \in Indices(d.len), NEW e, e = Deleted(d, i)
  PROVE  /\ OneEach(e) /\ e.live
         /\ DictBar(e) = [l \in DOMAIN DictBar(d) \ {d.keys[i]} |-> DictBar(d)[l]]
<1> DEFINE n == d.len
           s(j) == IF i <= j THEN j + 1 ELSE j
<1>1. n \in Nat /\ d.cap \in Nat /\ n <= d.cap /\ i \in Int /\ 0 <= i /\ i < n
  BY GoodMap DEF Indices
<1>2. e \in GoodMaps
  BY <1>1, DeletedGood
<1>3. DOMAIN d.keys = Indices(d.cap) /\ DOMAIN d.values = Indices(d.cap) /\ DOMAIN d.types = Indices(d.cap)
  BY GoodMap DEF Block
<1>4. /\ e.len = n - 1 /\ e.live = d.live /\ e.keys = MovedUp(d.keys, i, n)
      /\ e.values = MovedUp(d.values, i, n) /\ e.types = MovedUp(d.types, i, n)
  BY DEF Deleted, MapWith
<1>5. \A f, j : DOMAIN f = Indices(d.cap) /\ j \in Indices(n - 1) => MovedUp(f, i, n)[j] = f[s(j)]
  BY <1>1 DEF MovedUp, Indices
<1>6. \A j \in Indices(n - 1) : e.keys[j] = d.keys[s(j)] /\ e.values[j] = d.values[s(j)] /\ e.types[j] = d.types[s(j)]
  BY <1>3, <1>4, <1>5
<1>7. \A j \in Indices(n - 1) : s(j) \in Indices(n) /\ s(j) # i
  BY <1>1 DEF Indices
<1>8. \A j, h \in Indices(n - 1) : s(j) = s(h) => j = h
  BY <1>1 DEF Indices
<1>9. \A h \in Indices(n) : h # i => \E j \in Indices(n - 1) : s(j) = h
  <2> SUFFICES ASSUME NEW h \in Indices(n), h # i PROVE \E j \in Indices(n - 1) : s(j) = h
    OBVIOUS
  <2>1. CASE h < i
    <3>1. h \in Indices(n - 1) /\ s(h) = h
      BY <1>1, <2>1 DEF Indices
    <3> QED BY <3>1
  <2>2. CASE ~(h < i)
    <3>1. h - 1 \in Indices(n - 1) /\ s(h - 1) = h
      BY <1>1, <2>2 DEF Indices
    <3> QED BY <3>1
  <2> QED BY <2>1, <2>2
<1> HIDE DEF s
<1>10. OneEach(e)
  BY <1>4, <1>6, <1>7, <1>8 DEF OneEach
<1>11. DOMAIN DictBar(e) = DOMAIN DictBar(d) \ {d.keys[i]}
  <2>1. ASSUME NEW l \in DOMAIN DictBar(e) PROVE l \in DOMAIN DictBar(d) \ {d.keys[i]}
    <3>1. PICK j \in Indices(n - 1) : e.keys[j] = l
      BY <1>2, <1>4, DictIs
    <3> QED BY <1>6, <1>7, <3>1, DictIs DEF OneEach
  <2>2. ASSUME NEW l \in DOMAIN DictBar(d) \ {d.keys[i]} PROVE l \in DOMAIN DictBar(e)
    <3>1. PICK h \in Indices(n) : d.keys[h] = l
      BY DictIs
    <3>2. PICK j \in Indices(n - 1) : s(j) = h
      BY <1>9, <2>2, <3>1
    <3> QED BY <1>2, <1>4, <1>6, <3>1, <3>2, DictIs
  <2> QED BY <2>1, <2>2
<1>12. ASSUME NEW l \in DOMAIN DictBar(e) PROVE DictBar(e)[l] = DictBar(d)[l]
  <2>1. PICK j \in Indices(n - 1) : e.keys[j] = l
    BY <1>2, <1>4, DictIs
  <2>2. DictBar(e)[l] = [value |-> e.values[j], str |-> e.types[j]]
    BY <1>2, <1>4, <1>10, <2>1, EntryIs
  <2>3. s(j) \in Indices(n) /\ d.keys[s(j)] = l
    BY <1>6, <1>7, <2>1
  <2>4. DictBar(d)[l] = [value |-> d.values[s(j)], str |-> d.types[s(j)]]
    BY <2>3, EntryIs
  <2> QED BY <1>6, <2>1, <2>2, <2>4
<1>13. DictBar(e) = [l \in DOMAIN DictBar(e) |-> DictBar(e)[l]]
  BY <1>2, DictIs
<1> QED BY <1>4, <1>10, <1>11, <1>12, <1>13

-----------------------------------------------------------------------------
(* Calls over maps keep the promise.                                       *)
LEMMA DictsAre ==
  /\ DOMAIN DictsBar = Existing /\ \A m \in Existing : DictsBar[m] = DictBar(map[m])
  /\ DOMAIN DictsBar' = Existing' /\ \A m \in Existing' : DictsBar'[m] = DictBar(map'[m])
  /\ DictsBar' = [m \in Existing' |-> DictBar(map'[m])]
BY DEF DictsBar

LEMMA MapBinds ==
  ASSUME Inv, NEW m \in Maps, NEW d, d.live, Bind(m, d)
  PROVE  Promise!Binds(m, DictBar(d)) /\ ListsBar' = ListsBar
<1>1. map'[m] = d /\ \A n \in Maps \ {m} : map'[n] = map[n]
  BY DEF Bind, Inv
<1>2. Existing' = Existing \cup {m}
  BY <1>1 DEF Existing
<1>3. ListsBar' = ListsBar
  BY SameLists DEF Bind
<1>4. \A n \in Existing \cup {m} : DictBar(map'[n]) = IF n = m THEN DictBar(d) ELSE DictsBar[n]
  BY <1>1, DictsAre DEF Existing
<1>5. DictsBar' = [n \in DOMAIN DictsBar \cup {m} |-> IF n = m THEN DictBar(d) ELSE DictsBar[n]]
  BY <1>2, <1>4, DictsAre
<1> QED BY <1>3, <1>5 DEF Promise!Binds

LEMMA BindKeeps ==
  ASSUME Inv, KeysDiffer, NEW m, NEW d, OneEach(d), Bind(m, d)
  PROVE  KeysDiffer'
BY DEF Bind, KeysDiffer, Inv, OneEach

LEMMA SameMapsKeep == ASSUME KeysDiffer, map' = map PROVE KeysDiffer'
BY DEF KeysDiffer

LEMMA LackingKeeps ==
  ASSUME outages \in Nat PROVE (Enough => outages' \in Nat) /\ \A n \in Nat : Lacking(n) => outages' \in Nat
BY DEF Enough, Lacking

LEMMA ExistingIs ==
  ASSUME Inv, KeysDiffer, NEW m \in Existing \cup {NULL}, m # NULL
  PROVE  /\ m \in Maps /\ map[m] \in GoodMaps /\ map[m].live /\ OneEach(map[m])
         /\ m \in DOMAIN DictsBar /\ DictsBar[m] = DictBar(map[m])
BY DictsAre DEF Existing, Inv, KeysDiffer

LEMMA EmptyDict ==
  ASSUME NEW n \in Nat PROVE DictBar(EmptyMap(n)) = << >> /\ EmptyMap(n).live /\ OneEach(EmptyMap(n))
<1>1. EmptyMap(n).len = 0 /\ EmptyMap(n).live
  BY DEF EmptyMap
<1>2. Indices(0) = {}
  BY DEF Indices
<1>3. DOMAIN DictBar(EmptyMap(n)) = {}
  BY <1>1, <1>2, EmptyMapGood, DictIs
<1>4. DictBar(EmptyMap(n)) = [k \in {} |-> DictBar(EmptyMap(n))[k]]
  BY <1>3, EmptyMapGood, DictIs
<1>5. \A f : [k \in {} |-> f[k]] = << >>
  OBVIOUS
<1> QED BY <1>1, <1>2, <1>4, <1>5 DEF OneEach

LEMMA MapNewMaps == ASSUME Inv, KeysDiffer, NEW n \in Int, MapNew(n) PROVE Promise!Next /\ KeysDiffer'
<1>1. CASE Ignored \/ NoMemory
  BY <1>1, IgnoredMaps, NoMemoryMaps, SameMapsKeep DEF Ignored, NoMemory, NoChange
<1>2. ASSUME n >= 0, NEW m \in Maps \ Existing, Enough, Bind(m, EmptyMap(n)), Reply("map", m)
      PROVE  Promise!Next /\ KeysDiffer'
  <2>1. n \in Nat
    BY <1>2
  <2>2. DictBar(EmptyMap(n)) = << >> /\ EmptyMap(n).live /\ OneEach(EmptyMap(n))
    BY <2>1, EmptyDict
  <2>3. Promise!Binds(m, DictBar(EmptyMap(n))) /\ ListsBar' = ListsBar
    BY <1>2, <2>2, MapBinds
  <2>4. Promise!Binds(m, << >>)
    BY <2>2, <2>3
  <2>5. m \notin DOMAIN DictsBar /\ m \in Arrays \cup Maps
    BY DictsAre
  <2>6. reply' = Promise!Returned("map", m)
    BY <1>2 DEF Reply, Promise!Returned
  <2>7. Promise!Next
    BY <1>2, <2>3, <2>4, <2>5, <2>6 DEF Promise!Next, Promise!MapCall, Promise!NewMap, Promise!Answers, Promise!Fits, Enough
  <2> QED BY <1>2, <2>2, <2>7, BindKeeps
<1> QED BY <1>1, <1>2 DEF MapNew

(* A key is bound to a value: m becomes d. *)
LEMMA PutMaps ==
  ASSUME Inv, NEW m \in Existing, NEW k \in Keys, NEW v \in Values, NEW str \in BOOLEAN, NEW d, d.live,
         DictBar(d) = Rebound(DictsBar[m], k, v, str),
         Enough, Bind(m, d), Reply("value", v)
  PROVE  Promise!Next
<1>1. m \in Maps /\ m \in DOMAIN DictsBar
  BY DictsAre DEF Existing
<1>2. Promise!Binds(m, DictBar(d)) /\ ListsBar' = ListsBar
  BY <1>1, MapBinds
<1>3. Promise!Binds(m, Rebound(DictsBar[m], k, v, str))
  BY <1>2
<1>4. Promise!Put(m)
  BY <1>3 DEF Promise!Put, Reply, Promise!Answers, Promise!Returned, Rebound
<1> QED BY <1>1, <1>2, <1>4 DEF Promise!Next, Promise!MapCall, Promise!Fits, Enough

LEMMA MapSetMaps ==
  ASSUME Inv, KeysDiffer, NEW m \in Existing \cup {NULL}, NEW k \in Keys, NEW v \in Values, NEW str \in BOOLEAN,
         MapSet(m, k, v, str)
  PROVE  Promise!Next /\ KeysDiffer'
<1> DEFINE d == map[m]
<1>1. CASE m = NULL
  BY <1>1, IgnoredMaps, SameMapsKeep DEF MapSet, Ignored, NoChange
<1> SUFFICES ASSUME m # NULL PROVE Promise!Next /\ KeysDiffer'
  BY <1>1
<1>2. m \in Existing /\ m \in Maps /\ d \in GoodMaps /\ d.live /\ OneEach(d) /\ DictsBar[m] = DictBar(d)
  BY ExistingIs
<1>3. \/ Find(d, k) # {} /\ Enough /\ Bind(m, Overwritten(d, k, v, str)) /\ Reply("value", v)
      \/ Find(d, k) = {} /\ AppendKey(m, d, k, v, str)
      \/ GrowthFails(m, d)
  BY DEF MapSet
<1> HIDE DEF d
<1>4. CASE Find(d, k) # {} /\ Enough /\ Bind(m, Overwritten(d, k, v, str)) /\ Reply("value", v)
  <2>1. PICK e : e = Overwritten(d, k, v, str)
    OBVIOUS
  <2>2. /\ OneEach(e) /\ e.live
        /\ DictBar(e) = Rebound(DictsBar[m], k, v, str)
    <3>1. /\ d \in GoodMaps /\ OneEach(d) /\ k \in DOMAIN DictBar(d) /\ DictsBar[m] = DictBar(d) /\ d.live
      BY <1>2, <1>4, DictIs
    <3>2. /\ OneEach(e) /\ e.live
          /\ DictBar(e) = Rebound(DictBar(d), k, v, str)
      BY <2>1, <3>1, OverwrittenDict
    <3> QED BY <3>1, <3>2
  <2> QED BY <1>2, <1>4, <2>1, <2>2, PutMaps, BindKeeps
<1>5. CASE Find(d, k) = {} /\ AppendKey(m, d, k, v, str)
  <2> DEFINE g == IF d.len >= d.cap THEN GrownMap(d) ELSE d
  <2>1. /\ g \in GoodMaps /\ g.len < g.cap /\ DictBar(g) = DictBar(d) /\ OneEach(g) /\ Find(g, k) = {} /\ g.live
    <3>1. d.len \in Nat /\ d.cap \in Nat /\ d.len <= d.cap
      BY <1>2, GoodMap
    <3>2. CASE d.len >= d.cap
      <4>1. GrownMap(d) \in GoodMaps /\ GrownMap(d).len = d.len /\ GrownMap(d).cap > d.cap
        BY <1>2, GrownMapGood
      <4>2. GrownMap(d).cap \in Nat /\ GrownMap(d).live
        BY <1>2, <4>1, GoodMap DEF GrownMap, MapWith
      <4>3. \A i \in Indices(d.len) : /\ GrownMap(d).keys[i] = d.keys[i] /\ GrownMap(d).values[i] = d.values[i]
                                       /\ GrownMap(d).types[i] = d.types[i]
        <5>1. Doubled(d.cap) \in Nat /\ Doubled(d.cap) > d.cap
          BY <3>1 DEF Doubled
        <5>2. \A f : \A i \in Indices(d.len) : Longer(f, d.cap, Doubled(d.cap))[i] = f[i]
          BY <3>1, <5>1 DEF Longer, Indices
        <5> QED BY <5>2 DEF GrownMap, MapWith
      <4> QED BY <1>2, <1>5, <3>1, <3>2, <4>1, <4>2, <4>3, AlikeDict
    <3>3. CASE ~(d.len >= d.cap)
      BY <1>2, <1>5, <3>1, <3>3
    <3> QED BY <3>2, <3>3
  <2> HIDE DEF g
  <2>2. PICK e : e = Appended(g, k, v, str)
    OBVIOUS
  <2>3. /\ OneEach(e) /\ e.live
        /\ DictBar(e) = Rebound(DictsBar[m], k, v, str)
    BY <1>2, <2>1, <2>2, AppendedDict
  <2>4. Enough /\ Bind(m, e) /\ Reply("value", v)
    BY <1>5, <2>2 DEF AppendKey, g
  <2> QED BY <1>2, <2>3, <2>4, PutMaps, BindKeeps
<1>6. CASE GrowthFails(m, d)
  <2>1. PICK failing \in SUBSET Blocks \ {{}} : Bind(m, HalfGrown(d, failing))
    BY <1>6 DEF GrowthFails
  <2>2. PICK e : e = HalfGrown(d, failing)
    OBVIOUS
  <2>3. e \in GoodMaps
    BY <1>2, <2>2, HalfGrownGood
  <2>4. e.len = d.len /\ e.keys = d.keys /\ e.values = d.values /\ e.types = d.types /\ e.live = d.live
    <3>1. d \in MapRec
      BY <1>2, GoodMap
    <3> QED BY <2>2, <3>1 DEF HalfGrown, MapRec
  <2>5. DictBar(e) = DictBar(d) /\ OneEach(e)
    BY <1>2, <2>3, <2>4, AlikeDict
  <2>6. Bind(m, e) /\ Lacking(1) /\ Reply("no memory", 0)
    BY <1>6, <2>1, <2>2 DEF GrowthFails
  <2>7. Promise!Binds(m, DictBar(d)) /\ ListsBar' = ListsBar
    <3>1. Promise!Binds(m, DictBar(e)) /\ ListsBar' = ListsBar
      BY <1>2, <2>4, <2>6, MapBinds
    <3> QED BY <2>5, <3>1
  <2>8. DictsBar' = DictsBar
    <3>1. m \in DOMAIN DictsBar
      BY <1>2, DictsAre
    <3>2. DictsBar = [n \in DOMAIN DictsBar |-> DictsBar[n]]
      BY DEF DictsBar
    <3> QED BY <1>2, <2>7, <3>1, <3>2 DEF Promise!Binds
  <2>9. Promise!Next
    BY <2>6, <2>7, <2>8 DEF Lacking, Reply, Promise!Next, Promise!Fails, Promise!NoRoom, Promise!RunsOut,
         Promise!Answers, Promise!Returned
  <2> QED BY <2>5, <2>6, <2>9, BindKeeps
<1> QED BY <1>3, <1>4, <1>5, <1>6

LEMMA MapGetMaps ==
  ASSUME Inv, KeysDiffer, NEW m \in Existing \cup {NULL}, NEW k, MapGet(m, k)
  PROVE  Promise!Next /\ KeysDiffer'
<1>1. CASE m = NULL \/ Find(map[m], k) = {}
  BY <1>1, ThrowMaps, SameMapsKeep DEF MapGet, Throw
<1>2. CASE ~(m = NULL \/ Find(map[m], k) = {})
  <2>1. /\ m \in Maps /\ map[m] \in GoodMaps /\ OneEach(map[m])
        /\ m \in DOMAIN DictsBar /\ DictsBar[m] = DictBar(map[m])
    BY <1>2, ExistingIs
  <2>2. /\ k \in DOMAIN DictsBar[m]
        /\ DictsBar[m][k] = [value |-> map[m].values[At(map[m], k)], str |-> map[m].types[At(map[m], k)]]
    BY <1>2, <2>1, DictIs
  <2>3. Enough /\ Reply("value", DictsBar[m][k].value) /\ NoChange
    BY <1>2, <2>2 DEF MapGet
  <2>4. ListsBar' = ListsBar /\ DictsBar' = DictsBar /\ KeysDiffer'
    BY <2>3, CalledKeeps, SameMapsKeep DEF NoChange
  <2> QED BY <2>1, <2>2, <2>3, <2>4 DEF Promise!Next, Promise!MapCall, Promise!Finds, Promise!Answers, Promise!Returned,
                                        Promise!Fits, Enough, Reply
<1> QED BY <1>1, <1>2

LEMMA MapDeleteMaps ==
  ASSUME Inv, KeysDiffer, NEW m \in Existing \cup {NULL}, NEW k, MapDelete(m, k)
  PROVE  Promise!Next /\ KeysDiffer'
<1>1. CASE m = NULL \/ Find(map[m], k) = {}
  BY <1>1, ThrowMaps, SameMapsKeep DEF MapDelete, Throw
<1>2. CASE ~(m = NULL \/ Find(map[m], k) = {})
  <2> DEFINE d == map[m]
             i == At(d, k)
             e == Deleted(d, i)
  <2>1. /\ m \in Maps /\ d \in GoodMaps /\ OneEach(d) /\ d.live
        /\ m \in DOMAIN DictsBar /\ DictsBar[m] = DictBar(d)
    BY <1>2, ExistingIs
  <2>2. Enough /\ Bind(m, e) /\ Reply("value", d.values[i])
    BY <1>2 DEF MapDelete
  <2>3. e = Deleted(d, i) /\ i = At(d, k) /\ Find(d, k) # {}
    BY <1>2
  <2> HIDE DEF d, i, e
  <2>4. i \in Indices(d.len) /\ d.keys[i] = k
    BY <2>1, <2>3, KeyFound
  <2>5. k \in DOMAIN DictsBar[m] /\ DictsBar[m][k].value = d.values[i]
    <3>1. k \in DOMAIN DictBar(d) /\ DictBar(d)[k] = [value |-> d.values[i], str |-> d.types[i]]
      BY <2>1, <2>3, DictIs
    <3> QED BY <2>1, <3>1
  <2>6. /\ OneEach(e) /\ e.live /\ DictBar(e) = [l \in DOMAIN DictsBar[m] \ {k} |-> DictsBar[m][l]]
    <3>1. OneEach(e) /\ e.live /\ DictBar(e) = [l \in DOMAIN DictBar(d) \ {d.keys[i]} |-> DictBar(d)[l]]
      BY <2>1, <2>3, <2>4, DeletedDict
    <3> QED BY <2>1, <2>4, <3>1
  <2>7. Promise!Binds(m, DictBar(e)) /\ ListsBar' = ListsBar
    BY <2>1, <2>2, <2>6, MapBinds
  <2>8. Promise!Binds(m, [l \in DOMAIN DictsBar[m] \ {k} |-> DictsBar[m][l]])
    BY <2>6, <2>7
  <2>9. reply' = Promise!Returned("value", DictsBar[m][k].value)
    BY <2>2, <2>5 DEF Reply, Promise!Returned
  <2>10. Promise!Delete(m)
    BY <2>5, <2>8, <2>9 DEF Promise!Delete, Promise!Answers
  <2>11. Promise!Next
    BY <2>1, <2>2, <2>7, <2>10 DEF Promise!Next, Promise!MapCall, Promise!Fits, Enough
  <2> QED BY <2>2, <2>6, <2>11, BindKeeps
<1> QED BY <1>1, <1>2

LEMMA MapValuesMaps ==
  ASSUME Inv, KeysDiffer, NEW m \in Existing \cup {NULL}, MapValues(m)
  PROVE  Promise!Next /\ KeysDiffer'
<1>1. CASE Ignored \/ NoMemory
  BY <1>1, IgnoredMaps, NoMemoryMaps, SameMapsKeep DEF Ignored, NoMemory, NoChange
<1>2. CASE m # NULL /\ Enough /\ Adds(Listed(map[m].len, map[m].values))
  <2> DEFINE d == map[m]
             n == d.len
             b == Listed(n, d.values)
  <2>1. /\ m \in Maps /\ d \in GoodMaps /\ OneEach(d) /\ m \in DOMAIN DictsBar /\ DictsBar[m] = DictBar(d) /\ n \in Nat
    BY <1>2, ExistingIs, GoodMap
  <2>2. b.mine /\ b.state = "live" /\ b.len = n /\ \A i \in Indices(n) : b.data[i] = d.values[i]
    BY DEF Listed, Zeroed, ArrayWith
  <2>3. Adds(b)
    BY <1>2
  <2> HIDE DEF d, b
  <2>4. /\ Promise!New(Fresh) /\ ListsBar'[Fresh] = Contents(b) /\ DictsBar' = DictsBar
        /\ Fresh \in Arrays /\ reply' = [kind |-> "list", is |-> Fresh]
    BY <2>2, <2>3, FreshIsNew
  <2>5. DOMAIN Contents(b) = 1..n /\ \A i \in 1..n : i - 1 \in Indices(n) /\ Contents(b)[i] = d.values[i - 1]
    BY <2>1, <2>2 DEF Contents, Indices
  <2>6. PICK f : f = [i \in 1..n |-> d.keys[i - 1]]
    OBVIOUS
  <2> HIDE DEF n
  <2>7. ASSUME NEW i \in 1..n PROVE f[i] \in DOMAIN DictBar(d) /\ Contents(b)[i] = DictBar(d)[f[i]].value
    <3>1. i - 1 \in Indices(n) /\ f[i] = d.keys[i - 1] /\ Contents(b)[i] = d.values[i - 1]
      BY <2>5, <2>6
    <3>2. /\ d.keys[i - 1] \in DOMAIN DictBar(d)
          /\ DictBar(d)[d.keys[i - 1]] = [value |-> d.values[i - 1], str |-> d.types[i - 1]]
      BY <2>1, <3>1, EntryIs DEF n
    <3> QED BY <3>1, <3>2
  <2>8. f \in [1..n -> DOMAIN DictBar(d)]
    BY <2>6, <2>7
  <2>9. \A i, j \in 1..n : f[i] = f[j] => i = j
    <3> SUFFICES ASSUME NEW i \in 1..n, NEW j \in 1..n, f[i] = f[j] PROVE i = j
      OBVIOUS
    <3>1. i - 1 = j - 1
      BY <2>1, <2>5, <2>6 DEF OneEach, n
    <3> QED BY <2>1, <3>1
  <2>10. \A k \in DOMAIN DictBar(d) : \E i \in 1..n : f[i] = k
    <3> SUFFICES ASSUME NEW k \in DOMAIN DictBar(d) PROVE \E i \in 1..n : f[i] = k
      OBVIOUS
    <3>1. PICK j \in Indices(n) : d.keys[j] = k
      BY <2>1, DictIs DEF n
    <3>2. PICK i : i = j + 1
      OBVIOUS
    <3>3. i \in 1..n /\ i - 1 = j
      BY <2>1, <3>2 DEF Indices
    <3> QED BY <2>6, <3>1, <3>3
  <2>11. f \in Promise!Bijection(1..n, DOMAIN DictBar(d))
    <3>1. f \in Promise!Injection(1..n, DOMAIN DictBar(d))
      BY <2>8, <2>9 DEF Promise!Injection, Promise!IsInjective
    <3>2. f \in Promise!Surjection(1..n, DOMAIN DictBar(d))
      BY <2>8, <2>10 DEF Promise!Surjection
    <3> QED BY <3>1, <3>2 DEF Promise!Bijection
  <2>12. \E g \in Promise!Bijection(DOMAIN ListsBar'[Fresh], DOMAIN DictsBar[m]) :
           \A i \in DOMAIN g : ListsBar'[Fresh][i] = DictsBar[m][g[i]].value
    <3>1. DOMAIN f = 1..n
      BY <2>6
    <3> QED BY <2>1, <2>4, <2>5, <2>7, <2>11, <3>1
  <2>13. Promise!Listed
    BY <1>2, <2>1, <2>4, <2>12 DEF Promise!Listed, Promise!Fits, Promise!Answers, Promise!Returned, Enough
  <2>14. map' = map
    BY <2>3 DEF Adds
  <2> QED BY <2>13, <2>14, SameMapsKeep DEF Promise!Next
<1> QED BY <1>1, <1>2 DEF MapValues

LEMMA MapCallMaps ==
  ASSUME Inv, KeysDiffer, NEW m \in Existing \cup {NULL}, MapCall(m)
  PROVE  [Promise!Next]_(Promise!vars) /\ KeysDiffer'
<1>1. CASE Astray
  <2>1. ListsBar' = ListsBar /\ DictsBar' = DictsBar /\ KeysDiffer'
    BY <1>1, CalledKeeps, SameMapsKeep DEF Astray
  <2> QED BY <1>1, <2>1 DEF Astray, Promise!vars
<1>2. ASSUME NEW k \in Keys, NEW v \in Values, NEW str \in BOOLEAN, MapSet(m, k, v, str)
      PROVE  Promise!Next /\ KeysDiffer'
  BY <1>2, MapSetMaps
<1>3. ASSUME NEW k \in Keys, MapGet(m, k) \/ MapDelete(m, k) PROVE Promise!Next /\ KeysDiffer'
  BY <1>3, MapGetMaps, MapDeleteMaps
<1>4. CASE MapValues(m)
  BY <1>4, MapValuesMaps
<1>5. \/ Astray
      \/ \E k \in Keys, v \in Values, str \in BOOLEAN : MapSet(m, k, v, str)
      \/ \E k \in Keys : MapGet(m, k) \/ MapDelete(m, k)
      \/ MapValues(m)
  BY DEF MapCall, Safely
<1> QED BY <1>1, <1>2, <1>3, <1>4, <1>5

LEMMA ProgramCallMaps ==
  ASSUME PromiseInv, ProgramCall
  PROVE  [Promise!Next]_(Promise!vars) /\ KeysDiffer'
<1>1. Inv /\ HofInv /\ KeysDiffer /\ outages \in Nat
  BY DEF PromiseInv, HofInv
<1>2. CASE ListCall
  <2>1. map' = map
    BY <1>2 DEF ListCall, ArrayNew, ArraySet, ArrayPush, ArrayPop, ArrayRemoveAt, ArraySort, ArrayUnique, ArrayFree,
         HofBegin, Ignored, NoMemory, Adds, NoChange, Update, Throw
  <2> QED BY <1>1, <1>2, <2>1, ListCallMaps, SameMapsKeep
<1>3. ASSUME NEW n \in Sizes, MapNew(n) PROVE Promise!Next /\ KeysDiffer'
  BY <1>1, <1>3, MapNewMaps, SizesAssumption
<1>4. ASSUME NEW m \in Existing \cup {NULL}, MapCall(m) PROVE [Promise!Next]_(Promise!vars) /\ KeysDiffer'
  BY <1>1, <1>4, MapCallMaps
<1> QED BY <1>2, <1>3, <1>4 DEF ProgramCall

(* Failed allocations are counted.                                         *)
LEMMA OutagesCounted ==
  ASSUME PromiseInv, [CollectionNext]_collectionVars
  PROVE  outages' \in Nat
<1>1. Inv /\ HofInv /\ outages \in Nat
  BY DEF PromiseInv, HofInv
<1>2. Enough \/ Lacking(1) => outages' \in Nat
  BY <1>1, LackingKeeps
<1>3. Ignored \/ NoMemory => outages' \in Nat
  BY <1>2 DEF Ignored, NoMemory
<1>4. ASSUME NEW error, Throw(error) PROVE outages' \in Nat
  BY <1>2, <1>4 DEF Throw
<1>5. ASSUME NEW n, ArrayNew(n) PROVE outages' \in Nat
  BY <1>2, <1>3, <1>5 DEF ArrayNew
<1>6. ASSUME NEW x \in Held \cup {NULL}, ArrayUnique(x) PROVE outages' \in Nat
  <2>1. ASSUME x # NULL, NEW K \in SUBSET Indices(arr[x].len), Lacking(Cardinality(Losses(arr[x], K)))
        PROVE  outages' \in Nat
    <3>1. arr[x].len \in Nat
      BY <1>1, <2>1, HeldIs, GoodArray
    <3>2. IsFiniteSet(Indices(arr[x].len))
      BY <3>1, FS_Interval DEF Indices
    <3>3. Losses(arr[x], K) \subseteq Indices(arr[x].len)
      BY DEF Losses
    <3>4. IsFiniteSet(Losses(arr[x], K))
      BY <3>2, <3>3, FS_Subset
    <3> QED BY <1>1, <2>1, <3>4, FS_CardinalityType, LackingKeeps
  <2> QED BY <1>2, <1>3, <1>6, <2>1 DEF ArrayUnique
<1>7. CASE ListCall
  <2>1. ASSUME NEW x \in Held \cup {NULL}, NEW i, NEW v, ArraySet(x, i, v) \/ ArrayPush(x, v) PROVE outages' \in Nat
    BY <1>2, <1>3, <2>1 DEF ArraySet, ArrayPush
  <2>2. ASSUME NEW x \in Held \cup {NULL}, NEW i, ArrayPop(x) \/ ArrayRemoveAt(x, i) PROVE outages' \in Nat
    BY <1>2, <1>4, <2>2 DEF ArrayPop, ArrayRemoveAt
  <2>3. ASSUME NEW x \in Held \cup {NULL}, ArraySort(x) \/ ArrayFree(x) PROVE outages' \in Nat
    BY <1>2, <1>3, <2>3 DEF ArraySort, ArrayFree
  <2>4. ASSUME NEW x \in Held \cup {NULL}, NEW op, HofBegin(op, x) PROVE outages' \in Nat
    BY <1>2, <1>5, <2>4 DEF HofBegin
  <2> QED BY <1>5, <1>6, <1>7, <2>1, <2>2, <2>3, <2>4 DEF ListCall
<1>8. ASSUME NEW n, MapNew(n) PROVE outages' \in Nat
  BY <1>2, <1>3, <1>8 DEF MapNew
<1>9. ASSUME NEW m \in Existing \cup {NULL}, MapCall(m) PROVE outages' \in Nat
  <2>1. CASE Astray
    BY <1>1, <2>1 DEF Astray
  <2>2. ASSUME NEW k, NEW v, NEW str, MapSet(m, k, v, str) PROVE outages' \in Nat
    BY <1>2, <1>3, <2>2 DEF MapSet, AppendKey, GrowthFails
  <2>3. ASSUME NEW k, MapGet(m, k) \/ MapDelete(m, k) PROVE outages' \in Nat
    BY <1>2, <1>4, <2>3 DEF MapGet, MapDelete
  <2>4. CASE MapValues(m)
    BY <1>2, <1>3, <2>4 DEF MapValues
  <2> QED BY <1>9, <2>1, <2>2, <2>3, <2>4 DEF MapCall, Safely
<1>10. CASE ProgramCall
  BY <1>7, <1>8, <1>9, <1>10 DEF ProgramCall
<1>11. CASE UseFreed \/ UNCHANGED collectionVars
  BY <1>1, <1>11 DEF UseFreed, collectionVars
<1>12. CASE HofRound \/ HofEnd \/ HofThrows
  BY <1>2, <1>12 DEF HofRound, HofEnd, HofThrows
<1>13. ASSUME NEW r \in Values, HofReturn(r) PROVE outages' \in Nat
  BY <1>2, <1>13 DEF HofReturn
<1> QED BY <1>10, <1>11, <1>12, <1>13 DEF CollectionNext

LEMMA StepMaps ==
  ASSUME PromiseInv, [CollectionNext]_collectionVars
  PROVE  [Promise!Next]_(Promise!vars) /\ PromiseInv'
<1>1. HofInv /\ KeysDiffer
  BY DEF PromiseInv
<1>2. HofInv' /\ outages' \in Nat
  BY <1>1, StepKeepsCalls, OutagesCounted
<1>3. [Promise!Next]_(Promise!vars) /\ KeysDiffer'
  <2>1. CASE ProgramCall
    BY <2>1, ProgramCallMaps
  <2>2. CASE UseFreed \/ UNCHANGED collectionVars
    <3>1. arr' = arr /\ map' = map /\ reply' = reply /\ outages' = outages
      BY <2>2 DEF UseFreed, collectionVars
    <3>2. ListsBar' = ListsBar /\ DictsBar' = DictsBar /\ KeysDiffer'
      BY <1>1, <3>1, CalledKeeps, SameMapsKeep
    <3> QED BY <3>1, <3>2 DEF Promise!vars
  <2>3. CASE HofRound \/ HofEnd \/ HofThrows
    <3>1. map' = map
      BY <2>3 DEF HofRound, HofEnd, HofThrows, InRuntime
    <3> QED BY <1>1, <2>3, <3>1, HofRoundMaps, HofEndMaps, HofThrowsMaps, SameMapsKeep
  <2>4. ASSUME NEW r \in Values, HofReturn(r) PROVE Promise!Next /\ KeysDiffer'
    <3>1. map' = map
      BY <2>4 DEF HofReturn
    <3> QED BY <1>1, <2>4, <3>1, HofReturnMaps, SameMapsKeep
  <2> QED BY <2>1, <2>2, <2>3, <2>4 DEF CollectionNext
<1> QED BY <1>2, <1>3 DEF PromiseInv

LEMMA InitMaps == CollectionInit => Promise!Init /\ PromiseInv
<1> SUFFICES ASSUME CollectionInit PROVE Promise!Init /\ PromiseInv
  OBVIOUS
<1>1. HofInv
  BY InitGood DEF CollectionInit, HofInv, CallsOK, OutsDiffer
<1>2. KeysDiffer
  <2>1. Indices(0) = {}
    BY DEF Indices
  <2> QED BY <2>1 DEF CollectionInit, KeysDiffer, OneEach, NoMap
<1>3. Held = {} /\ Existing = {}
  BY DEF CollectionInit, Held, Existing, Unused, NoMap
<1>4. ListsBar = << >> /\ DictsBar = << >>
  BY <1>3 DEF ListsBar, DictsBar
<1>5. Promise!Init
  BY <1>4 DEF CollectionInit, Promise!Init, Promise!Returned
<1> QED BY <1>1, <1>2, <1>5 DEF CollectionInit, PromiseInv

(* For any number of lists, maps, keys, values, failed allocations and     *)
(* calls within calls: what the program sees of the runtime's blocks,      *)
(* lengths and capacities behaves as sequences and functions from keys to  *)
(* values do; no call over one list or map shows in another, and a call    *)
(* that finds no memory or throws leaves all of them as they were.         *)
THEOREM PromiseKept == CollectionSpec => KeepsPromise
<1>1. CollectionInit => Promise!Init /\ PromiseInv
  BY InitMaps
<1>2. PromiseInv /\ [CollectionNext]_collectionVars => [Promise!Next]_(Promise!vars) /\ PromiseInv'
  BY StepMaps
<1> QED BY <1>1, <1>2, PTL DEF CollectionSpec, KeepsPromise, Promise!Spec
-----------------------------------------------------------------------------
(* The terminal.                                                           *)
KeyNames == {"q", "escape", "up", "left"}
ByteNames == {"q", "ESC", "[", "A", "D", "none"}
ByteRec == [byte : ByteNames, of : Nat]

(* Which byte of its key a byte is, and whether it is the last one. *)
Place(b) == IF b.byte = "[" THEN 2 ELSE IF b.byte \in {"A", "D"} THEN 3 ELSE 1
EndsKey(keys, b) == Place(b) = Len(Bytes[keys[b.of]])
ByteOfKey(keys, b) ==
  /\ b.of \in 1..Len(keys)
  /\ Place(b) <= Len(Bytes[keys[b.of]]) /\ Bytes[keys[b.of]][Place(b)] = b.byte

(* b is the byte the terminal sends after a. *)
Succeeds(keys, a, b) ==
  IF EndsKey(keys, a) THEN b.of = a.of + 1 /\ Place(b) = 1
  ELSE b.of = a.of /\ Place(b) = Place(a) + 1

(* The bytes s are the last ones sent, or to be sent, of the keys typed. *)
Tailing(keys, s) ==
  /\ \A i \in 1..Len(s) : ByteOfKey(keys, s[i])
  /\ \A i \in 1..(Len(s) - 1) : Succeeds(keys, s[i], s[i + 1])
  /\ s # << >> => EndsKey(keys, s[Len(s)]) /\ s[Len(s)].of = Len(keys)

(* They begin with key n + 1; or behind the byte b. *)
After(keys, n, s) == IF s = << >> THEN n = Len(keys) ELSE s[1].of = n + 1 /\ Place(s[1]) = 1
Behind(keys, b, s) ==
  IF s = << >> THEN EndsKey(keys, b) /\ b.of = Len(keys) ELSE Succeeds(keys, b, s[1])

(* What a concatenation holds. *)
LEMMA Catenated ==
  ASSUME NEW S, NEW a \in Seq(S), NEW b \in Seq(S)
  PROVE  /\ a \o b \in Seq(S) /\ Len(a \o b) = Len(a) + Len(b) /\ Len(a) \in Nat /\ Len(b) \in Nat
         /\ \A i \in 1..Len(a) : (a \o b)[i] = a[i]
         /\ \A i \in 1..Len(b) : (a \o b)[Len(a) + i] = b[i]
<1>1. /\ a \o b \in Seq(S) /\ Len(a \o b) = Len(a) + Len(b) /\ Len(a) \in Nat /\ Len(b) \in Nat
      /\ \A i \in 1..(Len(a) + Len(b)) : (a \o b)[i] = IF i <= Len(a) THEN a[i] ELSE b[i - Len(a)]
  BY ConcatProperties, LenProperties
<1> DEFINE n == Len(a)
           m == Len(b)
           c == a \o b
<1>2. c \in Seq(S) /\ Len(c) = n + m /\ n \in Nat /\ m \in Nat /\ \A i \in 1..(n + m) : c[i] = IF i <= n THEN a[i] ELSE b[i - n]
  BY <1>1
<1> HIDE DEF n, m, c
<1>3. \A i \in 1..n : c[i] = a[i]
  BY <1>2
<1>4. ASSUME NEW i \in 1..m PROVE c[n + i] = b[i]
  <2>1. n + i \in 1..(n + m) /\ ~(n + i <= n) /\ (n + i) - n = i
    BY <1>2
  <2> QED BY <1>2, <2>1
<1>5. c \in Seq(S) /\ Len(c) = n + m /\ n \in Nat /\ m \in Nat /\ (\A i \in 1..n : c[i] = a[i]) /\ \A i \in 1..m : c[n + i] = b[i]
  BY <1>2, <1>3, <1>4
<1> QED BY <1>5 DEF n, m, c

(* Moving a byte from one to the next changes nothing of what is on its way. *)
LEMMA SentOn ==
  ASSUME NEW q \in Seq(ByteRec), NEW sent \in Seq(ByteRec), sent # << >>
  PROVE  Append(q, Head(sent)) \o Tail(sent) = q \o sent
<1> DEFINE a == Append(q, Head(sent))
           t == Tail(sent)
           x == a \o t
           y == q \o sent
           n == Len(q)
<1>1. /\ a \in Seq(ByteRec) /\ Len(a) = n + 1 /\ a[n + 1] = sent[1] /\ n \in Nat
      /\ \A i \in 1..n : a[i] = q[i]
  <2>1. Head(sent) = sent[1] /\ Head(sent) \in ByteRec
    BY HeadTailProperties
  <2> QED BY <2>1, AppendProperties, LenProperties
<1>2. /\ t \in Seq(ByteRec) /\ Len(sent) = Len(t) + 1 /\ Len(t) \in Nat
      /\ \A i \in 1..Len(t) : t[i] = sent[i + 1]
  BY HeadTailProperties, LenProperties
<1> HIDE DEF a, t
<1>3. /\ x \in Seq(ByteRec) /\ Len(x) = Len(a) + Len(t)
      /\ (\A i \in 1..Len(a) : x[i] = a[i]) /\ \A i \in 1..Len(t) : x[Len(a) + i] = t[i]
  <2>1. a \in Seq(ByteRec) /\ t \in Seq(ByteRec)
    BY <1>1, <1>2
  <2> QED BY <2>1, Catenated
<1>4. /\ y \in Seq(ByteRec) /\ Len(y) = n + Len(sent)
      /\ (\A i \in 1..n : y[i] = q[i]) /\ \A i \in 1..Len(sent) : y[n + i] = sent[i]
  BY Catenated
<1> HIDE DEF x, y, n
<1>5. Len(x) = Len(y)
  BY <1>1, <1>2, <1>3, <1>4
<1>6. \A i \in 1..Len(x) : x[i] = y[i]
  <2> SUFFICES ASSUME NEW i \in 1..Len(x) PROVE x[i] = y[i]
    OBVIOUS
  <2>1. CASE i <= n
    BY <1>1, <1>2, <1>3, <1>4, <2>1
  <2>2. CASE i = n + 1
    <3>1. 1 \in 1..Len(sent) /\ i \in 1..Len(a)
      BY <1>1, <1>2, <2>2
    <3> QED BY <1>1, <1>3, <1>4, <2>2, <3>1
  <2>3. CASE i > n + 1
    <3>1. i - (n + 1) \in 1..Len(t) /\ i - n \in 1..Len(sent) /\ i = Len(a) + (i - (n + 1)) /\ i = n + (i - n)
          /\ i - n = (i - (n + 1)) + 1
      BY <1>1, <1>2, <1>3, <2>3
    <3> QED BY <1>2, <1>3, <1>4, <3>1
  <2> QED BY <1>1, <1>2, <1>3, <2>1, <2>2, <2>3
<1>7. x = y
  BY <1>3, <1>4, <1>5, <1>6, SameSeq
<1> QED BY <1>7 DEF x, y, a, t

LEMMA BytesOf ==
  /\ DOMAIN Bytes = KeyNames
  /\ Bytes["q"] = <<"q">> /\ Bytes["escape"] = <<"ESC">>
  /\ Bytes["up"] = <<"ESC", "[", "A">> /\ Bytes["left"] = <<"ESC", "[", "D">>
BY DEF Bytes, KeyNames

LEMMA BytesAt ==
  /\ Len(Bytes["q"]) = 1 /\ Bytes["q"][1] = "q"
  /\ Len(Bytes["escape"]) = 1 /\ Bytes["escape"][1] = "ESC"
  /\ Len(Bytes["up"]) = 3 /\ Bytes["up"][1] = "ESC" /\ Bytes["up"][2] = "[" /\ Bytes["up"][3] = "A"
  /\ Len(Bytes["left"]) = 3 /\ Bytes["left"][1] = "ESC" /\ Bytes["left"][2] = "[" /\ Bytes["left"][3] = "D"
BY BytesOf

LEMMA SentOf ==
  ASSUME NEW k \in KeyNames, NEW n \in Nat \ {0}
  PROVE  /\ Sent(k, n) \in Seq(ByteRec) /\ Len(Sent(k, n)) = Len(Bytes[k])
         /\ Len(Sent(k, n)) \in {1, 3}
         /\ \A i \in 1..Len(Sent(k, n)) :
              Sent(k, n)[i].of = n /\ Sent(k, n)[i].byte = Bytes[k][i] /\ Place(Sent(k, n)[i]) = i
<1>1. Len(Bytes[k]) \in {1, 3} /\ DOMAIN Bytes[k] = 1..Len(Bytes[k]) /\ \A i \in 1..Len(Bytes[k]) : Bytes[k][i] \in ByteNames
  <2> DEFINE Good(b) == Len(b) \in {1, 3} /\ DOMAIN b = 1..Len(b) /\ \A i \in 1..Len(b) : b[i] \in ByteNames
  <2>1. ASSUME NEW a \in ByteNames PROVE Good(<<a>>)
    OBVIOUS
  <2>2. ASSUME NEW a \in ByteNames, NEW b \in ByteNames, NEW c \in ByteNames PROVE Good(<<a, b, c>>)
    <3> DEFINE t == <<a, b, c>>
    <3>1. Len(t) = 3 /\ DOMAIN t = 1..3 /\ t[1] = a /\ t[2] = b /\ t[3] = c
      OBVIOUS
    <3> HIDE DEF t
    <3>2. \A i \in 1..3 : t[i] \in ByteNames
      BY <3>1
    <3>3. Good(t)
      BY <3>1, <3>2
    <3> QED BY <3>3 DEF t
  <2> HIDE DEF Good
  <2>3. /\ "q" \in ByteNames /\ "ESC" \in ByteNames /\ "[" \in ByteNames
        /\ "A" \in ByteNames /\ "D" \in ByteNames
    BY DEF ByteNames
  <2>4. Good(<<"q">>) /\ Good(<<"ESC">>)
    BY <2>1, <2>3
  <2>5. Good(<<"ESC", "[", "A">>) /\ Good(<<"ESC", "[", "D">>)
    BY <2>2, <2>3
  <2>6. Good(Bytes[k])
    BY <2>4, <2>5, BytesOf DEF KeyNames
  <2> QED BY <2>6 DEF Good
<1> DEFINE m == Len(Bytes[k])
<1>2. \A i \in 1..m : [byte |-> Bytes[k][i], of |-> n] \in ByteRec
  BY <1>1 DEF ByteRec
<1>3. Sent(k, n) = [i \in 1..m |-> [byte |-> Bytes[k][i], of |-> n]]
  BY <1>1 DEF Sent
<1>4. \A i \in 1..m : Sent(k, n)[i] = [byte |-> Bytes[k][i], of |-> n]
  BY <1>3
<1>5. m \in Nat /\ Sent(k, n) \in [1..m -> ByteRec]
  BY <1>1, <1>2, <1>3
<1>6. Sent(k, n) \in Seq(ByteRec) /\ Len(Sent(k, n)) = m
  <2> DEFINE t == Sent(k, n)
  <2>1. t \in [1..m -> ByteRec] /\ m \in Nat
    BY <1>5
  <2> HIDE DEF t, m
  <2>2. t \in Seq(ByteRec) /\ Len(t) = m
    BY <2>1, LenProperties, SeqDef
  <2> QED BY <2>2 DEF t
<1>7. \A i \in 1..m : Place([byte |-> Bytes[k][i], of |-> n]) = i
  <2>1. CASE k = "q"
    BY <2>1, BytesOf DEF Place
  <2>2. CASE k = "escape"
    BY <2>2, BytesOf DEF Place
  <2>3. CASE k = "up"
    <3>1. m = 3
      BY <2>3, BytesOf
    <3> SUFFICES ASSUME NEW i \in 1..3 PROVE Place([byte |-> Bytes[k][i], of |-> n]) = i
      BY <3>1
    <3>2. i = 1 \/ i = 2 \/ i = 3
      OBVIOUS
    <3> QED BY <2>3, <3>2, BytesOf DEF Place
  <2>4. CASE k = "left"
    <3>1. m = 3
      BY <2>4, BytesOf
    <3> SUFFICES ASSUME NEW i \in 1..3 PROVE Place([byte |-> Bytes[k][i], of |-> n]) = i
      BY <3>1
    <3>2. i = 1 \/ i = 2 \/ i = 3
      OBVIOUS
    <3> QED BY <2>4, <3>2, BytesOf DEF Place
  <2> QED BY <2>1, <2>2, <2>3, <2>4 DEF KeyNames
<1>8. \A i \in 1..m : /\ Sent(k, n)[i].of = n /\ Sent(k, n)[i].byte = Bytes[k][i]
                      /\ Place(Sent(k, n)[i]) = i
  <2> SUFFICES ASSUME NEW i \in 1..m
               PROVE  /\ Sent(k, n)[i].of = n /\ Sent(k, n)[i].byte = Bytes[k][i]
                      /\ Place(Sent(k, n)[i]) = i
    OBVIOUS
  <2> DEFINE b == [byte |-> Bytes[k][i], of |-> n]
  <2>1. Sent(k, n)[i] = b /\ b.of = n /\ b.byte = Bytes[k][i] /\ Place(b) = i
    BY <1>4, <1>7
  <2> HIDE DEF b
  <2> QED BY <2>1
<1>9. m \in {1, 3}
  BY <1>1
<1> HIDE DEF m
<1>10. /\ Sent(k, n) \in Seq(ByteRec) /\ Len(Sent(k, n)) = m /\ Len(Sent(k, n)) \in {1, 3}
       /\ \A i \in 1..Len(Sent(k, n)) :
            Sent(k, n)[i].of = n /\ Sent(k, n)[i].byte = Bytes[k][i] /\ Place(Sent(k, n)[i]) = i
  BY <1>6, <1>8, <1>9
<1> QED BY <1>10 DEF m

(* A key is typed behind the bytes still on their way. *)
LEMMA KeyBehind ==
  ASSUME NEW keys \in Seq(KeyNames), NEW k \in KeyNames, NEW s \in Seq(ByteRec), Tailing(keys, s)
  PROVE  LET more == Append(keys, k)
             t == s \o Sent(k, Len(keys) + 1)
         IN /\ t \in Seq(ByteRec) /\ t # << >> /\ Tailing(more, t)
            /\ \A n \in Nat : After(keys, n, s) => After(more, n, t)
            /\ \A b \in ByteRec : ByteOfKey(keys, b) /\ Behind(keys, b, s) => Behind(more, b, t)
<1> DEFINE more == Append(keys, k)
           new == Sent(k, Len(keys) + 1)
           t == s \o new
           m == Len(s)
<1>1. /\ new \in Seq(ByteRec) /\ Len(new) = Len(Bytes[k]) /\ Len(new) \in {1, 3}
      /\ \A i \in 1..Len(new) :
           new[i].of = Len(keys) + 1 /\ new[i].byte = Bytes[k][i] /\ Place(new[i]) = i
  <2>1. Len(keys) + 1 \in Nat \ {0}
    BY LenProperties
  <2> QED BY <2>1, SentOf
<1>2. /\ Len(more) = Len(keys) + 1 /\ more[Len(keys) + 1] = k /\ Len(keys) \in Nat
      /\ \A i \in 1..Len(keys) : more[i] = keys[i]
  BY AppendProperties, LenProperties
<1> HIDE DEF new, more
<1>3. /\ t \in Seq(ByteRec) /\ Len(t) = m + Len(new) /\ m \in Nat
      /\ \A i \in 1..m : t[i] = s[i]
      /\ \A i \in 1..Len(new) : t[m + i] = new[i]
  <2>1. /\ s \o new \in Seq(ByteRec) /\ Len(s \o new) = Len(s) + Len(new) /\ Len(s) \in Nat
        /\ \A i \in 1..Len(s) : (s \o new)[i] = s[i]
        /\ \A i \in 1..Len(new) : (s \o new)[Len(s) + i] = new[i]
    <3>1. new \in Seq(ByteRec)
      BY <1>1
    <3> QED BY <3>1, Catenated
  <2> QED BY <2>1
<1> HIDE DEF t, m
<1>4. \A b : ByteOfKey(keys, b) => /\ ByteOfKey(more, b) /\ (EndsKey(more, b) <=> EndsKey(keys, b))
                                   /\ \A c : Succeeds(more, b, c) <=> Succeeds(keys, b, c)
  <2> SUFFICES ASSUME NEW b, ByteOfKey(keys, b)
               PROVE  /\ ByteOfKey(more, b) /\ (EndsKey(more, b) <=> EndsKey(keys, b))
                      /\ \A c : Succeeds(more, b, c) <=> Succeeds(keys, b, c)
    OBVIOUS
  <2>1. b.of \in 1..Len(keys) /\ more[b.of] = keys[b.of] /\ b.of \in 1..Len(more)
    BY <1>2 DEF ByteOfKey
  <2> QED BY <2>1 DEF ByteOfKey, EndsKey, Succeeds
<1>5. \A i \in 1..Len(new) : /\ ByteOfKey(more, new[i])
                             /\ EndsKey(more, new[i]) <=> i = Len(new)
  BY <1>1, <1>2 DEF ByteOfKey, EndsKey
<1>6. \A b \in ByteRec : ByteOfKey(keys, b) /\ EndsKey(keys, b) /\ b.of = Len(keys) => Succeeds(more, b, new[1])
  <2> SUFFICES ASSUME NEW b \in ByteRec, ByteOfKey(keys, b), EndsKey(keys, b), b.of = Len(keys)
               PROVE  Succeeds(more, b, new[1])
    OBVIOUS
  <2>1. EndsKey(more, b)
    BY <1>4
  <2>2. new[1].of = b.of + 1 /\ Place(new[1]) = 1
    BY <1>1
  <2> QED BY <2>1, <2>2 DEF Succeeds
<1>7. \A i \in 1..Len(t) : ByteOfKey(more, t[i])
  <2> SUFFICES ASSUME NEW i \in 1..Len(t) PROVE ByteOfKey(more, t[i])
    OBVIOUS
  <2>1. CASE i <= m
    BY <1>3, <1>4, <2>1 DEF Tailing, m
  <2>2. CASE i > m
    <3>1. i - m \in 1..Len(new) /\ t[i] = t[m + (i - m)]
      BY <1>1, <1>3, <2>2
    <3> QED BY <1>3, <1>5, <3>1
  <2> QED BY <1>3, <2>1, <2>2
<1>8. \A i \in 1..(Len(t) - 1) : Succeeds(more, t[i], t[i + 1])
  <2> SUFFICES ASSUME NEW i \in 1..(Len(t) - 1) PROVE Succeeds(more, t[i], t[i + 1])
    OBVIOUS
  <2>1. CASE i < m
    <3>1. t[i] = s[i] /\ t[i + 1] = s[i + 1] /\ ByteOfKey(keys, s[i]) /\ Succeeds(keys, s[i], s[i + 1])
      BY <1>3, <2>1 DEF Tailing, m
    <3> QED BY <1>4, <3>1
  <2>2. CASE i = m
    <3>1. t[i] = s[m] /\ t[i + 1] = new[1] /\ m \in 1..Len(s) /\ s # << >>
      BY <1>1, <1>3, <2>2 DEF m
    <3>2. ByteOfKey(keys, s[m]) /\ EndsKey(keys, s[m]) /\ s[m].of = Len(keys) /\ s[m] \in ByteRec
      BY <3>1, ElementOfSeq DEF Tailing, m
    <3> QED BY <1>6, <3>1, <3>2
  <2>3. CASE i > m
    <3>1. /\ i - m \in 1..(Len(new) - 1) /\ i - m \in 1..Len(new) /\ (i - m) + 1 \in 1..Len(new)
          /\ i = m + (i - m) /\ i + 1 = m + ((i - m) + 1)
      BY <1>1, <1>3, <2>3
    <3> DEFINE j == i - m
    <3>2. t[i] = new[j] /\ t[i + 1] = new[j + 1] /\ j # Len(new) /\ j \in 1..Len(new) /\ j + 1 \in 1..Len(new)
      BY <1>1, <1>3, <3>1
    <3>3. j \in Int /\ ~EndsKey(more, new[j]) /\ Place(new[j]) = j /\ Place(new[j + 1]) = j + 1 /\ new[j].of = new[j + 1].of
      BY <1>1, <1>5, <3>2
    <3> HIDE DEF j
    <3> QED BY <3>2, <3>3 DEF Succeeds
  <2> QED BY <1>3, <2>1, <2>2, <2>3
<1>9. EndsKey(more, t[Len(t)]) /\ t[Len(t)].of = Len(more) /\ Len(t) > 0
  <2> DEFINE l == Len(new)
  <2>4. l \in {1, 3} /\ Len(t) = m + l /\ m \in Nat
    BY <1>1, <1>3
  <2> HIDE DEF l
  <2>5. l \in 1..l /\ Len(t) = m + l /\ Len(t) > 0
    BY <2>4
  <2>1. Len(new) \in 1..Len(new) /\ Len(t) = m + Len(new) /\ Len(t) > 0
    BY <2>5 DEF l
  <2>3. t[m + Len(new)] = new[Len(new)]
    BY <1>3, <2>1
  <2>2. EndsKey(more, new[Len(new)]) /\ new[Len(new)].of = Len(keys) + 1
    BY <1>1, <1>5, <2>1
  <2> QED BY <1>2, <2>1, <2>2, <2>3
<1>10. t # << >>
  BY <1>9
<1>11. ASSUME NEW n \in Nat, After(keys, n, s) PROVE After(more, n, t)
  <2>1. CASE s = << >>
    <3>1. n = Len(keys) /\ t[1] = new[1]
      BY <1>1, <1>3, <1>11, <2>1 DEF After, m
    <3> QED BY <1>1, <1>10, <3>1 DEF After
  <2>2. CASE s # << >>
    <3>1. t[1] = s[1]
      BY <1>3, <2>2, EmptySeq DEF m
    <3> QED BY <1>10, <1>11, <2>2, <3>1 DEF After
  <2> QED BY <2>1, <2>2
<1>12. ASSUME NEW b \in ByteRec, ByteOfKey(keys, b), Behind(keys, b, s) PROVE Behind(more, b, t)
  <2>1. CASE s = << >>
    <3>1. EndsKey(keys, b) /\ b.of = Len(keys) /\ t[1] = new[1]
      BY <1>1, <1>3, <1>12, <2>1 DEF Behind, m
    <3> QED BY <1>6, <1>10, <1>12, <3>1 DEF Behind
  <2>2. CASE s # << >>
    <3>1. t[1] = s[1] /\ Succeeds(keys, b, s[1])
      BY <1>3, <1>12, <2>2, EmptySeq DEF m, Behind
    <3> QED BY <1>4, <1>10, <1>12, <2>2, <3>1 DEF Behind
  <2> QED BY <2>1, <2>2
<1> HIDE DEF After, Behind, Tailing
<1>13. Tailing(more, t)
  BY <1>7, <1>8, <1>9 DEF Tailing
<1> QED BY <1>3, <1>10, <1>11, <1>12, <1>13 DEF t, more, new

(* One byte less. *)
LEMMA ByteTaken ==
  ASSUME NEW keys \in Seq(KeyNames), NEW s \in Seq(ByteRec), s # << >>, Tailing(keys, s)
  PROVE  /\ Tailing(keys, Tail(s)) /\ Tail(s) \in Seq(ByteRec)
         /\ s[1] \in ByteRec /\ ByteOfKey(keys, s[1]) /\ Behind(keys, s[1], Tail(s))
<1> DEFINE t == Tail(s)
           n == Len(s)
<1>1. /\ t \in Seq(ByteRec) /\ n \in Nat /\ n >= 1 /\ Len(t) = n - 1
      /\ \A i \in 1..Len(t) : t[i] = s[i + 1]
  BY HeadTailProperties, EmptySeq, LenProperties
<1>2. s[1] \in ByteRec
  BY <1>1, ElementOfSeq
<1> HIDE DEF t
<1>3. \A i \in 1..n : ByteOfKey(keys, s[i])
  BY DEF Tailing
<1>4. \A i \in 1..(n - 1) : Succeeds(keys, s[i], s[i + 1])
  BY DEF Tailing
<1>5. EndsKey(keys, s[n]) /\ s[n].of = Len(keys)
  BY DEF Tailing
<1> HIDE DEF n
<1>6. \A i \in 1..Len(t) : ByteOfKey(keys, t[i])
  BY <1>1, <1>3
<1>7. \A i \in 1..(Len(t) - 1) : Succeeds(keys, t[i], t[i + 1])
  <2> SUFFICES ASSUME NEW i \in 1..(Len(t) - 1) PROVE Succeeds(keys, t[i], t[i + 1])
    OBVIOUS
  <2>1. i + 1 \in 1..(n - 1) /\ t[i] = s[i + 1] /\ t[i + 1] = s[(i + 1) + 1]
    BY <1>1
  <2> QED BY <1>4, <2>1
<1>8. t # << >> => EndsKey(keys, t[Len(t)]) /\ t[Len(t)].of = Len(keys)
  <2> SUFFICES ASSUME t # << >> PROVE EndsKey(keys, t[Len(t)]) /\ t[Len(t)].of = Len(keys)
    OBVIOUS
  <2>1. Len(t) \in 1..Len(t)
    BY <1>1, EmptySeq
  <2>2. t[Len(t)] = s[n]
    BY <1>1, <2>1
  <2> QED BY <1>5, <2>2
<1>9. Behind(keys, s[1], t)
  <2>1. CASE t = << >>
    <3>1. n = 1
      BY <1>1, <2>1, EmptySeq
    <3> QED BY <1>5, <2>1, <3>1 DEF Behind
  <2>2. CASE t # << >>
    <3>1. t[1] = s[1 + 1] /\ 1 \in 1..(n - 1)
      BY <1>1, <2>2, EmptySeq
    <3> QED BY <1>4, <2>2, <3>1 DEF Behind
  <2> QED BY <2>1, <2>2
<1>10. ByteOfKey(keys, s[1])
  BY <1>1, <1>3
<1>11. Tailing(keys, t)
  BY <1>6, <1>7, <1>8 DEF Tailing
<1> QED BY <1>1, <1>2, <1>9, <1>10, <1>11 DEF t

(* The bytes of each key. *)
LEMMA KeyFacts ==
  ASSUME NEW keys \in Seq(KeyNames), NEW b \in ByteRec, ByteOfKey(keys, b)
  PROVE  /\ keys[b.of] \in KeyNames
         /\ b.byte \in {"q", "ESC", "[", "A", "D"}
         /\ b.byte = "q" => keys[b.of] = "q" /\ EndsKey(keys, b)
         /\ b.byte = "ESC" => keys[b.of] # "q" /\ (EndsKey(keys, b) <=> keys[b.of] = "escape")
         /\ b.byte = "[" => ~EndsKey(keys, b)
         /\ Place(b) = 2 <=> b.byte = "["
         /\ Place(b) = 3 <=> b.byte \in {"A", "D"}
         /\ b.byte \in {"A", "D"} => EndsKey(keys, b) /\ ArrowOf[b.byte] = keys[b.of]
<1>1. b.of \in 1..Len(keys) /\ keys[b.of] \in KeyNames /\ Place(b) <= Len(Bytes[keys[b.of]]) /\ Bytes[keys[b.of]][Place(b)] = b.byte
  BY ElementOfSeq DEF ByteOfKey
<1>2. b.byte \in ByteNames
  BY DEF ByteRec
<1> DEFINE k == keys[b.of]
           x == b.byte
           Says == /\ x \in {"q", "ESC", "[", "A", "D"}
                   /\ x = "q" => k = "q" /\ Place(b) = Len(Bytes[k])
                   /\ x = "ESC" => k # "q" /\ (Place(b) = Len(Bytes[k]) <=> k = "escape")
                   /\ x = "[" => Place(b) # Len(Bytes[k])
                   /\ Place(b) = 2 <=> x = "["
                   /\ Place(b) = 3 <=> x \in {"A", "D"}
                   /\ x \in {"A", "D"} => Place(b) = Len(Bytes[k]) /\ ArrowOf[x] = k
<1>3. /\ k \in KeyNames /\ Place(b) <= Len(Bytes[k]) /\ Bytes[k][Place(b)] = x /\ x \in ByteNames
      /\ Place(b) = IF x = "[" THEN 2 ELSE IF x \in {"A", "D"} THEN 3 ELSE 1
  BY <1>1, <1>2 DEF Place
<1>4. ArrowOf["A"] = "up" /\ ArrowOf["D"] = "left"
  BY DEF ArrowOf
<1> HIDE DEF k, x
<1>5. ASSUME k = "q" PROVE Says
  BY <1>3, <1>4, <1>5, BytesAt DEF ByteNames
<1>6. ASSUME k = "escape" PROVE Says
  BY <1>3, <1>4, <1>6, BytesAt DEF ByteNames
<1>7. ASSUME k = "up" PROVE Says
  BY <1>3, <1>4, <1>7, BytesAt DEF ByteNames
<1>8. ASSUME k = "left" PROVE Says
  BY <1>3, <1>4, <1>8, BytesAt DEF ByteNames
<1>9. Says
  <2>1. k = "q" \/ k = "escape" \/ k = "up" \/ k = "left"
    BY <1>3 DEF KeyNames
  <2> HIDE DEF Says
  <2> QED BY <2>1, <1>5, <1>6, <1>7, <1>8
<1> QED BY <1>1, <1>9 DEF EndsKey, k, x

(* What comes after the last byte of a key begins with the next key. *)
LEMMA BehindLast ==
  ASSUME NEW keys \in Seq(KeyNames), NEW b \in ByteRec, NEW s \in Seq(ByteRec),
         EndsKey(keys, b), Behind(keys, b, s)
  PROVE  After(keys, b.of, s)
BY DEF After, Behind, Succeeds
-----------------------------------------------------------------------------
TypeT ==
  /\ isatty \in BOOLEAN /\ mode \in [raw : BOOLEAN, nonblocking : BOOLEAN]
  /\ prepared \in BOOLEAN /\ active \in BOOLEAN /\ hasty \in BOOLEAN
  /\ sending \in Seq(ByteRec) /\ queue \in Seq(ByteRec)
  /\ poll \in Seq(ByteRec) /\ Len(poll) <= 2
  /\ poll # << >> => poll[1].byte = "ESC"
  /\ typed \in Seq(KeyNames) /\ told \in Seq(ByteNames \cup KeyNames)

(* The mode is raw while the variable that gives it back says so. *)
ModeT ==
  /\ life = "running" => active = mode.raw
  /\ life = "ended" => ~mode.raw

(* What tecla has read of the key after those it has told, when it has read all there was of it. *)
PollT(reads, keys, n, s) ==
  /\ reads = << >> => After(keys, n, s)
  /\ reads # << >> => ByteOfKey(keys, reads[1]) /\ reads[1].of = n + 1
  /\ Len(reads) = 1 => Behind(keys, reads[1], s)
  /\ Len(reads) = 2 /\ keys[reads[1].of] = "escape" /\ reads[2] = Nothing =>
       Behind(keys, reads[1], s)
  /\ Len(reads) = 2 /\ keys[reads[1].of] # "escape" /\ reads[2].of = reads[1].of =>
       /\ ByteOfKey(keys, reads[2]) /\ reads[2].byte = "[" /\ Behind(keys, reads[2], s)

KeysT ==
  /\ Tailing(typed, queue \o sending)
  /\ Len(told) <= Len(typed) /\ \A i \in 1..Len(told) : told[i] = typed[i]
  /\ PollT(poll, typed, Len(told), queue \o sending)

TermInv == TypeT /\ ModeT /\ (~hasty => KeysT)

LEMMA PollElements ==
  ASSUME NEW reads \in Seq(ByteRec)
  PROVE  /\ Len(reads) \in Nat /\ (Len(reads) = 0 <=> reads = << >>)
         /\ \A i \in 1..Len(reads) : reads[i] \in ByteRec
         /\ reads # << >> => reads[1] \in ByteRec
         /\ Len(reads) = 2 => reads[2] \in ByteRec
<1>1. Len(reads) \in Nat /\ (Len(reads) = 0 <=> reads = << >>)
  BY EmptySeq, LenProperties
<1>2. \A i \in 1..Len(reads) : reads[i] \in ByteRec
  BY ElementOfSeq
<1> QED BY <1>1, <1>2

LEMMA TermInit == TerminalInit => TermInv
<1> SUFFICES ASSUME TerminalInit PROVE TermInv
  OBVIOUS
<1>1. /\ << >> \in Seq(ByteRec) /\ << >> \in Seq(KeyNames) /\ << >> \in Seq(ByteNames \cup KeyNames)
      /\ Len(<< >>) = 0 /\ << >> \o << >> = << >>
  OBVIOUS
<1>2. TypeT /\ ModeT
  <2>1. mode = [raw |-> FALSE, nonblocking |-> FALSE]
    BY DEF TerminalInit
  <2>2. mode \in [raw : BOOLEAN, nonblocking : BOOLEAN] /\ mode.raw = FALSE
    BY <2>1
  <2>3. /\ isatty \in BOOLEAN /\ prepared = FALSE /\ active = FALSE /\ life = "running" /\ hasty = FALSE
        /\ sending = << >> /\ queue = << >> /\ poll = << >> /\ typed = << >> /\ told = << >>
    BY DEF TerminalInit
  <2>4. /\ sending \in Seq(ByteRec) /\ queue \in Seq(ByteRec) /\ poll \in Seq(ByteRec) /\ Len(poll) = 0
        /\ typed \in Seq(KeyNames) /\ told \in Seq(ByteNames \cup KeyNames)
    BY <1>1, <2>3
  <2>6. prepared \in BOOLEAN /\ active \in BOOLEAN /\ hasty \in BOOLEAN
    BY <2>3, Zenon
  <2>7. Len(poll) <= 2
    BY <2>4
  <2>5. TypeT
    BY <2>2, <2>3, <2>4, <2>6, <2>7, Zenon DEF TypeT
  <2> QED BY <2>2, <2>3, <2>5 DEF ModeT
<1>3. Tailing(typed, << >>) /\ After(typed, Len(told), << >>)
  BY <1>1 DEF TerminalInit, Tailing, After
<1>4. KeysT
  BY <1>1, <1>3 DEF TerminalInit, KeysT, PollT
<1> QED BY <1>2, <1>4 DEF TermInv

(* A key is typed. *)
LEMMA TypesKey ==
  ASSUME TermInv, NEW k \in DOMAIN Bytes, UserTypes(k)
  PROVE  TermInv'
<1>1. k \in KeyNames /\ Len(typed) + 1 \in Nat \ {0}
  BY BytesOf, LenProperties DEF TermInv, TypeT
<1>2. /\ sending' = Sent(k, Len(typed) + 1) /\ typed' = Append(typed, k) /\ sending = << >>
      /\ UNCHANGED <<isatty, mode, prepared, active, life, queue, poll, told, hasty>>
  BY DEF UserTypes
<1>3. sending' \in Seq(ByteRec) /\ typed' \in Seq(KeyNames)
  BY <1>1, <1>2, SentOf DEF TermInv, TypeT
<1>4. TypeT' /\ ModeT'
  BY <1>2, <1>3 DEF TermInv, TypeT, ModeT
<1>5. ASSUME ~hasty PROVE KeysT'
  <2>1. queue \in Seq(ByteRec) /\ queue \o sending = queue /\ typed \in Seq(KeyNames)
    BY <1>2, ConcatEmptySeq DEF TermInv, TypeT
  <2>2. Tailing(typed, queue) /\ PollT(poll, typed, Len(told), queue) /\ Len(told) <= Len(typed) /\ \A i \in 1..Len(told) : told[i] = typed[i]
    BY <1>5, <2>1 DEF TermInv, KeysT
  <2> DEFINE t == queue' \o sending'
  <2>3. t = queue \o Sent(k, Len(typed) + 1)
    BY <1>2
  <2>4. /\ t \in Seq(ByteRec) /\ Tailing(typed', t)
        /\ \A n \in Nat : After(typed, n, queue) => After(typed', n, t)
        /\ \A b \in ByteRec : ByteOfKey(typed, b) /\ Behind(typed, b, queue) => Behind(typed', b, t)
    BY <1>1, <1>2, <2>1, <2>2, <2>3, KeyBehind
  <2>5. /\ Len(typed') = Len(typed) + 1 /\ \A i \in 1..Len(typed) : typed'[i] = typed[i]
        /\ Len(typed) \in Nat /\ Len(told) \in Nat
    BY <1>2, AppendProperties, LenProperties DEF TermInv, TypeT
  <2>6. \A b : ByteOfKey(typed, b) => ByteOfKey(typed', b) /\ typed'[b.of] = typed[b.of]
    BY <2>5 DEF ByteOfKey
  <2>7. /\ poll \in Seq(ByteRec) /\ Len(poll) \in Nat /\ poll' = poll /\ told' = told
        /\ (poll # << >> => poll[1] \in ByteRec) /\ (Len(poll) = 2 => poll[2] \in ByteRec)
        /\ Len(poll) \in {1, 2} => poll # << >>
    <3>1. poll \in Seq(ByteRec)
      BY DEF TermInv, TypeT
    <3>2. /\ Len(poll) \in Nat /\ (Len(poll) = 0 <=> poll = << >>)
          /\ (poll # << >> => poll[1] \in ByteRec) /\ (Len(poll) = 2 => poll[2] \in ByteRec)
      BY <3>1, PollElements
    <3> QED BY SMTT(30), <1>2, <3>1, <3>2
  <2> HIDE DEF t
  <2>8. PollT(poll, typed', Len(told), t)
    BY <2>2, <2>4, <2>5, <2>6, <2>7 DEF PollT
  <2> QED BY <2>2, <2>4, <2>5, <2>7, <2>8 DEF KeysT, t
<1> QED BY <1>2, <1>4, <1>5 DEF TermInv

LEMMA DecodeIs ==
  ASSUME NEW reads
  PROVE  /\ reads[1].byte # "ESC" => Decode(reads) = reads[1].byte
         /\ reads[1].byte = "ESC" /\ reads[2].byte = "[" /\ reads[3].byte \in DOMAIN ArrowOf =>
              Decode(reads) = ArrowOf[reads[3].byte]
         /\ reads[1].byte = "ESC" /\ ~(reads[2].byte = "[" /\ reads[3].byte \in DOMAIN ArrowOf) =>
              Decode(reads) = "escape"
<1> DEFINE lone == reads[1].byte # "ESC"
           arrow == reads[2].byte = "[" /\ reads[3].byte \in DOMAIN ArrowOf
<1>1. Decode(reads) = IF lone THEN reads[1].byte ELSE IF arrow THEN ArrowOf[reads[3].byte] ELSE "escape"
  BY DEF Decode
<1> QED BY <1>1

(* OneKey, of the keys typed. *)
Single(keys, reads) ==
  Len(reads) = 3 =>
    \A i \in 2..3 : IF keys[reads[1].of] = "escape" THEN reads[i] = Nothing ELSE reads[i].of = reads[1].of

(* One more read, of what there is: s is what is on its way before it, s2 after it. *)
Reads(keys, n, s, p, r, s2, reads) ==
  /\ keys \in Seq(KeyNames) /\ n \in Nat /\ s \in Seq(ByteRec) /\ Tailing(keys, s)
  /\ p \in Seq(ByteRec) /\ Len(p) <= 2 /\ (p # << >> => p[1].byte = "ESC") /\ PollT(p, keys, n, s)
  /\ r \in ByteRec /\ s2 \in Seq(ByteRec)
  /\ (r = Nothing /\ s2 = s) \/ (s # << >> /\ r = s[1] /\ s2 = Tail(s))
  /\ reads \in Seq(ByteRec) /\ reads = Append(p, r)

LEMMA OneRead ==
  ASSUME NEW keys, NEW n, NEW s, NEW p, NEW r, NEW s2, NEW reads, Reads(keys, n, s, p, r, s2, reads)
  PROVE  /\ Tailing(keys, s2)
         /\ Len(reads) # ReadsNeeded(reads) => PollT(reads, keys, n, s2)
         /\ Len(reads) = ReadsNeeded(reads) /\ Single(keys, reads) =>
              IF reads[1] = Nothing THEN After(keys, n, s2)
              ELSE n + 1 \in 1..Len(keys) /\ Decode(reads) = keys[n + 1] /\ After(keys, n + 1, s2)
<1> SUFFICES ASSUME keys \in Seq(KeyNames), n \in Nat, s \in Seq(ByteRec), Tailing(keys, s),
                    p \in Seq(ByteRec), Len(p) <= 2, p # << >> => p[1].byte = "ESC", PollT(p, keys, n, s),
                    r \in ByteRec, s2 \in Seq(ByteRec),
                    (r = Nothing /\ s2 = s) \/ (s # << >> /\ r = s[1] /\ s2 = Tail(s)),
                    reads \in Seq(ByteRec), reads = Append(p, r)
             PROVE  /\ Tailing(keys, s2)
                    /\ Len(reads) # ReadsNeeded(reads) => PollT(reads, keys, n, s2)
                    /\ Len(reads) = ReadsNeeded(reads) /\ Single(keys, reads) =>
                         IF reads[1] = Nothing THEN After(keys, n, s2)
                         ELSE n + 1 \in 1..Len(keys) /\ Decode(reads) = keys[n + 1] /\ After(keys, n + 1, s2)
  BY DEF Reads
<1> DEFINE l == Len(p)
<1>1. /\ Len(reads) = l + 1 /\ reads[l + 1] = r /\ l \in 0..2
      /\ \A i \in 1..l : reads[i] = p[i]
  <2>1. /\ Len(Append(p, r)) = Len(p) + 1 /\ Append(p, r)[Len(p) + 1] = r
        /\ \A i \in 1..Len(p) : Append(p, r)[i] = p[i]
    BY AppendProperties
  <2>2. Len(p) \in Nat
    BY LenProperties
  <2>3. Append(p, r) = reads /\ Len(p) <= 2
    OBVIOUS
  <2> HIDE DEF l
  <2>4. Len(p) = l
    BY DEF l
  <2> QED BY <2>1, <2>2, <2>3, <2>4
<1>2. /\ l = 0 <=> p = << >>
      /\ l = 2 => p[2] \in ByteRec
      /\ l # 0 => p[1] \in ByteRec
  BY PollElements
<1> HIDE DEF l
<1>3. /\ l = 0 => reads[1] = r
      /\ l = 1 => reads[1] = p[1] /\ reads[2] = r
      /\ l = 2 => reads[1] = p[1] /\ reads[2] = p[2] /\ reads[3] = r
      /\ reads # << >>
  <2>1. l = 0 \/ l = 1 \/ l = 2
    BY <1>1
  <2>2. Len(reads) # 0
    BY <1>1
  <2> QED BY <1>1, <2>1, <2>2, EmptySeq
<1>4. Nothing.of = 0 /\ Nothing.byte = "none" /\ Nothing \in ByteRec
  BY DEF Nothing, ByteRec, ByteNames
<1>5. /\ Tailing(keys, s2)
      /\ r # Nothing => /\ s # << >> /\ r = s[1] /\ s2 = Tail(s)
                        /\ ByteOfKey(keys, r) /\ Behind(keys, r, s2)
      /\ r = Nothing => s2 = s
  <2>1. s # << >> => /\ Tailing(keys, Tail(s)) /\ ByteOfKey(keys, s[1]) /\ Behind(keys, s[1], Tail(s))
    BY ByteTaken
  <2>2. s # << >> => s[1] # Nothing
    BY <1>4, <2>1 DEF ByteOfKey
  <2> QED BY <2>1, <2>2
<1>6. PollT(p, keys, n, s)
  OBVIOUS
<1>7. r # Nothing =>
         /\ r.byte \in {"q", "ESC", "[", "A", "D"}
         /\ r.byte = "q" => keys[r.of] = "q" /\ EndsKey(keys, r)
         /\ Place(r) = 2 <=> r.byte = "["
         /\ Place(r) = 3 <=> r.byte \in {"A", "D"}
         /\ r.byte \in {"A", "D"} => EndsKey(keys, r) /\ ArrowOf[r.byte] = keys[r.of]
  BY <1>5, KeyFacts
<1>8. r.of \in Nat /\ (r # Nothing => r.of \in 1..Len(keys))
  BY <1>5 DEF ByteRec, ByteOfKey
<1>9. DOMAIN ArrowOf = {"A", "D"}
  BY DEF ArrowOf
<1>10. EndsKey(keys, r) /\ r # Nothing => After(keys, r.of, s2)
  BY <1>5, BehindLast
<1>11. CASE l = 0
  <2>1. After(keys, n, s) /\ reads[1] = r /\ Len(reads) = 1
    BY <1>1, <1>2, <1>3, <1>6, <1>11 DEF PollT
  <2>2. r # Nothing => r.of = n + 1 /\ Place(r) = 1 /\ (r.byte = "q" \/ r.byte = "ESC")
    BY <1>5, <1>7, <2>1 DEF After
  <2>3. r = Nothing => ReadsNeeded(reads) = 1 /\ After(keys, n, s2)
    BY <1>4, <1>5, <2>1 DEF ReadsNeeded
  <2>4. ASSUME r # Nothing, r.byte = "q"
        PROVE  /\ ReadsNeeded(reads) = 1 /\ n + 1 \in 1..Len(keys)
               /\ Decode(reads) = keys[n + 1] /\ After(keys, n + 1, s2)
    <3>1. ReadsNeeded(reads) = 1 /\ reads[1].byte # "ESC"
      BY <2>1, <2>4 DEF ReadsNeeded
    <3>2. Decode(reads) = "q"
      BY <2>1, <2>4, <3>1, DecodeIs
    <3>3. n + 1 = r.of /\ keys[r.of] = "q" /\ After(keys, r.of, s2)
      BY <1>7, <1>10, <2>2, <2>4
    <3> QED BY <1>8, <2>4, <3>1, <3>2, <3>3
  <2>5. ASSUME r # Nothing, r.byte = "ESC"
        PROVE  ReadsNeeded(reads) = 3 /\ PollT(reads, keys, n, s2) /\ reads[1].byte = "ESC"
    BY <1>3, <1>5, <2>1, <2>2, <2>5 DEF ReadsNeeded, PollT
  <2> QED BY <1>5, <2>1, <2>2, <2>3, <2>4, <2>5
<1>12. ASSUME l # 0
       PROVE  /\ p[1].byte = "ESC" /\ ByteOfKey(keys, p[1]) /\ p[1].of = n + 1 /\ p[1].of \in 1..Len(keys)
              /\ keys[p[1].of] # "q" /\ (EndsKey(keys, p[1]) <=> keys[p[1].of] = "escape")
              /\ ReadsNeeded(reads) = 3 /\ Place(p[1]) = 1 /\ p[1] # Nothing
  <2>1. p[1].byte = "ESC" /\ ByteOfKey(keys, p[1]) /\ p[1].of = n + 1 /\ p[1] \in ByteRec
    BY <1>2, <1>6, <1>12 DEF PollT
  <2>2. reads[1] = p[1]
    BY <1>1, <1>12
  <2> QED BY <1>4, <2>1, <2>2, KeyFacts DEF ReadsNeeded, ByteOfKey, Place
<1>13. CASE l = 1
  <2>1. Behind(keys, p[1], s) /\ Len(reads) = 2 /\ reads[1] = p[1] /\ reads[2] = r
    BY <1>1, <1>2, <1>3, <1>6, <1>13 DEF PollT, l
  <2>2. keys[reads[1].of] = "escape" /\ reads[2] = Nothing => Behind(keys, reads[1], s2)
    BY <1>5, <2>1
  <2>3. ASSUME keys[reads[1].of] # "escape", reads[2].of = reads[1].of
        PROVE  ByteOfKey(keys, reads[2]) /\ reads[2].byte = "[" /\ Behind(keys, reads[2], s2)
    <3>1. r # Nothing /\ ~EndsKey(keys, p[1])
      BY <1>4, <1>12, <1>13, <2>1, <2>3
    <3>2. Succeeds(keys, p[1], r)
      BY <1>5, <2>1, <3>1 DEF Behind
    <3>3. Place(r) = 2
      BY <1>12, <1>13, <3>1, <3>2 DEF Succeeds
    <3> QED BY <1>5, <1>7, <2>1, <3>1, <3>3
  <2>4. PollT(reads, keys, n, s2)
    BY <1>3, <1>12, <1>13, <2>1, <2>2, <2>3 DEF PollT
  <2> QED BY <1>5, <1>12, <1>13, <2>1, <2>4
<1>14. CASE l = 2
  <2>1. Len(reads) = 3 /\ reads[1] = p[1] /\ reads[2] = p[2] /\ reads[3] = r
    BY <1>1, <1>3, <1>14
  <2> DEFINE k == keys[p[1].of]
  <2>2. ASSUME Single(keys, reads), k = "escape" PROVE Decode(reads) = k /\ After(keys, n + 1, s2)
    <3>1. \A i \in 2..3 : reads[i] = Nothing
      BY <2>1, <2>2 DEF Single
    <3>2. p[2] = Nothing /\ r = Nothing
      BY <2>1, <3>1
    <3>3. Behind(keys, p[1], s) /\ s2 = s /\ EndsKey(keys, p[1]) /\ p[1].of = n + 1 /\ p[1] \in ByteRec
      BY <1>2, <1>5, <1>6, <1>12, <1>14, <2>2, <3>2 DEF PollT, l
    <3>4. After(keys, n + 1, s2)
      BY <3>3, BehindLast
    <3>5. reads[1].byte = "ESC" /\ reads[2].byte # "["
      BY <1>4, <1>12, <1>14, <2>1, <3>2
    <3> QED BY <2>2, <3>4, <3>5, DecodeIs
  <2>3. ASSUME Single(keys, reads), k # "escape" PROVE Decode(reads) = k /\ After(keys, n + 1, s2)
    <3>1. \A i \in 2..3 : reads[i].of = p[1].of
      BY <2>1, <2>3 DEF Single
    <3>2. p[2].of = p[1].of /\ r.of = p[1].of
      BY <2>1, <3>1
    <3>3. ByteOfKey(keys, p[2]) /\ p[2].byte = "[" /\ Behind(keys, p[2], s) /\ p[2] \in ByteRec
      BY <1>2, <1>6, <1>14, <2>3, <3>2 DEF PollT, l
    <3>4. r # Nothing /\ ~EndsKey(keys, p[2]) /\ Place(p[2]) = 2
      BY <1>4, <1>12, <1>14, <3>2, <3>3, KeyFacts
    <3>5. Succeeds(keys, p[2], r)
      BY <1>5, <3>3, <3>4 DEF Behind
    <3>6. Place(r) = 3
      BY <3>4, <3>5 DEF Succeeds
    <3>7. r.byte \in {"A", "D"} /\ EndsKey(keys, r) /\ ArrowOf[r.byte] = k
      BY <1>7, <3>2, <3>4, <3>6
    <3>8. After(keys, n + 1, s2)
      BY <1>10, <1>12, <1>14, <3>2, <3>4, <3>7
    <3>9. reads[1].byte = "ESC" /\ reads[2].byte = "[" /\ reads[3].byte \in DOMAIN ArrowOf
      BY <1>9, <1>12, <1>14, <2>1, <3>3, <3>7
    <3> QED BY <2>1, <3>7, <3>8, <3>9, DecodeIs
  <2> HIDE DEF k
  <2>4. reads[1] # Nothing /\ Len(reads) = ReadsNeeded(reads) /\ n + 1 \in 1..Len(keys) /\ k = keys[n + 1]
    BY <1>12, <1>14, <2>1 DEF k
  <2> QED BY <1>5, <2>2, <2>3, <2>4
<1> QED BY <1>1, <1>11, <1>13, <1>14

(* What a call that has read p reads next, whatever it read. *)
LEMMA ReadTypes ==
  ASSUME NEW p \in Seq(ByteRec), Len(p) <= 2, p # << >> => p[1].byte = "ESC", NEW r \in ByteRec,
         NEW reads, reads = Append(p, r)
  PROVE  /\ reads \in Seq(ByteRec) /\ Decode(reads) \in ByteNames \cup KeyNames
         /\ Len(reads) # ReadsNeeded(reads) => Len(reads) <= 2 /\ reads[1].byte = "ESC"
<1> DEFINE l == Len(p)
<1>1. /\ reads \in Seq(ByteRec) /\ Len(reads) = l + 1 /\ reads[l + 1] = r /\ l \in 0..2
      /\ \A i \in 1..l : reads[i] = p[i]
  <2>1. /\ Append(p, r) \in Seq(ByteRec) /\ Len(Append(p, r)) = Len(p) + 1 /\ Append(p, r)[Len(p) + 1] = r
        /\ \A i \in 1..Len(p) : Append(p, r)[i] = p[i]
    BY AppendProperties
  <2>2. Len(p) \in Nat
    BY LenProperties
  <2>3. Append(p, r) = reads /\ Len(p) <= 2
    OBVIOUS
  <2> HIDE DEF l
  <2>4. Len(p) = l
    BY DEF l
  <2> QED BY <2>1, <2>2, <2>3, <2>4
<1>2. l = 0 <=> p = << >>
  BY EmptySeq
<1> HIDE DEF l
<1>3. l # 0 => reads[1].byte = "ESC"
  <2>1. l # 0 => 1 \in 1..l
    BY <1>1
  <2> QED BY <1>1, <1>2, <2>1
<1>4. reads[1] \in ByteRec
  <2>1. 1 \in 1..Len(reads)
    BY <1>1
  <2> QED BY <1>1, <2>1, ElementOfSeq
<1>5. Decode(reads) \in ByteNames \cup KeyNames
  <2>1. reads[1].byte \in ByteNames
    BY <1>4 DEF ByteRec
  <2>2. \A x \in DOMAIN ArrowOf : ArrowOf[x] \in KeyNames
    BY DEF ArrowOf, KeyNames
  <2>3. "escape" \in KeyNames
    BY DEF KeyNames
  <2> QED BY <2>1, <2>2, <2>3 DEF Decode
<1>6. ASSUME Len(reads) # ReadsNeeded(reads) PROVE Len(reads) <= 2 /\ reads[1].byte = "ESC"
  BY <1>1, <1>3, <1>6 DEF ReadsNeeded
<1> QED BY <1>1, <1>5, <1>6

LEMMA PreparedKeeps ==
  ASSUME TypeT, ModeT, life = "running", Prepared
  PROVE  /\ mode' \in [raw : BOOLEAN, nonblocking : BOOLEAN] /\ prepared' \in BOOLEAN /\ active' \in BOOLEAN
         /\ active' = mode'.raw
<1>1. CASE prepared
  <2>1. UNCHANGED <<mode, active, prepared>>
    BY <1>1 DEF Prepared
  <2> QED BY <2>1 DEF TypeT, ModeT
<1>2. CASE ~prepared
  <2>1. PICK raw \in BOOLEAN, nonblocking \in BOOLEAN : Prepare(raw, nonblocking)
    BY <1>2 DEF Prepared
  <2>2. isatty \in BOOLEAN
    BY DEF TypeT
  <2>3. mode' \in [raw : BOOLEAN, nonblocking : BOOLEAN] /\ mode'.raw = (isatty /\ raw)
    BY <2>1, <2>2 DEF Prepare
  <2>4. active' = (isatty /\ raw) /\ prepared' = TRUE
    BY <2>1 DEF Prepare
  <2>5. active' \in BOOLEAN /\ prepared' \in BOOLEAN
    BY <2>4, Zenon
  <2> QED BY <2>3, <2>4, <2>5
<1> QED BY <1>1, <1>2

(* What the read finds, of what is on its way. *)
LEMMA FoundIs ==
  ASSUME NEW q \in Seq(ByteRec), NEW sent \in Seq(ByteRec)
  PROVE  LET q2 == IF q = << >> THEN q ELSE Tail(q)
             r == IF q = << >> THEN Nothing ELSE Head(q)
         IN /\ q2 \in Seq(ByteRec) /\ r \in ByteRec /\ q \o sent \in Seq(ByteRec) /\ q2 \o sent \in Seq(ByteRec)
            /\ (r = Nothing /\ q2 \o sent = q \o sent) \/
               (q \o sent # << >> /\ r = (q \o sent)[1] /\ q2 \o sent = Tail(q \o sent))
<1> DEFINE q2 == IF q = << >> THEN q ELSE Tail(q)
           r == IF q = << >> THEN Nothing ELSE Head(q)
<1>1. Nothing \in ByteRec
  BY DEF Nothing, ByteRec, ByteNames
<1>2. CASE q = << >>
  BY <1>1, <1>2, ConcatProperties
<1>3. CASE q # << >>
  <2> DEFINE x == q \o sent
  <2>1. /\ Tail(q) \in Seq(ByteRec) /\ Len(q) = Len(Tail(q)) + 1
        /\ \A i \in 1..Len(Tail(q)) : q[i + 1] = Tail(q)[i]
    BY <1>3, HeadTailProperties, LenProperties
  <2>2. x # << >> /\ Head(x) = q[1] /\ Tail(x) = Tail(q) \o sent
    BY <2>1, TailCat
  <2>3. Head(x) = x[1] /\ x \in Seq(ByteRec) /\ Tail(q) \o sent \in Seq(ByteRec)
    BY <2>1, <2>2, ConcatProperties
  <2>4. Head(q) = q[1] /\ q[1] \in ByteRec
    BY <1>3, HeadTailProperties
  <2>5. q2 = Tail(q) /\ r = q[1]
    BY <1>3, <2>4
  <2> QED BY <2>1, <2>2, <2>3, <2>4, <2>5
<1> QED BY <1>2, <1>3

(* One key more is told. *)
LEMMA ToldOneMore ==
  ASSUME NEW keys \in Seq(KeyNames), NEW names \in Seq(ByteNames \cup KeyNames), NEW x \in ByteNames \cup KeyNames,
         Len(names) <= Len(keys), \A i \in 1..Len(names) : names[i] = keys[i],
         Len(names) + 1 \in 1..Len(keys), x = keys[Len(names) + 1],
         NEW more, more = Append(names, x)
  PROVE  /\ more \in Seq(ByteNames \cup KeyNames) /\ Len(more) = Len(names) + 1
         /\ Len(more) <= Len(keys) /\ \A i \in 1..Len(more) : more[i] = keys[i]
<1> DEFINE l == Len(names)
<1>1. /\ more \in Seq(ByteNames \cup KeyNames) /\ Len(more) = l + 1 /\ more[l + 1] = x
      /\ l \in Nat /\ \A i \in 1..l : more[i] = names[i]
  BY AppendProperties, LenProperties
<1>2. l <= Len(keys) /\ Len(keys) \in Nat /\ (\A i \in 1..l : names[i] = keys[i]) /\ l + 1 \in 1..Len(keys) /\ x = keys[l + 1]
  BY LenProperties
<1> HIDE DEF l
<1>3. \A i \in 1..(l + 1) : more[i] = keys[i]
  <2> SUFFICES ASSUME NEW i \in 1..(l + 1) PROVE more[i] = keys[i]
    OBVIOUS
  <2>1. i \in 1..l \/ i = l + 1
    BY <1>1
  <2> QED BY <1>1, <1>2, <2>1
<1>4. Len(more) <= Len(keys)
  BY <1>1, <1>2
<1> QED BY <1>1, <1>3, <1>4 DEF l

LEMMA Reading ==
  ASSUME TermInv, Read
  PROVE  TermInv'
<1> DEFINE reads == Append(poll, Found)
           s == queue \o sending
           s2 == queue' \o sending
           one == OneKey(reads)
           r == Found
<1>1. /\ TypeT /\ ModeT /\ life = "running" /\ Prepared
      /\ IF Len(reads) = ReadsNeeded(reads) THEN Returns(reads) ELSE poll' = reads /\ UNCHANGED <<told, hasty>>
      /\ queue' = IF queue = << >> THEN queue ELSE Tail(queue)
      /\ UNCHANGED <<isatty, life, sending, typed>>
  BY DEF Read, TermInv
<1>2. /\ queue \in Seq(ByteRec) /\ sending \in Seq(ByteRec) /\ poll \in Seq(ByteRec) /\ Len(poll) <= 2
      /\ poll # << >> => poll[1].byte = "ESC"
      /\ typed \in Seq(KeyNames) /\ told \in Seq(ByteNames \cup KeyNames)
      /\ hasty \in BOOLEAN /\ isatty \in BOOLEAN
  BY <1>1 DEF TypeT
<1>3. /\ queue' \in Seq(ByteRec) /\ r \in ByteRec /\ s \in Seq(ByteRec) /\ s2 \in Seq(ByteRec)
      /\ (r = Nothing /\ s2 = s) \/ (s # << >> /\ r = s[1] /\ s2 = Tail(s))
  <2>1. r = IF queue = << >> THEN Nothing ELSE Head(queue)
    BY DEF Found
  <2> DEFINE q2 == queue'
  <2>2. q2 = IF queue = << >> THEN queue ELSE Tail(queue)
    BY <1>1
  <2>4. queue \in Seq(ByteRec) /\ sending \in Seq(ByteRec)
    BY <1>2
  <2> HIDE DEF r, q2
  <2>3. /\ q2 \in Seq(ByteRec) /\ r \in ByteRec
        /\ queue \o sending \in Seq(ByteRec) /\ q2 \o sending \in Seq(ByteRec)
        /\ (r = Nothing /\ q2 \o sending = queue \o sending) \/
           (queue \o sending # << >> /\ r = (queue \o sending)[1] /\ q2 \o sending = Tail(queue \o sending))
    BY <2>1, <2>2, <2>4, FoundIs
  <2> QED BY <2>3 DEF q2
<1>4. reads = Append(poll, r)
  OBVIOUS
<1> HIDE DEF reads, r
<1>5. /\ reads \in Seq(ByteRec) /\ Decode(reads) \in ByteNames \cup KeyNames
      /\ Len(reads) # ReadsNeeded(reads) => Len(reads) <= 2 /\ reads[1].byte = "ESC"
  BY <1>2, <1>3, <1>4, ReadTypes
<1>6. /\ Len(reads) = ReadsNeeded(reads) =>
           /\ poll' = << >> /\ (hasty' <=> (hasty \/ ~one)) /\ hasty' \in BOOLEAN
           /\ told' = IF reads[1] = Nothing THEN told ELSE Append(told, Decode(reads))
      /\ Len(reads) # ReadsNeeded(reads) => poll' = reads /\ told' = told /\ hasty' = hasty
  BY <1>1, Zenon DEF Returns
<1> HIDE DEF s, one
<1>7. TypeT' /\ ModeT'
  <2>1. /\ mode' \in [raw : BOOLEAN, nonblocking : BOOLEAN] /\ prepared' \in BOOLEAN /\ active' \in BOOLEAN
        /\ active' = mode'.raw
    BY <1>1, PreparedKeeps
  <2>2. poll' \in Seq(ByteRec) /\ Len(poll') <= 2 /\ (poll' # << >> => poll'[1].byte = "ESC")
    <3>1. << >> \in Seq(ByteRec) /\ Len(<< >>) = 0
      OBVIOUS
    <3>2. CASE Len(reads) = ReadsNeeded(reads)
      <4>1. poll' = << >>
        BY <1>6, <3>2
      <4> QED BY <3>1, <4>1
    <3>3. CASE Len(reads) # ReadsNeeded(reads)
      <4>1. poll' = reads
        BY <1>6, <3>3
      <4> QED BY <1>5, <3>3, <4>1
    <3> QED BY <3>2, <3>3
  <2>3. told' \in Seq(ByteNames \cup KeyNames)
    <3>1. Append(told, Decode(reads)) \in Seq(ByteNames \cup KeyNames)
      BY <1>2, <1>5, AppendProperties
    <3> QED BY <1>2, <1>6, <3>1
  <2>4. hasty' \in BOOLEAN
    BY <1>2, <1>6
  <2>5. TypeT'
    BY <1>1, <1>2, <1>3, <2>1, <2>2, <2>3, <2>4 DEF TypeT
  <2> QED BY <1>1, <2>1, <2>5 DEF ModeT
<1>8. ASSUME ~hasty' PROVE KeysT'
  <2>1. ~hasty /\ (Len(reads) = ReadsNeeded(reads) => one)
    BY <1>6, <1>8
  <2>2. Tailing(typed, s) /\ PollT(poll, typed, Len(told), s) /\ Len(told) <= Len(typed) /\ \A i \in 1..Len(told) : told[i] = typed[i]
    BY <2>1 DEF TermInv, KeysT, s
  <2> DEFINE n == Len(told)
  <2>3. n \in Nat
    BY <1>2, LenProperties
  <2>4. one <=> Single(typed, reads)
    BY DEF one, OneKey, Single
  <2>5. PollT(poll, typed, n, s)
    BY <2>2
  <2> HIDE DEF n, s2
  <2>6. /\ Tailing(typed, s2)
        /\ Len(reads) # ReadsNeeded(reads) => PollT(reads, typed, n, s2)
        /\ Len(reads) = ReadsNeeded(reads) /\ Single(typed, reads) =>
             IF reads[1] = Nothing THEN After(typed, n, s2)
             ELSE n + 1 \in 1..Len(typed) /\ Decode(reads) = typed[n + 1] /\ After(typed, n + 1, s2)
    <3> DEFINE p == poll
    <3>1. /\ typed \in Seq(KeyNames) /\ n \in Nat /\ s \in Seq(ByteRec) /\ Tailing(typed, s)
          /\ p \in Seq(ByteRec) /\ Len(p) <= 2 /\ (p # << >> => p[1].byte = "ESC") /\ PollT(p, typed, n, s)
          /\ r \in ByteRec /\ s2 \in Seq(ByteRec)
          /\ reads \in Seq(ByteRec) /\ reads = Append(p, r)
      BY <1>2, <1>3, <1>4, <1>5, <2>2, <2>3, <2>5
    <3>2. (r = Nothing /\ s2 = s) \/ (s # << >> /\ r = s[1] /\ s2 = Tail(s))
      BY <1>3
    <3> HIDE DEF p
    <3>3. Reads(typed, n, s, p, r, s2, reads)
      BY <3>1, <3>2 DEF Reads
    <3> QED BY <3>3, OneRead
  <2>7. queue' \o sending' = s2 /\ typed' = typed
    BY <1>1 DEF s2
  <2>8. CASE Len(reads) # ReadsNeeded(reads)
    <3>1. poll' = reads /\ told' = told /\ PollT(reads, typed, n, s2)
      BY <1>6, <2>6, <2>8
    <3> QED BY <2>2, <2>6, <2>7, <3>1 DEF KeysT, n
  <2>9. CASE Len(reads) = ReadsNeeded(reads) /\ reads[1] = Nothing
    <3>1. poll' = << >> /\ told' = told /\ After(typed, n, s2)
      BY <1>6, <2>1, <2>4, <2>6, <2>9
    <3>2. PollT(<< >>, typed, n, s2)
      BY <3>1 DEF PollT
    <3> QED BY <2>2, <2>6, <2>7, <3>1, <3>2 DEF KeysT, n
  <2>10. CASE Len(reads) = ReadsNeeded(reads) /\ reads[1] # Nothing
    <3>1. /\ poll' = << >> /\ told' = Append(told, Decode(reads)) /\ After(typed, n + 1, s2)
          /\ n + 1 \in 1..Len(typed) /\ Decode(reads) = typed[n + 1]
      BY <1>6, <2>1, <2>4, <2>6, <2>10
    <3>2. PollT(<< >>, typed, n + 1, s2)
      BY <3>1 DEF PollT
    <3> DEFINE names == told
               more == told'
               x == Decode(reads)
    <3>3. /\ names \in Seq(ByteNames \cup KeyNames) /\ x \in ByteNames \cup KeyNames /\ typed \in Seq(KeyNames)
          /\ Len(names) <= Len(typed) /\ (\A i \in 1..Len(names) : names[i] = typed[i])
          /\ Len(names) + 1 \in 1..Len(typed) /\ x = typed[Len(names) + 1] /\ more = Append(names, x)
          /\ Len(names) = n
      BY <1>2, <1>5, <2>2, <3>1 DEF n
    <3> HIDE DEF names, more, x
    <3>4. Len(more) = Len(names) + 1 /\ Len(more) <= Len(typed) /\ \A i \in 1..Len(more) : more[i] = typed[i]
      BY <3>3, ToldOneMore
    <3>5. Len(told') = n + 1 /\ Len(told') <= Len(typed) /\ \A i \in 1..Len(told') : told'[i] = typed[i]
      BY <3>3, <3>4 DEF more
    <3> QED BY <2>6, <2>7, <3>1, <3>2, <3>5 DEF KeysT
  <2> QED BY <2>8, <2>9, <2>10
<1> QED BY <1>7, <1>8 DEF TermInv

LEMMA Sending ==
  ASSUME TermInv, Send
  PROVE  TermInv'
<1>1. /\ sending # << >> /\ queue' = Append(queue, Head(sending)) /\ sending' = Tail(sending)
      /\ UNCHANGED <<isatty, mode, prepared, active, life, poll, typed, told, hasty>>
  BY DEF Send
<1>2. queue \in Seq(ByteRec) /\ sending \in Seq(ByteRec)
  BY DEF TermInv, TypeT
<1>3. /\ queue' \in Seq(ByteRec) /\ sending' \in Seq(ByteRec)
      /\ queue' \o sending' = queue \o sending
  <2>1. Head(sending) \in ByteRec /\ Tail(sending) \in Seq(ByteRec)
    BY <1>1, <1>2, HeadTailProperties
  <2>2. Append(queue, Head(sending)) \o Tail(sending) = queue \o sending
    BY <1>1, <1>2, SentOn
  <2> QED BY <1>1, <1>2, <2>1, <2>2, AppendProperties
<1>4. TypeT' /\ ModeT'
  BY <1>1, <1>3 DEF TermInv, TypeT, ModeT
<1>5. KeysT => KeysT'
  BY <1>1, <1>3 DEF KeysT
<1> QED BY <1>1, <1>4, <1>5 DEF TermInv

LEMMA TermNext == TermInv /\ [TerminalNext]_terminalVars => TermInv'
<1> SUFFICES ASSUME TermInv, [TerminalNext]_terminalVars PROVE TermInv'
  OBVIOUS
<1>1. ASSUME NEW k \in DOMAIN Bytes, UserTypes(k) PROVE TermInv'
  BY <1>1, TypesKey
<1>2. CASE Send
  BY <1>2, Sending
<1>3. CASE Draw
  <2>1. /\ life = "running" /\ Prepared
        /\ UNCHANGED <<isatty, life, sending, queue, poll, typed, told, hasty>>
    BY <1>3 DEF Draw
  <2>2. /\ mode' \in [raw : BOOLEAN, nonblocking : BOOLEAN] /\ prepared' \in BOOLEAN /\ active' \in BOOLEAN
        /\ active' = mode'.raw
    BY <2>1, PreparedKeeps DEF TermInv
  <2>3. TypeT' /\ ModeT'
    BY <2>1, <2>2 DEF TermInv, TypeT, ModeT
  <2>4. KeysT => KeysT'
    BY <2>1 DEF KeysT
  <2> QED BY <2>1, <2>3, <2>4 DEF TermInv
<1>4. CASE ProgramEnds
  <2>1. /\ life' = "ended" /\ life = "running"
        /\ mode' = IF active THEN [mode EXCEPT !.raw = FALSE] ELSE mode
        /\ active' = (active /\ ~active)
        /\ UNCHANGED <<isatty, prepared, sending, queue, poll, typed, told, hasty>>
    BY <1>4 DEF ProgramEnds, Restores
  <2>2. mode' \in [raw : BOOLEAN, nonblocking : BOOLEAN] /\ ~mode'.raw
    BY <2>1 DEF TermInv, TypeT, ModeT
  <2>3. active' \in BOOLEAN
    BY <2>1, Zenon
  <2>4. TypeT' /\ ModeT'
    BY <2>1, <2>2, <2>3 DEF TermInv, TypeT, ModeT
  <2>5. KeysT => KeysT'
    BY <2>1 DEF KeysT
  <2> QED BY <2>1, <2>4, <2>5 DEF TermInv
<1>5. CASE Killed
  <2>1. /\ life' = "killed"
        /\ UNCHANGED <<isatty, mode, prepared, active, sending, queue, poll, typed, told, hasty>>
    BY <1>5 DEF Killed
  <2>2. TypeT' /\ ModeT'
    BY <2>1 DEF TermInv, TypeT, ModeT
  <2>3. KeysT => KeysT'
    BY <2>1 DEF KeysT
  <2> QED BY <2>1, <2>2, <2>3 DEF TermInv
<1>6. CASE Read
  BY <1>6, Reading
<1>7. CASE UNCHANGED terminalVars
  <2>1. UNCHANGED <<isatty, mode, prepared, active, life, sending, queue, poll, typed, told, hasty>>
    BY <1>7 DEF terminalVars
  <2>2. TypeT' /\ ModeT'
    BY <2>1 DEF TermInv, TypeT, ModeT
  <2>3. KeysT => KeysT'
    BY <2>1 DEF KeysT
  <2> QED BY <2>1, <2>2, <2>3 DEF TermInv
<1> QED BY <1>1, <1>2, <1>3, <1>4, <1>5, <1>6, <1>7 DEF TerminalNext

LEMMA TermKeeps == TermInv => TerminalKept
<1> SUFFICES ASSUME TermInv PROVE TerminalKept
  OBVIOUS
<1>1. life = "ended" => ~mode.raw
  BY DEF TermInv, ModeT
<1>2. ASSUME ~hasty PROVE IsPrefix(told, typed)
  <2>1. /\ Len(told) <= Len(typed) /\ (\A i \in 1..Len(told) : told[i] = typed[i])
    BY <1>2 DEF TermInv, KeysT
  <2>2. /\ told \in Seq(ByteNames \cup KeyNames) /\ typed \in Seq(KeyNames)
    BY DEF TermInv, TypeT
  <2>3. Len(told) \in Nat /\ Len(typed) \in Nat
    BY <2>2, LenProperties
  <2>4. SubSeq(told, 1, Len(told)) = [i \in 1..Len(told) |-> told[i]]
    BY <2>2, <2>3
  <2>5. SubSeq(typed, 1, Len(told)) = [i \in 1..Len(told) |-> typed[i]]
    BY <2>2, <2>3
  <2> QED BY <2>1, <2>4, <2>5 DEF IsPrefix
<1>3. ASSUME ~hasty, sending = << >>, queue = << >>, poll = << >> PROVE told = typed
  <2>1. queue \o sending = << >>
    BY <1>3
  <2>2. /\ Len(told) = Len(typed) /\ (\A i \in 1..Len(told) : told[i] = typed[i])
    BY <1>3, <2>1 DEF TermInv, KeysT, PollT, After
  <2>3. /\ told \in Seq(ByteNames \cup KeyNames) /\ typed \in Seq(KeyNames)
    BY DEF TermInv, TypeT
  <2> QED BY <2>2, <2>3, SameSeq
<1> QED BY <1>1, <1>2, <1>3 DEF TerminalKept

(* For any number of keys, typed at any time between the reads of          *)
(* aym_key_poll: however the program ends by itself the terminal is in     *)
(* line mode again, and keys are told once and in order as long as every   *)
(* escape sequence was there as a whole when it was read.                  *)
THEOREM KeysTold == TerminalSpec => []TerminalKept
<1>1. TerminalInit => TermInv
  BY TermInit
<1>2. TermInv /\ [TerminalNext]_terminalVars => TermInv'
  BY TermNext
<1>3. TermInv => TerminalKept
  BY TermKeeps
<1> QED BY <1>1, <1>2, <1>3, PTL DEF TerminalSpec
-----------------------------------------------------------------------------
(* The graphics session.                                                   *)
Part == {"display", "window", "gc", "pixels", "image", "window dc", "mem dc", "bitmap", "font"}
Paint == Colors \cup {0, White}
Picture == [ink : [Cells -> Paint], texts : Seq(Colors)]
Windows ==
  [has : SUBSET Part, alive : BOOLEAN, keys : SUBSET Codes, hits : SUBSET Codes, color : Paint, picture : Picture,
   hid : BOOLEAN, saw : BOOLEAN]
Events == [kind : {"press", "release"}, code : Codes] \cup [kind : {"other", "focus", "close"}, code : {"shift", ""}]
Owings == [Codes -> {"none", "made", "left"}]
Made(owed) == {c \in Codes : owed[c] = "made"}
PumpStates == [win : Windows, owed : Owings]

LEMMA NothingOwedIs == NothingOwed \in Owings /\ Made(NothingOwed) = {}
BY DEF NothingOwed, Owings, Made

LEMMA OwesIs ==
  ASSUME NEW owed \in Owings, NEW e \in Events
  PROVE  /\ Owes(owed, e) \in Owings
         /\ e.kind = "press" => Made(Owes(owed, e)) = Made(owed) \cup {e.code}
         /\ e.kind = "focus" => Made(Owes(owed, e)) = {}
         /\ e.kind \notin {"press", "focus"} => Owes(owed, e) = owed
<1>1. CASE e.kind = "press"
  <2>1. e.code \in Codes
    BY <1>1 DEF Events
  <2> DEFINE c == e.code
             v == [owed EXCEPT ![c] = "made"]
  <2>2. Owes(owed, e) = v
    BY <1>1 DEF Owes
  <2>3. v \in Owings /\ \A b \in Codes : v[b] = IF b = c THEN "made" ELSE owed[b]
    BY <2>1 DEF Owings
  <2> HIDE DEF v
  <2>4. Made(v) = Made(owed) \cup {c}
    BY <2>1, <2>3 DEF Made
  <2> QED BY <1>1, <2>2, <2>3, <2>4
<1>2. CASE e.kind = "focus"
  <2> DEFINE v == [c \in Codes |-> IF owed[c] = "made" THEN "left" ELSE owed[c]]
  <2>1. Owes(owed, e) = v
    BY <1>2 DEF Owes
  <2>2. v \in Owings /\ Made(v) = {}
    BY DEF Owings, Made
  <2> HIDE DEF v
  <2> QED BY <1>2, <2>1, <2>2
<1>3. CASE e.kind \notin {"press", "focus"}
  BY <1>3 DEF Owes
<1> QED BY <1>1, <1>2, <1>3

LEMMA DestroyedIs ==
  ASSUME NEW w \in Windows
  PROVE  /\ Destroyed(w) \in Windows /\ ~Destroyed(w).alive /\ Destroyed(w).has = w.has \ {"window"}
         /\ \A i \in {"keys", "hits", "color", "picture", "hid", "saw"} : Destroyed(w)[i] = w[i]
  BY DEF Destroyed, Windows

LEMMA ReleasedIs ==
  ASSUME NEW w \in Windows, NEW c \in Codes
  PROVE  /\ Released(w, c) \in Windows /\ Released(w, c).keys = w.keys \ {c}
         /\ \A i \in {"has", "alive", "hits", "color", "picture", "hid", "saw"} : Released(w, c)[i] = w[i]
  BY DEF Released, Windows

LEMMA PressedIs ==
  ASSUME NEW linux \in BOOLEAN, NEW w \in Windows, NEW c \in Codes
  PROVE  /\ Pressed(linux, w, c) \in Windows
         /\ Pressed(linux, w, c).keys = w.keys \cup {c} /\ Pressed(linux, w, c).hits = w.hits \cup {c}
         /\ \A i \in {"color", "picture", "hid", "saw"} : Pressed(linux, w, c)[i] = w[i]
         /\ IF ~linux /\ c = "escape"
              THEN ~Pressed(linux, w, c).alive /\ Pressed(linux, w, c).has = w.has \ {"window"}
              ELSE Pressed(linux, w, c).alive = w.alive /\ Pressed(linux, w, c).has = w.has
<1> DEFINE v == [w EXCEPT !.keys = @ \cup {c}, !.hits = @ \cup {c}]
<1>1. /\ v \in Windows /\ v.keys = w.keys \cup {c} /\ v.hits = w.hits \cup {c}
      /\ \A i \in {"has", "alive", "color", "picture", "hid", "saw"} : v[i] = w[i]
  BY DEF Windows
<1>2. Pressed(linux, w, c) = IF ~linux /\ c = "escape" THEN Destroyed(v) ELSE v
  BY DEF Pressed
<1> HIDE DEF v
<1>3. CASE ~linux /\ c = "escape"
  BY <1>1, <1>2, <1>3, DestroyedIs
<1>4. CASE linux \/ c # "escape"
  <2>1. Pressed(linux, w, c) = v
    BY <1>2, <1>4
  <2> QED BY <1>1, <2>1, <1>4
<1> QED BY <1>3, <1>4

(* What handling an event makes of the window, v.                          *)
Handles(linux, w, e, v) ==
  /\ v \in Windows
  /\ v.color = w.color /\ v.picture = w.picture /\ v.hid = w.hid /\ v.saw = w.saw
  /\ \/ v.alive = w.alive /\ v.has = w.has
     \/ ~v.alive /\ (v.has = w.has \/ (~linux /\ v.has = w.has \ {"window"}))
  /\ e.kind = "press" => v.keys = w.keys \cup {e.code} /\ v.hits = w.hits \cup {e.code}
  /\ e.kind = "release" => v.keys = w.keys \ {e.code} /\ v.hits = w.hits
  /\ e.kind = "focus" => v.keys = {} /\ v.hits = {}
  /\ e.kind \in {"other", "close"} => v.keys = w.keys /\ v.hits = w.hits
  /\ e.kind = "close" => ~v.alive

LEMMA HandleIs ==
  ASSUME NEW linux \in BOOLEAN, NEW w \in Windows, NEW e \in Events
  PROVE  Handles(linux, w, e, Handle(linux, w, e))
<1> DEFINE v == Handle(linux, w, e)
<1> SUFFICES Handles(linux, w, e, v)
  OBVIOUS
<1>0. e.kind \in {"press", "release", "other", "focus", "close"} /\ (e.kind \in {"press", "release"} => e.code \in Codes)
  BY DEF Events
<1>1. CASE e.kind = "press"
  <2>1. v = Pressed(linux, w, e.code)
    BY <1>1 DEF Handle
  <2> HIDE DEF v
  <2> QED BY <1>0, <1>1, <2>1, PressedIs DEF Handles
<1>2. CASE e.kind = "release"
  <2>1. v = Released(w, e.code)
    BY <1>2 DEF Handle
  <2> HIDE DEF v
  <2> QED BY <1>0, <1>2, <2>1, ReleasedIs DEF Handles
<1>3. CASE e.kind = "focus"
  <2>1. v = [w EXCEPT !.keys = {}, !.hits = {}]
    BY <1>3 DEF Handle
  <2> HIDE DEF v
  <2> QED BY <1>3, <2>1 DEF Handles, Windows
<1>4. CASE e.kind = "other"
  <2>1. v = w
    BY <1>4 DEF Handle
  <2> HIDE DEF v
  <2> QED BY <1>4, <2>1 DEF Handles
<1>5. CASE e.kind = "close" /\ linux
  <2>1. v = [w EXCEPT !.alive = FALSE]
    BY <1>5 DEF Handle
  <2> HIDE DEF v
  <2> QED BY <1>5, <2>1 DEF Handles, Windows
<1>6. CASE e.kind = "close" /\ ~linux
  <2>1. v = Destroyed(w)
    BY <1>6 DEF Handle
  <2> HIDE DEF v
  <2> QED BY <1>6, <2>1, DestroyedIs DEF Handles
<1> QED BY <1>0, <1>1, <1>2, <1>3, <1>4, <1>5, <1>6

LEMMA PumpOneTypes ==
  ASSUME NEW linux \in BOOLEAN, NEW s \in PumpStates, NEW e \in Events
  PROVE  PumpOne(linux, s, e) \in PumpStates
<1>1. s.win \in Windows /\ s.owed \in Owings
  BY DEF PumpStates
<1>2. Handle(linux, s.win, e) \in Windows
  BY <1>1, HandleIs DEF Handles
<1>3. Owes(s.owed, e) \in Owings
  BY <1>1, OwesIs
<1> QED BY <1>2, <1>3 DEF PumpOne, PumpStates
-----------------------------------------------------------------------------
IsPump(f, linux, s, events, n) ==
  /\ f \in [0..n -> PumpStates]
  /\ f[0] = s
  /\ \A i \in 1..n : f[i] = PumpOne(linux, f[i - 1], events[i])

LEMMA PumpExists ==
  ASSUME NEW linux \in BOOLEAN, NEW s \in PumpStates, NEW events \in Seq(Events), NEW n \in 0..Len(events)
  PROVE  \E f : IsPump(f, linux, s, events, n)
<1> DEFINE M == {m \in Nat : m <= Len(events) => \E f : IsPump(f, linux, s, events, m)}
<1>1. 0 \in M
  <2>1. IsPump([i \in 0..0 |-> s], linux, s, events, 0)
    BY DEF IsPump
  <2> QED BY <2>1
<1>2. ASSUME NEW m \in Nat, m \in M PROVE m + 1 \in M
  <2> SUFFICES ASSUME m + 1 <= Len(events) PROVE \E f : IsPump(f, linux, s, events, m + 1)
    OBVIOUS
  <2>0. m <= Len(events) /\ m + 1 \in 1..Len(events)
    OBVIOUS
  <2>1. PICK f : IsPump(f, linux, s, events, m)
    BY <1>2, <2>0
  <2> DEFINE next == PumpOne(linux, f[m], events[m + 1])
             g == [i \in 0..(m + 1) |-> IF i = m + 1 THEN next ELSE f[i]]
  <2>2. f[m] \in PumpStates /\ events[m + 1] \in Events
    BY <2>0, <2>1, ElementOfSeq DEF IsPump
  <2>3. next \in PumpStates
    BY <2>2, PumpOneTypes
  <2> HIDE DEF next
  <2>4. g \in [0..(m + 1) -> PumpStates]
    BY <2>1, <2>3 DEF IsPump
  <2>5. g[0] = s
    BY <2>1 DEF IsPump
  <2>6. ASSUME NEW i \in 1..(m + 1) PROVE g[i] = PumpOne(linux, g[i - 1], events[i])
    <3>1. CASE i = m + 1
      <4>1. g[i] = next /\ g[i - 1] = f[m]
        BY <3>1
      <4> QED BY <3>1, <4>1 DEF next
    <3>2. CASE i # m + 1
      <4>1. i \in 1..m /\ g[i] = f[i] /\ g[i - 1] = f[i - 1]
        BY <3>2
      <4> QED BY <2>1, <4>1 DEF IsPump
    <3> QED BY <3>1, <3>2
  <2> HIDE DEF g
  <2>7. IsPump(g, linux, s, events, m + 1)
    BY <2>4, <2>5, <2>6 DEF IsPump
  <2> QED BY <2>7
<1> HIDE DEF M
<1>3. Nat \subseteq M
  BY <1>1, <1>2, NatSetInduction
<1>4. n \in Nat /\ n <= Len(events)
  OBVIOUS
<1> QED BY <1>3, <1>4 DEF M

LEMMA PumpIs ==
  ASSUME NEW linux \in BOOLEAN, NEW s \in PumpStates, NEW events \in Seq(Events)
  PROVE  \E f : IsPump(f, linux, s, events, Len(events)) /\ PumpedBy(linux, s, events) = f[Len(events)]
<1> DEFINE n == Len(events)
           Body(f) == [i \in 0..n |-> IF i = 0 THEN s ELSE PumpOne(linux, f[i - 1], events[i])]
           after == CHOOSE f : f = Body(f)
<1>n. n \in Nat
  OBVIOUS
<1>1. PICK g : IsPump(g, linux, s, events, n)
  BY PumpExists
<1>4. PumpedBy(linux, s, events) = after[n]
  BY DEF PumpedBy
<1> HIDE DEF n
<1>2. g = Body(g)
  <2>1. DOMAIN g = 0..n /\ g = [i \in 0..n |-> g[i]]
    BY <1>1 DEF IsPump
  <2>2. ASSUME NEW i \in 0..n PROVE g[i] = Body(g)[i]
    <3>1. CASE i = 0
      BY <1>1, <3>1 DEF IsPump
    <3>2. CASE i # 0
      <4>1. i \in 1..n
        BY <1>n, <3>2
      <4> QED BY <1>1, <3>2, <4>1 DEF IsPump
    <3> QED BY <3>1, <3>2
  <2>3. DOMAIN Body(g) = 0..n /\ Body(g) = [i \in 0..n |-> Body(g)[i]]
    OBVIOUS
  <2> HIDE DEF Body
  <2>4. [i \in 0..n |-> g[i]] = [i \in 0..n |-> Body(g)[i]]
    BY <2>2
  <2> QED BY <2>1, <2>3, <2>4
<1>3. after = Body(after)
  <2> HIDE DEF Body
  <2> QED BY <1>2
<1> HIDE DEF after
<1>5. /\ DOMAIN after = 0..n /\ after[0] = s
      /\ \A i \in 1..n : after[i] = PumpOne(linux, after[i - 1], events[i])
  <2>1. after = [i \in 0..n |-> IF i = 0 THEN s ELSE PumpOne(linux, after[i - 1], events[i])]
    BY <1>3
  <2>2. DOMAIN after = 0..n
    BY <2>1
  <2>3. \A i \in 0..n : after[i] = IF i = 0 THEN s ELSE PumpOne(linux, after[i - 1], events[i])
    BY <2>1
  <2>4. \A i \in 1..n : i \in 0..n /\ i # 0
    BY <1>n
  <2>5. 0 \in 0..n
    BY <1>n
  <2> QED BY <2>2, <2>3, <2>4, <2>5
<1>6. \A i \in 0..n : after[i] = g[i]
  <2> DEFINE M == {i \in Nat : i <= n => after[i] = g[i]}
  <2>1. 0 \in M
    BY <1>1, <1>5 DEF IsPump
  <2>2. ASSUME NEW i \in Nat, i \in M PROVE i + 1 \in M
    <3> SUFFICES ASSUME i + 1 <= n PROVE after[i + 1] = g[i + 1]
      OBVIOUS
    <3>1. after[i] = g[i] /\ i + 1 \in 1..n /\ (i + 1) - 1 = i
      BY <1>n, <2>2
    <3> HIDE DEF M
    <3> QED BY <1>1, <1>5, <3>1 DEF IsPump
  <2> HIDE DEF M
  <2>3. Nat \subseteq M
    BY <2>1, <2>2, NatSetInduction
  <2> QED BY <1>n, <2>3 DEF M
<1>7. after[n] = g[n]
  BY <1>6, <1>n
<1>8. PumpedBy(linux, s, events) = g[n] /\ IsPump(g, linux, s, events, n)
  BY <1>1, <1>4, <1>7
<1> QED BY <1>8 DEF n

(* Two lists of events that begin alike, pumped from states in a relation  *)
(* that every event keeps, end in states in it.                            *)
Related(R, linux) ==
  \A a, b \in PumpStates, e \in Events : <<a, b>> \in R => <<PumpOne(linux, a, e), PumpOne(linux, b, e)>> \in R

LEMMA PumpRelated ==
  ASSUME NEW R, NEW linux \in BOOLEAN, Related(R, linux), NEW s, NEW t, <<s, t>> \in R,
         NEW es \in Seq(Events), NEW fs \in Seq(Events), NEW n \in 0..Len(es), n <= Len(fs), \A i \in 1..n : es[i] = fs[i],
         NEW m, NEW k, NEW f, IsPump(f, linux, s, es, m), NEW g, IsPump(g, linux, t, fs, k),
         m \in Nat, k \in Nat, n <= m, n <= k
  PROVE  <<f[n], g[n]>> \in R
<1> DEFINE M == {i \in Nat : i <= n => <<f[i], g[i]>> \in R}
<1>1. 0 \in M
  BY DEF IsPump
<1>2. ASSUME NEW i \in Nat, i \in M PROVE i + 1 \in M
  <2> SUFFICES ASSUME i + 1 <= n PROVE <<f[i + 1], g[i + 1]>> \in R
    OBVIOUS
  <2>1. <<f[i], g[i]>> \in R
    BY <1>2
  <2> HIDE DEF M
  <2>2. i \in 0..m /\ i \in 0..k /\ i + 1 \in 1..m /\ i + 1 \in 1..k /\ i + 1 \in 1..n /\ (i + 1) - 1 = i /\ i + 1 \in 1..Len(es)
    OBVIOUS
  <2>3. f[i] \in PumpStates /\ g[i] \in PumpStates
    BY <2>2 DEF IsPump
  <2>4. es[i + 1] \in Events /\ es[i + 1] = fs[i + 1]
    BY <2>2, ElementOfSeq
  <2>5. f[i + 1] = PumpOne(linux, f[i], es[i + 1]) /\ g[i + 1] = PumpOne(linux, g[i], es[i + 1])
    BY <2>2, <2>4 DEF IsPump
  <2> QED BY <2>1, <2>3, <2>4, <2>5 DEF Related
<1> HIDE DEF M
<1>3. Nat \subseteq M
  BY <1>1, <1>2, NatSetInduction
<1>4. n \in Nat
  OBVIOUS
<1> QED BY <1>3, <1>4 DEF M

LEMMA PumpTypes ==
  ASSUME NEW linux \in BOOLEAN, NEW s \in PumpStates, NEW es \in Seq(Events)
  PROVE  PumpedBy(linux, s, es) \in PumpStates
<1>1. Len(es) \in 0..Len(es)
  OBVIOUS
<1> QED BY <1>1, PumpIs DEF IsPump

LEMMA PumpNone ==
  ASSUME NEW linux \in BOOLEAN, NEW s \in PumpStates
  PROVE  PumpedBy(linux, s, << >>) = s
<1> DEFINE none == << >>
<1>1. none \in Seq(Events) /\ Len(none) = 0
  OBVIOUS
<1> HIDE DEF none
<1>2. PICK f : IsPump(f, linux, s, none, Len(none)) /\ PumpedBy(linux, s, none) = f[Len(none)]
  BY <1>1, PumpIs
<1>3. PumpedBy(linux, s, none) = s
  BY <1>1, <1>2 DEF IsPump
<1> QED BY <1>3 DEF none

LEMMA PumpMore ==
  ASSUME NEW linux \in BOOLEAN, NEW s \in PumpStates, NEW es \in Seq(Events), NEW e \in Events
  PROVE  PumpedBy(linux, s, Append(es, e)) = PumpOne(linux, PumpedBy(linux, s, es), e)
<1> DEFINE fs == Append(es, e)
           n == Len(es)
           R == {p \in PumpStates \X PumpStates : p[1] = p[2]}
<1>1. /\ fs \in Seq(Events) /\ Len(fs) = n + 1 /\ fs[n + 1] = e /\ n \in Nat /\ n = Len(es)
      /\ \A i \in 1..n : es[i] = fs[i]
  OBVIOUS
<1> HIDE DEF fs
<1>2. PICK f : IsPump(f, linux, s, es, Len(es)) /\ PumpedBy(linux, s, es) = f[Len(es)]
  BY PumpIs
<1>3. PICK g : IsPump(g, linux, s, fs, Len(fs)) /\ PumpedBy(linux, s, fs) = g[Len(fs)]
  BY <1>1, PumpIs
<1>4. Related(R, linux)
  <2> SUFFICES ASSUME NEW a \in PumpStates, NEW b \in PumpStates, NEW x \in Events, <<a, b>> \in R
               PROVE  <<PumpOne(linux, a, x), PumpOne(linux, b, x)>> \in R
    BY DEF Related
  <2>1. a = b /\ PumpOne(linux, a, x) \in PumpStates
    BY PumpOneTypes
  <2> QED BY <2>1
<1>5. <<s, s>> \in R
  OBVIOUS
<1> HIDE DEF n, R
<1>6. n \in 0..Len(es) /\ n <= Len(fs) /\ Len(fs) \in Nat /\ Len(es) \in Nat /\ n <= Len(es)
  BY <1>1
<1>7. <<f[n], g[n]>> \in R
  BY <1>1, <1>2, <1>3, <1>4, <1>5, <1>6, PumpRelated
<1>8. f[n] = g[n]
  BY <1>7 DEF R
<1>9. g[n + 1] = PumpOne(linux, g[n], e)
  <2>1. n + 1 \in 1..Len(fs) /\ (n + 1) - 1 = n
    BY <1>1
  <2> QED BY <1>1, <1>3, <2>1 DEF IsPump
<1>10. PumpedBy(linux, s, fs) = g[n + 1] /\ PumpedBy(linux, s, es) = f[n]
  BY <1>1, <1>2, <1>3
<1> QED BY <1>8, <1>9, <1>10 DEF fs

(* Pumping does not look at the colour, nor set it.                        *)
LEMMA PumpColored ==
  ASSUME NEW linux \in BOOLEAN, NEW s \in PumpStates, NEW t \in PumpStates, NEW es \in Seq(Events),
         s.win.has = t.win.has, s.win.alive = t.win.alive, s.win.keys = t.win.keys
  PROVE  /\ PumpedBy(linux, s, es).win.alive = PumpedBy(linux, t, es).win.alive
         /\ PumpedBy(linux, s, es).win.keys = PumpedBy(linux, t, es).win.keys
<1> DEFINE R == {p \in PumpStates \X PumpStates :
                   /\ p[1].win.has = p[2].win.has /\ p[1].win.alive = p[2].win.alive
                   /\ p[1].win.keys = p[2].win.keys}
<1>1. Related(R, linux)
  <2> SUFFICES ASSUME NEW a \in PumpStates, NEW b \in PumpStates, NEW x \in Events, <<a, b>> \in R
               PROVE  <<PumpOne(linux, a, x), PumpOne(linux, b, x)>> \in R
    BY DEF Related
  <2>1. a.win.has = b.win.has /\ a.win.alive = b.win.alive /\ a.win.keys = b.win.keys
    OBVIOUS
  <2>2. PumpOne(linux, a, x) \in PumpStates /\ PumpOne(linux, b, x) \in PumpStates
    BY PumpOneTypes
  <2>3. CASE "window" \notin a.win.has
    <3>1. PumpOne(linux, a, x) = a /\ PumpOne(linux, b, x) = b
      BY <2>1, <2>3 DEF PumpOne
    <3> QED BY <3>1
  <2>4. CASE "window" \in a.win.has
    <3> DEFINE v == a.win
               w == b.win
               v2 == Handle(linux, v, x)
               w2 == Handle(linux, w, x)
    <3>1. PumpOne(linux, a, x).win = v2 /\ PumpOne(linux, b, x).win = w2
      BY <2>1, <2>4 DEF PumpOne
    <3>2. v \in Windows /\ w \in Windows /\ v.has = w.has /\ v.alive = w.alive /\ v.keys = w.keys
      BY <2>1 DEF PumpStates
    <3> HIDE DEF v, w
    <3>3. v2.has = w2.has /\ v2.alive = w2.alive /\ v2.keys = w2.keys
      BY <3>2 DEF Handle, Pressed, Released, Destroyed, Windows
    <3> HIDE DEF v2, w2
    <3> QED BY <2>2, <3>1, <3>3
  <2> QED BY <2>3, <2>4
<1>2. <<s, t>> \in R
  OBVIOUS
<1>3. PICK f : IsPump(f, linux, s, es, Len(es)) /\ PumpedBy(linux, s, es) = f[Len(es)]
  BY PumpIs
<1>4. PICK g : IsPump(g, linux, t, es, Len(es)) /\ PumpedBy(linux, t, es) = g[Len(es)]
  BY PumpIs
<1>5. Len(es) \in Nat /\ Len(es) \in 0..Len(es) /\ Len(es) <= Len(es)
  OBVIOUS
<1> DEFINE n == Len(es)
<1>6. <<f[n], g[n]>> \in R
  <2> HIDE DEF R
  <2> QED BY <1>1, <1>2, <1>3, <1>4, <1>5, PumpRelated
<1> QED BY <1>3, <1>4, <1>6

(* What pumping makes of s, p.                                             *)
PumpsTo(linux, s, p) ==
  /\ p \in PumpStates
  /\ p.win.color = s.win.color /\ p.win.picture = s.win.picture /\ p.win.hid = s.win.hid /\ p.win.saw = s.win.saw
  /\ p.win.has = s.win.has \/ (~linux /\ p.win.has = s.win.has \ {"window"})
  /\ p.win.alive => s.win.alive /\ p.win.has = s.win.has
  /\ (s.win.alive => Made(s.owed) \subseteq s.win.hits) => (p.win.alive => Made(p.owed) \subseteq p.win.hits)

LEMMA PumpOneIs ==
  ASSUME NEW linux \in BOOLEAN, NEW s \in PumpStates, NEW p, PumpsTo(linux, s, p), NEW e \in Events
  PROVE  PumpsTo(linux, s, PumpOne(linux, p, e))
<1>0. p \in PumpStates /\ PumpOne(linux, p, e) \in PumpStates
  BY PumpOneTypes DEF PumpsTo
<1>1. CASE "window" \notin p.win.has
  <2>1. PumpOne(linux, p, e) = p
    BY <1>1 DEF PumpOne
  <2> QED BY <2>1
<1>2. CASE "window" \in p.win.has
  <2> DEFINE v == Handle(linux, p.win, e)
             q == PumpOne(linux, p, e)
  <2>1. q.win = v /\ q.owed = Owes(p.owed, e)
    BY <1>2 DEF PumpOne
  <2>2. p.win \in Windows /\ p.owed \in Owings
    BY <1>0 DEF PumpStates
  <2>3. Handles(linux, p.win, e, v)
    BY <2>2, HandleIs
  <2> HIDE DEF v, q
  <2>4. q.win.alive => p.win.alive /\ q.win.has = p.win.has
    BY <2>1, <2>3 DEF Handles
  <2>5. q.win.has = p.win.has \/ (~linux /\ q.win.has = p.win.has \ {"window"})
    BY <2>1, <2>3 DEF Handles
  <2>6. /\ q.win.color = p.win.color /\ q.win.picture = p.win.picture
        /\ q.win.hid = p.win.hid /\ q.win.saw = p.win.saw
    BY <2>1, <2>3 DEF Handles
  <2>7. Made(p.owed) \subseteq p.win.hits => Made(q.owed) \subseteq q.win.hits
    <3>1. e.kind \in {"press", "release", "other", "focus", "close"}
      BY DEF Events
    <3>2. CASE e.kind = "press"
      <4>1. Made(q.owed) = Made(p.owed) \cup {e.code} /\ q.win.hits = p.win.hits \cup {e.code}
        BY <2>1, <2>2, <2>3, <3>2, OwesIs DEF Handles
      <4> QED BY <4>1
    <3>3. CASE e.kind = "focus"
      BY <2>1, <2>2, <3>3, OwesIs
    <3>4. CASE e.kind \in {"release", "other", "close"}
      <4>1. q.owed = p.owed /\ q.win.hits = p.win.hits
        BY <2>1, <2>2, <2>3, <3>4, OwesIs DEF Handles
      <4> QED BY <4>1
    <3> QED BY <3>1, <3>2, <3>3, <3>4
  <2>8. q.win.has = s.win.has \/ (~linux /\ q.win.has = s.win.has \ {"window"})
    BY <2>5 DEF PumpsTo
  <2>9. q \in PumpStates
    BY <1>0 DEF q
  <2>10. PumpsTo(linux, s, q)
    BY <2>4, <2>6, <2>7, <2>8, <2>9 DEF PumpsTo
  <2> QED BY <2>10 DEF q
<1> QED BY <1>1, <1>2

LEMMA PumpedIs ==
  ASSUME NEW linux \in BOOLEAN, NEW s \in PumpStates, NEW es \in Seq(Events)
  PROVE  PumpsTo(linux, s, PumpedBy(linux, s, es))
<1> DEFINE R == {p \in PumpStates \X PumpStates : PumpsTo(linux, s, p[1])}
<1>1. Related(R, linux)
  <2> SUFFICES ASSUME NEW a \in PumpStates, NEW b \in PumpStates, NEW x \in Events, <<a, b>> \in R
               PROVE  <<PumpOne(linux, a, x), PumpOne(linux, b, x)>> \in R
    BY DEF Related
  <2>1. PumpsTo(linux, s, a)
    OBVIOUS
  <2>2. PumpOne(linux, a, x) \in PumpStates /\ PumpOne(linux, b, x) \in PumpStates
    BY PumpOneTypes
  <2>3. PumpsTo(linux, s, PumpOne(linux, a, x))
    BY <2>1, PumpOneIs
  <2> QED BY <2>2, <2>3
<1>2. <<s, s>> \in R
  BY DEF PumpsTo
<1>3. PICK f : IsPump(f, linux, s, es, Len(es)) /\ PumpedBy(linux, s, es) = f[Len(es)]
  BY PumpIs
<1>5. Len(es) \in Nat /\ Len(es) \in 0..Len(es) /\ Len(es) <= Len(es)
  OBVIOUS
<1> DEFINE n == Len(es)
<1>6. <<f[n], f[n]>> \in R
  <2> HIDE DEF R
  <2> QED BY <1>1, <1>2, <1>3, <1>5, PumpRelated
<1> QED BY <1>3, <1>6
-----------------------------------------------------------------------------
World == [events : Seq(Events), pressed : SUBSET PhysicalKeys, shift : BOOLEAN, console : BOOLEAN]
Past ==
  [meant : Picture, covered : BOOLEAN, owed : Owings, missed : SUBSET {"made", "left"}, disturbed : BOOLEAN,
   abandoned : BOOLEAN, leaked : Nat]
SessionTypes ==
  /\ platform \in {"linux", "windows"} /\ win \in Windows /\ world \in World /\ past \in Past

(* What there is of a session: all of it or, on Windows, all but a window  *)
(* the user has closed, unless one was abandoned; and the console can be   *)
(* shown again.                                                            *)
SessionKept ==
  /\ win.alive => Needed \subseteq win.has
  /\ "window" \notin win.has => world.events = << >>
  /\ Linux => world.console /\ (~past.abandoned => win.has = {} \/ win.has = Needed)
  /\ ~Linux => win.has = {} \/ "window dc" \in win.has
  /\ ~Linux /\ ~past.abandoned /\ (win.has = {} \/ ~(win.hid /\ win.saw)) => world.console
  /\ ~past.abandoned => past.leaked = 0 /\ (last.call = "close" => win.has = {} /\ world.console)

(* A press the program is owed is a hit, and what pumping would make of the   *)
(* keys that count as down are the keys that are.                          *)
HeldCodes == {Code(k, world.shift) : k \in world.pressed}
KeysKept ==
  /\ "made" \notin past.missed
  /\ win.alive => Made(past.owed) \subseteq win.hits
  /\ win.alive /\ Pumped.win.alive /\ ~past.disturbed => Pumped.win.keys = HeldCodes

DrawingKept ==
  /\ win.alive /\ ~past.covered => win.picture = past.meant
  /\ ShowsWhatWasDrawn

SessionInv == SessionTypes /\ SessionKept /\ KeysKept /\ DrawingKept

LEMMA PumpedFacts ==
  ASSUME SessionInv
  PROVE  /\ Linux \in BOOLEAN /\ [win |-> win, owed |-> past.owed] \in PumpStates
         /\ world.events \in Seq(Events)
         /\ PumpsTo(Linux, [win |-> win, owed |-> past.owed], Pumped)
<1>1. Linux \in BOOLEAN
  BY DEF Linux
<1>2. [win |-> win, owed |-> past.owed] \in PumpStates
  BY DEF SessionInv, SessionTypes, PumpStates, Past
<1>3. world.events \in Seq(Events)
  BY DEF SessionInv, SessionTypes, World
<1> QED BY <1>1, <1>2, <1>3, PumpedIs DEF Pumped

LEMMA PumpedWin ==
  ASSUME SessionInv
  PROVE  /\ Pumped.win \in Windows /\ Pumped.owed \in Owings
         /\ Pumped.win.color = win.color /\ Pumped.win.picture = win.picture
         /\ Pumped.win.hid = win.hid /\ Pumped.win.saw = win.saw
         /\ Pumped.win.has = win.has \/ (~Linux /\ Pumped.win.has = win.has \ {"window"})
         /\ Pumped.win.alive => win.alive /\ Pumped.win.has = win.has
         /\ win.alive /\ Pumped.win.alive => Made(Pumped.owed) \subseteq Pumped.win.hits
<1> DEFINE s == [win |-> win, owed |-> past.owed]
<1>1. PumpsTo(Linux, s, Pumped)
  BY PumpedFacts
<1>2. s.win = win /\ s.owed = past.owed
  OBVIOUS
<1>3. win.alive => Made(past.owed) \subseteq win.hits
  BY DEF SessionInv, KeysKept
<1> HIDE DEF s
<1> QED BY <1>1, <1>2, <1>3 DEF PumpsTo, PumpStates

LEMMA InitKept == GraphicsInit => SessionInv
<1> SUFFICES ASSUME GraphicsInit PROVE SessionInv
  OBVIOUS
<1>1. Blank \in Picture
  BY DEF Blank, Picture, Paint
<1>2. << >> \in Seq(Events)
  OBVIOUS
<1>3. SessionTypes
  <2>1. platform \in {"linux", "windows"} /\ win \in Windows
    BY <1>1 DEF GraphicsInit, Windows, Paint
  <2>2. world \in World
    BY <1>2 DEF GraphicsInit, World
  <2>3. past \in Past
    BY <1>1, NothingOwedIs DEF GraphicsInit, Past
  <2> QED BY <2>1, <2>2, <2>3 DEF SessionTypes
<1>4. SessionKept
  BY DEF GraphicsInit, SessionKept
<1>5. KeysKept
  BY NothingOwedIs DEF GraphicsInit, KeysKept
<1>6. DrawingKept
  BY DEF GraphicsInit, DrawingKept, ShowsWhatWasDrawn
<1> QED BY <1>3, <1>4, <1>5, <1>6 DEF SessionInv

(* What there is to pump matters only while the window is open.            *)
LEMMA ClosedKeys ==
  ASSUME ~win.alive, "made" \notin past.missed
  PROVE  KeysKept
BY DEF KeysKept
-----------------------------------------------------------------------------
(* Closing, and what opening starts from.                                  *)
LEMMA ClosedIs ==
  ASSUME NEW w \in Windows
  PROVE  /\ Closed(w) \in Windows /\ ~Closed(w).alive
         /\ Closed(w).has = IF Linux /\ "image" \notin w.has THEN w.has \cap {"pixels"} ELSE {}
<1> DEFINE h == IF Linux /\ "image" \notin w.has THEN w.has \cap {"pixels"} ELSE {}
           c == IF Linux THEN 0 ELSE w.color
           d == [w.picture EXCEPT !.texts = << >>]
           v == [w EXCEPT !.has = h, !.alive = FALSE, !.keys = {}, !.hits = {}, !.hid = FALSE, !.saw = FALSE,
                          !.color = c, !.picture = d]
<1>1. Closed(w) = v
  BY DEF Closed, Windows
<1>2. h \in SUBSET Part /\ c \in Paint
  BY DEF Windows, Paint
<1>3. w.picture \in Picture
  BY DEF Windows
<1>4. d \in Picture
  <2> DEFINE q == w.picture
             none == << >>
  <2>1. none \in Seq(Colors)
    OBVIOUS
  <2> HIDE DEF none
  <2>2. [q EXCEPT !.texts = none] \in Picture
    <3> HIDE DEF q
    <3>1. q \in Picture
      BY <1>3 DEF q
    <3> QED BY <2>1, <3>1 DEF Picture
  <2> QED BY <2>2 DEF none
<1> HIDE DEF h, c, d
<1>5. v \in Windows /\ ~v.alive /\ v.has = h
  BY <1>2, <1>4 DEF Windows
<1> QED BY <1>1, <1>5 DEF h

LEMMA BeforeCloseIs ==
  ASSUME SessionInv
  PROVE  /\ BeforeClose \in Windows /\ BeforeClose.hid = win.hid /\ BeforeClose.saw = win.saw
         /\ Linux => BeforeClose.has = win.has
<1>1. win \in Windows
  BY DEF SessionInv, SessionTypes
<1> QED BY <1>1, PumpedWin DEF BeforeClose

LEMMA AfterCloseIs ==
  ASSUME SessionInv, NEW w \in Windows, w.hid = win.hid, w.saw = win.saw
  PROVE  /\ AfterClose(w) \in World /\ AfterClose(w).events = << >>
         /\ AfterClose(w).pressed = world.pressed
         /\ Linux => AfterClose(w).console
         /\ ~past.abandoned => AfterClose(w).console
<1> DEFINE c == world.console \/ (~Linux /\ w.hid /\ w.saw)
           v == [world EXCEPT !.events = << >>, !.console = c]
<1>1. AfterClose(w) = v
  BY DEF AfterClose, NoEvents, SessionInv, SessionTypes, World
<1>2. c \in BOOLEAN /\ world \in World
  BY DEF SessionInv, SessionTypes, World, Windows
<1>3. << >> \in Seq(Events)
  OBVIOUS
<1>4. /\ Linux => c
      /\ ~past.abandoned => c
  BY DEF SessionInv, SessionKept
<1> HIDE DEF c
<1>5. v \in World /\ v.events = << >> /\ v.pressed = world.pressed /\ v.console = c
  BY <1>2, <1>3 DEF World
<1> QED BY <1>1, <1>4, <1>5

(* A session that was not abandoned is gone before another one is opened.  *)
LEMMA StartIs ==
  ASSUME SessionInv
  PROVE  /\ Start \in Windows /\ ~Start.alive /\ "window" \notin Start.has
         /\ Around \in World /\ Around.events = << >>
         /\ Linux => Around.console /\ (~past.abandoned => Start.has = {})
         /\ ~Linux => Start.has = {} \/ "window dc" \in Start.has
         /\ ~Linux /\ ~past.abandoned /\ (Start.has = {} \/ ~(Start.hid /\ Start.saw)) => Around.console
<1>0. SessionTypes /\ SessionKept
  BY DEF SessionInv
<1>1. CASE EndsFirst
  <2> DEFINE b == BeforeClose
             h == Closed(b).has
             a == AfterClose(b)
  <2>1. Start = Closed(b) /\ Around = a
    BY <1>1 DEF Start, Around
  <2>2. b \in Windows /\ b.hid = win.hid /\ b.saw = win.saw /\ (Linux => b.has = win.has)
    BY BeforeCloseIs
  <2> HIDE DEF b
  <2>3. Closed(b) \in Windows /\ ~Closed(b).alive /\ h = IF Linux /\ "image" \notin b.has THEN b.has \cap {"pixels"} ELSE {}
    BY <2>2, ClosedIs
  <2>4. /\ a \in World /\ a.events = << >> /\ (Linux => a.console) /\ (~past.abandoned => a.console)
    BY <2>2, AfterCloseIs
  <2>5. Linux /\ ~past.abandoned => h = {}
    <3>1. Linux /\ ~past.abandoned => win.has = {} \/ win.has = Needed
      BY <1>0 DEF SessionKept
    <3>2. Linux => "image" \in Needed
      BY DEF Needed
    <3> QED BY <2>2, <2>3, <3>1, <3>2
  <2>6. "window" \notin h /\ (~Linux => h = {})
    BY <2>3
  <2> HIDE DEF h, a
  <2>7. Start.has = h
    BY <2>1 DEF h
  <2> QED BY <2>1, <2>3, <2>4, <2>5, <2>6, <2>7
<1>2. CASE ~EndsFirst
  <2>1. Start = win /\ Around = world
    BY <1>2 DEF Start, Around
  <2>2. win.alive => "window" \in win.has
    BY <1>0 DEF SessionKept, Needed
  <2>3. ~win.alive /\ "window" \notin win.has
    BY <1>2, <2>2 DEF EndsFirst
  <2>5. win \in Windows /\ world \in World
    BY <1>0 DEF SessionTypes
  <2>6. Linux => (~past.abandoned => win.has = {})
    <3>1. "window" \in Needed
      BY DEF Needed
    <3> QED BY <1>0, <2>3, <3>1 DEF SessionKept
  <2> QED BY <1>0, <2>1, <2>3, <2>5, <2>6 DEF SessionKept
<1> QED BY <1>1, <1>2
-----------------------------------------------------------------------------
LEMMA PartFinite == IsFiniteSet(Part)
<1> DEFINE P1 == {"display"}
           P2 == P1 \cup {"window"}
           P3 == P2 \cup {"gc"}
           P4 == P3 \cup {"pixels"}
           P5 == P4 \cup {"image"}
           P6 == P5 \cup {"window dc"}
           P7 == P6 \cup {"mem dc"}
           P8 == P7 \cup {"bitmap"}
           P9 == P8 \cup {"font"}
<1>1. Part = P9
  BY DEF Part
<1>2. IsFiniteSet(P1)
  BY FS_Singleton
<1> HIDE DEF P1
<1>3. IsFiniteSet(P2)
  BY <1>2, FS_AddElement
<1> HIDE DEF P2
<1>4. IsFiniteSet(P3)
  BY <1>3, FS_AddElement
<1> HIDE DEF P3
<1>5. IsFiniteSet(P4)
  BY <1>4, FS_AddElement
<1> HIDE DEF P4
<1>6. IsFiniteSet(P5)
  BY <1>5, FS_AddElement
<1> HIDE DEF P5
<1>7. IsFiniteSet(P6)
  BY <1>6, FS_AddElement
<1> HIDE DEF P6
<1>8. IsFiniteSet(P7)
  BY <1>7, FS_AddElement
<1> HIDE DEF P7
<1>9. IsFiniteSet(P8)
  BY <1>8, FS_AddElement
<1> HIDE DEF P8
<1>10. IsFiniteSet(P9)
  BY <1>9, FS_AddElement
<1> QED BY <1>1, <1>10

(* The parts there are can be counted, and are none only of no part.       *)
LEMMA PartsCounted == ASSUME NEW S \in SUBSET Part PROVE Cardinality(S) \in Nat /\ (S = {} => Cardinality(S) = 0)
BY PartFinite, FS_Subset, FS_CardinalityType, FS_EmptySet

LEMMA BlankIs == Blank \in Picture
  BY DEF Blank, Picture, Paint

(* A step that leaves no window open keeps what is said of keys and        *)
(* drawings when it is not a presentation.                                 *)
LEMMA NotOpenKeeps ==
  ASSUME SessionInv, ~win'.alive, past'.missed = past.missed, last'.call # "present"
  PROVE  KeysKept' /\ DrawingKept'
  BY DEF SessionInv, KeysKept, DrawingKept, ShowsWhatWasDrawn

(* Nothing is left to pump.                                                *)
LEMMA PumpedDone == ASSUME SessionTypes', world'.events = << >> PROVE (Pumped').win = win'
<1> DEFINE s == [win |-> win', owed |-> past'.owed]
           linux == Linux'
<1>1. linux \in BOOLEAN
  BY DEF Linux
<1>2. s \in PumpStates /\ s.win = win'
  BY DEF SessionTypes, PumpStates, Past
<1>3. Pumped' = PumpedBy(linux, s, << >>)
  BY DEF Pumped
<1> HIDE DEF s, linux
<1> QED BY <1>1, <1>2, <1>3, PumpNone

(* A window just opened.                                                   *)
LEMMA NewOpenKeeps ==
  ASSUME SessionInv, SessionTypes', win'.alive, world'.events = << >>, win'.keys = {}, win'.picture = Blank,
         past'.meant = Blank, past'.owed = NothingOwed, past'.missed = past.missed,
         past'.disturbed = (world'.pressed # {}), last'.call # "present"
  PROVE  KeysKept' /\ DrawingKept'
<1>1. (Pumped').win = win'
  BY PumpedDone
<1>2. world'.pressed \in SUBSET PhysicalKeys
  BY DEF SessionTypes, World
<1>3. ~past'.disturbed => HeldCodes' = {}
  BY DEF HeldCodes
<1>4. KeysKept'
  BY <1>1, <1>3, NothingOwedIs DEF SessionInv, KeysKept
<1>5. DrawingKept'
  BY DEF DrawingKept, ShowsWhatWasDrawn
<1> QED BY <1>4, <1>5

LEMMA CloseKeeps == ASSUME SessionInv, Close PROVE SessionInv'
<1> DEFINE b == BeforeClose
           a == AfterClose(b)
<1>1. b \in Windows /\ b.hid = win.hid /\ b.saw = win.saw /\ (Linux => b.has = win.has)
  BY BeforeCloseIs
<1>2. /\ win' = Closed(b) /\ world' = a /\ last' = [call |-> "close", shown |-> Blank]
      /\ past' = [past EXCEPT !.owed = NothingOwed] /\ platform' = platform
  BY DEF Close, Was
<1> HIDE DEF b
<1>3. win' \in Windows /\ ~win'.alive /\ win'.has = IF Linux /\ "image" \notin b.has THEN b.has \cap {"pixels"} ELSE {}
  BY <1>1, <1>2, ClosedIs
<1>4. a \in World /\ a.events = << >> /\ (Linux => a.console) /\ (~past.abandoned => a.console)
  BY <1>1, AfterCloseIs
<1> HIDE DEF a
<1>5. past \in Past
  BY DEF SessionInv, SessionTypes
<1>6. past' \in Past /\ past'.abandoned = past.abandoned /\ past'.leaked = past.leaked /\ past'.missed = past.missed
  BY <1>2, <1>5, NothingOwedIs DEF Past
<1>7. SessionTypes'
  BY <1>2, <1>3, <1>4, <1>6 DEF SessionInv, SessionTypes
<1>8. Linux' = Linux
  BY <1>2 DEF Linux
<1>9. ~past.abandoned => win'.has = {}
  <2>1. Linux /\ ~past.abandoned => win.has = {} \/ win.has = Needed
    BY DEF SessionInv, SessionKept
  <2>2. Linux => "image" \in Needed
    BY DEF Needed
  <2> QED BY <1>1, <1>3, <2>1, <2>2
<1>10. ~past.abandoned => past.leaked = 0
  BY DEF SessionInv, SessionKept
<1>11. SessionKept'
  BY <1>2, <1>3, <1>4, <1>6, <1>8, <1>9, <1>10 DEF SessionKept
<1>12. KeysKept' /\ DrawingKept'
  BY <1>2, <1>3, <1>6, NotOpenKeeps
<1> QED BY <1>7, <1>11, <1>12 DEF SessionInv

LEMMA LinuxOpenKeeps ==
  ASSUME SessionInv, Linux, NEW stage \in LinuxStages, LinuxOpen(stage), UNCHANGED platform, last'.call = "other"
  PROVE  SessionInv'
<1>1. /\ Start \in Windows /\ ~Start.alive /\ "window" \notin Start.has
      /\ Around \in World /\ Around.events = << >> /\ Around.console /\ (~past.abandoned => Start.has = {})
  BY StartIs
<1> DEFINE s == Start
           a == Around
           gone == stage \in {"pixels", "image", "done"}
           lost == IF gone THEN past.leaked + Cardinality(s.has) ELSE past.leaked
           bad == past.abandoned \/ stage = "image"
           dis == a.pressed # {}
<1>2. world' = a /\ past' = [past EXCEPT !.owed = NothingOwed, !.abandoned = bad, !.leaked = lost,
                          !.meant = Blank, !.covered = FALSE, !.disturbed = dis]
  <2>1. past' = [past EXCEPT !.owed = NothingOwed, !.abandoned = @ \/ stage = "image",
                          !.leaked = IF stage \in {"pixels", "image", "done"}
                                       THEN @ + Cardinality(Start.has) ELSE @,
                          !.meant = Blank, !.covered = FALSE, !.disturbed = Around.pressed # {}]
    BY DEF LinuxOpen
  <2> QED BY <2>1 DEF LinuxOpen, SessionInv, SessionTypes, Past
<1>3. past \in Past /\ Blank \in Picture /\ past.leaked \in Nat
  BY BlankIs DEF SessionInv, SessionTypes, Past
<1>4. lost \in Nat /\ (~past.abandoned => lost = past.leaked)
  <2>1. s.has \in SUBSET Part
    BY <1>1 DEF Windows
  <2> DEFINE n == Cardinality(s.has)
             old == past.leaked
  <2>2. n \in Nat /\ (s.has = {} => n = 0) /\ old \in Nat
    BY <1>3, <2>1, PartsCounted
  <2>3. ~past.abandoned => s.has = {}
    BY <1>1
  <2> HIDE DEF n, s
  <2>4. (IF gone THEN old + n ELSE old) \in Nat /\ (~past.abandoned => (IF gone THEN old + n ELSE old) = old)
    <3> HIDE DEF gone, old
    <3> QED BY <2>2, <2>3
  <2> QED BY <2>4 DEF n
<1>5. bad \in BOOLEAN /\ dis \in BOOLEAN
  BY <1>3 DEF Past
<1> HIDE DEF lost, bad, dis
<1>6. /\ past' \in Past /\ past'.owed = NothingOwed /\ past'.abandoned = bad /\ past'.leaked = lost /\ past'.meant = Blank
      /\ past'.missed = past.missed /\ past'.disturbed = dis
  BY <1>2, <1>3, <1>4, <1>5, NothingOwedIs DEF Past
<1>7. Linux' /\ Needed' = Needed
  BY DEF Linux, Needed
<1>8. ~past.abandoned => past.leaked = 0
  BY DEF SessionInv, SessionKept
<1>9. CASE stage = "done"
  <2>1. win' = [s EXCEPT !.has = Needed, !.alive = TRUE, !.color = White, !.keys = {}, !.hits = {}, !.picture = Blank]
    BY <1>9 DEF LinuxOpen
  <2>2. Needed \in SUBSET Part /\ White \in Paint
    BY DEF Needed, Part, Paint
  <2> HIDE DEF s, a
  <2>3. win' \in Windows /\ win'.has = Needed /\ win'.alive /\ win'.keys = {} /\ win'.picture = Blank
    BY <1>1, <1>3, <2>1, <2>2 DEF s, Windows
  <2>4. SessionTypes'
    BY <1>1, <1>2, <1>6, <2>3 DEF a, SessionInv, SessionTypes
  <2>5. "window" \in Needed
    BY DEF Needed
  <2>6. SessionKept'
    BY <1>1, <1>2, <1>4, <1>6, <1>7, <1>8, <2>3, <2>5 DEF a, SessionKept, bad
  <2>7. KeysKept' /\ DrawingKept'
    BY <1>1, <1>2, <1>6, <2>3, <2>4, NewOpenKeeps DEF a, dis
  <2> QED BY <2>4, <2>6, <2>7 DEF SessionInv
<1>10. CASE stage # "done"
  <2> DEFINE v == IF stage = "display" THEN s ELSE Closed(s)
             h == Reaches(stage)
  <2>1. win' = [v EXCEPT !.has = h]
    BY <1>10 DEF LinuxOpen
  <2>2. v \in Windows /\ ~v.alive
    BY <1>1, ClosedIs
  <2>3. h \in SUBSET Part /\ "window" \notin h /\ (~bad => h = {})
    <3>1. s.has \in SUBSET Part /\ {"pixels"} \in SUBSET Part
      BY <1>1 DEF Windows, Part
    <3> QED BY <1>1, <3>1 DEF Reaches, bad
  <2> HIDE DEF v, h, s, a
  <2>4. win' \in Windows /\ ~win'.alive /\ win'.has = h
    BY <2>1, <2>2, <2>3 DEF Windows
  <2>5. SessionTypes'
    BY <1>1, <1>2, <1>6, <2>4 DEF a, SessionInv, SessionTypes
  <2>6. SessionKept'
    BY <1>1, <1>2, <1>4, <1>6, <1>7, <1>8, <2>3, <2>4 DEF a, SessionKept, bad
  <2>7. KeysKept' /\ DrawingKept'
    BY <1>6, <2>4, NotOpenKeeps
  <2> QED BY <2>5, <2>6, <2>7 DEF SessionInv
<1> QED BY <1>9, <1>10

LEMMA WindowsOpenKeeps ==
  ASSUME SessionInv, ~Linux, NEW done \in BOOLEAN, NEW font \in BOOLEAN, WindowsOpen(done, font), UNCHANGED platform,
         last'.call = "other"
  PROVE  SessionInv'
<1>1. /\ Start \in Windows /\ ~Start.alive /\ "window" \notin Start.has /\ Around \in World /\ Around.events = << >>
      /\ Start.has = {} \/ "window dc" \in Start.has
      /\ ~past.abandoned /\ (Start.has = {} \/ ~(Start.hid /\ Start.saw)) => Around.console
  BY StartIs
<1> DEFINE s == Start
           a == Around
           lost == IF done THEN past.leaked + Cardinality(s.has \cap Buffers) ELSE past.leaked
           bad == past.abandoned \/ (done /\ s.has # {})
           dis == a.pressed # {}
<1>2. past' = [past EXCEPT !.owed = NothingOwed, !.abandoned = bad, !.leaked = lost,
                          !.meant = Blank, !.covered = FALSE, !.disturbed = dis]
  <2>1. past' = [past EXCEPT !.owed = NothingOwed, !.abandoned = @ \/ (done /\ Start.has # {}),
                          !.leaked = IF done THEN @ + Cardinality(Start.has \cap Buffers) ELSE @,
                          !.meant = Blank, !.covered = FALSE, !.disturbed = Around.pressed # {}]
    BY DEF WindowsOpen
  <2> QED BY <2>1 DEF SessionInv, SessionTypes, Past
<1>3. past \in Past /\ Blank \in Picture /\ past.leaked \in Nat
  BY BlankIs DEF SessionInv, SessionTypes, Past
<1>4. lost \in Nat /\ (~bad => lost = past.leaked)
  <2> DEFINE S == s.has \cap Buffers
             n == Cardinality(S)
             old == past.leaked
  <2>1. S \in SUBSET Part
    BY <1>1 DEF Windows
  <2>2. n \in Nat /\ (S = {} => n = 0) /\ old \in Nat
    BY <1>3, <2>1, PartsCounted
  <2>3. ~bad /\ done => S = {}
    OBVIOUS
  <2> HIDE DEF n, S, bad
  <2>4. (IF done THEN old + n ELSE old) \in Nat /\ (~bad => (IF done THEN old + n ELSE old) = old)
    <3> HIDE DEF old
    <3> QED BY <2>2, <2>3
  <2> QED BY <2>4 DEF n, S
<1>5. bad \in BOOLEAN /\ dis \in BOOLEAN
  BY <1>3 DEF Past
<1> HIDE DEF lost, bad, dis
<1>6. /\ past' \in Past /\ past'.owed = NothingOwed /\ past'.abandoned = bad /\ past'.leaked = lost /\ past'.meant = Blank
      /\ past'.missed = past.missed /\ past'.disturbed = dis
  BY <1>2, <1>3, <1>4, <1>5, NothingOwedIs DEF Past
<1>7. ~Linux' /\ Needed' = Needed
  BY DEF Linux, Needed
<1>8. (~past.abandoned => past.leaked = 0) /\ (~bad => ~past.abandoned)
  BY DEF SessionInv, SessionKept, bad
<1>9. CASE done
  <2> DEFINE h == Needed \cup (IF font THEN {"font"} ELSE {})
             c == s.hid \/ a.console
             shown == a.console
  <2>1. win' = [s EXCEPT !.has = h, !.alive = TRUE, !.keys = {}, !.hits = {}, !.picture = Blank, !.saw = shown, !.hid = c]
    <3>1. win' = [Start EXCEPT !.has = Needed \cup (IF font THEN {"font"} ELSE {}), !.alive = TRUE, !.keys = {}, !.hits = {},
                                 !.picture = Blank, !.saw = Around.console, !.hid = @ \/ Around.console]
      BY <1>9 DEF WindowsOpen
    <3> QED BY <1>1, <3>1 DEF Windows
  <2>2. h \in SUBSET Part /\ "window" \in h /\ "window dc" \in h /\ Needed \subseteq h
    BY DEF Needed, Part
  <2>3. c \in BOOLEAN /\ shown \in BOOLEAN /\ (shown => c)
    BY <1>1 DEF Windows, World
  <2>4. world' = [NoEvents(a) EXCEPT !.console = FALSE]
    BY <1>9 DEF WindowsOpen
  <2>5. ~bad => shown
    BY <1>1, <1>9 DEF bad
  <2> HIDE DEF h, c, shown, s, a
  <2>6. /\ win' \in Windows /\ win'.has = h /\ win'.alive /\ win'.keys = {} /\ win'.picture = Blank
        /\ win'.hid = c /\ win'.saw = shown
    BY <1>1, <1>3, <2>1, <2>2, <2>3 DEF s, Windows
  <2>7. world' \in World /\ world'.events = << >> /\ world'.pressed = a.pressed
    <3>1. a \in World
      BY <1>1 DEF a
    <3>2. << >> \in Seq(Events)
      OBVIOUS
    <3> QED BY <2>4, <3>1, <3>2 DEF NoEvents, World
  <2>8. SessionTypes'
    BY <1>6, <2>6, <2>7 DEF SessionInv, SessionTypes
  <2>9. SessionKept'
    BY <1>4, <1>6, <1>7, <1>8, <2>2, <2>3, <2>5, <2>6, <2>7 DEF SessionKept
  <2>10. KeysKept' /\ DrawingKept'
    BY <1>6, <2>6, <2>7, <2>8, NewOpenKeeps DEF dis
  <2> QED BY <2>8, <2>9, <2>10 DEF SessionInv
<1>10. CASE ~done
  <2>1. win' = s /\ world' = a
    BY <1>10 DEF WindowsOpen
  <2>2. bad = past.abandoned
    BY <1>10, <1>3 DEF bad, Past
  <2>3. SessionTypes'
    BY <1>1, <1>6, <2>1 DEF SessionInv, SessionTypes
  <2>4. SessionKept'
    BY <1>1, <1>4, <1>6, <1>7, <1>8, <2>1, <2>2 DEF SessionKept
  <2>5. KeysKept' /\ DrawingKept'
    BY <1>1, <1>6, <2>1, NotOpenKeeps
  <2> QED BY <2>3, <2>4, <2>5 DEF SessionInv
<1> QED BY <1>9, <1>10

LEMMA OpenKeeps == ASSUME SessionInv, Open PROVE SessionInv'
<1>1. last'.call = "other" /\ UNCHANGED platform
  BY DEF Open, Was
<1> QED BY <1>1, LinuxOpenKeeps, WindowsOpenKeeps DEF Open
-----------------------------------------------------------------------------
(* What a call that found the window open makes of it, w, and of the       *)
(* history, p.                                                             *)
Drew(name, w, p) ==
  /\ w \in Windows /\ p \in Past
  /\ w.has = Pumped.win.has /\ w.alive = Pumped.win.alive /\ w.keys = Pumped.win.keys
  /\ w.hid = win.hid /\ w.saw = win.saw
  /\ "made" \notin p.missed /\ p.disturbed = past.disturbed /\ p.abandoned = past.abandoned /\ p.leaked = past.leaked
  /\ Made(p.owed) \subseteq w.hits
  /\ ~p.covered => w.picture = p.meant
  /\ name = "present" => p.meant = past.meant /\ p.covered = past.covered

Drawers == {"is open", "present", "clear", "rect", "text", "key"}

LEMMA NoEventsIs ==
  ASSUME NEW v \in World
  PROVE  /\ NoEvents(v) \in World /\ NoEvents(v).events = << >>
         /\ NoEvents(v).pressed = v.pressed /\ NoEvents(v).shift = v.shift /\ NoEvents(v).console = v.console
<1>1. << >> \in Seq(Events)
  OBVIOUS
<1> QED BY <1>1 DEF NoEvents, World

LEMMA ColoredIs ==
  ASSUME NEW w \in Windows, NEW c \in Paint
  PROVE  LET v == [w EXCEPT !.color = c] IN
           v \in Windows /\ \A i \in {"has", "alive", "keys", "hits", "picture", "hid", "saw"} : v[i] = w[i]
BY DEF Windows

LEMMA PumpKeeps ==
  ASSUME SessionInv, NEW name \in Drawers, NEW w, NEW p, Pump(name, w, p), w.color \in Paint,
         win.alive /\ Pumped.win.alive => Drew(name, w, p)
  PROVE  SessionInv'
<1>0. SessionTypes /\ SessionKept /\ KeysKept /\ DrawingKept
  BY DEF SessionInv
<1>1. platform' = platform /\ Linux' = Linux /\ Needed' = Needed
  BY DEF Pump, Linux, Needed
<1>2. last'.call # "close"
  <2>1. (\E b : last' = [call |-> name, shown |-> b]) \/ last' = [call |-> "other", shown |-> Blank]
    BY DEF Pump, Was
  <2>2. last'.call \in {name, "other"}
    BY <2>1
  <2> QED BY <2>2 DEF Drawers
<1>3. win \in Windows /\ world \in World /\ past \in Past
  BY <1>0 DEF SessionTypes
<1>4. CASE ~win.alive
  <2>1. win' = [win EXCEPT !.color = w.color] /\ world' = world /\ past' = past /\ last'.call = "other"
    BY <1>4 DEF Pump, Was
  <2>2. /\ win' \in Windows /\ win'.has = win.has /\ ~win'.alive /\ win'.hid = win.hid /\ win'.saw = win.saw
    BY <1>3, <1>4, <2>1, ColoredIs
  <2>3. SessionTypes'
    BY <1>0, <1>1, <2>1, <2>2 DEF SessionTypes
  <2>4. SessionKept'
    BY <1>0, <1>1, <1>2, <2>1, <2>2 DEF SessionKept
  <2>5. KeysKept' /\ DrawingKept'
    BY <2>1, <2>2, NotOpenKeeps
  <2> QED BY <2>3, <2>4, <2>5 DEF SessionInv
<1>5. CASE win.alive /\ ~Pumped.win.alive
  <2> DEFINE v == Pumped.win
  <2>1. win' = [v EXCEPT !.color = w.color] /\ world' = NoEvents(world) /\ past' = [past EXCEPT !.owed = NothingOwed]
    BY <1>5 DEF Pump
  <2>2. last'.call = "other"
    BY <1>5 DEF Pump, Was
  <2>3. /\ v \in Windows /\ v.hid = win.hid /\ v.saw = win.saw
        /\ v.has = win.has \/ (~Linux /\ v.has = win.has \ {"window"})
    BY PumpedWin
  <2>4. ~v.alive
    BY <1>5
  <2> HIDE DEF v
  <2>5. /\ win' \in Windows /\ win'.has = v.has /\ ~win'.alive /\ win'.hid = v.hid /\ win'.saw = v.saw
    BY <2>1, <2>3, <2>4, ColoredIs
  <2>6. world' \in World /\ world'.events = << >> /\ world'.console = world.console
    BY <1>3, <2>1, NoEventsIs
  <2>7. past' \in Past /\ past'.abandoned = past.abandoned /\ past'.leaked = past.leaked /\ past'.missed = past.missed
    BY <1>3, <2>1, NothingOwedIs DEF Past
  <2>8. SessionTypes'
    BY <1>0, <1>1, <2>5, <2>6, <2>7 DEF SessionTypes
  <2>9. ~Linux => "window dc" \in v.has /\ "window dc" \in win.has
    BY <1>0, <1>5, <2>3 DEF SessionKept, Needed
  <2>10. SessionKept'
    BY <1>0, <1>1, <1>2, <2>3, <2>5, <2>6, <2>7, <2>9 DEF SessionKept
  <2>11. KeysKept' /\ DrawingKept'
    BY <2>2, <2>5, <2>7, NotOpenKeeps
  <2> QED BY <2>8, <2>10, <2>11 DEF SessionInv
<1>6. CASE win.alive /\ Pumped.win.alive
  <2> DEFINE v == Pumped.win
  <2>1. win' = w /\ world' = NoEvents(world) /\ past' = p
    BY <1>6 DEF Pump
  <2>2. Drew(name, w, p)
    BY <1>6
  <2>3. v.has = win.has /\ v.picture = win.picture
    BY <1>6, PumpedWin
  <2>4. IF name = "present" THEN last' = [call |-> "present", shown |-> v.picture] ELSE last'.call = "other"
    BY <1>6 DEF Pump, Was
  <2>5. world' \in World /\ world'.events = << >> /\ world'.console = world.console /\ world'.pressed = world.pressed
        /\ world'.shift = world.shift
    BY <1>3, <2>1, NoEventsIs
  <2>6. SessionTypes'
    BY <1>0, <1>1, <2>1, <2>2, <2>5 DEF SessionTypes, Drew
  <2>7. win'.has = win.has /\ win'.hid = win.hid /\ win'.saw = win.saw /\ win'.alive
    BY <1>6, <2>1, <2>2, <2>3 DEF Drew
  <2>8. past'.abandoned = past.abandoned /\ past'.leaked = past.leaked
    BY <2>1, <2>2 DEF Drew
  <2>9. SessionKept'
    BY <1>0, <1>1, <1>2, <1>6, <2>5, <2>7, <2>8 DEF SessionKept
  <2>10. KeysKept'
    <3>1. (Pumped').win = win'
      BY <2>5, <2>6, PumpedDone
    <3>2. HeldCodes' = HeldCodes
      BY <1>1, <2>5 DEF HeldCodes, Code
    <3>3. ~past.disturbed => v.keys = HeldCodes
      BY <1>0, <1>6 DEF KeysKept
    <3> HIDE DEF v
    <3>4. win'.keys = v.keys /\ "made" \notin past'.missed /\ past'.disturbed = past.disturbed /\ Made(past'.owed) \subseteq win'.hits
      BY <2>1, <2>2 DEF Drew, v
    <3> QED BY <3>1, <3>2, <3>3, <3>4 DEF KeysKept
  <2>11. DrawingKept'
    <3>1. ~past'.covered => win'.picture = past'.meant
      BY <2>1, <2>2 DEF Drew
    <3>2. ASSUME name = "present" PROVE last'.call = "present" /\ ~past'.covered => last'.shown = past'.meant
      <4>1. past'.meant = past.meant /\ past'.covered = past.covered
        BY <2>1, <2>2, <3>2 DEF Drew
      <4>2. ~past.covered => win.picture = past.meant
        BY <1>0, <1>6 DEF DrawingKept
      <4>3. last'.shown = win.picture
        BY <2>3, <2>4, <3>2
      <4> QED BY <4>1, <4>2, <4>3
    <3>3. name # "present" => last'.call # "present"
      BY <2>4
    <3> QED BY <3>1, <3>2, <3>3 DEF DrawingKept, ShowsWhatWasDrawn
  <2> QED BY <2>6, <2>9, <2>10, <2>11 DEF SessionInv
<1> QED BY <1>4, <1>5, <1>6

(* What a call finds when the window is open.                              *)
LEMMA Finds ==
  ASSUME SessionInv
  PROVE  /\ Owing \in Past /\ Owing.owed = Pumped.owed
         /\ \A i \in {"meant", "covered", "missed", "disturbed", "abandoned", "leaked"} : Owing[i] = past[i]
         /\ Pumped.win \in Windows /\ Pumped.win.hid = win.hid /\ Pumped.win.saw = win.saw
         /\ "made" \notin past.missed
         /\ win.alive /\ Pumped.win.alive =>
              Made(Pumped.owed) \subseteq Pumped.win.hits /\ (~past.covered => Pumped.win.picture = past.meant)
<1>1. Pumped.owed \in Owings /\ past \in Past
  BY PumpedWin DEF SessionInv, SessionTypes
<1>2. Owing \in Past /\ Owing.owed = Pumped.owed
      /\ \A i \in {"meant", "covered", "missed", "disturbed", "abandoned", "leaked"} : Owing[i] = past[i]
  BY <1>1 DEF Owing, Past
<1>3. "made" \notin past.missed /\ (win.alive /\ ~past.covered => win.picture = past.meant)
  BY DEF SessionInv, KeysKept, DrawingKept
<1> QED BY <1>2, <1>3, PumpedWin

LEMMA PaintOf == ASSUME NEW w \in Windows PROVE w.color \in Paint
BY DEF Windows

LEMMA LooksKeeps ==
  ASSUME SessionInv, NEW name \in {"is open", "present"}, Pump(name, Pumped.win, Owing)
  PROVE  SessionInv'
<1>1. win.alive /\ Pumped.win.alive => Drew(name, Pumped.win, Owing)
  BY Finds DEF Drew
<1>2. name \in Drawers /\ Pumped.win.color \in Paint
  BY Finds, PaintOf DEF Drawers
<1> QED BY <1>1, <1>2, PumpKeeps

LEMMA KeyDownKeeps == ASSUME SessionInv, NEW c \in Codes, KeyDown(c) PROVE SessionInv'
<1> DEFINE v == Pumped.win
           w == [v EXCEPT !.hits = @ \ {c}]
           o == Pumped.owed
           m == IF o[c] = "none" \/ Tells(Pumped.win, c) THEN Owing.missed ELSE Owing.missed \cup {o[c]}
           left == [o EXCEPT ![c] = "none"]
           p == [Owing EXCEPT !.missed = m, !.owed = left]
<1>1. Pump("key", w, p)
  <2>1. Pump("key", w, [Owing EXCEPT !.missed = IF o[c] = "none" \/ Tells(v, c) THEN @ ELSE @ \cup {o[c]},
                                     !.owed[c] = "none"])
    BY DEF KeyDown
  <2>2. Owing.owed = o /\ Owing \in Past
    BY Finds
  <2>3. [Owing EXCEPT !.missed = IF o[c] = "none" \/ Tells(v, c) THEN @ ELSE @ \cup {o[c]}, !.owed[c] = "none"] = p
    <3> HIDE DEF o, v
    <3> QED BY <2>2 DEF Past, v
  <2> QED BY <2>1, <2>3
<1>2. v \in Windows /\ Owing \in Past
  BY Finds
<1>3. w \in Windows /\ w.hits = v.hits \ {c} /\ \A i \in {"has", "alive", "keys", "color", "picture", "hid", "saw"} : w[i] = v[i]
  <2> HIDE DEF v
  <2> QED BY <1>2 DEF Windows
<1>4. w.color \in Paint /\ "key" \in Drawers
  <2> HIDE DEF w
  <2> QED BY <1>3, PaintOf DEF Drawers
<1>5. ASSUME win.alive, Pumped.win.alive PROVE Drew("key", w, p)
  <2>1. o \in Owings /\ Made(o) \subseteq v.hits /\ "made" \notin Owing.missed /\ Owing.missed \subseteq {"made", "left"}
    BY <1>2, <1>5, Finds, PumpedWin DEF Past
  <2>2. m \subseteq {"left"}
    <3>1. o[c] = "made" => Tells(v, c)
      BY <2>1 DEF Made, Tells
    <3>2. o[c] \in {"none", "made", "left"}
      BY <2>1 DEF Owings
    <3> QED BY <2>1, <3>1, <3>2
  <2>3. left \in Owings /\ Made(left) = Made(o) \ {c}
    <3> HIDE DEF o
    <3> QED BY <2>1 DEF Owings, Made
  <2> HIDE DEF m, left, o
  <2>4. /\ p \in Past /\ p.owed = left /\ "made" \notin p.missed
        /\ \A i \in {"meant", "covered", "disturbed", "abandoned", "leaked"} : p[i] = Owing[i]
    BY <1>2, <2>2, <2>3 DEF Past
  <2>5. Made(p.owed) \subseteq w.hits
    BY <1>3, <2>1, <2>3, <2>4
  <2> HIDE DEF w, p
  <2> QED BY <1>3, <1>5, <2>4, <2>5, Finds DEF Drew
<1> HIDE DEF w, p
<1> QED BY <1>1, <1>4, <1>5, PumpKeeps

LEMMA PaintedIs ==
  ASSUME NEW ink \in [Cells -> Paint], NEW cells, NEW c \in Paint
  PROVE  Painted(ink, cells, c) \in [Cells -> Paint]
BY DEF Painted

LEMMA PictureOf ==
  ASSUME NEW ink \in [Cells -> Paint], NEW texts \in Seq(Colors)
  PROVE  [ink |-> ink, texts |-> texts] \in Picture
BY DEF Picture

LEMMA PictureIs ==
  ASSUME NEW q \in Picture
  PROVE  /\ q.ink \in [Cells -> Paint] /\ q.texts \in Seq(Colors)
         /\ q = [ink |-> q.ink, texts |-> q.texts]
BY DEF Picture

(* All cells painted with one colour are all alike.                        *)
LEMMA PaintedAll ==
  ASSUME NEW ink, NEW other, NEW c
  PROVE  Painted(ink, Cells, c) = Painted(other, Cells, c)
BY DEF Painted

Repainted(w, c, q) == [w EXCEPT !.color = c, !.picture = q]

LEMMA NewPicture ==
  ASSUME NEW w \in Windows, NEW c \in Paint, NEW q \in Picture
  PROVE  /\ Repainted(w, c, q) \in Windows /\ Repainted(w, c, q).picture = q /\ Repainted(w, c, q).color = c
         /\ \A i \in {"has", "alive", "keys", "hits", "hid", "saw"} : Repainted(w, c, q)[i] = w[i]
BY DEF Windows, Repainted

LEMMA PictureWith ==
  ASSUME NEW q \in Picture, NEW a, NEW b
  PROVE  [q EXCEPT !.ink = a, !.texts = b] = [ink |-> a, texts |-> b]
<1> DEFINE v == [q EXCEPT !.ink = a, !.texts = b]
<1>1. v \in [ink : {a}, texts : {b}]
  BY DEF Picture
<1> HIDE DEF v
<1>2. v = [ink |-> v.ink, texts |-> v.texts] /\ v.ink = a /\ v.texts = b
  BY <1>1
<1>3. v = [ink |-> a, texts |-> b]
  BY <1>2
<1> QED BY <1>3 DEF v

LEMMA ClearedIs ==
  ASSUME NEW q \in Picture, NEW c
  PROVE  ClearedTo(q, c) = [ink |-> Painted(q.ink, Cells, c), texts |-> << >>]
<1> DEFINE a == Painted(q.ink, Cells, c)
           b == << >>
<1>1. ClearedTo(q, c) = [q EXCEPT !.ink = a, !.texts = b]
  BY DEF ClearedTo
<1> HIDE DEF a, b
<1>2. ClearedTo(q, c) = [ink |-> a, texts |-> b]
  BY <1>1, PictureWith
<1> QED BY <1>2 DEF a, b

LEMMA ClearKeeps == ASSUME SessionInv, NEW c \in Colors, Clear(c) PROVE SessionInv'
<1> DEFINE v == Pumped.win
           q == ClearedTo(v.picture, c)
           d == v.color
           w == [v EXCEPT !.color = d, !.picture = q]
           m == [ink |-> Painted(Owing.meant.ink, Cells, c), texts |-> << >>]
           p == [Owing EXCEPT !.meant = m, !.covered = FALSE]
<1>1. v \in Windows /\ Owing \in Past /\ v.picture \in Picture /\ Owing.meant \in Picture /\ c \in Paint
  <2>1. v \in Windows /\ Owing \in Past
    BY Finds
  <2> QED BY <2>1 DEF Windows, Past, Paint
<1>2. Pump("clear", w, p)
  <2>1. Pump("clear", [v EXCEPT !.picture = ClearedTo(@, c)], p)
    BY <1>1 DEF Clear, Past
  <2>2. [v EXCEPT !.picture = ClearedTo(@, c)] = w
    <3> HIDE DEF v
    <3> QED BY <1>1 DEF Windows
  <2> QED BY <2>1, <2>2
<1>3. << >> \in Seq(Colors)
  OBVIOUS
<1>4. m \in Picture
  BY <1>1, <1>3, PaintedIs, PictureOf, PictureIs
<1>5. q = m
  <2>1. q = [ink |-> Painted(v.picture.ink, Cells, c), texts |-> << >>]
    BY <1>1, ClearedIs
  <2> QED BY <2>1, PaintedAll
<1> HIDE DEF q, m
<1>6. d \in Paint /\ "clear" \in Drawers
  BY <1>1, PaintOf DEF Drawers
<1>7. w \in Windows /\ w.picture = m /\ w.color \in Paint /\ \A i \in {"has", "alive", "keys", "hits", "hid", "saw"} : w[i] = v[i]
  <2>1. w = Repainted(v, d, q)
    BY DEF Repainted
  <2>2. q \in Picture /\ d \in Paint /\ v \in Windows
    BY <1>1, <1>4, <1>5, <1>6
  <2> HIDE DEF w, v, d
  <2>3. w \in Windows /\ w.picture = q /\ w.color = d /\ \A i \in {"has", "alive", "keys", "hits", "hid", "saw"} : w[i] = v[i]
    BY <2>1, <2>2, NewPicture
  <2> QED BY <1>5, <2>2, <2>3
<1>8. /\ p \in Past /\ p.meant = m
      /\ \A i \in {"owed", "missed", "disturbed", "abandoned", "leaked"} : p[i] = Owing[i]
  BY <1>1, <1>4 DEF Past
<1> HIDE DEF w, p
<1>9. win.alive /\ Pumped.win.alive => Drew("clear", w, p)
  BY <1>7, <1>8, Finds DEF Drew
<1> QED BY <1>2, <1>6, <1>7, <1>9, PumpKeeps

(* The two ways of filling paint the cells of the rectangle.               *)
LEMMA SpanIs ==
  ASSUME NEW x \in Int, NEW w \in Int
  PROVE  Span(x, w) = Between(x, w)
<1>1. Width \in Int
  BY WidthAssumption
<1>2. LinuxSpan(x, w) = Between(x, w)
  <2> SUFFICES ASSUME NEW i \in Cells PROVE i \in LinuxSpan(x, w) <=> i \in Between(x, w)
    BY DEF LinuxSpan, Between
  <2>1. i \in Int /\ 0 <= i /\ i < Width
    BY <1>1 DEF Cells
  <2> QED BY <1>1, <2>1 DEF LinuxSpan, Between
<1>3. WindowsSpan(x, w) = Between(x, w)
  <2> SUFFICES ASSUME NEW i \in Cells PROVE i \in WindowsSpan(x, w) <=> i \in Between(x, w)
    BY DEF WindowsSpan, Between
  <2>1. i \in Int /\ 0 <= i /\ i < Width
    BY <1>1 DEF Cells
  <2> QED BY <1>1, <2>1 DEF WindowsSpan, Between
<1> QED BY <1>2, <1>3 DEF Span

LEMMA FilledIs ==
  ASSUME NEW q \in Picture, NEW cells, NEW c
  PROVE  Filled(q, cells, c) = [ink |-> Painted(q.ink, cells, c), texts |-> IF ~Linux /\ 0 \in cells THEN << >> ELSE q.texts]
<1> DEFINE a == Painted(q.ink, cells, c)
           b == IF ~Linux /\ 0 \in cells THEN << >> ELSE q.texts
<1>1. Filled(q, cells, c) = [q EXCEPT !.ink = a, !.texts = b]
  BY DEF Filled
<1> HIDE DEF a, b
<1>2. Filled(q, cells, c) = [ink |-> a, texts |-> b]
  BY <1>1, PictureWith
<1> QED BY <1>2 DEF a, b

LEMMA RectKeeps == ASSUME SessionInv, NEW c \in Colors, NEW x \in Int, NEW y \in Int, Rect(c, x, y) PROVE SessionInv'
<1> DEFINE v == Pumped.win
           cells == Between(x, y)
           q == Filled(v.picture, cells, c)
           w == [v EXCEPT !.color = c, !.picture = q]
           m == [ink |-> Painted(Owing.meant.ink, cells, c), texts |-> IF 0 \in cells THEN << >> ELSE Owing.meant.texts]
           hidden == Owing.covered \/ (Linux /\ 0 \in cells /\ Owing.meant.texts # << >>)
           p == [Owing EXCEPT !.meant = m, !.covered = hidden]
<1>1. v \in Windows /\ Owing \in Past /\ v.picture \in Picture /\ Owing.meant \in Picture /\ c \in Paint
  <2>1. v \in Windows /\ Owing \in Past
    BY Finds
  <2> QED BY <2>1 DEF Windows, Past, Paint
<1>2. Pump("rect", w, p)
  <2>1. Pump("rect", [v EXCEPT !.color = c, !.picture = Filled(@, Span(x, y), c)], MeantFill(Owing, cells, c))
    BY DEF Rect
  <2>2. [v EXCEPT !.color = c, !.picture = Filled(@, Span(x, y), c)] = w
    <3> HIDE DEF v
    <3> QED BY <1>1, SpanIs DEF Windows
  <2>3. MeantFill(Owing, cells, c) = p
    <3> HIDE DEF cells
    <3> QED BY <1>1 DEF MeantFill, Past
  <2> QED BY <2>1, <2>2, <2>3
<1> HIDE DEF cells
<1>3. << >> \in Seq(Colors)
  OBVIOUS
<1>4. m \in Picture /\ q \in Picture
  <2>1. q = [ink |-> Painted(v.picture.ink, cells, c), texts |-> IF ~Linux /\ 0 \in cells THEN << >> ELSE v.picture.texts]
    BY <1>1, FilledIs
  <2>2. ASSUME NEW r \in Picture, NEW none \in BOOLEAN
        PROVE  [ink |-> Painted(r.ink, cells, c), texts |-> IF none THEN << >> ELSE r.texts] \in Picture
    <3> DEFINE i == Painted(r.ink, cells, c)
               t == IF none THEN << >> ELSE r.texts
    <3>1. i \in [Cells -> Paint]
      BY <1>1, PaintedIs, PictureIs
    <3>2. t \in Seq(Colors)
      BY <1>3, PictureIs
    <3> HIDE DEF i, t
    <3>3. [ink |-> i, texts |-> t] \in Picture
      BY <3>1, <3>2, PictureOf
    <3> QED BY <3>3 DEF i, t
  <2>3. (0 \in cells) \in BOOLEAN /\ (~Linux /\ 0 \in cells) \in BOOLEAN
    OBVIOUS
  <2>4. m \in Picture
    BY <1>1, <2>2, <2>3
  <2>5. q \in Picture
    <3> HIDE DEF q
    <3> QED BY <1>1, <2>1, <2>2, <2>3
  <2> QED BY <2>4, <2>5
<1>5. hidden \in BOOLEAN
  BY <1>1 DEF Past
<1>6. ~hidden /\ v.picture = Owing.meant => q = m
  <2>1. q = [ink |-> Painted(v.picture.ink, cells, c), texts |-> IF ~Linux /\ 0 \in cells THEN << >> ELSE v.picture.texts]
    BY <1>1, FilledIs
  <2> QED BY <2>1
<1>7. ~hidden => ~past.covered
  BY Finds
<1> HIDE DEF q, m, hidden
<1>8. w \in Windows /\ w.picture = q /\ w.color \in Paint
      /\ \A i \in {"has", "alive", "keys", "hits", "hid", "saw"} : w[i] = v[i]
  <2>1. w = Repainted(v, c, q)
    BY DEF Repainted
  <2> HIDE DEF w, v
  <2> QED BY <1>1, <1>4, <2>1, NewPicture
<1>9. /\ p \in Past /\ p.meant = m /\ p.covered = hidden
      /\ \A i \in {"owed", "missed", "disturbed", "abandoned", "leaked"} : p[i] = Owing[i]
  BY <1>1, <1>4, <1>5 DEF Past
<1> HIDE DEF w, p
<1>10. win.alive /\ Pumped.win.alive => Drew("rect", w, p)
  BY <1>6, <1>7, <1>8, <1>9, Finds DEF Drew
<1> QED BY <1>2, <1>8, <1>10, PumpKeeps DEF Drawers

LEMMA TextLostKeeps == ASSUME SessionInv, NEW c \in Colors, TextLost(c) PROVE SessionInv'
<1> DEFINE v == Pumped.win
           w == [v EXCEPT !.color = c]
<1>1. Pump("text", w, Owing)
  BY DEF TextLost
<1>2. v \in Windows /\ c \in Paint
  BY Finds DEF Paint
<1>3. w \in Windows /\ \A i \in {"has", "alive", "keys", "hits", "picture", "hid", "saw"} : w[i] = v[i]
  <2> HIDE DEF v
  <2> QED BY <1>2, ColoredIs
<1> HIDE DEF w
<1>4. win.alive /\ Pumped.win.alive => Drew("text", w, Owing)
  BY <1>3, Finds DEF Drew
<1> QED BY <1>1, <1>3, <1>4, PaintOf, PumpKeeps DEF Drawers

LEMMA DrawTextKeeps == ASSUME SessionInv, NEW c \in Colors, DrawText(c) PROVE SessionInv'
<1> DEFINE v == Pumped.win
           q == [v.picture EXCEPT !.texts = Append(@, c)]
           w == [v EXCEPT !.color = c, !.picture = q]
           m == [Owing.meant EXCEPT !.texts = Append(@, c)]
           p == [Owing EXCEPT !.meant = m]
<1>1. v \in Windows /\ Owing \in Past /\ v.picture \in Picture /\ Owing.meant \in Picture /\ c \in Paint
  <2>1. v \in Windows /\ Owing \in Past
    BY Finds
  <2> QED BY <2>1 DEF Windows, Past, Paint
<1>2. Pump("text", w, p)
  <2>1. Pump("text", [v EXCEPT !.color = c, !.picture.texts = Append(@, c)], [Owing EXCEPT !.meant.texts = Append(@, c)])
    BY DEF DrawText
  <2>2. [v EXCEPT !.color = c, !.picture.texts = Append(@, c)] = w
    <3> HIDE DEF v
    <3> QED BY <1>1 DEF Windows
  <2>3. [Owing EXCEPT !.meant.texts = Append(@, c)] = p
    BY <1>1 DEF Past
  <2> QED BY <2>1, <2>2, <2>3
<1>3. m \in Picture /\ q \in Picture /\ (v.picture = Owing.meant => q = m)
  <2> DEFINE a == v.picture
             b == Owing.meant
  <2>1. a \in Picture /\ b \in Picture
    BY <1>1
  <2> HIDE DEF a, b
  <2>2. ASSUME NEW r \in Picture PROVE [r EXCEPT !.texts = Append(@, c)] \in Picture
    <3> DEFINE t == Append(r.texts, c)
    <3>1. r.texts \in Seq(Colors)
      BY PictureIs
    <3>2. t \in Seq(Colors)
      BY <3>1
    <3>3. [r EXCEPT !.texts = Append(@, c)] = [r EXCEPT !.texts = t]
      OBVIOUS
    <3> HIDE DEF t
    <3> QED BY <3>2, <3>3 DEF Picture
  <2> QED BY <2>1, <2>2 DEF a, b
<1> HIDE DEF q, m
<1>8. w \in Windows /\ w.picture = q /\ w.color \in Paint
      /\ \A i \in {"has", "alive", "keys", "hits", "hid", "saw"} : w[i] = v[i]
  <2>1. w = Repainted(v, c, q)
    BY DEF Repainted
  <2> HIDE DEF w, v
  <2> QED BY <1>1, <1>3, <2>1, NewPicture
<1>9. /\ p \in Past /\ p.meant = m
      /\ \A i \in {"owed", "covered", "missed", "disturbed", "abandoned", "leaked"} : p[i] = Owing[i]
  BY <1>1, <1>3 DEF Past
<1> HIDE DEF w, p
<1>10. win.alive /\ Pumped.win.alive => Drew("text", w, p)
  BY <1>3, <1>8, <1>9, Finds DEF Drew
<1> QED BY <1>2, <1>8, <1>10, PumpKeeps DEF Drawers
-----------------------------------------------------------------------------
LEMMA SetColorKeeps == ASSUME SessionInv, NEW c \in Colors, SetColor(c) PROVE SessionInv'
<1>0. SessionTypes /\ SessionKept /\ KeysKept /\ DrawingKept
  BY DEF SessionInv
<1>1. /\ win' = [win EXCEPT !.color = c] /\ world' = world /\ past' = past /\ platform' = platform
      /\ last' = [call |-> "other", shown |-> Blank]
  BY DEF SetColor, Was
<1>2. win \in Windows /\ c \in Paint
  BY <1>0 DEF SessionTypes, Paint
<1>3. win' \in Windows /\ \A i \in {"has", "alive", "keys", "hits", "picture", "hid", "saw"} : win'[i] = win[i]
  BY <1>1, <1>2, ColoredIs
<1>4. Linux' = Linux /\ Needed' = Needed /\ HeldCodes' = HeldCodes
  BY <1>1 DEF Linux, Needed, HeldCodes, Code
<1>5. SessionTypes'
  BY <1>0, <1>1, <1>3 DEF SessionTypes
<1>6. SessionKept'
  BY <1>0, <1>1, <1>3, <1>4 DEF SessionKept
<1>7. (Pumped').win.alive = Pumped.win.alive /\ (Pumped').win.keys = Pumped.win.keys
  <2> DEFINE s == [win |-> win, owed |-> past.owed]
             t == [win |-> win', owed |-> past.owed]
  <2>1. Linux \in BOOLEAN /\ s \in PumpStates /\ world.events \in Seq(Events)
    BY PumpedFacts
  <2>2. t \in PumpStates
    BY <1>0, <1>3 DEF PumpStates, SessionTypes, Past
  <2>3. s.win = win /\ t.win = win'
    OBVIOUS
  <2>4. Pumped = PumpedBy(Linux, s, world.events) /\ Pumped' = PumpedBy(Linux, t, world.events)
    BY <1>1, <1>4 DEF Pumped
  <2> HIDE DEF s, t
  <2>5. s.win.has = t.win.has /\ s.win.alive = t.win.alive /\ s.win.keys = t.win.keys
    BY <1>3, <2>3
  <2> QED BY <2>1, <2>2, <2>4, <2>5, PumpColored
<1>8. KeysKept'
  BY <1>0, <1>1, <1>3, <1>4, <1>7 DEF KeysKept
<1>9. DrawingKept'
  BY <1>0, <1>1, <1>3 DEF DrawingKept, ShowsWhatWasDrawn
<1> QED BY <1>5, <1>6, <1>8, <1>9 DEF SessionInv

(* The user does something to the keys, which become those of w, and one   *)
(* or two events tell the program.                                         *)
CodesDown(w) == {Code(k, w.shift) : k \in w.pressed}
Through(p, es) ==
  IF Len(es) = 1 THEN PumpOne(Linux, p, es[1]) ELSE PumpOne(Linux, PumpOne(Linux, p, es[1]), es[2])
KeysDown(es, w, disturbed) ==
  LET p == Through(Pumped, es) IN p.win.alive /\ ~disturbed => p.win.keys = CodesDown(w)

LEMMA ThroughOne ==
  ASSUME NEW e \in Events
  PROVE  <<e>> \in Seq(Events) /\ Len(<<e>>) = 1 /\ \A p : Through(p, <<e>>) = PumpOne(Linux, p, e)
BY DEF Through

(* One or two elements put behind a sequence. *)
LEMMA OneOrTwo ==
  ASSUME NEW S, NEW b \in Seq(S), NEW x \in S, NEW y \in S
  PROVE  /\ b \o <<x>> = Append(b, x)
         /\ b \o <<x, y>> = Append(Append(b, x), y)
         /\ <<x>> \o <<y>> = <<x, y>> /\ << >> \o <<y>> = <<y>>
<1>1. <<x>> \in Seq(S) /\ <<y>> \in Seq(S) /\ <<x, y>> \in Seq(S)
  OBVIOUS
<1>2. \A s \in Seq(S) : \A z \in S : Append(s, z) = s \o <<z>>
  BY AppendIsConcat
<1>3. <<x>> \o <<y>> = <<x, y>>
  <2> DEFINE t == <<x>> \o <<y>>
  <2>1. t \in Seq(S) /\ Len(t) = 2 /\ t[1] = x /\ t[2] = y
    <3>1. Len(<<x>>) = 1 /\ Len(<<y>>) = 1 /\ <<x>>[1] = x /\ <<y>>[1] = y
      OBVIOUS
    <3>2. /\ t \in Seq(S) /\ Len(t) = 1 + 1
          /\ \A i \in 1..1 + 1 : t[i] = IF i <= 1 THEN <<x>>[i] ELSE <<y>>[i - 1]
      BY <1>1, <3>1, ConcatProperties
    <3> HIDE DEF t
    <3> QED BY <3>1, <3>2
  <2>2. Len(<<x, y>>) = 2 /\ <<x, y>>[1] = x /\ <<x, y>>[2] = y
    OBVIOUS
  <2> HIDE DEF t
  <2>3. \A i \in 1..Len(t) : t[i] = <<x, y>>[i]
    BY <2>1, <2>2
  <2>4. t = <<x, y>>
    BY <1>1, <2>1, <2>2, <2>3, SeqEqual
  <2> QED BY <2>4 DEF t
<1>4. Append(Append(b, x), y) = (b \o <<x>>) \o <<y>>
  <2>1. Append(b, x) = b \o <<x>> /\ Append(b, x) \in Seq(S)
    BY <1>2
  <2> QED BY <1>2, <2>1
<1>5. (b \o <<x>>) \o <<y>> = b \o (<<x>> \o <<y>>)
  BY <1>1, ConcatAssociative
<1>6. << >> \o <<y>> = <<y>>
  BY <1>1, ConcatEmptySeq
<1> QED BY <1>2, <1>3, <1>4, <1>5, <1>6

(* A sequence of two is a pair. *)
LEMMA AsPair ==
  ASSUME NEW S, NEW s \in Seq(S), Len(s) = 2
  PROVE  s[1] \in S /\ s[2] \in S /\ s = <<s[1], s[2]>>
<1>1. 1 \in 1..Len(s) /\ 2 \in 1..Len(s)
  OBVIOUS
<1>2. s[1] \in S /\ s[2] \in S
  BY <1>1, ElementOfSeq
<1> DEFINE t == <<s[1], s[2]>>
<1>3. t \in Seq(S) /\ Len(t) = 2 /\ t[1] = s[1] /\ t[2] = s[2]
  BY <1>2
<1> HIDE DEF t
<1>4. \A i \in 1..Len(s) : s[i] = t[i]
  BY <1>3
<1>5. s = t
  BY <1>3, <1>4, SeqEqual
<1> QED BY <1>2, <1>5 DEF t

LEMMA PumpThrough ==
  ASSUME Linux \in BOOLEAN, NEW s \in PumpStates, NEW before \in Seq(Events), NEW es \in Seq(Events), Len(es) \in {1, 2}
  PROVE  PumpedBy(Linux, s, before \o es) = Through(PumpedBy(Linux, s, before), es)
<1>1. CASE Len(es) = 1
  <2>1. before \o es = Append(before, es[1]) /\ es[1] \in Events
    <3>1. es[1] \in Events /\ es = <<es[1]>>
      BY <1>1
    <3>2. before \o <<es[1]>> = Append(before, es[1])
      BY <3>1, OneOrTwo
    <3> QED BY <3>1, <3>2
  <2> QED BY <1>1, <2>1, PumpMore DEF Through
<1>2. CASE Len(es) = 2
  <2> DEFINE one == Append(before, es[1])
  <2>1. before \o es = Append(one, es[2]) /\ es[1] \in Events /\ es[2] \in Events /\ one \in Seq(Events)
    <3>1. es[1] \in Events /\ es[2] \in Events /\ es = <<es[1], es[2]>>
      BY <1>2, AsPair
    <3>2. before \o <<es[1], es[2]>> = Append(one, es[2])
      BY <3>1, OneOrTwo
    <3>3. one \in Seq(Events)
      BY <3>1
    <3> HIDE DEF one
    <3> QED BY <3>1, <3>2, <3>3
  <2>2. PumpedBy(Linux, s, one) = PumpOne(Linux, PumpedBy(Linux, s, before), es[1])
    BY <2>1, PumpMore
  <2> HIDE DEF one
  <2>3. PumpedBy(Linux, s, Append(one, es[2])) = PumpOne(Linux, PumpedBy(Linux, s, one), es[2])
    BY <2>1, PumpMore
  <2> QED BY <1>2, <2>1, <2>2, <2>3 DEF Through
<1> QED BY <1>1, <1>2

LEMMA UserKeeps ==
  ASSUME SessionInv, NEW es \in Seq(Events), Len(es) \in {1, 2}, NEW w \in World, User(es, w), w.events = world.events, w.console = world.console,
         NEW d \in BOOLEAN, past' = [past EXCEPT !.disturbed = d],
         win.alive => KeysDown(es, w, d)
  PROVE  SessionInv'
<1>0. SessionTypes /\ SessionKept /\ KeysKept /\ DrawingKept
  BY DEF SessionInv
<1>1. /\ world' = IF "window" \in win.has THEN [w EXCEPT !.events = @ \o es] ELSE w
      /\ win' = win /\ platform' = platform /\ last' = [call |-> "other", shown |-> Blank]
  BY DEF User, Was
<1>2. past \in Past /\ past' \in Past /\ past'.disturbed = d
      /\ \A i \in {"meant", "covered", "owed", "missed", "abandoned", "leaked"} : past'[i] = past[i]
  BY <1>0 DEF SessionTypes, Past
<1>3. Linux' = Linux /\ Needed' = Needed
  BY <1>1 DEF Linux, Needed
<1>4. /\ world' \in World /\ world'.pressed = w.pressed /\ world'.shift = w.shift /\ world'.console = world.console
      /\ "window" \in win.has => world'.events = world.events \o es
      /\ "window" \notin win.has => world'.events = world.events
  <2>1. CASE "window" \notin win.has
    BY <1>1, <2>1
  <2>2. CASE "window" \in win.has
    <3> DEFINE fs == w.events \o es
    <3>1. world' = [w EXCEPT !.events = fs]
      BY <1>1, <2>2
    <3>2. w.events \in Seq(Events)
      BY DEF World
    <3>3. fs \in Seq(Events) /\ fs = world.events \o es
      BY <3>2
    <3> HIDE DEF fs
    <3> QED BY <2>2, <3>1, <3>3 DEF World
  <2> QED BY <2>1, <2>2
<1>5. SessionTypes'
  BY <1>0, <1>1, <1>2, <1>4 DEF SessionTypes
<1>6. SessionKept'
  BY <1>0, <1>1, <1>2, <1>3, <1>4 DEF SessionKept
<1>7. KeysKept'
  <2>1. CASE ~win.alive
    BY <1>0, <1>1, <1>2, <2>1 DEF KeysKept
  <2>2. CASE win.alive
    <3>1. "window" \in win.has
      BY <1>0, <2>2 DEF SessionKept, Needed
    <3> DEFINE s == [win |-> win, owed |-> past.owed]
    <3>2. Linux \in BOOLEAN /\ s \in PumpStates /\ world.events \in Seq(Events)
      BY PumpedFacts
    <3>3. Pumped = PumpedBy(Linux, s, world.events) /\ Pumped' = PumpedBy(Linux, s, world.events \o es)
      BY <1>1, <1>2, <1>3, <1>4, <3>1 DEF Pumped
    <3> HIDE DEF s
    <3>4. Pumped' = Through(Pumped, es)
      BY <3>2, <3>3, PumpThrough
    <3>5. HeldCodes' = CodesDown(w)
      BY <1>1, <1>4 DEF HeldCodes, CodesDown, Code, Linux
    <3>6. (Pumped').win.alive /\ ~d => (Pumped').win.keys = CodesDown(w)
      BY <2>2, <3>4 DEF KeysDown
    <3> QED BY <1>0, <1>1, <1>2, <3>5, <3>6 DEF KeysKept
  <2> QED BY <2>1, <2>2
<1>8. DrawingKept'
  BY <1>0, <1>1, <1>2 DEF DrawingKept, ShowsWhatWasDrawn
<1> QED BY <1>5, <1>6, <1>7, <1>8 DEF SessionInv

(* What an event makes of what pumping the others made, p.                 *)
LEMMA LastEvent ==
  ASSUME SessionInv, win.alive, NEW e \in Events, NEW p, PumpsTo(Linux, [win |-> win, owed |-> past.owed], p)
  PROVE  LET q == PumpOne(Linux, p, e) IN
           q.win.alive => p.win.alive /\ Handles(Linux, p.win, e, q.win)
<1> DEFINE q == PumpOne(Linux, p, e)
           s == [win |-> win, owed |-> past.owed]
<1> SUFFICES ASSUME q.win.alive PROVE p.win.alive /\ Handles(Linux, p.win, e, q.win)
  OBVIOUS
<1>1. "window" \in win.has
  BY DEF SessionInv, SessionKept, Needed
<1>2. Linux \in BOOLEAN /\ p.win \in Windows /\ (p.win.alive => p.win.has = win.has)
  <2>1. s.win = win /\ PumpsTo(Linux, s, p)
    OBVIOUS
  <2> HIDE DEF s
  <2> QED BY <2>1, PumpedFacts DEF PumpsTo, PumpStates
<1>3. CASE "window" \in p.win.has
  <2>1. q.win = Handle(Linux, p.win, e)
    BY <1>3 DEF PumpOne
  <2>2. Handles(Linux, p.win, e, q.win)
    BY <1>2, <2>1, HandleIs
  <2> QED BY <2>2 DEF Handles
<1>4. CASE "window" \notin p.win.has
  <2>1. q = p
    BY <1>4 DEF PumpOne
  <2> QED BY <1>1, <1>2, <1>4, <2>1
<1> QED BY <1>3, <1>4

LEMMA OnlyEvent ==
  ASSUME SessionInv, win.alive, NEW e \in Events
  PROVE  LET v == Through(Pumped, <<e>>).win IN
           v.alive => Pumped.win.alive /\ Handles(Linux, Pumped.win, e, v)
BY PumpedFacts, LastEvent, ThroughOne

LEMMA CodeIs ==
  ASSUME NEW shift \in BOOLEAN
  PROVE  /\ \A k \in PhysicalKeys : Code(k, shift) \in Codes
         /\ \A j, k \in PhysicalKeys : Code(j, shift) = Code(k, shift) => j = k
         /\ ~Linux => \A k \in PhysicalKeys : Code(k, shift) = k
BY DEF Code, PhysicalKeys, Codes

LEMMA SamePast ==
  ASSUME SessionInv, UNCHANGED past
  PROVE  past' = [past EXCEPT !.disturbed = past.disturbed] /\ past.disturbed \in BOOLEAN
BY DEF SessionInv, SessionTypes, Past

LEMMA HeldAre ==
  ASSUME SessionInv, win.alive, Pumped.win.alive, ~past.disturbed
  PROVE  Pumped.win.keys = CodesDown(world)
BY DEF SessionInv, KeysKept, HeldCodes, CodesDown

LEMMA PressKeeps == ASSUME SessionInv, NEW k \in PhysicalKeys, UserPresses(k) PROVE SessionInv'
<1> DEFINE c == Code(k, world.shift)
           e == Event("press", c)
           P == world.pressed \cup {k}
           w == [world EXCEPT !.pressed = P]
           d == past.disturbed
<1>0. world \in World
  BY DEF SessionInv, SessionTypes
<1>1. User(<<e>>, w)
  BY DEF UserPresses
<1>2. past' = [past EXCEPT !.disturbed = d] /\ d \in BOOLEAN
  BY SamePast DEF UserPresses
<1>3. w \in World /\ w.events = world.events /\ w.console = world.console /\ w.shift = world.shift /\ w.pressed = P
  BY <1>0 DEF World
<1>4. c \in Codes /\ world.shift \in BOOLEAN
  BY <1>0, CodeIs DEF World
<1>5. e \in Events /\ e.kind = "press" /\ e.code = c
  BY <1>4 DEF Event, Events
<1> HIDE DEF e, w
<1>6. win.alive => KeysDown(<<e>>, w, d)
  <2> SUFFICES ASSUME win.alive, Through(Pumped, <<e>>).win.alive, ~d
               PROVE  Through(Pumped, <<e>>).win.keys = CodesDown(w)
    BY DEF KeysDown
  <2> DEFINE v == Through(Pumped, <<e>>).win
  <2>1. Pumped.win.alive /\ Handles(Linux, Pumped.win, e, v)
    BY <1>5, OnlyEvent
  <2>2. Pumped.win.keys = CodesDown(world)
    BY <2>1, HeldAre
  <2>3. v.keys = Pumped.win.keys \cup {c}
    BY <1>5, <2>1 DEF Handles
  <2>4. CodesDown(w) = CodesDown(world) \cup {c}
    BY <1>3 DEF CodesDown
  <2> QED BY <2>2, <2>3, <2>4
<1> HIDE DEF d
<1> QED BY <1>1, <1>2, <1>3, <1>5, <1>6, ThroughOne, UserKeeps

LEMMA ReleaseKeeps == ASSUME SessionInv, NEW k \in PhysicalKeys, UserReleases(k) PROVE SessionInv'
<1> DEFINE c == Code(k, world.shift)
           e == Event("release", c)
           P == world.pressed \ {k}
           w == [world EXCEPT !.pressed = P]
           d == past.disturbed
<1>0. world \in World
  BY DEF SessionInv, SessionTypes
<1>1. User(<<e>>, w)
  BY DEF UserReleases
<1>2. past' = [past EXCEPT !.disturbed = d] /\ d \in BOOLEAN
  BY SamePast DEF UserReleases
<1>3. w \in World /\ w.events = world.events /\ w.console = world.console /\ w.shift = world.shift /\ w.pressed = P
  BY <1>0 DEF World
<1>4. c \in Codes /\ world.shift \in BOOLEAN /\ world.pressed \in SUBSET PhysicalKeys
  BY <1>0, CodeIs DEF World
<1>5. e \in Events /\ e.kind = "release" /\ e.code = c
  BY <1>4 DEF Event, Events
<1> HIDE DEF e, w
<1>6. win.alive => KeysDown(<<e>>, w, d)
  <2> SUFFICES ASSUME win.alive, Through(Pumped, <<e>>).win.alive, ~d
               PROVE  Through(Pumped, <<e>>).win.keys = CodesDown(w)
    BY DEF KeysDown
  <2> DEFINE v == Through(Pumped, <<e>>).win
  <2>1. Pumped.win.alive /\ Handles(Linux, Pumped.win, e, v)
    BY <1>5, OnlyEvent
  <2>2. Pumped.win.keys = CodesDown(world)
    BY <2>1, HeldAre
  <2>3. v.keys = Pumped.win.keys \ {c}
    BY <1>5, <2>1 DEF Handles
  <2>4. CodesDown(w) = CodesDown(world) \ {c}
    <3>1. \A j \in world.pressed : Code(j, world.shift) = c => j = k
      BY <1>4, CodeIs
    <3> HIDE DEF c
    <3>2. c = Code(k, world.shift)
      BY DEF c
    <3> QED BY <1>3, <3>1, <3>2 DEF CodesDown
  <2> QED BY <2>2, <2>3, <2>4
<1> HIDE DEF d
<1> QED BY <1>1, <1>2, <1>3, <1>5, <1>6, ThroughOne, UserKeeps

LEMMA HoldKeeps == ASSUME SessionInv, NEW k \in PhysicalKeys, UserHolds(k) PROVE SessionInv'
<1> DEFINE c == Code(k, world.shift)
           up == Event("release", c)
           down == Event("press", c)
           es == IF Linux THEN <<up, down>> ELSE <<down>>
           d == past.disturbed
<1>0. world \in World
  BY DEF SessionInv, SessionTypes
<1>3. c \in Codes /\ c \in CodesDown(world)
  BY <1>0, CodeIs DEF World, CodesDown, UserHolds
<1>4. up \in Events /\ up.kind = "release" /\ up.code = c /\ down \in Events /\ down.kind = "press" /\ down.code = c
  BY <1>3 DEF Event, Events
<1>1. User(es, world) /\ k \in world.pressed
  <2>1. User((IF Linux THEN <<up>> ELSE << >>) \o <<down>>, world)
    BY DEF UserHolds
  <2>2. (IF Linux THEN <<up>> ELSE << >>) \o <<down>> = es
    <3> HIDE DEF up, down
    <3>1. up \in Events /\ down \in Events /\ << >> \in Seq(Events)
      BY <1>4
    <3>2. <<up>> \o <<down>> = <<up, down>> /\ << >> \o <<down>> = <<down>>
      BY <3>1, OneOrTwo
    <3> QED BY <3>2
  <2> QED BY <2>1, <2>2 DEF UserHolds
<1>2. past' = [past EXCEPT !.disturbed = d] /\ d \in BOOLEAN
  BY SamePast DEF UserHolds
<1> HIDE DEF up, down, c
<1>5. es \in Seq(Events) /\ Len(es) \in {1, 2}
  BY <1>4
<1>6. win.alive => KeysDown(es, world, d)
  <2> SUFFICES ASSUME win.alive, Through(Pumped, es).win.alive, ~d
               PROVE  Through(Pumped, es).win.keys = CodesDown(world)
    BY DEF KeysDown
  <2> DEFINE v == Through(Pumped, es).win
  <2>1. CASE ~Linux
    <3>1. es = <<down>>
      BY <2>1
    <3>2. Pumped.win.alive /\ Handles(Linux, Pumped.win, down, v)
      BY <1>4, <3>1, OnlyEvent
    <3>3. Pumped.win.keys = CodesDown(world)
      BY <3>2, HeldAre
    <3> QED BY <1>3, <1>4, <3>2, <3>3 DEF Handles
  <2>2. CASE Linux
    <3> DEFINE p == PumpOne(Linux, Pumped, up)
    <3>1. v = PumpOne(Linux, p, down).win
      <4>1. es = <<up, down>>
        BY <2>2
      <4>2. Len(es) = 2 /\ es[1] = up /\ es[2] = down
        BY <4>1
      <4> HIDE DEF es
      <4> QED BY <4>2 DEF Through
    <3>2. PumpsTo(Linux, [win |-> win, owed |-> past.owed], p)
      BY <1>4, PumpedFacts, PumpOneIs
    <3> HIDE DEF v, es
    <3>3. v.alive
      BY DEF v
    <3>4. p.win.alive /\ Handles(Linux, p.win, down, v)
      BY <1>4, <3>1, <3>2, <3>3, LastEvent
    <3>5. Pumped.win.alive /\ Handles(Linux, Pumped.win, up, p.win)
      BY <1>4, <3>4, PumpedFacts, LastEvent
    <3>6. Pumped.win.keys = CodesDown(world)
      BY <3>5, HeldAre
    <3>7. v.keys = (Pumped.win.keys \ {c}) \cup {c}
      BY <1>4, <3>4, <3>5 DEF Handles
    <3> QED BY <1>3, <3>6, <3>7 DEF v
  <2> QED BY <2>1, <2>2
<1> HIDE DEF d, es
<1> QED BY <1>0, <1>1, <1>2, <1>5, <1>6, UserKeeps

LEMMA ShiftKeeps == ASSUME SessionInv, UserShifts PROVE SessionInv'
<1> DEFINE e == Event("other", "shift")
           s == ~world.shift
           w == [world EXCEPT !.shift = s]
           d == IF Linux THEN past.disturbed \/ world.pressed # {} ELSE past.disturbed
<1>0. world \in World /\ past \in Past
  BY DEF SessionInv, SessionTypes
<1>1. User(<<e>>, w)
  <2>1. User(<<e>>, [world EXCEPT !.shift = ~@])
    BY DEF UserShifts
  <2> QED BY <2>1
<1>2. past' = [past EXCEPT !.disturbed = d] /\ d \in BOOLEAN
  <2>1. CASE Linux
    BY <1>0, <2>1 DEF UserShifts, Disturbs, Past
  <2>2. CASE ~Linux
    BY <2>2, SamePast DEF UserShifts
  <2> QED BY <2>1, <2>2
<1>3. w \in World /\ w.events = world.events /\ w.console = world.console /\ w.shift = s /\ w.pressed = world.pressed
  BY <1>0 DEF World
<1>5. e \in Events /\ e.kind = "other"
  BY DEF Event, Events
<1> HIDE DEF e, w
<1>6. win.alive => KeysDown(<<e>>, w, d)
  <2> SUFFICES ASSUME win.alive, Through(Pumped, <<e>>).win.alive, ~d
               PROVE  Through(Pumped, <<e>>).win.keys = CodesDown(w)
    BY DEF KeysDown
  <2> DEFINE v == Through(Pumped, <<e>>).win
  <2>1. Pumped.win.alive /\ Handles(Linux, Pumped.win, e, v)
    BY <1>5, OnlyEvent
  <2>2. ~past.disturbed /\ (Linux => world.pressed = {})
    OBVIOUS
  <2>3. Pumped.win.keys = CodesDown(world)
    BY <2>1, <2>2, HeldAre
  <2>4. v.keys = Pumped.win.keys
    BY <1>5, <2>1 DEF Handles
  <2>5. CodesDown(w) = CodesDown(world)
    BY <1>3, <2>2 DEF CodesDown, Code
  <2> QED BY <2>3, <2>4, <2>5
<1> HIDE DEF d
<1> QED BY <1>1, <1>2, <1>3, <1>5, <1>6, ThroughOne, UserKeeps

LEMMA LeaveKeeps == ASSUME SessionInv, UserLeaves PROVE SessionInv'
<1> DEFINE e == Event("focus", "")
           d == past.disturbed \/ world.pressed # {}
<1>0. world \in World /\ past \in Past
  BY DEF SessionInv, SessionTypes
<1>1. User(<<e>>, world)
  BY DEF UserLeaves
<1>2. past' = [past EXCEPT !.disturbed = d] /\ d \in BOOLEAN
  BY <1>0 DEF UserLeaves, Disturbs, Past
<1>5. e \in Events /\ e.kind = "focus"
  BY DEF Event, Events
<1> HIDE DEF e
<1>6. win.alive => KeysDown(<<e>>, world, d)
  <2> SUFFICES ASSUME win.alive, Through(Pumped, <<e>>).win.alive, ~d
               PROVE  Through(Pumped, <<e>>).win.keys = CodesDown(world)
    BY DEF KeysDown
  <2>1. Through(Pumped, <<e>>).win.keys = {}
    BY <1>5, OnlyEvent DEF Handles
  <2>2. CodesDown(world) = {}
    BY DEF CodesDown
  <2> QED BY <2>1, <2>2
<1> HIDE DEF d
<1> QED BY <1>0, <1>1, <1>2, <1>5, <1>6, ThroughOne, UserKeeps

LEMMA UserClosesKeeps == ASSUME SessionInv, UserCloses PROVE SessionInv'
<1> DEFINE e == Event("close", "")
           d == past.disturbed
<1>0. world \in World
  BY DEF SessionInv, SessionTypes
<1>1. User(<<e>>, world)
  BY DEF UserCloses
<1>2. past' = [past EXCEPT !.disturbed = d] /\ d \in BOOLEAN
  BY SamePast DEF UserCloses
<1>5. e \in Events /\ e.kind = "close"
  BY DEF Event, Events
<1> HIDE DEF e
<1>6. win.alive => KeysDown(<<e>>, world, d)
  BY <1>5, OnlyEvent DEF Handles, KeysDown
<1> HIDE DEF d
<1> QED BY <1>0, <1>1, <1>2, <1>5, <1>6, ThroughOne, UserKeeps

LEMMA SessionStep == ASSUME SessionInv, [GraphicsNext]_graphicsVars PROVE SessionInv'
<1>1. CASE UNCHANGED graphicsVars
  <2>1. platform' = platform /\ win' = win /\ world' = world /\ last' = last /\ past' = past
    BY <1>1 DEF graphicsVars
  <2>2. Linux' = Linux
    BY <2>1 DEF Linux
  <2>3. Needed' = Needed /\ HeldCodes' = HeldCodes /\ Pumped' = Pumped
    BY <2>1, <2>2 DEF Needed, HeldCodes, Code, Pumped
  <2>4. SessionTypes'
    BY <2>1 DEF SessionInv, SessionTypes
  <2>5. SessionKept'
    BY <2>1, <2>2, <2>3 DEF SessionInv, SessionKept
  <2>6. KeysKept'
    BY <2>1, <2>3 DEF SessionInv, KeysKept
  <2>7. DrawingKept'
    BY <2>1 DEF SessionInv, DrawingKept, ShowsWhatWasDrawn
  <2> QED BY <2>4, <2>5, <2>6, <2>7 DEF SessionInv
<1>2. CASE UserActs
  BY <1>2, PressKeeps, ReleaseKeeps, HoldKeeps, ShiftKeeps, LeaveKeeps, UserClosesKeeps DEF UserActs
<1>3. CASE ProgramCalls
  <2>1. CASE Open \/ Close
    BY <2>1, OpenKeeps, CloseKeeps
  <2>2. CASE IsOpen \/ Present
    BY <2>2, LooksKeeps DEF IsOpen, Present
  <2>3. CASE \E c \in Codes : KeyDown(c)
    BY <2>3, KeyDownKeeps
  <2>4. CASE \E c \in Colors : SetColor(c) \/ Clear(c) \/ DrawText(c) \/ TextLost(c)
    BY <2>4, SetColorKeeps, ClearKeeps, DrawTextKeeps, TextLostKeeps
  <2>5. CASE \E c \in Colors, x \in {-1, 0, Width - 1}, w \in {-2, 0, 2} : Rect(c, x, w)
    <3>1. PICK c \in Colors, x \in {-1, 0, Width - 1}, w \in {-2, 0, 2} : Rect(c, x, w)
      BY <2>5
    <3>2. x \in Int /\ w \in Int
      BY WidthAssumption
    <3> QED BY <3>1, <3>2, RectKeeps
  <2> QED BY <1>3, <2>1, <2>2, <2>3, <2>4, <2>5 DEF ProgramCalls
<1> QED BY <1>1, <1>2, <1>3 DEF GraphicsNext

LEMMA SessionInvariant == GraphicsSpec => []SessionInv
<1>1. SessionInv /\ [GraphicsNext]_graphicsVars => SessionInv'
  BY SessionStep
<1> QED BY InitKept, <1>1, PTL DEF GraphicsSpec

(* For any canvas, colours and number of things the user does: as long as  *)
(* the window stays open, aym_gfx_key_down tells a press when it is next   *)
(* asked for that key, unless the window has lost the focus since, for it  *)
(* keeps hit flags besides the keys that are down; and after pumping all   *)
(* events the keys that count as down are those that are, unless shift or  *)
(* the focus changed while one was.                                        *)
THEOREM PressesTold == GraphicsSpec => []KeysFollow
<1>1. ASSUME SessionInv PROVE KeysFollow
  <2>1. world.events = << >> => Pumped.win = win
    <3> SUFFICES ASSUME world.events = << >> PROVE Pumped.win = win
      OBVIOUS
    <3> DEFINE s == [win |-> win, owed |-> past.owed]
    <3>1. Linux \in BOOLEAN /\ s \in PumpStates /\ s.win = win
      BY <1>1, PumpedFacts
    <3>2. Pumped = PumpedBy(Linux, s, << >>)
      BY DEF Pumped
    <3> HIDE DEF s
    <3> QED BY <3>1, <3>2, PumpNone
  <2> QED BY <1>1, <2>1 DEF SessionInv, KeysKept, KeysFollow, HeldCodes
<1> QED BY <1>1, SessionInvariant, PTL

(* A window that counts as open has all that drawing uses.  aym_gfx_close  *)
(* gives everything back and shows the console, whatever opening, failing  *)
(* and closing came before, but for two cases that leak, as LeftAsFound    *)
(* says: on Windows a window that the user closed and the program opened   *)
(* again without aym_gfx_close, on Linux an XCreateImage that failed.      *)
THEOREM SessionsGivenBack == GraphicsSpec => []LeftAsFound
<1>1. ASSUME SessionInv PROVE LeftAsFound
  BY <1>1 DEF SessionInv, SessionKept, LeftAsFound
<1> QED BY <1>1, SessionInvariant, PTL

(* For a canvas of any width and any colours: what aym_gfx_present shows   *)
(* is what was drawn since the last clear, in that order, on Windows for   *)
(* any sequence of rectangles and texts, on Linux for those in which no    *)
(* rectangle is to cover a text, which stays on top there.                 *)
THEOREM FramesShown == GraphicsSpec => []ShowsWhatWasDrawn
<1>1. ASSUME SessionInv PROVE ShowsWhatWasDrawn
  BY <1>1 DEF SessionInv, DrawingKept
<1> QED BY <1>1, SessionInvariant, PTL
=============================================================================
