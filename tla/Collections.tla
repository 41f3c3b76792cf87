---------------------------- MODULE Collections ----------------------------
(***************************************************************************)
(* Lists and maps of the runtime (runtime_arrays.c, first half of          *)
(* runtime_maps_strings.c) and the higher-order calls over lists           *)
(* (runtime.c), whose functions are code of the program and may use, and   *)
(* change, any list meanwhile.  Memory may run out at every allocation.    *)
(***************************************************************************)
EXTENDS Integers, Sequences, SequencesExt, FiniteSets

CONSTANTS
  Arrays, Maps,   \* objects there is room for: sets of positive numbers
  Keys,
  Values,         \* what cells hold: numbers, 0 among them
  Sizes,          \* the sizes a program asks for
  Junk,           \* what a cell holds that nobody has written
  MaxCalls,       \* bound: calls of the program
  MaxDepth,       \* bound: higher-order calls within each other
  MaxOutages      \* bound: allocations that fail

ASSUME SizesAssumption == Arrays \cup Maps \subseteq Nat \ {0} /\ Sizes \subseteq Int
ASSUME ValuesAssumption == Values \subseteq Int /\ 0 \in Values /\ Junk \notin Values

VARIABLES
  arr, map,       \* AymArray and AymMap
  calls,          \* the higher-order calls at work, innermost last
  reply,          \* what the last call returned or threw
  outages,        \* how many allocations have failed
  undefined,      \* the program has used memory that is not its own
  used            \* counter of the bound

collectionVars == <<arr, map, calls, reply, outages, undefined, used>>

NULL == 0

(* AymArray.  `mine`: the program has its handle; a list that a higher-    *)
(* order call is making is known to nobody else.                           *)
Unused == [state |-> "unused", mine |-> FALSE, len |-> 0, cap |-> 0, data |-> << >>]
Zeroed(n) == [state |-> "live", mine |-> TRUE, len |-> n, cap |-> n, data |-> [i \in 0..(n - 1) |-> 0]]
Hidden(a) == [a EXCEPT !.mine = FALSE]
Given(a) == [a EXCEPT !.mine = TRUE]

(* The array a, with these elements and this block. *)
ArrayWith(a, len, cap, data) == [state |-> a.state, mine |-> a.mine, len |-> len, cap |-> cap, data |-> data]

Held == {x \in Arrays : arr[x].mine /\ arr[x].state = "live"}
Room == {x \in Arrays : arr[x].state = "unused"}
Fresh == CHOOSE x \in Room : TRUE

Doubled(cap) == IF cap > 0 THEN cap * 2 ELSE 1

(* realloc keeps the cells there are and leaves the others unwritten.      *)
Grown(a) ==
  ArrayWith(a, a.len, Doubled(a.cap), [i \in 0..(Doubled(a.cap) - 1) |-> IF i < a.cap THEN a.data[i] ELSE Junk])

Full(a) == a.len >= a.cap
Stored(a, v) == ArrayWith(a, a.len + 1, a.cap, [a.data EXCEPT ![a.len] = v])

(* Mutant: the array grows one push too late. *)
PushedLate(a, v) == Stored(IF a.len > a.cap THEN Grown(a) ELSE a, v)

(* aym_array_push, when there is room.                                     *)
Pushed(a, v) == Stored(IF Full(a) THEN Grown(a) ELSE a, v)

(* The cells from i on move up by one, as far as there are elements.       *)
MovedUp(f, i, len) == [j \in DOMAIN f |-> IF i <= j /\ j < len - 1 THEN f[j + 1] ELSE f[j]]
Removed(a, i) == ArrayWith(a, a.len - 1, a.cap, MovedUp(a.data, i, a.len))

Contents(a) == [i \in 1..a.len |-> a.data[i - 1]]
Holds(a, v) == \E i \in 0..(a.len - 1) : a.data[i] = v
Get(a, i) == IF 0 <= i /\ i < a.len THEN a.data[i] ELSE 0

(* A copy for aym_array_sort_* and _unique_*: of the cells f leads to.      *)
Copied(a, f, n, cap) ==
  [state |-> "live", mine |-> TRUE, len |-> n, cap |-> cap,
   data |-> [i \in 0..(cap - 1) |-> IF i < n THEN a.data[f[i]] ELSE Junk]]

(* qsort: some order of the cells in which none is less than one before.   *)
(* The texts of the _str functions are values like any other here.         *)
Indices(n) == 0..(n - 1)
Sorts(a, f) == \A i, j \in Indices(a.len) : i < j => a.data[f[i]] <= a.data[f[j]]

(* The loop of aym_array_unique_* pushes to a new(0) whatever is not there *)
(* yet.  K: the indices of what it keeps; other first occurrences are lost *)
(* to a push that had to grow and got no room, as it has to at each power  *)
(* of two.                                                                 *)
Grows(n) == n = 0 \/ \E k \in 0..n : n = 2^k
Seen(a, K, i) == \E j \in K : j < i /\ a.data[j] = a.data[i]
Losses(a, K) == {i \in Indices(a.len) \ K : ~Seen(a, K, i)}
Keepable(a, K) ==
  /\ \A i \in K : ~Seen(a, K, i)
  /\ \A i \in Losses(a, K) : Grows(Cardinality({j \in K : j < i}))
Capacities(n) == {cap \in 0..(2 * n) : n <= cap /\ Grows(cap) /\ (cap = 0 \/ cap < 2 * n)}
InOrder(f, n) == \A i, j \in Indices(n) : i < j => f[i] < f[j]
-----------------------------------------------------------------------------
Reply(kind, is) == reply' = [kind |-> kind, is |-> is]
Enough == UNCHANGED outages
Lacking(n) == outages + n <= MaxOutages /\ outages' = outages + n

(* The program runs: outside of higher-order calls, or in their functions. *)
Running == calls # << >> => Last(calls).phase = "function"

(* Higher-order calls learn, as history, that their list has been changed. *)
Marked(x) == [f \in DOMAIN calls |-> [calls[f] EXCEPT !.changed = @ \/ calls[f].src = x]]
Update(x, a) ==
  /\ arr' = [arr EXCEPT ![x] = a]
  /\ calls' = Marked(x)
  /\ UNCHANGED map
Adds(a) ==
  /\ Room # {} /\ arr' = [arr EXCEPT ![Fresh] = a]
  /\ Reply("list", Fresh) /\ UNCHANGED calls /\ UNCHANGED map
NoChange == UNCHANGED <<arr, map, calls>>

(* aym_throw_typed: to a handler of the function that is running, or one   *)
(* outside of it, which abandons the higher-order calls in between.        *)
Throw(error) ==
  /\ Enough /\ Reply(error, 0)
  /\ \E n \in 0..Len(calls) : calls' = SubSeq(calls, 1, n)
  /\ UNCHANGED <<arr, map>>

Ignored == Enough /\ Reply("ignored", 0) /\ NoChange
NoMemory == Lacking(1) /\ Reply("no memory", 0) /\ NoChange

ArrayNew(n) ==
  IF n < 0 THEN Ignored
  ELSE \/ Enough /\ Adds(Zeroed(n))
       \/ NoMemory

SetCell(a, i, v) == ArrayWith(a, a.len, a.cap, [a.data EXCEPT ![i] = v])
ArraySet(x, i, v) ==
  IF x # NULL /\ 0 <= i /\ i < arr[x].len
    THEN Enough /\ Update(x, SetCell(arr[x], i, v)) /\ Reply("value", v)
    ELSE Ignored

(* When realloc fails the list stays, and v is lost. *)
ArrayPush(x, v) ==
  IF x = NULL THEN Ignored
  ELSE \/ Enough /\ Update(x, Pushed(arr[x], v)) /\ Reply("list", x)
       \/ Full(arr[x]) /\ Lacking(1) /\ Reply("list", x) /\ NoChange

ArrayPop(x) ==
  IF x = NULL \/ arr[x].len <= 0 THEN Throw("VACIO")
  ELSE /\ Enough /\ Reply("value", arr[x].data[arr[x].len - 1])
       /\ Update(x, ArrayWith(arr[x], arr[x].len - 1, arr[x].cap, arr[x].data))

ArrayRemoveAt(x, i) ==
  IF x = NULL \/ i < 0 \/ i >= arr[x].len THEN Throw("INDICE")
  ELSE Enough /\ Update(x, Removed(arr[x], i)) /\ Reply("value", arr[x].data[i])

ArraySort(x) ==
  \/ x = NULL /\ Enough /\ Adds(Zeroed(0))
  \/ /\ x # NULL /\ Enough
     /\ \E f \in Bijection(Indices(arr[x].len), Indices(arr[x].len)) :
          Sorts(arr[x], f) /\ Adds(Copied(arr[x], f, arr[x].len, arr[x].len))
  \/ NoMemory

ArrayUnique(x) ==
  \/ x = NULL /\ Enough /\ Adds(Zeroed(0))
  \/ /\ x # NULL
     /\ \E K \in SUBSET Indices(arr[x].len) :
          /\ Keepable(arr[x], K) /\ Lacking(Cardinality(Losses(arr[x], K)))
          /\ \E f \in [Indices(Cardinality(K)) -> K], cap \in Capacities(Cardinality(K)) :
               InOrder(f, Cardinality(K)) /\ Adds(Copied(arr[x], f, Cardinality(K), cap))
  \/ NoMemory

ArrayFree(x) ==
  IF x = NULL THEN Ignored
  ELSE Enough /\ Update(x, [arr[x] EXCEPT !.state = "freed"]) /\ Reply("none", 0)

(* The program has freed a list and uses it once more. *)
UseFreed ==
  /\ \E x \in Arrays : arr[x].mine /\ arr[x].state = "freed"
  /\ undefined' = TRUE
  /\ UNCHANGED <<arr, map, calls, reply, outages, used>>
-----------------------------------------------------------------------------
(* aym_hof_map, _filter and _reduce.  The length is read once; each round  *)
(* gets a cell, calls the function, and uses what it returns.  History:    *)
(* the list at the start, whether it has been changed since, the arguments *)
(* of the function, what it returned, whether a push found no memory.      *)
Call(op, x, out, acc) ==
  [op |-> op, src |-> x, len |-> arr[x].len, next |-> 0, out |-> out, acc |-> acc, phase |-> "loop",
   start |-> Contents(arr[x]), changed |-> FALSE, seen |-> << >>, gave |-> << >>, lost |-> FALSE]

Enter(c) == calls' = Append(calls, c)

(* The list being made is new(0); without memory for it pushes do nothing. *)
HofBegin(op, x) ==
  /\ Len(calls) < MaxDepth
  /\ IF x = NULL
       THEN IF op = "reduce" THEN Enough /\ Reply("made", 0) /\ NoChange
            ELSE ArrayNew(0)
       ELSE /\ Reply("calling", 0) /\ UNCHANGED map
            /\ \/ op = "reduce" /\ Enough /\ Enter(Call(op, x, NULL, 0)) /\ UNCHANGED arr
               \/ op # "reduce" /\ Enough /\ Room # {}
                    /\ arr' = [arr EXCEPT ![Fresh] = Hidden(Zeroed(0))] /\ Enter(Call(op, x, Fresh, 0))
               \/ op # "reduce" /\ Lacking(1) /\ UNCHANGED arr
                    /\ Enter([Call(op, x, NULL, 0) EXCEPT !.lost = TRUE])

InRuntime == ~undefined /\ calls # << >> /\ Last(calls).phase = "loop" /\ UNCHANGED <<map, used>>
Top == Last(calls)
(* The function is called with v; it returns r.                            *)
Passed(c, v) == LET f == [c EXCEPT !.phase = "function"] IN [f EXCEPT !.seen = Append(@, v)]
Answered(c, r) ==
  LET back == [c EXCEPT !.phase = "loop"]
      on == [back EXCEPT !.next = @ + 1]
      told == [on EXCEPT !.gave = Append(@, r)]
  IN  IF c.op = "reduce" THEN [told EXCEPT !.acc = r] ELSE told
Round(c) == calls' = [calls EXCEPT ![Len(calls)] = c]

HofRound ==
  /\ InRuntime /\ Top.next < Top.len
  /\ IF arr[Top.src].state = "freed"
       THEN undefined' = TRUE /\ UNCHANGED calls
       ELSE /\ Round(Passed(Top, Get(arr[Top.src], Top.next)))
            /\ UNCHANGED undefined
  /\ Reply("calling", 0) /\ Enough /\ UNCHANGED arr

(* Mutant: filter keeps what the function returned. *)
ResultOfFunction(c, r) == r

(* What is pushed to the list being made. *)
Result(c, r) == IF c.op = "map" THEN r ELSE Last(c.seen)
Pushes(c, r) == c.op = "map" \/ (c.op = "filter" /\ r # 0)

HofReturn(r) ==
  /\ ~undefined /\ calls # << >> /\ Top.phase = "function"
  /\ LET c == Answered(Top, r)
     IN  IF ~Pushes(c, r) \/ c.out = NULL
           THEN Round(c) /\ Enough /\ UNCHANGED arr
           ELSE \/ /\ Round(c) /\ Enough
                   /\ arr' = [arr EXCEPT ![c.out] = Pushed(@, Result(c, r))]
                \/ Full(arr[c.out]) /\ Lacking(1) /\ Round([c EXCEPT !.lost = TRUE]) /\ UNCHANGED arr
  /\ Reply("calling", 0) /\ UNCHANGED <<map, undefined, used>>

(* pantja in the function: the call is abandoned, and what it has made.    *)
HofThrows ==
  /\ ~undefined /\ calls # << >> /\ Top.phase = "function"
  /\ \E n \in 0..(Len(calls) - 1) : calls' = SubSeq(calls, 1, n)
  /\ Reply("none", 0) /\ Enough /\ UNCHANGED <<arr, map, undefined, used>>

HofEnd ==
  /\ InRuntime /\ Top.next >= Top.len
  /\ calls' = Front(calls)
  /\ IF Top.op = "reduce" \/ Top.out = NULL
       THEN Reply("made", IF Top.op = "reduce" THEN Top.acc ELSE 0) /\ UNCHANGED arr
       ELSE Reply("made", Top.out) /\ arr' = [arr EXCEPT ![Top.out] = Given(@)]
  /\ Enough /\ UNCHANGED undefined
-----------------------------------------------------------------------------
(* AymMap: three blocks side by side.  `freed` names those that have been  *)
(* released although the map still points to them.                         *)
NoMap == [live |-> FALSE, len |-> 0, cap |-> 0, keys |-> << >>, values |-> << >>, types |-> << >>, freed |-> {}]
EmptyMap(n) ==
  [live |-> TRUE, len |-> 0, cap |-> n, keys |-> [i \in 0..(n - 1) |-> Junk],
   values |-> [i \in 0..(n - 1) |-> 0], types |-> [i \in 0..(n - 1) |-> FALSE], freed |-> {}]
Blocks == {"keys", "values", "types"}

(* The map d, with these entries and blocks of this size. *)
MapWith(d, len, cap, keys, values, types) ==
  [live |-> d.live, len |-> len, cap |-> cap, keys |-> keys, values |-> values, types |-> types, freed |-> d.freed]

Existing == {m \in Maps : map[m].live}
Bind(m, d) == map' = [map EXCEPT ![m] = d] /\ UNCHANGED <<arr, calls>>

(* aym_map_find: where the key is. *)
Find(d, k) == {i \in 0..(d.len - 1) : d.keys[i] = k}
At(d, k) == CHOOSE i \in Find(d, k) : \A j \in Find(d, k) : i <= j

(* A search reads the keys; a call that finds its key, or writes one, uses *)
(* all the blocks.                                                         *)
Sound(d, k) == (d.len > 0 => "keys" \notin d.freed) /\ (Find(d, k) # {} => d.freed = {})
Astray == undefined' = TRUE /\ UNCHANGED <<arr, map, calls, reply, outages>>
Safely(sound, A) == IF sound THEN A /\ UNCHANGED undefined ELSE Astray

Longer(f, cap, n) == [i \in 0..(n - 1) |-> IF i < cap THEN f[i] ELSE Junk]
GrownMap(d) ==
  LET n == Doubled(d.cap)
  IN  MapWith(d, d.len, n, Longer(d.keys, d.cap, n), Longer(d.values, d.cap, n), Longer(d.types, d.cap, n))

(* aym_map_grow when some of the three reallocs fail: what the others have *)
(* returned is freed, and the map keeps pointing to blocks that are gone.  *)
HalfGrown(d, failing) == [d EXCEPT !.freed = IF d.cap = 0 THEN {} ELSE Blocks \ failing]

Overwritten(d, k, v, str) ==
  MapWith(d, d.len, d.cap, d.keys, [d.values EXCEPT ![At(d, k)] = v], [d.types EXCEPT ![At(d, k)] = str])
Appended(d, k, v, str) ==
  MapWith(d, d.len + 1, d.cap, [d.keys EXCEPT ![d.len] = k],
          [d.values EXCEPT ![d.len] = v], [d.types EXCEPT ![d.len] = str])

MapNew(n) ==
  IF n < 0 THEN Ignored
  ELSE \/ \E m \in Maps \ Existing : Enough /\ Bind(m, EmptyMap(n)) /\ Reply("map", m)
       \/ NoMemory

AppendKey(m, d, k, v, str) ==
  /\ Enough /\ Bind(m, Appended(IF d.len >= d.cap THEN GrownMap(d) ELSE d, k, v, str))
  /\ Reply("value", v)
GrowthFails(m, d) ==
  /\ d.len >= d.cap /\ Lacking(1) /\ Reply("no memory", 0)
  /\ \E failing \in SUBSET Blocks \ {{}} : Bind(m, HalfGrown(d, failing))

MapSet(m, k, v, str) ==
  IF m = NULL THEN Ignored
  ELSE IF Find(map[m], k) # {}
    THEN Enough /\ Bind(m, Overwritten(map[m], k, v, str)) /\ Reply("value", v)
    ELSE AppendKey(m, map[m], k, v, str) \/ GrowthFails(m, map[m])

MapGet(m, k) ==
  IF m = NULL \/ Find(map[m], k) = {} THEN Throw("CLAVE")
  ELSE Enough /\ Reply("value", map[m].values[At(map[m], k)]) /\ NoChange

(* Mutant: the types are not moved along. *)
DeletedValues(d, i) ==
  MapWith(d, d.len - 1, d.cap, MovedUp(d.keys, i, d.len), MovedUp(d.values, i, d.len), d.types)

Deleted(d, i) ==
  MapWith(d, d.len - 1, d.cap, MovedUp(d.keys, i, d.len), MovedUp(d.values, i, d.len),
          MovedUp(d.types, i, d.len))

MapDelete(m, k) ==
  IF m = NULL \/ Find(map[m], k) = {} THEN Throw("CLAVE")
  ELSE LET i == At(map[m], k) IN
         Enough /\ Bind(m, Deleted(map[m], i)) /\ Reply("value", map[m].values[i])

(* aym_map_values; aym_map_keys lists the keys in the same order.  Without *)
(* memory for the list there is none.                                      *)
Listed(n, f) == ArrayWith(Zeroed(n), n, n, [i \in Indices(n) |-> f[i]])
MapValues(m) ==
  IF m = NULL THEN Ignored
  ELSE \/ Enough /\ Adds(Listed(map[m].len, map[m].values))
       \/ NoMemory
-----------------------------------------------------------------------------
CollectionInit ==
  /\ arr = [x \in Arrays |-> Unused] /\ map = [m \in Maps |-> NoMap]
  /\ calls = << >> /\ reply = [kind |-> "none", is |-> 0]
  /\ outages = 0 /\ undefined = FALSE /\ used = 0

ListCall ==
  \/ \E n \in Sizes : ArrayNew(n)
  \/ \E x \in Held \cup {NULL} :
       \/ \E i \in Sizes, v \in Values : ArraySet(x, i, v)
       \/ \E v \in Values : ArrayPush(x, v)
       \/ ArrayPop(x) \/ \E i \in Sizes : ArrayRemoveAt(x, i)
       \/ ArraySort(x) \/ ArrayUnique(x) \/ ArrayFree(x)
       \/ \E op \in {"map", "filter", "reduce"} : HofBegin(op, x)

MapCall(m) ==
  \/ \E k \in Keys :
       \/ \E v \in Values, str \in BOOLEAN :
            Safely(m = NULL \/ map[m].freed = {}, MapSet(m, k, v, str))
       \/ Safely(m = NULL \/ Sound(map[m], k), MapGet(m, k) \/ MapDelete(m, k))
  \/ Safely(m = NULL \/ map[m].len = 0 \/ map[m].freed = {}, MapValues(m))

ProgramCall ==
  /\ ~undefined /\ used < MaxCalls /\ used' = used + 1 /\ Running
  /\ \/ UNCHANGED undefined /\ (ListCall \/ \E n \in Sizes : MapNew(n))
     \/ \E m \in Existing \cup {NULL} : MapCall(m)

CollectionNext ==
  \/ ProgramCall \/ UseFreed
  \/ HofRound \/ HofEnd \/ HofThrows \/ \E r \in Values : HofReturn(r)

CollectionSpec == CollectionInit /\ [][CollectionNext]_collectionVars
-----------------------------------------------------------------------------
(* Every list and map is as long as its blocks allow and has no cell that  *)
(* was never written among the first len.                                  *)
ArrayOK(a) ==
  /\ a.len \in Nat /\ a.cap \in Nat /\ a.len <= a.cap
  /\ DOMAIN a.data = 0..(a.cap - 1)
  /\ \A i \in 0..(a.len - 1) : a.data[i] \in Values
MapOK(d) ==
  /\ d.len \in Nat /\ d.cap \in Nat /\ d.len <= d.cap
  /\ DOMAIN d.keys = 0..(d.cap - 1) /\ DOMAIN d.values = 0..(d.cap - 1) /\ DOMAIN d.types = 0..(d.cap - 1)
  /\ \A i \in 0..(d.len - 1) : d.keys[i] \in Keys /\ d.values[i] \in Values /\ d.types[i] \in BOOLEAN
WithinBlocks == (\A x \in Arrays : ArrayOK(arr[x])) /\ (\A m \in Maps : MapOK(map[m]))

(* Whatever the function of a higher-order call does to lists, the one     *)
(* being made holds exactly what the rounds so far have put there, unless  *)
(* memory ran out; and when the list itself is left alone, the function    *)
(* has been given its elements, each once and in order.                    *)
KeptRounds(c) == {i \in DOMAIN c.gave : c.gave[i] # 0}
Filtered(s, c) ==
  \E f \in Bijection(DOMAIN s, KeptRounds(c)) :
    /\ \A i, j \in DOMAIN s : i < j => f[i] < f[j]
    /\ \A i \in DOMAIN s : s[i] = c.seen[f[i]]
RoundsInOrder ==
  \A n \in DOMAIN calls :
    LET c == calls[n] IN
      /\ c.op = "map" /\ ~c.lost => Contents(arr[c.out]) = c.gave
      /\ c.op = "filter" /\ ~c.lost => Filtered(Contents(arr[c.out]), c)
      /\ ~c.changed => c.seen = SubSeq(c.start, 1, Len(c.seen))

(* The lists and maps a program can reach behave as CollectionsSpec says.  *)
ListsBar == [x \in Held |-> Contents(arr[x])]
DictBar(d) ==
  [k \in {d.keys[i] : i \in 0..(d.len - 1)} |-> [value |-> d.values[At(d, k)], str |-> d.types[At(d, k)]]]
DictsBar == [m \in Existing |-> DictBar(map[m])]
Promise == INSTANCE CollectionsSpec WITH
  Handles <- Arrays \cup Maps, lists <- ListsBar, dicts <- DictsBar, answer <- reply
KeepsPromise == Promise!Spec
=============================================================================
