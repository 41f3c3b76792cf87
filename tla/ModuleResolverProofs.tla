------------------------ MODULE ModuleResolverProofs ------------------------
(***************************************************************************)
(* Whatever the program: the recursion of load and resolve is bounded, and *)
(* the list of nodes they make holds each node once, in the order of the   *)
(* imports, and all of them when nothing is selected; a cycle is reported. *)
(***************************************************************************)
EXTENDS ModuleResolver, AscendingProofs, FiniteSetTheorems, SequenceTheorems, TLAPS

(* A frame stands at a position of a file. *)
IsFrame(f) == f.file \in Files /\ f.next \in Nat \ {0}

StackOK ==
  /\ stack \in Seq(Range(stack))
  /\ stack # << >>
  /\ \A i \in 1..Len(stack) : IsFrame(stack[i])

(* Above the entry, no file is being resolved twice. *)
Distinct(s) == \A i, j \in 2..Len(s) : s[i].file = s[j].file => i = j
Above(s) == {s[i].file : i \in 2..Len(s)}

LoadOK ==
  /\ Distinct(stack)
  /\ Resolving => loading = Above(stack)
  /\ loading \cap loaded = {}

IInv == text \in Texts /\ StackOK /\ LoadOK
-----------------------------------------------------------------------------
(* The indices of a sequence that is not empty. *)
LEMMA NonEmptySeq ==
  ASSUME NEW S, NEW s \in Seq(S), s # << >>
  PROVE  Len(s) \in Nat \ {0} /\ DOMAIN s = 1..Len(s)
OBVIOUS

(* The node at hand of an import names a file. *)
LEMMA ImportsAFile ==
  ASSUME IInv, Importing
  PROVE  Node.file \in Files
<1>0. Len(stack) \in Nat \ {0}
  BY NonEmptySeq DEF IInv, StackOK
<1>a. \A i \in 1..Len(stack) : IsFrame(stack[i])
  BY DEF IInv, StackOK
<1>b. IsFrame(Top)
  BY <1>0, <1>a DEF Top, Last
<1>1. Top.file \in Files /\ Top.next \in Nat \ {0}
  BY <1>b DEF IsFrame
<1>2. text[Top.file] \in Seq(SourceNodes) \cup {Absent, Garbled}
  BY <1>1, TextsAssumption DEF IInv
<1>3. TopNodes \in Seq(SourceNodes)
  BY <1>2 DEF TopNodes, Nodes
<1>4. Top.next \in 1..Len(TopNodes)
  BY <1>1, <1>3 DEF Importing, More
<1>5. Node \in SourceNodes
  BY <1>3, <1>4 DEF Node
<1> QED BY <1>5 DEF Importing, SourceNodes

(* A frame stays a frame of its file when it moves on. *)
LEMMA PutFrame ==
  ASSUME NEW f, IsFrame(f), NEW nodes
  PROVE  IsFrame(Put(f, nodes)) /\ Put(f, nodes).file = f.file
BY DEF IsFrame, Put

(* Putting nodes out changes no frame's file and not the recursion. *)
LEMMA AdvancedFrames ==
  ASSUME NEW s, s \in Seq(Range(s)), s # << >>, \A i \in 1..Len(s) : IsFrame(s[i]), NEW nodes
  PROVE  LET t == Advanced(s, nodes) IN
           /\ t \in Seq(Range(t)) /\ t # << >> /\ Len(t) = Len(s)
           /\ \A i \in 1..Len(t) : IsFrame(t[i]) /\ t[i].file = s[i].file
<1> DEFINE t == Advanced(s, nodes)
<1>1. DOMAIN s = 1..Len(s) /\ Len(s) \in Nat \ {0}
  BY NonEmptySeq
<1>2. t = [i \in 1..Len(s) |-> IF i = Len(s) THEN Put(s[i], nodes) ELSE s[i]]
  BY <1>1 DEF Advanced
<1>3. DOMAIN t = 1..Len(s)
  BY <1>2
<1>4. t \in Seq(Range(t))
  <2>1. \A i \in 1..Len(s) : t[i] \in Range(t)
    BY <1>3 DEF Range
  <2>2. t = [i \in 1..Len(s) |-> t[i]]
    BY <1>2
  <2> HIDE DEF t
  <2> QED BY <1>1, <2>1, <2>2
<1>5. Len(t) = Len(s) /\ t # << >>
  BY <1>1, <1>3, <1>4
<1>6. ASSUME NEW i \in 1..Len(s)
      PROVE  IsFrame(t[i]) /\ t[i].file = s[i].file
  <2>1. IsFrame(s[i])
    OBVIOUS
  <2>2. CASE i = Len(s)
    <3>1. t[i] = Put(s[i], nodes)
      BY <1>2, <2>2
    <3> QED BY <2>1, <3>1, PutFrame
  <2>3. CASE i # Len(s)
    BY <1>2, <2>1, <2>3
  <2> QED BY <2>2, <2>3
<1> QED BY <1>4, <1>5, <1>6

(* The entry alone is being resolved at first. *)
LEMMA Start ==
  Init => IInv
<1> SUFFICES ASSUME Init PROVE IInv
  OBVIOUS
<1>1. stack = <<Frame(Entry)>> /\ loading = {} /\ loaded = {} /\ text \in Texts
  BY DEF Init
<1>2. IsFrame(Frame(Entry))
  BY FilesAssumption DEF IsFrame, Frame
<1>3. stack \in Seq(Range(stack)) /\ Len(stack) = 1 /\ stack[1] = Frame(Entry) /\ stack # << >>
  BY <1>1 DEF Range
<1>4. StackOK
  BY <1>2, <1>3 DEF StackOK
<1>5. 2..1 = {}
  OBVIOUS
<1> QED BY <1>1, <1>3, <1>4, <1>5 DEF IInv, LoadOK, Distinct, Above

(* A step that only advances the last frame.                               *)
LEMMA Advancing ==
  ASSUME IInv, NEW nodes, stack' = Advanced(stack, nodes),
         UNCHANGED <<text, loading, loaded, status>>
  PROVE  IInv'
<1>1. /\ stack' \in Seq(Range(stack')) /\ stack' # << >> /\ Len(stack') = Len(stack)
      /\ \A i \in 1..Len(stack') : IsFrame(stack'[i]) /\ stack'[i].file = stack[i].file
  BY AdvancedFrames DEF IInv, StackOK
<1>2. StackOK'
  BY <1>1 DEF StackOK, IsFrame
<1>3. Len(stack) \in Nat
  BY DEF IInv, StackOK
<1>4. Distinct(stack) => Distinct(stack')
  BY <1>1, <1>3 DEF Distinct
<1>5. Above(stack') = Above(stack)
  BY <1>1, <1>3 DEF Above
<1> QED BY <1>2, <1>4, <1>5 DEF IInv, LoadOK, Resolving

(* An error leaves the recursion as it is. *)
LEMMA Failing ==
  ASSUME IInv, NEW code, code # "resolving", Fail(code)
  PROVE  IInv'
<1>1. StackOK'
  BY DEF IInv, StackOK, IsFrame, Fail
<1> QED BY <1>1 DEF IInv, LoadOK, Distinct, Above, Resolving, Fail

(* A module is begun: it is not on the recursion yet. *)
LEMMA Loading ==
  ASSUME IInv, Load
  PROVE  IInv'
<1> DEFINE n == Len(stack)
           file == Node.file
           s == stack'
<1>1. file \in Files
  BY ImportsAFile DEF Load
<1>2. n \in Nat \ {0} /\ stack \in Seq(Range(stack))
  BY NonEmptySeq DEF IInv, StackOK
<1>3. s = Append(stack, Frame(file))
  BY DEF Load
<1>4. /\ Len(s) = n + 1 /\ s[n + 1] = Frame(file)
      /\ \A i \in 1..n : s[i] = stack[i]
      /\ DOMAIN s = 1..(n + 1)
  <2> DEFINE F == Range(stack) \cup {Frame(file)}
  <2>1. stack \in Seq(F) /\ Frame(file) \in F
    BY <1>2
  <2> HIDE DEF F
  <2> QED BY <1>3, <2>1
<1>5. s \in Seq(Range(s)) /\ s # << >>
  <2>1. s = [i \in 1..(n + 1) |-> s[i]]
    BY <1>2, <1>3
  <2>2. \A i \in 1..(n + 1) : s[i] \in Range(s)
    BY <1>4 DEF Range
  <2> HIDE DEF s
  <2>3. s \in Seq(Range(s))
    BY <1>2, <2>1, <2>2
  <2> QED BY <1>2, <1>4, <2>3
<1>6. IsFrame(Frame(file)) /\ Frame(file).file = file
  BY <1>1 DEF IsFrame, Frame
<1>7. StackOK'
  <2>1. \A i \in 1..(n + 1) : IsFrame(s[i])
    BY <1>2, <1>4, <1>6 DEF IInv, StackOK
  <2> QED BY <1>4, <1>5, <2>1 DEF StackOK, IsFrame
<1>8. file \notin Above(stack) /\ file \notin loaded /\ loading = Above(stack)
  BY DEF Load, Importing, More, IInv, LoadOK
<1>9. Distinct(s)
  BY <1>2, <1>4, <1>6, <1>8 DEF Distinct, Above, IInv, LoadOK
<1>10. Above(s) = Above(stack) \cup {file}
  BY <1>2, <1>4, <1>6 DEF Above
<1>11. LoadOK'
  BY <1>8, <1>9, <1>10 DEF LoadOK, IInv, Load
<1> QED BY <1>7, <1>11 DEF IInv, Load

(* The frames below the top are frames. *)
LEMMA FrontFrames ==
  ASSUME NEW s, s \in Seq(Range(s)), Len(s) > 1, \A i \in 1..Len(s) : IsFrame(s[i])
  PROVE  LET t == Front(s) IN
           /\ t \in Seq(Range(t)) /\ t # << >> /\ Len(t) = Len(s) - 1
           /\ \A i \in 1..Len(t) : t[i] = s[i] /\ IsFrame(t[i])
<1> DEFINE t == Front(s)
           n == Len(s) - 1
<1>1. n \in Nat \ {0}
  OBVIOUS
<1>2. t \in Seq(Range(s)) /\ Len(t) = n /\ \A i \in 1..n : t[i] = s[i]
  <2> DEFINE F == Range(s)
  <2> HIDE DEF F
  <2> QED BY <1>1 DEF Front
<1>3. DOMAIN t = 1..n /\ t = [i \in 1..n |-> t[i]]
  BY <1>1, <1>2
<1>4. \A i \in 1..n : t[i] \in Range(t)
  BY <1>3 DEF Range
<1> HIDE DEF t
<1>5. t \in Seq(Range(t))
  BY <1>1, <1>3, <1>4
<1> QED BY <1>1, <1>2, <1>5 DEF t

(* A module is resolved: it leaves the recursion and is loaded. *)
LEMMA Returning ==
  ASSUME IInv, Return
  PROVE  IInv'
<1> DEFINE below == Front(stack)
           nodes == Taken(Nodes(text[Last(below).file])[Last(below).next].take, Top.out)
           n == Len(stack)
<1>1. n \in Nat /\ n > 1 /\ stack \in Seq(Range(stack)) /\ Distinct(stack)
  BY NonEmptySeq DEF IInv, StackOK, LoadOK, Return
<1>2. /\ below \in Seq(Range(below)) /\ below # << >> /\ Len(below) = n - 1
      /\ \A i \in 1..Len(below) : below[i] = stack[i] /\ IsFrame(below[i])
  BY <1>1, FrontFrames DEF IInv, StackOK
<1>3. stack' = Advanced(below, nodes) \/ stack' = below
  BY DEF Return, Receive
<1>4. /\ stack' \in Seq(Range(stack')) /\ stack' # << >> /\ Len(stack') = n - 1
      /\ \A i \in 1..(n - 1) : stack'[i].file = stack[i].file /\ IsFrame(stack'[i])
  <2>1. CASE stack' = below
    BY <1>2, <2>1
  <2>2. CASE stack' = Advanced(below, nodes)
    <3> HIDE DEF below, nodes
    <3> DEFINE t == Advanced(below, nodes)
    <3>1. \A i \in 1..Len(below) : IsFrame(below[i])
      BY <1>2
    <3>2. /\ t \in Seq(Range(t)) /\ t # << >> /\ Len(t) = Len(below)
          /\ \A i \in 1..Len(t) : IsFrame(t[i]) /\ t[i].file = below[i].file
      BY <1>2, <3>1, AdvancedFrames
    <3> QED BY <1>2, <2>2, <3>2
  <2> QED BY <1>3, <2>1, <2>2
<1>5. StackOK'
  BY <1>4 DEF StackOK, IsFrame
<1>6. Distinct(stack')
  BY <1>1, <1>4 DEF Distinct
<1>7. Above(stack') = Above(stack) \ {Top.file}
  BY <1>1, <1>4 DEF Above, Distinct, Top, Last
<1>8. Top.file \in Above(stack)
  BY <1>1 DEF Above, Top, Last
<1>9. loading = Above(stack) /\ loading \cap loaded = {}
  BY DEF Return, IInv, LoadOK
<1>10. LoadOK'
  BY <1>6, <1>7, <1>8, <1>9 DEF LoadOK, Return
<1> QED BY <1>5, <1>10 DEF IInv, Return
-----------------------------------------------------------------------------
(* Every step of load and resolve keeps the invariant. *)
LEMMA Inductive ==
  IInv /\ [Next]_vars => IInv'
<1> SUFFICES ASSUME IInv, [Next]_vars PROVE IInv'
  OBVIOUS
<1>1. CASE Keep
  BY <1>1, Advancing DEF Keep
<1>2. CASE NotFound
  BY <1>2, Failing DEF NotFound
<1>3. CASE AlreadyLoaded
  <2>1. CASE Missing(Node.take, << >>) = {}
    BY <1>3, <2>1, Advancing DEF AlreadyLoaded, Receive
  <2>2. CASE Missing(Node.take, << >>) # {}
    <3>1. Fail("AYM4005")
      BY <1>3, <2>2 DEF AlreadyLoaded, Receive, Fail
    <3> QED BY <3>1, Failing
  <2> QED BY <2>1, <2>2
<1>4. CASE Cyclic
  BY <1>4, Failing DEF Cyclic
<1>5. CASE Unparsable
  <2>1. StackOK'
    BY <1>5 DEF IInv, StackOK, IsFrame, Unparsable
  <2>2. LoadOK'
    BY <1>5 DEF IInv, LoadOK, Distinct, Resolving, Unparsable
  <2> QED BY <1>5, <2>1, <2>2 DEF IInv, Unparsable
<1>6. CASE Load
  BY <1>6, Loading
<1>7. CASE Return
  BY <1>7, Returning
<1>8. CASE Finish
  BY <1>8, Failing DEF Finish
<1>9. CASE UNCHANGED vars
  <2>1. StackOK'
    BY <1>9 DEF IInv, StackOK, IsFrame, vars
  <2>2. LoadOK'
    BY <1>9 DEF IInv, LoadOK, Distinct, Above, Resolving, vars
  <2> QED BY <1>9, <2>1, <2>2 DEF IInv, vars
<1> QED BY <1>1, <1>2, <1>3, <1>4, <1>5, <1>6, <1>7, <1>8, <1>9 DEF Next, Resolve, Ended

(* As many frames above the entry's as there are files, at most: two of    *)
(* more would stand for the same file.                                     *)
LEMMA Depth ==
  IInv => Len(stack) <= Cardinality(Files) + 1
<1> SUFFICES ASSUME IInv, Len(stack) > Cardinality(Files) + 1 PROVE FALSE
  <2>1. Len(stack) \in Nat /\ Cardinality(Files) \in Nat
    BY NonEmptySeq, FilesAssumption, FS_CardinalityType DEF IInv, StackOK
  <2> QED BY <2>1
<1> DEFINE n == Len(stack)
           file == [i \in 2..n |-> stack[i].file]
<1>1. n \in Nat /\ Cardinality(Files) \in Nat /\ n > Cardinality(Files) + 1
  BY NonEmptySeq, FilesAssumption, FS_CardinalityType DEF IInv, StackOK
<1>2. IsFiniteSet(2..n) /\ Cardinality(2..n) = n - 1
  BY <1>1, FS_Interval
<1>3. file \in [2..n -> Files]
  BY <1>1 DEF IInv, StackOK, IsFrame
<1>4. PICK i, j \in 2..n : i # j /\ file[i] = file[j]
  <2> HIDE DEF file
  <2>1. Cardinality(Files) < Cardinality(2..n)
    BY <1>1, <1>2
  <2> QED BY <1>2, <1>3, <2>1, FilesAssumption, FS_PigeonHole
<1> QED BY <1>4 DEF IInv, LoadOK, Distinct

(* The modules being loaded are those on the recursion of load and         *)
(* resolve, none is loaded again, and the recursion is bounded by the      *)
(* number of files, for every program: cyclic, with absent or garbled      *)
(* files, and with an entry that is imported itself.                       *)
THEOREM Bounded ==
  Spec => []RecursionBounded
<1>1. IInv => RecursionBounded
  BY Depth DEF IInv, LoadOK, Above, RecursionBounded
<1> QED BY <1>1, Start, Inductive, PTL DEF Spec
-----------------------------------------------------------------------------
(* A node that was merged from a place of a file. *)
MergedNodes == [file : Files, at : Nat \ {0}, name : Names \cup {""}]

(* The imports of a file, those before a place, and what these bring.      *)
ImportsAt(t, f, i, g) ==
  /\ i \in DOMAIN Nodes(t[f])
  /\ Nodes(t[f])[i].node = "import" /\ Nodes(t[f])[i].file = g
Imported(t, f) == {g \in Files : \E i \in DOMAIN Nodes(t[f]) : ImportsAt(t, f, i, g)}
ImportedBefore(t, f, n) == {g \in Files : \E i \in 1..(n - 1) : ImportsAt(t, f, i, g)}
ClosedUnder(t, C) == \A g \in C : Imported(t, g) \subseteq C
Leads(t, f) == {g \in Files : \A C \in SUBSET Files : Imported(t, f) \subseteq C /\ ClosedUnder(t, C) => g \in C}
Brought(t, f, n) == {g \in Files : \E h \in ImportedBefore(t, f, n) : g = h \/ g \in Leads(t, h)}

LEMMA FileNodes ==
  ASSUME NEW t \in Texts, NEW f \in Files
  PROVE  Nodes(t[f]) \in Seq(SourceNodes)
<1>1. t[f] \in Seq(SourceNodes) \cup {Absent, Garbled}
  BY TextsAssumption
<1> QED BY <1>1 DEF Nodes

(* The operators of the specification, with the text made explicit. *)
LEMMA ImportsExplicit ==
  ASSUME text \in Texts, NEW f \in Files
  PROVE  ImportsOf(f) = Imported(text, f)
<1>1. Nodes(text[f]) \in Seq(SourceNodes)
  BY FileNodes
<1>2. \A i \in DOMAIN Nodes(text[f]) : Nodes(text[f])[i] \in SourceNodes
  BY <1>1
<1>3. \A n \in SourceNodes : n.node = "import" => n.file \in Files
  BY DEF SourceNodes
<1> QED BY <1>2, <1>3 DEF ImportsOf, Imported, ImportsAt

LEMMA FromExplicit ==
  ASSUME text \in Texts, NEW f \in Files
  PROVE  From(f) = Leads(text, f) /\ (f = Entry => Reachable = Leads(text, f))
<1>1. \A C \in SUBSET Files :
        (ImportsOf(f) \subseteq C /\ \A h \in C : ImportsOf(h) \subseteq C)
          <=> (Imported(text, f) \subseteq C /\ ClosedUnder(text, C))
  BY ImportsExplicit DEF ClosedUnder
<1>2. From(f) = Leads(text, f)
  BY <1>1 DEF From, Leads
<1>3. f = Entry => Reachable = From(f)
  BY DEF From, Reachable
<1> QED BY <1>2, <1>3

LEMMA LeadsToImports ==
  ASSUME NEW t, NEW f
  PROVE  Imported(t, f) \subseteq Leads(t, f)
BY DEF Imported, Leads

LEMMA LeadsOn ==
  ASSUME NEW t, NEW f, NEW g \in Leads(t, f)
  PROVE  Imported(t, g) \subseteq Leads(t, f)
BY DEF Imported, Leads, ClosedUnder

LEMMA LeadsWithin ==
  ASSUME NEW t, NEW f, NEW C \in SUBSET Files, Imported(t, f) \subseteq C, ClosedUnder(t, C)
  PROVE  Leads(t, f) \subseteq C
BY DEF Leads

LEMMA BroughtWithin ==
  ASSUME NEW t, NEW f, NEW n, NEW C \in SUBSET Files,
         ImportedBefore(t, f, n) \subseteq C, ClosedUnder(t, C)
  PROVE  Brought(t, f, n) \subseteq C
<1> SUFFICES ASSUME NEW h \in ImportedBefore(t, f, n) PROVE h \in C /\ Leads(t, h) \subseteq C
  BY DEF Brought
<1>1. h \in C /\ Imported(t, h) \subseteq C
  BY DEF ClosedUnder
<1> QED BY <1>1, LeadsWithin

(* When a place is done, what is imported before the next is imported      *)
(* before it or there.                                                     *)
LEMMA OneMore ==
  ASSUME NEW t, NEW f, NEW n \in Nat \ {0}, NEW g \in ImportedBefore(t, f, n + 1)
  PROVE  g \in ImportedBefore(t, f, n) \/ ImportsAt(t, f, n, g)
<1>1. PICK i \in 1..n : ImportsAt(t, f, i, g)
  BY DEF ImportedBefore
<1>2. CASE i = n
  BY <1>1, <1>2
<1>3. CASE i # n
  BY <1>1, <1>3 DEF ImportedBefore
<1> QED BY <1>2, <1>3

(* All of them, past the end. *)
LEMMA AllBefore ==
  ASSUME NEW t \in Texts, NEW f \in Files, NEW n \in Nat, n > Len(Nodes(t[f]))
  PROVE  Imported(t, f) \subseteq ImportedBefore(t, f, n)
<1>1. Nodes(t[f]) \in Seq(SourceNodes)
  BY FileNodes
<1>2. DOMAIN Nodes(t[f]) \subseteq 1..(n - 1)
  BY <1>1
<1> QED BY <1>2 DEF Imported, ImportedBefore
-----------------------------------------------------------------------------
(* An import takes some of the nodes of its module, in their order.        *)
Subsequence(u, s, map) ==
  /\ map \in [1..Len(u) -> 1..Len(s)]
  /\ \A i, j \in 1..Len(u) : i < j => map[i] < map[j]
  /\ \A i \in 1..Len(u) : u[i].file = s[map[i]].file /\ u[i].at = s[map[i]].at

LEMMA TakenSelects ==
  ASSUME NEW take \in Takes, NEW out \in Seq(MergedNodes)
  PROVE  LET u == Taken(take, out) IN
           /\ u \in Seq(MergedNodes) /\ (take = Whole => u = out)
           /\ \E map : Subsequence(u, out, map)
<1> DEFINE u == Taken(take, out)
<1>0. Len(out) \in Nat /\ DOMAIN out = 1..Len(out) /\ \A i \in 1..Len(out) : out[i] \in MergedNodes
  OBVIOUS
<1>1. CASE take.mode = "whole"
  <2>1. u = out
    BY <1>1 DEF Taken
  <2> DEFINE map == [i \in 1..Len(out) |-> i]
  <2>2. Subsequence(out, out, map)
    BY <1>0 DEF Subsequence
  <2> QED BY <2>1, <2>2
<1>2. CASE take.mode = "only"
  <2> DEFINE first == {i \in DOMAIN out : out[i].name \in take.names
                                          /\ \A j \in 1..(i - 1) : out[j].name # out[i].name}
             kept == Ascending(first, Len(out))
  <2>1. u = [k \in DOMAIN kept |-> out[kept[k]]]
    BY <1>2 DEF Taken
  <2>2. Lists(kept, first) /\ first \subseteq 1..Len(out)
    <3>1. first \in SUBSET (1..Len(out))
      BY <1>0
    <3> HIDE DEF first
    <3> QED BY <1>0, <3>1, AscendingLists
  <2> HIDE DEF u, kept, first
  <2>3. kept \in Seq(first) /\ DOMAIN kept = 1..Len(kept) /\ Len(kept) \in Nat
    BY <2>2 DEF Lists
  <2>4. u \in Seq(MergedNodes) /\ Len(u) = Len(kept)
    <3>1. \A k \in 1..Len(kept) : kept[k] \in first
      BY <2>3
    <3>2. \A i \in first : out[i] \in MergedNodes
      BY <1>0, <2>2
    <3> QED BY <2>1, <2>3, <3>1, <3>2
  <2>5. Subsequence(u, out, kept)
    <3>1. kept = [k \in 1..Len(kept) |-> kept[k]] /\ \A k \in 1..Len(kept) : kept[k] \in 1..Len(out)
      BY <2>2, <2>3
    <3>2. kept \in [1..Len(u) -> 1..Len(out)]
      BY <2>4, <3>1
    <3>3. \A i \in 1..Len(u) : u[i] = out[kept[i]]
      BY <2>1, <2>3, <2>4
    <3> QED BY <2>2, <2>4, <3>2, <3>3 DEF Subsequence, Lists
  <2>6. take # Whole
    BY <1>2 DEF Whole
  <2>7. u \in Seq(MergedNodes) /\ (take = Whole => u = out) /\ \E map : Subsequence(u, out, map)
    BY <2>4, <2>5, <2>6
  <2> QED BY <2>7 DEF u
<1>3. CASE take.mode = "alias"
  <2> DEFINE chosen == {i \in DOMAIN out : out[i].name \in take.names}
             kept == Ascending(chosen, Len(out))
  <2>1. u = [k \in DOMAIN kept |-> [out[kept[k]] EXCEPT !.name = take.to[@]]]
    BY <1>3 DEF Taken
  <2>2. Lists(kept, chosen) /\ chosen \subseteq 1..Len(out)
    <3>1. chosen \in SUBSET (1..Len(out))
      BY <1>0
    <3> HIDE DEF chosen
    <3> QED BY <1>0, <3>1, AscendingLists
  <2>3. \A i \in chosen : out[i].name \in take.names
    OBVIOUS
  <2>4. \A n \in take.names : take.to[n] \in Names
    BY <1>3 DEF Takes, Whole, Only, Renamed
  <2> HIDE DEF u, kept, chosen
  <2>5. kept \in Seq(chosen) /\ DOMAIN kept = 1..Len(kept) /\ Len(kept) \in Nat
    BY <2>2 DEF Lists
  <2>6. ASSUME NEW i \in chosen
        PROVE  LET n == [out[i] EXCEPT !.name = take.to[@]]
               IN  n \in MergedNodes /\ n.file = out[i].file /\ n.at = out[i].at
    <3>1. out[i] \in MergedNodes /\ take.to[out[i].name] \in Names
      BY <1>0, <2>2, <2>3, <2>4
    <3> QED BY <3>1 DEF MergedNodes
  <2>7. u \in Seq(MergedNodes) /\ Len(u) = Len(kept)
    <3>1. \A k \in 1..Len(kept) : [out[kept[k]] EXCEPT !.name = take.to[@]] \in MergedNodes
      BY <2>5, <2>6
    <3> QED BY <2>1, <2>5, <3>1
  <2>8. Subsequence(u, out, kept)
    <3>1. kept = [k \in 1..Len(kept) |-> kept[k]] /\ \A k \in 1..Len(kept) : kept[k] \in 1..Len(out)
      BY <2>2, <2>5
    <3>2. kept \in [1..Len(u) -> 1..Len(out)]
      BY <2>7, <3>1
    <3>3. ASSUME NEW i \in 1..Len(u)
          PROVE  u[i].file = out[kept[i]].file /\ u[i].at = out[kept[i]].at
      <4>1. kept[i] \in chosen /\ u[i] = [out[kept[i]] EXCEPT !.name = take.to[@]]
        BY <2>1, <2>5, <2>7
      <4> QED BY <2>6, <4>1
    <3> QED BY <2>2, <2>7, <3>2, <3>3 DEF Subsequence, Lists
  <2>9. take # Whole
    BY <1>3 DEF Whole
  <2>10. u \in Seq(MergedNodes) /\ (take = Whole => u = out) /\ \E map : Subsequence(u, out, map)
    BY <2>7, <2>8, <2>9
  <2> QED BY <2>10 DEF u
<1>4. take.mode \in {"whole", "only", "alias"}
  BY DEF Takes, Whole, Only, Renamed
<1> QED BY <1>1, <1>2, <1>3, <1>4
-----------------------------------------------------------------------------
(* The places of the nodes in the lists being resolved, in program order.  *)
Spots(s) == {p \in Nat \X Nat : p[1] \in 1..Len(s) /\ p[2] \in 1..Len(s[p[1]].out)}
At(s, p) == s[p[1]].out[p[2]]
Ahead(p, q) == p[1] < q[1] \/ (p[1] = q[1] /\ p[2] < q[2])
Same(a, b) == a.file = b.file /\ a.at = b.at
Is(m, f, i) == m.file = f /\ m.at = i

Frames(s) ==
  /\ Len(s) \in Nat \ {0}
  /\ \A k \in 1..Len(s) : s[k].file \in Files /\ s[k].next \in Nat \ {0} /\ s[k].out \in Seq(MergedNodes)

(* Each list but the last stands at the import of the next one's file.     *)
Linked(t, s) ==
  /\ s[1].file = Entry
  /\ \A k \in 1..(Len(s) - 1) : ImportsAt(t, s[k].file, s[k].next, s[k + 1].file)
  /\ \A k, m \in 1..Len(s) : k < m => s[m].file \in Leads(t, s[k].file)

(* What a loaded file imports is loaded, and what is imported before the   *)
(* place a list stands at; no loaded file leads to itself.                 *)
LoadedClosed(t, s, l) ==
  /\ l \subseteq Files
  /\ ClosedUnder(t, l)
  /\ \A f \in l : f \notin Leads(t, f)
  /\ \A k \in 1..Len(s) : ImportedBefore(t, s[k].file, s[k].next) \subseteq l

(* No list being resolved is of a loaded file.  The entry is never loaded: *)
(* when it is resolved as a module, that stops at the import the entry     *)
(* itself stands at, whose module is being loaded.                         *)
Open(s, l) ==
  /\ \A k \in 1..Len(s) : s[k].file \notin l
  /\ \A k \in 2..Len(s) : s[k].file = Entry => s[k].next <= s[1].next

DeclsOf(t, f) == {i \in DOMAIN Nodes(t[f]) : Nodes(t[f])[i].node = "decl"}

(* A node put out is a declaration of the list's own file, or of a loaded  *)
(* one; what its file imports before it is loaded.                         *)
Known(t, s, l) ==
  \A p \in Spots(s) :
    /\ \/ At(s, p).file = s[p[1]].file /\ At(s, p).at < s[p[1]].next
       \/ At(s, p).file \in l
    /\ At(s, p).at \in DeclsOf(t, At(s, p).file)
    /\ Brought(t, At(s, p).file, At(s, p).at) \subseteq l

Once(s, l) ==
  \A p, q \in Spots(s) :
    Same(At(s, p), At(s, q)) /\ (p[1] = q[1] \/ At(s, p).file \in l) => p = q

(* What a node's file imports before it is never put out after it.         *)
Ordered(t, s) ==
  \A p, q \in Spots(s) :
    At(s, q).file \in Brought(t, At(s, p).file, At(s, p).at) => Ahead(q, p)

Wholly(t) ==
  \A f \in Leads(t, Entry) \cup {Entry} : \A i \in DOMAIN Nodes(t[f]) :
    Nodes(t[f])[i].node = "import" => Nodes(t[f])[i].take = Whole
Complete(t, s, l) ==
  Wholly(t) =>
    /\ \A f \in l : \A i \in DeclsOf(t, f) : \E p \in Spots(s) : Is(At(s, p), f, i)
    /\ \A k \in 1..Len(s) : \A i \in DeclsOf(t, s[k].file) :
         i < s[k].next => \E p \in Spots(s) : p[1] = k /\ Is(At(s, p), s[k].file, i)

Merging(t, s, l) ==
  /\ Frames(s) /\ Linked(t, s) /\ LoadedClosed(t, s, l) /\ Open(s, l)
  /\ Known(t, s, l) /\ Once(s, l) /\ Ordered(t, s) /\ Complete(t, s, l)
-----------------------------------------------------------------------------
(* A declaration is put out. *)
Kept(t, s, u, m) ==
  LET n == Len(s) IN
  /\ Len(u) = n
  /\ \A k \in 1..(n - 1) : u[k] = s[k]
  /\ u[n].file = s[n].file /\ u[n].next = s[n].next + 1
  /\ u[n].out = Append(s[n].out, m)
  /\ m \in MergedNodes /\ m.file = s[n].file /\ m.at = s[n].next
  /\ s[n].next \in DOMAIN Nodes(t[s[n].file])
  /\ Nodes(t[s[n].file])[s[n].next].node = "decl"

LEMMA KeptFrames ==
  ASSUME NEW t \in Texts, NEW s, NEW l, Merging(t, s, l), NEW u, NEW m, Kept(t, s, u, m)
  PROVE  Frames(u) /\ Linked(t, u) /\ LoadedClosed(t, u, l) /\ Open(u, l)
<1> DEFINE n == Len(s)
<1>1. n \in Nat \ {0} /\ Len(u) = n
  BY DEF Merging, Frames, Kept
<1>2. \A k \in 1..n : u[k].file = s[k].file
  BY <1>1 DEF Kept
<1>3. Frames(u)
  <2>1. Append(s[n].out, m) \in Seq(MergedNodes)
    BY <1>1 DEF Merging, Frames, Kept
  <2>2. ASSUME NEW k \in 1..n
        PROVE  u[k].file \in Files /\ u[k].next \in Nat \ {0} /\ u[k].out \in Seq(MergedNodes)
    <3>1. s[k].file \in Files /\ s[k].next \in Nat \ {0} /\ s[k].out \in Seq(MergedNodes)
      BY DEF Merging, Frames
    <3>2. CASE k = n
      <4>1. u[k].out = Append(s[n].out, m) /\ u[k].next = s[k].next + 1
        BY <3>2 DEF Kept
      <4> HIDE DEF n
      <4> QED BY <1>2, <2>1, <3>1, <4>1
    <3>3. CASE k # n
      BY <1>1, <3>1, <3>3 DEF Kept
    <3> QED BY <3>2, <3>3
  <2> QED BY <1>1, <2>2 DEF Frames
<1>4. Linked(t, u)
  <2>1. \A k \in 1..(n - 1) : u[k].next = s[k].next
    BY <1>1 DEF Kept
  <2> QED BY <1>1, <1>2, <2>1 DEF Merging, Linked
<1>5. ~ImportsAt(t, s[n].file, s[n].next, s[2].file) /\ \A g : ~ImportsAt(t, s[n].file, s[n].next, g)
  BY DEF Kept, ImportsAt
<1>6. LoadedClosed(t, u, l)
  <2> SUFFICES ASSUME NEW k \in 1..n PROVE ImportedBefore(t, u[k].file, u[k].next) \subseteq l
    BY <1>1 DEF Merging, LoadedClosed
  <2>1. ImportedBefore(t, s[k].file, s[k].next) \subseteq l /\ s[k].next \in Nat \ {0}
    BY <1>1 DEF Merging, LoadedClosed, Frames
  <2>2. CASE k = n
    <3>1. u[k].next = s[k].next + 1
      BY <2>2 DEF Kept
    <3> QED BY <1>2, <1>5, <2>1, <2>2, <3>1, OneMore
  <2>3. CASE k # n
    BY <1>1, <2>1, <2>3 DEF Kept
  <2> QED BY <2>2, <2>3
<1>7. Open(u, l)
  <2> SUFFICES ASSUME NEW k \in 2..n, u[k].file = Entry PROVE u[k].next <= u[1].next
    BY <1>1, <1>2 DEF Merging, Open
  <2>1. s[k].file = Entry /\ s[k].next <= s[1].next /\ s[k].next \in Nat /\ s[1].next \in Nat
    BY <1>1, <1>2 DEF Merging, Open, Frames
  <2>2. u[1] = s[1] /\ s[1].file = Entry /\ ImportsAt(t, s[1].file, s[1].next, s[2].file)
    BY <1>1 DEF Merging, Linked, Kept
  <2>3. CASE k = n
    <3>1. s[k].next # s[1].next
      BY <1>5, <2>1, <2>2, <2>3
    <3> QED BY <2>1, <2>2, <2>3, <3>1 DEF Kept
  <2>4. CASE k # n
    BY <1>1, <2>1, <2>2, <2>4 DEF Kept
  <2> QED BY <2>3, <2>4
<1> QED BY <1>3, <1>4, <1>6, <1>7

LEMMA KeptSpots ==
  ASSUME NEW t \in Texts, NEW s, NEW l, Merging(t, s, l), NEW u, NEW m, Kept(t, s, u, m)
  PROVE  LET new == <<Len(s), Len(s[Len(s)].out) + 1>> IN
           /\ Spots(u) = Spots(s) \cup {new} /\ new \notin Spots(s) /\ At(u, new) = m
           /\ \A p \in Spots(s) : At(u, p) = At(s, p) /\ Ahead(p, new)
                                  /\ u[p[1]].file = s[p[1]].file /\ s[p[1]].next <= u[p[1]].next
<1> DEFINE n == Len(s)
           c == Len(s[n].out)
           new == <<n, c + 1>>
<1>1. n \in Nat \ {0} /\ Len(u) = n /\ s[n].out \in Seq(MergedNodes) /\ c \in Nat
  BY DEF Merging, Frames, Kept
<1>2. Len(u[n].out) = c + 1 /\ u[n].out[c + 1] = m /\ \A i \in 1..c : u[n].out[i] = s[n].out[i]
  <2> HIDE DEF n
  <2>1. u[n].out = Append(s[n].out, m)
    BY DEF Kept, n
  <2> QED BY <1>1, <2>1 DEF Kept
<1>3. \A k \in 1..n : k # n => u[k] = s[k]
  BY <1>1 DEF Kept
<1> HIDE DEF n, c
<1>4. Spots(u) = Spots(s) \cup {new}
  <2>1. ASSUME NEW p \in Nat \X Nat
        PROVE  p \in Spots(u) <=> p \in Spots(s) \/ p = new
    <3>1. CASE p[1] = n
      <4>1. p = new <=> p[2] = c + 1
        BY <3>1
      <4>2. p \in Spots(s) <=> p[2] \in 1..c
        BY <1>1, <3>1 DEF Spots, n, c
      <4>3. p \in Spots(u) <=> p[2] \in 1..(c + 1)
        BY <1>1, <1>2, <3>1 DEF Spots
      <4> QED BY <1>1, <4>1, <4>2, <4>3
    <3>2. CASE p[1] # n
      BY <1>1, <1>3, <3>2 DEF Spots, n
    <3> QED BY <3>1, <3>2
  <2>2. new \in Nat \X Nat /\ Spots(u) \subseteq Nat \X Nat /\ Spots(s) \subseteq Nat \X Nat
    BY <1>1 DEF Spots
  <2> QED BY <2>1, <2>2
<1>5. new \notin Spots(s)
  BY <1>1 DEF Spots, n, c
<1>6. At(u, new) = m
  BY <1>2 DEF At
<1>7. ASSUME NEW p \in Spots(s)
      PROVE  /\ At(u, p) = At(s, p) /\ Ahead(p, new)
             /\ u[p[1]].file = s[p[1]].file /\ s[p[1]].next <= u[p[1]].next
  <2>1. p[1] \in 1..n /\ p[2] \in 1..Len(s[p[1]].out) /\ s[p[1]].next \in Nat
    BY DEF Spots, n, Merging, Frames
  <2>2. CASE p[1] = n
    <3>1. u[n].file = s[n].file /\ u[n].next = s[n].next + 1
      BY DEF Kept, n
    <3>2. At(u, p) = At(s, p)
      BY <1>2, <2>1, <2>2 DEF At, c
    <3>3. Ahead(p, new)
      BY <1>1, <2>1, <2>2 DEF Ahead, c
    <3> QED BY <2>1, <2>2, <3>1, <3>2, <3>3
  <2>3. CASE p[1] # n
    BY <1>1, <1>3, <2>1, <2>3 DEF At, Ahead
  <2> QED BY <2>2, <2>3
<1> QED BY <1>4, <1>5, <1>6, <1>7 DEF n, c

LEMMA KeptMerging ==
  ASSUME NEW t \in Texts, NEW s, NEW l, Merging(t, s, l), NEW u, NEW m, Kept(t, s, u, m)
  PROVE  Merging(t, u, l)
<1> DEFINE n == Len(s)
           new == <<n, Len(s[n].out) + 1>>
<1>1. /\ Spots(u) = Spots(s) \cup {new} /\ new \notin Spots(s) /\ At(u, new) = m
      /\ \A p \in Spots(s) : At(u, p) = At(s, p) /\ Ahead(p, new)
                             /\ u[p[1]].file = s[p[1]].file /\ s[p[1]].next <= u[p[1]].next
  BY KeptSpots
<1>2. /\ m.file = s[n].file /\ m.at = s[n].next /\ n \in 1..Len(s) /\ s[n].next \in Nat
      /\ u[n].file = s[n].file /\ u[n].next = s[n].next + 1
  BY DEF Kept, Merging, Frames
<1>3. m.file \notin l /\ m.at \in DeclsOf(t, m.file) /\ Brought(t, m.file, m.at) \subseteq l
  <2>1. ImportedBefore(t, m.file, m.at) \subseteq l /\ l \in SUBSET Files /\ ClosedUnder(t, l)
    BY <1>2 DEF Merging, LoadedClosed
  <2>2. s[n].file \notin l
    BY <1>2 DEF Merging, Open
  <2>3. m.at \in DeclsOf(t, m.file)
    BY DEF Kept, DeclsOf
  <2> QED BY <1>2, <2>1, <2>2, <2>3, BroughtWithin
<1>4. new[1] = n /\ new[2] = Len(s[n].out) + 1
  OBVIOUS
<1> HIDE DEF new, n
<1>5. Known(t, u, l)
  <2> SUFFICES ASSUME NEW p \in Spots(u)
               PROVE  /\ \/ At(u, p).file = u[p[1]].file /\ At(u, p).at < u[p[1]].next
                         \/ At(u, p).file \in l
                      /\ At(u, p).at \in DeclsOf(t, At(u, p).file)
                      /\ Brought(t, At(u, p).file, At(u, p).at) \subseteq l
    BY DEF Known
  <2>1. CASE p = new
    BY <1>1, <1>2, <1>3, <1>4, <2>1
  <2>2. CASE p \in Spots(s)
    <3>1. At(s, p).at \in Nat /\ s[p[1]].next \in Nat /\ u[p[1]].next \in Nat
      <4>1. p[1] \in 1..Len(s) /\ p[2] \in 1..Len(s[p[1]].out)
        BY <2>2 DEF Spots
      <4>2. s[p[1]].out \in Seq(MergedNodes) /\ s[p[1]].next \in Nat
        BY <4>1 DEF Merging, Frames
      <4>3. At(s, p) \in MergedNodes
        BY <4>1, <4>2 DEF At
      <4>4. u[p[1]].next \in Nat
        <5>1. Frames(u) /\ p[1] \in 1..Len(u)
          BY <4>1, KeptFrames DEF Kept
        <5> QED BY <5>1 DEF Frames
      <4>5. \A a \in MergedNodes : a.at \in Nat
        BY DEF MergedNodes
      <4> QED BY <4>2, <4>3, <4>4, <4>5
    <3>2. /\ \/ At(s, p).file = s[p[1]].file /\ At(s, p).at < s[p[1]].next
             \/ At(s, p).file \in l
          /\ At(s, p).at \in DeclsOf(t, At(s, p).file)
          /\ Brought(t, At(s, p).file, At(s, p).at) \subseteq l
      BY <2>2 DEF Merging, Known
    <3> QED BY <1>1, <2>2, <3>1, <3>2
  <2> QED BY <1>1, <2>1, <2>2
<1>6. Once(u, l)
  <2>1. ASSUME NEW p \in Spots(s), Same(At(s, p), m), p[1] = n \/ m.file \in l PROVE FALSE
    <3>1. p[1] = n /\ At(s, p).file = m.file /\ At(s, p).at = m.at
      BY <1>3, <2>1 DEF Same
    <3>2. At(s, p).at < s[n].next
      BY <1>3, <3>1 DEF Merging, Known
    <3> QED BY <1>2, <3>1, <3>2
  <2> SUFFICES ASSUME NEW p \in Spots(u), NEW q \in Spots(u), Same(At(u, p), At(u, q)),
                      p[1] = q[1] \/ At(u, p).file \in l
               PROVE  p = q
    BY DEF Once
  <2>2. CASE p \in Spots(s) /\ q \in Spots(s)
    BY <1>1, <2>2 DEF Merging, Once
  <2>3. CASE p \in Spots(s) /\ q = new
    BY <1>1, <1>4, <2>1, <2>3 DEF Same
  <2>4. CASE p = new /\ q \in Spots(s)
    BY <1>1, <1>4, <2>1, <2>4 DEF Same
  <2> QED BY <1>1, <2>2, <2>3, <2>4
<1>7. Ordered(t, u)
  <2> SUFFICES ASSUME NEW p \in Spots(u), NEW q \in Spots(u),
                      At(u, q).file \in Brought(t, At(u, p).file, At(u, p).at)
               PROVE  Ahead(q, p)
    BY DEF Ordered
  <2>1. q # new
    BY <1>1, <1>3, <1>5 DEF Known
  <2>2. CASE p = new
    BY <1>1, <2>1, <2>2
  <2>3. CASE p \in Spots(s)
    BY <1>1, <2>1, <2>3 DEF Merging, Ordered
  <2> QED BY <1>1, <2>2, <2>3
<1>8. Complete(t, u, l)
  <2> SUFFICES ASSUME Wholly(t)
               PROVE  /\ \A f \in l : \A i \in DeclsOf(t, f) : \E p \in Spots(u) : Is(At(u, p), f, i)
                      /\ \A k \in 1..Len(u) : \A i \in DeclsOf(t, u[k].file) :
                           i < u[k].next => \E p \in Spots(u) : p[1] = k /\ Is(At(u, p), u[k].file, i)
    BY DEF Complete
  <2>1. ASSUME NEW f \in l, NEW i \in DeclsOf(t, f) PROVE \E p \in Spots(u) : Is(At(u, p), f, i)
    BY <1>1 DEF Merging, Complete
  <2>2. ASSUME NEW k \in 1..Len(u), NEW i \in DeclsOf(t, u[k].file), i < u[k].next
        PROVE  \E p \in Spots(u) : p[1] = k /\ Is(At(u, p), u[k].file, i)
    <3>1. k \in 1..Len(s) /\ Len(s) \in Nat /\ i \in Nat
      <4>1. u[k].file \in Files
        BY KeptFrames DEF Frames
      <4>2. Nodes(t[u[k].file]) \in Seq(SourceNodes)
        BY <4>1, FileNodes
      <4> QED BY <4>2 DEF Kept, Merging, Frames, DeclsOf
    <3>2. CASE k = n /\ i = s[n].next
      BY <1>1, <1>2, <1>4, <3>2 DEF Is
    <3>3. CASE ~(k = n /\ i = s[n].next)
      <4>1. u[k].file = s[k].file /\ i < s[k].next
        BY <1>2, <2>2, <3>1, <3>3 DEF Kept, n
      <4>2. PICK p \in Spots(s) : p[1] = k /\ Is(At(s, p), s[k].file, i)
        BY <3>1, <4>1 DEF Merging, Complete
      <4> QED BY <1>1, <4>1, <4>2
    <3> QED BY <3>2, <3>3
  <2> QED BY <2>1, <2>2
<1> QED BY <1>5, <1>6, <1>7, <1>8, KeptFrames DEF Merging
-----------------------------------------------------------------------------
(* Nothing is put out: the spots and what is there stay. *)
LEMMA SpotsStay ==
  ASSUME NEW t, NEW s, NEW l, Merging(t, s, l), NEW u, Spots(u) = Spots(s),
         \A p \in Spots(s) : /\ At(u, p) = At(s, p)
                             /\ u[p[1]].file = s[p[1]].file
                             /\ u[p[1]].next \in {s[p[1]].next, s[p[1]].next + 1}
  PROVE  Known(t, u, l) /\ Once(u, l) /\ Ordered(t, u)
<1>1. Known(t, u, l)
  <2> SUFFICES ASSUME NEW p \in Spots(s)
               PROVE  /\ \/ At(s, p).file = s[p[1]].file /\ At(s, p).at < u[p[1]].next
                         \/ At(s, p).file \in l
                      /\ At(s, p).at \in DeclsOf(t, At(s, p).file)
                      /\ Brought(t, At(s, p).file, At(s, p).at) \subseteq l
    BY DEF Known
  <2>1. p[1] \in 1..Len(s) /\ p[2] \in 1..Len(s[p[1]].out)
    BY DEF Spots
  <2>2. s[p[1]].next \in Nat /\ s[p[1]].out \in Seq(MergedNodes)
    BY <2>1 DEF Merging, Frames
  <2>3. At(s, p) \in MergedNodes
    BY <2>1, <2>2 DEF At
  <2>4. At(s, p).at \in Nat
    BY <2>3 DEF MergedNodes
  <2> QED BY <2>2, <2>4 DEF Merging, Known
<1>2. Once(u, l)
  BY DEF Merging, Once
<1>3. Ordered(t, u)
  BY DEF Merging, Ordered
<1> QED BY <1>1, <1>2, <1>3

(* An import of a loaded module. *)
Skipped(t, s, u, g) ==
  LET n == Len(s) IN
  /\ Len(u) = n
  /\ \A k \in 1..(n - 1) : u[k] = s[k]
  /\ u[n].file = s[n].file /\ u[n].next = s[n].next + 1 /\ u[n].out = s[n].out
  /\ ImportsAt(t, s[n].file, s[n].next, g)

LEMMA SkippedMerging ==
  ASSUME NEW t \in Texts, NEW s, NEW l, Merging(t, s, l), NEW u, NEW g \in l, Skipped(t, s, u, g)
  PROVE  Merging(t, u, l)
<1> DEFINE n == Len(s)
<1>1. n \in Nat \ {0} /\ Len(u) = n
  BY DEF Merging, Frames, Skipped
<1>2. ASSUME NEW k \in 1..n
      PROVE  /\ u[k].file = s[k].file /\ u[k].out = s[k].out
             /\ u[k].next = IF k = n THEN s[k].next + 1 ELSE s[k].next
             /\ s[k].file \in Files /\ s[k].next \in Nat \ {0} /\ s[k].out \in Seq(MergedNodes)
  BY <1>1 DEF Skipped, Merging, Frames
<1>3. ImportsAt(t, s[n].file, s[n].next, g)
  BY DEF Skipped
<1> HIDE DEF n
<1>4. Frames(u)
  BY <1>1, <1>2 DEF Frames
<1>5. Linked(t, u)
  <2>1. \A k \in 1..(n - 1) : u[k].next = s[k].next /\ u[k].file = s[k].file /\ u[k + 1].file = s[k + 1].file
    BY <1>1, <1>2
  <2>2. Len(s) = n
    BY DEF n
  <2> QED BY <1>1, <1>2, <2>1, <2>2 DEF Merging, Linked
<1>6. LoadedClosed(t, u, l)
  <2> SUFFICES ASSUME NEW k \in 1..n PROVE ImportedBefore(t, u[k].file, u[k].next) \subseteq l
    BY <1>1 DEF Merging, LoadedClosed
  <2>1. ImportedBefore(t, s[k].file, s[k].next) \subseteq l /\ s[k].next \in Nat \ {0}
    BY <1>2 DEF Merging, LoadedClosed, n
  <2>2. CASE k = n
    <3>1. u[k].next = s[k].next + 1 /\ u[k].file = s[k].file
      BY <1>2, <2>2
    <3>2. \A h : ImportsAt(t, s[k].file, s[k].next, h) => h = g
      BY <1>3, <2>2 DEF ImportsAt
    <3> QED BY <2>1, <3>1, <3>2, OneMore
  <2>3. CASE k # n
    BY <1>2, <2>1, <2>3
  <2> QED BY <2>2, <2>3
<1>7. Open(u, l)
  <2>1. \A k \in 1..n : s[k].file \notin l
    BY DEF Merging, Open, n
  <2> SUFFICES ASSUME NEW k \in 2..n, u[k].file = Entry PROVE u[k].next <= u[1].next
    BY <1>1, <1>2, <2>1 DEF Open
  <2>2. k \in 1..n /\ 1 \in 1..n /\ 1 # n
    BY <1>1
  <2>3. s[k].file = Entry /\ s[k].next <= s[1].next /\ u[1].next = s[1].next
    BY <1>2, <2>2 DEF Merging, Open, n
  <2>4. s[1].file = Entry /\ ImportsAt(t, s[1].file, s[1].next, s[2].file) /\ s[2].file \notin l
    BY <1>1, <2>1, <2>2 DEF Merging, Linked, n
  <2>5. CASE k = n
    <3>1. s[k].next # s[1].next
      BY <1>3, <2>3, <2>4, <2>5 DEF ImportsAt
    <3> QED BY <1>2, <2>2, <2>3, <2>5, <3>1
  <2>6. CASE k # n
    BY <1>2, <2>2, <2>3, <2>6
  <2> QED BY <2>5, <2>6
<1>8. Spots(u) = Spots(s)
  BY <1>1, <1>2 DEF Spots, n
<1>9. \A p \in Spots(s) : /\ At(u, p) = At(s, p)
                          /\ u[p[1]].file = s[p[1]].file
                          /\ u[p[1]].next \in {s[p[1]].next, s[p[1]].next + 1}
  BY <1>2 DEF Spots, At, n
<1>10. Complete(t, u, l)
  <2> SUFFICES ASSUME Wholly(t), NEW k \in 1..n, NEW i \in DeclsOf(t, u[k].file), i < u[k].next
               PROVE  \E p \in Spots(u) : p[1] = k /\ Is(At(u, p), u[k].file, i)
    BY <1>1, <1>8, <1>9 DEF Complete, Merging
  <2>1. u[k].file = s[k].file /\ i \in Nat
    <3>1. Nodes(t[s[k].file]) \in Seq(SourceNodes)
      BY <1>2, FileNodes
    <3> QED BY <1>2, <3>1 DEF DeclsOf
  <2>2. ~(k = n /\ i = s[k].next)
    BY <1>3, <2>1 DEF DeclsOf, ImportsAt
  <2>3. i < s[k].next
    BY <1>2, <2>1, <2>2
  <2>4. PICK p \in Spots(s) : p[1] = k /\ Is(At(s, p), s[k].file, i)
    BY <2>1, <2>3 DEF Merging, Complete, n
  <2> QED BY <1>8, <1>9, <2>1, <2>4
<1> QED BY <1>4, <1>5, <1>6, <1>7, <1>8, <1>9, <1>10, SpotsStay DEF Merging

(* A module is begun. *)
Entered(t, s, u, g) ==
  LET n == Len(s) IN
  /\ Len(u) = n + 1
  /\ \A k \in 1..n : u[k] = s[k]
  /\ u[n + 1] = Frame(g)
  /\ ImportsAt(t, s[n].file, s[n].next, g)

LEMMA EnteredMerging ==
  ASSUME NEW t \in Texts, NEW s, NEW l, Merging(t, s, l), NEW u, NEW g \in Files \ l,
         Entered(t, s, u, g)
  PROVE  Merging(t, u, l)
<1> DEFINE n == Len(s)
<1>1. n \in Nat \ {0} /\ Len(u) = n + 1 /\ \A k \in 1..n : u[k] = s[k]
  BY DEF Merging, Frames, Entered
<1>2. u[n + 1].file = g /\ u[n + 1].next = 1 /\ u[n + 1].out = << >>
  BY DEF Entered, Frame
<1>3. ImportsAt(t, s[n].file, s[n].next, g)
  BY DEF Entered
<1>4. \A k \in 1..n : s[k].file \in Files /\ s[k].next \in Nat \ {0} /\ s[k].out \in Seq(MergedNodes)
  BY DEF Merging, Frames
<1>5. \A k \in 1..(n + 1) : k \in 1..n \/ k = n + 1
  BY <1>1
<1>6. Len(s) = n
  OBVIOUS
<1> HIDE DEF n
<1>7. Frames(u)
  <2>1. Len(u) \in Nat \ {0}
    BY <1>1
  <2>2. ASSUME NEW k \in 1..Len(u)
        PROVE  u[k].file \in Files /\ u[k].next \in Nat \ {0} /\ u[k].out \in Seq(MergedNodes)
    <3>1. CASE k = n + 1
      <4>1. << >> \in Seq(MergedNodes)
        OBVIOUS
      <4>2. u[k].file = g /\ u[k].next = 1 /\ u[k].out = << >>
        BY <1>2, <3>1
      <4>3. g \in Files /\ 1 \in Nat \ {0}
        OBVIOUS
      <4> QED BY <4>1, <4>2, <4>3
    <3>2. CASE k \in 1..n
      BY <1>1, <1>4, <3>2
    <3> QED BY <1>1, <1>5, <3>1, <3>2
  <2> QED BY <2>1, <2>2 DEF Frames
<1>8. Linked(t, u)
  <2>1. u[1].file = Entry
    BY <1>1 DEF Merging, Linked
  <2>2. ASSUME NEW k \in 1..(Len(u) - 1) PROVE ImportsAt(t, u[k].file, u[k].next, u[k + 1].file)
    <3>1. CASE k = n
      BY <1>1, <1>2, <1>3, <3>1
    <3>2. CASE k # n
      <4>1. k \in 1..(n - 1) /\ u[k] = s[k] /\ u[k + 1] = s[k + 1]
        BY <1>1, <3>2
      <4> QED BY <1>6, <4>1 DEF Merging, Linked
    <3> QED BY <3>1, <3>2
  <2>3. ASSUME NEW k \in 1..Len(u), NEW m \in 1..Len(u), k < m
        PROVE  u[m].file \in Leads(t, u[k].file)
    <3>1. k \in 1..n /\ u[k] = s[k]
      BY <1>1, <2>3
    <3>2. CASE m \in 1..n
      BY <1>1, <1>6, <2>3, <3>1, <3>2 DEF Merging, Linked
    <3>3. CASE m = n + 1
      <4>1. g \in Imported(t, s[n].file)
        BY <1>3 DEF Imported, ImportsAt
      <4>2. CASE k = n
        BY <1>2, <3>1, <3>3, <4>1, <4>2, LeadsToImports
      <4>3. CASE k # n
        <5>1. s[n].file \in Leads(t, s[k].file)
          BY <1>1, <1>6, <3>1, <4>3 DEF Merging, Linked
        <5> QED BY <1>2, <3>1, <3>3, <4>1, <5>1, LeadsOn
      <4> QED BY <4>2, <4>3
    <3> QED BY <1>1, <1>5, <3>2, <3>3
  <2> QED BY <2>1, <2>2, <2>3 DEF Linked
<1>9. LoadedClosed(t, u, l)
  <2> SUFFICES ASSUME NEW k \in 1..(n + 1) PROVE ImportedBefore(t, u[k].file, u[k].next) \subseteq l
    BY <1>1 DEF Merging, LoadedClosed
  <2>1. ImportedBefore(t, g, 1) = {}
    BY DEF ImportedBefore
  <2>2. CASE k = n + 1
    BY <1>2, <2>1, <2>2
  <2>3. CASE k \in 1..n
    BY <1>1, <1>6, <2>3 DEF Merging, LoadedClosed
  <2> QED BY <1>5, <2>2, <2>3
<1>10. Open(u, l)
  <2>1. ASSUME NEW k \in 1..Len(u) PROVE u[k].file \notin l
    BY <1>1, <1>2, <1>5, <1>6 DEF Merging, Open
  <2>2. ASSUME NEW k \in 2..Len(u), u[k].file = Entry PROVE u[k].next <= u[1].next
    <3>1. u[1].next \in Nat \ {0} /\ u[1] = s[1]
      BY <1>1, <1>4
    <3>2. CASE k = n + 1
      BY <1>2, <3>1, <3>2
    <3>3. CASE k # n + 1
      <4>1. k \in 2..n /\ u[k] = s[k]
        BY <1>1, <3>3
      <4> QED BY <1>6, <2>2, <3>1, <4>1 DEF Merging, Open
    <3> QED BY <3>2, <3>3
  <2> QED BY <2>1, <2>2 DEF Open
<1>11. Spots(u) = Spots(s)
  <2>1. ASSUME NEW p \in Nat \X Nat PROVE p \in Spots(u) <=> p \in Spots(s)
    <3>1. CASE p[1] = n + 1
      <4>1. Len(u[p[1]].out) = 0
        BY <1>2, <3>1
      <4> QED BY <1>1, <1>6, <3>1, <4>1 DEF Spots
    <3>2. CASE p[1] # n + 1
      BY <1>1, <1>6, <3>2 DEF Spots
    <3> QED BY <3>1, <3>2
  <2> QED BY <2>1 DEF Spots
<1>12. \A p \in Spots(s) : u[p[1]] = s[p[1]] /\ At(u, p) = At(s, p)
  BY <1>1, <1>6 DEF Spots, At
<1>13. Known(t, u, l) /\ Once(u, l) /\ Ordered(t, u)
  BY <1>11, <1>12, SpotsStay
<1>14. Complete(t, u, l)
  <2> SUFFICES ASSUME Wholly(t), NEW k \in 1..(n + 1), NEW i \in DeclsOf(t, u[k].file), i < u[k].next
               PROVE  \E p \in Spots(u) : p[1] = k /\ Is(At(u, p), u[k].file, i)
    BY <1>1, <1>11, <1>12 DEF Complete, Merging
  <2>1. CASE k = n + 1
    <3>1. Nodes(t[g]) \in Seq(SourceNodes)
      BY FileNodes
    <3>2. i \in Nat \ {0}
      BY <1>2, <2>1, <3>1 DEF DeclsOf
    <3> QED BY <1>2, <2>1, <3>2
  <2>2. CASE k \in 1..n
    <3>1. u[k] = s[k]
      BY <1>1, <2>2
    <3>2. PICK p \in Spots(s) : p[1] = k /\ Is(At(s, p), s[k].file, i)
      BY <1>6, <2>2, <3>1 DEF Merging, Complete
    <3> QED BY <1>11, <1>12, <3>1, <3>2
  <2> QED BY <1>5, <2>1, <2>2
<1> QED BY <1>7, <1>8, <1>9, <1>10, <1>13, <1>14 DEF Merging
-----------------------------------------------------------------------------
(* A module is resolved, and the import below it takes its nodes.          *)
Returned(t, s, u, taken) ==
  LET n == Len(s) - 1 IN
  /\ n \in Nat \ {0} /\ Len(u) = n
  /\ \A k \in 1..(n - 1) : u[k] = s[k]
  /\ u[n].file = s[n].file /\ u[n].next = s[n].next + 1 /\ u[n].out = s[n].out \o taken
  /\ taken \in Seq(MergedNodes)
  /\ Nodes(t[s[n].file])[s[n].next].take = Whole => taken = s[n + 1].out
  /\ s[n + 1].next > Len(Nodes(t[s[n + 1].file]))

(* The list that ends is of a file no other list is of; above all not of   *)
(* the entry's.                                                            *)
LEMMA EndsAlone ==
  ASSUME NEW t \in Texts, NEW s, NEW l, Merging(t, s, l), Distinct(s), NEW u, NEW taken,
         Returned(t, s, u, taken)
  PROVE  \A k \in 1..(Len(s) - 1) : s[k].file # s[Len(s)].file
<1> DEFINE n == Len(s) - 1
           top == s[n + 1]
<1>1. n \in Nat \ {0} /\ Len(s) = n + 1 /\ top.next \in Nat
  BY DEF Returned, Merging, Frames
<1>2. top.file # Entry
  <2> SUFFICES ASSUME top.file = Entry PROVE FALSE
    OBVIOUS
  <2>1. top.next <= s[1].next /\ s[1].file = Entry /\ ImportsAt(t, s[1].file, s[1].next, s[2].file)
    BY <1>1 DEF Merging, Open, Linked
  <2>2. Nodes(t[Entry]) \in Seq(SourceNodes) /\ s[1].next \in DOMAIN Nodes(t[Entry])
    BY <2>1, FileNodes, FilesAssumption DEF ImportsAt
  <2>3. s[1].next <= Len(Nodes(t[Entry])) /\ s[1].next \in Nat
    BY <2>2
  <2> QED BY <1>1, <2>1, <2>2, <2>3 DEF Returned
<1>3. s[1].file = Entry
  BY DEF Merging, Linked
<1>4. \A k \in 2..n : s[k].file # top.file
  BY <1>1 DEF Distinct
<1> QED BY <1>1, <1>2, <1>3, <1>4

LEMMA ReturnedFrames ==
  ASSUME NEW t \in Texts, NEW s, NEW l, Merging(t, s, l), Distinct(s), NEW u, NEW taken,
         Returned(t, s, u, taken)
  PROVE  LET k == l \cup {s[Len(s)].file}
         IN  Frames(u) /\ Linked(t, u) /\ LoadedClosed(t, u, k) /\ Open(u, k)
<1> DEFINE n == Len(s) - 1
           f == s[n + 1].file
           k == l \cup {f}
<1>1. n \in Nat \ {0} /\ Len(s) = n + 1 /\ Len(u) = n
  BY DEF Returned, Merging, Frames
<1>a. /\ \A j \in 1..(n - 1) : u[j] = s[j]
      /\ u[n].file = s[n].file /\ u[n].next = s[n].next + 1 /\ u[n].out = s[n].out \o taken
      /\ taken \in Seq(MergedNodes)
      /\ s[n + 1].next > Len(Nodes(t[s[n + 1].file]))
  BY DEF Returned
<1> HIDE DEF n
<1>2. ASSUME NEW j \in 1..n
      PROVE  /\ u[j].file = s[j].file
             /\ u[j].next = IF j = n THEN s[j].next + 1 ELSE s[j].next
             /\ s[j].file \in Files /\ s[j].next \in Nat \ {0}
  <2>1. s[j].file \in Files /\ s[j].next \in Nat \ {0}
    BY <1>1 DEF Merging, Frames
  <2>2. CASE j = n
    BY <1>a, <2>1, <2>2
  <2>3. CASE j # n
    BY <1>1, <1>a, <2>1, <2>3
  <2> QED BY <2>2, <2>3
<1>3. f \in Files /\ f \notin l /\ \A j \in 1..n : s[j].file # f
  <2>1. \A j \in 1..(Len(s) - 1) : s[j].file # s[Len(s)].file
    BY EndsAlone
  <2>2. Len(s) - 1 = n /\ n + 1 \in 1..Len(s)
    BY <1>1
  <2> QED BY <1>1, <2>1, <2>2 DEF Merging, Frames, Open
<1>4. ImportsAt(t, s[n].file, s[n].next, f)
  BY <1>1 DEF Merging, Linked
<1>5. Imported(t, f) \subseteq l
  <2>1. ImportedBefore(t, f, s[n + 1].next) \subseteq l /\ s[n + 1].next \in Nat
    BY <1>1 DEF Merging, LoadedClosed, Frames
  <2>2. s[n + 1].next > Len(Nodes(t[f]))
    BY <1>a
  <2> QED BY <1>3, <2>1, <2>2, AllBefore
<1>6. Frames(u)
  <2> SUFFICES ASSUME NEW j \in 1..n PROVE u[j].out \in Seq(MergedNodes)
    <3>1. \A j \in 1..n : u[j].file \in Files /\ u[j].next \in Nat \ {0}
      BY <1>2
    <3> QED BY <1>1, <3>1 DEF Frames
  <2>1. s[j].out \in Seq(MergedNodes) /\ taken \in Seq(MergedNodes)
    BY <1>1, <1>a DEF Merging, Frames
  <2>2. CASE j = n
    <3>1. u[j].out = s[j].out \o taken
      BY <1>a, <2>2
    <3>2. s[j].out \o taken \in Seq(MergedNodes)
      BY <2>1
    <3> QED BY <3>1, <3>2
  <2>3. CASE j # n
    BY <1>1, <1>a, <2>1, <2>3
  <2> QED BY <2>2, <2>3
<1>7. Linked(t, u)
  <2>1. \A j \in 1..(n - 1) : j \in 1..n /\ j # n /\ j + 1 \in 1..n /\ j \in 1..(Len(s) - 1)
    BY <1>1
  <2>2. ASSUME NEW j \in 1..(n - 1) PROVE ImportsAt(t, u[j].file, u[j].next, u[j + 1].file)
    BY <1>2, <2>1 DEF Merging, Linked
  <2>3. \A j, m \in 1..n : j < m => u[m].file \in Leads(t, u[j].file)
    BY <1>1, <1>2 DEF Merging, Linked
  <2>4. u[1].file = Entry
    BY <1>1, <1>2 DEF Merging, Linked
  <2> QED BY <1>1, <2>2, <2>3, <2>4 DEF Linked
<1>8. LoadedClosed(t, u, k)
  <2>1. l \in SUBSET Files /\ ClosedUnder(t, l)
    BY DEF Merging, LoadedClosed
  <2>2. ClosedUnder(t, k) /\ k \subseteq Files
    BY <1>3, <1>5, <2>1 DEF ClosedUnder
  <2>3. \A g \in k : g \notin Leads(t, g)
    <3>1. f \notin Leads(t, f)
      BY <1>3, <1>5, <2>1, LeadsWithin
    <3> QED BY <3>1 DEF Merging, LoadedClosed
  <2>4. ASSUME NEW j \in 1..n PROVE ImportedBefore(t, u[j].file, u[j].next) \subseteq k
    <3>1. ImportedBefore(t, s[j].file, s[j].next) \subseteq l
      BY <1>1 DEF Merging, LoadedClosed
    <3>2. CASE j = n
      <4>1. \A h : ImportsAt(t, s[j].file, s[j].next, h) => h = f
        BY <1>4, <3>2 DEF ImportsAt
      <4>2. u[j].file = s[j].file /\ u[j].next = s[j].next + 1 /\ s[j].next \in Nat \ {0}
        BY <1>2, <3>2
      <4> QED BY <3>1, <4>1, <4>2, OneMore
    <3>3. CASE j # n
      BY <1>2, <3>1, <3>3
    <3> QED BY <3>2, <3>3
  <2> QED BY <1>1, <2>2, <2>3, <2>4 DEF LoadedClosed
<1>9. Open(u, k)
  <2>1. \A j \in 1..n : u[j].file \notin k
    BY <1>1, <1>2, <1>3 DEF Merging, Open
  <2>2. ASSUME NEW j \in 2..n, u[j].file = Entry PROVE u[j].next <= u[1].next
    <3>1. j \in 1..n /\ 1 \in 1..n /\ 1 # n /\ j \in 2..Len(s)
      BY <1>1
    <3>2. s[j].file = Entry /\ s[j].next <= s[1].next /\ u[1].next = s[1].next
      BY <1>2, <2>2, <3>1 DEF Merging, Open
    <3>3. s[1].file = Entry /\ ImportsAt(t, s[1].file, s[1].next, s[2].file)
      BY <1>1 DEF Merging, Linked
    <3>4. CASE j = n
      <4>1. s[2].file # f
        BY <1>1, <1>3, <3>1
      <4>2. s[j].next # s[1].next
        BY <1>4, <3>2, <3>3, <3>4, <4>1 DEF ImportsAt
      <4> QED BY <1>2, <3>1, <3>2, <3>4, <4>2
    <3>5. CASE j # n
      BY <1>2, <3>1, <3>2, <3>5
    <3> QED BY <3>4, <3>5
  <2> QED BY <1>1, <2>1, <2>2 DEF Open
<1> QED BY <1>6, <1>7, <1>8, <1>9 DEF n

(* Every node put out was put out before, and in the same order.           *)
Origin(s, map, p) ==
  LET n == Len(s) - 1
      c == Len(s[n].out)
  IN  IF p[1] = n /\ p[2] > c THEN <<n + 1, map[p[2] - c]>> ELSE p

Traced(s, u, taken, map) ==
  LET n == Len(s) - 1
      Before(p) == Origin(s, map, p)
  IN  /\ \A p \in Spots(u) : /\ Before(p) \in Spots(s) /\ Same(At(u, p), At(s, Before(p)))
                             /\ Before(p)[1] \in {p[1], n + 1} /\ p[1] \in 1..n
      /\ \A p, q \in Spots(u) : Ahead(p, q) => Ahead(Before(p), Before(q))
      /\ \A p \in Spots(s) : p[1] \in 1..n => p \in Spots(u) /\ At(u, p) = At(s, p)
      /\ taken = s[n + 1].out => \A p \in Spots(s) : p[1] = n + 1 =>
           \E q \in Spots(u) : At(u, q) = At(s, p)

LEMMA ReturnedSpots ==
  ASSUME NEW t \in Texts, NEW s, NEW l, Merging(t, s, l), NEW u, NEW taken,
         Returned(t, s, u, taken), NEW map, Subsequence(taken, s[Len(s)].out, map)
  PROVE  Traced(s, u, taken, map)
<1> DEFINE n == Len(s) - 1
           c == Len(s[n].out)
           Before(p) == IF p[1] = n /\ p[2] > c THEN <<n + 1, map[p[2] - c]>> ELSE p
           d == Len(taken)
<1>1. n \in Nat \ {0} /\ Len(s) = n + 1 /\ Len(u) = n
  BY DEF Returned, Merging, Frames
<1>2. s[n].out \in Seq(MergedNodes) /\ taken \in Seq(MergedNodes) /\ u[n].out = s[n].out \o taken
  BY <1>1 DEF Returned, Merging, Frames
<1>3. \A k \in 1..n : k # n => u[k] = s[k]
  BY <1>1 DEF Returned
<1>4. /\ map \in [1..d -> 1..Len(s[n + 1].out)]
      /\ \A i, j \in 1..d : i < j => map[i] < map[j]
      /\ \A i \in 1..d : Same(taken[i], s[n + 1].out[map[i]])
  BY <1>1 DEF Subsequence, Same
<1>5. Len(s[n + 1].out) \in Nat /\ c \in Nat /\ d \in Nat
  BY <1>1, <1>2 DEF Merging, Frames
<1> HIDE DEF n
<1>6. /\ Len(u[n].out) = c + d
      /\ \A i \in 1..c : u[n].out[i] = s[n].out[i]
      /\ \A i \in 1..d : u[n].out[c + i] = taken[i]
  BY <1>2
<1> HIDE DEF c, d
<1>7. ASSUME NEW p \in Spots(u), p[1] = n, p[2] > c
      PROVE  /\ p[2] - c \in 1..d /\ Before(p) = <<n + 1, map[p[2] - c]>>
             /\ Before(p) \in Spots(s) /\ Same(At(u, p), At(s, Before(p)))
  <2>1. p[2] - c \in 1..d /\ p[2] \in Nat
    BY <1>5, <1>6, <1>7 DEF Spots
  <2>2. map[p[2] - c] \in 1..Len(s[n + 1].out) /\ Same(taken[p[2] - c], s[n + 1].out[map[p[2] - c]])
    BY <1>4, <2>1
  <2>3. Before(p) = <<n + 1, map[p[2] - c]>>
    BY <1>7
  <2>4. u[n].out[p[2]] = taken[p[2] - c]
    <3>1. p[2] = c + (p[2] - c)
      BY <1>5, <2>1
    <3> QED BY <1>6, <2>1, <3>1
  <2>5. <<n + 1, map[p[2] - c]>> \in Spots(s)
    BY <1>1, <1>5, <2>2 DEF Spots
  <2>6. At(u, p) = taken[p[2] - c] /\ At(s, <<n + 1, map[p[2] - c]>>) = s[n + 1].out[map[p[2] - c]]
    BY <1>7, <2>4 DEF At
  <2> QED BY <2>1, <2>2, <2>3, <2>5, <2>6
<1>8. ASSUME NEW p \in Spots(u), ~(p[1] = n /\ p[2] > c)
      PROVE  Before(p) = p /\ p \in Spots(s) /\ At(u, p) = At(s, p)
  <2>1. p[1] \in 1..n /\ p[2] \in 1..Len(u[p[1]].out) /\ p \in Nat \X Nat
    BY <1>1 DEF Spots
  <2>2. p[2] \in 1..Len(s[p[1]].out) /\ u[p[1]].out[p[2]] = s[p[1]].out[p[2]]
    <3>1. CASE p[1] = n
      <4>1. p[2] \in 1..c
        BY <1>5, <1>6, <1>8, <2>1, <3>1
      <4> QED BY <1>6, <3>1, <4>1 DEF c
    <3>2. CASE p[1] # n
      BY <1>3, <2>1, <3>2
    <3> QED BY <3>1, <3>2
  <2>3. p \in Spots(s)
    BY <1>1, <2>1, <2>2 DEF Spots
  <2> QED BY <1>8, <2>2, <2>3 DEF At
<1>9. ASSUME NEW p \in Spots(u)
      PROVE  /\ Before(p) \in Spots(s) /\ Same(At(u, p), At(s, Before(p)))
             /\ Before(p)[1] \in {p[1], n + 1} /\ p[1] \in 1..n
  <2>1. p[1] \in 1..n
    BY <1>1 DEF Spots
  <2>2. CASE p[1] = n /\ p[2] > c
    <3>1. Before(p)[1] = n + 1
      BY <1>7, <2>2
    <3> HIDE DEF Before
    <3> QED BY <1>7, <2>1, <2>2, <3>1
  <2>3. CASE ~(p[1] = n /\ p[2] > c)
    <3> HIDE DEF Before
    <3> QED BY <1>8, <2>1, <2>3 DEF Same
  <2> QED BY <2>2, <2>3
<1>10. ASSUME NEW p \in Spots(u), NEW q \in Spots(u), Ahead(p, q)
       PROVE  Ahead(Before(p), Before(q))
  <2>1. p[1] \in 1..n /\ q[1] \in 1..n /\ p[2] \in Nat /\ q[2] \in Nat
    BY <1>1 DEF Spots
  <2>2. CASE p[1] = n /\ p[2] > c
    <3>1. q[1] = n /\ q[2] > c /\ p[2] < q[2]
      BY <1>1, <1>5, <1>10, <2>1, <2>2 DEF Ahead
    <3>2. p[2] - c \in 1..d /\ q[2] - c \in 1..d
      BY <1>7, <2>2, <3>1
    <3>4. p[2] - c < q[2] - c
      BY <1>5, <2>1, <3>1
    <3>3. map[p[2] - c] < map[q[2] - c]
      BY <1>4, <3>2, <3>4
    <3> QED BY <2>2, <3>1, <3>3 DEF Ahead
  <2>3. CASE ~(p[1] = n /\ p[2] > c) /\ q[1] = n /\ q[2] > c
    <3>1. Before(p) = p /\ Before(q)[1] = n + 1
      BY <1>7, <1>8, <2>3
    <3> HIDE DEF Before
    <3> QED BY <1>1, <2>1, <3>1 DEF Ahead
  <2>4. CASE ~(p[1] = n /\ p[2] > c) /\ ~(q[1] = n /\ q[2] > c)
    BY <1>8, <1>10, <2>4
  <2> QED BY <2>2, <2>3, <2>4
<1>11. ASSUME NEW p \in Spots(s), p[1] \in 1..n
       PROVE  p \in Spots(u) /\ At(u, p) = At(s, p)
  <2>1. p[2] \in 1..Len(s[p[1]].out) /\ p \in Nat \X Nat
    BY DEF Spots
  <2>2. p[2] \in 1..Len(u[p[1]].out) /\ u[p[1]].out[p[2]] = s[p[1]].out[p[2]]
    <3>1. CASE p[1] = n
      <4>1. p[2] \in 1..c
        BY <2>1, <3>1 DEF c
      <4> QED BY <1>5, <1>6, <3>1, <4>1
    <3>2. CASE p[1] # n
      BY <1>3, <1>11, <2>1, <3>2
    <3> QED BY <3>1, <3>2
  <2> QED BY <1>1, <1>11, <2>1, <2>2 DEF Spots, At
<1>12. ASSUME taken = s[n + 1].out, NEW p \in Spots(s), p[1] = n + 1
       PROVE  \E q \in Spots(u) : At(u, q) = At(s, p)
  <2> DEFINE q == <<n, c + p[2]>>
  <2>1. p[2] \in 1..d
    BY <1>12 DEF Spots, d
  <2>2. q \in Spots(u)
    BY <1>1, <1>5, <1>6, <2>1 DEF Spots
  <2>3. At(u, q) = At(s, p)
    BY <1>6, <1>12, <2>1 DEF At
  <2> QED BY <2>2, <2>3
<1>13. \A p : Before(p) = Origin(s, map, p)
  BY DEF Origin, n, c
<1> HIDE DEF Before
<1>14. ASSUME NEW p \in Spots(u)
       PROVE  /\ Origin(s, map, p) \in Spots(s) /\ Same(At(u, p), At(s, Origin(s, map, p)))
              /\ Origin(s, map, p)[1] \in {p[1], n + 1} /\ p[1] \in 1..n
  BY <1>9, <1>13
<1>15. \A p, q \in Spots(u) : Ahead(p, q) => Ahead(Origin(s, map, p), Origin(s, map, q))
  BY <1>10, <1>13
<1>16. \A p \in Spots(s) : p[1] \in 1..n => p \in Spots(u) /\ At(u, p) = At(s, p)
  BY <1>11
<1>17. taken = s[n + 1].out => \A p \in Spots(s) : p[1] = n + 1 =>
         \E q \in Spots(u) : At(u, q) = At(s, p)
  BY <1>12
<1> QED BY <1>14, <1>15, <1>16, <1>17 DEF Traced, n
-----------------------------------------------------------------------------
LEMMA ReturnedMerging ==
  ASSUME NEW t \in Texts, NEW s, NEW l, Merging(t, s, l), Distinct(s), NEW u, NEW taken,
         Returned(t, s, u, taken), NEW map, Subsequence(taken, s[Len(s)].out, map)
  PROVE  Merging(t, u, l \cup {s[Len(s)].file})
<1> DEFINE n == Len(s) - 1
           Before(p) == Origin(s, map, p)
           f == s[n + 1].file
           k == l \cup {f}
<1>1. n \in Nat \ {0} /\ Len(s) = n + 1 /\ Len(u) = n
  BY DEF Returned, Merging, Frames
<1>a. /\ \A j \in 1..(n - 1) : u[j] = s[j]
      /\ u[n].file = s[n].file /\ u[n].next = s[n].next + 1
      /\ Nodes(t[s[n].file])[s[n].next].take = Whole => taken = s[n + 1].out
      /\ s[n + 1].next > Len(Nodes(t[s[n + 1].file]))
  BY DEF Returned
<1>2. /\ \A p \in Spots(u) : /\ Before(p) \in Spots(s) /\ Same(At(u, p), At(s, Before(p)))
                              /\ Before(p)[1] \in {p[1], n + 1} /\ p[1] \in 1..n
      /\ \A p, q \in Spots(u) : Ahead(p, q) => Ahead(Before(p), Before(q))
      /\ \A p \in Spots(s) : p[1] \in 1..n => p \in Spots(u) /\ At(u, p) = At(s, p)
      /\ taken = s[n + 1].out => \A p \in Spots(s) : p[1] = n + 1 =>
           \E q \in Spots(u) : At(u, q) = At(s, p)
  <2>1. Traced(s, u, taken, map)
    BY ReturnedSpots
  <2> QED BY <2>1 DEF Traced
<1> HIDE DEF n, Before
<1>3. \A p \in Spots(s) : p[1] \in 1..(n + 1) /\ p[1] \in Nat /\ At(s, p).at \in Nat
                          /\ s[p[1]].next \in Nat
  <2> TAKE p \in Spots(s)
  <2>1. p[1] \in 1..Len(s) /\ p[2] \in 1..Len(s[p[1]].out)
    BY DEF Spots
  <2>2. s[p[1]].out \in Seq(MergedNodes) /\ s[p[1]].next \in Nat
    BY <2>1 DEF Merging, Frames
  <2>3. At(s, p) \in MergedNodes
    BY <2>1, <2>2 DEF At
  <2>4. At(s, p).at \in Nat
    BY <2>3 DEF MergedNodes
  <2> QED BY <1>1, <2>1, <2>2, <2>4
<1>4. ASSUME NEW j \in 1..n
      PROVE  /\ u[j].file = s[j].file /\ s[j].file # f /\ s[j].next \in Nat
             /\ u[j].next = IF j = n THEN s[j].next + 1 ELSE s[j].next
  <2>1. j \in 1..Len(s) /\ j \in 1..(Len(s) - 1) /\ Len(s) = n + 1
    BY <1>1
  <2>2. s[j].next \in Nat /\ s[j].file # f
    BY <2>1, EndsAlone DEF Merging, Frames
  <2>3. CASE j = n
    BY <1>a, <2>2, <2>3
  <2>4. CASE j # n
    BY <1>1, <1>a, <2>2, <2>4
  <2> QED BY <2>3, <2>4
<1>5. \A p \in Spots(s) : At(s, p).file = f => p[1] = n + 1
  <2> SUFFICES ASSUME NEW p \in Spots(s), At(s, p).file = f PROVE p[1] = n + 1
    OBVIOUS
  <2>1. f \notin l
    BY <1>1 DEF Merging, Open
  <2>2. At(s, p).file = s[p[1]].file
    BY <2>1 DEF Merging, Known
  <2> QED BY <1>1, <1>3, <1>4, <2>2
<1>6. Known(t, u, k)
  <2> SUFFICES ASSUME NEW p \in Spots(u)
               PROVE  /\ \/ At(u, p).file = u[p[1]].file /\ At(u, p).at < u[p[1]].next
                         \/ At(u, p).file \in k
                      /\ At(u, p).at \in DeclsOf(t, At(u, p).file)
                      /\ Brought(t, At(u, p).file, At(u, p).at) \subseteq k
    BY DEF Known
  <2> DEFINE o == Before(p)
  <2>1. o \in Spots(s) /\ Same(At(u, p), At(s, o)) /\ o[1] \in {p[1], n + 1} /\ p[1] \in 1..n
    BY <1>2
  <2> HIDE DEF o
  <2>2. /\ \/ At(s, o).file = s[o[1]].file /\ At(s, o).at < s[o[1]].next
           \/ At(s, o).file \in l
        /\ At(s, o).at \in DeclsOf(t, At(s, o).file)
        /\ Brought(t, At(s, o).file, At(s, o).at) \subseteq l
    BY <2>1 DEF Merging, Known
  <2>3. At(u, p).file = At(s, o).file /\ At(u, p).at = At(s, o).at
    BY <2>1 DEF Same
  <2>4. CASE o[1] = n + 1
    BY <2>2, <2>3, <2>4
  <2>5. CASE o[1] = p[1]
    <3>1. u[p[1]].file = s[p[1]].file /\ s[p[1]].next \in Nat
          /\ u[p[1]].next \in {s[p[1]].next, s[p[1]].next + 1}
      BY <1>4, <2>1
    <3>2. At(s, o).at \in Nat
      BY <1>3, <2>1
    <3> QED BY <2>2, <2>3, <2>5, <3>1, <3>2
  <2> QED BY <2>1, <2>4, <2>5
<1>7. \A p, q \in Spots(u) : Before(p) = Before(q) => p = q
  <2> SUFFICES ASSUME NEW p \in Spots(u), NEW q \in Spots(u), p # q PROVE Before(p) # Before(q)
    OBVIOUS
  <2>1. p[1] \in Nat /\ p[2] \in Nat /\ q[1] \in Nat /\ q[2] \in Nat /\ p = <<p[1], p[2]>> /\ q = <<q[1], q[2]>>
    BY DEF Spots
  <2>2. Ahead(p, q) \/ Ahead(q, p)
    BY <2>1 DEF Ahead
  <2>3. Ahead(Before(p), Before(q)) \/ Ahead(Before(q), Before(p))
    BY <1>2, <2>2
  <2>4. \A o \in Spots(s) : ~Ahead(o, o)
    BY DEF Ahead, Spots
  <2> QED BY <1>2, <2>3, <2>4
<1>8. Once(u, k)
  <2> SUFFICES ASSUME NEW p \in Spots(u), NEW q \in Spots(u), Same(At(u, p), At(u, q)),
                      p[1] = q[1] \/ At(u, p).file \in k
               PROVE  p = q
    BY DEF Once
  <2> DEFINE o == Before(p)
             m == Before(q)
  <2>1. /\ o \in Spots(s) /\ Same(At(u, p), At(s, o)) /\ o[1] \in {p[1], n + 1} /\ p[1] \in 1..n
        /\ m \in Spots(s) /\ Same(At(u, q), At(s, m)) /\ m[1] \in {q[1], n + 1} /\ q[1] \in 1..n
        /\ (o = m => p = q)
    BY <1>2, <1>7
  <2> HIDE DEF o, m
  <2>2. Same(At(s, o), At(s, m)) /\ At(u, p).file = At(s, o).file /\ At(s, m).file = At(s, o).file
    BY <2>1 DEF Same
  <2>3. CASE At(s, o).file \in l
    BY <2>1, <2>2, <2>3 DEF Merging, Once
  <2>4. CASE At(s, o).file = f
    <3>1. o[1] = m[1]
      BY <1>5, <2>1, <2>2, <2>4
    <3> QED BY <2>1, <2>2, <3>1 DEF Merging, Once
  <2>5. CASE At(s, o).file \notin k
    <3>1. At(s, o).file = s[o[1]].file /\ At(s, m).file = s[m[1]].file
      BY <2>1, <2>2, <2>5 DEF Merging, Known
    <3>2. o[1] = p[1] /\ m[1] = q[1]
      BY <2>1, <2>2, <2>5, <3>1
    <3>3. o[1] = m[1]
      BY <2>2, <2>5, <3>2
    <3> QED BY <2>1, <2>2, <3>3 DEF Merging, Once
  <2> QED BY <2>3, <2>4, <2>5
<1>9. Ordered(t, u)
  <2> SUFFICES ASSUME NEW p \in Spots(u), NEW q \in Spots(u),
                      At(u, q).file \in Brought(t, At(u, p).file, At(u, p).at)
               PROVE  Ahead(q, p)
    BY DEF Ordered
  <2> DEFINE o == Before(p)
             m == Before(q)
  <2>1. /\ o \in Spots(s) /\ Same(At(u, p), At(s, o))
        /\ m \in Spots(s) /\ Same(At(u, q), At(s, m))
        /\ (p = q => o = m) /\ (Ahead(p, q) => Ahead(o, m))
    BY <1>2
  <2> HIDE DEF o, m
  <2>2. Ahead(m, o)
    BY <2>1 DEF Same, Merging, Ordered
  <2>3. ~Ahead(o, m) /\ o # m
    <3>1. o[1] \in Nat /\ o[2] \in Nat /\ m[1] \in Nat /\ m[2] \in Nat
      BY <2>1 DEF Spots
    <3> QED BY <2>2, <3>1 DEF Ahead
  <2>4. p[1] \in Nat /\ p[2] \in Nat /\ q[1] \in Nat /\ q[2] \in Nat /\ p = <<p[1], p[2]>> /\ q = <<q[1], q[2]>>
    BY DEF Spots
  <2> QED BY <2>1, <2>3, <2>4 DEF Ahead
<1>10. Complete(t, u, k)
  <2> SUFFICES ASSUME Wholly(t)
               PROVE  /\ \A g \in k : \A i \in DeclsOf(t, g) : \E p \in Spots(u) : Is(At(u, p), g, i)
                      /\ \A j \in 1..Len(u) : \A i \in DeclsOf(t, u[j].file) :
                           i < u[j].next => \E p \in Spots(u) : p[1] = j /\ Is(At(u, p), u[j].file, i)
    BY DEF Complete
  <2>1. ImportsAt(t, s[n].file, s[n].next, f)
    BY <1>1 DEF Merging, Linked
  <2>2. taken = s[n + 1].out
    <3>1. s[n].file \in Leads(t, Entry) \cup {Entry}
      BY <1>1 DEF Merging, Linked
    <3> QED BY <1>a, <2>1, <3>1 DEF Wholly, ImportsAt
  <2>3. \A p \in Spots(s) : \E q \in Spots(u) : At(u, q) = At(s, p)
    <3> TAKE p \in Spots(s)
    <3>1. p[1] \in 1..n \/ p[1] = n + 1
      BY <1>1, <1>3
    <3> QED BY <1>2, <2>2, <3>1
  <2>4. ASSUME NEW g \in k, NEW i \in DeclsOf(t, g) PROVE \E p \in Spots(u) : Is(At(u, p), g, i)
    <3>1. \E p \in Spots(s) : Is(At(s, p), g, i)
      <4>1. CASE g \in l
        BY <2>4, <4>1 DEF Merging, Complete
      <4>2. CASE g = f
        <5>1. f \in Files /\ s[n + 1].next \in Nat /\ n + 1 \in 1..Len(s)
          BY <1>1 DEF Merging, Frames
        <5>2. Nodes(t[f]) \in Seq(SourceNodes)
          BY <5>1, FileNodes
        <5>3. i < s[n + 1].next
          BY <1>a, <2>4, <4>2, <5>1, <5>2 DEF DeclsOf
        <5> QED BY <2>4, <4>2, <5>1, <5>3 DEF Merging, Complete
      <4> QED BY <4>1, <4>2
    <3> QED BY <2>3, <3>1
  <2>5. ASSUME NEW j \in 1..n, NEW i \in DeclsOf(t, u[j].file), i < u[j].next
        PROVE  \E p \in Spots(u) : p[1] = j /\ Is(At(u, p), u[j].file, i)
    <3>1. u[j].file = s[j].file /\ j \in 1..Len(s) /\ s[j].file \in Files
      BY <1>1, <1>4 DEF Merging, Frames
    <3>2. Nodes(t[s[j].file]) \in Seq(SourceNodes)
      BY <3>1, FileNodes
    <3>3. i \in Nat
      BY <3>1, <3>2 DEF DeclsOf
    <3>4. ~(j = n /\ i = s[n].next)
      BY <2>1, <3>1 DEF DeclsOf, ImportsAt
    <3>5. i < s[j].next
      BY <1>4, <2>5, <3>3, <3>4
    <3>6. PICK p \in Spots(s) : p[1] = j /\ Is(At(s, p), s[j].file, i)
      BY <3>1, <3>5 DEF Merging, Complete
    <3> QED BY <1>2, <3>1, <3>6
  <2> QED BY <1>1, <2>4, <2>5
<1>11. Frames(u) /\ Linked(t, u) /\ LoadedClosed(t, u, k) /\ Open(u, k)
  BY <1>1, ReturnedFrames
<1>12. k = l \cup {s[Len(s)].file}
  BY <1>1
<1> HIDE DEF k
<1> QED BY <1>6, <1>8, <1>9, <1>10, <1>11, <1>12 DEF Merging
-----------------------------------------------------------------------------
Live == status \in {"resolving", "ok"}

(* What holds of the lists while they are resolved, and of the result.     *)
MInv ==
  /\ Live => Merging(text, stack, loaded)
  /\ status = "ok" => Len(stack) = 1 /\ stack[1].next > Len(Nodes(text[Entry]))
  /\ status = "AYM4002" => \E f \in Leads(text, Entry) : f \in Leads(text, f)

LEMMA AdvancedTop ==
  ASSUME NEW s, s \in Seq(Range(s)), s # << >>, NEW nodes
  PROVE  LET u == Advanced(s, nodes) IN
           /\ Len(u) = Len(s)
           /\ \A k \in 1..(Len(s) - 1) : u[k] = s[k]
           /\ u[Len(s)] = Put(s[Len(s)], nodes)
<1> DEFINE n == Len(s)
           top == Put(s[n], nodes)
           u == [s EXCEPT ![n] = top]
<1>1. DOMAIN s = 1..n /\ n \in Nat \ {0} /\ s \in Seq(Range(s))
  BY NonEmptySeq
<1>2. Advanced(s, nodes) = u
  BY DEF Advanced
<1> HIDE DEF n, top
<1>3. DOMAIN u = 1..n /\ u[n] = top /\ \A k \in 1..n : k # n => u[k] = s[k]
  BY <1>1
<1>4. Len(u) = n
  <2> HIDE DEF u
  <2>1. u \in Seq(Range(s) \cup {top})
    <3>1. \A k \in 1..n : s[k] \in Range(s)
      BY <1>1 DEF Range
    <3>2. u = [k \in 1..n |-> IF k = n THEN top ELSE s[k]]
      BY <1>1 DEF u
    <3> QED BY <1>1, <3>1, <3>2
  <2> QED BY <1>1, <1>3, <2>1
<1> HIDE DEF u
<1>5. \A k \in 1..(n - 1) : u[k] = s[k]
  BY <1>1, <1>3
<1> QED BY <1>2, <1>3, <1>4, <1>5 DEF n, top

LEMMA MergingStart ==
  Init => MInv
<1> SUFFICES ASSUME Init PROVE MInv
  OBVIOUS
<1>1. /\ stack = <<Frame(Entry)>> /\ loaded = {} /\ text \in Texts /\ status = "resolving"
      /\ Len(stack) = 1 /\ stack[1].file = Entry /\ stack[1].next = 1 /\ stack[1].out = << >>
  BY DEF Init, Frame
<1>2. Spots(stack) = {}
  <2> SUFFICES ASSUME NEW p \in Spots(stack) PROVE FALSE
    OBVIOUS
  <2>1. p[1] \in 1..1 /\ p[2] \in 1..Len(stack[p[1]].out)
    BY <1>1 DEF Spots
  <2>2. p[1] = 1 /\ Len(stack[1].out) = 0
    BY <1>1, <2>1
  <2> QED BY <2>1, <2>2
<1>3. Frames(stack)
  <2>1. << >> \in Seq(MergedNodes)
    OBVIOUS
  <2>2. stack[1].file \in Files /\ stack[1].next \in Nat \ {0} /\ stack[1].out \in Seq(MergedNodes)
    <3>1. stack[1].file = Entry /\ stack[1].next = 1 /\ stack[1].out = << >>
      BY <1>1
    <3>2. Entry \in Files /\ 1 \in Nat \ {0}
      BY FilesAssumption
    <3> QED BY <2>1, <3>1, <3>2
  <2>3. \A k \in 1..1 : k = 1
    OBVIOUS
  <2> QED BY <1>1, <2>2, <2>3 DEF Frames
<1>4. Linked(text, stack)
  BY <1>1 DEF Linked
<1>5. LoadedClosed(text, stack, loaded)
  <2>1. ImportedBefore(text, Entry, 1) = {}
    BY DEF ImportedBefore
  <2> QED BY <1>1, <2>1 DEF LoadedClosed, ClosedUnder
<1>6. Open(stack, loaded)
  BY <1>1 DEF Open
<1>7. Known(text, stack, loaded) /\ Once(stack, loaded) /\ Ordered(text, stack)
  BY <1>2 DEF Known, Once, Ordered
<1>8. Complete(text, stack, loaded)
  <2>1. Nodes(text[Entry]) \in Seq(SourceNodes)
    BY <1>1, FileNodes, FilesAssumption
  <2>2. \A i \in DeclsOf(text, Entry) : i \in Nat \ {0}
    BY <2>1 DEF DeclsOf
  <2> QED BY <1>1, <2>2 DEF Complete
<1> QED BY <1>1, <1>3, <1>4, <1>5, <1>6, <1>7, <1>8 DEF MInv, Merging

(* The node at hand, and the list it is of. *)
LEMMA AtHand ==
  ASSUME IInv, More
  PROVE  /\ Len(stack) \in Nat \ {0} /\ Top = stack[Len(stack)]
         /\ Top.file \in Files /\ text \in Texts
         /\ Top.next \in DOMAIN Nodes(text[Top.file])
         /\ Node = Nodes(text[Top.file])[Top.next] /\ Node \in SourceNodes
         /\ Importing => Node.file \in Files /\ Node.take \in Takes
                         /\ ImportsAt(text, Top.file, Top.next, Node.file)
<1>1. Len(stack) \in Nat \ {0} /\ Top = stack[Len(stack)]
  BY NonEmptySeq DEF IInv, StackOK, Top, Last
<1>2. Top.file \in Files /\ Top.next \in Nat \ {0} /\ text \in Texts
  BY <1>1 DEF IInv, StackOK, IsFrame
<1>3. TopNodes \in Seq(SourceNodes) /\ TopNodes = Nodes(text[Top.file])
  BY <1>2, FileNodes DEF TopNodes
<1>4. Top.next \in 1..Len(TopNodes)
  BY <1>2, <1>3 DEF More
<1>5. Node \in SourceNodes /\ Node = TopNodes[Top.next] /\ Top.next \in DOMAIN TopNodes
  BY <1>3, <1>4 DEF Node
<1>6. Importing => Node.file \in Files /\ Node.take \in Takes
  BY <1>5 DEF Importing, SourceNodes
<1>7. Importing => ImportsAt(text, Top.file, Top.next, Node.file)
  BY <1>3, <1>5 DEF Importing, ImportsAt
<1> QED BY <1>1, <1>2, <1>3, <1>5, <1>6, <1>7

LEMMA KeepMerges ==
  ASSUME IInv, MInv, Keep
  PROVE  MInv'
<1> DEFINE n == Len(stack)
           m == Merged(Top.file, Top.next, Node.name)
<1>1. /\ n \in Nat \ {0} /\ Top = stack[n] /\ Top.file \in Files /\ text \in Texts
      /\ Top.next \in DOMAIN Nodes(text[Top.file])
      /\ Node = Nodes(text[Top.file])[Top.next] /\ Node \in SourceNodes
  BY AtHand DEF Keep
<1>2. status = "resolving" /\ Node.node = "decl" /\ Merging(text, stack, loaded)
  BY DEF Keep, More, Resolving, MInv, Live
<1>3. m \in MergedNodes /\ m.file = Top.file /\ m.at = Top.next
  <2>1. Node.name \in Names \cup {""}
    BY <1>1, <1>2 DEF SourceNodes
  <2>2. Top.next \in Nat \ {0}
    BY <1>1, <1>2 DEF Merging, Frames
  <2> QED BY <1>1, <2>1, <2>2 DEF Merged, MergedNodes
<1>4. /\ Len(stack') = n /\ \A k \in 1..(n - 1) : stack'[k] = stack[k]
      /\ stack'[n] = Put(stack[n], <<m>>)
  <2>1. stack' = Advanced(stack, <<m>>)
    BY DEF Keep
  <2> HIDE DEF m
  <2> QED BY <2>1, AdvancedTop DEF IInv, StackOK
<1>5. stack'[n].file = stack[n].file /\ stack'[n].next = stack[n].next + 1 /\ stack'[n].out = Append(stack[n].out, m)
  <2>1. stack[n].out \in Seq(MergedNodes)
    BY <1>1, <1>2 DEF Merging, Frames
  <2> HIDE DEF m
  <2>2. stack[n].out \o <<m>> = Append(stack[n].out, m)
    BY <1>3, <2>1
  <2> HIDE DEF n
  <2> QED BY <1>4, <2>2 DEF Put
<1>6. Kept(text, stack, stack', m)
  BY <1>1, <1>2, <1>3, <1>4, <1>5 DEF Kept
<1>7. Merging(text, stack', loaded)
  <2> HIDE DEF m
  <2> QED BY <1>1, <1>2, <1>6, KeptMerging
<1>8. UNCHANGED <<text, loaded, status>>
  BY DEF Keep
<1> QED BY <1>2, <1>7, <1>8 DEF MInv

LEMMA SkipMerges ==
  ASSUME IInv, MInv, AlreadyLoaded
  PROVE  MInv'
<1> DEFINE n == Len(stack)
           g == Node.file
           u == Advanced(stack, Taken(Node.take, << >>))
<1>1. /\ n \in Nat \ {0} /\ Top = stack[n] /\ text \in Texts
      /\ Node.take \in Takes /\ ImportsAt(text, Top.file, Top.next, g)
  BY AtHand DEF AlreadyLoaded, Importing
<1>2. status = "resolving" /\ g \in loaded /\ Merging(text, stack, loaded) /\ UNCHANGED <<text, loaded>>
  BY DEF AlreadyLoaded, Importing, More, Resolving, MInv, Live
<1>3. Taken(Node.take, << >>) = << >>
  <2>1. << >> \in Seq(MergedNodes)
    OBVIOUS
  <2>2. PICK map : Subsequence(Taken(Node.take, << >>), << >>, map)
    BY <1>1, <2>1, TakenSelects
  <2>3. Taken(Node.take, << >>) \in Seq(MergedNodes)
    BY <1>1, <2>1, TakenSelects
  <2>4. map \in [1..Len(Taken(Node.take, << >>)) -> {}]
    BY <2>2 DEF Subsequence
  <2>5. Len(Taken(Node.take, << >>)) = 0
    <3> DEFINE c == Len(Taken(Node.take, << >>))
    <3>1. c \in Nat
      BY <2>3
    <3>2. \A i \in 1..c : map[i] \in {}
      BY <2>4
    <3> HIDE DEF c
    <3>3. 1 \notin 1..c
      BY <3>2
    <3>4. c = 0
      BY <3>1, <3>3
    <3> QED BY <3>4 DEF c
  <2> QED BY <2>3, <2>5
<1>4. CASE stack' = u /\ UNCHANGED status
  <2>1. /\ Len(u) = n /\ \A k \in 1..(n - 1) : u[k] = stack[k]
        /\ u[n] = Put(stack[n], << >>)
    BY <1>3, AdvancedTop DEF IInv, StackOK
  <2>2. u[n].file = stack[n].file /\ u[n].next = stack[n].next + 1 /\ u[n].out = stack[n].out
    <3>1. stack[n].out \in Seq(MergedNodes)
      BY <1>1, <1>2 DEF Merging, Frames
    <3>2. stack[n].out \o << >> = stack[n].out
      BY <3>1
    <3> HIDE DEF u, n
    <3> QED BY <2>1, <3>2 DEF Put
  <2> HIDE DEF u, g
  <2>3. Skipped(text, stack, u, g)
    BY <1>1, <2>1, <2>2 DEF Skipped
  <2>4. Merging(text, u, loaded)
    BY <1>1, <1>2, <2>3, SkippedMerging
  <2> QED BY <1>2, <1>4, <2>4 DEF MInv
<1>5. CASE status' = "AYM4005"
  BY <1>5 DEF MInv, Live
<1> QED BY <1>4, <1>5 DEF AlreadyLoaded, Receive

LEMMA LoadMerges ==
  ASSUME IInv, MInv, Load
  PROVE  MInv'
<1> DEFINE n == Len(stack)
           g == Node.file
<1>1. /\ n \in Nat \ {0} /\ Top = stack[n] /\ text \in Texts
      /\ g \in Files /\ ImportsAt(text, Top.file, Top.next, g)
  BY AtHand DEF Load, Importing
<1>2. status = "resolving" /\ g \notin loaded /\ Merging(text, stack, loaded) /\ UNCHANGED <<text, loaded, status>>
  BY DEF Load, Importing, More, Resolving, MInv, Live
<1>3. Len(stack') = n + 1 /\ stack'[n + 1] = Frame(g) /\ \A k \in 1..n : stack'[k] = stack[k]
  <2> DEFINE F == Range(stack) \cup {Frame(g)}
  <2>1. stack' = Append(stack, Frame(g))
    BY DEF Load
  <2>2. stack \in Seq(F) /\ Frame(g) \in F
    BY DEF IInv, StackOK
  <2> HIDE DEF F
  <2> QED BY <2>1, <2>2
<1>4. Entered(text, stack, stack', g)
  BY <1>1, <1>3 DEF Entered
<1>5. Merging(text, stack', loaded)
  <2> HIDE DEF g
  <2> QED BY <1>1, <1>2, <1>4, EnteredMerging
<1> QED BY <1>2, <1>5 DEF MInv

LEMMA ReturnMerges ==
  ASSUME IInv, MInv, Return
  PROVE  MInv'
<1> DEFINE n == Len(stack) - 1
           below == Front(stack)
           import == Nodes(text[Last(below).file])[Last(below).next]
           taken == Taken(import.take, Top.out)
           u == Advanced(below, taken)
<1>1. status = "resolving" /\ Merging(text, stack, loaded) /\ UNCHANGED text /\ text \in Texts
  BY DEF Return, Resolving, MInv, Live, IInv
<1>2. Len(stack) \in Nat /\ Len(stack) > 1 /\ stack \in Seq(Range(stack)) /\ Distinct(stack)
  BY NonEmptySeq DEF IInv, StackOK, LoadOK, Return
<1>3. n \in Nat \ {0} /\ Len(stack) = n + 1 /\ Top = stack[n + 1]
  <2>1. n \in Nat \ {0} /\ Len(stack) = n + 1
    <3> DEFINE c == Len(stack)
    <3>1. c \in Nat /\ c > 1
      BY <1>2
    <3> HIDE DEF c
    <3>2. c - 1 \in Nat \ {0} /\ c = (c - 1) + 1
      BY <3>1
    <3> QED BY <3>2 DEF c
  <2>2. Top = stack[Len(stack)]
    BY DEF Top, Last
  <2> QED BY <2>1, <2>2
<1>4. /\ below \in Seq(Range(below)) /\ below # << >> /\ Len(below) = n
      /\ \A i \in 1..n : below[i] = stack[i]
  BY <1>2, FrontFrames DEF IInv, StackOK
<1>5. Last(below) = stack[n]
  BY <1>3, <1>4 DEF Last
<1> HIDE DEF below, n
<1>6. import.take \in Takes
  <2>1. ImportsAt(text, stack[n].file, stack[n].next, stack[n + 1].file) /\ stack[n].file \in Files
    BY <1>1, <1>3 DEF Merging, Linked, Frames
  <2>2. Nodes(text[stack[n].file]) \in Seq(SourceNodes)
    BY <1>1, <2>1, FileNodes
  <2>3. import \in SourceNodes /\ import.node = "import"
    BY <1>5, <2>1, <2>2 DEF ImportsAt
  <2> QED BY <2>3 DEF SourceNodes
<1>7. stack[n + 1].out \in Seq(MergedNodes) /\ stack[n].out \in Seq(MergedNodes) /\ stack[n + 1].next \in Nat
  BY <1>1, <1>3 DEF Merging, Frames
<1>8. /\ taken \in Seq(MergedNodes) /\ (import.take = Whole => taken = stack[n + 1].out)
      /\ \E map : Subsequence(taken, stack[n + 1].out, map)
  BY <1>3, <1>6, <1>7, TakenSelects
<1>9. stack[n + 1].next > Len(Nodes(text[stack[n + 1].file]))
  <2>1. Nodes(text[stack[n + 1].file]) \in Seq(SourceNodes)
    BY <1>1, <1>3, FileNodes DEF Merging, Frames
  <2> QED BY <1>3, <1>7, <2>1 DEF Return, More, TopNodes
<1>10. CASE stack' = u /\ UNCHANGED status
  <2>1. /\ Len(u) = n /\ \A k \in 1..(n - 1) : u[k] = below[k]
        /\ u[n] = Put(below[n], taken)
    BY <1>4, AdvancedTop
  <2> HIDE DEF u, taken
  <2>2. u[n].file = stack[n].file /\ u[n].next = stack[n].next + 1 /\ u[n].out = stack[n].out \o taken
    <3>1. below[n] = stack[n]
      BY <1>3, <1>4
    <3> QED BY <2>1, <3>1 DEF Put
  <2>3. \A k \in 1..(n - 1) : u[k] = stack[k]
    BY <1>3, <1>4, <2>1
  <2>4. Len(stack) - 1 = n
    BY <1>3
  <2>5. Nodes(text[stack[n].file])[stack[n].next].take = Whole => taken = stack[n + 1].out
    BY <1>5, <1>8
  <2>6. Returned(text, stack, u, taken)
    BY <1>3, <1>8, <1>9, <2>1, <2>2, <2>3, <2>4, <2>5 DEF Returned
  <2>7. PICK map : Subsequence(taken, stack[Len(stack)].out, map)
    BY <1>3, <1>8
  <2>8. Merging(text, u, loaded \cup {stack[Len(stack)].file})
    BY <1>1, <1>2, <2>6, <2>7, ReturnedMerging
  <2>9. loaded' = loaded \cup {stack[Len(stack)].file}
    BY <1>3 DEF Return
  <2> QED BY <1>1, <1>10, <2>8, <2>9 DEF MInv
<1>11. CASE status' = "AYM4005"
  BY <1>11 DEF MInv, Live
<1> QED BY <1>10, <1>11 DEF Return, Receive, below

(* The file found being loaded is imported by the last list, or is the     *)
(* last list's own: it leads to itself.                                    *)
LEMMA CyclicMerges ==
  ASSUME IInv, MInv, Cyclic
  PROVE  MInv'
<1> DEFINE n == Len(stack)
           g == Node.file
<1>1. /\ n \in Nat \ {0} /\ Top = stack[n] /\ text \in Texts
      /\ g \in Files /\ ImportsAt(text, Top.file, Top.next, g)
  BY AtHand DEF Cyclic, Importing
<1>2. status = "resolving" /\ g \in loading /\ Merging(text, stack, loaded)
  BY DEF Cyclic, Importing, More, Resolving, MInv, Live
<1>3. PICK k \in 2..n : stack[k].file = g
  BY <1>2 DEF IInv, LoadOK, Resolving, Above
<1>4. g \in Imported(text, stack[n].file)
  BY <1>1 DEF Imported, ImportsAt
<1>5. g \in Leads(text, Entry)
  BY <1>1, <1>2, <1>3 DEF Merging, Linked
<1>6. g \in Leads(text, g)
  <2>1. CASE k = n
    BY <1>3, <1>4, <2>1, LeadsToImports
  <2>2. CASE k # n
    <3>1. stack[n].file \in Leads(text, g)
      BY <1>1, <1>2, <1>3, <2>2 DEF Merging, Linked
    <3> QED BY <1>4, <3>1, LeadsOn
  <2> QED BY <2>1, <2>2
<1>7. text' = text /\ status' = "AYM4002"
  BY DEF Cyclic, Fail
<1> QED BY <1>5, <1>6, <1>7 DEF MInv, Live

LEMMA MergingInductive ==
  IInv /\ MInv /\ [Next]_vars => MInv'
<1> SUFFICES ASSUME IInv, MInv, [Next]_vars PROVE MInv'
  OBVIOUS
<1>1. CASE Keep
  BY <1>1, KeepMerges
<1>2. CASE NotFound
  BY <1>2 DEF NotFound, Fail, MInv, Live
<1>3. CASE AlreadyLoaded
  BY <1>3, SkipMerges
<1>4. CASE Cyclic
  BY <1>4, CyclicMerges
<1>5. CASE Unparsable
  BY <1>5 DEF Unparsable, MInv, Live
<1>6. CASE Load
  BY <1>6, LoadMerges
<1>7. CASE Return
  BY <1>7, ReturnMerges
<1>8. CASE Finish
  <2>1. status = "resolving" /\ status' = "ok" /\ UNCHANGED <<text, stack, loaded>> /\ Len(stack) = 1
    BY <1>8 DEF Finish, Fail, Resolving
  <2>2. Merging(text, stack, loaded)
    BY <2>1 DEF MInv, Live
  <2>3. Top = stack[1] /\ stack[1].file = Entry /\ stack[1].next \in Nat
    BY <2>1, <2>2 DEF Top, Last, Merging, Linked, Frames
  <2>4. Nodes(text[Entry]) \in Seq(SourceNodes)
    BY FileNodes, FilesAssumption DEF IInv
  <2>5. stack[1].next > Len(Nodes(text[Entry]))
    BY <1>8, <2>3, <2>4 DEF Finish, More, TopNodes
  <2> QED BY <2>1, <2>2, <2>5 DEF MInv
<1>9. CASE UNCHANGED vars
  BY <1>9 DEF MInv, Live, vars
<1> QED BY <1>1, <1>2, <1>3, <1>4, <1>5, <1>6, <1>7, <1>8, <1>9 DEF Next, Resolve, Ended
-----------------------------------------------------------------------------
(* A program that resolves: one list, of the entry, and all files it leads *)
(* to are loaded.                                                          *)
LEMMA AllLoaded ==
  ASSUME IInv, MInv, Succeeded
  PROVE  /\ Len(stack) = 1 /\ Result = stack[1].out /\ Result \in Seq(MergedNodes)
         /\ Merging(text, stack, loaded) /\ text \in Texts
         /\ Reachable = Leads(text, Entry) /\ Reachable \subseteq loaded
         /\ \A i \in DOMAIN Result : <<1, i>> \in Spots(stack) /\ At(stack, <<1, i>>) = Result[i]
<1>1. /\ Len(stack) = 1 /\ Merging(text, stack, loaded) /\ text \in Texts
      /\ stack[1].next > Len(Nodes(text[Entry]))
  BY DEF Succeeded, MInv, Live, IInv
<1>2. Result = stack[1].out /\ Result \in Seq(MergedNodes) /\ stack[1].file = Entry /\ stack[1].next \in Nat
  BY <1>1 DEF Result, Merging, Frames, Linked
<1>3. Reachable = Leads(text, Entry)
  BY <1>1, FromExplicit, FilesAssumption
<1>4. Imported(text, Entry) \subseteq loaded
  <2>1. ImportedBefore(text, Entry, stack[1].next) \subseteq loaded
    BY <1>1, <1>2 DEF Merging, LoadedClosed
  <2> QED BY <1>1, <1>2, <2>1, AllBefore, FilesAssumption
<1>5. Leads(text, Entry) \subseteq loaded
  <2>1. loaded \in SUBSET Files /\ ClosedUnder(text, loaded)
    BY <1>1 DEF Merging, LoadedClosed
  <2> QED BY <1>4, <2>1, LeadsWithin
<1>6. \A i \in DOMAIN Result : <<1, i>> \in Spots(stack) /\ At(stack, <<1, i>>) = Result[i]
  BY <1>1, <1>2 DEF Spots, At
<1> QED BY <1>1, <1>2, <1>3, <1>5, <1>6

LEMMA OnceMeans ==
  IInv /\ MInv => MergedOnce
<1> SUFFICES ASSUME IInv, MInv, Succeeded, NEW i \in DOMAIN Result, NEW j \in DOMAIN Result,
                    Result[i].file = Result[j].file, Result[i].at = Result[j].at
             PROVE  i = j
  BY DEF MergedOnce
<1>1. /\ <<1, i>> \in Spots(stack) /\ At(stack, <<1, i>>) = Result[i]
      /\ <<1, j>> \in Spots(stack) /\ At(stack, <<1, j>>) = Result[j]
      /\ Once(stack, loaded)
  BY AllLoaded DEF Merging
<1>2. <<1, i>> = <<1, j>>
  BY <1>1 DEF Once, Same
<1> QED BY <1>2

LEMMA CycleMeans ==
  IInv /\ MInv => CycleReported
<1> SUFFICES ASSUME IInv, MInv PROVE CycleReported
  OBVIOUS
<1>1. ASSUME Succeeded, NEW f \in Reachable PROVE f \notin From(f)
  <2>1. f \in loaded /\ loaded \subseteq Files /\ f \notin Leads(text, f) /\ text \in Texts
    BY <1>1, AllLoaded DEF Merging, LoadedClosed
  <2> QED BY <2>1, FromExplicit
<1>2. ASSUME status = "AYM4002" PROVE \E f \in Reachable : f \in From(f)
  <2>1. PICK f \in Leads(text, Entry) : f \in Leads(text, f)
    BY <1>2 DEF MInv
  <2>2. f \in Files /\ text \in Texts
    BY <2>1 DEF Leads, IInv
  <2>3. Reachable = Leads(text, Entry) /\ From(f) = Leads(text, f)
    BY <2>2, FromExplicit, FilesAssumption
  <2> QED BY <2>1, <2>3
<1> QED BY <1>1, <1>2 DEF CycleReported

LEMMA OrderMeans ==
  IInv /\ MInv => ImportsFirst
<1> SUFFICES ASSUME IInv, MInv, Succeeded, NEW i \in DOMAIN Result, NEW j \in DOMAIN Result,
                    NEW k \in 1..(Result[i].at - 1),
                    Nodes(text[Result[i].file])[k].node = "import",
                    Result[j].file = Nodes(text[Result[i].file])[k].file
                      \/ Result[j].file \in From(Nodes(text[Result[i].file])[k].file)
             PROVE  j < i
  BY DEF ImportsFirst
<1> DEFINE f == Result[i].file
           h == Nodes(text[f])[k].file
<1>1. /\ <<1, i>> \in Spots(stack) /\ At(stack, <<1, i>>) = Result[i]
      /\ <<1, j>> \in Spots(stack) /\ At(stack, <<1, j>>) = Result[j]
      /\ Ordered(text, stack) /\ Known(text, stack, loaded)
      /\ Result \in Seq(MergedNodes) /\ text \in Texts
  BY AllLoaded DEF Merging
<1>2. Result[i] \in MergedNodes /\ Result[j] \in MergedNodes /\ i \in Nat /\ j \in Nat
  BY <1>1
<1>3. f \in Files /\ Result[j].file \in Files /\ Result[i].at \in Nat
  BY <1>2 DEF MergedNodes
<1>4. Nodes(text[f]) \in Seq(SourceNodes) /\ Result[i].at \in DOMAIN Nodes(text[f])
  BY <1>1, <1>3, FileNodes DEF Known, DeclsOf
<1>5. k \in DOMAIN Nodes(text[f])
  BY <1>3, <1>4
<1>6. h \in Files /\ ImportsAt(text, f, k, h)
  <2>1. Nodes(text[f])[k] \in SourceNodes
    BY <1>4, <1>5
  <2> QED BY <1>5, <2>1 DEF ImportsAt, SourceNodes
<1>7. h \in ImportedBefore(text, f, Result[i].at)
  BY <1>6 DEF ImportedBefore
<1>8. From(h) = Leads(text, h)
  BY <1>1, <1>6, FromExplicit
<1>9. Result[j].file \in Brought(text, f, Result[i].at)
  BY <1>3, <1>7, <1>8 DEF Brought
<1>10. Ahead(<<1, j>>, <<1, i>>)
  BY <1>1, <1>9 DEF Ordered
<1> QED BY <1>2, <1>10 DEF Ahead

LEMMA CompleteMeans ==
  IInv /\ MInv => NothingLost
<1> SUFFICES ASSUME IInv, MInv, Succeeded, \A f \in Reachable \cup {Entry} : AllWhole(f),
                    NEW f \in Reachable \cup {Entry}, NEW i \in Decls(f)
             PROVE  \E j \in DOMAIN Result : Result[j].file = f /\ Result[j].at = i
  BY DEF NothingLost
<1>1. /\ Len(stack) = 1 /\ Result = stack[1].out /\ Result \in Seq(MergedNodes)
      /\ Merging(text, stack, loaded) /\ text \in Texts
      /\ Reachable = Leads(text, Entry) /\ Reachable \subseteq loaded
  BY AllLoaded
<1>2. Wholly(text)
  BY <1>1 DEF Wholly, AllWhole
<1>3. i \in DeclsOf(text, f)
  BY DEF Decls, DeclsOf
<1>4. \E p \in Spots(stack) : Is(At(stack, p), f, i)
  <2>1. CASE f \in Reachable
    BY <1>1, <1>2, <1>3, <2>1 DEF Merging, Complete
  <2>2. CASE f = Entry
    <3>1. Nodes(text[Entry]) \in Seq(SourceNodes)
      BY <1>1, FileNodes, FilesAssumption
    <3>2. stack[1].file = Entry /\ stack[1].next > Len(Nodes(text[Entry])) /\ stack[1].next \in Nat
      BY <1>1 DEF MInv, Succeeded, Merging, Linked, Frames
    <3>3. i < stack[1].next
      BY <1>3, <2>2, <3>1, <3>2 DEF DeclsOf
    <3> QED BY <1>1, <1>2, <1>3, <2>2, <3>2, <3>3 DEF Merging, Complete
  <2> QED BY <2>1, <2>2
<1>5. PICK p \in Spots(stack) : Is(At(stack, p), f, i)
  BY <1>4
<1>6. p[1] = 1 /\ p[2] \in 1..Len(Result)
  BY <1>1 DEF Spots
<1> QED BY <1>1, <1>5, <1>6 DEF At, Is

(* No declaration is merged twice, however many ways lead to its module.   *)
THEOREM EachMergedOnce ==
  Spec => []MergedOnce
BY OnceMeans, Start, Inductive, MergingStart, MergingInductive, PTL DEF Spec

(* AYM4002 is reported for a cycle only, and no program with one passes.   *)
THEOREM CyclesReported ==
  Spec => []CycleReported
BY CycleMeans, Start, Inductive, MergingStart, MergingInductive, PTL DEF Spec

(* All that a file's imports bring stands before what the file declares    *)
(* after them.                                                             *)
THEOREM ImportsComeFirst ==
  Spec => []ImportsFirst
BY OrderMeans, Start, Inductive, MergingStart, MergingInductive, PTL DEF Spec

(* Without selective imports, every declaration of every file the entry    *)
(* leads to is in the program.                                             *)
THEOREM NoneLost ==
  Spec => []NothingLost
BY CompleteMeans, Start, Inductive, MergingStart, MergingInductive, PTL DEF Spec
=============================================================================
