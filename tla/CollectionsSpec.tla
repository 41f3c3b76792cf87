-------------------------- MODULE CollectionsSpec --------------------------
(***************************************************************************)
(* What a program may rely on of lists and maps, without lengths,          *)
(* capacities or blocks of memory: a list is a sequence, a map a function  *)
(* from keys to entries.  When memory runs out a call adds nothing and     *)
(* changes nothing that was there.                                         *)
(***************************************************************************)
EXTENDS Integers, Sequences, SequencesExt

CONSTANTS Handles, Keys, Values

VARIABLES
  lists, dicts,   \* the lists and maps the program can reach, by their handles
  answer,         \* what the last call returned or threw
  outages         \* how often memory has run out

vars == <<lists, dicts, answer, outages>>

Returned(kind, is) == [kind |-> kind, is |-> is]
Answers(kind, is) == answer' = Returned(kind, is)
Errors == {"VACIO", "INDICE", "CLAVE"}

Init == lists = << >> /\ dicts = << >> /\ answer = Returned("none", 0) /\ outages = 0

Fits == UNCHANGED outages
RunsOut(n) == outages' = outages + n

Refuses == Fits /\ \E kind \in Errors \cup {"ignored"} : Answers(kind, 0)
NoRoom == RunsOut(1) /\ (Answers("no memory", 0) \/ \E x \in DOMAIN lists : Answers("list", x))
Fails == UNCHANGED <<lists, dicts>> /\ (Refuses \/ NoRoom)

(* A list comes to be, changes, or is given up; the others stay.           *)
Others(x) == \A y \in DOMAIN lists \ {x} : y \in DOMAIN lists' /\ lists'[y] = lists[y]
New(x) == x \notin DOMAIN lists /\ DOMAIN lists' = DOMAIN lists \cup {x} /\ Others(x)
Becomes(x, s) == DOMAIN lists' = DOMAIN lists /\ lists'[x] = s /\ Others(x)

Fresh(x) == New(x) /\ Fits /\ Range(lists'[x]) \subseteq {0}
Push(x) == Fits /\ Answers("list", x) /\ \E v \in Values : Becomes(x, Append(lists[x], v))
Set(x) ==
  /\ Fits /\ answer'.kind = "value"
  /\ \E i \in DOMAIN lists[x] : Becomes(x, [lists[x] EXCEPT ![i] = answer'.is])
Pop(x) == Fits /\ lists[x] # << >> /\ Answers("value", Last(lists[x])) /\ Becomes(x, Front(lists[x]))
RemoveAny(x) ==
  /\ Fits
  /\ \E i \in DOMAIN lists[x] :
       Answers("value", lists[x][i]) /\ Becomes(x, RemoveAt(lists[x], i))
Free(x) ==
  /\ Fits /\ Answers("none", 0)
  /\ DOMAIN lists' = DOMAIN lists \ {x} /\ Others(x)

Rearranges(s, t) == \E f \in Bijection(DOMAIN s, DOMAIN t) : \A i \in DOMAIN s : s[i] = t[f[i]]
Sorted(x, y) ==
  /\ New(y) /\ Fits
  /\ Rearranges(lists'[y], lists[x])
  /\ \A i, j \in DOMAIN lists'[y] : i < j => lists'[y][i] <= lists'[y][j]

(* The first of each value; memory that runs out costs as many of them.    *)
Unique(x, y) ==
  /\ New(y) /\ outages' >= outages
  /\ IsInjective(lists'[y]) /\ Range(lists'[y]) \subseteq Range(lists[x])
  /\ outages' = outages =>
       /\ Range(lists'[y]) = Range(lists[x])
       /\ \A i, j \in DOMAIN lists'[y] : i < j =>
            \E k \in DOMAIN lists[x] :
              lists[x][k] = lists'[y][i] /\ \A l \in 1..k : lists[x][l] # lists'[y][j]

ListCall ==
  /\ UNCHANGED dicts
  /\ \/ \E x \in Handles : Fresh(x) /\ Answers("list", x)
     \/ \E x \in DOMAIN lists : Push(x) \/ Set(x) \/ Pop(x) \/ RemoveAny(x) \/ Free(x)
     \/ \E x \in DOMAIN lists, y \in Handles : (Sorted(x, y) \/ Unique(x, y)) /\ Answers("list", y)

(* A list made from what a function of the program returned.               *)
Computed == UNCHANGED <<dicts, outages>> /\ \E y \in Handles : New(y) /\ Answers("made", y)
Reduced == Fits /\ UNCHANGED <<lists, dicts>> /\ answer'.kind = "made"

(* The function of such a call is called, returns or throws; memory may    *)
(* run out for the list that is being made.                                *)
Between == UNCHANGED <<lists, dicts>> /\ answer'.kind \in {"calling", "none"} /\ (Fits \/ RunsOut(1))

Binds(m, d) == dicts' = [n \in DOMAIN dicts \cup {m} |-> IF n = m THEN d ELSE dicts[n]]
NewMap(m) == m \notin DOMAIN dicts /\ Binds(m, << >>) /\ Answers("map", m)
Put(m) ==
  \E k \in Keys, v \in Values, str \in BOOLEAN :
    /\ Binds(m, [l \in DOMAIN dicts[m] \cup {k} |->
                   IF l = k THEN [value |-> v, str |-> str] ELSE dicts[m][l]])
    /\ Answers("value", v)
Delete(m) ==
  \E k \in DOMAIN dicts[m] :
    /\ Binds(m, [l \in DOMAIN dicts[m] \ {k} |-> dicts[m][l]])
    /\ Answers("value", dicts[m][k].value)
Finds(m) == UNCHANGED dicts /\ \E k \in DOMAIN dicts[m] : Answers("value", dicts[m][k].value)
MapCall ==
  /\ Fits /\ UNCHANGED lists
  /\ \/ \E m \in Handles : NewMap(m)
     \/ \E m \in DOMAIN dicts : Put(m) \/ Delete(m) \/ Finds(m)

(* The values of a map, as a list: one for each key.                       *)
Listed ==
  /\ Fits /\ UNCHANGED dicts
  /\ \E m \in DOMAIN dicts, x \in Handles :
       /\ New(x) /\ Answers("list", x)
       /\ \E f \in Bijection(DOMAIN lists'[x], DOMAIN dicts[m]) :
            \A i \in DOMAIN f : lists'[x][i] = dicts[m][f[i]].value

Next == Fails \/ ListCall \/ Computed \/ Reduced \/ Between \/ MapCall \/ Listed

Spec == Init /\ [][Next]_vars
=============================================================================
