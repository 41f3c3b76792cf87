---------------------------- MODULE TrySemantics ----------------------------
(***************************************************************************)
(* What the language promises about yant'aña / katjaña / tukuyawi / pantja *)
(* (docs/exceptions.md), with no handler, stack or register in sight.      *)
(*                                                                         *)
(* `regions` is the sequence of try statements control is inside of,       *)
(* outermost first; `signal` is what is making control leave them.         *)
(***************************************************************************)
EXTENDS Naturals, Sequences

CONSTANTS
  Tries,     \* the try statements of the program
  Excs       \* the exceptions it can raise

VARIABLES regions, signal

absVars == <<regions, signal>>

(* The signals: none, an exception in flight, an exit (break, continue or  *)
(* return) to the nesting level `depth`, and the end of the program.       *)
Signal(kind, exc, depth) == [kind |-> kind, exc |-> exc, depth |-> depth]
None == Signal("none", 0, 0)
Over == Signal("over", 0, 0)
Raising(e) == Signal("raise", e, 0)
Leaving(d) == Signal("leave", 0, d)

Phases == {"body", "catch", "fin"}
Catches == {"none", "typed", "any"}

Top == regions[Len(regions)]
Pop == SubSeq(regions, 1, Len(regions) - 1)
SetTop(phase, then) ==
  [regions EXCEPT ![Len(regions)].phase = phase, ![Len(regions)].then = then]

(* A region still owes its tukuyawi block until that block has begun.      *)
OwesFinally(r) == r.fin /\ r.phase # "fin"
MayCatch(r) == r.phase = "body" /\ r.cat # "none"
-----------------------------------------------------------------------------
Init == regions = << >> /\ signal = None

Enter(t, cat, fin) ==
  /\ signal = None
  /\ regions' = Append(regions, [try |-> t, phase |-> "body", cat |-> cat,
                                 fin |-> fin, then |-> None])
  /\ UNCHANGED signal

(* The body or the catch block ends normally, then the tukuyawi block,     *)
(* which hands control back to the signal that was in flight.              *)
Finish ==
  /\ signal = None /\ regions # << >>
  /\ IF OwesFinally(Top)
       THEN regions' = SetTop("fin", None) /\ UNCHANGED signal
       ELSE regions' = Pop /\ signal' = Top.then

Raise(e) == signal = None /\ signal' = Raising(e) /\ UNCHANGED regions

Leave(d) ==
  /\ signal = None /\ d <= Len(regions)
  /\ signal' = Leaving(d)
  /\ UNCHANGED regions

(* A signal interrupts the innermost region that has something for it: a   *)
(* katjaña block takes the exception, or a tukuyawi block runs before the  *)
(* signal goes on.                                                         *)
Catch ==
  /\ signal.kind = "raise" /\ regions # << >> /\ MayCatch(Top)
  /\ regions' = SetTop("catch", None)
  /\ signal' = None

(* Regions a signal has nothing to run in are dropped.  An exception may   *)
(* leave a typed katjaña that does not match, never a catch-all.           *)
CatchesAll(r) == r.phase = "body" /\ r.cat = "any"
Idle(r) == ~OwesFinally(r) /\ (signal.kind = "raise" => ~CatchesAll(r))

(* A tukuyawi is the next thing a signal runs, past regions it drops.      *)
RunFinally ==
  /\ signal.kind \in {"raise", "leave"}
  /\ \E k \in 1..Len(regions) :
       /\ OwesFinally(regions[k])
       /\ signal.kind = "raise" => ~CatchesAll(regions[k])
       /\ signal.kind = "leave" => k > signal.depth
       /\ \A i \in (k + 1)..Len(regions) : Idle(regions[i])
       /\ regions' = Append(SubSeq(regions, 1, k - 1),
                            [regions[k] EXCEPT !.phase = "fin", !.then = signal])
  /\ signal' = None

DropTo(k) ==
  /\ \A i \in (k + 1)..Len(regions) : Idle(regions[i])
  /\ regions' = SubSeq(regions, 1, k)

Drop ==
  /\ signal.kind \in {"raise", "leave"}
  /\ \E k \in 0..Len(regions) :
       /\ signal.kind = "leave" => k >= signal.depth
       /\ DropTo(k)
       /\ signal' = IF signal.kind = "leave" /\ k = signal.depth THEN None ELSE signal

(* The program ends: normally, outside every try, or because nothing       *)
(* catches the exception, and then no tukuyawi block is still owed.        *)
End ==
  /\ \/ signal = None /\ regions = << >>
     \/ signal.kind = "raise" /\ \A i \in 1..Len(regions) : Idle(regions[i])
  /\ regions' = << >>
  /\ signal' = Over

Next ==
  \/ \E t \in Tries, cat \in Catches, fin \in BOOLEAN : Enter(t, cat, fin)
  \/ Finish
  \/ \E e \in Excs : Raise(e)
  \/ \E d \in 0..Len(regions) : Leave(d)
  \/ Catch \/ RunFinally \/ Drop \/ End

Spec == Init /\ [][Next]_absVars
=============================================================================
