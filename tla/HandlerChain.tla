---------------------------- MODULE HandlerChain ----------------------------
(***************************************************************************)
(* The exception registry of the C runtime (runtime/runtime_exceptions.c): *)
(* AymHandler records linked by `prev`, and the static pointer             *)
(* `current_handler`.  Handlers are named in the order of their allocation *)
(* (0 is the null pointer), but a pointer is an address: free gives the    *)
(* address back, calloc may hand it out again, and whoever still holds the *)
(* old pointer then has a pointer to the newer record.  Nothing here knows *)
(* about the compiled program: module Exceptions drives these actions the  *)
(* way the emitted code does.                                              *)
(***************************************************************************)
EXTENDS Naturals, Sequences, FiniteSetsExt

VARIABLES
  heap,      \* every AymHandler ever allocated, in order of allocation
  held,      \* the `exception` field of each of them, 0 when none
  current    \* current_handler

chainVars == <<heap, held, current>>

NULL == 0

ChainInit ==
  /\ heap = << >>
  /\ held = << >>
  /\ current = NULL

(* The addresses calloc may return: one that no allocated record has, used *)
(* before or not.  A new address is named after the handler it is for.     *)
Free ==
  {a \in {heap[g].at : g \in 1..Len(heap)} \cup {Len(heap) + 1} :
     \A g \in 1..Len(heap) : heap[g].at = a => ~heap[g].live}

(* What a pointer to handler h leads to: the newest record at its address. *)
At(h) == Max({g \in 1..Len(heap) : heap[g].at = heap[h].at})
IsLive(h) == h \in 1..Len(heap) /\ heap[At(h)].live
SamePointer(h, g) == h # NULL /\ g # NULL /\ heap[h].at = heap[g].at

(* Mutants: aym_try_pop without the unlinking, aym_try_push without the    *)
(* link to the handler before.                                             *)
TryPopNoUnlink(h) ==
  /\ heap' = [heap EXCEPT ![At(h)].live = FALSE]
  /\ UNCHANGED <<held, current>>
TryPushUnlinked ==
  /\ \E a \in Free :
       heap' = Append(heap, [at |-> a, prev |-> NULL, live |-> TRUE])
  /\ held' = Append(held, NULL)
  /\ current' = Len(heap) + 1

(* aym_try_push: calloc zeroes the record, links it and makes it current.  *)
TryPush ==
  /\ \E a \in Free :
       heap' = Append(heap, [at |-> a, prev |-> current, live |-> TRUE])
  /\ held' = Append(held, NULL)
  /\ current' = Len(heap) + 1

(* aym_try_pop: the chain moves only when the handler is the current one,  *)
(* the memory is released in any case.                                     *)
TryPop(h) ==
  /\ heap' = [heap EXCEPT ![At(h)].live = FALSE]
  /\ current' = IF SamePointer(current, h) THEN heap[At(h)].prev ELSE current
  /\ UNCHANGED held

(* aym_throw with a current_handler: the exception is stored in it, for    *)
(* aym_try_get_exception to read after the longjmp.                        *)
ThrowTo(exc) ==
  /\ held' = [held EXCEPT ![At(current)] = exc]
  /\ UNCHANGED <<heap, current>>
-----------------------------------------------------------------------------
Handler == [at : Nat, prev : Nat, live : BOOLEAN]

(* current_handler and every link are null or lead to a record once        *)
(* allocated, and no two allocated records share an address.               *)
ChainTypeOK ==
  /\ heap \in Seq(Handler) /\ current \in 0..Len(heap)
  /\ \A h \in 1..Len(heap) : heap[h].prev \in 0..Len(heap)
  /\ \A h, g \in 1..Len(heap) : h # g /\ heap[h].at = heap[g].at => ~(heap[h].live /\ heap[g].live)
=============================================================================
