------------------------------ MODULE Ascending ------------------------------
(***************************************************************************)
(* What a loop over a vector that keeps some of its elements keeps.        *)
(***************************************************************************)
EXTENDS Naturals, Sequences

(* The members of S among 1..n, in order. *)
Ascending(S, n) ==
  LET upto[i \in 0..n] ==
        IF i = 0 THEN << >> ELSE IF i \in S THEN Append(upto[i - 1], i) ELSE upto[i - 1]
  IN  upto[n]
=============================================================================
