----------------------------- MODULE MCTokenPool -----------------------------
(* TLC instances of TokenPool. *)
EXTENDS TokenPool, TLC

CONSTANTS a, b

\* Goroutines are interchangeable in the safety runs.
CallerSymmetry == Permutations(Callers)

=============================================================================
