---------------------------- MODULE MCPoolHistory ----------------------------
(* TLC instances of PoolHistory. *)
EXTENDS PoolHistory, TLC

CONSTANTS a, b

\* Goroutines are interchangeable in the safety runs.
CallerSymmetry == Permutations(Callers)

=============================================================================
