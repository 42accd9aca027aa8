-------------------------------- MODULE MCScorer --------------------------------
(* TLC instances of Scorer. *)
EXTENDS Scorer, TLC

CONSTANTS s1, s2, a, b, c

=============================================================================
