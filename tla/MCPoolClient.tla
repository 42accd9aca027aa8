----------------------------- MODULE MCPoolClient -----------------------------
(* TokenPool for TLC with its history or with the client cache: each behaviour *)
(* follows one of them and leaves the other at rest.                           *)
EXTENDS PoolHistory, PoolClient, TLC

CONSTANTS a, b

VARIABLE focus

\* Where only reports count, no goroutine gets as far as the cache.
MCInit ==
  /\ HInit /\ clientCache = {}
  /\ \/ focus = "cache" /\ CInit
     \/ focus = "reports" /\ unmemoized = Callers

\* To the cache it does not matter when a reset comes.
ResetsArePast == \A g \in Callers : caller'[g].reset <= 0

MCNext ==
  /\ UNCHANGED focus
  /\ \/ /\ focus = "reports" /\ HNext
        /\ UNCHANGED <<clientCache, unmemoized>>
     \/ /\ focus = "cache" /\ CNext /\ ResetsArePast
        /\ UNCHANGED <<owed, rejected>>

MCSpec == MCInit /\ [][MCNext]_<<focus, hvars, clientCache, unmemoized>>

\* Goroutines are interchangeable.
CallerSymmetry == Permutations(Callers)

=============================================================================
