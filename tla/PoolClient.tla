------------------------------ MODULE PoolClient ------------------------------
(***************************************************************************)
(* PoolClient (pool_client.go): TokenPool together with the cache of one   *)
(* *gh.Client per token.  The cache has a lock of its own, so ghClient     *)
(* takes the token from the pool and memoizes its client in two steps, and *)
(* a refresh may replace the pool and purge the cache in between.          *)
(***************************************************************************)
EXTENDS TokenPool

VARIABLES
  clientCache,  \* the tokens with a memoized client
  unmemoized    \* goroutines between Token() and the cache lookup in ghClient

cvars == <<pool, current, refreshCh, active, caller, refresher, clientCache,
           unmemoized>>

CChoose(c) ==
  /\ Choose(c)
  /\ unmemoized' = unmemoized \cup {c}
  /\ UNCHANGED clientCache

Memoize(c) ==
  /\ c \in unmemoized
  /\ clientCache' = clientCache \cup {caller[c].tok}
  /\ unmemoized' = unmemoized \ {c}
  /\ UNCHANGED vars

\* The request itself needs the client.
CAnswered(c) ==
  /\ c \notin unmemoized
  /\ Settled(c) \/ RateLimited(c) \/ Unauthorized(c)
  /\ UNCHANGED <<clientCache, unmemoized>>

\* onDropped is InvalidateTokens.
CObserveDropped ==
  /\ ObserveDropped
  /\ clientCache' = clientCache \ refresher.dropped
  /\ UNCHANGED unmemoized

\* The steps that do not touch the cache.
CacheUntouched ==
  /\ \/ \E c \in Callers :
          \/ Begin(c) \/ Cancelled(c) \/ NoTokens(c)
          \/ Exhaust(c) \/ InvalidateAuth(c) \/ SignalRefresh(c)
          \/ RecountAuth(c) \/ RecountLimit(c) \/ BackedOff(c)
     \/ RefreshTick \/ Notified \/ RefreshFails \/ RefreshSucceeds
     \/ StopRefresh
     \/ \E i \in Churn : InstallationEvent(i)
     \/ Tick
  /\ UNCHANGED <<clientCache, unmemoized>>

CInit ==
  /\ Init
  /\ clientCache = {}
  /\ unmemoized = {}

CNext ==
  \/ \E c \in Callers : CChoose(c) \/ Memoize(c) \/ CAnswered(c)
  \/ CObserveDropped
  \/ CacheUntouched

CSpec == CInit /\ [][CNext]_cvars

-----------------------------------------------------------------------------
(* Properties *)

\* Every token presented to GitHub has its client in the cache, unless the
\* refresher has just dropped it from the pool: two calls that rotate to the
\* same token share one connection pool.
PresentedIsCached ==
  \A c \in Callers :
    /\ caller[c].pc = "call" /\ c \notin unmemoized
    /\ caller[c].tok \in PoolTokens
    => caller[c].tok \in clientCache

=============================================================================
