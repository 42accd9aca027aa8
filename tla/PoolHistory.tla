----------------------------- MODULE PoolHistory -----------------------------
(***************************************************************************)
(* TokenPool with two history variables that record what GitHub asked for, *)
(* so that what the pool does with a token can be related to it.  They     *)
(* constrain nothing.                                                      *)
(***************************************************************************)
EXTENDS TokenPool

VARIABLES
  owed,     \* the longest rest asked for each token the pool holds
  rejected  \* tokens reported since time moved or the pool was replaced

hvars == <<pool, current, refreshCh, active, caller, refresher, owed, rejected>>

Longer(d, e) == IF d = Forever \/ e = Forever THEN Forever
                ELSE IF d > e THEN d ELSE e

Report(t, until) ==
  /\ owed' = [owed EXCEPT ![t] = IF t \in PoolTokens THEN Longer(@, until)
                                                     ELSE @]
  /\ rejected' = rejected \cup (PoolTokens \cap {t})

HExhaust(c) ==
  Exhaust(c) /\ Report(caller[c].tok, ExhaustUntil(caller[c].reset))

HInvalidateAuth(c) ==
  InvalidateAuth(c) /\ Report(caller[c].tok, InvalidUntil(caller[c].tok))

\* Only the PAT can survive a refresh; what GitHub said of it still holds.
HRefreshSucceeds ==
  /\ RefreshSucceeds
  /\ owed' = [t \in Tokens |-> IF IsPAT(t) THEN owed[t] ELSE Lapsed]
  /\ rejected' = {}

HTick ==
  /\ Tick
  /\ owed' = [t \in Tokens |-> Age(owed[t])]
  /\ rejected' = {}

\* The steps that carry no news about a token.
Quiet ==
  /\ \/ \E c \in Callers :
          \/ Begin(c) \/ Cancelled(c) \/ Choose(c) \/ NoTokens(c)
          \/ Settled(c) \/ RateLimited(c) \/ Unauthorized(c)
          \/ SignalRefresh(c) \/ RecountAuth(c) \/ RecountLimit(c)
          \/ BackedOff(c)
     \/ RefreshTick \/ Notified \/ RefreshFails \/ ObserveDropped
     \/ StopRefresh
     \/ \E i \in Churn : InstallationEvent(i)
  /\ UNCHANGED <<owed, rejected>>

HInit ==
  /\ Init
  /\ owed = [t \in Tokens |-> Lapsed]
  /\ rejected = {}

HNext ==
  \/ Quiet
  \/ \E c \in Callers : HExhaust(c) \/ HInvalidateAuth(c)
  \/ HRefreshSucceeds
  \/ HTick

HSpec == HInit /\ [][HNext]_hvars

-----------------------------------------------------------------------------
(* Properties *)

\* A token that any goroutine has reported is selectable by none until time
\* has moved or the pool has been replaced, however the reports of several
\* goroutines and the refresh interleave: rotation cannot spin on it, and the
\* attempts of a call with no time passing present different tokens.
RejectedRests ==
  \A i \in DOMAIN pool : pool[i].tok \in rejected => ~Selectable(pool[i])

\* A token is selectable only once the longest rest GitHub asked of it is over:
\* "the token only re-enters rotation when it is genuinely usable"
\* (tokenpool.go:72).  Two goroutines that present one token refute it: the report
\* that comes last replaces the rest, be it the shorter one.
HonoursReset ==
  \A i \in DOMAIN pool : owed[pool[i].tok] # Lapsed => ~Selectable(pool[i])

=============================================================================
