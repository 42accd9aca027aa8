------------------------------ MODULE TokenPool ------------------------------
(***************************************************************************)
(* The GitHub token pool of pkg/github: TokenPool (tokenpool.go), the      *)
(* callers that rotate through it (poolDo in pool_client.go), the          *)
(* goroutine that re-mints it (pool_refresh.go) and the webhook that asks  *)
(* for a refresh.                                                          *)
(*                                                                         *)
(* Time is kept as countdowns: a deadline d is represented by d - now, and *)
(* Tick ages every deadline.  No clock is bounded, so the liveness runs    *)
(* range over unbounded time.  Lapsed (-1) is a deadline that has passed   *)
(* or was never set; Forever (-2) is one that never comes: the zero        *)
(* ExpiresAt of a PAT, and the 2099 sentinel of a permanent invalidation.  *)
(***************************************************************************)
EXTENDS Integers, Sequences, FiniteSets

CONSTANTS
  Callers,         \* goroutines that may be inside poolDo
  Installs,        \* GitHub App installation ids, positive
  Churn,           \* bound: the installations whose webhooks arrive
  HasPAT,          \* whether GITHUB_TOKEN is configured
  Gens,            \* names for the successive tokens of an installation
  MaxPoolRetries,  \* maxPoolRetries
  TokenLife,       \* lifetime of a minted installation token
  ExpiryBuffer,    \* tokenExpiryBuffer
  ResetFallback,   \* tokenResetFallback
  RefreshDedup,    \* refreshDedup
  Resets           \* resets GitHub may announce; 0: none, or already past

ASSUME PoolAssumption ==
  /\ IsFiniteSet(Installs) /\ Installs \subseteq Nat \ {0}
  /\ Churn \subseteq Installs
  /\ HasPAT \in BOOLEAN
  /\ Gens # {}
  /\ MaxPoolRetries \in Nat \ {0}
  /\ TokenLife \in Nat
  /\ ExpiryBuffer \in Nat
  /\ ResetFallback \in Nat \ {0}
  /\ RefreshDedup \in Nat
  /\ Resets \subseteq Nat

VARIABLES
  pool,        \* TokenPool.entries with exhausted and exhaustedUntil alongside
  current,     \* TokenPool.current, the 0-based rotation cursor
  refreshCh,   \* the one-slot refresh channel holds a signal
  active,      \* installations the store lists as active
  caller,      \* the progress of each goroutine through poolDo
  refresher    \* the progress of runRefreshLoop

vars == <<pool, current, refreshCh, active, caller, refresher>>

-----------------------------------------------------------------------------
(* Values *)

Lapsed == -1
Forever == -2
Age(d) == IF d >= 0 THEN d - 1 ELSE d

\* An entry with installation id 0 is the PAT; its token string never changes.
PAT == <<0, 0>>
Tokens == (Installs \X Gens) \cup {PAT}
IsPAT(t) == t[1] = 0

\* until - now, for an exhausted entry; an entry whose exhaustion has lapsed
\* is treated by every reader as one that was never exhausted.
Deadlines == {Lapsed, Forever} \cup Nat
Entry == [tok : Tokens, left : Deadlines, rest : Deadlines]

CallerPC == {"idle", "choose", "call", "limited", "unauth", "signal",
             "recountAuth", "recountLimit", "backoff"}
Call == [pc : CallerPC, tok : Tokens, attempt : 0..MaxPoolRetries,
         reset : Deadlines]
Idle == [pc |-> "idle", tok |-> PAT, attempt |-> 0, reset |-> Lapsed]

Refresher == [pc : {"wait", "minting", "replaced", "stopped"},
              quiet : Deadlines, dropped : SUBSET Tokens]

-----------------------------------------------------------------------------
(* The pool's own predicates *)

PoolTokens == {pool[i].tok : i \in DOMAIN pool}

\* Token(): the entry is not exhausted, or its reset has passed.
Selectable(e) == e.rest = Lapsed

\* now.Add(tokenExpiryBuffer).After(expiresAt)
NearExpiry(e) == e.left # Forever /\ e.left < ExpiryBuffer

\* now.After(expiresAt)
Expired(e) == e.left = Lapsed

ActiveEntries == {i \in DOMAIN pool : Selectable(pool[i]) /\ ~Expired(pool[i])}
ActiveCount == Cardinality(ActiveEntries)

NeedsRefresh == \E i \in DOMAIN pool : NearExpiry(pool[i])

\* The k-th entry Token() visits from the cursor, and the first selectable one.
Visited(k) == ((current + k) % Len(pool)) + 1
FirstSelectable(k) ==
  /\ Selectable(pool[Visited(k)])
  /\ \A j \in 0..(Len(pool) - 1) : j < k => ~Selectable(pool[Visited(j)])

\* Exhaust and InvalidateAuth: mark the entry of one token; a token the pool
\* no longer holds marks nothing.
Mark(t, until) ==
  [i \in DOMAIN pool |->
     IF pool[i].tok = t THEN [pool[i] EXCEPT !.rest = until] ELSE pool[i]]

\* A zero or past reset becomes the fallback window.
\* ExhaustUntil_NoFallback is a seeded fault: the reset is taken as it is.
ExhaustUntil_NoFallback(reset) == IF reset > 0 THEN reset ELSE Lapsed
ExhaustUntil(reset) == IF reset > 0 THEN reset ELSE ResetFallback

\* Only an installation token can be minted again.
InvalidUntil(t) == IF IsPAT(t) THEN Forever ELSE ResetFallback

-----------------------------------------------------------------------------
(* What mintPoolEntries returns *)

\* Tokens somebody may still present, or drop from the client cache.
Presented == {caller[c].tok : c \in {d \in Callers :
                      caller[d].pc \in {"call", "limited", "unauth"}}}
TokensInUse == PoolTokens \cup Presented \cup refresher.dropped

\* GitHub never issues a token string twice.  A name outside `used` stands
\* for a new one.
Unused(i, used) == {g \in Gens : <<i, g>> \notin used}

\* One fresh token per installation in S, and the PAT.
Mintable(S, used) ==
  {[tok |-> <<i, CHOOSE g \in Unused(i, used) : TRUE>>,
    left |-> TokenLife, rest |-> Lapsed] : i \in S}
  \cup (IF HasPAT THEN {[tok |-> PAT, left |-> Forever, rest |-> Lapsed]}
                  ELSE {})

\* The query has no ORDER BY, so installations come in any order; the PAT is
\* appended last.
PATLast(es) == \A i, j \in DOMAIN es : i < j => ~IsPAT(es[i].tok)

ListLength(S) == Cardinality(S) + (IF HasPAT THEN 1 ELSE 0)

\* The lists of exactly these entries.
Listings(S, used) ==
  {es \in [1..ListLength(S) -> Mintable(S, used)] :
     /\ \A e \in Mintable(S, used) : \E i \in DOMAIN es : es[i] = e
     /\ PATLast(es)}

-----------------------------------------------------------------------------
(* poolDo, one goroutine *)

Goto(c, pc) == caller' = [caller EXCEPT ![c].pc = pc]
Return(c) == caller' = [caller EXCEPT ![c] = Idle]

\* The token and its reset are not looked at again in this attempt.
Forget(c, pc) ==
  caller' = [caller EXCEPT ![c] = [Idle EXCEPT !.pc = pc,
                                               !.attempt = caller[c].attempt]]

Begin(c) ==
  /\ caller[c].pc = "idle"
  /\ Goto(c, "choose")
  /\ UNCHANGED <<pool, current, refreshCh, active, refresher>>

\* ctx is done at the top of the loop, or during the backoff.
Cancelled(c) ==
  /\ caller[c].pc \in {"choose", "backoff"}
  /\ Return(c)
  /\ UNCHANGED <<pool, current, refreshCh, active, refresher>>

\* Token() finds nothing selectable: ErrNoTokens.  The cursor has gone once
\* around and is where it was.
NoTokens(c) ==
  /\ caller[c].pc = "choose"
  /\ \A i \in DOMAIN pool : ~Selectable(pool[i])
  /\ Return(c)
  /\ UNCHANGED <<pool, current, refreshCh, active, refresher>>

\* Token() returns the next selectable entry in rotation, near its expiry or
\* not; one near expiry also signals the refresher, without blocking.
Choose(c) ==
  /\ caller[c].pc = "choose"
  /\ \E k \in 0..(Len(pool) - 1) :
       LET e == pool[Visited(k)] IN
       /\ FirstSelectable(k)
       /\ current' = (current + k + 1) % Len(pool)
       /\ refreshCh' = (refreshCh \/ NearExpiry(e))
       /\ caller' = [caller EXCEPT ![c].pc = "call", ![c].tok = e.tok]
  /\ UNCHANGED <<pool, active, refresher>>

\* GitHub's answer is unconstrained: a credential may be revoked, rotated or
\* expired, a limit hit, at any request.
\* fn(api) succeeds, or fails with an error that is neither 401 nor a limit.
Settled(c) ==
  /\ caller[c].pc = "call"
  /\ Return(c)
  /\ UNCHANGED <<pool, current, refreshCh, active, refresher>>

\* fn(api) fails with a rate limit and the reset GitHub announced.
RateLimited(c) ==
  /\ caller[c].pc = "call"
  /\ \E r \in Resets :
       caller' = [caller EXCEPT ![c].pc = "limited", ![c].reset = r]
  /\ UNCHANGED <<pool, current, refreshCh, active, refresher>>

\* fn(api) fails with 401.
Unauthorized(c) ==
  /\ caller[c].pc = "call"
  /\ Goto(c, "unauth")
  /\ UNCHANGED <<pool, current, refreshCh, active, refresher>>

Exhaust(c) ==
  LET t == caller[c].tok
      until == ExhaustUntil(caller[c].reset) IN
  /\ caller[c].pc = "limited"
  /\ pool' = Mark(t, until)
  /\ Forget(c, "recountLimit")
  /\ UNCHANGED <<current, refreshCh, active, refresher>>

InvalidateAuth(c) ==
  LET t == caller[c].tok IN
  /\ caller[c].pc = "unauth"
  /\ pool' = Mark(t, InvalidUntil(t))
  /\ Forget(c, "signal")
  /\ UNCHANGED <<current, refreshCh, active, refresher>>

SignalRefresh(c) ==
  /\ caller[c].pc = "signal"
  /\ refreshCh' = TRUE
  /\ Goto(c, "recountAuth")
  /\ UNCHANGED <<pool, current, active, refresher>>

\* NextAttempt_Unbounded is a seeded fault: the attempt is not counted.
NextAttempt_Unbounded(c) ==
  caller' = [caller EXCEPT ![c] = [Idle EXCEPT !.pc = "choose"]]

\* The loop's post statement and its bound: "retries exhausted" after the last.
NextAttempt(c) ==
  IF caller[c].attempt + 1 < MaxPoolRetries
  THEN caller' = [caller EXCEPT ![c] = [Idle EXCEPT !.pc = "choose",
                                          !.attempt = caller[c].attempt + 1]]
  ELSE Return(c)

\* "all tokens invalid", or rotate at once.
RecountAuth(c) ==
  /\ caller[c].pc = "recountAuth"
  /\ IF ActiveCount = 0 THEN Return(c) ELSE NextAttempt(c)
  /\ UNCHANGED <<pool, current, refreshCh, active, refresher>>

\* "all tokens exhausted", or back off before the next attempt.
RecountLimit(c) ==
  /\ caller[c].pc = "recountLimit"
  /\ IF ActiveCount = 0 THEN Return(c) ELSE Goto(c, "backoff")
  /\ UNCHANGED <<pool, current, refreshCh, active, refresher>>

BackedOff(c) ==
  /\ caller[c].pc = "backoff"
  /\ NextAttempt(c)
  /\ UNCHANGED <<pool, current, refreshCh, active, refresher>>

CallerStep(c) ==
  \/ Choose(c) \/ NoTokens(c)
  \/ Settled(c) \/ RateLimited(c) \/ Unauthorized(c)
  \/ Exhaust(c) \/ InvalidateAuth(c) \/ SignalRefresh(c)
  \/ RecountAuth(c) \/ RecountLimit(c) \/ BackedOff(c)

-----------------------------------------------------------------------------
(* runRefreshLoop *)

\* doRefresh's first test: less than refreshDedup since the last refresh.
Deduped == refresher.quiet > 0

\* The ticker fires.  A tick that finds nothing near expiry, or is deduped,
\* changes nothing.
RefreshTick ==
  /\ refresher.pc = "wait"
  /\ NeedsRefresh
  /\ ~Deduped
  /\ refresher' = [refresher EXCEPT !.pc = "minting"]
  /\ UNCHANGED <<pool, current, refreshCh, active, caller>>

\* A signal is received; it is consumed even when the refresh is deduped.
Notified ==
  /\ refresher.pc = "wait"
  /\ refreshCh
  /\ refreshCh' = FALSE
  /\ refresher' = IF Deduped THEN refresher
                  ELSE [refresher EXCEPT !.pc = "minting"]
  /\ UNCHANGED <<pool, current, active, caller>>

\* refreshFn fails or returns no entries: the pool and lastRefresh stay.
RefreshFails ==
  /\ refresher.pc = "minting"
  /\ refresher' = [refresher EXCEPT !.pc = "wait"]
  /\ UNCHANGED <<pool, current, refreshCh, active, caller>>

\* Replace_KeepsCursor is a seeded fault: the cursor survives the swap.
Replace_KeepsCursor(es) ==
  /\ pool' = es
  /\ UNCHANGED current

\* Replace: the new entries, the cursor at the start, all exhaustion cleared.
Replace(es) ==
  /\ pool' = es
  /\ current' = 0

\* doRefresh keeps the pool it has when it gets no entries.
\* Acceptable_Any is a seeded fault: the test is missing.
Acceptable_Any(es) == TRUE
Acceptable(es) == es # <<>>

\* What Replace returns: the tokens that do not survive.
\* Dropped_All is a seeded fault: survivors are reported as dropped.
Dropped_All(es) == PoolTokens
Dropped(es) == PoolTokens \ {es[i].tok : i \in DOMAIN es}

\* refreshFn returns tokens for the installations S, and the PAT.
RefreshWith(S) ==
  /\ refresher.pc = "minting"
  /\ \A i \in S : Unused(i, TokensInUse) # {}
  /\ \E es \in Listings(S, TokensInUse) :
       /\ Acceptable(es)
       /\ Replace(es)
       /\ refresher' = [refresher EXCEPT !.pc = "replaced",
                                         !.dropped = Dropped(es)]
  /\ UNCHANGED <<refreshCh, active, caller>>

\* RefreshSucceeds_Suspended is a seeded fault: the query lists suspended
\* installations too.
RefreshSucceeds_Suspended == \E S \in SUBSET Installs : RefreshWith(S)

\* Minting may fail for any of the active installations; those are skipped.
RefreshSucceeds == \E S \in SUBSET active : RefreshWith(S)

\* onDropped = PoolClient.InvalidateTokens, then lastRefresh = now.
ObserveDropped ==
  /\ refresher.pc = "replaced"
  /\ refresher' = [pc |-> "wait", quiet |-> RefreshDedup, dropped |-> {}]
  /\ UNCHANGED <<pool, current, refreshCh, active, caller>>

\* ctx is done: the loop returns.
StopRefresh ==
  /\ refresher.pc = "wait"
  /\ refresher' = [refresher EXCEPT !.pc = "stopped"]
  /\ UNCHANGED <<pool, current, refreshCh, active, caller>>

RefresherStep == RefreshTick \/ Notified \/ RefreshFails \/ RefreshSucceeds
                   \/ ObserveDropped

-----------------------------------------------------------------------------
(* The environment: webhooks, GitHub, time *)

\* An installation webhook: "created" saves the installation, "deleted" and
\* "suspend" suspend it, any other action ("unsuspend" among them) leaves the
\* store alone.  The handler then signals the refresher, without blocking.
InstallationEvent(i) ==
  /\ active' \in {active \cup {i}, active \ {i}, active}
  /\ refreshCh' = TRUE
  /\ UNCHANGED <<pool, current, caller, refresher>>

Tick ==
  /\ pool' = [i \in DOMAIN pool |->
                [pool[i] EXCEPT !.left = Age(@), !.rest = Age(@)]]
  /\ caller' = [c \in Callers |-> [caller[c] EXCEPT !.reset = Age(@)]]
  /\ refresher' = [refresher EXCEPT !.quiet = Age(@)]
  /\ UNCHANGED <<current, refreshCh, active>>

-----------------------------------------------------------------------------
(* buildGitHubClient starts the pool client only with a non-empty pool. *)
Init ==
  /\ active \in SUBSET Installs
  /\ current = 0
  /\ refreshCh = FALSE
  /\ caller = [c \in Callers |-> Idle]
  /\ refresher = [pc |-> "wait", quiet |-> Lapsed, dropped |-> {}]
  /\ \E S \in SUBSET active : pool \in Listings(S, {})
  /\ pool # <<>>

Next ==
  \/ \E c \in Callers : Begin(c) \/ Cancelled(c) \/ CallerStep(c)
  \/ RefresherStep
  \/ StopRefresh
  \/ \E i \in Churn : InstallationEvent(i)
  \/ Tick

Spec == Init /\ [][Next]_vars

\* Every goroutine keeps running, the refresh loop's select keeps serving its
\* ticker and channel, time passes, and minting does not fail for ever.
Fairness ==
  /\ \A c \in Callers : WF_vars(CallerStep(c))
  /\ WF_vars(RefreshTick) /\ WF_vars(Notified) /\ WF_vars(ObserveDropped)
  /\ SF_vars(RefreshSucceeds)
  /\ WF_vars(Tick)

FairSpec == Spec /\ Fairness

-----------------------------------------------------------------------------
(* Properties *)

\* The cursor is an index of the entries (Token() would panic otherwise), and
\* every part of the state has its type.
TypeOK ==
  /\ pool \in Seq(Entry)
  /\ current \in Nat
  /\ pool # <<>> => current < Len(pool)
  /\ refreshCh \in BOOLEAN
  /\ active \subseteq Installs
  /\ caller \in [Callers -> Call]
  /\ refresher \in Refresher

\* A refresh never leaves the service without a token to try: whatever mints
\* fail, the pool it started with is replaced only by a non-empty one.
PoolNeverEmptied == pool # <<>>

\* Every call into the pool ends, whatever GitHub answers and however refreshes
\* and other goroutines interfere.
CallsEnd == \A c \in Callers : caller[c].pc # "idle" ~> caller[c].pc = "idle"

\* A token near its expiry leaves the pool, and so does one of a suspended
\* installation unless it comes back, even when the dedup window swallowed the
\* signal to refresh: only a loop that has been stopped leaves them there.
UnusableLeaves ==
  /\ \A t \in Tokens :
       (\E i \in DOMAIN pool : pool[i].tok = t /\ NearExpiry(pool[i]))
         ~> (t \notin PoolTokens \/ refresher.pc = "stopped")
  /\ \A i \in Installs :
       i \notin active ~> \/ \A t \in PoolTokens : t[1] # i
                          \/ i \in active
                          \/ refresher.pc = "stopped"

=============================================================================
