------------------------------ MODULE Pool_proofs ------------------------------
(***************************************************************************)
(* The token pool, for any number of goroutines, installations and any     *)
(* delays: its types, with the bound on its cursor; that a refresh never   *)
(* empties it; that a token anybody has reported rests; and that every     *)
(* token presented to GitHub while the pool holds it has its client in the *)
(* cache.                                                                  *)
(***************************************************************************)
EXTENDS PoolHistory, PoolClient, FiniteSetTheorems, TLAPS

\* Both are needed together: the cursor of an empty pool has no bound, so that
\* it stays an index rests on the pool never being empty.
PoolInv == TypeOK /\ PoolNeverEmptied

LEMMA PATType == PAT \in Tokens /\ IsPAT(PAT)
  BY DEF PAT, Tokens, IsPAT

LEMMA IdleType == Idle \in Call
  BY PATType, PoolAssumption DEF Idle, Call, CallerPC, Deadlines, Lapsed

LEMMA AgeType == ASSUME NEW d \in Deadlines PROVE Age(d) \in Deadlines
  BY DEF Age, Deadlines, Lapsed, Forever

\* Every list of entries that mintPoolEntries can return has the type of a pool.
LEMMA ListingType ==
  ASSUME NEW S \in SUBSET Installs, NEW used,
         \A i \in S : Unused(i, used) # {},
         NEW es \in Listings(S, used)
  PROVE  es \in Seq(Entry)
<1>1. ListLength(S) \in Nat
  <2>1. IsFiniteSet(S)
    BY PoolAssumption, FS_Subset
  <2>2. Cardinality(S) \in Nat
    BY <2>1, FS_CardinalityType
  <2>3. QED
    BY <2>2, PoolAssumption DEF ListLength
<1>2. Mintable(S, used) \subseteq Entry
  <2>1. ASSUME NEW i \in S
        PROVE  [tok |-> <<i, CHOOSE g \in Unused(i, used) : TRUE>>,
                left |-> TokenLife, rest |-> Lapsed] \in Entry
    <3>1. (CHOOSE g \in Unused(i, used) : TRUE) \in Gens
      BY <2>1 DEF Unused
    <3>2. <<i, CHOOSE g \in Unused(i, used) : TRUE>> \in Tokens
      <4> DEFINE g == CHOOSE g \in Unused(i, used) : TRUE
      <4>1. i \in Installs /\ g \in Gens
        BY <2>1, <3>1
      <4> HIDE DEF g
      <4>2. <<i, g>> \in Tokens
        BY <4>1 DEF Tokens
      <4>3. QED
        BY <4>2 DEF g
    <3>3. TokenLife \in Deadlines /\ Lapsed \in Deadlines
      BY PoolAssumption DEF Deadlines
    <3>4. QED
      BY <3>2, <3>3 DEF Entry
  <2>2. [tok |-> PAT, left |-> Forever, rest |-> Lapsed] \in Entry
    BY PATType DEF Entry, Deadlines
  <2>3. QED
    BY <2>1, <2>2 DEF Mintable
<1>3. QED
  BY <1>1, <1>2 DEF Listings

\* Marking an entry changes neither the length nor the type of the pool.
LEMMA MarkType ==
  ASSUME pool \in Seq(Entry), NEW t, NEW until \in Deadlines
  PROVE  /\ Mark(t, until) \in Seq(Entry)
         /\ Len(Mark(t, until)) = Len(pool)
<1>1. DOMAIN pool = 1..Len(pool) /\ Len(pool) \in Nat
  OBVIOUS
<1>2. ASSUME NEW i \in DOMAIN pool
      PROVE  (IF pool[i].tok = t THEN [pool[i] EXCEPT !.rest = until]
              ELSE pool[i]) \in Entry
  <2>1. pool[i] \in Entry
    BY <1>1, <1>2
  <2>2. QED
    BY <2>1 DEF Entry
<1>3. QED
  BY <1>1, <1>2 DEF Mark

LEMMA EntryTok ==
  ASSUME NEW p \in Seq(Entry), NEW i \in DOMAIN p
  PROVE  p[i].tok \in Tokens
<1>1. p[i] \in Entry
  OBVIOUS
<1>2. QED
  BY <1>1 DEF Entry

\* Marking one token keeps every token where it is and its rest either as it
\* was or as reported.
LEMMA MarkEffect ==
  ASSUME pool \in Seq(Entry), NEW t, NEW until,
         pool' = Mark(t, until)
  PROVE  /\ DOMAIN pool' = DOMAIN pool
         /\ PoolTokens' = PoolTokens
         /\ \A i \in DOMAIN pool :
              /\ pool'[i].tok = pool[i].tok
              /\ pool'[i].rest = IF pool[i].tok = t THEN until
                                                    ELSE pool[i].rest
<1>1. DOMAIN pool' = DOMAIN pool
  BY DEF Mark
<1>2. ASSUME NEW i \in DOMAIN pool
      PROVE  /\ pool'[i].tok = pool[i].tok
             /\ pool'[i].rest = IF pool[i].tok = t THEN until
                                                   ELSE pool[i].rest
  <2>1. pool[i] \in Entry
    OBVIOUS
  <2>2. QED
    BY <2>1 DEF Mark, Entry
<1>3. PoolTokens' = PoolTokens
  BY <1>1, <1>2 DEF PoolTokens
<1>4. QED
  BY <1>1, <1>2, <1>3

\* Time passing moves no token.
LEMMA TickEffect ==
  ASSUME pool \in Seq(Entry), Tick
  PROVE  /\ DOMAIN pool' = DOMAIN pool
         /\ PoolTokens' = PoolTokens
         /\ \A i \in DOMAIN pool :
              /\ pool'[i].tok = pool[i].tok
              /\ pool'[i].rest = Age(pool[i].rest)
<1>1. DOMAIN pool' = DOMAIN pool
  BY DEF Tick
<1>2. ASSUME NEW i \in DOMAIN pool
      PROVE  /\ pool'[i].tok = pool[i].tok
             /\ pool'[i].rest = Age(pool[i].rest)
  <2>1. pool[i] \in Entry
    OBVIOUS
  <2>2. pool'[i] = [pool[i] EXCEPT !.left = Age(@), !.rest = Age(@)]
    BY DEF Tick
  <2>3. QED
    BY <2>1, <2>2 DEF Entry
<1>3. PoolTokens' = PoolTokens
  BY <1>1, <1>2 DEF PoolTokens
<1>4. QED
  BY <1>1, <1>2, <1>3

LEMMA PoolInit == Init => PoolInv
<1> SUFFICES ASSUME Init PROVE PoolInv
  OBVIOUS
<1>1. pool \in Seq(Entry)
  <2>1. PICK S \in SUBSET active : pool \in Listings(S, {})
    BY DEF Init
  <2>2. \A i \in S : Unused(i, {}) # {}
    BY PoolAssumption DEF Unused
  <2>3. QED
    BY <2>1, <2>2, ListingType DEF Init
<1>2. refresher \in Refresher
  <2>1. Lapsed \in Deadlines
    BY DEF Deadlines
  <2>2. QED
    BY <2>1 DEF Init, Refresher
<1>3. current < Len(pool)
  BY <1>1 DEF Init
<1>4. QED
  BY <1>1, <1>2, <1>3, IdleType DEF Init, PoolInv, TypeOK, PoolNeverEmptied

\* What Replace puts in place is a pool again, with its cursor at the start.
LEMMA RefreshType ==
  ASSUME TypeOK, NEW S \in SUBSET active, RefreshWith(S)
  PROVE  /\ pool' \in Seq(Entry)
         /\ pool' # <<>>
         /\ current' = 0
         /\ refresher' \in Refresher
<1>1. PICK es \in Listings(S, TokensInUse) :
        /\ Acceptable(es)
        /\ Replace(es)
        /\ refresher' = [refresher EXCEPT !.pc = "replaced",
                                          !.dropped = Dropped(es)]
  BY DEF RefreshWith
<1>2. es \in Seq(Entry)
  BY ListingType DEF RefreshWith, TypeOK
<1>3. PoolTokens \subseteq Tokens
  <2>1. \A i \in DOMAIN pool : pool[i] \in Entry
    BY DEF TypeOK
  <2>2. QED
    BY <2>1 DEF PoolTokens, Entry
<1>4. refresher' \in Refresher
  BY <1>1, <1>3 DEF Refresher, TypeOK, Dropped
<1>5. QED
  BY <1>1, <1>2, <1>4 DEF Acceptable, Replace

\* Moving one goroutine, with any token of the pool and any deadline.
LEMMA GotoType ==
  ASSUME TypeOK, NEW c \in Callers, NEW pc \in CallerPC
  PROVE  /\ Goto(c, pc) => caller' \in [Callers -> Call]
         /\ Forget(c, pc) => caller' \in [Callers -> Call]
         /\ Return(c) => caller' \in [Callers -> Call]
         /\ NextAttempt(c) => caller' \in [Callers -> Call]
<1>1. caller \in [Callers -> Call] /\ caller[c] \in Call
  BY DEF TypeOK
<1>2. Goto(c, pc) => caller' \in [Callers -> Call]
  BY <1>1 DEF Goto, Call
<1>3. Forget(c, pc) => caller' \in [Callers -> Call]
  <2>1. [Idle EXCEPT !.pc = pc, !.attempt = caller[c].attempt] \in Call
    BY <1>1, IdleType DEF Call
  <2>2. QED
    BY <1>1, <2>1 DEF Forget
<1>4. Return(c) => caller' \in [Callers -> Call]
  BY <1>1, IdleType DEF Return
<1>5. NextAttempt(c) => caller' \in [Callers -> Call]
  <2>1. CASE caller[c].attempt + 1 < MaxPoolRetries
    <3>1. caller[c].attempt + 1 \in 0..MaxPoolRetries
      BY <1>1, <2>1, PoolAssumption DEF Call
    <3>2. [Idle EXCEPT !.pc = "choose", !.attempt = caller[c].attempt + 1]
            \in Call
      BY <3>1, IdleType DEF Call, CallerPC
    <3>3. QED
      BY <1>1, <2>1, <3>2 DEF NextAttempt
  <2>2. CASE ~(caller[c].attempt + 1 < MaxPoolRetries)
    BY <1>4, <2>2 DEF NextAttempt
  <2>3. QED
    BY <2>1, <2>2
<1>6. QED
  BY <1>2, <1>3, <1>4, <1>5

\* Where a goroutine goes when it does not present a token.
LEMMA MovedPC ==
  ASSUME caller \in [Callers -> Call], NEW c \in Callers, NEW pc \in CallerPC,
         Goto(c, pc) \/ Forget(c, pc) \/ Return(c) \/ NextAttempt(c)
  PROVE  caller'[c].pc \in {pc, "idle", "choose"}
<1>1. caller[c] \in Call
  OBVIOUS
<1>2. CASE Goto(c, pc)
  BY <1>1, <1>2 DEF Goto, Call
<1>3. CASE Forget(c, pc)
  BY <1>3 DEF Forget, Idle
<1>4. CASE Return(c)
  BY <1>4 DEF Return, Idle
<1>5. CASE NextAttempt(c)
  <2>1. caller'[c] = [Idle EXCEPT !.pc = "choose",
                                  !.attempt = caller[c].attempt + 1]
          \/ Return(c)
    BY <1>5 DEF NextAttempt
  <2>2. QED
    BY <1>4, <2>1 DEF Idle
<1>6. QED
  BY <1>2, <1>3, <1>4, <1>5

\* One step of one goroutine.
LEMMA CallerPreserves ==
  ASSUME PoolInv, NEW c \in Callers,
         Begin(c) \/ Cancelled(c) \/ CallerStep(c)
  PROVE  PoolInv'
<1> USE DEF PoolInv
<1>1. CASE Begin(c) \/ Cancelled(c) \/ NoTokens(c) \/ Settled(c)
             \/ Unauthorized(c)
  <2>1. caller' \in [Callers -> Call]
    BY <1>1, GotoType DEF Begin, Cancelled, NoTokens, Settled, Unauthorized,
                          CallerPC
  <2>2. UNCHANGED <<pool, current, refreshCh, active, refresher>>
    BY <1>1 DEF Begin, Cancelled, NoTokens, Settled, Unauthorized
  <2>3. QED
    BY <2>1, <2>2 DEF TypeOK, PoolNeverEmptied
<1>2. CASE Choose(c)
  <2>1. PICK k \in 0..(Len(pool) - 1) :
          /\ current' = (current + k + 1) % Len(pool)
          /\ refreshCh' = (refreshCh \/ NearExpiry(pool[Visited(k)]))
          /\ caller' = [caller EXCEPT ![c].pc = "call",
                                      ![c].tok = pool[Visited(k)].tok]
    BY <1>2 DEF Choose
  <2>2. Len(pool) \in Nat \ {0} /\ current \in Nat
    BY DEF TypeOK, PoolNeverEmptied
  <2>3. Visited(k) \in 1..Len(pool)
    BY <2>2 DEF Visited
  <2>4. pool[Visited(k)].tok \in Tokens
    <3>1. pool[Visited(k)] \in Entry
      BY <2>3 DEF TypeOK
    <3>2. QED
      BY <3>1 DEF Entry
  <2>5. caller' \in [Callers -> Call]
    BY <2>1, <2>4, ZenonT(30) DEF TypeOK, Call, CallerPC
  <2>6. current' \in Nat /\ current' < Len(pool)
    BY <2>1, <2>2
  <2>7. refreshCh' \in BOOLEAN
    BY <2>1 DEF TypeOK, NearExpiry
  <2>8. QED
    BY <1>2, <2>5, <2>6, <2>7 DEF Choose, TypeOK, PoolNeverEmptied
<1>3. CASE RateLimited(c)
  <2>1. PICK r \in Resets :
          caller' = [caller EXCEPT ![c].pc = "limited", ![c].reset = r]
    BY <1>3 DEF RateLimited
  <2>2. caller' \in [Callers -> Call]
    BY <2>1, PoolAssumption, ZenonT(30) DEF TypeOK, Call, CallerPC, Deadlines
  <2>3. QED
    BY <1>3, <2>2 DEF RateLimited, TypeOK, PoolNeverEmptied
<1>4. CASE Exhaust(c) \/ InvalidateAuth(c)
  <2>1. PICK t \in Tokens, until \in Deadlines : pool' = Mark(t, until)
    <3>1. caller[c].reset \in Deadlines /\ caller[c].tok \in Tokens
      BY DEF TypeOK, Call
    <3>2. ExhaustUntil(caller[c].reset) \in Deadlines
      BY <3>1, PoolAssumption DEF ExhaustUntil, Deadlines, Lapsed, Forever
    <3>3. InvalidUntil(caller[c].tok) \in Deadlines
      BY PoolAssumption DEF InvalidUntil, Deadlines
    <3>4. CASE Exhaust(c)
      BY <3>1, <3>2, <3>4 DEF Exhaust
    <3>5. CASE InvalidateAuth(c)
      BY <3>1, <3>3, <3>5 DEF InvalidateAuth
    <3>6. QED
      BY <1>4, <3>4, <3>5
  <2>2. pool' \in Seq(Entry) /\ Len(pool') = Len(pool)
    BY <2>1, MarkType DEF TypeOK
  <2>3. caller' \in [Callers -> Call]
    BY <1>4, GotoType DEF Exhaust, InvalidateAuth, CallerPC
  <2>4. UNCHANGED <<current, refreshCh, active, refresher>>
    BY <1>4 DEF Exhaust, InvalidateAuth
  <2>5. pool' # <<>>
    BY <2>2 DEF TypeOK, PoolNeverEmptied
  <2>6. QED
    BY <2>2, <2>3, <2>4, <2>5 DEF TypeOK, PoolNeverEmptied
<1>5. CASE SignalRefresh(c)
  <2>1. caller' \in [Callers -> Call]
    BY <1>5, GotoType DEF SignalRefresh, CallerPC
  <2>2. QED
    BY <1>5, <2>1 DEF SignalRefresh, TypeOK, PoolNeverEmptied
<1>6. CASE RecountAuth(c) \/ RecountLimit(c) \/ BackedOff(c)
  <2>1. caller' \in [Callers -> Call]
    BY <1>6, GotoType DEF RecountAuth, RecountLimit, BackedOff, CallerPC
  <2>2. UNCHANGED <<pool, current, refreshCh, active, refresher>>
    BY <1>6 DEF RecountAuth, RecountLimit, BackedOff
  <2>3. QED
    BY <2>1, <2>2 DEF TypeOK, PoolNeverEmptied
<1>7. QED
  BY <1>1, <1>2, <1>3, <1>4, <1>5, <1>6 DEF CallerStep

\* One step of the refresh loop.
LEMMA RefresherPreserves ==
  ASSUME PoolInv, RefresherStep \/ StopRefresh
  PROVE  PoolInv'
<1> USE DEF PoolInv
<1>1. CASE RefreshTick \/ Notified \/ RefreshFails \/ StopRefresh
  <2>1. refresher' \in Refresher
    BY <1>1 DEF RefreshTick, Notified, RefreshFails, StopRefresh, TypeOK,
                Refresher
  <2>2. refreshCh' \in BOOLEAN
    BY <1>1 DEF RefreshTick, Notified, RefreshFails, StopRefresh, TypeOK
  <2>3. UNCHANGED <<pool, current, active, caller>>
    BY <1>1 DEF RefreshTick, Notified, RefreshFails, StopRefresh
  <2>4. QED
    BY <2>1, <2>2, <2>3 DEF TypeOK, PoolNeverEmptied
<1>2. CASE RefreshSucceeds
  <2>1. PICK S \in SUBSET active : RefreshWith(S)
    BY <1>2 DEF RefreshSucceeds
  <2>2. UNCHANGED <<refreshCh, active, caller>>
    BY <2>1 DEF RefreshWith
  <2>3. /\ pool' \in Seq(Entry)
        /\ pool' # <<>>
        /\ current' = 0
        /\ refresher' \in Refresher
    BY <2>1, RefreshType
  <2>4. current' < Len(pool')
    BY <2>3
  <2>5. QED
    BY <2>2, <2>3, <2>4 DEF TypeOK, PoolNeverEmptied
<1>3. CASE ObserveDropped
  <2>1. refresher' \in Refresher
    BY <1>3, PoolAssumption DEF ObserveDropped, Refresher, Deadlines
  <2>2. QED
    BY <1>3, <2>1 DEF ObserveDropped, TypeOK, PoolNeverEmptied
<1>4. QED
  BY <1>1, <1>2, <1>3 DEF RefresherStep

\* A webhook, or time passing.
LEMMA EnvironmentPreserves ==
  ASSUME PoolInv, Tick \/ \E i \in Churn : InstallationEvent(i)
  PROVE  PoolInv'
<1> USE DEF PoolInv
<1>1. CASE \E i \in Churn : InstallationEvent(i)
  BY <1>1, PoolAssumption DEF InstallationEvent, TypeOK, PoolNeverEmptied
<1>2. CASE Tick
  <2>1. DOMAIN pool = 1..Len(pool) /\ Len(pool) \in Nat
    BY DEF TypeOK
  <2>2. ASSUME NEW i \in DOMAIN pool
        PROVE  [pool[i] EXCEPT !.left = Age(@), !.rest = Age(@)] \in Entry
    <3>1. pool[i] \in Entry
      BY <2>1, <2>2 DEF TypeOK
    <3>2. Age(pool[i].left) \in Deadlines /\ Age(pool[i].rest) \in Deadlines
      BY <3>1, AgeType DEF Entry
    <3>3. QED
      BY <3>1, <3>2 DEF Entry
  <2>3. pool' \in Seq(Entry) /\ Len(pool') = Len(pool)
    <3> DEFINE Aged(i) == [pool[i] EXCEPT !.left = Age(@), !.rest = Age(@)]
    <3>1. pool' = [i \in DOMAIN pool |-> Aged(i)]
      BY <1>2 DEF Tick
    <3>2. \A i \in DOMAIN pool : Aged(i) \in Entry
      BY <2>2
    <3> HIDE DEF Aged
    <3>3. QED
      BY <2>1, <3>1, <3>2
  <2>4. ASSUME NEW c \in Callers
        PROVE  [caller[c] EXCEPT !.reset = Age(@)] \in Call
    BY AgeType DEF TypeOK, Call
  <2>5. caller' \in [Callers -> Call]
    BY <1>2, <2>4 DEF Tick
  <2>6. refresher' \in Refresher
    BY <1>2, AgeType DEF Tick, TypeOK, Refresher
  <2>7. pool' # <<>>
    BY <2>3 DEF TypeOK, PoolNeverEmptied
  <2>8. QED
    BY <1>2, <2>3, <2>5, <2>6, <2>7 DEF Tick, TypeOK, PoolNeverEmptied
<1>3. QED
  BY <1>1, <1>2

LEMMA PoolStep == PoolInv /\ [Next]_vars => PoolInv'
<1> SUFFICES ASSUME PoolInv, [Next]_vars PROVE PoolInv'
  OBVIOUS
<1>1. CASE UNCHANGED vars
  BY <1>1 DEF vars, PoolInv, TypeOK, PoolNeverEmptied
<1>2. CASE Next
  BY <1>2, CallerPreserves, RefresherPreserves, EnvironmentPreserves DEF Next
<1>3. QED
  BY <1>1, <1>2

\* The state keeps its type; above all the cursor stays an index of the
\* entries while goroutines rotate it and refreshes swap the pool under it.
THEOREM TypeCorrect == Spec => []TypeOK
<1>1. PoolInv => TypeOK
  BY DEF PoolInv
<1>2. QED
  BY PoolInit, PoolStep, <1>1, PTL DEF Spec

\* Whatever mints fail and whatever installations are suspended, a pool that
\* started with a token always holds one.
THEOREM NeverEmptied == Spec => []PoolNeverEmptied
<1>1. PoolInv => PoolNeverEmptied
  BY DEF PoolInv
<1>2. QED
  BY PoolInit, PoolStep, <1>1, PTL DEF Spec

-----------------------------------------------------------------------------
(* What it does with the resets GitHub announces *)

\* A step of the pool with its history is a step of the pool.
LEMMA HNextIsNext == [HNext]_hvars => [Next]_vars
  BY DEF HNext, hvars, vars, Quiet, HExhaust, HInvalidateAuth,
         HRefreshSucceeds, HTick, Next, CallerStep, RefresherStep

THEOREM HistoryIsHarmless == HSpec => Spec
<1>1. HInit => Init
  BY DEF HInit
<1>2. QED
  BY <1>1, HNextIsNext, PTL DEF HSpec, Spec

\* A report always marks its token for some time to come.
LEMMA ReportedUntil ==
  ASSUME NEW d \in Deadlines, NEW t
  PROVE  /\ ExhaustUntil(d) \in Deadlines \ {Lapsed}
         /\ InvalidUntil(t) \in Deadlines \ {Lapsed}
  BY PoolAssumption DEF ExhaustUntil, InvalidUntil, Deadlines, Lapsed, Forever

\* A refresh brings entries that nobody has reported.
LEMMA FreshEntries ==
  ASSUME NEW S \in SUBSET Installs, RefreshWith(S), NEW i \in DOMAIN pool'
  PROVE  pool'[i].rest = Lapsed /\ (~HasPAT => ~IsPAT(pool'[i].tok))
<1>1. PICK es \in Listings(S, TokensInUse) : pool' = es
  BY DEF RefreshWith, Replace
<1>2. es[i] \in Mintable(S, TokensInUse)
  BY <1>1 DEF Listings
<1>3. \A j \in S : j # 0
  BY PoolAssumption
<1>4. QED
  BY <1>1, <1>2, <1>3 DEF Mintable, IsPAT

-----------------------------------------------------------------------------
\* A step that carries no news about a token leaves the entries alone.
LEMMA QuietKeepsPool == Quiet => UNCHANGED <<pool, owed, rejected>>
  BY DEF Quiet, Begin, Cancelled, Choose, NoTokens, Settled, RateLimited,
         Unauthorized, SignalRefresh, RecountAuth, RecountLimit, BackedOff,
         RefreshTick, Notified, RefreshFails, ObserveDropped, StopRefresh,
         InstallationEvent

LEMMA RejectedInit == HInit => RejectedRests
  BY DEF HInit, RejectedRests

LEMMA RejectedStep ==
  ASSUME TypeOK, RejectedRests, [HNext]_hvars
  PROVE  RejectedRests'
<1>1. CASE UNCHANGED <<pool, rejected>>
  BY <1>1 DEF RejectedRests, Selectable
<1>2. ASSUME NEW c \in Callers, HExhaust(c) \/ HInvalidateAuth(c)
      PROVE  RejectedRests'
  <2>1. PICK until \in Deadlines \ {Lapsed} :
          /\ pool' = Mark(caller[c].tok, until)
          /\ rejected' = rejected \cup (PoolTokens \cap {caller[c].tok})
    <3>1. caller[c].reset \in Deadlines
      BY DEF TypeOK, Call
    <3>2. CASE HExhaust(c)
      BY <3>1, <3>2, ReportedUntil DEF HExhaust, Exhaust, Report
    <3>3. CASE HInvalidateAuth(c)
      BY <3>1, <3>3, ReportedUntil DEF HInvalidateAuth, InvalidateAuth, Report
    <3>4. QED
      BY <1>2, <3>2, <3>3
  <2>2. pool \in Seq(Entry)
    BY DEF TypeOK
  <2>3. QED
    BY <2>1, <2>2, MarkEffect DEF RejectedRests, Selectable
<1>3. CASE HRefreshSucceeds \/ HTick
  BY <1>3 DEF HRefreshSucceeds, HTick, RejectedRests
<1>4. CASE Quiet
  BY <1>1, <1>4, QuietKeepsPool DEF Quiet
<1>5. QED
  BY <1>1, <1>2, <1>3, <1>4 DEF HNext, hvars

\* No goroutine selects a token that any goroutine has reported, until time has
\* moved or the pool has been replaced.
THEOREM ReportsAreHonoured == HSpec => []RejectedRests
<1>1. PoolInv /\ RejectedRests /\ [HNext]_hvars => RejectedRests'
  BY RejectedStep DEF PoolInv
<1>2. HInit => Init
  BY DEF HInit
<1>3. QED
  BY RejectedInit, PoolInit, PoolStep, HNextIsNext, <1>1, <1>2, PTL DEF HSpec

-----------------------------------------------------------------------------
(* The client cache *)

\* A step of the pool with the client cache is a step of the pool, or leaves
\* the pool alone.
LEMMA CNextIsNext == [CNext]_cvars => [Next]_vars
  BY DEF CNext, cvars, vars, CChoose, Memoize, CAnswered, CObserveDropped,
         CacheUntouched, Next, CallerStep, RefresherStep

\* PresentedIsCached is not inductive: the purge may only reach tokens that the
\* pool no longer holds, and a refresh may not bring back a token that is in
\* flight.  The one token a refresh can repeat is the PAT, which never left.
CacheInv ==
  /\ refresher.dropped \cap PoolTokens = {}
  /\ HasPAT => PAT \in PoolTokens
  /\ PresentedIsCached

\* A listing holds the PAT if there is one, and otherwise only new tokens.
LEMMA ListedTokens ==
  ASSUME NEW S \in SUBSET Installs, NEW used,
         \A i \in S : Unused(i, used) # {},
         NEW es \in Listings(S, used)
  PROVE  /\ HasPAT => \E i \in DOMAIN es : es[i].tok = PAT
         /\ \A i \in DOMAIN es :
              \/ HasPAT /\ es[i].tok = PAT
              \/ es[i].tok \notin used
<1>1. ASSUME HasPAT
      PROVE  \E i \in DOMAIN es : es[i].tok = PAT
  <2>1. [tok |-> PAT, left |-> Forever, rest |-> Lapsed] \in Mintable(S, used)
    BY <1>1 DEF Mintable
  <2>2. PICK i \in DOMAIN es :
          es[i] = [tok |-> PAT, left |-> Forever, rest |-> Lapsed]
    BY <2>1 DEF Listings
  <2>3. QED
    BY <2>2
<1>2. ASSUME NEW i \in DOMAIN es, es[i].tok \in used
      PROVE  HasPAT /\ es[i].tok = PAT
  <2>1. es[i] \in Mintable(S, used)
    BY DEF Listings
  <2>2. ASSUME NEW j \in S
        PROVE  <<j, CHOOSE g \in Unused(j, used) : TRUE>> \notin used
    BY <2>2 DEF Unused
  <2>3. QED
    BY <1>2, <2>1, <2>2 DEF Mintable
<1>3. QED
  BY <1>1, <1>2

LEMMA CacheInit == CInit => CacheInv
<1> SUFFICES ASSUME CInit PROVE CacheInv
  OBVIOUS
<1>1. PICK S \in SUBSET Installs : pool \in Listings(S, {})
  BY DEF CInit, Init
<1>2. \A i \in S : Unused(i, {}) # {}
  BY PoolAssumption DEF Unused
<1>3. HasPAT => PAT \in PoolTokens
  <2>1. HasPAT => \E i \in DOMAIN pool : pool[i].tok = PAT
    BY <1>1, <1>2, ListedTokens
  <2>2. QED
    BY <2>1 DEF PoolTokens
<1>4. refresher.dropped = {} /\ \A c \in Callers : caller[c].pc = "idle"
  BY DEF CInit, Init, Idle
<1>5. QED
  BY <1>3, <1>4 DEF CacheInv, PresentedIsCached

\* The steps that leave the tokens of the pool where they are, and put no
\* goroutine in flight.
LEMMA CacheKept ==
  ASSUME CacheInv, PoolTokens' = PoolTokens,
         refresher'.dropped \in {refresher.dropped, {}},
         clientCache \subseteq clientCache',
         \A c \in Callers :
           caller'[c].pc = "call" /\ c \notin unmemoized'
             => \/ /\ caller[c].pc = "call" /\ c \notin unmemoized
                   /\ caller'[c].tok = caller[c].tok
                \/ caller'[c].tok \in clientCache'
  PROVE  CacheInv'
  BY DEF CacheInv, PresentedIsCached

LEMMA CacheRefresh ==
  ASSUME PoolInv, CacheInv, RefreshSucceeds, UNCHANGED <<clientCache, unmemoized>>
  PROVE  CacheInv'
<1>1. PICK S \in SUBSET Installs : RefreshWith(S)
  BY DEF RefreshSucceeds, PoolInv, TypeOK
<1>2. PICK es \in Listings(S, TokensInUse) :
        /\ pool' = es
        /\ refresher' = [refresher EXCEPT !.pc = "replaced",
                                          !.dropped = Dropped(es)]
  BY <1>1 DEF RefreshWith, Replace
<1>3. /\ HasPAT => PAT \in PoolTokens'
      /\ \A t \in PoolTokens' : (HasPAT /\ t = PAT) \/ t \notin TokensInUse
  BY <1>1, <1>2, ListedTokens DEF RefreshWith, PoolTokens
<1>4. refresher'.dropped = PoolTokens \ PoolTokens'
  BY <1>2 DEF Dropped, PoolTokens, PoolInv, TypeOK, Refresher
<1>5. ASSUME NEW c \in Callers, caller'[c].pc = "call", c \notin unmemoized',
             caller'[c].tok \in PoolTokens'
      PROVE  caller'[c].tok \in clientCache'
  <2>1. caller' = caller
    BY <1>1 DEF RefreshWith
  <2>2. caller[c].tok \in TokensInUse
    BY <1>5, <2>1 DEF TokensInUse, Presented
  <2>3. HasPAT /\ caller[c].tok = PAT
    BY <1>3, <1>5, <2>1, <2>2
  <2>4. QED
    BY <1>5, <2>1, <2>3 DEF CacheInv, PresentedIsCached
<1>6. QED
  BY <1>3, <1>4, <1>5 DEF CacheInv, PresentedIsCached

\* The steps of the pool that do not touch the cache.
LEMMA CacheUntouchedStep ==
  ASSUME PoolInv, CacheInv, CacheUntouched
  PROVE  CacheInv'
<1>1. pool \in Seq(Entry) /\ caller \in [Callers -> Call]
  BY DEF PoolInv, TypeOK
<1>2. UNCHANGED <<clientCache, unmemoized>>
  BY DEF CacheUntouched
<1>3. CASE RefreshSucceeds
  BY <1>2, <1>3, CacheRefresh
<1>4. ASSUME NEW c \in Callers,
             \/ Begin(c) \/ Cancelled(c) \/ NoTokens(c)
             \/ SignalRefresh(c)
             \/ RecountAuth(c) \/ RecountLimit(c) \/ BackedOff(c)
             \/ Exhaust(c) \/ InvalidateAuth(c)
      PROVE  CacheInv'
  <2>1. PoolTokens' = PoolTokens /\ refresher' = refresher
    <3>1. CASE Exhaust(c) \/ InvalidateAuth(c)
      BY <1>1, <3>1, MarkEffect DEF Exhaust, InvalidateAuth
    <3>2. CASE ~(Exhaust(c) \/ InvalidateAuth(c))
      BY <1>4, <3>2 DEF Begin, Cancelled, NoTokens, SignalRefresh, RecountAuth,
                        RecountLimit, BackedOff, PoolTokens
    <3>3. QED
      BY <3>1, <3>2
  <2>2. \E pc \in CallerPC \ {"call"} :
          Goto(c, pc) \/ Forget(c, pc) \/ Return(c) \/ NextAttempt(c)
    BY <1>4 DEF Begin, Cancelled, NoTokens, SignalRefresh, RecountAuth,
                RecountLimit, BackedOff, Exhaust, InvalidateAuth, CallerPC
  <2>3. \A d \in Callers \ {c} : caller'[d] = caller[d]
    BY <1>1, <2>2 DEF Goto, Forget, Return, NextAttempt
  <2>4. caller'[c].pc # "call"
    BY <1>1, <2>2, MovedPC
  <2>5. QED
    BY <1>2, <2>1, <2>3, <2>4, CacheKept
<1>5. CASE RefreshTick \/ Notified \/ RefreshFails \/ StopRefresh
             \/ \E i \in Churn : InstallationEvent(i)
  <2>1. PoolTokens' = PoolTokens /\ caller' = caller
    BY <1>5 DEF RefreshTick, Notified, RefreshFails, StopRefresh,
                InstallationEvent, PoolTokens
  <2>2. refresher'.dropped = refresher.dropped
    BY <1>5 DEF RefreshTick, Notified, RefreshFails, StopRefresh,
                InstallationEvent, PoolInv, TypeOK, Refresher
  <2>3. QED
    BY <1>2, <2>1, <2>2, CacheKept
<1>6. CASE Tick
  <2>1. PoolTokens' = PoolTokens
    BY <1>1, <1>6, TickEffect
  <2>2. refresher'.dropped = refresher.dropped
    BY <1>6 DEF Tick, PoolInv, TypeOK, Refresher
  <2>3. ASSUME NEW c \in Callers
        PROVE  caller'[c].pc = caller[c].pc /\ caller'[c].tok = caller[c].tok
    <3>1. caller[c] \in Call
      BY <1>1
    <3>2. caller'[c] = [caller[c] EXCEPT !.reset = Age(@)]
      BY <1>6 DEF Tick
    <3>3. QED
      BY <3>1, <3>2 DEF Call
  <2>4. QED
    BY <1>2, <2>1, <2>2, <2>3, CacheKept
<1>7. QED
  BY <1>3, <1>4, <1>5, <1>6 DEF CacheUntouched

LEMMA CacheStep ==
  ASSUME PoolInv, CacheInv, [CNext]_cvars
  PROVE  CacheInv'
<1>1. pool \in Seq(Entry) /\ caller \in [Callers -> Call]
  BY DEF PoolInv, TypeOK
<1>2. ASSUME NEW c \in Callers, CChoose(c)
      PROVE  CacheInv'
  <2>1. \A d \in Callers \ {c} : caller'[d] = caller[d]
    BY <1>1, <1>2 DEF CChoose, Choose
  <2>2. UNCHANGED <<pool, refresher, clientCache>>
          /\ unmemoized' = unmemoized \cup {c}
    BY <1>2 DEF CChoose, Choose
  <2>3. PoolTokens' = PoolTokens
    BY <2>2 DEF PoolTokens
  <2>4. QED
    BY <2>1, <2>2, <2>3, CacheKept
<1>3. ASSUME NEW c \in Callers, Memoize(c)
      PROVE  CacheInv'
  <2>1. PoolTokens' = PoolTokens /\ refresher' = refresher /\ caller' = caller
    BY <1>3 DEF Memoize, vars, PoolTokens
  <2>2. /\ clientCache' = clientCache \cup {caller[c].tok}
        /\ unmemoized' = unmemoized \ {c}
    BY <1>3 DEF Memoize
  <2>3. QED
    BY <2>1, <2>2, CacheKept
<1>4. ASSUME NEW c \in Callers, CAnswered(c)
      PROVE  CacheInv'
  <2>1. UNCHANGED <<pool, refresher, clientCache, unmemoized>>
    BY <1>4 DEF CAnswered, Settled, RateLimited, Unauthorized
  <2>2. PoolTokens' = PoolTokens
    BY <2>1 DEF PoolTokens
  <2>3. \A d \in Callers \ {c} : caller'[d] = caller[d]
    BY <1>1, <1>4 DEF CAnswered, Settled, RateLimited, Unauthorized, Goto,
                      Return
  <2>4. caller'[c].pc # "call"
    BY <1>1, <1>4 DEF CAnswered, Settled, RateLimited, Unauthorized, Goto,
                      Return, Idle, Call
  <2>5. QED
    BY <2>1, <2>2, <2>3, <2>4, CacheKept
<1>5. CASE CObserveDropped
  <2>1. /\ clientCache' = clientCache \ refresher.dropped
        /\ refresher'.dropped = {}
        /\ UNCHANGED <<pool, caller, unmemoized>>
    BY <1>5 DEF CObserveDropped, ObserveDropped
  <2>2. PoolTokens' = PoolTokens
    BY <2>1 DEF PoolTokens
  <2>3. QED
    BY <2>1, <2>2 DEF CacheInv, PresentedIsCached
<1>6. CASE UNCHANGED cvars
  BY <1>6 DEF cvars, CacheInv, PresentedIsCached, PoolTokens
<1>7. QED
  BY <1>2, <1>3, <1>4, <1>5, <1>6, CacheUntouchedStep DEF CNext

\* Every token presented to GitHub while the pool holds it has its client in
\* the cache, however refreshes and purges interleave with the goroutines.
THEOREM PresentedHasClient == CSpec => []PresentedIsCached
<1>1. CInit => Init
  BY DEF CInit
<1>2. PoolInv /\ CacheInv /\ [CNext]_cvars => CacheInv'
  BY CacheStep
<1>3. CacheInv => PresentedIsCached
  BY DEF CacheInv
<1>4. QED
  BY CacheInit, PoolInit, PoolStep, CNextIsNext, <1>1, <1>2, <1>3, PTL
     DEF CSpec

=============================================================================
