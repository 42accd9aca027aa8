------------------------------ MODULE RateLimiter ------------------------------
(***************************************************************************)
(* The rate limiters of the HTTP routes (pkg/server/ratelimit.go).  An     *)
(* anonymous request passes the limiter of its address; one of a tenant    *)
(* passes the tenant's hourly limiter and then its burst limiter.  Each    *)
(* limiter keeps a map of visitors under a lock of its own: an expired     *)
(* visitor is replaced when its key comes back, and otherwise removed by a *)
(* cleanup goroutine.  A refused request takes the lock once more, for     *)
(* Retry-After.                                                            *)
(*                                                                         *)
(* Time is counted in fractions of a second, and lengths with it.          *)
(***************************************************************************)
EXTENDS Integers, FiniteSets, Functions

CONSTANTS
  Requests,      \* requests there may be at a time
  Tenants,
  Addresses,
  Rate,          \* the hourly rates of the plans
  AnonRate,      \* the limit of the limiter of addresses
  BurstShare,    \* what the hourly rate is divided by for a burst (12)
  MinBurst,      \* the bounds of a burst (5 and 100)
  MaxBurst,
  Second,        \* instants in a second
  AddressWindow, \* the length of the windows of each limiter
  HourWindow,
  BurstWindow,
  Horizon,       \* bound: the last instant
  MaxAsked       \* bound: requests a key makes in a window

ASSUME RateLimiterAssumption ==
  /\ Rate \subseteq Nat \ {0}
  /\ {AnonRate, BurstShare, MinBurst, MaxBurst, Second,
      AddressWindow, HourWindow, BurstWindow} \subseteq Nat \ {0}
  /\ {Horizon, MaxAsked} \subseteq Nat
  /\ Tenants \cap Addresses = {}

\* What is counted: the requests of a key at a limiter.
Counters == ({"address"} \X Addresses) \cup ({"hour", "burst"} \X Tenants)
Limiters == {"address", "hour", "burst"}

VARIABLES
  now,       \* the clock
  visitors,  \* count and resetAt of each counter there is
  rate,      \* the hourly rate of each tenant's plan
  request,   \* where each request is, with its counter
  told,      \* history: the latest Retry-After, for which counter and window
  admitted   \* history: the requests each counter has admitted in the latest
             \* instants, as many as its window has: when, and which of its window

vars == <<now, visitors, rate, request, told, admitted>>

Idle == [at |-> "idle"]
Untold == [counter |-> <<>>, until |-> -1, resetAt |-> -1]

-----------------------------------------------------------------------------
(* One limiter *)

\* burstLimitFor: a part of the hourly rate, within bounds.
BurstLimitFor(perHour) ==
  LET burst == perHour \div BurstShare
  IN  IF burst < MinBurst THEN MinBurst
      ELSE IF burst > MaxBurst THEN MaxBurst ELSE burst

LimitOf(c) ==
  CASE c[1] = "address" -> AnonRate
    [] c[1] = "hour"    -> rate[c[2]]
    [] c[1] = "burst"   -> BurstLimitFor(rate[c[2]])

Length == [c \in Counters |->
  CASE c[1] = "address" -> AddressWindow
    [] c[1] = "hour"    -> HourWindow
    [] c[1] = "burst"   -> BurstWindow]

Expired(v) == now > v.resetAt
Fresh(c) == c \notin DOMAIN visitors \/ Expired(visitors[c])

\* The visitor a request leaves behind.
\* Counted_Slides is a seeded fault: every request starts the window anew.
Counted_Slides(c) ==
  [count   |-> IF Fresh(c) THEN 1 ELSE visitors[c].count + 1,
   resetAt |-> now + Length[c]]
Counted(c) ==
  [count   |-> IF Fresh(c) THEN 1 ELSE visitors[c].count + 1,
   resetAt |-> IF Fresh(c) THEN now + Length[c] ELSE visitors[c].resetAt]

\* Admits_OneMore is a seeded fault: the count is compared before it is raised.
Admits_OneMore(c) == Fresh(c) \/ visitors[c].count <= LimitOf(c)
Admits(c) == Fresh(c) \/ visitors[c].count + 1 <= LimitOf(c)

\* allow and allowWithLimit.
Allow(c) ==
  /\ visitors' = [d \in DOMAIN visitors \cup {c} |->
                    IF d = c THEN Counted(c) ELSE visitors[d]]
  /\ admitted' = [admitted EXCEPT ![c] =
                    @ \cup IF Admits(c) THEN {<<now, Counted(c).count>>} ELSE {}]

\* Whole seconds that reach beyond the end of the window; 0 without a visitor.
\* RetryAfter_Floor is a seeded fault: seconds are rounded down.
RetryAfter_Floor(c) ==
  IF c \notin DOMAIN visitors THEN 0
  ELSE LET remaining == visitors[c].resetAt - now
       IN  IF remaining < Second THEN 1 ELSE remaining \div Second
RetryAfter(c) ==
  IF c \notin DOMAIN visitors THEN 0
  ELSE LET remaining == visitors[c].resetAt - now
       IN  IF remaining < Second THEN 1 ELSE remaining \div Second + 1

-----------------------------------------------------------------------------
(* The requests: authAwareRateLimit, and wrap for addresses *)

Step(r, at, c) == request' = [request EXCEPT ![r] = [at |-> at, counter |-> c]]
Finish(r) == request' = [request EXCEPT ![r] = Idle]

\* The burst limiter is asked only if the hourly one admits.
Ask(r, c) ==
  /\ ~Fresh(c) => visitors[c].count < MaxAsked
  /\ Allow(c)
  /\ CASE ~Admits(c)                  -> Step(r, "refused", c)
       [] Admits(c) /\ c[1] = "hour"  -> Step(r, "burst", <<"burst", c[2]>>)
       [] Admits(c) /\ c[1] # "hour"  -> Finish(r)
  /\ UNCHANGED <<now, rate, told>>

Arrive(r) ==
  /\ request[r] = Idle
  /\ \E c \in {d \in Counters : d[1] # "burst"} : Ask(r, c)

Burst(r) ==
  /\ request[r].at = "burst"
  /\ Ask(r, request[r].counter)

\* What the refused client learns is of the visitor there is by now.
Refuse(r) ==
  LET c == request[r].counter
  IN  /\ request[r].at = "refused"
      /\ Finish(r)
      /\ told' = IF c \notin DOMAIN visitors THEN Untold
                 ELSE [counter |-> c,
                       until   |-> now + RetryAfter(c) * Second,
                       resetAt |-> visitors[c].resetAt]
      /\ UNCHANGED <<now, visitors, rate, admitted>>

-----------------------------------------------------------------------------
(* Around them *)

Cleanable(l) == {c \in DOMAIN visitors : c[1] = l /\ Expired(visitors[c])}

\* The ticker of the cleanup goroutine of a limiter may fire at any time.
Cleanup(l) ==
  /\ Cleanable(l) # {}
  /\ visitors' = Restrict(visitors, DOMAIN visitors \ Cleanable(l))
  /\ UNCHANGED <<now, rate, request, told, admitted>>

\* The tenant's plan changes.  A request reads its tenant once, on arrival: the
\* plan does not change between its two limiters.
ChangePlan(t) ==
  /\ \A r \in Requests : request[r].at = "burst" => request[r].counter[2] # t
  /\ \E n \in Rate \ {rate[t]} : rate' = [rate EXCEPT ![t] = n]
  /\ UNCHANGED <<now, visitors, request, told, admitted>>

Pass ==
  /\ now < Horizon
  /\ now' = now + 1
  /\ admitted' = [c \in Counters |->
                    {x \in admitted[c] : x[1] > now + 1 - Length[c]}]
  /\ UNCHANGED <<visitors, rate, request, told>>

Init ==
  /\ now = 0
  /\ visitors = [c \in {} |-> Untold]
  /\ rate \in [Tenants -> Rate]
  /\ request = [r \in Requests |-> Idle]
  /\ told = Untold
  /\ admitted = [c \in Counters |-> {}]

Next ==
  \/ \E r \in Requests : Arrive(r) \/ Burst(r) \/ Refuse(r)
  \/ \E l \in Limiters : Cleanup(l)
  \/ \E t \in Tenants : ChangePlan(t)
  \/ Pass

Spec == Init /\ [][Next]_vars

-----------------------------------------------------------------------------
(* Properties *)

\* Every variable has its type, and a window ends within its length.
TypeOK ==
  /\ now \in 0..Horizon
  /\ DOMAIN visitors \subseteq Counters
  /\ \A c \in DOMAIN visitors :
       /\ visitors[c] \in [count : Nat \ {0}, resetAt : Nat]
       /\ visitors[c].resetAt \in Length[c]..(now + Length[c])
  /\ rate \in [Tenants -> Rate]
  /\ request \in [Requests -> {Idle} \cup
                     [at : {"burst", "refused"}, counter : Counters]]
  /\ \A r \in Requests :
       request[r].at = "burst" => request[r].counter[1] = "burst"
  /\ told \in {Untold} \cup
              [counter : Counters, until : Nat, resetAt : Nat]
  /\ DOMAIN admitted = Counters
  /\ \A c \in Counters : admitted[c] \subseteq (0..now) \X (Nat \ {0})

\* A client that waits as long as Retry-After says finds its window over: it is
\* not refused twice in the window it was told about (retryAfter and allow read
\* the clock at different times, and the header counts whole seconds).
RetrySuffices ==
  LET c == told.counter
  IN  /\ c \in DOMAIN visitors
      /\ visitors[c].resetAt = told.resetAt
      /\ now >= told.until
      => Fresh(c)

\* The limits a counter may meet.
Limits == [c \in Counters |->
  CASE c[1] = "address" -> {AnonRate}
    [] c[1] = "hour"    -> Rate
    [] c[1] = "burst"   -> {BurstLimitFor(n) : n \in Rate}]

\* Whatever the map still holds, each counter is a fixed window: expired
\* visitors, and those the cleanup has removed, are closed windows.
Windows == INSTANCE FixedWindow WITH
  Keys <- Counters,
  window <- [c \in Counters |->
    IF Fresh(c) THEN [ends |-> -1, asked |-> 0]
    ELSE [ends |-> visitors[c].resetAt, asked |-> visitors[c].count]]

\* The limiters implement fixed windows: the cleanup, the replacement of an
\* expired visitor and requests between the two locks of a refused one never
\* open, shorten or forget a window (allowWithLimit, cleanup).
ImplementsFixedWindow == Windows!Spec

\* No period as long as a window sees as many as two full windows, whatever
\* plans the tenant had meanwhile: "Maximum number of API requests allowed per
\* hour" (plan.go) is missed by a factor of less than two.
LessThanTwoWindows ==
  \A c \in Counters : \A most \in Limits[c] :
    (\A n \in Limits[c] : n <= most) => Cardinality(admitted[c]) < 2 * most

=============================================================================
