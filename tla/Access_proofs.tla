------------------------------ MODULE Access_proofs ------------------------------
(***************************************************************************)
(* What a request meets on its way in.  The limiters keep fixed windows,   *)
(* Retry-After reaches beyond them and no period sees two of them, for any *)
(* number of requests, tenants and addresses, any rates and any lengths of *)
(* windows.  The browser's forms stay acceptable, for any number of tabs.  *)
(***************************************************************************)
EXTENDS RateLimiter, SignIn, FiniteSetTheorems, TLAPS

\* What a counter is, and the length of its windows.
LEMMA CountersAre ==
  ASSUME NEW c \in Counters
  PROVE  /\ c[1] \in Limiters
         /\ c[1] = "address" => c[2] \in Addresses
         /\ c[1] # "address" => c[2] \in Tenants
         /\ Length[c] \in Nat \ {0}
         /\ c # <<>>
<1>1. \/ \E a \in Addresses : c = <<"address", a>>
      \/ \E t \in Tenants : c = <<"hour", t>> \/ c = <<"burst", t>>
  BY DEF Counters
<1>2. /\ c[1] \in Limiters
      /\ c[1] = "address" => c[2] \in Addresses
      /\ c[1] # "address" => c[2] \in Tenants
      /\ c # <<>>
  BY <1>1 DEF Limiters
<1>3. Length[c] \in Nat \ {0}
  BY <1>2, RateLimiterAssumption DEF Length, Limiters
<1>4. QED
  BY <1>2, <1>3

\* The limit a request meets is one of those its counter may meet.
LEMMA LimitIsKnown ==
  ASSUME TypeOK, NEW c \in Counters
  PROVE  LimitOf(c) \in Limits[c] /\ LimitOf(c) \in Nat
<1>1. c[1] \in Limiters /\ (c[1] # "address" => rate[c[2]] \in Rate)
  BY CountersAre DEF TypeOK
<1>2. ASSUME NEW n \in Rate
      PROVE  BurstLimitFor(n) \in Nat
  BY RateLimiterAssumption, Z3 DEF BurstLimitFor
<1>3. LimitOf(c) \in Limits[c]
  BY <1>1 DEF LimitOf, Limits, Limiters
<1>4. LimitOf(c) \in Nat
  BY <1>1, <1>2, RateLimiterAssumption DEF LimitOf, Limiters
<1>5. QED
  BY <1>3, <1>4

\* A request leaves its counter with a visitor of the right type.
LEMMA AllowType ==
  ASSUME TypeOK, NEW c \in Counters, Allow(c), now' = now
  PROVE  /\ DOMAIN visitors' \subseteq Counters
         /\ \A d \in DOMAIN visitors' :
              /\ visitors'[d] \in [count : Nat \ {0}, resetAt : Nat]
              /\ visitors'[d].resetAt \in Length[d]..(now' + Length[d])
         /\ DOMAIN admitted' = Counters
         /\ \A d \in Counters : admitted'[d] \subseteq (0..now') \X (Nat \ {0})
<1>1. Length[c] \in Nat \ {0} /\ now \in Nat
  BY CountersAre, RateLimiterAssumption DEF TypeOK
<1>2. /\ Counted(c) \in [count : Nat \ {0}, resetAt : Nat]
      /\ Counted(c).resetAt \in Length[c]..(now + Length[c])
  BY <1>1 DEF Counted, Fresh, TypeOK
<1>3. \A d \in DOMAIN visitors' :
        visitors'[d] = IF d = c THEN Counted(c) ELSE visitors[d]
  BY DEF Allow
<1>4. \A d \in DOMAIN visitors' : d # c => d \in DOMAIN visitors
  BY DEF Allow
<1>5. <<now, Counted(c).count>> \in (0..now') \X (Nat \ {0})
  BY <1>1, <1>2
<1>6. \A d \in Counters : admitted'[d] \subseteq (0..now') \X (Nat \ {0})
  <2>1. \A d \in Counters : admitted[d] \subseteq (0..now') \X (Nat \ {0})
    BY DEF TypeOK
  <2>2. admitted'[c] \subseteq admitted[c] \cup {<<now, Counted(c).count>>}
    BY DEF Allow, TypeOK
  <2>3. \A d \in Counters : d # c => admitted'[d] = admitted[d]
    BY DEF Allow, TypeOK
  <2>4. QED
    BY <1>5, <2>1, <2>2, <2>3
<1>7. QED
  BY <1>2, <1>3, <1>4, <1>6 DEF Allow, TypeOK

LEMMA TypeInit == Init => TypeOK
<1>1. SUFFICES ASSUME Init PROVE TypeOK
  OBVIOUS
<1>2. \A c \in Counters : admitted[c] \subseteq (0..now) \X (Nat \ {0})
  BY <1>1 DEF Init
<1>3. \A r \in Requests : request[r] = Idle
  BY <1>1 DEF Init
<1>4. now \in 0..Horizon
  BY <1>1, RateLimiterAssumption DEF Init
<1>5. QED
  BY <1>1, <1>2, <1>3, <1>4 DEF Init, TypeOK, Idle

LEMMA AskType ==
  ASSUME TypeOK, NEW r \in Requests, NEW c \in Counters, Ask(r, c)
  PROVE  TypeOK'
<1>1. /\ DOMAIN visitors' \subseteq Counters
      /\ \A d \in DOMAIN visitors' :
           /\ visitors'[d] \in [count : Nat \ {0}, resetAt : Nat]
           /\ visitors'[d].resetAt \in Length[d]..(now' + Length[d])
      /\ DOMAIN admitted' = Counters
      /\ \A d \in Counters : admitted'[d] \subseteq (0..now') \X (Nat \ {0})
  BY AllowType DEF Ask
<1>2. c[1] = "hour" => <<"burst", c[2]>> \in Counters
  BY CountersAre DEF Counters
<1>3. /\ request' \in [Requests -> {Idle} \cup
                         [at : {"burst", "refused"}, counter : Counters]]
      /\ \A s \in Requests :
           request'[s].at = "burst" => request'[s].counter[1] = "burst"
  <2>1. CASE Step(r, "refused", c)
    BY <2>1 DEF Step, TypeOK
  <2>2. CASE c[1] = "hour" /\ Step(r, "burst", <<"burst", c[2]>>)
    BY <2>2, <1>2 DEF Step, TypeOK
  <2>3. CASE Finish(r)
    BY <2>3 DEF Finish, Idle, TypeOK
  <2>4. QED
    BY <2>1, <2>2, <2>3 DEF Ask
<1>4. QED
  BY <1>1, <1>3 DEF Ask, TypeOK

\* The product of whole seconds and their length reaches beyond the remainder.
LEMMA RetryAfterReaches ==
  ASSUME TypeOK, NEW c \in DOMAIN visitors
  PROVE  /\ now + RetryAfter(c) * Second \in Nat
         /\ now + RetryAfter(c) * Second > visitors[c].resetAt
<1> DEFINE remaining == visitors[c].resetAt - now
<1>1. now \in Nat /\ visitors[c].resetAt \in Nat /\ Second \in Nat \ {0}
  BY RateLimiterAssumption DEF TypeOK
<1>2. CASE remaining < Second
  BY <1>1, <1>2 DEF RetryAfter
<1>3. CASE ~(remaining < Second)
  <2>1. remaining \in Nat
    BY <1>1, <1>3
  <2> HIDE DEF remaining
  <2>2. /\ remaining \div Second \in Nat
        /\ (remaining \div Second + 1) * Second > remaining
        /\ (remaining \div Second + 1) * Second \in Nat
    BY <1>1, <2>1, Z3
  <2>3. RetryAfter(c) = remaining \div Second + 1
    BY <1>3 DEF RetryAfter, remaining
  <2>4. QED
    BY <1>1, <2>2, <2>3 DEF remaining
<1>4. QED
  BY <1>2, <1>3

LEMMA RefuseType ==
  ASSUME TypeOK, NEW r \in Requests, Refuse(r)
  PROVE  TypeOK'
<1> DEFINE c == request[r].counter
<1>1. c \in Counters
  <2>1. request[r] # Idle
    BY DEF Refuse, Idle
  <2>2. QED
    BY <2>1 DEF TypeOK
<1>2. told' \in {Untold} \cup [counter : Counters, until : Nat, resetAt : Nat]
  <2>1. CASE c \notin DOMAIN visitors
    BY <2>1 DEF Refuse
  <2>2. CASE c \in DOMAIN visitors
    <3>1. now + RetryAfter(c) * Second \in Nat /\ visitors[c].resetAt \in Nat
      BY <2>2, RetryAfterReaches DEF TypeOK
    <3>2. told' = [counter |-> c,
                   until   |-> now + RetryAfter(c) * Second,
                   resetAt |-> visitors[c].resetAt]
      BY <2>2 DEF Refuse
    <3>3. QED
      BY <1>1, <3>1, <3>2
  <2>3. QED
    BY <2>1, <2>2
<1>3. request' = [request EXCEPT ![r] = Idle]
  BY DEF Refuse, Finish
<1>4. QED
  BY <1>2, <1>3 DEF Refuse, TypeOK, Idle

LEMMA PassType ==
  ASSUME TypeOK, Pass
  PROVE  TypeOK'
<1>1. now' \in 0..Horizon /\ now' = now + 1 /\ now \in Nat
  BY RateLimiterAssumption DEF TypeOK, Pass
<1>2. \A c \in DOMAIN visitors' :
        /\ visitors'[c] \in [count : Nat \ {0}, resetAt : Nat]
        /\ visitors'[c].resetAt \in Length[c]..(now' + Length[c])
  BY <1>1, CountersAre DEF TypeOK, Pass
<1>3. \A c \in Counters : admitted'[c] \subseteq (0..now') \X (Nat \ {0})
  <2>1. 0..now \subseteq 0..now'
    BY <1>1
  <2>2. \A c \in Counters : admitted'[c] \subseteq admitted[c]
    BY DEF Pass
  <2>3. QED
    BY <2>1, <2>2 DEF TypeOK
<1>4. DOMAIN admitted' = Counters
  BY DEF Pass
<1>5. QED
  BY <1>1, <1>2, <1>3, <1>4 DEF Pass, TypeOK

LEMMA TypeStep ==
  ASSUME TypeOK, [Next]_vars
  PROVE  TypeOK'
<1>1. CASE \E r \in Requests : Arrive(r)
  BY <1>1, AskType DEF Arrive
<1>2. CASE \E r \in Requests : Burst(r)
  <2>1. PICK r \in Requests : Burst(r)
    BY <1>2
  <2>2. request[r] # Idle
    BY <2>1 DEF Burst, Idle
  <2>3. request[r].counter \in Counters
    BY <2>2 DEF TypeOK
  <2>4. QED
    BY <2>1, <2>3, AskType DEF Burst
<1>3. CASE \E r \in Requests : Refuse(r)
  BY <1>3, RefuseType
<1>4. CASE \E l \in Limiters : Cleanup(l)
  <2>1. /\ DOMAIN visitors' \subseteq DOMAIN visitors
        /\ \A c \in DOMAIN visitors' : visitors'[c] = visitors[c]
    BY <1>4 DEF Cleanup, Restrict
  <2>2. QED
    BY <1>4, <2>1 DEF Cleanup, TypeOK
<1>5. CASE \E t \in Tenants : ChangePlan(t)
  BY <1>5 DEF ChangePlan, TypeOK
<1>6. CASE Pass
  BY <1>6, PassType
<1>7. CASE UNCHANGED vars
  BY <1>7 DEF vars, TypeOK
<1>8. QED
  BY <1>1, <1>2, <1>3, <1>4, <1>5, <1>6, <1>7 DEF Next

\* Every variable keeps its type, and no window ends later than its length
\* after now.
THEOREM TypeCorrect == Spec => []TypeOK
  BY TypeInit, TypeStep, PTL DEF Spec

-----------------------------------------------------------------------------
(* Retry-After *)

\* What the last refused client was told to wait for lies beyond its window.
ToldBeyond == told # Untold => told.until > told.resetAt

\* A client that has waited as long as it was told to does not find the window
\* it was told about, however the clock moved between the two locks of its
\* refusal (retryAfter, allowWithLimit).
THEOREM RetryIsEnough == Spec => []RetrySuffices
<1>1. Init => ToldBeyond
  BY DEF Init, ToldBeyond
<1>2. TypeOK /\ ToldBeyond /\ [Next]_vars => ToldBeyond'
  <2>1. SUFFICES ASSUME TypeOK, ToldBeyond, [Next]_vars PROVE ToldBeyond'
    OBVIOUS
  <2>2. CASE UNCHANGED told
    BY <2>1, <2>2 DEF ToldBeyond, Untold
  <2>3. ASSUME NEW r \in Requests, Refuse(r) PROVE ToldBeyond'
    <3>1. CASE request[r].counter \in DOMAIN visitors
      BY <2>1, <2>3, <3>1, RetryAfterReaches DEF Refuse, ToldBeyond, Untold
    <3>2. CASE request[r].counter \notin DOMAIN visitors
      BY <2>3, <3>2 DEF Refuse, ToldBeyond, Untold
    <3>3. QED
      BY <3>1, <3>2
  <2>4. QED
    BY <2>1, <2>2, <2>3
       DEF Next, Arrive, Burst, Ask, Cleanup, ChangePlan, Pass, vars
<1>3. TypeOK /\ ToldBeyond => RetrySuffices
  <2>1. SUFFICES ASSUME TypeOK, ToldBeyond,
                        told.counter \in DOMAIN visitors,
                        visitors[told.counter].resetAt = told.resetAt,
                        now >= told.until
                 PROVE  Expired(visitors[told.counter])
    BY DEF RetrySuffices, Fresh
  <2>2. told # Untold
    BY <2>1, CountersAre DEF TypeOK, Untold
  <2>3. told.until \in Nat /\ told.resetAt \in Nat /\ now \in Nat
    BY <2>1, <2>2, RateLimiterAssumption DEF TypeOK
  <2>4. QED
    BY <2>1, <2>2, <2>3 DEF ToldBeyond, Expired
<1>4. QED
  BY <1>1, <1>2, <1>3, TypeCorrect, PTL DEF Spec

-----------------------------------------------------------------------------
(* The refinement *)

\* The window of each counter, as the abstract specification sees it.
window == [c \in Counters |->
  IF Fresh(c) THEN [ends |-> -1, asked |-> 0]
  ELSE [ends |-> visitors[c].resetAt, asked |-> visitors[c].count]]

\* A request asks in its window, with a limit of its counter.
LEMMA AskSimulates ==
  ASSUME TypeOK, NEW r \in Requests, NEW c \in Counters, Ask(r, c)
  PROVE  Windows!Next
<1>1. /\ now' = now /\ now \in Nat /\ Length[c] \in Nat \ {0}
      /\ now + Length[c] \in Nat
  BY CountersAre, RateLimiterAssumption DEF Ask, TypeOK
<1>2. /\ DOMAIN visitors' = DOMAIN visitors \cup {c}
      /\ \A d \in DOMAIN visitors' :
           visitors'[d] = IF d = c THEN Counted(c) ELSE visitors[d]
  BY DEF Ask, Allow
<1>3. ~Fresh(c) => visitors[c] \in [count : Nat \ {0}, resetAt : Nat]
  BY DEF Fresh, TypeOK
<1>4. Fresh(c)' <=> FALSE
  BY <1>1, <1>2, <1>3 DEF Fresh, Expired, Counted
<1>5. \A d \in Counters : d # c => /\ Fresh(d)' <=> Fresh(d)
                                   /\ ~Fresh(d) => visitors'[d] = visitors[d]
  BY <1>1, <1>2 DEF Fresh, Expired
<1>6. window' = [window EXCEPT ![c] =
        [ends  |-> IF @ = Windows!Closed THEN now + Length[c] ELSE @.ends,
         asked |-> @.asked + 1]]
  <2>1. window[c] = Windows!Closed <=> Fresh(c)
    BY <1>3 DEF window, Windows!Closed
  <2>2. window'[c] = [ends  |-> IF window[c] = Windows!Closed THEN now + Length[c]
                                ELSE window[c].ends,
                      asked |-> window[c].asked + 1]
    BY <1>1, <1>2, <1>3, <1>4, <2>1 DEF window, Counted
  <2>3. \A d \in Counters : d # c => window'[d] = window[d]
    BY <1>5 DEF window
  <2>4. window \in [Counters -> {window[d] : d \in Counters}] /\ DOMAIN window' = Counters
    BY DEF window
  <2>5. window' \in [Counters -> {window'[d] : d \in Counters}]
    BY DEF window
  <2>6. QED
    BY <2>2, <2>3, <2>4, <2>5
<1>7. admitted' = [admitted EXCEPT ![c] =
        @ \cup IF window[c] = Windows!Closed \/ window[c].asked < LimitOf(c)
               THEN {<<now, window[c].asked + 1>>} ELSE {}]
  <2>1. window[c] = Windows!Closed <=> Fresh(c)
    BY <1>3 DEF window, Windows!Closed
  <2>2. ~Fresh(c) => window[c].asked = visitors[c].count
    BY DEF window
  <2>3. LimitOf(c) \in Nat
    BY LimitIsKnown
  <2>4. Admits(c) <=> window[c] = Windows!Closed \/ window[c].asked < LimitOf(c)
    BY <1>3, <2>1, <2>2, <2>3 DEF Admits
  <2>5. window[c].asked + 1 = Counted(c).count
    BY <1>3, <2>1, <2>2 DEF Counted, Windows!Closed
  <2>6. QED
    BY <2>4, <2>5 DEF Ask, Allow
<1>8. PICK n \in Limits[c] : n = LimitOf(c)
  BY LimitIsKnown
<1>9. Windows!Ask(c, n)
  BY <1>1, <1>6, <1>7, <1>8 DEF Windows!Ask, window
<1>10. QED
  BY <1>9 DEF Windows!Next

\* The clock closes the windows that have ended.
LEMMA PassSimulates ==
  ASSUME TypeOK, Pass
  PROVE  Windows!Pass
<1>1. now' = now + 1 /\ visitors' = visitors /\ now \in Nat
  BY RateLimiterAssumption DEF Pass, TypeOK
<1>2. \A c \in Counters : window'[c] =
        IF window[c].ends < now + 1 THEN Windows!Closed ELSE window[c]
  <2>1. TAKE c \in Counters
  <2>2. CASE c \notin DOMAIN visitors
    BY <1>1, <2>2 DEF window, Fresh, Windows!Closed
  <2>3. CASE c \in DOMAIN visitors
    <3>1. visitors[c].resetAt \in Nat
      BY <2>3 DEF TypeOK
    <3>2. CASE now + 1 > visitors[c].resetAt
      BY <1>1, <2>3, <3>1, <3>2 DEF window, Fresh, Expired, Windows!Closed
    <3>3. CASE ~(now + 1 > visitors[c].resetAt)
      BY <1>1, <2>3, <3>1, <3>3 DEF window, Fresh, Expired
    <3>4. QED
      BY <3>2, <3>3
  <2>4. QED
    BY <2>2, <2>3
<1>3. window' = [c \in Counters |->
        IF window[c].ends < now + 1 THEN Windows!Closed ELSE window[c]]
  <2>1. window' = [c \in Counters |-> window'[c]]
    BY DEF window
  <2>2. QED
    BY <1>2, <2>1
<1>4. QED
  BY <1>1, <1>3 DEF Windows!Pass, window, Pass

\* The clock, the visitors still open and the admitted tell the whole window.
LEMMA StutterSimulates ==
  ASSUME UNCHANGED <<now, admitted>>,
         \A c \in Counters : Fresh(c)' <=> Fresh(c),
         \A c \in Counters : ~Fresh(c) => visitors'[c] = visitors[c]
  PROVE  UNCHANGED <<now, window, admitted>>
  BY DEF window

\* Every step of the limiters is a step of the windows, or none.
LEMMA StepSimulates ==
  ASSUME TypeOK, [Next]_vars
  PROVE  [Windows!Next]_<<now, window, admitted>>
<1>1. CASE \E r \in Requests : Arrive(r)
  <2>1. PICK c \in Counters, r \in Requests : Ask(r, c)
    BY <1>1 DEF Arrive
  <2>2. QED
    BY <2>1, AskSimulates
<1>2. CASE \E r \in Requests : Burst(r)
  <2>1. PICK r \in Requests : Burst(r)
    BY <1>2
  <2>2. request[r].counter \in Counters
    <3>1. request[r] # Idle
      BY <2>1 DEF Burst, Idle
    <3>2. QED
      BY <3>1 DEF TypeOK
  <2>3. PICK c \in Counters : Ask(r, c)
    BY <2>1, <2>2 DEF Burst
  <2>4. QED
    BY <2>3, AskSimulates
<1>3. CASE Pass
  BY <1>3, PassSimulates DEF Windows!Next
<1>4. CASE \E l \in Limiters : Cleanup(l)
  <2>1. PICK l \in Limiters : Cleanup(l)
    BY <1>4
  <2>2. /\ DOMAIN visitors' = DOMAIN visitors \ Cleanable(l)
        /\ \A c \in DOMAIN visitors' : visitors'[c] = visitors[c]
    BY <2>1 DEF Cleanup, Restrict
  <2>3. now' = now /\ admitted' = admitted
    BY <2>1 DEF Cleanup
  <2>4. \A c \in Counters : Fresh(c)' <=> Fresh(c)
    BY <2>2, <2>3 DEF Fresh, Expired, Cleanable
  <2>5. \A c \in Counters : ~Fresh(c) => visitors'[c] = visitors[c]
    BY <2>2, <2>3 DEF Fresh, Expired, Cleanable
  <2>6. QED
    BY <2>3, <2>4, <2>5, StutterSimulates
<1>5. CASE UNCHANGED <<now, visitors, admitted>>
  <2>1. \A c \in Counters : Fresh(c)' <=> Fresh(c)
    BY <1>5 DEF Fresh, Expired
  <2>2. QED
    BY <1>5, <2>1, StutterSimulates
<1>6. QED
  BY <1>1, <1>2, <1>3, <1>4, <1>5 DEF Next, Refuse, ChangePlan, vars

\* Whatever the cleanup removes and the other requests do between the locks of
\* one, the limiters give each key the fixed windows they promise (wrap,
\* authAwareRateLimit, cleanup).
THEOREM WindowsAreFixed == Spec => ImplementsFixedWindow
<1>1. Init => Windows!Init
  <2>1. SUFFICES ASSUME Init PROVE Windows!Init
    OBVIOUS
  <2>2. \A c \in Counters : Fresh(c)
    BY <2>1 DEF Init, Fresh
  <2>3. QED
    BY <2>1, <2>2 DEF Init, Windows!Init, Windows!Closed
<1>2. TypeOK /\ [Next]_vars => [Windows!Next]_<<now, window, admitted>>
  BY StepSimulates
<1>3. [Windows!Next]_<<now, window, admitted>> => [Windows!Next]_(Windows!vars)
  BY DEF window, Windows!vars
<1>4. QED
  BY <1>1, <1>2, <1>3, TypeCorrect, PTL
     DEF Spec, ImplementsFixedWindow, Windows!Spec

-----------------------------------------------------------------------------
(* Fewer than two windows *)

\* The limits are positive, and a window is closed or ends within its length.
LEMMA LimitsPositive == ASSUME NEW c \in Counters PROVE Limits[c] \subseteq Nat \ {0}
<1>1. ASSUME NEW n \in Rate PROVE BurstLimitFor(n) \in Nat \ {0}
  BY RateLimiterAssumption, Z3 DEF BurstLimitFor
<1>2. c[1] \in Limiters
  BY CountersAre
<1>3. QED
  BY <1>1, <1>2, RateLimiterAssumption DEF Limits, Limiters

LEMMA WindowIs ==
  ASSUME TypeOK, NEW c \in Counters, window[c] # Windows!Closed
  PROVE  /\ window[c].ends \in Nat /\ window[c].asked \in Nat \ {0}
         /\ window[c].ends >= now /\ window[c].ends - Length[c] \in 0..now
<1>1. ~Fresh(c) /\ window[c] = [ends |-> visitors[c].resetAt, asked |-> visitors[c].count]
  BY DEF window, Windows!Closed
<1>2. Length[c] \in Nat /\ now \in Nat
  BY CountersAre, RateLimiterAssumption DEF TypeOK
<1>3. QED
  BY <1>1, <1>2 DEF TypeOK, Fresh, Expired

\* When the open window began; one that opens now begins now.
Opened(c) ==
  IF window[c] = Windows!Closed THEN now ELSE window[c].ends - Length[c]
Current(c) == {x \in admitted[c] : x[1] >= Opened(c)}
Past(c) == {x \in admitted[c] : x[1] < Opened(c)}
OneEach(S) == \A x, y \in S : x[2] = y[2] => x = y

\* What a counter has admitted in the latest instants belongs to its open window
\* and one before, whose first request they do not reach back to.
TwoWindows(c) ==
  /\ \A x \in admitted[c] :
       x[1] > now - Length[c] /\ \E n \in Limits[c] : x[2] <= n
  /\ \A x \in Current(c) :
       /\ window[c] # Windows!Closed /\ x[2] <= window[c].asked
       /\ x[2] = 1 => x[1] = Opened(c)
  /\ \A x \in Past(c) : x[2] # 1
  /\ OneEach(Current(c)) /\ OneEach(Past(c))

LEMMA AskedInWindow ==
  ASSUME TypeOK, NEW c \in Counters, TwoWindows(c), NEW n \in Limits[c],
         Windows!Ask(c, n)
  PROVE  TwoWindows(c)'
<1> DEFINE x == <<now, window[c].asked + 1>>
<1>1. /\ now' = now /\ now \in Nat /\ Length[c] \in Nat \ {0} /\ n \in Nat \ {0}
      /\ \A y \in admitted[c] : y[1] \in 0..now /\ y[2] \in Nat \ {0}
  BY CountersAre, LimitsPositive, RateLimiterAssumption, SMTT(30) DEF TypeOK, Windows!Ask
<1>2. window'[c] = [ends  |-> IF window[c] = Windows!Closed THEN now + Length[c]
                              ELSE window[c].ends,
                    asked |-> window[c].asked + 1]
  BY DEF Windows!Ask, window
<1>3. /\ window[c].asked \in Nat
      /\ window[c] = Windows!Closed <=> window[c].asked = 0
      /\ window[c] # Windows!Closed => window[c].ends - Length[c] \in 0..now
      /\ Opened(c) \in 0..now
  BY <1>1, WindowIs DEF Windows!Closed, Opened
<1>4. window'[c] # Windows!Closed /\ Opened(c)' = Opened(c)
  BY <1>1, <1>2, <1>3 DEF Windows!Closed, Opened
<1>5. /\ admitted'[c] \subseteq admitted[c] \cup {x}
      /\ admitted'[c] # admitted[c] => \E m \in Limits[c] : x[2] <= m
  <2>1. admitted'[c] = admitted[c] \cup
          IF window[c] = Windows!Closed \/ window[c].asked < n THEN {x} ELSE {}
    BY DEF Windows!Ask, TypeOK, window
  <2>2. window[c] = Windows!Closed \/ window[c].asked < n => x[2] <= n
    BY <1>1, <1>3
  <2>3. QED
    BY <2>1, <2>2
<1>6. /\ x[1] > now - Length[c] /\ x[1] >= Opened(c)
      /\ x[1] = now /\ x[2] = window[c].asked + 1
  BY <1>1, <1>3
<1> HIDE DEF x
<1>7. Past(c)' \subseteq Past(c) /\ Current(c)' \subseteq Current(c) \cup {x}
  <2>1. ~(x[1] < Opened(c))
    BY <1>1, <1>3, <1>6
  <2>2. QED
    BY <1>4, <1>5, <2>1 DEF Past, Current
<1>8. ASSUME NEW y \in admitted'[c]
      PROVE  y[1] > now' - Length[c] /\ \E m \in Limits[c] : y[2] <= m
  BY <1>1, <1>5, <1>6 DEF TwoWindows
<1>9. ASSUME NEW y \in Current(c)
      PROVE  y[2] # x[2] /\ y[2] <= window[c].asked + 1
  BY <1>1, <1>3, <1>6 DEF TwoWindows, Current
<1>10. x[2] = 1 => x[1] = Opened(c)
  BY <1>1, <1>3, <1>6 DEF Opened, x
<1>11. ASSUME NEW y \in Current(c)'
       PROVE  y[2] <= window'[c].asked /\ (y[2] = 1 => y[1] = Opened(c)')
  BY <1>2, <1>3, <1>4, <1>6, <1>7, <1>9, <1>10 DEF TwoWindows
<1>12. OneEach(Current(c))'
  BY <1>7, <1>9 DEF TwoWindows, OneEach
<1>13. OneEach(Past(c))' /\ \A y \in Past(c)' : y[2] # 1
  BY <1>7 DEF TwoWindows, OneEach
<1>14. QED
  BY <1>4, <1>8, <1>11, <1>12, <1>13 DEF TwoWindows

\* A window that closes leaves what it admitted after its first instant.
LEMMA PassedInWindow ==
  ASSUME TypeOK, NEW c \in Counters, TwoWindows(c), Windows!Pass
  PROVE  TwoWindows(c)'
<1>1. /\ now' = now + 1 /\ now \in Nat /\ Length[c] \in Nat \ {0}
      /\ \A y \in admitted[c] : y[1] \in 0..now /\ y[2] \in Nat \ {0}
      /\ admitted'[c] = {y \in admitted[c] : y[1] > now + 1 - Length[c]}
  BY CountersAre, RateLimiterAssumption, SMTT(30) DEF TypeOK, Windows!Pass
<1>2. window'[c] = IF window[c].ends < now + 1 THEN Windows!Closed ELSE window[c]
  BY DEF Windows!Pass, window
<1>3. \A y \in admitted'[c] :
        y[1] > now' - Length[c] /\ \E n \in Limits[c] : y[2] <= n
  BY <1>1 DEF TwoWindows
<1>4. CASE window[c] = Windows!Closed
  <2>1. /\ window'[c] = Windows!Closed /\ Opened(c)' = now + 1
        /\ Current(c) = {} /\ Opened(c) = now
    BY <1>1, <1>2, <1>4 DEF Windows!Closed, Opened, TwoWindows
  <2>2. Current(c)' = {} /\ Past(c)' \subseteq Past(c)
    BY <1>1, <2>1 DEF Current, Past
  <2>3. QED
    BY <1>3, <2>2 DEF TwoWindows, OneEach
<1>5. CASE window[c] # Windows!Closed
  <2>1. /\ window[c].ends \in Nat /\ window[c].ends - Length[c] \in 0..now
        /\ Opened(c) = window[c].ends - Length[c]
    BY <1>5, WindowIs DEF Opened
  <2>2. CASE window[c].ends < now + 1
    <3>1. window'[c] = Windows!Closed /\ Opened(c)' = now + 1
      BY <1>1, <1>2, <2>2 DEF Opened
    <3>2. ASSUME NEW y \in admitted'[c] PROVE y \in Current(c) /\ y[1] # Opened(c)
      BY <1>1, <2>1, <2>2 DEF Current
    <3>3. Current(c)' = {} /\ Past(c)' \subseteq Current(c)
      BY <1>1, <3>1, <3>2 DEF Current, Past
    <3>4. \A y \in Past(c)' : y[2] # 1
      BY <3>2, <3>3 DEF TwoWindows, Past
    <3>5. QED
      BY <1>3, <3>3, <3>4 DEF TwoWindows, OneEach
  <2>3. CASE ~(window[c].ends < now + 1)
    <3>1. window'[c] = window[c] /\ Opened(c)' = Opened(c)
      BY <1>2, <1>5, <2>1, <2>3 DEF Opened
    <3>2. Current(c)' \subseteq Current(c) /\ Past(c)' \subseteq Past(c)
      BY <1>1, <3>1 DEF Current, Past
    <3>3. QED
      BY <1>3, <3>1, <3>2 DEF TwoWindows, OneEach
  <2>4. QED
    BY <2>2, <2>3
<1>6. QED
  BY <1>4, <1>5

\* A set of requests with different places in a..b is no larger than that.
LEMMA PlacesBound ==
  ASSUME NEW S, NEW a \in Int, NEW b \in Int, OneEach(S), \A x \in S : x[2] \in a..b
  PROVE  IsFiniteSet(S) /\ Cardinality(S) <= Cardinality(a..b)
<1> DEFINE f == [x \in S |-> x[2]]
<1>1. f \in Injection(S, a..b)
  BY DEF Injection, IsInjective, OneEach
<1>2. IsFiniteSet(a..b)
  BY FS_Interval
<1>3. QED
  BY <1>1, <1>2, FS_Injection

LEMMA TwoWindowsBound ==
  ASSUME TypeOK, NEW c \in Counters, TwoWindows(c),
         NEW most \in Limits[c], \A n \in Limits[c] : n <= most
  PROVE  Cardinality(admitted[c]) < 2 * most
<1>1. most \in Nat \ {0} /\ Limits[c] \subseteq Nat
  BY LimitsPositive
<1>2. \A x \in admitted[c] : x[2] \in 1..most
  BY <1>1 DEF TwoWindows, TypeOK
<1>3. IsFiniteSet(Current(c)) /\ Cardinality(Current(c)) <= most
  <2>1. \A x \in Current(c) : x[2] \in 1..most
    BY <1>2 DEF Current
  <2>2. Cardinality(1..most) = most
    BY <1>1, FS_Interval
  <2>3. QED
    BY <1>1, <2>1, <2>2, PlacesBound DEF TwoWindows
<1>4. IsFiniteSet(Past(c)) /\ Cardinality(Past(c)) <= most - 1
  <2>1. \A x \in Past(c) : x[2] \in 2..most
    BY <1>1, <1>2 DEF Past, TwoWindows
  <2>2. Cardinality(2..most) = most - 1
    <3>1. CASE most = 1
      BY <3>1, FS_Interval
    <3>2. CASE most # 1
      <4>1. 2 \in Int /\ most \in Int /\ ~(2 > most)
        BY <1>1, <3>2
      <4>2. Cardinality(2..most) = most - 2 + 1
        BY <4>1, FS_Interval
      <4>3. QED
        BY <1>1, <4>2
    <3>3. QED
      BY <3>1, <3>2
  <2>3. OneEach(Past(c))
    BY DEF TwoWindows
  <2>4. 2 \in Int /\ most \in Int
    BY <1>1
  <2>5. IsFiniteSet(Past(c)) /\ Cardinality(Past(c)) <= Cardinality(2..most)
    BY <2>1, <2>3, <2>4, PlacesBound
  <2>6. QED
    BY <2>2, <2>5
<1>5. admitted[c] = Current(c) \cup Past(c)
  <2>1. Opened(c) \in Int
    BY CountersAre, WindowIs, RateLimiterAssumption, SMTT(30) DEF Opened, TypeOK
  <2>2. \A x \in admitted[c] : x[1] \in Int
    BY DEF TypeOK
  <2>3. QED
    BY <2>1, <2>2 DEF Current, Past
<1>6. /\ Cardinality(Current(c) \cap Past(c)) \in Nat
      /\ Cardinality(Current(c)) \in Nat /\ Cardinality(Past(c)) \in Nat
  BY <1>3, <1>4, FS_CardinalityType, FS_Subset
<1>7. Cardinality(admitted[c]) = Cardinality(Current(c)) + Cardinality(Past(c))
                                   - Cardinality(Current(c) \cap Past(c))
  BY <1>3, <1>4, <1>5, FS_Union
<1>8. QED
  BY <1>1, <1>3, <1>4, <1>6, <1>7

\* No period as long as a window sees as many as two full windows, for any
\* limits, however plans change, visitors are cleaned up and requests overlap
\* (allowWithLimit, plan.go).
THEOREM FewerThanTwoWindows == Spec => []LessThanTwoWindows
<1> DEFINE Inv == \A c \in Counters : TwoWindows(c)
<1>1. Init => Inv
  BY DEF Init, TwoWindows, Current, Past, OneEach
<1>2. ASSUME TypeOK, Inv, [Next]_vars PROVE Inv'
  <2>1. SUFFICES ASSUME NEW c \in Counters PROVE TwoWindows(c)'
    OBVIOUS
  <2>2. CASE UNCHANGED <<now, window, admitted>>
    BY <1>2, <2>2 DEF TwoWindows, Current, Past, Opened, OneEach
  <2>3. CASE Windows!Pass
    BY <1>2, <2>3, PassedInWindow
  <2>4. ASSUME NEW d \in Counters, NEW n \in Limits[d], Windows!Ask(d, n)
        PROVE  TwoWindows(c)'
    <3>1. CASE d = c
      BY <1>2, <2>4, <3>1, AskedInWindow
    <3>2. CASE d # c
      <4>1. now' = now /\ window'[c] = window[c]
        BY <2>4, <3>2 DEF Windows!Ask, window
      <4>2. admitted'[c] = admitted[c]
        BY <1>2, <2>4, <3>2 DEF Windows!Ask, TypeOK
      <4>3. QED
        BY <1>2, <4>1, <4>2 DEF TwoWindows, Current, Past, Opened, OneEach
    <3>3. QED
      BY <3>1, <3>2
  <2>5. QED
    BY <1>2, <2>2, <2>3, <2>4, StepSimulates DEF Windows!Next
<1>3. TypeOK /\ Inv => LessThanTwoWindows
  BY TwoWindowsBound DEF LessThanTwoWindows
<1>4. QED
  BY <1>1, <1>2, <1>3, TypeCorrect, PTL DEF Spec

-----------------------------------------------------------------------------
(* Signing in: what each tab holds *)

MaybeIds == Ids \cup {None}
Cookies == {"state", "session", "csrf"}
To == {to \in [url : Pages \cup Forms \cup {"start", "callback", "github"},
              state : MaybeIds, code : MaybeIds] :
         to.url = "callback" => to.code \in Ids}
Jars == [Cookies -> MaybeIds]

\* A tab shows a page, is at GitHub, or waits for a request or with an answer,
\* which clears any cookie but that of CSRF.
TabOK(x) ==
  \/ x.at = "shown" /\ x.page \in Pages /\ x.form \in MaybeIds
  \/ x.at = "github" /\ x.state \in MaybeIds
  \/ x.at = "sent" /\ x.to \in To /\ x.form \in MaybeIds /\ x.jar \in Jars
  \/ /\ x.at = "answered" /\ x.to \in To /\ x.next \in To /\ x.form \in MaybeIds
     /\ x.shown => x.next.url \in Pages
     /\ DOMAIN x.sets \subseteq Cookies
     /\ \A k \in DOMAIN x.sets : x.sets[k] \in MaybeIds
     /\ "csrf" \in DOMAIN x.sets => x.sets["csrf"] \in Ids

TabsOK ==
  /\ jar \in Jars /\ tab = [t \in Tabs |-> tab[t]]
  /\ \A t \in Tabs : TabOK(tab[t])

RestOK ==
  /\ sessions \subseteq Ids /\ used \subseteq Ids
  /\ account \in {"absent", "active", "suspended"}
  /\ account = "absent" => sessions = {} /\ ~terms
  /\ {terms, rotated, raced} \subseteq BOOLEAN
  /\ visits \in 0..MaxVisits /\ faults \in 0..MaxFaults

LEMMA ToldTypes == TabsOK /\ RestOK => SignInTypeOK
<1> SUFFICES ASSUME TabsOK, RestOK PROVE SignInTypeOK
  OBVIOUS
<1>1. DOMAIN jar = Cookies
  BY DEF TabsOK, Jars
<1>2. ASSUME NEW t \in Tabs
      PROVE  /\ tab[t].at \in {"shown", "sent", "answered", "github"}
             /\ tab[t].at = "shown" => tab[t].page \in Pages
             /\ tab[t].at = "answered" => DOMAIN tab[t].sets \subseteq DOMAIN jar
  BY <1>1 DEF TabsOK, TabOK
<1>3. ASSUME NEW t \in Tabs PROVE IdsOf(t) \subseteq MaybeIds
  <2>1. TabOK(tab[t])
    BY DEF TabsOK
  <2>2. CASE tab[t].at = "shown"
    BY <2>1, <2>2 DEF TabOK, IdsOf
  <2>3. CASE tab[t].at = "github"
    BY <2>1, <2>3 DEF TabOK, IdsOf
  <2>4. CASE tab[t].at = "sent"
    <3>1. /\ tab[t].to.state \in MaybeIds /\ tab[t].to.code \in MaybeIds
          /\ tab[t].form \in MaybeIds
          /\ tab[t].jar.state \in MaybeIds /\ tab[t].jar.session \in MaybeIds
          /\ tab[t].jar.csrf \in MaybeIds
      BY <2>1, <2>4 DEF TabOK, To, Jars, Cookies
    <3>2. QED
      BY <2>4, <3>1 DEF IdsOf
  <2>5. CASE tab[t].at = "answered"
    <3>1. /\ tab[t].to.state \in MaybeIds /\ tab[t].to.code \in MaybeIds
          /\ tab[t].next.state \in MaybeIds /\ tab[t].next.code \in MaybeIds
          /\ tab[t].form \in MaybeIds
          /\ \A k \in DOMAIN tab[t].sets : tab[t].sets[k] \in MaybeIds
      BY <2>1, <2>5 DEF TabOK, To
    <3>2. QED
      BY <2>5, <3>1 DEF IdsOf
  <2>6. QED
    BY <2>1, <2>2, <2>3, <2>4, <2>5 DEF TabOK
<1>4. QED
  BY <1>2, <1>3 DEF SignInTypeOK, TabsOK, RestOK, Jars, Cookies, MaybeIds

\* A step of one tab.
LEMMA TabMoves ==
  ASSUME TabsOK, NEW t \in Tabs, NEW x, tab' = [tab EXCEPT ![t] = x]
  PROVE  /\ tab'[t] = x /\ \A u \in Tabs : u # t => tab'[u] = tab[u]
         /\ TabOK(x) /\ jar' \in Jars => TabsOK'
<1>1. tab' = [u \in Tabs |-> IF u = t THEN x ELSE tab[u]]
  BY DEF TabsOK
<1>2. tab' = [u \in Tabs |-> tab'[u]]
  BY <1>1
<1>3. QED
  BY <1>1, <1>2 DEF TabsOK

LEMMA AtIsTo ==
  ASSUME NEW url \in Pages \cup Forms \cup {"start"}
  PROVE  At(url) \in To /\ At(url).url = url
<1>1. url # "callback"
  BY DEF Pages, Forms
<1>2. QED
  BY <1>1 DEF At, To, MaybeIds

LEMMA FreshAreIds == FreshIds \subseteq Ids /\ None \notin FreshIds
  BY SignInAssumption DEF FreshIds, None

-----------------------------------------------------------------------------
(* One CSRF token *)

\* A request or an answer that brings a new token.
Bears(x) ==
  \/ x.at = "sent" /\ NewToken(x.to, x.jar)
  \/ x.at = "answered" /\ "csrf" \in DOMAIN x.sets

\* What a tab holds of the token is the browser's, unless it brings the first.
Fits(x, csrf) ==
  /\ x.at = "shown" => x.form \in {None, csrf}
  /\ x.at = "sent" => x.jar.csrf \in {None, csrf}
  /\ x.at = "answered" =>
       IF "csrf" \in DOMAIN x.sets THEN x.form \in {None, x.sets["csrf"]}
                                   ELSE x.form \in {None, csrf}
  /\ Bears(x) => csrf = None

OneToken ==
  rotated \/ raced \/
    /\ \A t \in Tabs : Fits(tab[t], jar.csrf)
    /\ \A t, u \in Tabs : Bears(tab[t]) /\ Bears(tab[u]) => t = u

\* A tab moves on without a token of its own, or as the one that brings it.
LEMMA TokenKept ==
  ASSUME TabsOK, OneToken, ~rotated, ~raced, jar' = jar,
         NEW t \in Tabs, NEW x, tab' = [tab EXCEPT ![t] = x], Fits(x, jar.csrf),
         Bears(x) => \/ Bears(tab[t])
                     \/ \A u \in Tabs : u # t => ~Bears(tab[u])
  PROVE  OneToken'
<1>1. tab'[t] = x /\ \A u \in Tabs : u # t => tab'[u] = tab[u]
  BY TabMoves
<1>2. ASSUME NEW u \in Tabs PROVE Fits(tab'[u], jar'.csrf)
  BY <1>1 DEF OneToken
<1>3. ASSUME NEW u \in Tabs, NEW v \in Tabs, Bears(tab'[u]), Bears(tab'[v])
      PROVE  u = v
  BY <1>1, <1>3 DEF OneToken
<1>4. QED
  BY <1>2, <1>3 DEF OneToken

\* Race notes a second request for a token.
LEMMA RaceNoted ==
  ASSUME NEW t \in Tabs, NEW to, ~Race(t, to), NewToken(to, jar)
  PROVE  \A u \in Tabs : u # t => ~Bears(tab[u])
BY DEF Race, Bears, Under

SignInInv == TabsOK /\ RestOK /\ OneToken

LEMMA SignInStart == SignInInit => SignInInv
<1> SUFFICES ASSUME SignInInit PROVE SignInInv
  OBVIOUS
<1> USE DEF SignInInit
<1>1. \A t \in Tabs : tab[t] = [at |-> "shown", page |-> "landing", form |-> None]
  BY DEF Shown
<1>2. TabsOK
  <2>1. tab = [t \in Tabs |-> tab[t]]
    OBVIOUS
  <2>2. QED
    BY <1>1, <2>1 DEF TabsOK, TabOK, Jars, Cookies, MaybeIds, Pages
<1>3. RestOK
  <2>1. visits \in 0..MaxVisits /\ faults \in 0..MaxFaults
    BY SignInAssumption
  <2>2. {terms, rotated, raced} \subseteq BOOLEAN
    BY Zenon
  <2>3. QED
    BY <2>1, <2>2 DEF RestOK
<1>4. OneToken
  BY <1>1 DEF OneToken, Fits, Bears
<1>5. QED
  BY <1>2, <1>3, <1>4 DEF SignInInv

\* A request leaves with the cookies there are.
LEMMA SendKeeps ==
  ASSUME SignInInv, NEW t \in Tabs, NEW to \in To, NEW form \in MaybeIds,
         Send(t, to, form), UNCHANGED <<jar, rotated>>, raced => raced',
         NewToken(to, jar) /\ ~raced' => ~Race(t, to)
  PROVE  TabsOK' /\ OneToken'
<1> DEFINE x == [at |-> "sent", to |-> to, form |-> form, jar |-> jar]
<1>1. tab' = [tab EXCEPT ![t] = x] /\ TabsOK /\ OneToken
  BY DEF Send, SignInInv
<1>2. TabOK(x)
  BY <1>1 DEF TabOK, TabsOK
<1>3. Fits(x, jar.csrf)
  BY DEF Fits, Bears, NewToken
<1>4. Bears(x) => NewToken(to, jar)
  BY DEF Bears
<1> HIDE DEF x
<1>5. TabsOK'
  BY <1>1, <1>2, TabMoves DEF TabsOK
<1>6. CASE rotated \/ raced'
  BY <1>5, <1>6 DEF OneToken
<1>7. CASE ~rotated /\ ~raced'
  <2>1. Bears(x) => \A u \in Tabs : u # t => ~Bears(tab[u])
    BY <1>4, <1>7, RaceNoted
  <2>2. QED
    BY <1>1, <1>3, <1>5, <1>7, <2>1, TokenKept
<1>8. QED
  BY <1>5, <1>6, <1>7

LEMMA UserKeeps == ASSUME SignInInv, NEW t \in Tabs, User(t) PROVE SignInInv'
<1>1. visits \in 0..MaxVisits /\ Visit => visits' \in 0..MaxVisits
  BY SignInAssumption DEF Visit
<1>2. TabsOK /\ RestOK /\ TabOK(tab[t])
  BY DEF SignInInv, TabsOK
<1>3. None \in MaybeIds
  BY DEF MaybeIds
<1>4. CASE \E page \in Pages \cup {"start"} : Open(t, page)
  <2>1. PICK page \in Pages \cup {"start"} : Open(t, page)
    BY <1>4
  <2>2. At(page) \in To
    BY AtIsTo
  <2>3. TabsOK' /\ OneToken'
    BY <1>3, <2>1, <2>2, SendKeeps DEF Open, Race
  <2>4. raced' \in BOOLEAN
    BY <2>1 DEF Open, Race
  <2>5. RestOK'
    BY <1>1, <1>2, <2>1, <2>4 DEF RestOK, Open
  <2>6. QED
    BY <2>3, <2>5 DEF SignInInv
<1>5. CASE \E form \in Forms : Submit(t, form)
  <2>1. PICK form \in Forms : Submit(t, form)
    BY <1>5
  <2>2. At(form) \in To /\ ~NewToken(At(form), jar)
    BY AtIsTo DEF NewToken, Forms
  <2>3. tab[t].form \in MaybeIds
    BY <1>2, <2>1 DEF TabOK, Submit
  <2>4. TabsOK' /\ OneToken'
    BY <2>1, <2>2, <2>3, SendKeeps DEF Submit
  <2>5. RestOK'
    BY <1>1, <1>2, <2>1 DEF RestOK, Submit
  <2>6. QED
    BY <2>4, <2>5 DEF SignInInv
<1>6. CASE Again(t)
  <2>1. tab[t].to \in To /\ ~NewToken(tab[t].to, jar)
    BY <1>2, <1>6 DEF TabOK, Again, NewToken
  <2>2. TabsOK' /\ OneToken'
    BY <1>3, <1>6, <2>1, SendKeeps DEF Again
  <2>3. RestOK'
    BY <1>1, <1>2, <1>6 DEF RestOK, Again
  <2>4. QED
    BY <2>2, <2>3 DEF SignInInv
<1>7. QED
  BY <1>4, <1>5, <1>6 DEF User

LEMMA AuthorizeKeeps == ASSUME SignInInv, NEW t \in Tabs, Authorize(t) PROVE SignInInv'
<1>1. PICK code \in FreshIds : Send(t, Callback(tab[t].state, code), None)
  BY DEF Authorize
<1> DEFINE to == Callback(tab[t].state, code)
<1>2. tab[t].state \in MaybeIds /\ code \in Ids /\ code \in MaybeIds /\ None \in MaybeIds
  BY FreshAreIds DEF Authorize, SignInInv, TabsOK, TabOK, MaybeIds
<1>3. to \in To /\ ~NewToken(to, jar)
  BY <1>2 DEF Callback, To, NewToken
<1> HIDE DEF to
<1>4. TabsOK' /\ OneToken'
  BY <1>1, <1>2, <1>3, SendKeeps DEF Authorize, to
<1>5. RestOK'
  BY DEF SignInInv, RestOK, Authorize
<1>6. QED
  BY <1>4, <1>5 DEF SignInInv

\* The answer of a tab arrives: with the first token, no other has one or is
\* about to get one.
LEMMA ReceiveKeeps == ASSUME SignInInv, NEW t \in Tabs, Receive(t) PROVE SignInInv'
<1> DEFINE a == tab[t]
           cookies == [k \in DOMAIN jar |->
                         IF k \in DOMAIN a.sets THEN a.sets[k] ELSE jar[k]]
           x == CASE a.shown -> Shown(a.next.url, IF a.form = None THEN cookies.csrf
                                                                   ELSE a.form)
                  [] a.next.url = "github" -> [at |-> "github", state |-> a.next.state]
                  [] OTHER -> [at |-> "sent", to |-> a.next, form |-> None,
                               jar |-> cookies]
<1>1. /\ TabsOK /\ RestOK /\ OneToken /\ jar \in Jars /\ DOMAIN jar = Cookies
      /\ a.at = "answered" /\ a.next \in To /\ a.form \in MaybeIds
      /\ a.shown => a.next.url \in Pages
      /\ \A k \in DOMAIN a.sets : a.sets[k] \in MaybeIds
      /\ "csrf" \in DOMAIN a.sets => a.sets["csrf"] \in Ids
  BY DEF SignInInv, TabsOK, TabOK, Receive, Jars
<1>2. /\ jar' = cookies /\ tab' = [tab EXCEPT ![t] = x] /\ rotated' = rotated
      /\ raced' = (raced \/ (~a.shown /\ cookies.csrf = None /\ Race(t, a.next)))
      /\ used' \subseteq used
      /\ UNCHANGED <<sessions, account, terms, rotated, visits, faults>>
  BY DEF Receive
<1>3. cookies \in Jars /\ cookies.csrf \in MaybeIds
      /\ cookies.csrf = IF "csrf" \in DOMAIN a.sets THEN a.sets["csrf"] ELSE jar.csrf
  BY <1>1 DEF Jars, Cookies
<1> HIDE DEF cookies
<1>4. TabOK(x)
  <2>1. CASE a.shown
    <3>1. a.next.url # "github"
      BY <1>1, <2>1 DEF Pages
    <3>2. x = Shown(a.next.url, IF a.form = None THEN cookies.csrf ELSE a.form)
      BY <2>1, <3>1
    <3>3. QED
      BY <1>1, <1>3, <2>1, <3>2 DEF Shown, TabOK
  <2>2. CASE ~a.shown /\ a.next.url = "github"
    <3>1. a.next.state \in MaybeIds
      BY <1>1 DEF To
    <3>2. x = [at |-> "github", state |-> a.next.state]
      BY <2>2
    <3>3. x.at = "github" /\ x.state \in MaybeIds
      BY <3>1, <3>2
    <3>4. QED
      BY <3>3, Zenon DEF TabOK
  <2>3. CASE ~a.shown /\ a.next.url # "github"
    BY <1>1, <1>3, <2>3 DEF TabOK, MaybeIds
  <2>4. QED
    BY <2>1, <2>2, <2>3
<1>5. TabsOK'
  BY <1>1, <1>2, <1>3, <1>4, TabMoves
<1>6. RestOK'
  <2>1. raced' \in BOOLEAN
    BY <1>2 DEF Race
  <2>2. QED
    BY <1>1, <1>2, <2>1 DEF RestOK
<1>7. ASSUME ~rotated, ~raced'
      PROVE  OneToken'
  <2>1. ~raced /\ Fits(a, jar.csrf) /\ \A u \in Tabs : Fits(tab[u], jar.csrf)
    BY <1>1, <1>2, <1>7 DEF OneToken
  <2>2. a.form \in {None, cookies.csrf}
    BY <1>1, <1>3, <2>1 DEF Fits
  <2>3. Bears(x) => ~a.shown /\ cookies.csrf = None /\ NewToken(a.next, cookies)
    BY DEF Bears, Shown, NewToken
  <2>4. Fits(x, cookies.csrf)
    <3>1. CASE a.shown
      BY <2>2, <3>1 DEF Fits, Bears, Shown
    <3>2. CASE ~a.shown /\ a.next.url = "github"
      BY <3>2 DEF Fits, Bears
    <3>3. CASE ~a.shown /\ a.next.url # "github"
      BY <3>3 DEF Fits, Bears, NewToken
    <3>4. QED
      BY <3>1, <3>2, <3>3
  <2> HIDE DEF x
  <2>5. CASE "csrf" \in DOMAIN a.sets
    <3>1. Bears(a) /\ jar.csrf = None /\ cookies.csrf # None
      BY <1>1, <1>3, <2>1, <2>5, SignInAssumption DEF Bears, Fits, None
    <3>2. \A u \in Tabs : u # t => ~Bears(tab[u])
      BY <1>1, <1>2, <1>7, <3>1 DEF OneToken
    <3>3. ~Bears(x)
      BY <2>3, <3>1
    <3>4. \A u \in Tabs : u # t => Fits(tab[u], cookies.csrf)
      <4>1. TAKE u \in Tabs
      <4>2. HAVE u # t
      <4>3. Fits(tab[u], None) /\ ~Bears(tab[u])
        BY <2>1, <3>1, <3>2, <4>2
      <4>4. QED
        BY <4>3 DEF Fits, Bears
    <3>5. tab'[t] = x /\ \A u \in Tabs : u # t => tab'[u] = tab[u]
      BY <1>1, <1>2, TabMoves
    <3>6. \A u \in Tabs : Fits(tab'[u], jar'.csrf)
      BY <1>2, <2>4, <3>4, <3>5
    <3>7. \A u \in Tabs : ~Bears(tab'[u])
      BY <3>2, <3>3, <3>5
    <3>8. QED
      BY <3>6, <3>7 DEF OneToken
  <2>6. CASE "csrf" \notin DOMAIN a.sets
    <3>1. cookies.csrf = jar.csrf
      BY <1>3, <2>6
    <3>2. Bears(x) => \A u \in Tabs : u # t => ~Bears(tab[u])
      <4>1. SUFFICES ASSUME Bears(x) PROVE \A u \in Tabs : u # t => ~Bears(tab[u])
        OBVIOUS
      <4>2. ~Race(t, a.next) /\ NewToken(a.next, jar)
        BY <1>2, <1>7, <2>3, <3>1, <4>1 DEF NewToken
      <4>3. QED
        BY <4>2, RaceNoted
    <3>3. tab'[t] = x /\ \A u \in Tabs : u # t => tab'[u] = tab[u]
      BY <1>1, <1>2, TabMoves
    <3>4. \A u \in Tabs : Fits(tab'[u], jar'.csrf)
      BY <1>2, <2>1, <2>4, <3>1, <3>3
    <3>5. \A u, v \in Tabs : Bears(tab'[u]) /\ Bears(tab'[v]) => u = v
      BY <1>1, <1>2, <1>7, <3>2, <3>3 DEF OneToken
    <3>6. QED
      BY <3>4, <3>5 DEF OneToken
  <2>7. QED
    BY <2>5, <2>6
<1>8. rotated \/ raced' => OneToken'
  BY <1>2 DEF OneToken
<1>9. QED
  BY <1>5, <1>6, <1>7, <1>8 DEF SignInInv

-----------------------------------------------------------------------------
(* Signing in: the server *)

\* An answer that brings no CSRF cookie.
LEMMA PlainReply ==
  ASSUME SignInInv, NEW t \in Tabs, tab[t].at = "sent", UNCHANGED <<jar, rotated, raced>>,
         NEW sets, NEW next \in To, NEW shown, shown => next.url \in Pages,
         Reply(t, sets, next, shown, None),
         DOMAIN sets \subseteq Cookies \ {"csrf"},
         \A k \in DOMAIN sets : sets[k] \in MaybeIds
  PROVE  TabsOK' /\ OneToken'
<1> DEFINE x == [at |-> "answered", to |-> tab[t].to, sets |-> sets, next |-> next,
                 shown |-> shown, form |-> None]
<1>1. tab' = [tab EXCEPT ![t] = x] /\ TabsOK /\ OneToken /\ jar' = jar /\ jar \in Jars
  BY DEF Reply, SignInInv, TabsOK
<1>2. tab[t].to \in To
  BY <1>1 DEF TabsOK, TabOK
<1>3. TabOK(x) /\ Fits(x, jar.csrf) /\ ~Bears(x)
  <2>1. TabOK(x)
    BY <1>2 DEF TabOK, MaybeIds
  <2>2. ~Bears(x) /\ Fits(x, jar.csrf)
    BY DEF Bears, Fits
  <2>3. QED
    BY <2>1, <2>2
<1> HIDE DEF x
<1>4. TabsOK'
  BY <1>1, <1>3, TabMoves
<1>5. CASE rotated \/ raced
  BY <1>4, <1>5 DEF OneToken
<1>6. CASE ~rotated /\ ~raced
  BY <1>1, <1>3, <1>4, <1>6, TokenKept
<1>7. QED
  BY <1>5, <1>6

\* A page with the browser's token, or with a first one.
LEMMA TokenReply ==
  ASSUME SignInInv, NEW t \in Tabs, tab[t].at = "sent", UNCHANGED <<jar, rotated, raced>>,
         NEW page \in {"tos", "dashboard", "settings"},
         tab[t].to.url \in {"tos", "dashboard", "settings"},
         ShowWithToken(t, page)
  PROVE  TabsOK' /\ OneToken'
<1>1. PICK token \in Ids :
        /\ InjectCSRF(t, token)
        /\ Show(t, IF token = tab[t].jar.csrf THEN Kept ELSE [k \in {"csrf"} |-> token],
                page, IF page = "settings" THEN token ELSE None)
  BY DEF ShowWithToken
<1> DEFINE sets == IF token = tab[t].jar.csrf THEN Kept ELSE [k \in {"csrf"} |-> token]
           form == IF page = "settings" THEN token ELSE None
           x == [at |-> "answered", to |-> tab[t].to, sets |-> sets, next |-> At(page),
                 shown |-> TRUE, form |-> form]
<1>2. tab' = [tab EXCEPT ![t] = x] /\ TabsOK /\ OneToken /\ jar' = jar /\ jar \in Jars
  BY <1>1 DEF Reply, Show, SignInInv, TabsOK
<1>3. tab[t].to \in To /\ tab[t].jar \in Jars
  BY <1>2 DEF TabsOK, TabOK
<1>4. /\ "csrf" \in DOMAIN sets <=> token # tab[t].jar.csrf
      /\ DOMAIN sets \subseteq {"csrf"} /\ \A k \in DOMAIN sets : sets[k] = token
      /\ form \in {None, token} /\ None # token
  BY SignInAssumption DEF Kept, None
<1>5. At(page) \in To /\ page \in Pages /\ At(page).url = page
  BY AtIsTo DEF Pages
<1> HIDE DEF sets, form
<1>6. TabOK(x)
  BY <1>3, <1>4, <1>5 DEF TabOK, MaybeIds, Cookies
<1>7. Bears(x) => tab[t].jar.csrf = None
  BY <1>1, <1>4 DEF Bears, InjectCSRF
<1>8. Bears(x) => Bears(tab[t])
  BY <1>7 DEF Bears, NewToken
<1>9. ASSUME Fits(tab[t], jar.csrf) PROVE Fits(x, jar.csrf)
  <2>1. tab[t].jar.csrf \in {None, jar.csrf}
    BY <1>9 DEF Fits
  <2>2. CASE token = tab[t].jar.csrf
    BY <1>4, <2>1, <2>2 DEF Fits, Bears
  <2>3. CASE token # tab[t].jar.csrf
    BY <1>4, <1>8, <1>9, <2>3 DEF Fits
  <2>4. QED
    BY <2>2, <2>3
<1> HIDE DEF x
<1>10. TabsOK'
  BY <1>2, <1>6, TabMoves
<1>11. CASE rotated \/ raced
  BY <1>10, <1>11 DEF OneToken
<1>12. CASE ~rotated /\ ~raced
  BY <1>2, <1>8, <1>9, <1>10, <1>12, TokenKept DEF OneToken
<1>13. QED
  BY <1>11, <1>12

LEMMA Redirected ==
  ASSUME SignInInv, NEW t \in Tabs, tab[t].at = "sent", UNCHANGED <<jar, rotated, raced>>,
         \/ \E url \in Pages \cup {"start"} :
              \/ Redirect(t, Kept, url) \/ Redirect(t, Cleared, url)
              \/ Redirect(t, [k \in {"state"} |-> None], url)
              \/ \E s \in Ids : Redirect(t, SetSessionCookie(s), url)
         \/ ClearAndRedirect(t) \/ TurnedAway(t)
         \/ \E page \in Pages : Show(t, Kept, page, None)
  PROVE  TabsOK' /\ OneToken'
<1>1. \A url \in Pages \cup {"start"} : At(url) \in To /\ At(url).url = url
  BY AtIsTo
<1>2. ASSUME NEW url \in Pages \cup {"start"}, NEW sets, Redirect(t, sets, url),
             DOMAIN sets \subseteq {"state", "session"},
             \A k \in DOMAIN sets : sets[k] \in MaybeIds
      PROVE  TabsOK' /\ OneToken'
  <2>1. DOMAIN sets \subseteq Cookies \ {"csrf"}
    BY <1>2 DEF Cookies
  <2>2. At(url) \in To /\ Reply(t, sets, At(url), FALSE, None)
    BY <1>1, <1>2 DEF Redirect
  <2>3. QED
    BY <1>2, <2>1, <2>2, PlainReply
<1>3. ASSUME NEW s \in MaybeIds
      PROVE  /\ DOMAIN SetSessionCookie(s) \subseteq {"state", "session"}
             /\ \A k \in DOMAIN SetSessionCookie(s) : SetSessionCookie(s)[k] \in MaybeIds
  BY DEF SetSessionCookie, MaybeIds
<1>4. ASSUME NEW S \in SUBSET {"state", "session"}
      PROVE  /\ DOMAIN [x \in S |-> None] \subseteq {"state", "session"}
             /\ \A k \in DOMAIN [x \in S |-> None] : [x \in S |-> None][k] \in MaybeIds
  BY DEF MaybeIds
<1>5. ASSUME NEW url \in Pages \cup {"start"}, NEW S \in SUBSET {"state", "session"},
             Redirect(t, [k \in S |-> None], url)
      PROVE  TabsOK' /\ OneToken'
  BY <1>2, <1>4, <1>5
<1>6. CASE \E url \in Pages \cup {"start"} : Redirect(t, Kept, url)
  BY <1>5, <1>6 DEF Kept
<1>7. CASE \E url \in Pages \cup {"start"} : Redirect(t, Cleared, url)
  BY <1>5, <1>7 DEF Cleared
<1>8. CASE \E url \in Pages \cup {"start"} : Redirect(t, [k \in {"state"} |-> None], url)
  BY <1>5, <1>8
<1>9. CASE \E url \in Pages \cup {"start"} : \E s \in Ids :
             Redirect(t, SetSessionCookie(s), url)
  BY <1>2, <1>3, <1>9 DEF MaybeIds
<1>10. CASE ClearAndRedirect(t)
  BY <1>5, <1>10 DEF ClearAndRedirect, Pages
<1>11. CASE TurnedAway(t)
  BY <1>6, <1>7, <1>11 DEF TurnedAway
<1>12. CASE \E page \in Pages : Show(t, Kept, page, None)
  <2>1. PICK page \in Pages : Reply(t, Kept, At(page), TRUE, None)
    BY <1>12 DEF Show
  <2>2. /\ DOMAIN Kept \subseteq Cookies \ {"csrf"}
        /\ \A k \in DOMAIN Kept : Kept[k] \in MaybeIds
    BY DEF Kept
  <2>3. QED
    BY <1>1, <2>1, <2>2, PlainReply
<1>13. QED
  BY <1>6, <1>7, <1>8, <1>9, <1>10, <1>11, <1>12

LEMMA ServerKeeps == ASSUME SignInInv, NEW t \in Tabs, Server(t) PROVE SignInInv'
<1>1. RestOK /\ tab[t].at = "sent" /\ jar' = jar
  BY DEF SignInInv, Server, Handle, LandingHandler, TosPageHandler, DashboardHandler,
         AdminDashboardHandler, OauthStartHandler, OauthCallbackHandler,
         SignoutHandler, TosAcceptHandler
<1>2. faults \in 0..MaxFaults /\ Fault => faults' \in 0..MaxFaults
  BY SignInAssumption DEF Fault
<1>3. CASE LandingHandler(t)
  <2>1. TabsOK' /\ OneToken'
    BY <1>1, <1>3, Redirected DEF LandingHandler, Pages
  <2>2. QED
    BY <1>1, <1>3, <2>1 DEF SignInInv, RestOK, LandingHandler
<1>4. CASE TosPageHandler(t)
  <2>1. TabsOK' /\ OneToken'
    BY <1>1, <1>4, Redirected, TokenReply DEF TosPageHandler, Pages, Handle
  <2>2. QED
    BY <1>1, <1>4, <2>1 DEF SignInInv, RestOK, TosPageHandler
<1>5. CASE DashboardHandler(t)
  <2>1. TabsOK' /\ OneToken'
    BY <1>1, <1>5, Redirected, TokenReply DEF DashboardHandler, Handle
  <2>2. QED
    BY <1>1, <1>5, <2>1 DEF SignInInv, RestOK, DashboardHandler
<1>6. CASE AdminDashboardHandler(t)
  <2>1. RestOK'
    BY <1>1, <1>6 DEF RestOK, AdminDashboardHandler
  <2>2. CASE Show(t, Kept, "landing", None) /\ UNCHANGED rotated
    BY <1>1, <1>6, <2>1, <2>2, Redirected DEF AdminDashboardHandler, SignInInv, Pages
  <2>3. CASE rotated' = TRUE /\ \E token \in FreshIds :
                                  Show(t, [k \in {"csrf"} |-> token], "admin", token)
    <3>1. PICK token \in Ids : Show(t, [k \in {"csrf"} |-> token], "admin", token)
      BY <2>3, FreshAreIds
    <3> DEFINE x == [at |-> "answered", to |-> tab[t].to,
                     sets |-> [k \in {"csrf"} |-> token],
                     next |-> At("admin"), shown |-> TRUE, form |-> token]
    <3>2. tab' = [tab EXCEPT ![t] = x] /\ TabsOK
      BY <3>1 DEF Show, Reply, SignInInv
    <3>3. tab[t].to \in To /\ At("admin") \in To /\ At("admin").url \in Pages
      BY <1>1, <3>2, AtIsTo DEF TabsOK, TabOK, Pages
    <3>4. TabOK(x)
      BY <3>3 DEF TabOK, Cookies, MaybeIds
    <3> HIDE DEF x
    <3>5. TabsOK'
      BY <1>1, <3>2, <3>4, TabMoves DEF TabsOK
    <3>6. OneToken'
      BY <2>3 DEF OneToken
    <3>7. QED
      BY <2>1, <3>5, <3>6 DEF SignInInv
  <2>4. QED
    BY <1>6, <2>2, <2>3 DEF AdminDashboardHandler
<1>7. CASE OauthStartHandler(t)
  <2>1. PICK state \in Ids :
          Reply(t, [k \in {"state"} |-> state],
                [url |-> "github", state |-> state, code |-> None], FALSE, None)
    BY <1>7, FreshAreIds DEF OauthStartHandler
  <2> DEFINE sets == [k \in {"state"} |-> state]
  <2>2. /\ [url |-> "github", state |-> state, code |-> None] \in To
        /\ DOMAIN sets \subseteq Cookies \ {"csrf"}
        /\ \A k \in DOMAIN sets : sets[k] \in MaybeIds
    BY DEF To, Cookies, MaybeIds
  <2>3. TabsOK' /\ OneToken'
    BY <1>1, <1>7, <2>1, <2>2, PlainReply DEF OauthStartHandler
  <2>4. QED
    BY <1>1, <1>7, <2>3 DEF SignInInv, RestOK, OauthStartHandler
<1>8. CASE OauthCallbackHandler(t)
  <2>1. \/ ClearAndRedirect(t)
        \/ Redirect(t, [k \in {"state"} |-> None], "dashboard")
        \/ \E s \in Ids :
             Redirect(t, SetSessionCookie(s), IF terms THEN "dashboard" ELSE "tos")
    BY <1>8, FreshAreIds DEF OauthCallbackHandler
  <2>2. UNCHANGED <<jar, rotated, raced, visits>>
    BY <1>8 DEF OauthCallbackHandler
  <2>3. TabsOK' /\ OneToken'
    BY <1>1, <2>1, <2>2, Redirected DEF Pages
  <2>4. faults' \in 0..MaxFaults
    BY <1>1, <1>2, <1>8 DEF OauthCallbackHandler, RestOK
  <2>5. used' \subseteq Ids
    <3>1. tab[t].to.code \in Ids
      BY <1>8 DEF OauthCallbackHandler, Handle, SignInInv, TabsOK, TabOK, To
    <3>2. used' \subseteq used \cup {tab[t].to.code}
      BY <1>8 DEF OauthCallbackHandler
    <3>3. QED
      BY <1>1, <3>1, <3>2 DEF RestOK
  <2>6. /\ sessions' \subseteq Ids /\ account' \in {"absent", "active", "suspended"}
        /\ account' = "absent" => sessions' = {} /\ ~terms' 
        /\ terms' = terms
    BY <1>1, <1>8, FreshAreIds DEF OauthCallbackHandler, RestOK
  <2>7. QED
    BY <1>1, <2>2, <2>3, <2>4, <2>5, <2>6 DEF SignInInv, RestOK
<1>9. CASE SignoutHandler(t)
  <2>1. TabsOK' /\ OneToken'
    BY <1>1, <1>9, Redirected DEF SignoutHandler, Pages
  <2>2. RestOK'
    BY <1>1, <1>2, <1>9 DEF RestOK, SignoutHandler
  <2>3. QED
    BY <2>1, <2>2 DEF SignInInv
<1>10. CASE TosAcceptHandler(t)
  <2>1. TabsOK' /\ OneToken'
    BY <1>1, <1>10, Redirected DEF TosAcceptHandler, Pages
  <2>2. RestOK'
    <3>1. CASE UNCHANGED terms
      BY <1>1, <1>2, <1>10, <3>1 DEF RestOK, TosAcceptHandler
    <3>2. CASE terms' = TRUE /\ RequireAuth(t)
      BY <1>1, <1>2, <1>10, <3>2 DEF RestOK, TosAcceptHandler, RequireAuth
    <3>3. QED
      BY <1>10, <3>1, <3>2 DEF TosAcceptHandler
  <2>3. QED
    BY <2>1, <2>2 DEF SignInInv
<1>11. QED
  BY <1>3, <1>4, <1>5, <1>6, <1>7, <1>8, <1>9, <1>10 DEF Server

LEMMA OthersKeep ==
  ASSUME SignInInv, Expire \/ Administer \/ UNCHANGED signInVars
  PROVE  SignInInv'
<1>1. TabsOK' /\ OneToken'
  BY DEF SignInInv, TabsOK, OneToken, Expire, Administer, signInVars
<1>2. visits \in 0..MaxVisits /\ Visit => visits' \in 0..MaxVisits
  BY SignInAssumption DEF Visit
<1>3. CASE Expire
  BY <1>1, <1>2, <1>3 DEF SignInInv, RestOK, Expire
<1>4. CASE Administer
  <2>1. /\ sessions' \subseteq Ids /\ account' \in {"absent", "active", "suspended"}
        /\ account' = "absent" => sessions' = {} /\ ~terms'
        /\ {terms', rotated', raced'} \subseteq BOOLEAN
    BY <1>4 DEF SignInInv, RestOK, Administer
  <2>2. QED
    BY <1>1, <1>2, <1>4, <2>1 DEF SignInInv, RestOK, Administer
<1>5. CASE UNCHANGED signInVars
  BY <1>1, <1>5 DEF SignInInv, RestOK, signInVars
<1>6. QED
  BY <1>3, <1>4, <1>5

\* In every tab the form's token stays the cookie's, however pages, sign-ins and
\* sign-outs of the tabs overlap, unless an admin page was opened or two first
\* pages were requested together (InjectCSRF, ValidateCSRF, oauthCallbackHandler).
THEOREM FormsValid == SignInSpec => []FormsStayValid
<1>1. SignInInv /\ [SignInNext]_signInVars => SignInInv'
  BY UserKeeps, ServerKeeps, ReceiveKeeps, AuthorizeKeeps, OthersKeep DEF SignInNext
<1>2. SignInInv => FormsStayValid
  BY ToldTypes DEF SignInInv, FormsStayValid, OneToken, Fits
<1>3. QED
  BY <1>1, <1>2, SignInStart, PTL DEF SignInSpec

=============================================================================
