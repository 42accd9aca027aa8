-------------------------------- MODULE Scorer --------------------------------
(***************************************************************************)
(* The background scorer (pkg/background/scorer.go) over the scoring queue *)
(* (pkg/data/postgres/queue.go) and the stale part of the reputation table *)
(* (stale.go).  Each server instance runs one scorer: a loop that dequeues *)
(* a batch, scores it in goroutines, puts back what a dry token pool left  *)
(* unscored and, when nothing was scored, rescores stale contributors.     *)
(*                                                                         *)
(* Rows are ordered by a timestamp (queued_at, scored_at).  An order is    *)
(* kept as the set of contributors that come before each one, which is     *)
(* bounded, where a timestamp is not.                                      *)
(***************************************************************************)
EXTENDS Integers, FiniteSets

CONSTANTS
  Scorers,       \* server instances
  Contributors,  \* contributors a request may name
  BatchSize,     \* SCORER_BATCH_SIZE
  Concurrency,   \* SCORER_CONCURRENCY
  Tokens,        \* tokens in the pool of each instance
  Reserve,       \* SCORER_TOKEN_RESERVE
  Floor,         \* bound: the spendable tokens that other traffic leaves
  Mortal         \* bound: the instances that are shut down or restarted

ASSUME ScorerAssumption ==
  /\ IsFiniteSet(Contributors)
  /\ BatchSize \in Nat \ {0}
  /\ Concurrency \in Nat \ {0}
  /\ Tokens \in Nat
  /\ Reserve \in Nat
  /\ Floor \in Nat
  /\ Mortal \subseteq Scorers

VARIABLES
  queue,   \* the priority of each queued contributor; 0: no row
  ahead,   \* the contributors queued before each one (queued_at)
  rated,   \* contributors with a reputation row
  stale,   \* those whose score is older than its threshold
  older,   \* the contributors scored before each one (scored_at)
  pc,      \* where each scorer is in its loop
  entry,   \* the progress of each contributor through a scorer's batch
  prio,    \* the priority a contributor of the batch was dequeued with
  scored,  \* the batch has scored somebody
  free,    \* spendable tokens of the instance
  done,    \* the scorer's ctx is done
  owed     \* history: contributors whose latest request is still open

store == <<queue, ahead, rated, stale, older>>
batch == <<entry, prio, scored>>
vars == <<queue, ahead, rated, stale, older, pc, entry, prio, scored, free,
          done, owed>>

-----------------------------------------------------------------------------
(* The queue *)

NoRow == 0
Newcomer == 1     \* the priority of a contributor without a score
Returning == 3    \* and of one that has been scored
Priority == {Newcomer, Returning}

Queued == {c \in Contributors : queue[c] # NoRow}

\* c becomes the last of S in an order.
MoveLast(order, S, c) ==
  [d \in Contributors |-> IF d = c THEN S \ {c} ELSE order[d] \ {c}]

\* The members of D leave an order.
Leave(order, D) ==
  [c \in Contributors |-> IF c \in D THEN {} ELSE order[c] \ D]

\* A row does not exist yet, or is upgraded.
\* Upgrades_Always is a seeded fault: every conflict counts as an upgrade.
Upgrades_Always(c, p) == TRUE
Upgrades(c, p) == queue[c] = NoRow \/ p < queue[c]

\* LEAST(devtrace_scoring_queue.priority, EXCLUDED.priority).
\* Merged_Latest is a seeded fault: the latest request decides.
Merged_Latest(c, p) == p
Merged(c, p) == IF queue[c] = NoRow \/ p < queue[c] THEN p ELSE queue[c]

\* queued_at moves only with an upgrade.
EnqueueForScoring(c, p) ==
  /\ queue' = [queue EXCEPT ![c] = Merged(c, p)]
  /\ ahead' = IF Upgrades(c, p) THEN MoveLast(ahead, Queued, c) ELSE ahead

Sooner(c, d) == queue[c] < queue[d] \/ (queue[c] = queue[d] /\ c \in ahead[d])

\* LIMIT: B fills a batch from S as far as it can.
Fills(B, S) ==
  Cardinality(B) = IF Cardinality(S) < BatchSize THEN Cardinality(S)
                                                 ELSE BatchSize

\* DELETE ... RETURNING of the most urgent rows.  SKIP LOCKED passes over the
\* rows another statement is changing.
DequeueForScoring(B, locked) ==
  /\ Fills(B, Queued \ locked)
  /\ \A c \in B, d \in Queued \ (locked \cup B) : Sooner(c, d)
  /\ queue' = [c \in Contributors |-> IF c \in B THEN NoRow ELSE queue[c]]
  /\ ahead' = Leave(ahead, B)

-----------------------------------------------------------------------------
(* The reputation table *)

GetStaleContributors(B) ==
  /\ Fills(B, stale)
  /\ \A c \in B, d \in stale \ B : c \in older[d]

\* UpdateReputation inserts or updates the row, with scored_at = NOW().
UpdateReputation(c) ==
  /\ rated' = rated \cup {c}
  /\ stale' = stale \ {c}
  /\ older' = MoveLast(older, rated, c)

\* BumpScoredAt moves scored_at of an existing row.
\* BumpScoredAt_Nothing is a seeded fault: the update matches no row.
BumpScoredAt_Nothing(c) == UNCHANGED <<rated, stale, older>>
BumpScoredAt(c) ==
  /\ stale' = stale \ {c}
  /\ older' = MoveLast(older, rated, c)
  /\ UNCHANGED rated

-----------------------------------------------------------------------------
(* One batch *)

EntryState ==
  {"out", "waiting", "next", "running", "settled", "outOfTokens", "dry"}
In(s, states) == {c \in Contributors : entry[s][c] \in states}

\* The flag `dry`, set when an attempt ends in ErrNoTokens.
Dry(s) == In(s, {"dry"}) # {}

\* settled[i] is false.
\* Unscored_Attempted is a seeded fault: entries that were never spawned are
\* forgotten.
Unscored_Attempted(s) == In(s, {"running", "dry"})
Unscored(s) == In(s, {"waiting", "next", "running", "dry"})

\* Dequeued by s, with no decision yet.
InHand(s) == IF pc[s] \in {"drain", "requeue"}
             THEN In(s, {"waiting", "next", "running", "dry"}) ELSE {}

\* Somebody else still holds a request for c.
HeldBesides(s, c) ==
  queue[c] # NoRow \/ \E r \in Scorers \ {s} : c \in InHand(r)

\* The requests of D that s holds are closed.
Close(s, D) == owed' = owed \ {c \in D : ~HeldBesides(s, c)}

\* A batch of B begins, or the batch is over.
NoBatch == [c \in Contributors |-> "out"]
NoPrio == [c \in Contributors |-> NoRow]
Load(s, B, p) ==
  /\ entry' = [entry EXCEPT ![s] =
       [c \in Contributors |-> IF c \in B THEN "waiting" ELSE "out"]]
  /\ prio' = [prio EXCEPT ![s] =
       [c \in Contributors |-> IF c \in B THEN p[c] ELSE NoRow]]
  /\ UNCHANGED scored
Unload(s) ==
  /\ entry' = [entry EXCEPT ![s] = NoBatch]
  /\ prio' = [prio EXCEPT ![s] = NoPrio]
  /\ scored' = [scored EXCEPT ![s] = FALSE]

Advance(s, c, state) == entry' = [entry EXCEPT ![s][c] = state]
At(s, label) == pc' = [pc EXCEPT ![s] = label]

-----------------------------------------------------------------------------
(* The loop: drainQueue *)

\* tokenPause: the loop sleeps while spendable tokens are down to the reserve.
\* The sampled quota check only delays the batch further.
MayStart(s) == pc[s] = "top" /\ ~done[s] /\ free[s] > Reserve

Dequeue(s, locked) ==
  /\ MayStart(s)
  /\ Queued \ locked # {}
  /\ \E B \in SUBSET (Queued \ locked) :
       /\ DequeueForScoring(B, locked)
       /\ Load(s, B, queue)
  /\ At(s, "drain")
  /\ UNCHANGED <<rated, stale, older, free, done, owed>>

\* The queue is empty or all of it locked, or the query fails.
DequeueNothing(s) ==
  /\ MayStart(s)
  /\ At(s, "stale")
  /\ UNCHANGED <<store, batch, free, done, owed>>

\* The rows are deleted and the connection fails before they are read: the
\* caller sees an error and no rows.
DequeueLost(s, locked) ==
  /\ MayStart(s)
  /\ \E B \in SUBSET (Queued \ locked) :
       /\ DequeueForScoring(B, locked)
       /\ owed' = owed \ {c \in B : \A r \in Scorers : c \notin InHand(r)}
  /\ At(s, "stale")
  /\ UNCHANGED <<rated, stale, older, batch, free, done>>

HasRoom(s) == Cardinality(In(s, {"running"})) < Concurrency

\* The loop takes up the next entry, unless the ctx is done or an attempt has found
\* the pool dry.
MayTakeUp(s, c) ==
  entry[s][c] = "waiting" /\ In(s, {"next"}) = {} /\ ~done[s] /\ ~Dry(s)

\* It may wait at the semaphore,
TakeUp(s, c) ==
  /\ pc[s] \in {"drain", "rescore"} /\ MayTakeUp(s, c)
  /\ Advance(s, c, "next")
  /\ UNCHANGED <<store, pc, prio, scored, free, done, owed>>

\* and starts the goroutine, at once or when there is room, dry or not by then.
Spawn(s, c) ==
  /\ pc[s] \in {"drain", "rescore"}
  /\ MayTakeUp(s, c) \/ (entry[s][c] = "next" /\ ~done[s])
  /\ HasRoom(s)
  /\ Advance(s, c, "running")
  /\ UNCHANGED <<store, pc, prio, scored, free, done, owed>>

\* A decision about c: settled[i] in drainQueue, nothing in rescoreStale.
Decide(s, c, state) ==
  /\ entry[s][c] = "running"
  /\ Advance(s, c, state)
  /\ IF pc[s] = "drain" THEN Close(s, {c}) ELSE UNCHANGED owed
  /\ UNCHANGED <<queue, ahead, pc, prio, done>>

\* scoreContributor succeeds, perhaps with a token that another request has
\* exhausted since.
Scores(s, c) ==
  /\ Decide(s, c, "settled")
  /\ UpdateReputation(c)
  /\ scored' = [scored EXCEPT ![s] = TRUE]
  /\ UNCHANGED free

\* isTerminalError: skipped in drainQueue, bumped in rescoreStale, where the
\* bump itself may fail.
Tombstones(s, c) ==
  /\ Decide(s, c, "settled")
  /\ IF pc[s] = "rescore" THEN BumpScoredAt(c)
                          ELSE UNCHANGED <<rated, stale, older>>
  /\ UNCHANGED <<scored, free>>

\* Any other error; that of a ctx that is done is one of them.
Fails(s, c) ==
  /\ Decide(s, c, "settled")
  /\ UNCHANGED <<rated, stale, older, scored, free>>

\* The attempt itself exhausts the last token.  poolDo answers "all tokens
\* exhausted", which is not ErrNoTokens.
SpendsLast(s, c) ==
  /\ Decide(s, c, "outOfTokens")
  /\ free[s] = 1
  /\ free' = [free EXCEPT ![s] = 0]
  /\ UNCHANGED <<rated, stale, older, scored>>

\* ErrNoTokens.
NoTokens(s, c) ==
  /\ entry[s][c] = "running"
  /\ free[s] = 0
  /\ Advance(s, c, "dry")
  /\ UNCHANGED <<store, pc, prio, scored, free, done, owed>>

\* wg.Wait() returns after the spawning loop has ended.
Joined(s) ==
  /\ In(s, {"running"}) = {}
  /\ done[s] \/ (In(s, {"next"}) = {} /\ (In(s, {"waiting"}) = {} \/ Dry(s)))

\* drainQueue returns the number it scored.
ScoredNone(s) == IF scored[s] THEN "top" ELSE "stale"

\* With a dry pool the unscored go back.  Without one, only a ctx that is done
\* leaves entries unscored, and those are forgotten.
FinishDrain(s) ==
  /\ pc[s] = "drain"
  /\ Joined(s)
  /\ IF Dry(s)
     THEN At(s, "requeue") /\ UNCHANGED <<batch, owed>>
     ELSE At(s, ScoredNone(s)) /\ Unload(s) /\ Close(s, InHand(s))
  /\ UNCHANGED <<store, free, done>>

\* requeueUnscored, one row at a time while others use the queue.
Requeue(s, c) ==
  /\ pc[s] = "requeue"
  /\ c \in Unscored(s)
  /\ ~done[s]
  /\ EnqueueForScoring(c, prio[s][c])
  /\ Advance(s, c, "out")
  /\ UNCHANGED <<rated, stale, older, pc, prio, scored, free, done, owed>>

\* The store refuses the row, as it does when the ctx is done: a warning.
RequeueRefused(s, c) ==
  /\ pc[s] = "requeue"
  /\ c \in Unscored(s)
  /\ Advance(s, c, "out")
  /\ Close(s, {c})
  /\ UNCHANGED <<store, pc, prio, scored, free, done>>

FinishRequeue(s) ==
  /\ pc[s] = "requeue"
  /\ Unscored(s) = {}
  /\ Unload(s)
  /\ At(s, ScoredNone(s))
  /\ UNCHANGED <<store, free, done, owed>>

-----------------------------------------------------------------------------
(* The loop: rescoreStale *)

StartRescore(s) ==
  /\ pc[s] = "stale"
  /\ ~done[s]
  /\ stale # {}
  /\ \E B \in SUBSET stale : GetStaleContributors(B) /\ Load(s, B, NoPrio)
  /\ At(s, "rescore")
  /\ UNCHANGED <<store, free, done, owed>>

\* Nothing is stale, or the query fails: the loop sleeps and starts over.
RescoreNothing(s) ==
  /\ pc[s] = "stale"
  /\ At(s, "top")
  /\ UNCHANGED <<store, batch, free, done, owed>>

FinishRescore(s) ==
  /\ pc[s] = "rescore"
  /\ Joined(s)
  /\ Unload(s)
  /\ At(s, "top")
  /\ UNCHANGED <<store, free, done, owed>>

-----------------------------------------------------------------------------
(* Shutdown, restart and the rest of the system *)

Cancel(s) ==
  /\ s \in Mortal
  /\ ~done[s]
  /\ done' = [done EXCEPT ![s] = TRUE]
  /\ UNCHANGED <<store, batch, pc, free, owed>>

Stop(s) ==
  /\ pc[s] = "top"
  /\ done[s]
  /\ At(s, "stopped")
  /\ UNCHANGED <<store, batch, free, done, owed>>

\* The process ends, stopped or not, and is started again: what it had in hand
\* is gone, and its pool is new.
Restart(s) ==
  /\ s \in Mortal
  /\ Unload(s)
  /\ Close(s, InHand(s))
  /\ At(s, "top")
  /\ done' = [done EXCEPT ![s] = FALSE]
  /\ free' = [free EXCEPT ![s] = Tokens]
  /\ UNCHANGED store

\* queueContributors (pkg/ingest): the contributor has no reputation row, or
\* had none when it looked, or its look failed.
Ingest(c) ==
  /\ \E p \in {Newcomer} \cup (IF c \in rated THEN {Returning} ELSE {}) :
       EnqueueForScoring(c, p)
  /\ owed' = owed \cup {c}
  /\ UNCHANGED <<rated, stale, older, batch, pc, free, done>>

\* persistScore (pkg/server): an interactive request has scored c.
ScoredElsewhere(c) ==
  /\ UpdateReputation(c)
  /\ UNCHANGED <<queue, ahead, batch, pc, free, done, owed>>

\* A score passes its threshold; low ones do so sooner than high ones.
GrowStale(c) ==
  /\ c \in rated
  /\ stale' = stale \cup {c}
  /\ UNCHANGED <<queue, ahead, rated, older, batch, pc, free, done, owed>>

\* Other traffic of the instance exhausts a token; a reset or a refresh brings
\* one back.
TokenSpent(s) ==
  /\ free[s] > Floor
  /\ free' = [free EXCEPT ![s] = free[s] - 1]
  /\ UNCHANGED <<store, batch, pc, done, owed>>

TokenBack(s) ==
  /\ free[s] < Tokens
  /\ free' = [free EXCEPT ![s] = free[s] + 1]
  /\ UNCHANGED <<store, batch, pc, done, owed>>

-----------------------------------------------------------------------------
Init ==
  /\ queue = [c \in Contributors |-> NoRow]
  /\ ahead = [c \in Contributors |-> {}]
  /\ rated = {} /\ stale = {}
  /\ older = [c \in Contributors |-> {}]
  /\ pc = [s \in Scorers |-> "top"]
  /\ entry = [s \in Scorers |-> [c \in Contributors |-> "out"]]
  /\ prio = [s \in Scorers |-> [c \in Contributors |-> NoRow]]
  /\ scored = [s \in Scorers |-> FALSE]
  /\ free = [s \in Scorers |-> Tokens]
  /\ done = [s \in Scorers |-> FALSE]
  /\ owed = {}

Attempt(s, c) == Scores(s, c) \/ Tombstones(s, c) \/ Fails(s, c)
                   \/ SpendsLast(s, c) \/ NoTokens(s, c)

\* The steps the loop of s takes by itself.
Loop(s) ==
  \/ \E locked \in SUBSET Queued : Dequeue(s, locked) \/ DequeueLost(s, locked)
  \/ DequeueNothing(s)
  \/ \E c \in Contributors : TakeUp(s, c) \/ Spawn(s, c) \/ Attempt(s, c)
  \/ FinishDrain(s)
  \/ \E c \in Contributors : Requeue(s, c) \/ RequeueRefused(s, c)
  \/ FinishRequeue(s)
  \/ StartRescore(s) \/ RescoreNothing(s) \/ FinishRescore(s)
  \/ Stop(s)

Next ==
  \/ \E s \in Scorers :
       Loop(s) \/ Cancel(s) \/ Restart(s) \/ TokenSpent(s) \/ TokenBack(s)
  \/ \E c \in Contributors : Ingest(c) \/ ScoredElsewhere(c) \/ GrowStale(c)

Spec == Init /\ [][Next]_vars

\* The pool recovers beyond its reserve.
Recovers(s) == TokenBack(s) /\ free[s] >= Reserve

\* Every goroutine keeps running.  Other traffic neither holds the pool at its
\* reserve for ever, nor takes the tokens each time the loop looks or an attempt
\* is made; and neither the queries (with no row locked) nor the scoring of one
\* contributor fail for ever.
Fairness ==
  \A s \in Scorers :
    /\ WF_vars(Loop(s))
    /\ WF_vars(TokenBack(s)) /\ SF_vars(Recovers(s))
    /\ SF_vars(Dequeue(s, {}) \/ DequeueNothing(s)) /\ SF_vars(Dequeue(s, {}))
    /\ SF_vars(StartRescore(s) /\ free[s] > 0)
    /\ \A c \in Contributors :
         /\ SF_vars(Spawn(s, c) /\ free[s] > 0)
         /\ SF_vars((Scores(s, c) \/ Tombstones(s, c)) /\ free[s] > 0)

FairSpec == Spec /\ Fairness

-----------------------------------------------------------------------------
(* Properties *)

\* A request that nobody has decided, and that was lost neither with a process,
\* a ctx or a failing query, is in the queue or in a scorer's hands, whatever
\* requests, scorers and dry pools interleave: "anything left unscored by a dry
\* pool has to go back on the queue" (scorer.go:356-357).
OwedWorkIsHeld ==
  \A c \in owed : c \in Queued \/ \E s \in Scorers : c \in InHand(s)

\* The priorities somebody holds for c.
Held(c) == ({queue[c]} \ {NoRow})
             \cup {prio[s][c] : s \in {r \in Scorers : c \in InHand(r)}}

RequestMoves ==
  \/ \E s \in Scorers : \/ \E locked \in SUBSET Queued : Dequeue(s, locked)
                        \/ \E c \in Contributors : Requeue(s, c)
  \/ \E c \in Contributors : Ingest(c)

NoLessUrgent ==
  \A c \in Contributors : \A p \in Held(c) : \E q \in Held(c)' : q <= p

\* Moving a request between the queue and a batch never makes it less urgent,
\* whatever requests for the same contributor arrive while it is in a batch or
\* on its way back to the queue.
UrgencyKept == [][RequestMoves => NoLessUrgent]_vars

\* The queue is served in order: a newcomer's row is dequeued at last, however
\* many requests for it and for others keep arriving.
NewcomerServed ==
  \A c \in Contributors :
    queue[c] = Newcomer ~> queue[c] # Newcomer \/ \A s \in Scorers : done[s]

\* Once the queue stays empty, every stale score is renewed or tombstoned by a
\* scorer that keeps running: no contributor holds up the ones behind it.
StaleRenewed ==
  <>[](Queued = {}) => \A c \in Contributors : c \in stale ~> c \notin stale

\* "anything left unscored by a dry pool has to go back on the queue or the
\* work is lost" (scorer.go:356-357): when a batch is over, a contributor whose
\* attempt found no token left is queued again, unless the ctx is done.
DryWorkReturns ==
  [][\A s \in Scorers, c \in Contributors :
       /\ FinishDrain(s) \/ FinishRequeue(s)
       /\ entry[s][c] = "outOfTokens" /\ entry'[s][c] = "out" /\ ~done[s]
       => c \in Queued]_vars

=============================================================================
