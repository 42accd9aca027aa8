# DevTrace: specifications, model checking and proofs

DevTrace (Go, module `github.com/thingzio/devtrace`) scores open-source
contributors.  It ingests GH Archive hour by hour, queues the contributors that
touched a tenant's repositories, fetches their signals from GitHub with a pool
of tokens, stores a score, and serves scores, watchlists and digests over HTTP.
This directory holds TLA+ specifications of its protocols, the TLC
configurations that check them on small instances, and TLAPS proofs of what
holds for every instance.

    tlc -workers 2 -config scorer_one.cfg MCScorer     # one run
    tlapm Scorer_proofs.tla                            # one module of proofs

`PROJECT.json` lists components, runs, seeded faults, the lines of the source
each definition stands for, findings, hazards and theorems.

## Inventory

One process is one *instance*; several instances share one PostgreSQL
database.  `server.Run` (`pkg/server/server.go`) starts everything below.

| Component | State | Operations | Talks to |
|---|---|---|---|
| Token pool (`pkg/github/tokenpool.go`, `pool_refresh.go`) | entries, exhaustion deadlines, rotation cursor, one-slot refresh channel, time of the last refresh | `Token`, `Exhaust`, `InvalidateAuth`, `Replace`, `SignalRefresh`, `ActiveCount`, `NeedsRefresh`; refresh goroutine | pool client, webhook handler, scorer's pause |
| Pool client (`pool_client.go`) | cache of one API client per token, own lock | `poolDo` (retry loop), `ghClient`, `InvalidateTokens` | token pool, GitHub |
| Installation client (`installation.go`) | cached token, two mutexes | `ghClient` mints once for all waiters | GitHub |
| Background scorer (`pkg/background/scorer.go`) | batch in memory, `dry` and `settled` flags | `drainQueue`, `requeueUnscored`, `rescoreStale`, `tokenPause` | queue, reputation table, pool |
| Scoring queue, stale scores (`pkg/data/postgres/queue.go`, `stale.go`) | rows with priority and `queued_at`; `scored_at` | enqueue (merge), dequeue (delete and return), stale selection, bump | scorer, ingest, score handler |
| Ingest (`pkg/ingest`, `pkg/background/ingest.go`) | hour cursor, backfill cursor, daily marks | process an hour, backfill, compact, prune, digests | GH Archive, activity tables, queue, watchlists |
| Activity store (`activity.go`, `pr_events.go`) | one row per contributor and hour, later per week | additive upsert, compaction, pruning | ingest, score service |
| Watchlists and digests (`watchlist.go`, `pkg/watchlist`) | subscriptions, append-only events with a sent mark | notify, read unsent, mark sent, prune | ingest, scorer, mail |
| Score service (`pkg/service`) | time-limited cache of enrichments | score one contributor, enrich by plan | GitHub, third-party clients |
| Score handler and limits (`handler_score.go`, `handler_token.go`, `handler_watchlist.go`, `tenant/usage.go`, `plan.go`) | usage rows, tokens, entries | count then use | tenants, store |
| Rate limiter (`server/ratelimit.go`) | a counted window per key and limiter, cleanup goroutine | allow, retry-after | every request |
| OAuth login, cookies and forms (`handler_auth.go`, `handler_pages.go`, `pkg/oauth`, `middleware/csrf.go`) | sessions; state, session and CSRF cookies in the browser | start, callback, sign out, accept terms, the pages' redirects | GitHub, tenants |
| Tenants, sessions, API tokens (`pkg/tenant`, `pkg/middleware`) | rows with status, expiry, revocation | create, validate, revoke, plan change | handlers, webhook |
| Store and migrations (`postgres.go`, `migrate.go`) | schema version, tracked goroutines | migrate under an advisory lock, `Go`, `WaitBackground`, `Close` | everything |
| Score arithmetic (`pkg/score`) | none | `Compute`, `Grade` | scorer, service |
| Pages, admin, third-party clients, configuration | none of their own | rendering, HTTP calls, parsing | |

What is hard, and what makes each component correct:

* **Token pool.** Goroutines report a token after the pool has changed; the
  refresh loop swaps all entries under callers; deadlines pass at any time;
  GitHub may refuse any token at any request.  Correct: the cursor stays an
  index, the pool is never emptied, a reported token rests, every call ends,
  stale tokens leave.
* **Scorer and queue.** Rows are deleted before they are scored, the pool runs
  dry in mid-batch, ingest and other instances queue the same contributors
  meanwhile, the process may stop anywhere.  Correct: no open request is lost
  except with a process, it does not become less urgent, newcomers are served,
  stale scores are renewed.
* **Ingest.** Additive writes are not idempotent, the cursor moves after them,
  downloads are retried into a filled aggregator, compaction and pruning
  rewrite rows.  Correct: each hour is counted once or a bounded number of
  times, neither cursor passes an hour nobody took, compaction loses nothing,
  late archives are caught up with.
* **Digests.** Reading, sending and marking are three steps, in a loop that may
  fail or restart between any two, while others write events.  Correct: an
  event is not marked unless a digest covers it, it is mailed again only for a
  failure, and a tenant's digests are a week apart.
* **Limits.** Count-then-insert under concurrent requests, while plan, period
  and tenant change.  Correct: by how much a limit can be exceeded.
* **Rate limiter.** Windows are replaced, removed and read again under changing
  rates.  Correct: each limiter is a fixed window, and who waits for
  Retry-After is served.
* **Sign-in.** A request carries the cookies of the moment it is sent and its
  answer changes them later, while other tabs go on.  Correct: open forms stay
  valid, and redirects end.
* **Start and stop.** Replicas migrate one database together and may die
  anywhere; the store closes while requests have left writes behind.  Correct:
  a migration runs once, no replica waits for ever, tracked writes come first.
* **Installations.** Events are lost, repeated and overtake each other.
  Correct: else the rows follow GitHub.  Goroutines share one minted token.
* **Score service.** Two caches, overlapping calls, failing sources, plans.
  Correct: what an answer says was published, recently, and fits the plan.
* **Reputation.** Two writers of three rows with reads far from their writes.
  Correct: rows agree, watchers hear of changes, unless writers overlapped.

The hazards with their lines are in `PROJECT.json`.

## Modules

| Module | Models | Built on |
|---|---|---|
| `TokenPool` | `TokenPool`, `poolDo`, `runRefreshLoop`, the installation webhook's signal, time | |
| `PoolHistory` | the same with a record of what GitHub asked for | `TokenPool` |
| `PoolClient` | the same with the client cache and its lock | `TokenPool` |
| `Scorer` | the scorer, its queue and the stale part of the reputation table | |
| `Ingest` | the ingest loop: backfill, forward run, compaction and pruning, over the activity table and the sync state | |
| `Notifications` | watchlists, their events, digests and the pruning of events | |
| `RateLimiter` | the limiters of addresses, hours and bursts on the way of a request | |
| `FixedWindow` | abstract: what one limiter promises | |
| `SignIn` | one browser with several tabs, the login, sessions, cookies, redirects and forms | |
| `Lifecycle` | replicas from start to exit with the migrations and tracked writes | |
| `InstallationClient` | the client of a single installation | |
| `Installations` | the webhook and the rows it keeps | |
| `Limits` | quota, keys, plans and the tenant they belong to | |
| `ScoreService` | `ScoreService.Score`, its caches and sources, the cut to a plan | |
| `Reputation` | what one scoring reads, stores and announces | |
| `Score` | the arithmetic of `pkg/score` | |
| `Pool_proofs` | theorems | `PoolHistory`, `PoolClient` |
| `Scorer_proofs`, `Ingest_proofs`, `Notifications_proofs`, `Limits_proofs` | theorems | the module each is named after |
| `Access_proofs` | theorems | `RateLimiter`, `SignIn` |
| `Server_proofs` | theorems | `Lifecycle`, `InstallationClient`, `Installations` |
| `Scoring_proofs` | theorems | `ScoreService`, `Reputation`, `Score` |
| `MC...` | TLC instances: model values, symmetry and compositions | |

Some MC modules bring several modules together: `MCPoolClient` the two refinements
of the pool, `MCAccess` limiters and `SignIn`, `MCServer` the three of a process
and the pool, `MCScoring` the four of a score.  They extend them, so that what a
run checks is what the proofs prove; only specifications and actions differ in
name (`ServiceSpec`, `ReputationSpec`, `ScoreSpec`, ...).  Their `focus` says
which of them a behaviour exercises while the others rest.  That is sound because
they share no state: what they do share in the code is part of each (the rows of
installations are the `active` set of `TokenPool`; a score stored by `Reputation`
is `Scorer`'s `Scores`).

### TokenPool

`pool` is `TokenPool.entries` with `exhausted`/`exhaustedUntil` in each entry
(`rest`) and `expiresAt` (`left`); `current` is the cursor.  `caller[c]` is one
goroutine in `poolDo`: each lock region of the pool is one action (`Choose` is
`Token`, `Exhaust`, `InvalidateAuth`, `SignalRefresh`, and the two
`ActiveCount` tests `RecountAuth` and `RecountLimit`), so that everything else
may happen in between.  `refresher` is `runRefreshLoop`: `RefreshTick` and
`Notified` are the two cases of its `select`; `RefreshFails`,
`RefreshSucceeds` (which holds the whole of `Replace`) and `ObserveDropped` are
the steps of `doRefresh`.  `mintPoolEntries` lists any subset of the active
installations, in any order, and the PAT last.

Time is kept as countdowns (a deadline is `deadline - now`) that `Tick` ages
together, so no clock needs a bound: the liveness run covers unbounded time.
`now.After(d)` is `countdown = Lapsed`, one tick after it reaches zero, as the
code's strict comparison has it.

GitHub's answer is unconstrained at every request.  A token string is a pair of
installation and generation; `Mintable` takes a generation that nobody uses any
more, as GitHub never issues a string twice.

Abstracted: usage counts, the ring of invalidation events, labels, the
logarithmic backoff time.

### PoolHistory

`owed[t]` is the longest rest asked for a token since it entered the pool, and
`rejected` the tokens reported since time moved or the pool was replaced.  Both
only watch (`HistoryIsHarmless`).

### PoolClient

`ghClient` takes a token (`CChoose`) and memoizes its client (`Memoize`) under
two different locks; `CObserveDropped` is `InvalidateTokens`.

### Scorer

`queue[c]` is the row's priority, `ahead[c]` the rows queued before it; likewise
`stale` and `older` for `scored_at`.  Orders are kept as sets of predecessors
since timestamps grow without bound.  `pc[s]` is the place of instance `s` in
`runContinuousScorer`; `entry[s][c]` is the progress of a contributor through the
batch: waiting, next (the loop waits for the semaphore with it), running (a
goroutine holds the semaphore), settled, dry (its attempt found no token), or
outOfTokens (its attempt used up the last one).  `free[s]` abstracts the pool of
`s` to the number of spendable tokens, which other traffic (`TokenSpent`) and
resets (`TokenBack`) change at any time.  A statement of the database is one
action; `SKIP LOCKED` passes over any rows (`locked`), since other statements may
be changing them.  The spawning loop takes up one entry at a time (`TakeUp`), and
starts its goroutine when there is room, even if the pool has run dry while it
waited (`Spawn`).  `DequeueLost` is the error after the `DELETE`.

`owed` is history: the contributors whose latest request nobody has decided and
nothing has lost.  `Close` removes what the code itself gives up: a batch whose
context is done, a row the store refuses, a process that ends.

Abstracted: the sampled quota check (it only delays a batch), the statistics,
the scores themselves (a score passes its threshold at any time, `GrowStale`),
grade-change notifications.

### Ingest

Time is counted in hours; `now` moves at any moment (`HourPasses`) and archives
appear in any order (`Publish`).  `cursor`, `backCursor` and `compacted` are the
three marks of `devtrace_sync_state` (`None`: no row).  `pc` is the place of the
loop: a tick starts with `StartBackfill`, takes batches (`NextBatch`) whose
hours wait for a slot of the semaphore (`Acquire`), saves its cursor after the
whole batch (`SaveBackfillCursor`) and maintains the table; when no hours are
left `StartRun` computes the hours of the forward run, which are taken one by
one (`NextHour`) and followed by maintenance (`HoursDone`).  `work[h]` is one
hour under way in `processHour` or `processBackfillHour`: attempts of the
download (`StreamBreaks`, `GiveUp`, `NotFound`), the transaction of
`BatchUpsertActivity` (`Upsert`, or `UpsertUnanswered` when the commit's answer is
lost and the hour counts as failed), `queueContributors`, and in the forward run
the cursor (`SaveCursor`).

`rows[h]` is the activity in the row of an hour or, on a Monday, of a bucket.
What an archive says of a contributor is one unit, so `rows` counts how often
it was added; `agg` is what broken attempts have left in the aggregator.
`CompactActivity` is one action (one transaction) of two statements; deletion
by age compares with a clock that stands within the hour.

A read of a mark may fail and then counts as no mark (`ReadSyncState`), a write or
the answer to a commit may be lost, the process may end anywhere (`Restart`);
`slips` counts these and `MaxSlips` bounds them.  `runs`, `fills`, `ran`,
`filled`, `origin`, `backOrigin` and `misread` are history: which job has counted
or passed which hour, and where each cursor began.

Abstracted or left out: what the aggregator counts, the gate on the queue's
depth (it only delays a batch), the PR graph (a failure to store it is only
logged), watchlist notifications and digests (they are `Notifications`), pruning of the
score history, several instances with one cursor (the code has no lock for
them).

### Notifications

`source[w]` and `notify[w]` are the row of a watchlist, `event` the rows of
`devtrace_notification_event` by id, `now` ticks of the ingest loop.  `pc` is
the place of the loop in a run: newcomers are announced to the watchlists read
at the start (`watched`), then `maybeSendDigests` reads the tenants (`sweep`),
reads at most `MaxPerEmail` unsent events of one (`digests`), sends (`send`) and
marks (`mark`), then prunes tenant by tenant.  Beside it run the scorer's
announcement of a change of grade (read the watchlists, write an event for
each: `regraded`), `addWatchlistHandler` in two steps (`adding`), deletion,
muting, unsubscribing, and `EnsureImplicitWatchlist`.  `digests` is history.
Days are single ticks, weeks two of them.

### RateLimiter and FixedWindow

`visitors` has a count and a `resetAt` for each counter there is (an address, a
tenant's hour, a tenant's burst).  A request asks its limiters one after the
other, each under its own lock (`Ask`), and is told by a second look how long
to wait (`Refuse`).  The cleanup drops any expired visitors, the administrator
changes a tenant's rate in between.  `FixedWindow` is what one limiter
promises: a window that opens with a request, counts, and refuses above the
limit until it is over.  In it nothing is ever cleaned up;
`ImplementsFixedWindow` maps a missing or expired visitor to a closed window.
`told` and `admitted` are history; `admitted` holds each admitted request of the
latest window's length as its instant and its place in its window.

### SignIn

`jar` holds the three cookies, `tab[t]` what a tab shows or loads: a request
with the cookies it was sent with (`sent`) and its answer on the way
(`answered`).  Each handler is one action: `OauthStartHandler`,
`OauthCallbackHandler`, `TosPageHandler`, `TosAcceptHandler`, `SignoutHandler`,
the dashboard and the administrators' pages behind their middleware
(`requireAuth`, `InjectCSRF`).  GitHub exchanges a code once (`used`).  Fresh
ids are those that occur nowhere.  Administrators suspend and delete the
account, sessions expire.

### Lifecycle, InstallationClient, Installations

`Lifecycle`: `pc[r]` is the place of a replica in `server.Run`.  `lock` is the
set of sessions with the advisory lock, which is why it survives a failed unlock
on a pooled connection (`Unlock`, `CloseIdle`); `schema[v]` counts how often a
file ran; `recorded` is the table of versions, which the first file makes anew.  A file
that runs again after a crash succeeds: all are written for it (`IF [NOT] EXISTS`,
`ON CONFLICT`, a default set, a cursor deleted).
`Crash` may end a replica anywhere.  A job is a request and the tracked write it
leaves behind (`Store.Go`); `CloseStore` follows `WaitBackground` or its
timeout.

`InstallationClient`: `Look` is the read lock, `TakeMutex` the mint lock with
its second look, `Mint` and `MintFails` the request.  GitHub may have issued a
token of which the answer is `lost`.

`Installations`: `truth` is GitHub's state, `mail` the events on their way, and
`missed` the installations with an event that was lost, repeated, late or not
understood.  The handler's cases are `Created`, `Suspended` and `Ignored`; that of
a "created" goes on with `SaveInstallation` and `EnsureImplicitWatchlist`
(`creating`), and other events or a `DeleteTenant` (`orphaned`), which takes the
rows along, may come in between.

### Limits

One user, whose tenant may be suspended, given another plan, deleted and made
anew by the next sign-in (`ids`).  A call holds the tenant as the middleware read
it (`call[c]`); `CheckQuota`, the scoring and `RecordUsage` are separate steps,
as are the count and the insert of a key.  The administrator's form looks the
tenant up and then changes it by id.  `unpaid`, `held` and `everHeld` are
history: what was scored without a record, and which plans were in force.

### ScoreService, Reputation, Score

`ScoreService`: six sources publish versions; `stored` holds the rows of each: what
was read and when (`of`, `asOf`), and when it was saved (`fetchedAt`).  A call
passes the memory cache, fetches the profile, then asks each source in the order
of the code: fresh row, or fetch, or failure with the old row, or a sentinel for
"nothing there", then save.  Credits are the exception in all of this.  They are
fetched only where `fetchesCredits` (`SecurityCreditsEnabled`, off by default);
else their rows are used whatever their age (`FetchDisabled`).  Their save deletes
(`Clear`) and inserts (`Commit`, `Clash`) in one READ COMMITTED transaction, so
rows committed after its delete began stay beside its own; their read is two
queries (`ReadRow`, `ListRecent`), and it is repeated after a save, whether that
succeeded or not (`ReadBack`).  So what is said of a source is a set of readings,
of one at most but for credits.  `EnrichForPlan` cuts a copy of the response.
`shown` and `asOf` are history.

`Reputation`: the archive's aggregates (`archive`) are hints; an interactive or
background scorer reads the old grade and signals (`prs`), fetches, stores with
floors, writes history and reputation in its own order (`FirstWrite`,
`SecondWrite`) and announces.  `untold` and `split` are history: writers that
overlapped or a failed statement.

`Score`: `Compute`, `Categories`, `Grade` and `SyntheticRiskFlags` over integer
hundredths.  Logarithm and exponential are constants, since TLC has none: the
instance gives them at the values that occur.  A state is a contributor, a step
changes one signal.  `ScoreAssumption` says which signals there are
(`InputSignals` and `Behavior`), `CurvesAssumption` what the proofs need of the
two functions: their values are shares of one, and `logCurve` never falls.

## Runs

Where a run has a bound on what may happen, everything ends and deadlock is not
checked (`notify`, `access`, `server`, `scoring`); in the other runs time can
always pass, a request always arrive or the loop always tick, and it is.

| Run | Shows | Bounds |
|---|---|---|
| `pool_reports` | a reported token is selectable by no goroutine until time moves or the pool is replaced; what is presented is cached | 2 goroutines, 1 installation and the PAT, 2 attempts, resets 0 and 1 |
| `pool_liveness` | calls end, tokens near expiry and of suspended installations leave, the cursor stays an index while the pool grows and shrinks | 1 goroutine, 1 installation that comes and goes, the PAT |
| `scorer_one` | no open request is lost or becomes less urgent | 1 instance that restarts, 2 contributors, batch of 2, one goroutine, 2 tokens |
| `scorer_liveness` | newcomers are served whatever pauses come before, stale scores are renewed | 1 instance, 2 contributors, batch of 1, pool of 2 with reserve 1 that runs dry |
| `ingest_restarts` | neither cursor passes an hour nobody took; hours are counted again only for a restart, a lost answer or a lost or unread cursor; maintenance keeps every week's activity; repositories are kept until compaction | hours 0 to 4, lookback, catch-up, batch and workers of 2, weeks of 2 hours, one slip |
| `ingest_liveness` | the forward run catches up in spite of broken downloads | hours 0 to 4, one hour per run, one retry, one slip |
| `notify` | what is marked as sent is covered by a digest; it is mailed again only for a failure; digests are a week apart | 2 tenants with and without digests, 3 watchlists, 3 ticks, 2 events, mails of one event, 1 edit, 1 failed call or restart |
| `access` | limiters are fixed windows, admit less than two windows' worth in any window, and Retry-After suffices; forms stay valid; page loads end | 1 tenant or 1 address, 2 requests at a time, rates 1 and 2, windows of 2 and 1, 6 instants; 2 tabs, 3 visits, 1 fault |
| `server` | migrations run once and in order, every replica starts, tracked writes precede the close; goroutines mint once per expiry; installation rows follow GitHub; a refresh never empties the pool | 2 replicas, 2 migrations, 1 job, 2 failures; 3 goroutines, 4 mints, 2 expiries; 2 installations, 2 owners, 4 events, 1 trouble; a pool of 2 installations without a PAT, 1 goroutine, tokens that live 1 tick |
| `scoring` | answers are true, recent and fit the plan; quota and key limits hold but for races; rows agree and changes are announced; a thin archive does not lower a score; categories explain the score and more is no worse | 2 calls, 1 change at a source, 1 error or restart, lifetimes of 1, up to 5 ticks; 3 contributors, limits 1 and 2, 2 tenants in turn, 1 change of plan, 1 failed record; 2 scorers, 2 grades, 3 scores, or 2 and a fault; up to 3 signals differ from a blank or a perfect contributor |
| `scorer_dry_work` | the first finding below | as small as the finding allows |
| `pool_two_resets` | the second finding below | 2 goroutines, 1 installation, resets 1 and 2 |

Why small instances are enough.  Two goroutines and two tokens are what an
interference needs: one goroutine reports what the other has just chosen or what
the refresher has just replaced.  Two attempts exercise the retry, the bound and
the fall through.  One tick is enough to separate now, not yet and past; two
generations per installation let a token be replaced while its predecessor is in
flight.  Two contributors with batches of one make an order to be wrong about;
with batches of two they make partial batches: one settled and one waiting,
running or dry.  Five hours in weeks of two give a full bucket and one being
filled, hours on both sides of every threshold (compaction at 2, pruning at 4),
and both jobs on neighbouring hours; one slip gives every place of one restart,
one lost write or answer or one unread mark.  One event per mail and two events
leave one that does not fit; three ticks are a day of the tenant, one that is not,
and the day again.  Limits of one and two contributors with two calls let both
pass the count, under a plan that has just shrunk or grown; the second tenant is
the one made anew while a call of the first is under way. Two migrations and two
failures let one replica die between a file and its version while the other waits,
and a session keep the lock meanwhile.  Lifetimes of one tick with calls of one
tick put a slow call across an expiry of either cache; five ticks are the age at
which an answer would be too old, and one source is followed that far, credits for
three, in which two saves overlap and a third call finds what they left, the
others for two.  Every formula over pairs of contributors in `Score` is about two
that differ in one signal; three further differences bring it to the interior of
each range.  The safety results that matter most are proved for all instances.

In `scoring`, sources that share nothing are followed one at a time, and two
together only for their order and for callers of several plans; a restart happens
only with credits, whose setting it may change, and expired entries of the memory,
which are as good as none, go only with scorecards; calls for scores and calls for
keys do not meet, since they touch different rows.

Every property of a passing run is paired in `PROJECT.json` with a seeded fault: an operator
such as `Replace_KeepsCursor`, next to the definition it would replace, that
makes TLC find the property violated.

### Fairness

`TokenPool!Fairness`: goroutines keep running (`WF` of their steps, an answer
included: requests have a context and a client), the `select` of the refresh
loop serves both its channels (`WF` each: Go chooses among ready cases at
random), time passes, and minting does not fail for ever (`SF`).  Stopping the
loop and cancelling a call are never forced.

`Scorer!Fairness`: the loop and its goroutines keep running (`WF`); other
traffic neither holds the pool at its reserve for ever nor takes the tokens
every time the loop looks (`SF` of `Recovers`, of the dequeue and of an attempt
with a token left); queries do not fail for ever and neither does the scoring
of one contributor.  Restarts and cancellation are excluded from this run
(`Mortal = {}`): a process that is killed before each batch serves nobody.

`Ingest!Fairness`: the loop keeps running (`WF` of each of its steps), time
passes, every hour that is over is published at last (`WF`; GH Archive does so
normally, and the code waits for ever otherwise), and the upserts of the
forward run do not fail for ever (`SF`).  Restarts, lost writes and unread marks
are bounded by `MaxSlips` and never forced.

`MCServer!MCFairness`: PostgreSQL grants an advisory lock to those that wait in
turn (`SF` of `TakeLock`), statements and a shutdown end (both have timeouts),
and the connection pool closes idle connections (`WF` of `CloseIdle`: the store
sets an idle time and a lifetime).  `MCAccess!MCFairness`: a handler answers and a
browser takes the answer and follows it (`WF` for each tab); GitHub answers the
login.  The safety properties of all runs need none of this.

## Findings

`scorer_dry_work`: the attempt that exhausts the last token is answered "all
tokens exhausted", which is not `ErrNoTokens`: the contributor is settled, not
queued again, and "the work is lost" (`scorer.go:356-357`).

`pool_two_resets`: `Exhaust` writes the reset it is told over what is there
(`tokenpool.go:264`).  Two goroutines present one token, one is told to wait
longer than the other (the limit of the hour and a secondary one), and the
shorter wait is reported last: the token "re-enters rotation" before "it is
genuinely usable" (`tokenpool.go:70-72`).  In the same way a rate limit that is
reported late takes the place of the permanent mark that a 401 left on the PAT.

Met while modelling, without a run.  In the pool and the scorer:

* With no more tokens than `SCORER_TOKEN_RESERVE` the scorer pauses for ever,
  though it is documented to sleep "until the pool actually recovers"
  (`scorer.go:59-61`).  A pool of a single PAT and the default reserve of 1 is
  such a pool.
* After a 401 the PAT is "permanently disabled until the process restarts"
  (`tokenpool.go:279-280`), but the refresh that `poolDo` signals with the next
  statement replaces all entries, appends the PAT and clears its mark.
* A goroutine between `Token()` and the cache memoizes the client of a token
  that a refresh has purged in between; nothing purges it again
  (`pool_client.go:89-90`).
* `Token()` documents that entries within the expiry buffer are skipped
  (`tokenpool.go:183`) and returns them.  A refresh signal within
  `refreshDedup` of a refresh is consumed without one
  (`pool_refresh.go:38-39`, `89-92`); `pool_liveness` shows that the ticker
  makes up for it.
* `DeleteTenant` removes installations without a signal to the pool, and an
  "unsuspend" event is ignored: the installation stays suspended in the store.

In the ingest:

* The forward run of a fresh deployment starts at its lookback from the hour at
  which the backfill has ended, and the backfill started below the hour at which
  it began: the hours in between are taken by neither, although data is to be
  "populated going back the specified number of days" (`backfill.go:53-55`).
* Compaction empties the repositories of rows older than 30 days
  (`activity.go:393`), which the count of "distinct repos in last 90 days"
  (`activity.go:213`) reads.
* A download that breaks off is repeated into the same aggregator, so what the
  broken attempt delivered is counted twice (`archive.go:93-118`).
* On a fresh deployment whose backfill ends within the hour, the hour of the
  first lookback is counted by both jobs.
* A cursor that cannot be read is taken for a fresh start: the hours up to the
  lookback are passed over for good, or the cursor moves back.
* Pruning deletes a week's bucket as soon as its Monday is older than the
  retention, up to a week before its last hour is (`runner.go:44`).
* A run without hours to process ends before maintenance and digests
  (`runner.go:95-98`).

In watchlists and digests:

* "per-tenant day assignment ensures weekly delivery" (`runner.go:41`): the mark
  of the sweep is saved when it ends, a day later at the earliest comes the
  next, so the hour of the sweep drifts until a weekday is passed over and its
  tenants wait two weeks.
* Unsubscribing mutes the watchlists there are; one added later has the
  column's default and mails again, though the page says "You will no longer
  receive weekly digest emails." (`handler_watchlist.go:131`).  Events of muted
  watchlists are still listed in a mail that others cause.
* Events written between the read and the mark are marked without having been
  listed.  `SentIsCovered` allows for them by name (`d.upto < e`).
* A failed `ContributorExists` announces an old contributor as new, and one that
  is never scored is announced again each hour.

In the server:

* `migrate.go:67-68` says that closing the connection would release the
  advisory lock; `sql.Conn.Close` gives it back to the pool, whose session keeps
  it until the pool closes it.
* The stop functions of scorer, quota sampler and ingest cancel and do not wait;
  only the refresh loop's does.
* "If both limiters deny", the shorter Retry-After was to be told
  (`ratelimit.go:173-175`); the burst limiter is asked only after the hourly one
  has admitted.
* A repeated callback with a consumed code is meant to be harmless ("browser
  double-click", `handler_auth.go:89`); it clears the session cookie of the
  first.  A suspended account that has accepted the terms is redirected between
  dashboard and login without end (`LoadsEnd` excepts it).  Administrators'
  pages make a new form token with each load, unlike what `csrf.go:87-93` says, and
  first pages that are requested together get a token each, of which the browser
  keeps the last: the forms of the others are refused.
* HTML pages record usage without a look at the quota; keys survive a downgrade.

In the scores:

* A forge that is down is saved like a missing one for the whole lifetime when
  another answers, although "A working forge shouldn't be hidden because another
  one is down".  A stored "no profile" also hides a link that is added later.
* `SaveSecurityCredits` "replaces the contributor's credit rows"
  (`security_credit.go:133`), but a delete does not see rows that another save
  commits after it began: two saves that overlap leave the rows of both, credits
  beside the sentinel of none, or end in a duplicate key, which undoes the second.
  `AnswersAreTrue` and `AnswersAreFresh` allow for such a mixture by name.  Beside
  credits the sentinel counts as one of severity "unknown", and `Recent` lists it:
  only the counts by type filter it out.  All of this is with
  `DEVTRACE_SECURITY_CREDITS_ENABLED` on.
* Repository scores are stored as the contributor's global one.  The memory
  cache's key leaves out the trusted organisations.
* `scorer.go:542-545` stores `deep=false` "so the next ingest tick sees a stale
  row"; staleness looks at `scored_at` and the score only.  A suspended account
  stores zeros and loses its floor.
* `HistoryDays` is used as a `LIMIT` of rows.  A missing commit statistic gives
  the recency of a commit today.  An account on its first day has no burst, so
  that a recent pull request costs from the second day on (`MoreIsNoWorse`
  excepts it).

## Proofs

All theorems hold for any number of goroutines, installations, tokens,
instances, contributors, hours, restarts, replicas, tenants, calls, rates and
windows, under the named assumptions of the modules (finite sets, positive
bounds, a first start late enough for its backfill and lookback to lie in the
modelled hours, activity compacted before it is pruned, ids that differ
from what stands for none, curves between zero and one).  TLC evaluates each
assumption in a run.  Leaves about products and quotients are given more time
(`SMTT(30)`) than they take on an idle machine.

* `Pool_proofs`: `TypeCorrect`, `NeverEmptied`.  `PoolInv` is `TypeOK` and
  a non-empty pool; the second is needed for the first, since the cursor is
  reduced modulo the length.  `ListingType` gives the length of what a refresh
  returns without induction over it.  `HistoryIsHarmless` (the history steps
  implement the pool's) and `ReportsAreHonoured`.
  `PresentedHasClient`: the strengthening says that what the refresher is about
  to purge is not in the pool.
* `Scorer_proofs`: `WorkHeld`.  `WorkInv` adds that a scorer knows the priority
  of everything in its hands (so that what it puts back is a row again) and
  that nothing runs any more when rows go back (so that no decision can close a
  request twice).  `LocalStep` treats all steps that leave the queue alone.
  `UrgencyHeld`, an action property: of each request, something held after a step
  is as urgent as it was before, where what is held is the row and what the
  instances have in hand.
* `Ingest_proofs`: `CursorHonest`, `BackfillHonest`, `RecountsPaid`.
  `IngestInv` adds the shape of the loop at each place (which job holds what),
  the order of the work (the hours ahead of a job are contiguous; the forward
  run has one hour under way, before all it has planned; a batch lies above what
  is planned), and for each hour whether another count of it is paid for: an
  hour counted as often as the slips allow lies behind the cursor or is
  committed and about to be.  One lemma per action; `QuietStep`,
  `MaintenanceStep` and `AttemptStep` treat those that leave the hours alone.
  `RepositoriesKept` rests on `KeepsNames`: a counted hour lists its repositories
  until it is old enough for compaction, whoever maintains the table meanwhile.
* `Notifications_proofs`: over `Known` (the types, and that no digest reads
  events yet to be written).  `SentEventsAreCovered`: `Covered` adds that the
  digest under way covers what waited when it was read and that it is among the
  digests once it is sent.  `RepeatsArePaid`: `PaidFor` adds that an event that
  waits was mailed no more often than calls have failed, but for the digest about
  to be marked, and that this one's events are its tenant's.  `DigestsWeekApart`:
  `Weekly` adds where each digest stands to the last saved sweep, and that a sweep
  that is under way has a day between it and the last.
* `Access_proofs`: `TypeCorrect`, `RetryIsEnough`, and the refinement
  `WindowsAreFixed`.  For the second, `ToldBeyond` says that what was told
  reaches beyond the window it was told about, which rounding up to a second
  must give; the window itself only ever moves on.  For the refinement,
  `window` is the mapping, and `StepSimulates` has one lemma for each kind of
  step: a request asks (`AskSimulates`), time passes (`PassSimulates`), or
  nothing that the abstract window sees (cleanup, Retry-After, a new rate).
  `FewerThanTwoWindows` is proved of the abstract windows and carried over:
  `TwoWindows` says that what was admitted lately has a place of its own in the
  open window or in the one before, and that the first place of the one before
  is not among them; the counting is one lemma about such sets.
  `FormsValid`: `OneToken` says that what any tab shows, sends or is about to be
  told of the form's token is the browser's, and that at most one tab brings the
  first.
* `Server_proofs`: `LifecycleTypesHold`, `MigrationsRunOnce`, `WritesComeFirst`,
  `OneMintPerExpiry`, `RowsFollow`.  `Migrations` adds that only the holder of the lock is
  between a version's check and its record, that versions up to the one looked
  at are recorded, and that a file ran once for its record and once more for
  each replica that was cut off in between.  `Writes` adds that a job's replica
  is where its job can be; `Minters` that only the holder of the mutex mints, and
  while nothing fresh is cached.  `Followed` says of every installation without
  trouble that the last event about it says what is true, and once that has
  arrived the row does; its lemmas are about the last of a queue.
* `Limits_proofs`: `LimitsTypes`, `QuotaHolds`, `KeysHold`.  `Known` adds that
  ids are given out once and that every plan a call has read was in force.
  `QuotaHeld` counts what is recorded, what was scored without a record and what
  calls that have passed the check are about to score, against the largest limit
  of the period and the number of calls; `KeysHeld` counts the keys and the
  calls that are about to make one.  The counting itself rests on
  `FiniteSetTheorems`.

* `Scoring_proofs`, of answers: `AnswersTrue`, `AnswersFit`, `AnswersFresh`.
  `ServiceInv` follows a fact from its source to the caller: what was published
  at each instant (`PublishedOK`), how old and how true a row is (`StoredOK`), what
  a call has in hand at each of its places (`CallsOK`), what a call that saves credits
  may find beside its own (`CreditsOK`, `MayFind`), what the memory cache keeps
  and until when (`MemoryOK`), what is answered (`AnswerOK`).  The ages add up only
  because each link bounds the one before it, so none is proved alone.  Rows that
  overlapping saves leave together are judged by the latest of their stamps; what
  keeps the others from being older than the bound is that of two such rows neither
  was saved more than a call after the other was read (`RowsGood`), since each was
  under way when the other's delete missed it.
* `Scoring_proofs`, of rows: `ChangesTold`, `RowsAgree`, `FloorIsKept`.
  `ReputationInv` says of a scorer that nobody has overtaken that what it read is
  still so (`ScorersOK`), that watchers know the grade, will hear of it from one of
  the scorers, or are excused (`Telling`), and that the two rows end alike or a
  write came between (`Together`).
* `Scoring_proofs`, of the arithmetic: `CategoriesExplain` and `NoWorse`, for all
  sets of values of the signals and all curves, by lemmas about ratios and
  shares (`RatioOfMore`, `RatioWithMore`, `TimesGrows`, `ClampedGrows`,
  `ClampedFalls`), then one for each part of a score: it is a share of its weight,
  and it does not fall.  The invariant is that the contributor is one that GitHub
  may describe; all else holds of any such contributor.

Only model-checked: all liveness (`CallsEnd`, `UnusableLeaves`, `NewcomerServed`,
`StaleRenewed`, `CatchesUp`, `LoadsEnd`, `EveryReplicaStarts`: fairness and
`ENABLED` are beyond the prover), and `MaintenanceKeepsWeeks`, which compares sums
over the rows of a table of any size and needs induction over them.  All other
properties of the passing runs are theorems.

## What is left

Most valuable next: that the pool seen through `free` in `Scorer` is a refinement
of `TokenPool`'s `ActiveCount`; a weaker companion of `MaintenanceKeepsWeeks` that
needs no sum (each week has a row that holds each of its hours once); two
instances of the ingest loop on one cursor.

## Not modelled

* The quota sampler: one writer of an append-only table by which nothing is
  decided.
* How HTML, mails and reports are worded and laid out; the queries behind
  administrators' pages, charts and the paging of lists; the SSDF report.
* Requests and parsers of third-party clients: their answers and failures are
  choices of the environment (`ScoreService`, `Reputation`).
* What the aggregator of the ingest counts, the PR-event graph and the daily
  counts (read for pages only); the gate on the queue's depth, which only
  delays; several instances of the ingest loop (the code has no lock for them).
* `PurgeNonTenantQueue` and `PruneScoreHistory`, deletions by a fixed predicate;
  `RemoveFromQueue` and `PruneSecurityCredits`, which nothing calls.
* Configuration, logging, versions, HTTP helpers and entry points.
