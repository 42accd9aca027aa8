-------------------------------- MODULE Ingest --------------------------------
(***************************************************************************)
(* The ingest loop (pkg/ingest, pkg/background/ingest.go) over the         *)
(* activity table and the sync state (activity.go, sync.go).  Each tick of *)
(* the loop first backfills past hours of GH Archive, newest first and in  *)
(* concurrent batches, then runs forward from the cursor, one hour after   *)
(* the other, and compacts and prunes the table at most once per interval. *)
(*                                                                         *)
(* Time is counted in hours.  What an hour's archive says of a contributor *)
(* is one unit of activity, added to the table once per completed upsert   *)
(* and once more for every broken download that had delivered it.          *)
(***************************************************************************)
EXTENDS Integers, FiniteSets, FiniteSetsExt, Functions

CONSTANTS
  Start,            \* the hour of the first start of the process
  Horizon,          \* bound: the last hour of the clock
  Lookback,         \* GHARCHIVE_LOOKBACK_HOURS
  CatchupMax,       \* GHARCHIVE_CATCHUP_MAX_HOURS
  PublishDelay,     \* config.ArchivePublishDelay
  BackfillSpan,     \* GHARCHIVE_BACKFILL_DAYS, in hours; 0 disables it
  BackfillBatch,    \* GHARCHIVE_BACKFILL_BATCH_SIZE
  BackfillWorkers,  \* GHARCHIVE_BACKFILL_WORKERS
  Retries,          \* archiveDownloadRetries
  Week,             \* hours in a bucket of the compacted table
  CompactInterval,  \* compactInterval
  CompactOlderThan, \* compactOlderThan
  PruneRetention,   \* pruneActivityRetention
  SignalWindow,     \* the 90 days of GetBehavioralSignals
  MaxSlips          \* bound: restarts, lost cursor writes, unread cursors

ASSUME IngestAssumption ==
  /\ Start \in Nat /\ Horizon \in Nat /\ Start <= Horizon
  /\ {Lookback, CatchupMax, Week} \subseteq Nat \ {0}
  /\ {BackfillBatch, BackfillWorkers} \subseteq Nat \ {0}
  /\ {PublishDelay, BackfillSpan, Retries, CompactInterval, CompactOlderThan,
      PruneRetention, SignalWindow, MaxSlips} \subseteq Nat
  /\ PublishDelay > 0
  /\ Start >= BackfillSpan /\ Start >= PublishDelay + Lookback - 1

\* 30 days and 120 days.
ASSUME RetentionAssumption == CompactOlderThan <= PruneRetention

VARIABLES
  now,         \* the current hour
  published,   \* the hours whose archive can be downloaded
  cursor,      \* sync state gharchive_cursor
  backCursor,  \* sync state gharchive_backfill_cursor
  compacted,   \* sync state activity_compacted
  rows,        \* activity in the row of each hour; 0: no row
  named,       \* the rows that list repositories
  pc,          \* where the loop is
  job,         \* the part of the tick it is in
  plan,        \* the hours still to process
  batch,       \* the backfill batch under way
  work,        \* the hours under way: stage, attempts and aggregate of each
  runs,        \* history: upserts of each hour by the forward run
  fills,       \* history: upserts of each hour by the backfill
  ran,         \* history: hours the forward run processed or gave up
  filled,      \* history: hours the backfill processed or skipped
  origin,      \* history: the first cursor saved
  backOrigin,  \* history: the newest hour of the first batch saved
  misread,     \* history: a run took a cursor it could not read for none
  slips        \* history: restarts, lost writes of a cursor or answers, unread cursors

table == <<rows, named>>
syncState == <<cursor, backCursor, compacted>>
loop == <<pc, job, plan, batch, work>>
history == <<runs, fills, ran, filled, origin, backOrigin, misread,
             slips>>
vars == <<now, published, cursor, backCursor, compacted, rows, named,
          pc, job, plan, batch, work, runs, fills, ran, filled, origin,
          backOrigin, misread, slips>>

Hours == 0..Horizon
None == -1
NoWork == [h \in {} |-> {}]

-----------------------------------------------------------------------------
(* Which hours to process *)

LastAvailable == now - PublishDelay

\* ComputeHours_CapCursor is a seeded fault: the cap counts the cursor's hour.
ComputeHours_CapCursor(c) ==
  LET first == IF c = None THEN LastAvailable - (Lookback - 1) ELSE c + 1
      end == IF c = None THEN first + Lookback ELSE c + CatchupMax
  IN  {h \in Hours : first <= h /\ h <= LastAvailable /\ h < end}
\* ComputeHours_FromCursor is a seeded fault: the cursor's hour comes again.
ComputeHours_FromCursor(c) ==
  LET first == IF c = None THEN LastAvailable - (Lookback - 1) ELSE c
      cap == IF c = None THEN Lookback ELSE CatchupMax
  IN  {h \in Hours : first <= h /\ h <= LastAvailable /\ h < first + cap}
ComputeHours(c) ==
  LET first == IF c = None THEN LastAvailable - (Lookback - 1) ELSE c + 1
      cap == IF c = None THEN Lookback ELSE CatchupMax
  IN  {h \in Hours : first <= h /\ h <= LastAvailable /\ h < first + cap}

\* A range of one hour is empty: start.After(end) fails.
BackfillHours(c) ==
  LET first == IF c = None THEN now - 1 ELSE c - 1
      last == now - BackfillSpan
  IN  IF first > last THEN {h \in Hours : last <= h /\ h <= first} ELSE {}

\* What reading a mark of the sync state yields; an error counts as no mark.
ReadSyncState(mark) == {mark, None}

-----------------------------------------------------------------------------
(* The activity table *)

\* date_trunc('week', hour)
WeekOf(h) == (h \div Week) * Week

HoursOfWeek(w) == {h \in Hours : WeekOf(h) = w}
Activity(of, hs) == MapThenSumSet(LAMBDA h : of[h], hs)

\* Counts are added to the row of the hour, its repositories replaced.
UpsertActivity(h, n) ==
  /\ rows' = [rows EXCEPT ![h] = @ + n]
  /\ named' = named \cup {h}

\* hour < NOW() - age: the clock stands within the hour `now`.
Before(age) == {h \in Hours : h <= now - age}

\* The hourly rows that go into the bucket w.
\* Compactable_AnyAge is a seeded fault: the age is not asked for.
Compactable_AnyAge(w) == {h \in HoursOfWeek(w) : h # w /\ rows[h] > 0}
Compactable(w) ==
  {h \in HoursOfWeek(w) \cap Before(CompactOlderThan) : h # w /\ rows[h] > 0}

\* Compacted_Overwrites is a seeded fault: a bucket that exists is replaced.
Compacted_Overwrites(h) ==
  IF h \in Compactable(WeekOf(h)) THEN 0
  ELSE IF Compactable(h) = {} THEN rows[h] ELSE Activity(rows, Compactable(h))
Compacted(h) ==
  IF h \in Compactable(WeekOf(h)) THEN 0
  ELSE rows[h] + Activity(rows, Compactable(h))

\* Both statements of the transaction.
CompactActivity ==
  /\ rows' = [h \in Hours |-> Compacted(h)]
  /\ named' = {h \in named : h \notin Compactable(WeekOf(h))
                             /\ Compactable(h) = {}}

PruneActivity ==
  /\ rows' = [h \in Hours |-> IF h \in Before(PruneRetention) THEN 0
                                                              ELSE rows[h]]
  /\ named' = named \ Before(PruneRetention)

\* The rows whose repositories GetBehavioralSignals counts.
DistinctRepos90d == {h \in named : h > now - SignalWindow}

-----------------------------------------------------------------------------
(* One hour, in either job: processHour and processBackfillHour *)

Fresh == [stage |-> "stream", tries |-> 0, agg |-> 0]
Begin(h) == work' = [g \in DOMAIN work \cup {h} |->
                       IF g = h THEN Fresh ELSE work[g]]
End(h) == work' = Restrict(work, DOMAIN work \ {h})
At(h, stage) == h \in DOMAIN work /\ work[h].stage = stage

\* The hour is over in the job under way, whatever became of it.
Over(h) ==
  /\ ran' = IF job = "run" THEN ran \cup {h} ELSE ran
  /\ filled' = IF job = "backfill" THEN filled \cup {h} ELSE filled

\* An attempt to download breaks off, before or after it delivered events to
\* the aggregator, and is repeated into the same aggregator.
StreamBreaks(h) ==
  /\ At(h, "stream") /\ work[h].tries < Retries
  /\ \E n \in 0..1 :
       /\ n = 1 => h \in published
       /\ work' = [work EXCEPT ![h].tries = @ + 1, ![h].agg = @ + n]
  /\ UNCHANGED <<now, published, syncState, table, pc, job, plan, batch,
                 history>>

\* The last attempt breaks off, or the upsert fails after an attempt that
\* completed: the hour is given up.
GiveUp(h) ==
  /\ At(h, "stream")
  /\ work[h].tries = Retries \/ h \in published
  /\ End(h)
  /\ Over(h)
  /\ UNCHANGED <<now, published, syncState, table, pc, job, plan, batch,
                 runs, fills, origin, backOrigin, misread, slips>>

\* ErrArchiveNotFound: the forward run breaks off, the backfill skips the hour.
\* NotFound_Continues is a seeded fault: the forward run goes on.
NotFound_Continues(h) ==
  /\ At(h, "stream") /\ h \notin published
  /\ End(h)
  /\ filled' = IF job = "backfill" THEN filled \cup {h} ELSE filled
  /\ UNCHANGED <<now, published, syncState, table, pc, job, plan, batch,
                 runs, fills, ran, origin, backOrigin, misread, slips>>
NotFound(h) ==
  /\ At(h, "stream") /\ h \notin published
  /\ End(h)
  /\ filled' = IF job = "backfill" THEN filled \cup {h} ELSE filled
  /\ plan' = IF job = "run" THEN {} ELSE plan
  /\ UNCHANGED <<now, published, syncState, table, pc, job, batch,
                 runs, fills, ran, origin, backOrigin, misread, slips>>

\* The upsert counts the hour.
Count(h) ==
  /\ At(h, "stream") /\ h \in published
  /\ UpsertActivity(h, work[h].agg + 1)
  /\ runs' = IF job = "run" THEN [runs EXCEPT ![h] = @ + 1] ELSE runs
  /\ fills' = IF job = "backfill" THEN [fills EXCEPT ![h] = @ + 1] ELSE fills
  /\ UNCHANGED <<now, published, syncState, pc, job, plan, batch, origin, backOrigin,
                 misread>>

\* An attempt completes and BatchUpsertActivity commits its transaction.
Upsert(h) ==
  /\ Count(h)
  /\ work' = [work EXCEPT ![h].stage = "queue"]
  /\ UNCHANGED <<ran, filled, slips>>

\* It commits, but the answer is lost: the hour is counted and given up.
UpsertUnanswered(h) ==
  /\ slips < MaxSlips /\ slips' = slips + 1
  /\ Count(h)
  /\ End(h)
  /\ Over(h)

\* queueContributors, as far as the store lets it.  The forward run saves its
\* cursor next; the backfill worker is done.
QueueContributors(h) ==
  /\ At(h, "queue")
  /\ Over(h)
  /\ IF job = "run" THEN work' = [work EXCEPT ![h].stage = "save"] ELSE End(h)
  /\ UNCHANGED <<now, published, syncState, table, pc, job, plan, batch,
                 runs, fills, origin, backOrigin, misread, slips>>

Step(h) == StreamBreaks(h) \/ GiveUp(h) \/ NotFound(h) \/ Upsert(h)
           \/ UpsertUnanswered(h) \/ QueueContributors(h)

-----------------------------------------------------------------------------
(* Backfill *)

\* A mark taken for none although there is one.
Slip(mark, read) ==
  /\ read = mark \/ slips < MaxSlips
  /\ slips' = IF read = mark THEN slips ELSE slips + 1

StartBackfill ==
  /\ pc = "idle"
  /\ pc' = "batches" /\ job' = "backfill"
  /\ \E c \in ReadSyncState(backCursor) :
       /\ Slip(backCursor, c)
       /\ plan' = IF BackfillSpan > 0 THEN BackfillHours(c) ELSE {}
  /\ UNCHANGED <<now, published, syncState, table, batch, work,
                 runs, fills, ran, filled, origin, backOrigin, misread>>

\* The newest hours of the plan.  The gate on the depth of the scoring queue
\* only delays a batch.
NextBatch ==
  /\ pc = "batches" /\ plan # {}
  /\ \E B \in SUBSET plan :
       /\ Cardinality(B) = BackfillBatch
          \/ (Cardinality(B) < BackfillBatch /\ B = plan)
       /\ \A h \in B, g \in plan \ B : g < h
       /\ B # {}
       /\ batch' = B
       /\ plan' = plan \ B
       /\ work' = [h \in B |-> [Fresh EXCEPT !.stage = "waiting"]]
  /\ pc' = "batch"
  /\ UNCHANGED <<now, published, syncState, table, job, history>>

\* The next hour of the batch gets a slot of the semaphore.
Acquire(h) ==
  /\ At(h, "waiting")
  /\ \A g \in DOMAIN work : g > h => ~At(g, "waiting")
  /\ Cardinality({g \in DOMAIN work : ~At(g, "waiting")}) < BackfillWorkers
  /\ work' = [work EXCEPT ![h] = Fresh]
  /\ UNCHANGED <<now, published, syncState, table, pc, job, plan, batch,
                 history>>

\* A mark is written, or the write fails and is only logged.
\* SaveBackfillCursor_NoWait is a seeded fault: workers are not waited for.
SaveBackfillCursor_NoWait ==
  /\ pc = "batch"
  /\ backCursor' = Min(batch)
  /\ backOrigin' = IF backOrigin = None THEN Max(batch) ELSE backOrigin
  /\ batch' = {}
  /\ pc' = "compact"
  /\ UNCHANGED <<now, published, cursor, compacted, table, job, plan, work, runs,
                 fills, ran, filled, origin, misread, slips>>
SaveBackfillCursor ==
  /\ pc = "batch" /\ DOMAIN work = {}
  /\ \/ /\ backCursor' = Min(batch)
        /\ backOrigin' = IF backOrigin = None THEN Max(batch) ELSE backOrigin
        /\ UNCHANGED slips
     \/ /\ slips < MaxSlips /\ slips' = slips + 1
        /\ UNCHANGED <<backCursor, backOrigin>>
  /\ batch' = {}
  /\ pc' = "compact"
  /\ UNCHANGED <<now, published, cursor, compacted, table, job, plan,
                 work, runs, fills, ran, filled, origin, misread>>

-----------------------------------------------------------------------------
(* Run *)

\* Backfill has returned.  A run without hours ends at once, without
\* maintenance.
StartRun ==
  /\ pc = "batches" /\ plan = {}
  /\ \E c \in ReadSyncState(cursor) :
       /\ Slip(cursor, c)
       /\ misread' = (misread \/ c # cursor)
       /\ plan' = ComputeHours(c)
  /\ pc' = IF plan' = {} THEN "idle" ELSE "hours"
  /\ job' = IF plan' = {} THEN "none" ELSE "run"
  /\ UNCHANGED <<now, published, syncState, table, batch, work,
                 runs, fills, ran, filled, origin, backOrigin>>

NextHour ==
  /\ pc = "hours" /\ DOMAIN work = {} /\ plan # {}
  /\ Begin(Min(plan))
  /\ plan' = plan \ {Min(plan)}
  /\ UNCHANGED <<now, published, syncState, table, pc, job, batch,
                 history>>

SaveCursor(h) ==
  /\ At(h, "save")
  /\ End(h)
  /\ \/ /\ cursor' = h
        /\ origin' = IF origin = None THEN h ELSE origin
        /\ UNCHANGED slips
     \/ /\ slips < MaxSlips /\ slips' = slips + 1
        /\ UNCHANGED <<cursor, origin>>
  /\ UNCHANGED <<now, published, backCursor, compacted, table, pc, job,
                 plan, batch, runs, fills, ran, filled, backOrigin,
                 misread>>

HoursDone ==
  /\ pc = "hours" /\ DOMAIN work = {} /\ plan = {}
  /\ pc' = "compact"
  /\ UNCHANGED <<now, published, syncState, table, job, plan, batch,
                 work, history>>

-----------------------------------------------------------------------------
(* maybeCompact, after each batch of the backfill and at the end of a run *)

Resume ==
  /\ pc' = IF job = "backfill" THEN "batches" ELSE "idle"
  /\ job' = IF job = "backfill" THEN "backfill" ELSE "none"

\* time.Since(lastCompact) against the interval: both are within an hour.
CompactionNotDue ==
  /\ pc = "compact" /\ compacted # None /\ now - compacted <= CompactInterval
  /\ Resume
  /\ UNCHANGED <<now, published, syncState, table, plan, batch, work,
                 history>>

Compact ==
  /\ pc = "compact"
  /\ \E c \in ReadSyncState(compacted) :
       c = None \/ now - c >= CompactInterval
  /\ CompactActivity
  /\ pc' = "prune"
  /\ UNCHANGED <<now, published, syncState, job, plan, batch, work,
                 history>>

\* The transaction fails; nothing is pruned and the mark stays.
CompactionFails ==
  /\ pc = "compact"
  /\ Resume
  /\ UNCHANGED <<now, published, syncState, table, plan, batch, work,
                 history>>

\* Pruning may fail, too.
Prune ==
  /\ pc = "prune"
  /\ PruneActivity \/ UNCHANGED table
  /\ pc' = "mark"
  /\ UNCHANGED <<now, published, syncState, job, plan, batch, work,
                 history>>

SaveCompactState ==
  /\ pc = "mark"
  /\ compacted' \in {now, compacted}
  /\ Resume
  /\ UNCHANGED <<now, published, cursor, backCursor, table, plan, batch,
                 work, history>>

-----------------------------------------------------------------------------
(* The environment *)

\* The process ends, at any place, and is started again.
Restart ==
  /\ pc # "idle" /\ slips < MaxSlips
  /\ slips' = slips + 1
  /\ pc' = "idle" /\ job' = "none"
  /\ plan' = {} /\ batch' = {} /\ work' = NoWork
  /\ UNCHANGED <<now, published, syncState, table, runs, fills,
                 ran, filled, origin, backOrigin, misread>>

HourPasses ==
  /\ now < Horizon
  /\ now' = now + 1
  /\ UNCHANGED <<published, syncState, table, loop, history>>

\* GH Archive publishes an hour that is over, in any order.
Publish(h) ==
  /\ h < now /\ h \notin published
  /\ published' = published \cup {h}
  /\ UNCHANGED <<now, syncState, table, loop, history>>

-----------------------------------------------------------------------------

Init ==
  /\ now = Start
  /\ published \in SUBSET {h \in Hours : h < Start}
  /\ cursor = None /\ backCursor = None /\ compacted = None
  /\ rows = [h \in Hours |-> 0] /\ named = {}
  /\ pc = "idle" /\ job = "none" /\ plan = {} /\ batch = {} /\ work = NoWork
  /\ runs = [h \in Hours |-> 0] /\ fills = [h \in Hours |-> 0]
  /\ ran = {} /\ filled = {} /\ origin = None /\ backOrigin = None
  /\ misread = FALSE /\ slips = 0

Maintain == CompactionNotDue \/ Compact \/ CompactionFails \/ Prune
            \/ SaveCompactState

Next ==
  \/ \E h \in Hours : Step(h) \/ Acquire(h) \/ SaveCursor(h) \/ Publish(h)
  \/ StartBackfill \/ NextBatch \/ SaveBackfillCursor
  \/ StartRun \/ NextHour \/ HoursDone
  \/ Maintain
  \/ Restart \/ HourPasses

Spec == Init /\ [][Next]_vars

\* Downloads of the forward run do not break off for ever.
RunUpserts == job = "run" /\ \E h \in Hours : Upsert(h)

Fairness ==
  /\ WF_vars(\E h \in Hours : Step(h) \/ Acquire(h) \/ SaveCursor(h))
  /\ WF_vars(StartBackfill) /\ WF_vars(NextBatch)
  /\ WF_vars(SaveBackfillCursor)
  /\ WF_vars(StartRun) /\ WF_vars(NextHour) /\ WF_vars(HoursDone)
  /\ WF_vars(Maintain)
  /\ SF_vars(RunUpserts)
  /\ WF_vars(HourPasses) /\ WF_vars(\E h \in Hours : Publish(h))

FairSpec == Spec /\ Fairness

-----------------------------------------------------------------------------
(* Properties *)

\* The cursor stands on an hour the run has counted, and every hour from the
\* first cursor up to it was processed or given up after its retries: a
\* missing archive is never stepped over (the break of Run), whatever failed
\* or restarted, unless a cursor was read as none.
CursorIsHonest ==
  cursor # None => /\ runs[cursor] > 0
                   /\ ~misread => origin..cursor \subseteq ran

\* Likewise every hour from the backfill cursor up to the newest hour of the
\* first batch was processed or skipped: workers finish in any order, but the
\* cursor moves only after the whole batch.
BackfillIsHonest ==
  backCursor # None => backCursor..backOrigin \subseteq filled

\* The upsert is additive, so repeating an hour counts it again.  Each of the
\* two jobs repeats an hour only after a restart, a lost cursor write, an unread
\* cursor or a commit whose answer is lost, and once for each.
RecountsArePaidFor ==
  \A h \in Hours : runs[h] <= 1 + slips /\ fills[h] <= 1 + slips

\* Compaction moves activity within its week and loses none of it, whatever
\* hours were added before and after earlier compactions, and pruning leaves
\* the weeks that began within the retention alone.
MaintenanceKeepsWeeks ==
  [][\A w \in {WeekOf(h) : h \in Hours} :
       pc \in {"compact", "prune"} /\ w > now - PruneRetention =>
         Activity(rows', HoursOfWeek(w)) = Activity(rows, HoursOfWeek(w))
    ]_vars

\* Once there is a cursor, every hour after it whose archive is due is
\* processed or given up, in spite of late archives, breaks, restarts, and lost
\* answers and cursor writes.  A run that cannot read the cursor starts at its lookback
\* instead, and leaves the hours before it for good.
CatchesUp ==
  \A h \in Hours : (cursor # None /\ cursor < h /\ h <= Horizon - PublishDelay)
                     ~> (h \in ran \/ misread)

\* Until compaction takes it, an hour that was counted keeps its repositories in
\* the window of GetBehavioralSignals: late upserts and compactions of the other
\* hours of its week do not erase them.
RepositoriesUntilCompaction ==
  {h \in Hours : runs[h] + fills[h] > 0 /\ h > now - SignalWindow
                                       /\ h > now - CompactOlderThan}
    \subseteq DistinctRepos90d

=============================================================================
