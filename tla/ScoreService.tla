------------------------------ MODULE ScoreService ------------------------------
(***************************************************************************)
(* ScoreService.Score (pkg/service/score.go) with its memory cache         *)
(* (cache.go), the rows in which the store keeps what each outside source  *)
(* said of a contributor, and the filter that cuts a response down to the  *)
(* caller's plan.  One contributor, asked about alone or in a repository.  *)
(*                                                                         *)
(* A source publishes a version of what it knows; Nothing is a source that *)
(* knows nothing of the contributor.  fetched_at is the time of the save,  *)
(* which comes after the fetch: asOf is the time at which the version was  *)
(* read from the source.  A source has one row, which a save replaces, but *)
(* the credits have a row for each advisory and a save deletes them all    *)
(* and inserts others in a READ COMMITTED transaction: what two saves that *)
(* overlap leave may be the rows of both.  So what the store says of a     *)
(* source is a set of readings.                                            *)
(***************************************************************************)
EXTENDS Integers, FiniteSets

CONSTANTS
  Askers,       \* requests for a score that may run at once
  Repos,       \* repositories a request may name
  PlanNames,   \* plans of the callers
  SourceSets,  \* the sets of sources to follow: those a server asks
  RowTTL,      \* how long the row of each source counts
  MemTTL,      \* SCORE_CACHE_TTL_SEC
  CallTime,    \* bound: the longest call
  LastTick,    \* bound: the clock
  MaxNews,     \* bound: changes at the sources
  MaxErrors    \* bound: failed fetches and statements, and restarts

VARIABLES
  clock,
  configured,  \* the sources whose fetcher is not nil; credits and repos, of
               \* GitHub itself, need none
  fetchesCredits, \* SecurityCreditsEnabled
  actual,      \* what each source publishes
  shown,       \* ghost: which versions a source has published at which time
  stored,      \* the rows of the store
  memory,      \* scoreCache.entries
  request,     \* the calls in progress
  answer,      \* history: the answer the last step gave
  news, errors

serviceVars ==
  <<clock, configured, fetchesCredits, actual, shown, stored, memory, request, answer,
    news, errors>>
world == <<clock, configured, fetchesCredits, actual, shown, news>>

-----------------------------------------------------------------------------
(* Values *)

Sources == {"repos", "credits", "ossf", "npm", "stackoverflow", "forges"}
Nothing == 0
NoRepo == ""
User == "user"
Versions == 0..MaxNews

ASSUME ServiceAssumption ==
  /\ SourceSets \subseteq SUBSET Sources /\ RowTTL \in [Sources -> Nat]
  /\ {MemTTL, CallTime, LastTick, MaxNews, MaxErrors} \subseteq Nat

\* A scorecard is about a repository, all else about the contributor.
Subject(s, repo) == IF s = "ossf" THEN repo ELSE User
Subjects == Repos \cup {User}

\* What was read from a source, and when.  A part passes for the whole, see ForgeFails.
Reading == [value : Versions, asOf : 0..LastTick, part : BOOLEAN]
Read(v, t) == [value |-> v, asOf |-> t, part |-> FALSE]

\* A row, or the rows of one save, and the transactions that have deleted it and
\* are not yet committed.
Row == [of : Reading, fetchedAt : 0..LastTick, doomed : SUBSET Askers]

\* What a query finds in the rows: their readings, and when they were fetched.
Seen == [says : SUBSET Reading, stamps : SUBSET (0..LastTick)]
NoRow == [says |-> {}, stamps |-> {}]
SeenIn(rows) == [says |-> {r.of : r \in rows}, stamps |-> {r.fetchedAt : r \in rows}]

\* What a response says of a source: nothing at all when no fetch has succeeded.
\* stored: it comes from the rows.  old: a refresh that was due has failed or was
\* not to be made.
Fact == [says : SUBSET Reading, stored : BOOLEAN, old : BOOLEAN]
Unknown == [says |-> {}, stored |-> FALSE, old |-> FALSE]
Fetched(r) == [says |-> {r}, stored |-> FALSE, old |-> FALSE]
FromRows(row, old) == [says |-> row.says, stored |-> TRUE, old |-> old]

NoEntry == [full |-> [s \in {} |-> Unknown], built |-> [s \in {} |-> Unknown],
            expiresAt |-> -1]

\* No call, and no answer.
Absent == [at |-> "none", repo |-> NoRepo, began |-> 0,
           linked |-> [yes |-> FALSE, asOf |-> 0], todo |-> {}, row |-> NoRow,
           fetched |-> Read(Nothing, 0), stamp |-> 0, saved |-> "no",
           got |-> [s \in {} |-> Unknown]]
NoAnswer == [repo |-> NoRepo, plan |-> "", shows |-> {}, of |-> [s \in {} |-> Unknown]]

\* buildEnrichment asks the sources in this order.
Order == [repos |-> 1, credits |-> 2, ossf |-> 3, npm |-> 4, stackoverflow |-> 5,
          forges |-> 6]
First(S) == CHOOSE s \in S : \A t \in S : Order[s] <= Order[t]
Asked(repo) == {s \in configured : s = "ossf" => repo # NoRepo}

ServiceInit ==
  /\ clock = 0 /\ configured \in SourceSets /\ fetchesCredits \in BOOLEAN
  /\ actual \in [Sources -> [Subjects -> {Nothing}]]
  /\ shown = [t \in {0} |-> [s \in Sources |-> [x \in Subjects |-> {Nothing}]]]
  /\ stored = [s \in Sources |-> [x \in Subjects |-> {}]]
  /\ memory = [k \in Repos \cup {NoRepo} |-> NoEntry]
  /\ request = [c \in Askers |-> Absent] /\ answer = NoAnswer
  /\ news = 0 /\ errors = 0

-----------------------------------------------------------------------------
(* The memory cache *)

CacheKey(repo) == repo

\* get: an entry that has not expired.
Cached(repo) == memory[CacheKey(repo)].expiresAt >= clock

Remember(repo, got) ==
  memory' = [memory EXCEPT ![CacheKey(repo)] =
               [full |-> got, built |-> got, expiresAt |-> clock + MemTTL]]

\* evictLoop.
Evict ==
  /\ \E k \in DOMAIN memory : memory[k] # NoEntry /\ memory[k].expiresAt < clock
  /\ memory' = [k \in DOMAIN memory |->
                  IF memory[k].expiresAt < clock THEN NoEntry ELSE memory[k]]
  /\ UNCHANGED <<world, stored, request, errors>>

-----------------------------------------------------------------------------
(* enrichForPlan *)

Visible(plan) ==
  CASE plan = "" -> {}
    [] plan = "free" -> {"repos"}
    [] plan = "starter" -> Sources \ {"forges"}
    [] plan = "pro" -> Sources

\* What a response carries of the facts in full: not a row that records an absence,
\* except that the summary of no repositories is carried when it comes from its row
\* and not when it was just made.
Carried(full) ==
  {s \in DOMAIN full : \/ \E r \in full[s].says : r.value # Nothing
                       \/ s = "repos" /\ full[s].stored /\ full[s].says # {}}

\* EnrichForPlan_InPlace is a seeded fault: the parts are taken out of the cached
\* response and not of a deep copy.
EnrichForPlan_InPlace(full, plan) ==
  [s \in DOMAIN full |-> IF s \in Visible(plan) THEN full[s] ELSE Unknown]
EnrichForPlan(full, plan) == full

\* The answer: a copy, without what the plan does not include.
Answer(repo, plan, full, built) ==
  answer' = [repo |-> repo, plan |-> plan, shows |-> Carried(full) \cap Visible(plan),
             of |-> built]

-----------------------------------------------------------------------------
(* Score *)

Error == errors < MaxErrors /\ errors' = errors + 1

\* The response is in memory: what is returned is what enrichForPlan leaves of it.
Hit(repo, plan) ==
  /\ Cached(repo)
  /\ LET k == CacheKey(repo)
     IN /\ Answer(repo, plan, memory[k].full, memory[k].built)
        /\ memory' = [memory EXCEPT ![k].full = EnrichForPlan(@, plan)]
  /\ UNCHANGED <<world, stored, request, errors>>

\* It is not: the call sets out.
CacheMiss(c, repo) ==
  /\ request[c] = Absent /\ ~Cached(repo)
  /\ request' = [request EXCEPT ![c] = [Absent EXCEPT
       !.at = "signals", !.repo = repo, !.began = clock, !.todo = Asked(repo)]]
  /\ UNCHANGED <<world, stored, memory, errors>>

\* The profile that FetchUser returns says whether the contributor links a Stack
\* Overflow account.
FetchUser(c) ==
  /\ request[c].at = "signals"
  /\ request' = [request EXCEPT ![c].at = "enriches",
       ![c].linked = [yes |-> actual["stackoverflow"][User] # Nothing, asOf |-> clock]]
  /\ UNCHANGED <<world, stored, memory, errors>>

\* FetchSignals or FetchUser fails: the caller gets an error and nothing is
\* remembered.  What follows them cannot fail.
SignalsFail(c) ==
  /\ request[c].at = "signals" /\ Error
  /\ request' = [request EXCEPT ![c] = Absent]
  /\ UNCHANGED <<world, stored, memory>>

SourceOf(c) == First(request[c].todo)
SubjectOf(c) == Subject(SourceOf(c), request[c].repo)
Rows(c) == stored[SourceOf(c)][SubjectOf(c)]
Keep(c, rows) == stored' = [stored EXCEPT ![SourceOf(c)][SubjectOf(c)] = rows]

Unlinked(c) == SourceOf(c) = "stackoverflow" /\ ~request[c].linked.yes
Switched(c) == SourceOf(c) = "credits" /\ ~fetchesCredits

\* The current source of a call is settled with this fact.
Settle(c, fact) ==
  request' = [request EXCEPT ![c].at = "enriches", ![c].todo = @ \ {SourceOf(c)},
                ![c].row = NoRow, ![c].fetched = Absent.fetched, ![c].stamp = 0,
                ![c].saved = "no",
                ![c].got = [s \in DOMAIN @ \cup {SourceOf(c)} |->
                              IF s = SourceOf(c) THEN fact ELSE @[s]]]

\* Fresh_Always is a seeded fault: a row counts however old it is.
Fresh_Always(row, s) == row.says # {}
\* Of several rows the latest counts.
Fresh(row, s) == \E t \in row.stamps : clock - t < RowTTL[s]

\* A row younger than its TTL decides; another is kept for a failed fetch.  What is
\* read back after a save decides in any case.
Judge(c, row) ==
  IF request[c].saved # "no" THEN Settle(c, FromRows(row, request[c].saved = "failed"))
  ELSE IF Fresh(row, SourceOf(c)) THEN Settle(c, FromRows(row, FALSE))
  ELSE request' = [request EXCEPT ![c].at = "fetches", ![c].row = row]

\* Get...  A failed read finds no row.  When there are credits, those to be listed
\* are a second query.
ReadRow(c) ==
  /\ request[c].at = "enriches" /\ request[c].todo # {}
  /\ LET row == SeenIn(Rows(c))
     IN \/ /\ IF SourceOf(c) = "credits" /\ \E r \in row.says : r.value # Nothing
              THEN request' = [request EXCEPT ![c].at = "lists", ![c].row = row]
              ELSE Judge(c, row)
           /\ UNCHANGED errors
        \/ Error /\ Judge(c, NoRow)
  /\ UNCHANGED <<world, stored, memory>>

\* The second query of GetSecurityCredits: another save may be between the two.
ListRecent(c) ==
  /\ request[c].at = "lists"
  /\ \/ /\ Judge(c, [request[c].row EXCEPT !.says = @ \cup SeenIn(Rows(c)).says])
        /\ UNCHANGED errors
     \/ Error /\ Judge(c, NoRow)
  /\ UNCHANGED <<world, stored, memory>>

\* Credits are not fetched by default: what the rows say is used, however old.
FetchDisabled(c) ==
  /\ request[c].at = "fetches" /\ Switched(c)
  /\ Settle(c, FromRows(request[c].row, TRUE))
  /\ UNCHANGED <<world, stored, memory, errors>>

Fetches(c) == request[c].at = "fetches" /\ ~Switched(c)

\* A fetch ends with this reading.
ToSave(c, reading) ==
  /\ request' = [request EXCEPT ![c].at = "saves", ![c].fetched = reading]
  /\ UNCHANGED <<world, stored, memory>>

\* A fetch that is answered, be it with "not found".
FetchAnswers(c) ==
  /\ Fetches(c) /\ ~Unlinked(c) /\ UNCHANGED errors
  /\ ToSave(c, Read(actual[SourceOf(c)][SubjectOf(c)], clock))

\* A forge that fails is left out of the comparison, and the rest passes for the
\* whole.
ForgeFails(c) ==
  /\ Fetches(c) /\ SourceOf(c) = "forges" /\ Error
  /\ ToSave(c, [Read(Nothing, clock) EXCEPT !.part = TRUE])

\* Without a link there is nobody to fetch, and that is recorded.
NoLink(c) ==
  /\ Fetches(c) /\ Unlinked(c) /\ UNCHANGED errors
  /\ ToSave(c, Read(Nothing, request[c].linked.asOf))

\* FetchFails_Sentinel is a seeded fault: a failure is recorded like "not found".
FetchFails_Sentinel(c) ==
  /\ Fetches(c) /\ ~Unlinked(c) /\ Error
  /\ ToSave(c, Read(Nothing, clock))
\* Any other failure: what the row holds is used, however old, and left as it is.
FetchFails(c) ==
  /\ Fetches(c) /\ ~Unlinked(c) /\ Error
  /\ Settle(c, FromRows(request[c].row, TRUE))
  /\ UNCHANGED <<world, stored, memory>>

\* Save... replaces the row and stamps it; what was fetched is used.  A save whose
\* answer is an error may have been carried out, and costs at most the row.
Save(c) ==
  /\ request[c].at = "saves" /\ SourceOf(c) # "credits"
  /\ LET row == [of |-> request[c].fetched, fetchedAt |-> clock, doomed |-> {}]
     IN \/ Keep(c, {row}) /\ UNCHANGED errors
        \/ Error /\ (Keep(c, {row}) \/ UNCHANGED stored)
  /\ Settle(c, Fetched(request[c].fetched))
  /\ UNCHANGED <<world, memory>>

-----------------------------------------------------------------------------
(* SaveSecurityCredits.  A delete that meets the rows of another delete waits for  *)
(* its transaction, and so does an insert of the same key: that settles which of   *)
(* the two commits first, and here either may.  Rows committed after a delete has  *)
(* begun are not deleted by it.                                                    *)

\* BEGIN, whose time is the NOW() of every statement, and DELETE.
Clear(c) ==
  /\ request[c].at = "saves" /\ SourceOf(c) = "credits"
  /\ Keep(c, {[r EXCEPT !.doomed = @ \cup {c}] : r \in Rows(c)})
  /\ request' = [request EXCEPT ![c].at = "replaces", ![c].stamp = clock]
  /\ UNCHANGED <<world, memory, errors>>

\* The credits are read back, whether the save has failed or not.
ReadBack(c, saved) ==
  request' = [request EXCEPT ![c].at = "enriches", ![c].saved = saved, ![c].row = NoRow]

\* The INSERTs find none of their keys, and the transaction commits.  The answer may
\* be lost.
Commit(c) ==
  /\ request[c].at = "replaces"
  /\ LET kept == {r \in Rows(c) : c \notin r.doomed}
         own == [of |-> request[c].fetched, fetchedAt |-> request[c].stamp, doomed |-> {}]
     IN /\ \A r \in kept : r.of.value # own.of.value
        /\ Keep(c, kept \cup {own})
  /\ \/ ReadBack(c, "yes") /\ UNCHANGED errors
     \/ ReadBack(c, "failed") /\ Error
  /\ UNCHANGED <<world, memory>>

Rollback(c) ==
  /\ Keep(c, {[r EXCEPT !.doomed = @ \ {c}] : r \in Rows(c)})
  /\ ReadBack(c, "failed")
  /\ UNCHANGED <<world, memory>>

\* A key is there: versions that are not empty may share an advisory.
Clash(c) ==
  /\ request[c].at = "replaces" /\ UNCHANGED errors
  /\ \E r \in Rows(c) : /\ r.doomed = {}
                        /\ \/ r.of.value = request[c].fetched.value
                           \/ Nothing \notin {r.of.value, request[c].fetched.value}
  /\ Rollback(c)

\* A statement fails.
CreditsNotSaved(c) ==
  /\ request[c].at \in {"saves", "replaces"} /\ SourceOf(c) = "credits"
  /\ Error /\ Rollback(c)

-----------------------------------------------------------------------------
\* The full response is remembered, and answered cut to the caller's plan.
Finish(c, plan) ==
  /\ request[c].at = "enriches" /\ request[c].todo = {}
  /\ Remember(request[c].repo, request[c].got)
  /\ Answer(request[c].repo, plan, request[c].got, request[c].got)
  /\ request' = [request EXCEPT ![c] = Absent]
  /\ UNCHANGED <<world, stored, errors>>

\* The process ends, with its memory, its calls and its transactions; the next may
\* have another setting.
Restart ==
  /\ Error /\ fetchesCredits' \in BOOLEAN
  /\ memory' = [k \in DOMAIN memory |-> NoEntry]
  /\ request' = [c \in Askers |-> Absent]
  /\ stored' = [s \in Sources |-> [x \in Subjects |->
                  {[r EXCEPT !.doomed = {}] : r \in stored[s][x]}]]
  /\ UNCHANGED <<clock, configured, actual, shown, news>>

-----------------------------------------------------------------------------
(* The sources and time *)

\* A source publishes a new version, or withdraws what it had.
Publish(s, x) ==
  /\ news < MaxNews /\ s \in configured /\ (x = User) = (s # "ossf")
  /\ news' = news + 1
  /\ \E v \in {news + 1, Nothing} \ {actual[s][x]} :
       /\ actual' = [actual EXCEPT ![s][x] = v]
       /\ shown' = [shown EXCEPT ![clock][s][x] = @ \cup {v}]
  /\ UNCHANGED <<clock, configured, fetchesCredits, stored, memory, request, errors>>

Pass ==
  /\ clock < LastTick
  /\ \A c \in Askers : request[c].at # "none" => clock < request[c].began + CallTime
  /\ clock' = clock + 1
  /\ shown' = [t \in DOMAIN shown \cup {clock + 1} |->
                 IF t = clock + 1
                 THEN [s \in Sources |-> [x \in Subjects |-> {actual[s][x]}]]
                 ELSE shown[t]]
  /\ UNCHANGED <<configured, fetchesCredits, actual, stored, memory, request, news,
                 errors>>

ServiceNext ==
  \/ \E repo \in Repos \cup {NoRepo}, plan \in PlanNames, c \in Askers :
       Hit(repo, plan) \/ Finish(c, plan)
  \/ /\ answer' = NoAnswer
     /\ \/ \E c \in Askers :
             \/ \E repo \in Repos \cup {NoRepo} : CacheMiss(c, repo)
             \/ FetchUser(c) \/ SignalsFail(c) \/ ReadRow(c) \/ ListRecent(c)
             \/ FetchDisabled(c) \/ FetchAnswers(c) \/ ForgeFails(c) \/ NoLink(c)
             \/ FetchFails(c) \/ Save(c) \/ Clear(c) \/ Commit(c) \/ Clash(c)
             \/ CreditsNotSaved(c)
        \/ \E s \in Sources, x \in Subjects : Publish(s, x)
        \/ Evict \/ Restart \/ Pass

ServiceSpec == ServiceInit /\ [][ServiceNext]_serviceVars

-----------------------------------------------------------------------------
(* Properties *)

ServiceTypeOK ==
  /\ clock \in 0..LastTick /\ configured \in SourceSets /\ fetchesCredits \in BOOLEAN
  /\ actual \in [Sources -> [Subjects -> Versions]]
  /\ DOMAIN shown = 0..clock
  /\ \A s \in Sources, x \in Subjects :
       \A r \in stored[s][x] : r \in Row /\ r.fetchedAt <= clock
  /\ \A k \in DOMAIN memory : memory[k].expiresAt \in -1..LastTick + MemTTL
  /\ \A c \in Askers :
       /\ request[c].at \in {"none", "signals", "enriches", "lists", "fetches", "saves",
                            "replaces"}
       /\ request[c].began \in 0..clock
  /\ news \in 0..MaxNews /\ errors \in 0..MaxErrors

\* The source did publish this version at the time it was read.
True(r, s, x) == ~r.part => x \in Subjects /\ r.value \in shown[r.asOf][s][x]

\* All the readings are true, and there is one at most but of the credits.
AllTrue(says, s, x) ==
  /\ \A r \in says : True(r, s, x)
  /\ s # "credits" => \A r, q \in says : r = q

\* An answer is about the repository that was asked about, and what it or the rows
\* say of a source is what the source published when it was read: an outage is not
\* recorded as an absence, and an answer says one thing of a source.  (A forge that
\* fails is the exception, see ForgeFails.  And of the credits an answer may mix
\* versions, as saves that overlap leave them, each published at its own time.)
\* And the state has its type.
AnswersAreTrue ==
  /\ ServiceTypeOK
  /\ \A s \in DOMAIN answer.of : AllTrue(answer.of[s].says, s, Subject(s, answer.repo))
  /\ \A s \in Sources, x \in Subjects : AllTrue({r.of : r \in stored[s][x]}, s, x)

\* Every caller gets all that its plan includes of what was found, and no more,
\* whichever plans the cached response was served to before.
AnswersFitPlan == answer.shows = Carried(answer.of) \cap Visible(answer.plan)

\* Two caches and overlapping calls, of which a slow one may overwrite a newer row
\* with what it fetched earlier or leave its credits beside those of another: what
\* an answer says is still no older than both lifetimes and two calls.  The
\* exceptions, old, are what a row says when the refresh that was due has failed, and
\* credits while SecurityCreditsEnabled is off, as it is by default: no refresh
\* is made then and a row is used however old.
AnswersAreFresh ==
  \A s \in DOMAIN answer.of :
    ~answer.of[s].old =>
      \A r \in answer.of[s].says : clock - r.asOf <= RowTTL[s] + MemTTL + 2 * CallTime

=============================================================================
