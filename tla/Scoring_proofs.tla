---------------------------- MODULE Scoring_proofs ----------------------------
(***************************************************************************)
(* Proofs about a score on its way: the answers of ScoreService            *)
(* (pkg/service/score.go, cache.go), how Reputation stores a grade and     *)
(* announces its change (pkg/background/scorer.go,                         *)
(* pkg/server/handler_score.go), and the arithmetic of Score               *)
(* (pkg/score/score.go).                                                   *)
(*                                                                         *)
(* An answer is the end of a chain: what a source published, what a call   *)
(* read of it, what it saved, what it found in a row, what it gathered,    *)
(* what was remembered.  The invariant says of each link how old its facts *)
(* may be and that they are true.  Of the rows it says what a scorer that  *)
(* nobody has overtaken knows of them, and that watchers know the grade or *)
(* will hear of it.  The arithmetic is of any contributor that GitHub may  *)
(* describe, with ratios that grow as their parts do: every part of a      *)
(* score is a share of its weight, and none falls when a signal grows that *)
(* can only do good.                                                       *)
(***************************************************************************)
EXTENDS ScoreService, Reputation, Score, FiniteSetTheorems, TLAPS

-----------------------------------------------------------------------------
(* Answering with a score *)

\* The facts of a response, a call in progress, an entry of the memory.
Findings == UNION {[S -> Fact] : S \in SUBSET Sources}
Request == [at : {"none", "signals", "enriches", "lists", "fetches", "saves", "replaces"},
            repo : Repos \cup {NoRepo}, began : 0..LastTick,
            linked : [yes : BOOLEAN, asOf : 0..LastTick], todo : SUBSET Sources,
            row : Seen, fetched : Reading, stamp : 0..LastTick,
            saved : {"no", "yes", "failed"}, got : Findings]
Entry == [full : Findings, built : Findings, expiresAt : -1..LastTick + MemTTL]

\* A reading that is of now or earlier, and that its source did publish.
Good(r, s, x) == r \in Reading /\ r.asOf <= clock /\ True(r, s, x)

\* Such readings, of one time but of the credits.
AllGood(says, s, x) ==
  /\ \A r \in says : Good(r, s, x)
  /\ s # "credits" => \A r, q \in says : r = q

\* No row is of a fetch that failed, and none was there, or was being saved, long
\* after another was fetched that it stands beside.
RowsGood(kept, s, x) ==
  /\ \A w \in kept : w \in Row /\ w.fetchedAt <= clock
  /\ AllGood({w.of : w \in kept}, s, x)
  /\ \A v, w \in kept : v.fetchedAt <= w.of.asOf + CallTime

\* The same of what a query has found.
SeenOK(row, s, x) ==
  /\ row \in Seen /\ AllGood(row.says, s, x)
  /\ \A t \in row.stamps, r \in row.says : t <= r.asOf + CallTime

\* Facts of a repository, none of them older than a row may be at this time.
Recent(f, s, since) ==
  ~f.old => \A r \in f.says : since <= r.asOf + RowTTL[s] + CallTime
Gathered(got, repo, since) ==
  \A s \in DOMAIN got : /\ got[s] \in Fact /\ AllGood(got[s].says, s, Subject(s, repo))
                        /\ Recent(got[s], s, since)

\* The subject of the current source of a call.
About(r) == Subject(First(r.todo), r.repo)

CallOK(r) ==
  /\ r.began <= clock /\ Gathered(r.got, r.repo, r.began)
  /\ "ossf" \in r.todo => r.repo \in Repos
  /\ r.at # "none" => clock <= r.began + CallTime
  /\ r.at \notin {"none", "signals"} =>
       /\ r.began <= r.linked.asOf /\ r.linked.asOf <= clock
       /\ r.linked.yes \/ Nothing \in shown[r.linked.asOf]["stackoverflow"][User]
  /\ r.at \in {"lists", "fetches", "saves", "replaces"} => r.todo # {}
  /\ r.at \in {"lists", "replaces"} => First(r.todo) = "credits"
  /\ r.at = "fetches" => AllGood(r.row.says, First(r.todo), About(r))
  /\ r.at = "lists" => SeenOK(r.row, First(r.todo), About(r))
  /\ r.at \in {"saves", "replaces"} => /\ Good(r.fetched, First(r.todo), About(r))
                                       /\ r.began <= r.fetched.asOf
  /\ r.at = "replaces" => r.began <= r.stamp /\ r.stamp <= clock
  /\ r.saved # "no" => /\ r.at \in {"enriches", "lists"} /\ r.todo # {}
                       /\ First(r.todo) = "credits"
  /\ r.saved = "yes" /\ r.at = "lists" =>
       \A q \in r.row.says : r.began <= q.asOf + CallTime

\* What a call may find in the rows of the credits: those that its own delete has
\* missed, those that have come since its first query, those that stand beside its
\* own.
MayFind(c, r, kept) ==
  \A w \in kept :
    /\ r.at = "replaces" /\ c \notin w.doomed => r.stamp <= w.of.asOf + CallTime
    /\ r.at = "lists" => \/ r.began <= w.of.asOf + CallTime
                         \/ \A t \in r.row.stamps : t <= w.of.asOf + CallTime
    /\ r.saved = "yes" => r.began <= w.of.asOf + CallTime

PublishedOK ==
  /\ clock \in 0..LastTick /\ configured \in SourceSets /\ fetchesCredits \in BOOLEAN
  /\ news \in 0..MaxNews /\ errors \in 0..MaxErrors
  /\ actual \in [Sources -> [Subjects -> Versions]]
  /\ shown \in [0..clock -> [Sources -> [Subjects -> SUBSET Versions]]]
  /\ \A s \in Sources, x \in Subjects : actual[s][x] \in shown[clock][s][x]

StoredOK ==
  /\ stored \in [Sources -> [Subjects -> SUBSET Row]]
  /\ \A s \in Sources, x \in Subjects : RowsGood(stored[s][x], s, x)

CallsOK == request \in [Askers -> Request] /\ \A c \in Askers : CallOK(request[c])

CreditsOK == \A c \in Askers : MayFind(c, request[c], stored["credits"][User])

MemoryOK ==
  /\ memory \in [Repos \cup {NoRepo} -> Entry]
  /\ \A k \in Repos \cup {NoRepo} :
       /\ memory[k].full = memory[k].built
       /\ Gathered(memory[k].built, k, memory[k].expiresAt - MemTTL - CallTime)

AnswerOK ==
  /\ DOMAIN answer.of \subseteq Sources
  /\ Gathered(answer.of, answer.repo, clock - MemTTL - CallTime)
  /\ AnswersFitPlan

ServiceInv == PublishedOK /\ StoredOK /\ CallsOK /\ CreditsOK /\ MemoryOK /\ AnswerOK

LEMMA ServiceConstants ==
  /\ MemTTL \in Nat /\ CallTime \in Nat /\ LastTick \in Nat /\ MaxNews \in Nat
  /\ MaxErrors \in Nat /\ \A S \in SourceSets : S \subseteq Sources
  /\ RowTTL \in [Sources -> Nat]
BY ServiceAssumption

\* The first of some sources is one of them.
LEMMA FirstIsOne == ASSUME NEW S \in SUBSET Sources, S # {} PROVE First(S) \in S
<1>1. /\ Order["repos"] = 1 /\ Order["credits"] = 2 /\ Order["ossf"] = 3
      /\ Order["npm"] = 4 /\ Order["stackoverflow"] = 5 /\ Order["forges"] = 6
  BY DEF Order
<1>2. \A s \in S : s \in {"repos", "credits", "ossf", "npm", "stackoverflow", "forges"}
  BY DEF Sources
<1>3. \E s \in S : \A t \in S : Order[s] <= Order[t]
  <2>1. CASE "repos" \in S
    BY <1>1, <1>2, <2>1
  <2>2. CASE "repos" \notin S /\ "credits" \in S
    BY <1>1, <1>2, <2>2
  <2>3. CASE {"repos", "credits"} \cap S = {} /\ "ossf" \in S
    BY <1>1, <1>2, <2>3
  <2>4. CASE {"repos", "credits", "ossf"} \cap S = {} /\ "npm" \in S
    BY <1>1, <1>2, <2>4
  <2>5. CASE {"repos", "credits", "ossf", "npm"} \cap S = {} /\ "stackoverflow" \in S
    BY <1>1, <1>2, <2>5
  <2>6. CASE {"repos", "credits", "ossf", "npm", "stackoverflow"} \cap S = {}
    BY <1>1, <1>2, <2>6
  <2>7. QED
    BY <2>1, <2>2, <2>3, <2>4, <2>5, <2>6
<1>4. QED
  BY <1>3 DEF First

\* A call has no more findings than it had but one.
LEMMA OneMore ==
  ASSUME NEW g \in Findings, NEW s \in Sources, NEW f \in Fact
  PROVE  LET h == [t \in DOMAIN g \cup {s} |-> IF t = s THEN f ELSE g[t]]
         IN  /\ h \in Findings /\ DOMAIN h = DOMAIN g \cup {s} /\ h[s] = f
             /\ \A t \in DOMAIN g : t # s => h[t] = g[t]
<1> DEFINE h == [t \in DOMAIN g \cup {s} |-> IF t = s THEN f ELSE g[t]]
<1>1. PICK S \in SUBSET Sources : g \in [S -> Fact]
  BY DEF Findings
<1>2. h \in [S \cup {s} -> Fact] /\ S \cup {s} \in SUBSET Sources
  BY <1>1
<1>3. QED
  BY <1>1, <1>2 DEF Findings

LEMMA FindingsOf == ASSUME NEW g \in Findings PROVE DOMAIN g \subseteq Sources
BY DEF Findings

LEMMA NothingFound == [s \in {} |-> Unknown] \in Findings /\ Unknown \in Fact
<1>1. Unknown \in Fact
  BY DEF Unknown, Fact
<1>2. [s \in {} |-> Unknown] \in [{} -> Fact]
  OBVIOUS
<1>3. QED
  BY <1>1, <1>2 DEF Findings

LEMMA NoRowIsSeen == NoRow \in Seen
BY DEF NoRow, Seen

LEMMA NothingRead ==
  /\ 0 \in 0..LastTick /\ Nothing \in Versions
  /\ Read(Nothing, 0) \in Reading
<1>1. 0 \in 0..LastTick /\ Nothing \in Versions
  BY ServiceConstants DEF Nothing, Versions
<1>2. QED
  BY <1>1 DEF Read, Reading

LEMMA AbsentIsOK ==
  /\ Absent \in Request
  /\ PublishedOK => CallOK(Absent)
  /\ \A c, W : MayFind(c, Absent, W)
<1>1. [yes |-> FALSE, asOf |-> 0] \in [yes : BOOLEAN, asOf : 0..LastTick]
  BY NothingRead
<1>2. Absent \in Request
  BY <1>1, NothingFound, NothingRead, NoRowIsSeen DEF Absent, Request
<1>3. /\ Absent.at = "none" /\ Absent.began = 0 /\ Absent.todo = {} /\ Absent.saved = "no"
      /\ Absent.got = [s \in {} |-> Unknown] /\ DOMAIN Absent.got = {}
  BY DEF Absent
<1>4. ASSUME PublishedOK PROVE CallOK(Absent)
  <2>1. 0 <= clock
    BY <1>4 DEF PublishedOK
  <2>2. QED
    BY <1>3, <2>1 DEF CallOK, Gathered
<1>5. QED
  BY <1>2, <1>3, <1>4 DEF MayFind

LEMMA NoAnswerIsOK ==
  (answer = NoAnswer => AnswerOK) /\ (answer' = NoAnswer => AnswerOK')
<1>1. DOMAIN NoAnswer.of = {} /\ NoAnswer.shows = {}
  BY DEF NoAnswer
<1>2. QED
  BY <1>1 DEF AnswerOK, Gathered, AnswersFitPlan, Carried

LEMMA ServiceStart == ServiceInit => ServiceInv
<1> SUFFICES ASSUME ServiceInit PROVE ServiceInv
  OBVIOUS
<1> USE DEF ServiceInit
<1>1. PublishedOK
  <2>1. clock \in 0..LastTick /\ news \in 0..MaxNews /\ errors \in 0..MaxErrors
    BY ServiceConstants
  <2>2. Nothing \in Versions
    BY NothingRead
  <2>3. 0..clock = {0}
    OBVIOUS
  <2>4. actual \in [Sources -> [Subjects -> Versions]]
    BY <2>2
  <2>5. shown \in [{0} -> [Sources -> [Subjects -> SUBSET Versions]]]
    BY <2>2
  <2>6. \A s \in Sources, x \in Subjects : actual[s][x] \in shown[clock][s][x]
    OBVIOUS
  <2>7. QED
    BY <2>1, <2>3, <2>4, <2>5, <2>6 DEF PublishedOK
<1>2. StoredOK
  <2>1. stored \in [Sources -> [Subjects -> SUBSET Row]]
    OBVIOUS
  <2>2. \A s \in Sources, x \in Subjects : stored[s][x] = {}
    OBVIOUS
  <2>3. \A s, x : RowsGood({}, s, x)
    BY DEF RowsGood, AllGood
  <2>4. QED
    BY <2>1, <2>2, <2>3 DEF StoredOK
<1>3. CallsOK /\ CreditsOK
  BY <1>1, AbsentIsOK DEF CallsOK, CreditsOK
<1>4. MemoryOK
  <2>1. NoEntry \in Entry
    BY NothingFound, ServiceConstants DEF NoEntry, Entry
  <2>2. NoEntry.full = NoEntry.built /\ DOMAIN NoEntry.built = {}
    BY DEF NoEntry
  <2>3. QED
    BY <2>1, <2>2 DEF MemoryOK, Gathered
<1>5. AnswerOK
  BY NoAnswerIsOK
<1>6. QED
  BY <1>1, <1>2, <1>3, <1>4, <1>5 DEF ServiceInv

\* Time goes on and sources publish, and what was published before remains so.
Onward ==
  /\ clock <= clock'
  /\ \A t \in 0..clock, s \in Sources, x \in Subjects : shown[t][s][x] \subseteq shown'[t][s][x]

LEMMA GoodStays ==
  ASSUME PublishedOK, PublishedOK', Onward, NEW r, NEW s \in Sources, NEW x, Good(r, s, x)
  PROVE  Good(r, s, x)'
<1>1. r.asOf \in 0..clock /\ r.asOf <= clock'
  BY DEF Good, Reading, PublishedOK, Onward
<1>2. QED
  BY <1>1 DEF Good, True, Onward

LEMMA AllGoodStay ==
  ASSUME PublishedOK, PublishedOK', Onward, NEW R, NEW s \in Sources, NEW x, AllGood(R, s, x)
  PROVE  AllGood(R, s, x)'
BY GoodStays DEF AllGood

LEMMA RowsStayGood ==
  ASSUME PublishedOK, PublishedOK', Onward, NEW W, NEW s \in Sources, NEW x, RowsGood(W, s, x)
  PROVE  RowsGood(W, s, x)'
<1>1. AllGood({w.of : w \in W}, s, x)'
  BY AllGoodStay DEF RowsGood
<1>2. \A w \in W : w.fetchedAt <= clock'
  BY DEF RowsGood, Row, Onward, PublishedOK
<1>3. QED
  BY <1>1, <1>2 DEF RowsGood

LEMMA GatheredStays ==
  ASSUME PublishedOK, PublishedOK', Onward, NEW g, DOMAIN g \subseteq Sources, NEW repo,
         NEW n, Gathered(g, repo, n)
  PROVE  Gathered(g, repo, n)'
<1>1. ASSUME NEW s \in DOMAIN g
      PROVE  AllGood(g[s].says, s, Subject(s, repo))' /\ Recent(g[s], s, n)'
  BY AllGoodStay DEF Gathered, Recent, Subject
<1>2. QED
  BY <1>1 DEF Gathered

LEMMA CallStays ==
  ASSUME PublishedOK, PublishedOK', Onward, NEW r \in Request, CallOK(r),
         r.at # "none" => clock' <= r.began + CallTime
  PROVE  CallOK(r)'
<1>1. /\ r.began \in 0..LastTick /\ r.began <= clock'
      /\ r.stamp \in 0..LastTick /\ (r.at = "replaces" => r.stamp <= clock')
  BY DEF CallOK, Request, PublishedOK, Onward
<1>2. Gathered(r.got, r.repo, r.began)'
  BY FindingsOf, GatheredStays DEF CallOK, Request
<1>3. "stackoverflow" \in Sources /\ User \in Subjects
  BY DEF Sources, Subjects
<1>4. r.at \notin {"none", "signals"} =>
        /\ r.linked.asOf <= clock'
        /\ r.linked.yes \/ Nothing \in shown'[r.linked.asOf]["stackoverflow"][User]
  <2>1. r.linked.asOf \in 0..LastTick
    BY DEF Request
  <2>2. r.linked.asOf <= clock => r.linked.asOf \in 0..clock /\ r.linked.asOf <= clock'
    BY <2>1 DEF PublishedOK, Onward
  <2>3. QED
    BY <1>3, <2>2 DEF CallOK, Onward
<1>5. r.todo # {} => First(r.todo) \in Sources
  BY FirstIsOne DEF Request
<1>6. r.at = "fetches" => AllGood(r.row.says, First(r.todo), About(r))'
  BY <1>5, AllGoodStay DEF CallOK
<1>7. r.at = "lists" => SeenOK(r.row, First(r.todo), About(r))'
  <2>1. SUFFICES ASSUME r.at = "lists" PROVE SeenOK(r.row, First(r.todo), About(r))'
    OBVIOUS
  <2>2. SeenOK(r.row, First(r.todo), About(r)) /\ First(r.todo) \in Sources
    BY <1>5, <2>1 DEF CallOK
  <2>3. AllGood(r.row.says, First(r.todo), About(r))'
    BY <2>2, AllGoodStay DEF SeenOK
  <2>4. QED
    BY <2>2, <2>3 DEF SeenOK
<1>8. r.at \in {"saves", "replaces"} => Good(r.fetched, First(r.todo), About(r))'
  BY <1>5, GoodStays DEF CallOK
<1>9. QED
  BY <1>1, <1>2, <1>4, <1>6, <1>7, <1>8 DEF CallOK

LEMMA StoredStays ==
  StoredOK /\ PublishedOK /\ PublishedOK' /\ Onward /\ UNCHANGED stored => StoredOK'
BY RowsStayGood DEF StoredOK

LEMMA MemoryStays ==
  MemoryOK /\ PublishedOK /\ PublishedOK' /\ Onward /\ UNCHANGED memory => MemoryOK'
<1> SUFFICES ASSUME MemoryOK, PublishedOK, PublishedOK', Onward, UNCHANGED memory
             PROVE  MemoryOK'
  OBVIOUS
<1>1. ASSUME NEW k \in Repos \cup {NoRepo}
      PROVE  Gathered(memory[k].built, k, memory[k].expiresAt - MemTTL - CallTime)'
  <2>1. DOMAIN memory[k].built \subseteq Sources
    BY FindingsOf DEF MemoryOK, Entry
  <2>2. QED
    BY <2>1, GatheredStays DEF MemoryOK
<1>2. QED
  BY <1>1 DEF MemoryOK

LEMMA CallsStay ==
  ASSUME CallsOK, PublishedOK, PublishedOK', Onward, UNCHANGED request,
         \A c \in Askers : request[c].at # "none" => clock' <= request[c].began + CallTime
  PROVE  CallsOK'
<1>1. ASSUME NEW c \in Askers PROVE CallOK(request[c])'
  <2>1. PICK q \in Request : q = request[c] /\ CallOK(q)
    BY DEF CallsOK
  <2>2. CallOK(q)'
    BY <2>1, CallStays
  <2>3. QED
    BY <2>1, <2>2
<1>2. QED
  BY <1>1 DEF CallsOK

LEMMA CreditsStay == CreditsOK /\ UNCHANGED <<stored, request>> => CreditsOK'
BY DEF CreditsOK

\* Where neither time passes nor a source publishes.
LEMMA Steady ==
  ASSUME ServiceInv, UNCHANGED <<clock, configured, actual, shown, news>>,
         fetchesCredits' \in BOOLEAN, errors' \in 0..MaxErrors
  PROVE  PublishedOK' /\ Onward
BY DEF ServiceInv, PublishedOK, Onward

LEMMA InTime ==
  ASSUME CallsOK, UNCHANGED clock, NEW c \in Askers
  PROVE  request[c].at # "none" => clock' <= request[c].began + CallTime
BY DEF CallsOK, CallOK

LEMMA ErrorType ==
  /\ PublishedOK /\ Error => errors' \in 0..MaxErrors
  /\ PublishedOK /\ UNCHANGED errors => errors' \in 0..MaxErrors
BY ServiceConstants DEF PublishedOK, Error

\* One call goes on, and may touch the rows.
LEMMA OneCall ==
  ASSUME ServiceInv, UNCHANGED <<world, memory>>, errors' \in 0..MaxErrors,
         answer' = NoAnswer, NEW c \in Askers, NEW r \in Request, CallOK(r),
         request' = [request EXCEPT ![c] = r], StoredOK',
         MayFind(c, r, stored'["credits"][User]),
         \A d \in Askers \ {c} : MayFind(d, request[d], stored'["credits"][User])
  PROVE  ServiceInv'
<1>1. /\ PublishedOK /\ StoredOK /\ CallsOK /\ MemoryOK
      /\ PublishedOK' /\ Onward
  BY Steady DEF ServiceInv, PublishedOK, world
<1>2. MemoryOK' /\ AnswerOK'
  BY <1>1, MemoryStays, NoAnswerIsOK
<1>3. request' \in [Askers -> Request]
  BY <1>1 DEF CallsOK
<1>4. ASSUME NEW d \in Askers PROVE CallOK(request[d])'
  <2>1. request'[d] \in {r, request[d]} /\ request'[d] \in Request
    BY <1>1, <1>3 DEF CallsOK
  <2>2. CallOK(request'[d])
    BY <1>1, <2>1 DEF CallsOK
  <2>3. request'[d].at # "none" => clock' <= request'[d].began + CallTime
    BY <2>2 DEF CallOK, world
  <2>4. PICK q \in Request : q = request'[d]
    BY <2>1
  <2>5. CallOK(q)'
    BY <1>1, <2>2, <2>3, <2>4, CallStays
  <2>6. QED
    BY <2>4, <2>5
<1>5. CreditsOK'
  <2>1. PICK W : W = stored'["credits"][User]
    OBVIOUS
  <2>2. ASSUME NEW d \in Askers PROVE MayFind(d, request'[d], W)
    <3>1. CASE d = c
      BY <1>1, <2>1, <3>1 DEF CallsOK
    <3>2. CASE d # c
      BY <1>1, <2>1, <3>2 DEF CallsOK
    <3>3. QED
      BY <3>1, <3>2
  <2>3. QED
    BY <2>1, <2>2 DEF CreditsOK
<1>6. QED
  BY <1>1, <1>2, <1>3, <1>4, <1>5 DEF ServiceInv, CallsOK

LEMMA OwnCall ==
  ASSUME ServiceInv, UNCHANGED <<world, stored, memory>>,
         errors' \in 0..MaxErrors, answer' = NoAnswer, NEW c \in Askers,
         NEW r \in Request, CallOK(r), MayFind(c, r, stored["credits"][User]),
         request' = [request EXCEPT ![c] = r]
  PROVE  ServiceInv'
<1>1. PublishedOK' /\ Onward
  BY Steady DEF ServiceInv, PublishedOK, world
<1>2. StoredOK'
  BY <1>1, StoredStays DEF ServiceInv
<1>3. \A d \in Askers : MayFind(d, request[d], stored["credits"][User])
  BY DEF ServiceInv, CreditsOK
<1>4. QED
  BY <1>2, <1>3, OneCall

\* What is known of a call that is on its way.
LEMMA AtWork ==
  ASSUME ServiceInv, NEW c \in Askers, request[c].at # "none"
  PROVE  /\ request[c] \in Request /\ CallOK(request[c])
         /\ request[c].began \in 0..clock /\ clock <= request[c].began + CallTime
         /\ request[c].todo # {} => /\ SourceOf(c) = First(request[c].todo)
                                    /\ SourceOf(c) \in request[c].todo
                                    /\ SourceOf(c) \in Sources
                                    /\ SubjectOf(c) = About(request[c])
                                    /\ SubjectOf(c) \in Subjects
<1>1. request[c] \in Request /\ CallOK(request[c]) /\ clock \in 0..LastTick
  BY DEF ServiceInv, CallsOK, PublishedOK
<1>2. request[c].began \in 0..clock /\ clock <= request[c].began + CallTime
  BY <1>1 DEF CallOK, Request
<1>3. request[c].todo # {} => SourceOf(c) \in request[c].todo /\ SourceOf(c) \in Sources
  BY <1>1, FirstIsOne DEF Request, SourceOf
<1>4. request[c].todo # {} => SubjectOf(c) \in Subjects
  BY <1>1, <1>3 DEF CallOK, Subject, Subjects, SubjectOf
<1>5. QED
  BY <1>1, <1>2, <1>3, <1>4 DEF SourceOf, SubjectOf, About

LEMMA Settled ==
  ASSUME ServiceInv, NEW c \in Askers, request[c].at \notin {"none", "signals"},
         request[c].todo # {}, NEW f \in Fact, AllGood(f.says, SourceOf(c), SubjectOf(c)),
         Recent(f, SourceOf(c), request[c].began), Settle(c, f)
  PROVE  \E r \in Request : /\ CallOK(r) /\ \A W : MayFind(c, r, W)
                            /\ request' = [request EXCEPT ![c] = r]
<1>1. PICK q \in Request : q = request[c]
  BY AtWork
<1>2. PICK s \in Sources : s = SourceOf(c)
  BY AtWork
<1>3. PICK h : h = [t \in DOMAIN q.got \cup {s} |-> IF t = s THEN f ELSE q.got[t]]
  OBVIOUS
<1>4. PICK r : r = [q EXCEPT !.at = "enriches", !.todo = @ \ {s}, !.row = NoRow,
                             !.fetched = Absent.fetched, !.stamp = 0, !.saved = "no",
                             !.got = h]
  OBVIOUS
<1>5. /\ h \in Findings /\ DOMAIN h = DOMAIN q.got \cup {s} /\ h[s] = f
      /\ \A t \in DOMAIN q.got : t # s => h[t] = q.got[t]
  BY <1>3, OneMore DEF Request
<1>6. Absent.fetched \in Reading /\ 0 \in 0..LastTick /\ NoRow \in Seen
  BY NothingRead, NoRowIsSeen DEF Absent
<1>7. /\ r \in Request /\ r.at = "enriches" /\ r.todo = q.todo \ {s} /\ r.got = h
      /\ r.saved = "no"
      /\ r.repo = q.repo /\ r.began = q.began /\ r.linked = q.linked
  BY <1>4, <1>5, <1>6 DEF Request
<1>8. /\ CallOK(q) /\ clock <= q.began + CallTime /\ q.at \notin {"none", "signals"}
      /\ SubjectOf(c) = Subject(s, q.repo)
  BY <1>1, <1>2, AtWork DEF SubjectOf
<1>9. Gathered(h, q.repo, q.began)
  BY <1>1, <1>2, <1>5, <1>8 DEF CallOK, Gathered
<1>10. CallOK(r) /\ \A W : MayFind(c, r, W)
  BY <1>7, <1>8, <1>9 DEF CallOK, MayFind
<1>11. request' = [request EXCEPT ![c] = r]
  <2>1. request \in [Askers -> Request]
    BY DEF ServiceInv, CallsOK
  <2>2. request' = [request EXCEPT ![c] = [request[c] EXCEPT !.at = "enriches",
                      !.todo = @ \ {s}, !.row = NoRow, !.fetched = Absent.fetched,
                      !.stamp = 0, !.saved = "no", !.got = h]]
    BY <1>1, <1>2, <1>3, <2>1 DEF Settle
  <2>3. QED
    BY <1>1, <1>4, <2>2
<1>12. QED
  BY <1>7, <1>10, <1>11

LEMMA SettleKeeps ==
  ASSUME ServiceInv, NEW c \in Askers, request[c].at \notin {"none", "signals"},
         request[c].todo # {}, NEW f \in Fact, AllGood(f.says, SourceOf(c), SubjectOf(c)),
         Recent(f, SourceOf(c), request[c].began), Settle(c, f),
         UNCHANGED <<world, stored, memory>>,
         errors' \in 0..MaxErrors, answer' = NoAnswer
  PROVE  ServiceInv'
BY Settled, OwnCall

\* Facts that are no older than some time are no older than an earlier one.
LEMMA RecentSince ==
  ASSUME NEW f \in Fact, NEW s \in Sources, NEW n \in Int, NEW m \in Int, m <= n,
         Recent(f, s, n)
  PROVE  Recent(f, s, m)
<1>1. SUFFICES ASSUME ~f.old, NEW r \in f.says
               PROVE  m <= r.asOf + RowTTL[s] + CallTime
  BY DEF Recent
<1>2. n <= r.asOf + RowTTL[s] + CallTime
  BY <1>1 DEF Recent
<1>3. r.asOf \in Int /\ RowTTL[s] \in Int /\ CallTime \in Int
  BY ServiceConstants DEF Fact, Reading
<1>4. QED
  BY <1>2, <1>3

LEMMA HitKeeps ==
  ASSUME ServiceInv, NEW repo \in Repos \cup {NoRepo}, NEW plan \in PlanNames, Hit(repo, plan)
  PROVE  ServiceInv'
<1>1. /\ PublishedOK /\ StoredOK /\ CallsOK /\ CreditsOK /\ MemoryOK
      /\ UNCHANGED <<clock, configured, fetchesCredits, actual, shown, news>>
      /\ UNCHANGED <<stored, request, errors>>
      /\ memory[repo].expiresAt >= clock
      /\ Answer(repo, plan, memory[repo].full, memory[repo].built)
      /\ memory' = [memory EXCEPT ![repo].full = @]
  BY DEF ServiceInv, Hit, Cached, CacheKey, EnrichForPlan, world
<1>2. PublishedOK' /\ Onward
  BY <1>1, Steady DEF PublishedOK
<1>3. memory' = memory
  BY <1>1 DEF MemoryOK, Entry
<1>4. StoredOK' /\ MemoryOK' /\ CallsOK' /\ CreditsOK'
  BY <1>1, <1>2, <1>3, StoredStays, MemoryStays, CallsStay, CreditsStay, InTime
<1>5. AnswerOK'
  <2>1. /\ memory[repo] \in Entry /\ memory[repo].full = memory[repo].built
        /\ Gathered(memory[repo].built, repo, memory[repo].expiresAt - MemTTL - CallTime)
        /\ DOMAIN memory[repo].built \subseteq Sources
    BY <1>1, FindingsOf DEF MemoryOK, Entry
  <2>2. PICK g : g = memory[repo].built
    OBVIOUS
  <2>3. /\ answer' = [repo |-> repo, plan |-> plan, shows |-> Carried(g) \cap Visible(plan),
                      of |-> g]
        /\ DOMAIN g \subseteq Sources
    BY <1>1, <2>1, <2>2 DEF Answer
  <2>4. Gathered(g, repo, clock - MemTTL - CallTime)
    <3>1. ASSUME NEW s \in DOMAIN g PROVE Recent(g[s], s, clock - MemTTL - CallTime)
      <4>1. /\ Recent(g[s], s, memory[repo].expiresAt - MemTTL - CallTime)
            /\ g[s] \in Fact /\ s \in Sources
        BY <2>1, <2>2 DEF Gathered
      <4>2. /\ memory[repo].expiresAt \in Int /\ clock \in Int
            /\ MemTTL \in Int /\ CallTime \in Int
        BY <1>1, <2>1, ServiceConstants DEF PublishedOK, Entry
      <4>3. QED
        BY <1>1, <4>1, <4>2, RecentSince
    <3>2. QED
      BY <2>1, <2>2, <3>1 DEF Gathered
  <2>5. Gathered(g, repo, clock - MemTTL - CallTime)'
    BY <1>1, <1>2, <2>3, <2>4, GatheredStays
  <2>6. QED
    BY <1>1, <2>3, <2>5 DEF AnswerOK, AnswersFitPlan
<1>6. QED
  BY <1>2, <1>4, <1>5 DEF ServiceInv

LEMMA FinishKeeps ==
  ASSUME ServiceInv, NEW c \in Askers, NEW plan \in PlanNames, Finish(c, plan)
  PROVE  ServiceInv'
<1>1. /\ PublishedOK /\ StoredOK /\ CallsOK /\ CreditsOK /\ MemoryOK
      /\ UNCHANGED <<clock, configured, fetchesCredits, actual, shown, news>>
      /\ UNCHANGED <<stored, errors>>
      /\ request[c].at = "enriches"
  BY DEF ServiceInv, Finish, world
<1>2. PublishedOK' /\ Onward
  BY <1>1, Steady DEF PublishedOK
<1>3. /\ request[c] \in Request /\ request[c].began \in 0..clock
      /\ clock <= request[c].began + CallTime
      /\ Gathered(request[c].got, request[c].repo, request[c].began)
      /\ DOMAIN request[c].got \subseteq Sources
  BY <1>1, AtWork, FindingsOf DEF CallOK, Request
<1>4. PICK k \in Repos \cup {NoRepo} : k = request[c].repo
  BY <1>3 DEF Request
<1>5. PICK g \in Findings : g = request[c].got
  BY <1>3 DEF Request
<1>6. Gathered(g, k, clock - CallTime)
  <2>1. ASSUME NEW s \in DOMAIN g PROVE Recent(g[s], s, clock - CallTime)
    <3>1. Recent(g[s], s, request[c].began) /\ g[s] \in Fact /\ s \in Sources
      BY <1>3, <1>5 DEF Gathered
    <3>2. request[c].began \in Int /\ clock \in Int /\ CallTime \in Int
      BY <1>1, <1>3, ServiceConstants DEF PublishedOK
    <3>3. QED
      BY <1>3, <3>1, <3>2, RecentSince
  <2>2. QED
    BY <1>3, <1>4, <1>5, <2>1 DEF Gathered
<1>7. PICK e : e = [full |-> g, built |-> g, expiresAt |-> clock + MemTTL]
  OBVIOUS
<1>8. /\ e \in Entry /\ e.full = g /\ e.built = g /\ e.expiresAt = clock + MemTTL
      /\ memory' = [memory EXCEPT ![k] = e]
  <2>1. clock + MemTTL \in -1..LastTick + MemTTL
    BY <1>1, ServiceConstants DEF PublishedOK
  <2>2. e \in Entry
    BY <1>7, <2>1 DEF Entry
  <2>3. QED
    BY <1>4, <1>5, <1>7, <2>2 DEF Finish, Remember, CacheKey
<1>9. MemoryOK'
  <2>1. memory' \in [Repos \cup {NoRepo} -> Entry]
    BY <1>1, <1>8 DEF MemoryOK
  <2>2. ASSUME NEW j \in Repos \cup {NoRepo}
        PROVE  /\ memory'[j].full = memory'[j].built
               /\ Gathered(memory[j].built, j, memory[j].expiresAt - MemTTL - CallTime)'
    <3>1. CASE j = k
      <4>2. memory'[j] = e
        BY <1>1, <1>8, <3>1 DEF MemoryOK
      <4>3. PICK n : n = clock - CallTime
        OBVIOUS
      <4>4. Gathered(e.built, k, e.expiresAt - MemTTL - CallTime)'
        <5>1. DOMAIN g \subseteq Sources /\ Gathered(g, k, n)'
          BY <1>1, <1>2, <1>3, <1>5, <1>6, <4>3, GatheredStays
        <5>2. e.expiresAt - MemTTL - CallTime = n /\ e.built = g
          <6>1. clock \in Int /\ MemTTL \in Int /\ CallTime \in Int
            BY <1>1, ServiceConstants DEF PublishedOK
          <6>2. QED
            BY <1>8, <4>3, <6>1
        <5>3. QED
          BY <5>1, <5>2
      <4>5. QED
        BY <1>8, <3>1, <4>2, <4>4
    <3>2. CASE j # k
      <4>1. memory'[j] = memory[j]
        BY <1>1, <1>8, <3>2 DEF MemoryOK
      <4>2. PICK d \in Entry : d = memory[j]
        BY <1>1 DEF MemoryOK
      <4>3. Gathered(d.built, j, d.expiresAt - MemTTL - CallTime)'
        <5>1. /\ Gathered(d.built, j, d.expiresAt - MemTTL - CallTime)
              /\ DOMAIN d.built \subseteq Sources
          BY <1>1, <4>2, FindingsOf DEF MemoryOK, Entry
        <5>2. QED
          BY <1>1, <1>2, <5>1, GatheredStays
      <4>4. QED
        BY <1>1, <4>1, <4>2, <4>3 DEF MemoryOK
    <3>3. QED
      BY <3>1, <3>2
  <2>3. QED
    BY <2>1, <2>2 DEF MemoryOK
<1>10. CallsOK'
  <2>1. request' = [request EXCEPT ![c] = Absent]
    BY DEF Finish
  <2>2. ASSUME NEW d \in Askers PROVE CallOK(request[d])'
    <3>1. PICK q \in Request : q = request'[d]
      BY <1>1, <2>1, AbsentIsOK DEF CallsOK
    <3>2. q = Absent \/ q = request[d]
      BY <1>1, <2>1, <3>1 DEF CallsOK
    <3>3. CallOK(q)
      BY <1>1, <3>2, AbsentIsOK DEF CallsOK
    <3>4. q.at # "none" => clock' <= q.began + CallTime
      BY <1>1, <3>3 DEF CallOK
    <3>5. CallOK(q)'
      BY <1>1, <1>2, <3>3, <3>4, CallStays
    <3>6. QED
      BY <3>1, <3>5
  <2>3. QED
    BY <1>1, <2>1, <2>2, AbsentIsOK DEF CallsOK
<1>11. CreditsOK'
  <2>1. PICK W : W = stored["credits"][User]
    OBVIOUS
  <2>2. ASSUME NEW d \in Askers PROVE MayFind(d, request'[d], W)
    <3>1. request'[d] = Absent \/ request'[d] = request[d]
      BY <1>1 DEF Finish, CallsOK
    <3>2. QED
      BY <1>1, <2>1, <3>1, AbsentIsOK DEF CreditsOK
  <2>3. QED
    BY <1>1, <2>1, <2>2 DEF CreditsOK
<1>12. AnswerOK'
  <2>1. /\ answer' = [repo |-> k, plan |-> plan, shows |-> Carried(g) \cap Visible(plan),
                      of |-> g]
        /\ DOMAIN g \subseteq Sources
    BY <1>3, <1>4, <1>5 DEF Finish, Answer
  <2>2. Gathered(g, k, clock - MemTTL - CallTime)
    <3>1. ASSUME NEW s \in DOMAIN g PROVE Recent(g[s], s, clock - MemTTL - CallTime)
      <4>1. Recent(g[s], s, clock - CallTime) /\ g[s] \in Fact /\ s \in Sources
        BY <1>6, <2>1 DEF Gathered
      <4>2. clock \in Int /\ MemTTL \in Nat /\ CallTime \in Int
        BY <1>1, ServiceConstants DEF PublishedOK
      <4>3. QED
        BY <4>1, <4>2, RecentSince
    <3>2. QED
      BY <1>6, <3>1 DEF Gathered
  <2>3. Gathered(g, k, clock - MemTTL - CallTime)'
    BY <1>1, <1>2, <2>1, <2>2, GatheredStays
  <2>4. QED
    BY <1>1, <2>1, <2>3 DEF AnswerOK, AnswersFitPlan
<1>13. QED
  BY <1>1, <1>2, <1>9, <1>10, <1>11, <1>12, StoredStays DEF ServiceInv

LEMMA EvictKeeps == ASSUME ServiceInv, Evict, answer' = NoAnswer PROVE ServiceInv'
<1>1. /\ PublishedOK /\ StoredOK /\ CallsOK /\ CreditsOK /\ MemoryOK
      /\ UNCHANGED <<clock, configured, fetchesCredits, actual, shown, news>>
      /\ UNCHANGED <<stored, request, errors>>
      /\ memory' = [k \in DOMAIN memory |->
                      IF memory[k].expiresAt < clock THEN NoEntry ELSE memory[k]]
  BY DEF ServiceInv, Evict, world
<1>2. PublishedOK' /\ Onward
  BY <1>1, Steady DEF PublishedOK
<1>3. NoEntry \in Entry /\ NoEntry.full = NoEntry.built /\ DOMAIN NoEntry.built = {}
  <2>1. -1 \in -1..LastTick + MemTTL
    BY ServiceConstants
  <2>2. QED
    BY <2>1, NothingFound DEF NoEntry, Entry
<1>4. memory' \in [Repos \cup {NoRepo} -> Entry]
  BY <1>1, <1>3 DEF MemoryOK
<1>5. ASSUME NEW j \in Repos \cup {NoRepo}
      PROVE  /\ memory'[j].full = memory'[j].built
             /\ Gathered(memory[j].built, j, memory[j].expiresAt - MemTTL - CallTime)'
  <2>1. PICK d \in Entry : d = memory'[j]
    BY <1>4
  <2>2. d = NoEntry \/ d = memory[j]
    BY <1>1, <2>1 DEF MemoryOK
  <2>3. /\ d.full = d.built
        /\ Gathered(d.built, j, d.expiresAt - MemTTL - CallTime)
        /\ DOMAIN d.built \subseteq Sources
    <3>1. CASE d = NoEntry
      BY <1>3, <3>1 DEF Gathered
    <3>2. CASE d = memory[j]
      BY <1>1, <2>1, <3>2, FindingsOf DEF MemoryOK, Entry
    <3>3. QED
      BY <2>2, <3>1, <3>2
  <2>4. Gathered(d.built, j, d.expiresAt - MemTTL - CallTime)'
    BY <1>1, <1>2, <2>3, GatheredStays
  <2>5. QED
    BY <2>1, <2>3, <2>4
<1>6. QED
  BY <1>1, <1>2, <1>4, <1>5, StoredStays, CallsStay, CreditsStay, InTime, NoAnswerIsOK
     DEF ServiceInv, MemoryOK

LEMMA CacheMissKeeps ==
  ASSUME ServiceInv, NEW c \in Askers, NEW repo \in Repos \cup {NoRepo}, CacheMiss(c, repo),
         answer' = NoAnswer
  PROVE  ServiceInv'
<1>1. PublishedOK /\ UNCHANGED <<world, stored, memory, errors>>
  BY DEF ServiceInv, CacheMiss
<1>2. PICK r : r = [Absent EXCEPT !.at = "signals", !.repo = repo, !.began = clock,
                                  !.todo = Asked(repo)]
  OBVIOUS
<1>3. Absent \in Request /\ clock \in 0..LastTick /\ Asked(repo) \in SUBSET Sources
  BY <1>1, AbsentIsOK, ServiceConstants DEF PublishedOK, Asked
<1>4. /\ r \in Request /\ r.at = "signals" /\ r.repo = repo /\ r.began = clock
      /\ r.todo = Asked(repo) /\ r.got = Absent.got /\ r.saved = Absent.saved
  BY <1>2, <1>3 DEF Request
<1>5. DOMAIN Absent.got = {} /\ Absent.saved = "no"
  BY DEF Absent
<1>6. "ossf" \in Asked(repo) => repo \in Repos
  BY DEF Asked
<1>7. CallOK(r) /\ MayFind(c, r, stored["credits"][User])
  <2>1. r.began <= clock /\ clock <= r.began + CallTime
    BY <1>3, <1>4, ServiceConstants
  <2>2. QED
    BY <1>4, <1>5, <1>6, <2>1 DEF CallOK, Gathered, MayFind
<1>8. request' = [request EXCEPT ![c] = r] /\ errors' \in 0..MaxErrors
  BY <1>1, <1>2, ErrorType DEF CacheMiss
<1>9. QED
  BY <1>1, <1>4, <1>7, <1>8, OwnCall

LEMMA FetchUserKeeps ==
  ASSUME ServiceInv, NEW c \in Askers, FetchUser(c), answer' = NoAnswer
  PROVE  ServiceInv'
<1>1. /\ PublishedOK /\ request[c].at = "signals"
      /\ UNCHANGED <<world, stored, memory, errors>>
  BY DEF ServiceInv, FetchUser
<1>2. PICK q \in Request : q = request[c]
  BY <1>1, AtWork
<1>3. CallOK(q) /\ q.began <= clock /\ clock \in 0..LastTick
  BY <1>1, <1>2, AtWork DEF CallOK, PublishedOK
<1>4. PICK l : l = [yes |-> actual["stackoverflow"][User] # Nothing, asOf |-> clock]
  OBVIOUS
<1>5. PICK r : r = [q EXCEPT !.at = "enriches", !.linked = l]
  OBVIOUS
<1>6. /\ l \in [yes : BOOLEAN, asOf : 0..LastTick] /\ l.asOf = clock
      /\ l.yes = (actual["stackoverflow"][User] # Nothing)
  BY <1>3, <1>4
<1>7. /\ r \in Request /\ r.at = "enriches" /\ r.linked = l /\ r.todo = q.todo
      /\ r.repo = q.repo /\ r.began = q.began /\ r.got = q.got /\ r.saved = q.saved
  BY <1>5, <1>6 DEF Request
<1>8. l.yes \/ Nothing \in shown[l.asOf]["stackoverflow"][User]
  <2>1. "stackoverflow" \in Sources /\ User \in Subjects
    BY DEF Sources, Subjects
  <2>2. QED
    BY <1>1, <1>6, <2>1 DEF PublishedOK
<1>9. q.saved = "no"
  BY <1>1, <1>2, <1>3 DEF CallOK
<1>10. CallOK(r) /\ MayFind(c, r, stored["credits"][User])
  BY <1>1, <1>2, <1>3, <1>6, <1>7, <1>8, <1>9 DEF CallOK, MayFind
<1>11. request' = [request EXCEPT ![c] = r] /\ errors' \in 0..MaxErrors
  BY <1>1, <1>2, <1>4, <1>5, ErrorType DEF FetchUser
<1>12. QED
  BY <1>1, <1>7, <1>10, <1>11, OwnCall

LEMMA SignalsFailKeeps ==
  ASSUME ServiceInv, NEW c \in Askers, SignalsFail(c), answer' = NoAnswer
  PROVE  ServiceInv'
BY AbsentIsOK, ErrorType, OwnCall DEF SignalsFail, ServiceInv

\* Of all that a query finds in good rows.
LEMMA FoundIsGood ==
  ASSUME NEW s, NEW x, NEW W \in SUBSET Row, RowsGood(W, s, x)
  PROVE  SeenOK(SeenIn(W), s, x)
<1>1. /\ SeenIn(W).says = {w.of : w \in W}
      /\ SeenIn(W).stamps = {w.fetchedAt : w \in W}
  BY DEF SeenIn
<1>2. SeenIn(W) \in Seen
  BY DEF SeenIn, Seen, Row
<1>3. ASSUME NEW t \in SeenIn(W).stamps, NEW r \in SeenIn(W).says
      PROVE  t <= r.asOf + CallTime
  <2>1. PICK v \in W, w \in W : t = v.fetchedAt /\ r = w.of
    BY <1>1
  <2>2. QED
    BY <2>1 DEF RowsGood
<1>4. QED
  BY <1>1, <1>2, <1>3 DEF SeenOK, RowsGood

LEMMA NoRowIsOK == \A s, x : SeenOK(NoRow, s, x)
<1>1. NoRow.says = {} /\ NoRow.stamps = {}
  BY DEF NoRow
<1>2. QED
  BY <1>1, NoRowIsSeen DEF SeenOK, AllGood

LEMMA RowsOfCall ==
  ASSUME ServiceInv, NEW c \in Askers, request[c].at # "none", request[c].todo # {}
  PROVE  /\ Rows(c) \in SUBSET Row /\ RowsGood(Rows(c), SourceOf(c), SubjectOf(c))
         /\ SourceOf(c) = "credits" => /\ Rows(c) = stored["credits"][User]
                                       /\ SubjectOf(c) = User
                                       /\ MayFind(c, request[c], Rows(c))
<1>1. Rows(c) \in SUBSET Row /\ RowsGood(Rows(c), SourceOf(c), SubjectOf(c))
  BY AtWork DEF Rows, ServiceInv, StoredOK
<1>2. SourceOf(c) = "credits" => SubjectOf(c) = User
  BY DEF SubjectOf, Subject
<1>3. QED
  BY <1>1, <1>2 DEF Rows, ServiceInv, CreditsOK

\* What a query has found decides, or is put by for the case that the fetch fails.
LEMMA JudgeKeeps ==
  ASSUME ServiceInv, NEW c \in Askers, request[c].at \in {"enriches", "lists"},
         request[c].todo # {}, NEW row \in Seen,
         AllGood(row.says, SourceOf(c), SubjectOf(c)),
         request[c].saved = "yes" => \A r \in row.says : request[c].began <= r.asOf + CallTime,
         \A t \in row.stamps, r \in row.says :
           t <= r.asOf + CallTime \/ request[c].began <= r.asOf + CallTime,
         Judge(c, row), UNCHANGED <<world, stored, memory>>,
         errors' \in 0..MaxErrors, answer' = NoAnswer
  PROVE  ServiceInv'
<1>1. PICK q \in Request : q = request[c]
  BY AtWork
<1>2. /\ CallOK(q) /\ q.began \in 0..clock /\ SourceOf(c) = First(q.todo)
      /\ SourceOf(c) \in Sources /\ SubjectOf(c) = About(q)
      /\ PublishedOK
  BY <1>1, AtWork DEF ServiceInv
<1>3. /\ q.began \in Int /\ clock \in Int /\ RowTTL[SourceOf(c)] \in Nat /\ CallTime \in Int
      /\ \A r \in row.says : r.asOf \in Int
      /\ \A t \in row.stamps : t \in Int
  BY <1>2, ServiceConstants DEF PublishedOK, Seen, Reading
<1>4. \A o \in BOOLEAN : /\ FromRows(row, o) \in Fact /\ FromRows(row, o).says = row.says
                         /\ FromRows(row, o).old = o
  BY DEF FromRows, Fact, Seen
<1>5. CASE q.saved # "no"
  <2>1. PICK o \in BOOLEAN : o = (q.saved = "failed")
    OBVIOUS
  <2>2. Settle(c, FromRows(row, o))
    BY <1>1, <1>5, <2>1 DEF Judge
  <2>3. Recent(FromRows(row, o), SourceOf(c), q.began)
    <3>1. SUFFICES ASSUME ~o, NEW r \in row.says
                   PROVE  q.began <= r.asOf + RowTTL[SourceOf(c)] + CallTime
      BY <1>4 DEF Recent
    <3>2. q.saved = "yes"
      BY <1>5, <2>1, <3>1 DEF Request
    <3>3. QED
      BY <1>1, <1>3, <3>2
  <2>4. QED
    BY <1>1, <1>4, <2>2, <2>3, SettleKeeps
<1>6. CASE q.saved = "no" /\ Fresh(row, SourceOf(c))
  <2>1. Settle(c, FromRows(row, FALSE))
    BY <1>1, <1>6 DEF Judge
  <2>2. Recent(FromRows(row, FALSE), SourceOf(c), q.began)
    <3>1. SUFFICES ASSUME NEW r \in row.says
                   PROVE  q.began <= r.asOf + RowTTL[SourceOf(c)] + CallTime
      BY <1>4 DEF Recent
    <3>2. PICK t \in row.stamps : clock - t < RowTTL[SourceOf(c)]
      BY <1>6 DEF Fresh
    <3>3. t <= r.asOf + CallTime \/ q.began <= r.asOf + CallTime
      BY <1>1
    <3>4. q.began <= clock
      BY <1>2
    <3>5. QED
      BY <1>3, <3>2, <3>3, <3>4
  <2>3. QED
    BY <1>1, <1>4, <2>1, <2>2, SettleKeeps
<1>7. CASE q.saved = "no" /\ ~Fresh(row, SourceOf(c))
  <2>1. PICK r : r = [q EXCEPT !.at = "fetches", !.row = row]
    OBVIOUS
  <2>2. /\ r \in Request /\ r.at = "fetches" /\ r.row = row /\ r.todo = q.todo
        /\ r.repo = q.repo /\ r.began = q.began /\ r.linked = q.linked /\ r.got = q.got
        /\ r.saved = "no"
    BY <1>7, <2>1 DEF Request
  <2>3. CallOK(r) /\ MayFind(c, r, stored["credits"][User])
    BY <1>1, <1>2, <2>2 DEF CallOK, MayFind, About
  <2>4. request' = [request EXCEPT ![c] = r]
    BY <1>1, <1>7, <2>1 DEF Judge
  <2>5. QED
    BY <2>2, <2>3, <2>4, OwnCall
<1>8. QED
  BY <1>5, <1>6, <1>7

LEMMA ReadRowKeeps ==
  ASSUME ServiceInv, NEW c \in Askers, ReadRow(c), answer' = NoAnswer PROVE ServiceInv'
<1>1. /\ request[c].at = "enriches" /\ request[c].todo # {} /\ PublishedOK
      /\ UNCHANGED <<world, stored, memory>> /\ errors' \in 0..MaxErrors
  BY ErrorType DEF ServiceInv, ReadRow
<1>2. PICK q \in Request : q = request[c]
  BY <1>1, AtWork
<1>3. /\ CallOK(q) /\ SourceOf(c) = First(q.todo) /\ SubjectOf(c) = About(q)
  BY <1>1, <1>2, AtWork
<1>4. PICK row : row = SeenIn(Rows(c))
  OBVIOUS
<1>5. SeenOK(row, SourceOf(c), SubjectOf(c))
  BY <1>1, <1>4, RowsOfCall, FoundIsGood
<1>6. q.saved = "yes" => \A r \in row.says : q.began <= r.asOf + CallTime
  <2>1. SUFFICES ASSUME q.saved = "yes", NEW r \in row.says
                 PROVE  q.began <= r.asOf + CallTime
    OBVIOUS
  <2>2. SourceOf(c) = "credits"
    BY <1>3, <2>1 DEF CallOK
  <2>3. PICK w \in Rows(c) : r = w.of
    BY <1>4, <2>1 DEF SeenIn
  <2>4. QED
    BY <1>1, <1>2, <2>1, <2>2, <2>3, RowsOfCall DEF MayFind
<1>7. CASE Judge(c, row)
  BY <1>1, <1>2, <1>5, <1>6, <1>7, JudgeKeeps DEF SeenOK
<1>8. CASE Judge(c, NoRow)
  <2>1. NoRow.says = {} /\ NoRow.stamps = {} /\ NoRow \in Seen
    BY NoRowIsSeen DEF NoRow
  <2>2. AllGood(NoRow.says, SourceOf(c), SubjectOf(c))
    BY NoRowIsOK DEF SeenOK
  <2>3. QED
    BY <1>1, <1>8, <2>1, <2>2, JudgeKeeps
<1>9. CASE /\ SourceOf(c) = "credits"
           /\ request' = [request EXCEPT ![c].at = "lists", ![c].row = row]
  <2>1. PICK r : r = [q EXCEPT !.at = "lists", !.row = row]
    OBVIOUS
  <2>2. /\ r \in Request /\ r.at = "lists" /\ r.row = row /\ r.todo = q.todo
        /\ r.repo = q.repo /\ r.began = q.began /\ r.linked = q.linked /\ r.got = q.got
        /\ r.saved = q.saved
    BY <1>5, <2>1 DEF Request, SeenOK
  <2>3. CallOK(r)
    BY <1>1, <1>2, <1>3, <1>5, <1>6, <1>9, <2>2 DEF CallOK, About
  <2>4. MayFind(c, r, stored["credits"][User])
    <3>1. ASSUME NEW w \in stored["credits"][User], NEW t \in row.stamps
          PROVE  t <= w.of.asOf + CallTime
      <4>1. w \in Rows(c)
        BY <1>1, <1>9, RowsOfCall
      <4>2. w.of \in row.says
        BY <1>4, <4>1 DEF SeenIn
      <4>3. QED
        BY <1>5, <4>2 DEF SeenOK
    <3>2. MayFind(c, q, stored["credits"][User])
      BY <1>2 DEF ServiceInv, CreditsOK
    <3>3. QED
      BY <2>2, <3>1, <3>2 DEF MayFind
  <2>5. request' = [request EXCEPT ![c] = r]
    BY <1>2, <1>9, <2>1
  <2>6. QED
    BY <1>1, <2>2, <2>3, <2>4, <2>5, OwnCall
<1>10. QED
  BY <1>4, <1>7, <1>8, <1>9 DEF ReadRow

LEMMA ListRecentKeeps ==
  ASSUME ServiceInv, NEW c \in Askers, ListRecent(c), answer' = NoAnswer PROVE ServiceInv'
<1>1. /\ request[c].at = "lists" /\ PublishedOK
      /\ UNCHANGED <<world, stored, memory>> /\ errors' \in 0..MaxErrors
  BY ErrorType DEF ServiceInv, ListRecent
<1>2. PICK q \in Request : q = request[c]
  BY <1>1, AtWork
<1>3. /\ CallOK(q) /\ q.todo # {} /\ SourceOf(c) = First(q.todo) /\ SubjectOf(c) = About(q)
      /\ SourceOf(c) = "credits" /\ SeenOK(q.row, SourceOf(c), SubjectOf(c))
  BY <1>1, <1>2, AtWork DEF CallOK
<1>4. /\ Rows(c) \in SUBSET Row /\ RowsGood(Rows(c), SourceOf(c), SubjectOf(c))
      /\ MayFind(c, q, Rows(c))
  BY <1>1, <1>2, <1>3, RowsOfCall
<1>5. CASE Judge(c, NoRow)
  <2>1. NoRow.says = {} /\ NoRow.stamps = {} /\ NoRow \in Seen
    BY NoRowIsSeen DEF NoRow
  <2>2. AllGood(NoRow.says, SourceOf(c), SubjectOf(c))
    BY NoRowIsOK DEF SeenOK
  <2>3. QED
    BY <1>1, <1>2, <1>3, <1>5, <2>1, <2>2, JudgeKeeps
<1>6. PICK row : row = [q.row EXCEPT !.says = @ \cup SeenIn(Rows(c)).says]
  OBVIOUS
<1>7. SeenOK(SeenIn(Rows(c)), SourceOf(c), SubjectOf(c))
  BY <1>4, FoundIsGood
<1>8. /\ row \in Seen /\ row.stamps = q.row.stamps
      /\ row.says = q.row.says \cup SeenIn(Rows(c)).says
  BY <1>3, <1>6, <1>7 DEF SeenOK, Seen
<1>9. AllGood(row.says, SourceOf(c), SubjectOf(c))
  BY <1>3, <1>7, <1>8 DEF SeenOK, AllGood
<1>10. ASSUME NEW r \in SeenIn(Rows(c)).says
       PROVE  /\ \/ q.began <= r.asOf + CallTime
                 \/ \A t \in q.row.stamps : t <= r.asOf + CallTime
              /\ q.saved = "yes" => q.began <= r.asOf + CallTime
  <2>1. PICK w \in Rows(c) : r = w.of
    BY DEF SeenIn
  <2>2. QED
    BY <1>1, <1>2, <1>4, <2>1 DEF MayFind
<1>11. q.saved = "yes" => \A r \in row.says : q.began <= r.asOf + CallTime
  BY <1>1, <1>2, <1>3, <1>8, <1>10 DEF CallOK
<1>12. \A t \in row.stamps, r \in row.says :
         t <= r.asOf + CallTime \/ q.began <= r.asOf + CallTime
  BY <1>3, <1>8, <1>10 DEF SeenOK
<1>13. CASE Judge(c, row)
  BY <1>1, <1>2, <1>3, <1>8, <1>9, <1>11, <1>12, <1>13, JudgeKeeps
<1>14. QED
  BY <1>2, <1>5, <1>6, <1>13 DEF ListRecent

\* A fetch has brought something: it is saved next.
LEMMA FetchedKeeps ==
  ASSUME ServiceInv, NEW c \in Askers, Fetches(c), NEW f,
         Good(f, SourceOf(c), SubjectOf(c)), request[c].began <= f.asOf, ToSave(c, f),
         errors' \in 0..MaxErrors, answer' = NoAnswer
  PROVE  ServiceInv'
<1>1. request[c].at = "fetches" /\ UNCHANGED <<world, stored, memory>>
  BY DEF Fetches, ToSave
<1>2. PICK q \in Request : q = request[c]
  BY <1>1, AtWork
<1>3. /\ CallOK(q) /\ q.todo # {} /\ SourceOf(c) = First(q.todo) /\ SubjectOf(c) = About(q)
      /\ q.saved = "no"
  BY <1>1, <1>2, AtWork DEF CallOK
<1>4. PICK r : r = [q EXCEPT !.at = "saves", !.fetched = f]
  OBVIOUS
<1>5. /\ r \in Request /\ r.at = "saves" /\ r.fetched = f /\ r.todo = q.todo
      /\ r.repo = q.repo /\ r.began = q.began /\ r.linked = q.linked /\ r.got = q.got
      /\ r.saved = "no"
  BY <1>3, <1>4 DEF Request, Good
<1>6. CallOK(r) /\ MayFind(c, r, stored["credits"][User])
  BY <1>1, <1>2, <1>3, <1>5 DEF CallOK, MayFind, About
<1>7. request' = [request EXCEPT ![c] = r]
  BY <1>2, <1>4 DEF ToSave
<1>8. QED
  BY <1>1, <1>5, <1>6, <1>7, OwnCall

\* What a source says now is true.
LEMMA NowRead ==
  ASSUME PublishedOK, NEW s \in Sources, NEW x \in Subjects
  PROVE  Good(Read(actual[s][x], clock), s, x)
<1>1. actual[s][x] \in Versions /\ actual[s][x] \in shown[clock][s][x] /\ clock \in 0..LastTick
  BY DEF PublishedOK
<1>2. QED
  BY <1>1 DEF Good, True, Read, Reading

LEMMA AskingNow ==
  ASSUME ServiceInv, NEW c \in Askers, Fetches(c)
  PROVE  /\ request[c].at = "fetches" /\ request[c].todo # {} /\ PublishedOK
         /\ SourceOf(c) \in Sources /\ SubjectOf(c) \in Subjects
         /\ request[c].began <= clock /\ clock \in 0..LastTick
<1>1. request[c].at = "fetches" /\ PublishedOK
  BY DEF ServiceInv, Fetches
<1>2. QED
  BY <1>1, AtWork DEF CallOK, PublishedOK

LEMMA FetchAnswersKeeps ==
  ASSUME ServiceInv, NEW c \in Askers, FetchAnswers(c), answer' = NoAnswer
  PROVE  ServiceInv'
<1>1. PICK f : f = Read(actual[SourceOf(c)][SubjectOf(c)], clock)
  OBVIOUS
<1>2. Fetches(c) /\ ToSave(c, f) /\ UNCHANGED errors
  BY <1>1 DEF FetchAnswers
<1>3. Good(f, SourceOf(c), SubjectOf(c))
  BY <1>1, <1>2, AskingNow, NowRead
<1>4. request[c].began <= f.asOf /\ errors' \in 0..MaxErrors
  BY <1>1, <1>2, AskingNow, ErrorType DEF Read
<1>5. QED
  BY <1>2, <1>3, <1>4, FetchedKeeps

LEMMA ForgeFailsKeeps ==
  ASSUME ServiceInv, NEW c \in Askers, ForgeFails(c), answer' = NoAnswer
  PROVE  ServiceInv'
<1>1. PICK f : f = [Read(Nothing, clock) EXCEPT !.part = TRUE]
  OBVIOUS
<1>2. Fetches(c) /\ ToSave(c, f) /\ errors' \in 0..MaxErrors
  BY <1>1, ErrorType DEF ForgeFails, ServiceInv
<1>3. f \in Reading /\ f.asOf = clock /\ f.part
  BY <1>1, <1>2, AskingNow, NothingRead DEF Read, Reading
<1>4. Good(f, SourceOf(c), SubjectOf(c)) /\ request[c].began <= f.asOf
  BY <1>2, <1>3, AskingNow DEF Good, True
<1>5. QED
  BY <1>2, <1>4, FetchedKeeps

LEMMA NoLinkKeeps ==
  ASSUME ServiceInv, NEW c \in Askers, NoLink(c), answer' = NoAnswer
  PROVE  ServiceInv'
<1>1. PICK f : f = Read(Nothing, request[c].linked.asOf)
  OBVIOUS
<1>2. /\ Fetches(c) /\ ToSave(c, f) /\ UNCHANGED errors /\ errors' \in 0..MaxErrors
      /\ SourceOf(c) = "stackoverflow" /\ ~request[c].linked.yes
  BY <1>1, ErrorType DEF NoLink, Unlinked, ServiceInv
<1>3. request[c].at = "fetches"
  BY <1>2, AskingNow
<1>4. /\ request[c].began <= request[c].linked.asOf /\ request[c].linked.asOf <= clock
      /\ Nothing \in shown[request[c].linked.asOf]["stackoverflow"][User]
      /\ request[c].linked.asOf \in 0..LastTick
  BY <1>2, <1>3, AtWork DEF CallOK, Request
<1>5. /\ f \in Reading /\ f.asOf = request[c].linked.asOf /\ f.value = Nothing
  BY <1>1, <1>4, NothingRead DEF Read, Reading
<1>6. SubjectOf(c) = User /\ User \in Subjects
  BY <1>2 DEF Subject, Subjects, SubjectOf
<1>7. Good(f, SourceOf(c), SubjectOf(c))
  BY <1>2, <1>4, <1>5, <1>6 DEF Good, True
<1>8. QED
  BY <1>2, <1>4, <1>5, <1>7, FetchedKeeps

\* What a row says is used because nothing newer could be had.
LEMMA OldRowKeeps ==
  ASSUME ServiceInv, NEW c \in Askers, request[c].at = "fetches",
         Settle(c, FromRows(request[c].row, TRUE)), UNCHANGED <<world, stored, memory>>,
         errors' \in 0..MaxErrors, answer' = NoAnswer
  PROVE  ServiceInv'
<1>1. PICK f : f = FromRows(request[c].row, TRUE)
  OBVIOUS
<1>2. /\ request[c] \in Request /\ request[c].todo # {}
      /\ AllGood(request[c].row.says, SourceOf(c), SubjectOf(c))
  BY AtWork DEF CallOK
<1>3. f \in Fact /\ f.says = request[c].row.says /\ f.old
  BY <1>1, <1>2 DEF FromRows, Fact, Request, Seen
<1>4. QED
  BY <1>1, <1>2, <1>3, SettleKeeps DEF Recent

LEMMA FetchFailsKeeps ==
  ASSUME ServiceInv, NEW c \in Askers, FetchFails(c), answer' = NoAnswer
  PROVE  ServiceInv'
BY ErrorType, OldRowKeeps DEF FetchFails, Fetches, ServiceInv

LEMMA FetchDisabledKeeps ==
  ASSUME ServiceInv, NEW c \in Askers, FetchDisabled(c), answer' = NoAnswer
  PROVE  ServiceInv'
BY ErrorType, OldRowKeeps DEF FetchDisabled, ServiceInv

\* What has been fetched is good enough for the call that fetched it.
LEMMA FetchedReading ==
  ASSUME ServiceInv, NEW c \in Askers, request[c].at \in {"saves", "replaces"}
  PROVE  /\ request[c].todo # {} /\ request[c].fetched \in Reading
         /\ Good(request[c].fetched, SourceOf(c), SubjectOf(c))
         /\ SourceOf(c) \in Sources /\ SubjectOf(c) \in Subjects
         /\ clock \in 0..LastTick /\ request[c].began <= clock
         /\ request[c].began <= request[c].fetched.asOf
         /\ clock <= request[c].fetched.asOf + CallTime
         /\ request[c].began \in Nat /\ CallTime \in Nat /\ request[c].fetched.asOf \in Nat
<1>1. /\ request[c] \in Request /\ CallOK(request[c]) /\ request[c].began \in 0..clock
      /\ clock <= request[c].began + CallTime /\ request[c].todo # {}
      /\ SourceOf(c) \in Sources /\ SubjectOf(c) \in Subjects
      /\ SourceOf(c) = First(request[c].todo) /\ SubjectOf(c) = About(request[c])
  BY AtWork DEF CallOK
<1>2. /\ Good(request[c].fetched, SourceOf(c), SubjectOf(c))
      /\ request[c].began <= request[c].fetched.asOf /\ request[c].fetched \in Reading
  BY <1>1 DEF CallOK, Good
<1>3. /\ request[c].fetched.asOf \in Nat /\ request[c].began \in Nat
      /\ clock \in 0..LastTick /\ CallTime \in Nat
  BY <1>1, <1>2, ServiceConstants DEF Reading, ServiceInv, PublishedOK
<1>4. QED
  BY <1>1, <1>2, <1>3

\* Good rows may take the place of others.
LEMMA StoredPut ==
  ASSUME StoredOK, PublishedOK, PublishedOK', Onward, NEW s \in Sources, NEW x \in Subjects,
         NEW W \in SUBSET Row, RowsGood(W, s, x), stored' = [stored EXCEPT ![s][x] = W]
  PROVE  StoredOK'
<1>1. stored' \in [Sources -> [Subjects -> SUBSET Row]]
  BY DEF StoredOK
<1>2. ASSUME NEW t \in Sources, NEW y \in Subjects PROVE RowsGood(stored[t][y], t, y)'
  <2>1. PICK V : V = stored'[t][y]
    OBVIOUS
  <2>2. V = stored[t][y] \/ (t = s /\ y = x /\ V = W)
    BY <2>1 DEF StoredOK
  <2>3. RowsGood(V, t, y)
    BY <2>2 DEF StoredOK
  <2>4. RowsGood(V, t, y)'
    BY <2>3, RowsStayGood
  <2>5. QED
    BY <2>1, <2>4
<1>3. QED
  BY <1>1, <1>2 DEF StoredOK

LEMMA SaveKeeps ==
  ASSUME ServiceInv, NEW c \in Askers, Save(c), answer' = NoAnswer
  PROVE  ServiceInv'
<1>1. /\ request[c].at = "saves" /\ SourceOf(c) # "credits" /\ PublishedOK /\ StoredOK
      /\ UNCHANGED <<world, memory>> /\ errors' \in 0..MaxErrors
  BY ErrorType DEF ServiceInv, Save
<1>2. PICK f \in Reading : f = request[c].fetched
  BY <1>1, FetchedReading
<1>3. PICK s \in Sources : s = SourceOf(c)
  BY <1>1, FetchedReading
<1>4. PICK x \in Subjects : x = SubjectOf(c)
  BY <1>1, FetchedReading
<1>5. /\ Good(f, s, x) /\ request[c].began <= f.asOf /\ clock <= f.asOf + CallTime
      /\ clock \in 0..LastTick /\ request[c].began \in Nat /\ f.asOf \in Nat
      /\ CallTime \in Nat /\ request[c].todo # {}
  BY <1>1, <1>2, <1>3, <1>4, FetchedReading
<1>6. PublishedOK' /\ Onward
  BY <1>1, Steady DEF PublishedOK, world
<1>7. PICK w : w = [of |-> f, fetchedAt |-> clock, doomed |-> {}]
  OBVIOUS
<1>8. w \in Row /\ w.of = f /\ w.fetchedAt = clock
  BY <1>5, <1>7 DEF Row
<1>9. RowsGood({w}, s, x)
  <2>1. {v.of : v \in {w}} = {f}
    BY <1>8
  <2>2. AllGood({f}, s, x)
    BY <1>5 DEF AllGood
  <2>3. QED
    BY <1>5, <1>8, <2>1, <2>2 DEF RowsGood
<1>10. stored' = [stored EXCEPT ![s][x] = {w}] \/ stored' = stored
  BY <1>2, <1>3, <1>4, <1>7 DEF Save, Keep
<1>11. StoredOK'
  <2>1. {w} \in SUBSET Row
    BY <1>8
  <2>2. CASE stored' = [stored EXCEPT ![s][x] = {w}]
    BY <1>1, <1>6, <1>9, <2>1, <2>2, StoredPut
  <2>3. CASE stored' = stored
    BY <1>1, <1>6, <2>3, StoredStays
  <2>4. QED
    BY <1>10, <2>2, <2>3
<1>12. stored'["credits"][User] = stored["credits"][User]
  <2>1. "credits" \in Sources
    BY DEF Sources
  <2>2. QED
    BY <1>1, <1>3, <1>10, <2>1 DEF StoredOK
<1>13. PICK g : g = Fetched(f)
  OBVIOUS
<1>14. /\ g \in Fact /\ g.says = {f} /\ AllGood(g.says, s, x) /\ Settle(c, g)
  BY <1>2, <1>5, <1>13 DEF Fetched, Fact, AllGood, Save
<1>15. Recent(g, s, request[c].began)
  <2>1. RowTTL[s] \in Nat
    BY ServiceConstants
  <2>2. request[c].began <= f.asOf + RowTTL[s] + CallTime
    BY <1>5, <2>1
  <2>3. QED
    BY <1>14, <2>2 DEF Recent
<1>16. PICK r \in Request : /\ CallOK(r) /\ \A W : MayFind(c, r, W)
                            /\ request' = [request EXCEPT ![c] = r]
  BY <1>1, <1>3, <1>4, <1>5, <1>14, <1>15, Settled
<1>17. \A d \in Askers : MayFind(d, request[d], stored["credits"][User])
  BY DEF ServiceInv, CreditsOK
<1>18. QED
  BY <1>1, <1>11, <1>12, <1>16, <1>17, OneCall

\* Rows of the same readings are as good, whoever has deleted them.
LEMMA SameRows ==
  ASSUME NEW s, NEW x, NEW W \in SUBSET Row, RowsGood(W, s, x), NEW V \in SUBSET Row,
         \A v \in V : \E w \in W : v.of = w.of /\ v.fetchedAt = w.fetchedAt
  PROVE  RowsGood(V, s, x)
<1>1. \A v \in V : v.fetchedAt <= clock
  BY DEF RowsGood
<1>2. AllGood({v.of : v \in V}, s, x)
  BY DEF RowsGood, AllGood
<1>3. ASSUME NEW v \in V, NEW w \in V PROVE v.fetchedAt <= w.of.asOf + CallTime
  <2>1. PICK a \in W, b \in W : v.fetchedAt = a.fetchedAt /\ w.of = b.of
    OBVIOUS
  <2>2. QED
    BY <2>1 DEF RowsGood
<1>4. QED
  BY <1>1, <1>2, <1>3 DEF RowsGood

\* And a call finds in them what it might have found, if its own deletes stand.
LEMMA FindsTheSame ==
  ASSUME NEW d, NEW r, NEW W, MayFind(d, r, W), NEW V,
         \A v \in V : \E w \in W : v.of = w.of /\ (d \in w.doomed => d \in v.doomed)
  PROVE  MayFind(d, r, V)
BY DEF MayFind

LEMMA CreditsOfUser ==
  /\ "credits" \in Sources /\ User \in Subjects
  /\ \A repo : Subject("credits", repo) = User
BY DEF Sources, Subjects, Subject

\* A call that saves credits, and puts these rows in their place.
LEMMA CreditsPut ==
  ASSUME ServiceInv, NEW c \in Askers, request[c].at # "none", request[c].todo # {},
         SourceOf(c) = "credits", NEW V \in SUBSET Row, RowsGood(V, "credits", User),
         Keep(c, V), UNCHANGED <<world, memory>>, errors' \in 0..MaxErrors,
         answer' = NoAnswer, NEW r \in Request, CallOK(r), MayFind(c, r, V),
         request' = [request EXCEPT ![c] = r],
         \A d \in Askers \ {c} : MayFind(d, request[d], V)
  PROVE  ServiceInv'
<1>1. SubjectOf(c) = User
  BY CreditsOfUser DEF SubjectOf
<1>2. stored' = [stored EXCEPT !["credits"][User] = V]
  BY <1>1 DEF Keep
<1>3. PublishedOK' /\ Onward /\ PublishedOK /\ StoredOK
  BY Steady DEF PublishedOK, world, ServiceInv
<1>4. StoredOK'
  BY <1>2, <1>3, CreditsOfUser, StoredPut
<1>5. stored'["credits"][User] = V
  BY <1>2, <1>3, CreditsOfUser DEF StoredOK
<1>6. QED
  BY <1>4, <1>5, OneCall

LEMMA ClearKeeps ==
  ASSUME ServiceInv, NEW c \in Askers, Clear(c), answer' = NoAnswer
  PROVE  ServiceInv'
<1>1. /\ request[c].at = "saves" /\ SourceOf(c) = "credits"
      /\ UNCHANGED <<world, memory, errors>> /\ errors' \in 0..MaxErrors
  BY ErrorType DEF ServiceInv, Clear
<1>2. PICK q \in Request : q = request[c]
  BY <1>1, AtWork
<1>3. /\ CallOK(q) /\ q.todo # {} /\ SourceOf(c) = First(q.todo) /\ SubjectOf(c) = About(q)
      /\ q.saved = "no" /\ q.began <= clock /\ clock \in 0..LastTick
  BY <1>1, <1>2, AtWork, FetchedReading DEF CallOK
<1>4. PICK W \in SUBSET Row : W = Rows(c) /\ RowsGood(W, "credits", User)
  BY <1>1, <1>2, <1>3, RowsOfCall
<1>5. PICK V : V = {[w EXCEPT !.doomed = @ \cup {c}] : w \in W}
  OBVIOUS
<1>6. \A w \in W : LET v == [w EXCEPT !.doomed = @ \cup {c}]
                   IN  /\ v \in Row /\ v.of = w.of /\ v.fetchedAt = w.fetchedAt
                       /\ v.doomed = w.doomed \cup {c}
  BY DEF Row
<1>7. /\ V \in SUBSET Row
      /\ \A v \in V : \E w \in W : /\ v.of = w.of /\ v.fetchedAt = w.fetchedAt
                                   /\ v.doomed = w.doomed \cup {c}
  BY <1>5, <1>6, ZenonT(60)
<1>8. RowsGood(V, "credits", User)
  BY <1>4, <1>7, SameRows
<1>9. PICK r : r = [q EXCEPT !.at = "replaces", !.stamp = clock]
  OBVIOUS
<1>10. /\ r \in Request /\ r.at = "replaces" /\ r.stamp = clock /\ r.fetched = q.fetched
       /\ r.todo = q.todo /\ r.repo = q.repo /\ r.began = q.began /\ r.linked = q.linked
       /\ r.got = q.got /\ r.saved = "no"
  BY <1>3, <1>9 DEF Request
<1>11. CallOK(r)
  BY <1>1, <1>2, <1>3, <1>10 DEF CallOK, About
<1>12. MayFind(c, r, V)
  BY <1>7, <1>10 DEF MayFind
<1>13. ASSUME NEW d \in Askers \ {c} PROVE MayFind(d, request[d], V)
  <2>1. MayFind(d, request[d], W)
    BY <1>1, <1>2, <1>3, <1>4, RowsOfCall DEF ServiceInv, CreditsOK
  <2>2. QED
    BY <1>7, <2>1, FindsTheSame
<1>14. request' = [request EXCEPT ![c] = r] /\ Keep(c, V)
  BY <1>2, <1>4, <1>5, <1>9 DEF Clear
<1>15. QED
  BY <1>1, <1>2, <1>3, <1>7, <1>8, <1>10, <1>11, <1>12, <1>13, <1>14, CreditsPut

\* A call that has saved its credits, or has failed to, reads them back.
LEMMA ReadBackKeeps ==
  ASSUME ServiceInv, NEW c \in Askers, request[c].at \in {"saves", "replaces"},
         SourceOf(c) = "credits", NEW sv \in {"yes", "failed"}, ReadBack(c, sv),
         NEW V \in SUBSET Row, RowsGood(V, "credits", User), Keep(c, V),
         sv = "yes" => \A w \in V : request[c].began <= w.of.asOf + CallTime,
         \A d \in Askers \ {c} : MayFind(d, request[d], V),
         UNCHANGED <<world, memory>>, errors' \in 0..MaxErrors, answer' = NoAnswer
  PROVE  ServiceInv'
<1>1. PICK q \in Request : q = request[c]
  BY AtWork
<1>2. CallOK(q) /\ q.todo # {} /\ First(q.todo) = "credits"
  BY <1>1, AtWork, FetchedReading
<1>3. PICK r : r = [q EXCEPT !.at = "enriches", !.saved = sv, !.row = NoRow]
  OBVIOUS
<1>4. /\ r \in Request /\ r.at = "enriches" /\ r.saved = sv
      /\ r.todo = q.todo /\ r.repo = q.repo /\ r.began = q.began /\ r.linked = q.linked
      /\ r.got = q.got
  BY <1>3, NoRowIsSeen DEF Request
<1>5. CallOK(r) /\ MayFind(c, r, V)
  BY <1>1, <1>2, <1>4 DEF CallOK, MayFind
<1>6. request' = [request EXCEPT ![c] = r]
  BY <1>1, <1>3 DEF ReadBack
<1>7. QED
  BY <1>1, <1>2, <1>4, <1>5, <1>6, CreditsPut

LEMMA RollbackKeeps ==
  ASSUME ServiceInv, NEW c \in Askers, request[c].at \in {"saves", "replaces"},
         SourceOf(c) = "credits", Rollback(c), errors' \in 0..MaxErrors, answer' = NoAnswer
  PROVE  ServiceInv'
<1>1. request[c].todo # {}
  BY FetchedReading
<1>2. PICK W \in SUBSET Row : /\ W = Rows(c) /\ RowsGood(W, "credits", User)
                              /\ W = stored["credits"][User]
  BY <1>1, RowsOfCall
<1>3. PICK V : V = {[w EXCEPT !.doomed = @ \ {c}] : w \in W}
  OBVIOUS
<1>4. \A w \in W : LET v == [w EXCEPT !.doomed = @ \ {c}]
                   IN  /\ v \in Row /\ v.of = w.of /\ v.fetchedAt = w.fetchedAt
                       /\ v.doomed = w.doomed \ {c}
  BY DEF Row
<1>5. /\ V \in SUBSET Row
      /\ \A v \in V : \E w \in W : /\ v.of = w.of /\ v.fetchedAt = w.fetchedAt
                                   /\ v.doomed = w.doomed \ {c}
  BY <1>3, <1>4, ZenonT(60)
<1>6. RowsGood(V, "credits", User)
  BY <1>2, <1>5, SameRows
<1>7. ASSUME NEW d \in Askers \ {c} PROVE MayFind(d, request[d], V)
  <2>1. MayFind(d, request[d], W)
    BY <1>2 DEF ServiceInv, CreditsOK
  <2>2. QED
    BY <1>5, <2>1, FindsTheSame
<1>8. Keep(c, V) /\ ReadBack(c, "failed") /\ UNCHANGED <<world, memory>>
  BY <1>2, <1>3 DEF Rollback
<1>9. QED
  BY <1>5, <1>6, <1>7, <1>8, ReadBackKeeps

LEMMA ClashKeeps ==
  ASSUME ServiceInv, NEW c \in Askers, Clash(c), answer' = NoAnswer
  PROVE  ServiceInv'
<1>1. request[c].at = "replaces" /\ Rollback(c) /\ errors' \in 0..MaxErrors
  BY ErrorType DEF Clash, ServiceInv
<1>2. SourceOf(c) = "credits"
  BY <1>1, AtWork DEF CallOK, SourceOf
<1>3. QED
  BY <1>1, <1>2, RollbackKeeps

LEMMA CreditsNotSavedKeeps ==
  ASSUME ServiceInv, NEW c \in Askers, CreditsNotSaved(c), answer' = NoAnswer
  PROVE  ServiceInv'
BY ErrorType, RollbackKeeps DEF CreditsNotSaved, ServiceInv

\* The rows that a transaction leaves when it commits: a row that it has not deleted
\* is of a call that was still on its way when the transaction began.
LEMMA CommitKeeps ==
  ASSUME ServiceInv, NEW c \in Askers, Commit(c), answer' = NoAnswer
  PROVE  ServiceInv'
<1>1. /\ request[c].at = "replaces" /\ UNCHANGED <<world, memory>>
      /\ errors' \in 0..MaxErrors
  BY ErrorType DEF ServiceInv, Commit
<1>2. PICK q \in Request : q = request[c]
  BY <1>1, AtWork
<1>3. /\ CallOK(q) /\ q.todo # {} /\ First(q.todo) = "credits" /\ SourceOf(c) = "credits"
      /\ q.began <= q.stamp /\ q.stamp <= clock /\ q.stamp \in 0..LastTick
  BY <1>1, <1>2, AtWork DEF CallOK, SourceOf, Request
<1>4. SubjectOf(c) = User
  BY <1>3, CreditsOfUser DEF SubjectOf
<1>5. PICK f \in Reading : f = q.fetched
  BY <1>1, <1>2, FetchedReading
<1>6. /\ Good(f, "credits", User) /\ q.began <= f.asOf /\ clock <= f.asOf + CallTime
      /\ clock \in 0..LastTick /\ q.began \in Nat /\ f.asOf \in Nat /\ CallTime \in Nat
  BY <1>1, <1>2, <1>3, <1>4, <1>5, FetchedReading
<1>7. PICK W \in SUBSET Row : /\ W = Rows(c) /\ RowsGood(W, "credits", User)
                              /\ W = stored["credits"][User] /\ MayFind(c, q, W)
  BY <1>1, <1>2, <1>3, RowsOfCall
<1>8. PICK own : own = [of |-> f, fetchedAt |-> q.stamp, doomed |-> {}]
  OBVIOUS
<1>9. own \in Row /\ own.of = f /\ own.fetchedAt = q.stamp
  BY <1>3, <1>8 DEF Row
<1>10. PICK V : V = {w \in W : c \notin w.doomed} \cup {own}
  OBVIOUS
<1>11. /\ V \in SUBSET Row /\ \A v \in V : v = own \/ (v \in W /\ c \notin v.doomed)
  BY <1>9, <1>10
<1>12. ASSUME NEW w \in W, c \notin w.doomed
       PROVE  /\ w \in Row /\ w.of.asOf \in Nat /\ w.fetchedAt \in Nat
              /\ w.fetchedAt <= clock /\ q.stamp <= w.of.asOf + CallTime
              /\ Good(w.of, "credits", User)
  BY <1>1, <1>2, <1>7, <1>12 DEF MayFind, RowsGood, AllGood, Row, Reading
<1>13. RowsGood(V, "credits", User)
  <2>1. ASSUME NEW v \in V PROVE v \in Row /\ v.fetchedAt <= clock
    BY <1>3, <1>9, <1>11, <1>12
  <2>2. ASSUME NEW v \in V PROVE Good(v.of, "credits", User)
    BY <1>6, <1>9, <1>11, <1>12
  <2>3. ASSUME NEW v \in V, NEW w \in V PROVE v.fetchedAt <= w.of.asOf + CallTime
    <3>1. CASE w = own
      <4>1. v.fetchedAt \in Nat /\ v.fetchedAt <= clock
        BY <2>1 DEF Row
      <4>2. QED
        BY <1>6, <1>9, <3>1, <4>1
    <3>2. CASE v = own /\ w # own
      BY <1>9, <1>11, <1>12, <3>2
    <3>3. CASE v # own /\ w # own
      BY <1>7, <1>11, <3>3 DEF RowsGood
    <3>4. QED
      BY <3>1, <3>2, <3>3
  <2>4. AllGood({v.of : v \in V}, "credits", User)
    BY <2>2 DEF AllGood
  <2>5. QED
    BY <2>1, <2>3, <2>4 DEF RowsGood
<1>14. ASSUME NEW w \in V PROVE q.began <= w.of.asOf + CallTime
  <2>1. CASE w = own
    BY <1>6, <1>9, <2>1
  <2>2. CASE w # own
    <3>1. q.stamp <= w.of.asOf + CallTime /\ w.of.asOf \in Nat
      BY <1>11, <1>12, <2>2
    <3>2. QED
      BY <1>3, <1>6, <3>1
  <2>3. QED
    BY <2>1, <2>2
<1>15. ASSUME NEW d \in Askers \ {c} PROVE MayFind(d, request[d], V)
  <2>1. MayFind(d, request[d], W)
    BY <1>7 DEF ServiceInv, CreditsOK
  <2>2. PICK p \in Request : p = request[d] /\ CallOK(p)
    BY DEF ServiceInv, CallsOK
  <2>3. p.began \in 0..LastTick /\ p.began <= clock /\ p.stamp \in 0..LastTick
    BY <2>2 DEF CallOK, Request
  <2>4. p.began <= f.asOf + CallTime
    BY <1>6, <2>3
  <2>5. p.at = "replaces" => p.stamp <= f.asOf + CallTime
    <3>1. SUFFICES ASSUME p.at = "replaces" PROVE p.stamp <= f.asOf + CallTime
      OBVIOUS
    <3>2. p.stamp <= clock
      BY <2>2, <3>1 DEF CallOK
    <3>3. QED
      BY <1>6, <2>3, <3>2
  <2>6. QED
    BY <1>9, <1>11, <2>1, <2>2, <2>4, <2>5 DEF MayFind
<1>16. Keep(c, V)
  BY <1>2, <1>5, <1>7, <1>8, <1>10 DEF Commit
<1>17. PICK sv \in {"yes", "failed"} : ReadBack(c, sv)
  BY DEF Commit
<1>18. QED
  BY <1>1, <1>2, <1>3, <1>11, <1>13, <1>14, <1>15, <1>16, <1>17, ReadBackKeeps

LEMMA RestartKeeps == ASSUME ServiceInv, Restart, answer' = NoAnswer PROVE ServiceInv'
<1>1. /\ PublishedOK /\ StoredOK /\ MemoryOK /\ errors' \in 0..MaxErrors
      /\ UNCHANGED <<clock, configured, actual, shown, news>> /\ fetchesCredits' \in BOOLEAN
      /\ request' = [c \in Askers |-> Absent]
  BY ErrorType DEF ServiceInv, Restart
<1>2. PublishedOK' /\ Onward
  BY <1>1, Steady
<1>3. StoredOK'
  <2>1. ASSUME NEW s \in Sources, NEW x \in Subjects
        PROVE  stored'[s][x] \in SUBSET Row /\ RowsGood(stored[s][x], s, x)'
    <3>1. PICK W \in SUBSET Row : W = stored[s][x] /\ RowsGood(W, s, x)
      BY <1>1 DEF StoredOK
    <3>2. PICK V : V = {[w EXCEPT !.doomed = {}] : w \in W}
      OBVIOUS
    <3>3. \A w \in W : LET v == [w EXCEPT !.doomed = {}]
                       IN  v \in Row /\ v.of = w.of /\ v.fetchedAt = w.fetchedAt
      BY DEF Row
    <3>4. /\ V \in SUBSET Row
          /\ \A v \in V : \E w \in W : v.of = w.of /\ v.fetchedAt = w.fetchedAt
      BY <3>2, <3>3
    <3>5. RowsGood(V, s, x)
      BY <3>1, <3>4, SameRows
    <3>6. stored'[s][x] = V
      BY <3>1, <3>2 DEF Restart
    <3>7. RowsGood(V, s, x)'
      BY <1>1, <1>2, <3>5, RowsStayGood
    <3>8. QED
      BY <3>4, <3>6, <3>7
  <2>2. PICK h : h = stored'
    OBVIOUS
  <2>3. h = [s \in Sources |-> [x \in Subjects |-> h[s][x]]]
    BY <2>2 DEF Restart
  <2>4. h \in [Sources -> [Subjects -> SUBSET Row]]
    BY <2>1, <2>2, <2>3
  <2>5. QED
    BY <2>1, <2>2, <2>4 DEF StoredOK
<1>4. CallsOK' /\ CreditsOK'
  <2>1. CallOK(Absent)'
    <3>1. Absent \in Request /\ CallOK(Absent) /\ Absent.at = "none"
      BY <1>1, AbsentIsOK DEF Absent
    <3>2. QED
      BY <1>1, <1>2, <3>1, CallStays
  <2>2. QED
    BY <1>1, <2>1, AbsentIsOK DEF CallsOK, CreditsOK
<1>5. MemoryOK'
  <2>1. NoEntry \in Entry
    BY NothingFound, ServiceConstants DEF NoEntry, Entry
  <2>2. NoEntry.full = NoEntry.built /\ DOMAIN NoEntry.built = {}
    BY DEF NoEntry
  <2>3. memory' = [k \in Repos \cup {NoRepo} |-> NoEntry]
    BY <1>1 DEF Restart, MemoryOK
  <2>4. QED
    BY <2>1, <2>2, <2>3 DEF MemoryOK, Gathered
<1>6. QED
  BY <1>2, <1>3, <1>4, <1>5, NoAnswerIsOK DEF ServiceInv

LEMMA PublishKeeps ==
  ASSUME ServiceInv, NEW s \in Sources, NEW x \in Subjects, Publish(s, x), answer' = NoAnswer
  PROVE  ServiceInv'
<1>1. /\ PublishedOK /\ StoredOK /\ CallsOK /\ CreditsOK /\ MemoryOK
      /\ news < MaxNews /\ news' = news + 1
      /\ UNCHANGED <<clock, configured, fetchesCredits, stored, memory, request, errors>>
  BY DEF ServiceInv, Publish
<1>2. PICK v \in {news + 1, Nothing} :
        /\ actual' = [actual EXCEPT ![s][x] = v]
        /\ shown' = [shown EXCEPT ![clock][s][x] = @ \cup {v}]
  BY DEF Publish
<1>3. v \in Versions /\ news' \in 0..MaxNews
  BY <1>1, ServiceConstants DEF PublishedOK, Versions, Nothing
<1>4. clock \in 0..clock /\ 0..clock' = 0..clock /\ clock' = clock
  BY <1>1 DEF PublishedOK
<1>5. PICK S : S = [Sources -> [Subjects -> SUBSET Versions]]
  OBVIOUS
<1>6. shown \in [0..clock -> S] /\ shown[clock] \in S
  BY <1>1, <1>4, <1>5 DEF PublishedOK
<1>7. PICK h : h = [shown[clock] EXCEPT ![s][x] = @ \cup {v}]
  OBVIOUS
<1>8. /\ h \in S /\ v \in h[s][x]
      /\ \A t \in Sources, y \in Subjects : shown[clock][t][y] \subseteq h[t][y]
  BY <1>3, <1>5, <1>6, <1>7
<1>9. shown' = [shown EXCEPT ![clock] = h]
  BY <1>2, <1>7
<1>10. /\ shown' \in [0..clock -> S] /\ shown'[clock] = h
       /\ \A t \in 0..clock : t # clock => shown'[t] = shown[t]
  BY <1>4, <1>6, <1>8, <1>9
<1>11. Onward
  BY <1>4, <1>8, <1>10, <1>1 DEF Onward, PublishedOK
<1>12. PublishedOK'
  <2>1. actual' \in [Sources -> [Subjects -> Versions]]
    BY <1>1, <1>2, <1>3 DEF PublishedOK
  <2>2. ASSUME NEW t \in Sources, NEW y \in Subjects
        PROVE  actual'[t][y] \in shown'[clock][t][y]
    <3>1. actual'[t][y] = actual[t][y] \/ (t = s /\ y = x /\ actual'[t][y] = v)
      BY <1>1, <1>2 DEF PublishedOK
    <3>2. QED
      BY <1>1, <1>8, <1>10, <3>1 DEF PublishedOK
  <2>3. QED
    BY <1>1, <1>3, <1>4, <1>5, <1>10, <2>1, <2>2 DEF PublishedOK
<1>13. QED
  BY <1>1, <1>4, <1>11, <1>12, StoredStays, MemoryStays, CallsStay, CreditsStay, InTime,
     NoAnswerIsOK
     DEF ServiceInv

LEMMA PassKeeps == ASSUME ServiceInv, Pass, answer' = NoAnswer PROVE ServiceInv'
<1>1. /\ PublishedOK /\ StoredOK /\ CallsOK /\ CreditsOK /\ MemoryOK
      /\ clock < LastTick /\ clock' = clock + 1
      /\ \A c \in Askers : request[c].at # "none" => clock < request[c].began + CallTime
      /\ UNCHANGED <<configured, fetchesCredits, actual, stored, memory, request, news>>
      /\ UNCHANGED errors
  BY DEF ServiceInv, Pass
<1>2. PICK S : S = [Sources -> [Subjects -> SUBSET Versions]]
  OBVIOUS
<1>3. PICK h : h = [s \in Sources |-> [x \in Subjects |-> {actual[s][x]}]]
  OBVIOUS
<1>4. h \in S /\ \A s \in Sources, x \in Subjects : actual[s][x] \in h[s][x]
  BY <1>1, <1>2, <1>3 DEF PublishedOK
<1>5. clock \in 0..LastTick /\ clock + 1 \in 0..LastTick /\ DOMAIN shown = 0..clock
  BY <1>1, ServiceConstants DEF PublishedOK
<1>6. (0..clock) \cup {clock + 1} = 0..clock + 1
  BY <1>5
<1>7. shown' = [t \in 0..clock + 1 |-> IF t = clock + 1 THEN h ELSE shown[t]]
  BY <1>3, <1>5, <1>6 DEF Pass
<1>8. /\ shown' \in [0..clock + 1 -> S] /\ shown'[clock + 1] = h
      /\ \A t \in 0..clock : shown'[t] = shown[t]
  <2>1. shown \in [0..clock -> S]
    BY <1>1, <1>2 DEF PublishedOK
  <2>2. \A t \in 0..clock + 1 : t # clock + 1 => t \in 0..clock
    BY <1>5
  <2>3. \A t \in 0..clock : t \in 0..clock + 1 /\ t # clock + 1
    BY <1>5
  <2>4. clock + 1 \in 0..clock + 1
    BY <1>5
  <2>5. QED
    BY <1>4, <1>7, <2>1, <2>2, <2>3, <2>4
<1>9. Onward
  BY <1>1, <1>5, <1>8 DEF Onward
<1>10. PublishedOK'
  BY <1>1, <1>2, <1>4, <1>5, <1>8 DEF PublishedOK
<1>11. ASSUME NEW c \in Askers, request[c].at # "none"
       PROVE  clock' <= request[c].began + CallTime
  <2>1. request[c].began \in Int /\ clock < request[c].began + CallTime
    BY <1>1, <1>11 DEF CallsOK, Request
  <2>2. QED
    BY <1>1, <1>5, <2>1, ServiceConstants
<1>12. QED
  BY <1>1, <1>9, <1>10, <1>11, StoredStays, MemoryStays, CallsStay, CreditsStay, NoAnswerIsOK
     DEF ServiceInv

LEMMA ServiceKept == ServiceInv /\ [ServiceNext]_serviceVars => ServiceInv'
<1> SUFFICES ASSUME ServiceInv, [ServiceNext]_serviceVars PROVE ServiceInv'
  OBVIOUS
<1>1. CASE UNCHANGED serviceVars
  <2>1. /\ UNCHANGED <<clock, configured, fetchesCredits, actual, shown, news>>
        /\ UNCHANGED <<stored, memory, request, answer, errors>>
    BY <1>1 DEF serviceVars
  <2>2. PublishedOK' /\ Onward
    BY <2>1, Steady DEF ServiceInv, PublishedOK
  <2>3. StoredOK' /\ MemoryOK' /\ CallsOK' /\ CreditsOK'
    BY <2>1, <2>2, StoredStays, MemoryStays, CallsStay, CreditsStay, InTime DEF ServiceInv
  <2>4. AnswerOK'
    BY <2>1, <2>2, GatheredStays DEF ServiceInv, AnswerOK, AnswersFitPlan
  <2>5. QED
    BY <2>2, <2>3, <2>4 DEF ServiceInv
<1>2. CASE answer' = NoAnswer
  BY <1>2, CacheMissKeeps, FetchUserKeeps, SignalsFailKeeps, ReadRowKeeps, ListRecentKeeps,
     FetchDisabledKeeps, FetchAnswersKeeps, ForgeFailsKeeps, NoLinkKeeps, FetchFailsKeeps,
     SaveKeeps, ClearKeeps, CommitKeeps, ClashKeeps, CreditsNotSavedKeeps, PublishKeeps,
     EvictKeeps, RestartKeeps, PassKeeps, HitKeeps, FinishKeeps, <1>1 DEF ServiceNext
<1>3. QED
  BY <1>1, <1>2, HitKeeps, FinishKeeps DEF ServiceNext

LEMMA ServiceSafe == ServiceSpec => []ServiceInv
BY ServiceStart, ServiceKept, PTL DEF ServiceSpec

\* What an answer or the rows say of a source is what the source published at the time
\* when it was read, one thing of every source but the credits, whatever failures,
\* restarts and overlapping saves come between (Score, enrichForPlan and the Get...
\* and Save... functions of the store), for any number of callers and repositories.
\* Of the credits, whose rows a save deletes and inserts, it may be several readings,
\* each true of its own time.
THEOREM AnswersTrue == ServiceSpec => []AnswersAreTrue
<1>1. ServiceInv => AnswersAreTrue
  <2> SUFFICES ASSUME ServiceInv PROVE AnswersAreTrue
    OBVIOUS
  <2>1. /\ PublishedOK /\ StoredOK /\ CallsOK /\ MemoryOK /\ AnswerOK
    BY DEF ServiceInv
  <2>2. ServiceTypeOK
    <3>1. DOMAIN shown = 0..clock
      BY <2>1 DEF PublishedOK
    <3>2. ASSUME NEW s \in Sources, NEW x \in Subjects, NEW r \in stored[s][x]
          PROVE  r \in Row /\ r.fetchedAt <= clock
      BY <2>1 DEF StoredOK, RowsGood
    <3>3. \A k \in DOMAIN memory : memory[k].expiresAt \in -1..LastTick + MemTTL
      BY <2>1 DEF MemoryOK, Entry
    <3>4. ASSUME NEW c \in Askers
          PROVE  /\ request[c].at \in {"none", "signals", "enriches", "lists", "fetches",
                                       "saves", "replaces"}
                 /\ request[c].began \in 0..clock
      BY <2>1 DEF CallsOK, CallOK, Request, PublishedOK
    <3>5. QED
      BY <2>1, <3>1, <3>2, <3>3, <3>4 DEF ServiceTypeOK, PublishedOK
  <2>3. \A R, s, x : AllGood(R, s, x) => AllTrue(R, s, x)
    BY DEF AllGood, AllTrue, Good
  <2>4. \A s \in DOMAIN answer.of : AllTrue(answer.of[s].says, s, Subject(s, answer.repo))
    BY <2>1, <2>3 DEF AnswerOK, Gathered
  <2>5. \A s \in Sources, x \in Subjects : AllTrue({r.of : r \in stored[s][x]}, s, x)
    BY <2>1, <2>3 DEF StoredOK, RowsGood
  <2>6. QED
    BY <2>2, <2>4, <2>5 DEF AnswersAreTrue
<1>2. QED
  BY <1>1, ServiceSafe, PTL

\* A caller gets what its plan includes of what was found, and no more, whichever
\* plans the cached response was served to before (enrichForPlan).
THEOREM AnswersFit == ServiceSpec => []AnswersFitPlan
<1>1. ServiceInv => AnswersFitPlan
  BY DEF ServiceInv, AnswerOK
<1>2. QED
  BY <1>1, ServiceSafe, PTL

\* However long the two caches keep and however long a call takes: nothing that an
\* answer says is older than both lifetimes and two calls, the rows that two saves of
\* credits leave together included (cache.go, the Get... and Save... functions of the
\* store).  Excepted is what a row says when the refresh that was due has failed or,
\* of credits while SecurityCreditsEnabled is off, is not made
\* (securityCreditsEnrichment).
THEOREM AnswersFresh == ServiceSpec => []AnswersAreFresh
<1>1. ServiceInv => AnswersAreFresh
  <2> SUFFICES ASSUME ServiceInv, NEW s \in DOMAIN answer.of, ~answer.of[s].old,
                      NEW r \in answer.of[s].says
               PROVE  clock - r.asOf <= RowTTL[s] + MemTTL + 2 * CallTime
    BY DEF AnswersAreFresh
  <2>1. /\ Recent(answer.of[s], s, clock - MemTTL - CallTime)
        /\ answer.of[s] \in Fact /\ s \in Sources /\ clock \in 0..LastTick
    BY DEF ServiceInv, AnswerOK, PublishedOK, Gathered
  <2>2. /\ clock \in Int /\ r.asOf \in Int /\ RowTTL[s] \in Int
        /\ MemTTL \in Int /\ CallTime \in Int
    BY <2>1, ServiceConstants DEF Fact, Reading
  <2>3. clock - MemTTL - CallTime <= r.asOf + RowTTL[s] + CallTime
    BY <2>1 DEF Recent
  <2>4. QED
    BY <2>2, <2>3
<1>2. QED
  BY <1>1, ServiceSafe, PTL

-----------------------------------------------------------------------------
(* Storing and announcing a grade *)

Counts == {Missing} \cup 0..MaxPRs
AnyGrade == Grades \cup {NoGrade}

\* Where a scorer can be, and with what.
AtHints == [at : {"hints"}, old : AnyGrade, raced : BOOLEAN, torn : BOOLEAN]
AtFetch == [at : {"fetch"}, old : AnyGrade, hints : Counts, floor : BOOLEAN,
            raced : BOOLEAN, torn : BOOLEAN]
AtScored == [at : {"upsert", "history", "update", "announce"}, old : AnyGrade,
             grade : Grades, prs : 0..MaxPRs, floor : BOOLEAN, raced : BOOLEAN,
             torn : BOOLEAN]
AtPersist == [at : {"persist", "record"}, grade : Grades, raced : BOOLEAN,
              torn : BOOLEAN]
Places == {Idle} \cup AtHints \cup AtFetch \cup AtScored \cup AtPersist

RowsOK ==
  /\ archive \in Counts /\ prs \in Counts
  /\ known \in BOOLEAN /\ untold \in BOOLEAN /\ split \in BOOLEAN
  /\ reputation \in AnyGrade /\ last \in AnyGrade /\ told \in AnyGrade
  /\ reputation # NoGrade \/ last # NoGrade => known
  /\ prs # Missing => reputation # NoGrade
  /\ faults \in 0..MaxFaults /\ scores \in 0..MaxScores /\ moves \in 0..MaxMoves

\* What a scorer that nobody has overtaken knows of the rows.
Holds(r) ==
  /\ r.at \in {"persist", "record"} => known
  /\ r.at = "fetch" /\ r.floor =>
       r.hints # Missing /\ (~r.raced => r.hints >= prs)
  /\ r.at \in {"upsert", "history", "update"} /\ r.floor /\ ~r.raced => r.prs >= prs
  /\ r.at = "update" /\ ~r.torn => last = r.grade
  /\ r.at = "record" /\ ~r.torn => reputation = r.grade

ScorersOK == scorer \in [Scorers -> Places] /\ \A w \in Scorers : Holds(scorer[w])

\* Watchers know the grade or will hear of it, or they may not know.
Heard(w) == scorer[w].at = "announce" /\ scorer[w].grade = reputation
Telling == untold \/ told = reputation \/ \E w \in Scorers : Heard(w)

\* The two rows agree, or a write has come between them.
Together == split \/ last = reputation

ReputationInv == RowsOK /\ ScorersOK /\ Telling /\ Together

LEMMA ReputationTypes == RowsOK /\ ScorersOK => ReputationTypeOK
<1> SUFFICES ASSUME RowsOK, ScorersOK PROVE ReputationTypeOK
  OBVIOUS
<1>1. ASSUME NEW w \in Scorers PROVE scorer[w].at \in Stages
  <2>1. scorer[w] \in Places
    BY DEF ScorersOK
  <2>2. QED
    BY <2>1 DEF Places, AtHints, AtFetch, AtScored, AtPersist, Idle, Stages
<1>2. QED
  BY <1>1 DEF ReputationTypeOK, RowsOK, Counts, AnyGrade

\* A step of one scorer that writes neither row leaves the others what they know.
LEMMA StepHolds ==
  ASSUME ScorersOK, NEW w \in Scorers, NEW r \in Places, Step(w, r), Holds(r)',
         UNCHANGED <<reputation, prs, last>>, known => known'
  PROVE  /\ ScorersOK' /\ scorer'[w] = r
         /\ \A x \in Scorers : x # w => scorer'[x] = scorer[x]
<1>1. scorer'[w] = r /\ \A x \in Scorers : x # w => scorer'[x] = scorer[x]
  BY DEF Step, ScorersOK
<1>2. scorer' \in [Scorers -> Places]
  BY DEF Step, ScorersOK
<1>3. ASSUME NEW x \in Scorers PROVE Holds(scorer[x])'
  <2>1. CASE x = w
    BY <1>1, <2>1 DEF Holds
  <2>2. CASE x # w
    BY <1>1, <2>2 DEF Holds, ScorersOK
  <2>3. QED
    BY <2>1, <2>2
<1>4. QED
  BY <1>1, <1>2, <1>3 DEF ScorersOK

LEMMA Overtaken ==
  ASSUME NEW r \in Places, r # Idle
  PROVE  LET o == [r EXCEPT !.raced = TRUE, !.torn = TRUE]
         IN  /\ o \in Places /\ o.raced /\ o.torn /\ o.at = r.at
             /\ o.at = "announce" => o.grade = r.grade
             /\ o.at = "fetch" => o.hints = r.hints /\ o.floor = r.floor
<1> DEFINE o == [r EXCEPT !.raced = TRUE, !.torn = TRUE]
<1>1. CASE r \in AtHints
  <2>1. o \in AtHints /\ o.raced /\ o.torn /\ o.at = "hints" /\ r.at = "hints"
    BY <1>1 DEF AtHints
  <2>2. QED
    BY <2>1 DEF Places
<1>2. CASE r \in AtFetch
  <2>1. o \in AtFetch /\ o.raced /\ o.torn /\ o.at = "fetch" /\ r.at = "fetch"
        /\ o.hints = r.hints /\ o.floor = r.floor
    BY <1>2 DEF AtFetch
  <2>2. QED
    BY <2>1 DEF Places
<1>3. CASE r \in AtScored
  <2>1. /\ o \in AtScored /\ o.raced /\ o.torn /\ o.at = r.at /\ o.at # "fetch"
        /\ o.grade = r.grade
    BY <1>3 DEF AtScored
  <2>2. QED
    BY <2>1 DEF Places
<1>4. CASE r \in AtPersist
  <2>1. o \in AtPersist /\ o.raced /\ o.torn /\ o.at = r.at /\ o.at \in {"persist", "record"}
    BY <1>4 DEF AtPersist
  <2>2. QED
    BY <2>1 DEF Places
<1>5. QED
  BY <1>1, <1>2, <1>3, <1>4 DEF Places

\* A write of one scorer overtakes the others.
LEMMA WriteHolds ==
  ASSUME ScorersOK, NEW w \in Scorers, NEW r \in Places, WriteStep(w, r), Holds(r)',
         known => known', scorer[w] # Idle
  PROVE  /\ ScorersOK' /\ scorer'[w] = r
         /\ \A x \in Scorers : x # w /\ scorer[x].at = "announce" =>
              scorer'[x].at = "announce" /\ scorer'[x].grade = scorer[x].grade
<1>1. /\ scorer' = [x \in Scorers |-> scorer'[x]] /\ scorer'[w] = r
      /\ \A x \in Scorers : x # w => scorer'[x] =
           IF scorer[x] = Idle THEN Idle
           ELSE [scorer[x] EXCEPT !.raced = TRUE, !.torn = TRUE]
  <2> DEFINE f(x) == CASE x = w -> r [] scorer[x] = Idle -> Idle
                       [] OTHER -> [scorer[x] EXCEPT !.raced = TRUE, !.torn = TRUE]
  <2>1. scorer' = [x \in Scorers |-> f(x)]
    BY DEF WriteStep
  <2>2. f(w) = r
    OBVIOUS
  <2>3. ASSUME NEW x, x # w
        PROVE  f(x) = IF scorer[x] = Idle THEN Idle
                      ELSE [scorer[x] EXCEPT !.raced = TRUE, !.torn = TRUE]
    <3>1. CASE scorer[x] = Idle
      BY <2>3, <3>1
    <3>2. CASE scorer[x] # Idle
      BY <2>3, <3>2
    <3>3. QED
      BY <3>1, <3>2
  <2> HIDE DEF f
  <2>4. scorer' = [x \in Scorers |-> scorer'[x]] /\ \A x \in Scorers : scorer'[x] = f(x)
    BY <2>1
  <2>5. QED
    BY <2>2, <2>3, <2>4
<1>2. ASSUME NEW x \in Scorers, x # w
      PROVE  /\ scorer'[x] \in Places /\ Holds(scorer[x])'
             /\ scorer[x].at = "announce" =>
                  scorer'[x].at = "announce" /\ scorer'[x].grade = scorer[x].grade
  <2>1. scorer[x] \in Places /\ Holds(scorer[x])
    BY DEF ScorersOK
  <2>2. CASE scorer[x] = Idle
    <3>1. scorer'[x] = Idle
      BY <1>1, <1>2, <2>2
    <3>2. Idle \in Places /\ Holds(Idle)' /\ scorer[x].at # "announce"
      BY <2>2 DEF Idle, Places, Holds
    <3>3. QED
      BY <3>1, <3>2 DEF Holds
  <2>3. CASE scorer[x] # Idle
    <3>1. /\ scorer'[x] \in Places /\ scorer'[x].raced /\ scorer'[x].torn
          /\ scorer'[x].at = scorer[x].at
          /\ scorer'[x].at = "announce" => scorer'[x].grade = scorer[x].grade
          /\ scorer'[x].at = "fetch" => scorer'[x].hints = scorer[x].hints
                                        /\ scorer'[x].floor = scorer[x].floor
      <4>1. PICK q \in Places : q = scorer[x] /\ q # Idle
        BY <2>1, <2>3
      <4>2. PICK o : o = [q EXCEPT !.raced = TRUE, !.torn = TRUE]
        OBVIOUS
      <4>3. /\ o \in Places /\ o.raced /\ o.torn /\ o.at = q.at
            /\ o.at = "announce" => o.grade = q.grade
            /\ o.at = "fetch" => o.hints = q.hints /\ o.floor = q.floor
        BY <4>1, <4>2, Overtaken
      <4>4. scorer'[x] = o
        BY <1>1, <1>2, <4>1, <4>2
      <4>5. QED
        BY <4>1, <4>3, <4>4
    <3>2. Holds(scorer[x])'
      BY <2>1, <3>1 DEF Holds
    <3>3. QED
      BY <3>1, <3>2
  <2>4. QED
    BY <2>2, <2>3
<1>3. Holds(scorer[w])'
  BY <1>1 DEF Holds
<1>4. scorer' \in [Scorers -> Places]
  BY <1>1, <1>2
<1>5. QED
  BY <1>1, <1>2, <1>3, <1>4 DEF ScorersOK

LEMMA SomePRs == MaxPRs \in Nat /\ 1 \in 0..MaxPRs
<1>1. MaxPRs \in Nat \ {0}
  BY ReputationAssumption
<1>2. QED
  BY <1>1

LEMMA ReputationStart == ReputationInit => ReputationInv
<1> SUFFICES ASSUME ReputationInit PROVE ReputationInv
  OBVIOUS
<1> USE DEF ReputationInit
<1>1. RowsOK
  <2>1. faults \in 0..MaxFaults /\ scores \in 0..MaxScores /\ moves \in 0..MaxMoves
    <3>1. MaxFaults \in Nat /\ MaxScores \in Nat /\ MaxMoves \in Nat
      BY ReputationAssumption
    <3>2. QED
      BY <3>1
  <2>2. archive \in Counts /\ prs \in Counts
    BY SomePRs DEF Counts
  <2>3. known \in BOOLEAN /\ untold \in BOOLEAN /\ split \in BOOLEAN
    BY Zenon
  <2>4. QED
    BY <2>1, <2>2, <2>3 DEF RowsOK, AnyGrade
<1>2. ScorersOK
  <2>1. scorer \in [Scorers -> Places] /\ \A w \in Scorers : scorer[w] = Idle
    BY DEF Places
  <2>2. QED
    BY <2>1 DEF ScorersOK, Holds, Idle
<1>3. QED
  BY <1>1, <1>2 DEF ReputationInv, Telling, Together

\* A step of one scorer that writes neither row.
LEMMA OwnStep ==
  ASSUME ReputationInv, RowsOK', NEW w \in Scorers, NEW r \in Places, Step(w, r),
         Holds(r)', UNCHANGED <<reputation, prs, last, told, split>>, known => known',
         untold => untold', scorer[w].at = "announce" => untold'
  PROVE  ReputationInv'
<1>1. ScorersOK' /\ \A x \in Scorers : x # w => scorer'[x] = scorer[x]
  BY StepHolds DEF ReputationInv
<1>2. Telling'
  BY <1>1 DEF ReputationInv, Telling, Heard
<1>3. Together'
  BY DEF ReputationInv, Together
<1>4. QED
  BY <1>1, <1>2, <1>3 DEF ReputationInv

\* A write of one scorer after which the watchers know the grade or will hear of it,
\* unless nothing has changed for them.
LEMMA OwnWrite ==
  ASSUME ReputationInv, RowsOK', NEW w \in Scorers, NEW r \in Places, WriteStep(w, r),
         Holds(r)', scorer[w].at \notin {"idle", "announce"}, known => known', Together',
         \/ UNCHANGED <<reputation, told>> /\ (untold => untold')
         \/ untold' \/ told' = reputation'
         \/ r.at = "announce" /\ r.grade = reputation'
  PROVE  ReputationInv'
<1>1. /\ ScorersOK' /\ scorer'[w] = r
      /\ \A x \in Scorers : x # w /\ scorer[x].at = "announce" =>
           scorer'[x].at = "announce" /\ scorer'[x].grade = scorer[x].grade
  <2>1. scorer[w] # Idle
    BY DEF Idle
  <2>2. QED
    BY <2>1, WriteHolds DEF ReputationInv
<1>2. Telling'
  <2>1. CASE UNCHANGED <<reputation, told>> /\ (untold => untold')
    <3>1. \A x \in Scorers : Heard(x) => Heard(x)'
      BY <1>1, <2>1 DEF Heard
    <3>2. QED
      BY <2>1, <3>1 DEF ReputationInv, Telling
  <2>2. CASE r.at = "announce" /\ r.grade = reputation'
    BY <1>1, <2>2 DEF Telling, Heard
  <2>3. QED
    BY <2>1, <2>2 DEF Telling
<1>3. QED
  BY <1>1, <1>2 DEF ReputationInv

LEMMA FaultType == RowsOK /\ Fault => faults' \in 0..MaxFaults
<1>1. MaxFaults \in Nat
  BY ReputationAssumption
<1>2. QED
  BY <1>1 DEF RowsOK, Fault

LEMMA BeginType == RowsOK /\ Begin => scores' \in 0..MaxScores
<1>1. MaxScores \in Nat
  BY ReputationAssumption
<1>2. QED
  BY <1>1 DEF RowsOK, Begin

\* Nothing but the counts of the bounds moves in the rows.
LEMMA RowsStay ==
  ASSUME RowsOK, UNCHANGED <<archive, rows, split, moves>>, untold' \in BOOLEAN,
         faults' \in 0..MaxFaults, scores' \in 0..MaxScores
  PROVE  RowsOK'
BY DEF RowsOK, rows

LEMMA IdleHolds == Idle \in Places /\ Holds(Idle)'
BY DEF Places, Idle, Holds

LEMMA GetKeeps ==
  ASSUME ReputationInv, NEW w \in Scorers, GetCurrentGrade(w) PROVE ReputationInv'
<1>1. PICK old \in {reputation, NoGrade} :
        /\ Step(w, [at |-> "hints", old |-> old, raced |-> FALSE, torn |-> FALSE])
        /\ IF old = reputation THEN UNCHANGED faults ELSE Fault
  BY DEF GetCurrentGrade
<1> DEFINE r == [at |-> "hints", old |-> old, raced |-> FALSE, torn |-> FALSE]
<1>2. RowsOK /\ scorer[w] = Idle /\ Begin
      /\ UNCHANGED <<archive, rows, untold, split, moves>>
  BY DEF ReputationInv, GetCurrentGrade
<1>3. r \in Places /\ Holds(r)'
  BY <1>2 DEF RowsOK, AnyGrade, AtHints, Places, Holds
<1>4. RowsOK'
  BY <1>1, <1>2, FaultType, BeginType, RowsStay DEF RowsOK
<1> HIDE DEF r
<1>5. QED
  BY <1>1, <1>2, <1>3, <1>4, OwnStep DEF rows, Idle, r

LEMMA ReadKeeps ==
  ASSUME ReputationInv, NEW w \in Scorers, ReadHints(w) PROVE ReputationInv'
<1>1. PICK hints \in {Missing, archive, Floor}, floor \in BOOLEAN :
        /\ Step(w, [at |-> "fetch", old |-> scorer[w].old, hints |-> hints,
                    floor |-> floor, raced |-> FALSE, torn |-> FALSE])
        /\ \/ archive = Missing /\ hints = Missing /\ ~floor /\ UNCHANGED faults
           \/ archive # Missing /\ hints = Floor /\ floor /\ UNCHANGED faults
           \/ /\ archive # Missing /\ hints \in {Missing, archive} /\ ~floor
              /\ Fault
  BY DEF ReadHints
<1>r. PICK r : r = [at |-> "fetch", old |-> scorer[w].old, hints |-> hints,
                    floor |-> floor, raced |-> FALSE, torn |-> FALSE]
  OBVIOUS
<1>2. /\ RowsOK /\ scorer[w] \in Places /\ scorer[w].at = "hints"
      /\ UNCHANGED <<archive, rows, untold, split, scores, moves>>
  BY DEF ReputationInv, ScorersOK, ReadHints
<1>3. scorer[w].old \in AnyGrade
  BY <1>2 DEF Places, Idle, AtHints, AtFetch, AtScored, AtPersist
<1>4. /\ Floor \in Counts /\ archive \in Counts /\ hints \in Counts
      /\ archive # Missing => Floor # Missing /\ Floor >= prs
  <2>1. MaxPRs \in Nat /\ archive \in Counts /\ prs \in Counts
    BY <1>2, ReputationAssumption DEF RowsOK
  <2>2. Floor \in Counts /\ (archive # Missing => Floor # Missing /\ Floor >= prs)
    BY <2>1 DEF Floor, Counts, Missing
  <2>3. QED
    BY <2>1, <2>2 DEF Counts
<1>5. r \in AtFetch /\ prs' = prs
  BY <1>2, <1>3, <1>4, <1>r DEF AtFetch, rows
<1>6. floor => hints # Missing /\ hints >= prs
  BY <1>1, <1>4
<1>7. Holds(r)' /\ r \in Places
  BY <1>5, <1>6, <1>r DEF Holds, Places
<1>8. RowsOK'
  BY <1>1, <1>2, FaultType, RowsStay DEF RowsOK
<1>9. Step(w, r) /\ UNCHANGED <<reputation, prs, last, told, split, untold, known>>
  BY <1>1, <1>2, <1>r DEF rows
<1>10. QED
  BY <1>2, <1>7, <1>8, <1>9, OwnStep

LEMMA SignalsAre ==
  ASSUME NEW hints \in Counts, NEW s \in Signals(hints, hints # Missing)
  PROVE  /\ s.prs \in 0..MaxPRs /\ s.suspended \in BOOLEAN
         /\ hints # Missing /\ ~s.suspended => s.prs = hints
<1> DEFINE trusted == hints # Missing
           Found(failed, n) ==
             IF trusted THEN hints
             ELSE IF "merged_prs" \in failed THEN (IF hints = Missing THEN 0 ELSE hints)
             ELSE n
           Failed == IF trusted THEN {"others"} ELSE Requests
<1>1. s = [prs |-> 0, suspended |-> TRUE]
      \/ \E failed \in SUBSET Failed, n \in 0..MaxPRs :
           s = [prs |-> Found(failed, n), suspended |-> FALSE]
  BY DEF Signals
<1>2. CASE s = [prs |-> 0, suspended |-> TRUE]
  BY <1>2, SomePRs
<1>3. ASSUME NEW failed, NEW n \in 0..MaxPRs,
             s = [prs |-> Found(failed, n), suspended |-> FALSE]
      PROVE  s.prs \in 0..MaxPRs /\ s.suspended \in BOOLEAN /\ (trusted => s.prs = hints)
  <2>1. Found(failed, n) \in 0..MaxPRs /\ (trusted => Found(failed, n) = hints)
    BY SomePRs DEF Counts
  <2> HIDE DEF Found
  <2>2. QED
    BY <1>3, <2>1
<1>4. QED
  BY <1>1, <1>2, <1>3

\* Of trusted hints nothing is lost, but that a suspended account has no count.
LEMMA FetchKeeps ==
  ASSUME ReputationInv, NEW w \in Scorers, FetchSignals(w) PROVE ReputationInv'
<1>1. PICK s \in Signals(scorer[w].hints, scorer[w].hints # Missing), g \in Grades :
        Step(w, [at |-> "upsert", old |-> scorer[w].old, grade |-> g, prs |-> s.prs,
                 floor |-> scorer[w].floor /\ ~s.suspended,
                 raced |-> scorer[w].raced, torn |-> FALSE])
  BY DEF FetchSignals
<1>r. PICK r : r = [at |-> "upsert", old |-> scorer[w].old, grade |-> g, prs |-> s.prs,
                    floor |-> scorer[w].floor /\ ~s.suspended,
                    raced |-> scorer[w].raced, torn |-> FALSE]
  OBVIOUS
<1>2. /\ RowsOK /\ scorer[w] \in Places /\ Holds(scorer[w]) /\ scorer[w].at = "fetch"
      /\ UNCHANGED <<archive, rows, untold, split, bounds>>
  BY DEF ReputationInv, ScorersOK, FetchSignals
<1>3. scorer[w] \in AtFetch
  BY <1>2 DEF Places, Idle, AtHints, AtScored, AtPersist
<1>4. /\ s.prs \in 0..MaxPRs /\ s.suspended \in BOOLEAN
      /\ scorer[w].hints # Missing /\ ~s.suspended => s.prs = scorer[w].hints
  <2>1. scorer[w].hints \in Counts
    BY <1>3 DEF AtFetch
  <2>2. QED
    BY <2>1, SignalsAre
<1>5. r \in AtScored
  BY <1>3, <1>4, <1>r DEF AtScored, AtFetch
<1>6. r.floor /\ ~r.raced => r.prs >= prs
  BY <1>2, <1>3, <1>4, <1>r DEF Holds, AtFetch
<1>7. Holds(r)' /\ r \in Places
  <2>1. r.at = "upsert" /\ prs' = prs
    BY <1>2, <1>r DEF rows
  <2>2. QED
    BY <1>5, <1>6, <2>1 DEF Holds, Places
<1>8. RowsOK'
  BY <1>2, RowsStay DEF RowsOK, bounds
<1>9. Step(w, r) /\ UNCHANGED <<reputation, prs, last, told, split, untold, known>>
  BY <1>1, <1>2, <1>r DEF rows
<1>10. QED
  BY <1>2, <1>7, <1>8, <1>9, OwnStep

LEMMA AbandonKeeps ==
  ASSUME ReputationInv, NEW w \in Scorers, Abandon(w) PROVE ReputationInv'
<1>1. untold' \in BOOLEAN
  BY DEF Abandon
<1>2. RowsOK'
  BY <1>1, FaultType, RowsStay DEF Abandon, ReputationInv, RowsOK
<1>3. QED
  BY <1>2, IdleHolds, OwnStep DEF Abandon, rows

\* A scorer with its grade goes on, or is marked as torn.
SameGrade(r, p) ==
  r.grade = p.grade /\ r.prs = p.prs /\ r.floor = p.floor /\ r.raced = p.raced

LEMMA Advanced ==
  ASSUME NEW p \in AtScored, NEW at \in {"upsert", "history", "update", "announce"}
  PROVE  /\ [p EXCEPT !.at = at] \in AtScored
         /\ [p EXCEPT !.at = at].at = at /\ [p EXCEPT !.at = at].torn = p.torn
         /\ SameGrade([p EXCEPT !.at = at], p)
BY DEF AtScored, SameGrade

LEMMA MarkedTorn ==
  ASSUME NEW p \in AtScored, NEW t \in BOOLEAN
  PROVE  /\ [p EXCEPT !.torn = t] \in AtScored
         /\ [p EXCEPT !.torn = t].torn = t /\ [p EXCEPT !.torn = t].at = p.at
         /\ SameGrade([p EXCEPT !.torn = t], p)
BY DEF AtScored, SameGrade

LEMMA AdvancedTorn ==
  ASSUME NEW p \in AtScored
  PROVE  [p EXCEPT !.at = "update", !.torn = TRUE] \in AtScored
         /\ [p EXCEPT !.at = "update", !.torn = TRUE].torn
         /\ [p EXCEPT !.at = "update", !.torn = TRUE].at = "update"
         /\ SameGrade([p EXCEPT !.at = "update", !.torn = TRUE], p)
BY DEF AtScored, SameGrade

LEMMA ScoredPlace ==
  ASSUME ReputationInv, NEW w \in Scorers,
         scorer[w].at \in {"upsert", "history", "update", "announce"}
  PROVE  scorer[w] \in AtScored /\ Holds(scorer[w])
<1>1. scorer[w] \in Places /\ Holds(scorer[w])
  BY DEF ReputationInv, ScorersOK
<1>2. QED
  BY <1>1 DEF Places, Idle, AtHints, AtFetch, AtPersist

LEMMA PersistPlace ==
  ASSUME ReputationInv, NEW w \in Scorers, scorer[w].at \in {"persist", "record"}
  PROVE  scorer[w] \in AtPersist /\ Holds(scorer[w])
<1>1. scorer[w] \in Places /\ Holds(scorer[w])
  BY DEF ReputationInv, ScorersOK
<1>2. QED
  BY <1>1 DEF Places, Idle, AtHints, AtFetch, AtScored

LEMMA UpsertKeeps ==
  ASSUME ReputationInv, NEW w \in Scorers, UpsertContributor(w) PROVE ReputationInv'
<1>1. PICK r : r = [scorer[w] EXCEPT !.at = "history"]
  OBVIOUS
<1>2. /\ RowsOK /\ scorer[w].at = "upsert" /\ Step(w, r)
      /\ UNCHANGED <<archive, reputation, prs, last, told, untold, split, scores, moves>>
      /\ \/ known' = TRUE /\ UNCHANGED faults
         \/ Fault /\ UNCHANGED known
  BY <1>1 DEF ReputationInv, UpsertContributor
<1>3. scorer[w] \in AtScored /\ Holds(scorer[w])
  BY <1>2, ScoredPlace
<1>4. r \in AtScored /\ r.at = "history" /\ SameGrade(r, scorer[w])
  BY <1>1, <1>3, Advanced
<1>5. Holds(r)' /\ r \in Places
  BY <1>2, <1>3, <1>4 DEF Holds, SameGrade, Places
<1>6. faults' \in 0..MaxFaults /\ known' \in BOOLEAN /\ (known => known')
  BY <1>2, FaultType DEF RowsOK
<1>7. RowsOK'
  BY <1>2, <1>6 DEF RowsOK
<1>8. QED
  BY <1>2, <1>5, <1>6, <1>7, OwnStep

\* The history row first: the reputation row is behind until the second write.
LEMMA HistoryKeeps ==
  ASSUME ReputationInv, NEW w \in Scorers, SaveScoreHistory(w) PROVE ReputationInv'
<1>1. /\ RowsOK /\ scorer[w].at = "history"
      /\ UNCHANGED <<archive, known, reputation, prs, told, untold, scores, moves>>
  BY DEF ReputationInv, SaveScoreHistory
<1>2. scorer[w] \in AtScored /\ Holds(scorer[w])
  BY <1>1, ScoredPlace
<1>3. CASE /\ known /\ last' = scorer[w].grade
           /\ FirstWrite(w, [scorer[w] EXCEPT !.at = "update"])
           /\ UNCHANGED faults
  <2>1. PICK p : p = [scorer[w] EXCEPT !.at = "update"]
    OBVIOUS
  <2>2. PICK r : r = [p EXCEPT !.torn = FALSE]
    OBVIOUS
  <2>3. p \in AtScored /\ p.at = "update" /\ SameGrade(p, scorer[w])
    BY <1>2, <2>1, Advanced
  <2>4. r \in AtScored /\ r.at = "update" /\ SameGrade(r, p)
    BY <2>2, <2>3, MarkedTorn
  <2>5. WriteStep(w, r) /\ split' = TRUE
    BY <1>3, <2>1, <2>2 DEF FirstWrite
  <2>6. Holds(r)' /\ r \in Places
    BY <1>1, <1>2, <1>3, <2>3, <2>4 DEF Holds, SameGrade, Places
  <2>7. RowsOK'
    <3>1. last' \in AnyGrade
      BY <1>2, <1>3 DEF AtScored, AnyGrade
    <3>2. QED
      BY <1>1, <1>3, <2>5, <3>1 DEF RowsOK
  <2>8. QED
    BY <1>1, <2>5, <2>6, <2>7, OwnWrite DEF Together
<1>4. CASE /\ IF known THEN Fault ELSE UNCHANGED faults
           /\ Step(w, [scorer[w] EXCEPT !.at = "update", !.torn = TRUE])
           /\ UNCHANGED <<last, split>>
  <2>1. PICK r : r = [scorer[w] EXCEPT !.at = "update", !.torn = TRUE]
    OBVIOUS
  <2>2. r \in AtScored /\ r.torn /\ r.at = "update" /\ SameGrade(r, scorer[w])
    BY <1>2, <2>1, AdvancedTorn
  <2>3. Holds(r)' /\ r \in Places
    BY <1>1, <1>2, <1>4, <2>2 DEF Holds, SameGrade, Places
  <2>4. faults' \in 0..MaxFaults
    BY <1>1, <1>4, FaultType DEF RowsOK
  <2>5. RowsOK'
    BY <1>1, <1>4, <2>4 DEF RowsOK
  <2>6. QED
    BY <1>1, <1>4, <2>1, <2>3, <2>5, OwnStep
<1>5. QED
  BY <1>3, <1>4 DEF SaveScoreHistory

\* The reputation row second.  If the grade is another, the scorer that knew the old
\* one announces it.
LEMMA UpdateKeeps ==
  ASSUME ReputationInv, NEW w \in Scorers, UpdateReputation(w) PROVE ReputationInv'
<1>1. RowsOK /\ scorer[w].at = "update" /\ UNCHANGED <<archive, known, last, scores, moves>>
  BY DEF ReputationInv, UpdateReputation
<1>2. scorer[w] \in AtScored /\ Holds(scorer[w])
  BY <1>1, ScoredPlace
<1>3. CASE /\ known
           /\ Stored(scorer[w].grade, scorer[w].old = reputation)
           /\ prs' = scorer[w].prs
           /\ SecondWrite(w, IF Announces(w) THEN [scorer[w] EXCEPT !.at = "announce"]
                                             ELSE Idle)
           /\ UNCHANGED faults
  <2>1. PICK r : r = IF Announces(w) THEN [scorer[w] EXCEPT !.at = "announce"] ELSE Idle
    OBVIOUS
  <2>2. WriteStep(w, r) /\ split' = scorer[w].torn /\ reputation' = scorer[w].grade
    BY <1>3, <2>1 DEF SecondWrite, Stored
  <2>3. /\ scorer[w].grade \in Grades /\ scorer[w].old \in AnyGrade
        /\ scorer[w].torn \in BOOLEAN /\ scorer[w].prs \in 0..MaxPRs
    BY <1>2 DEF AtScored
  <2>4. /\ scorer[w].grade # NoGrade
        /\ scorer[w].prs \in Counts /\ scorer[w].prs # Missing
    <3>1. scorer[w].grade # NoGrade
      BY <2>3, ReputationAssumption DEF NoGrade
    <3>2. scorer[w].prs \in Counts
      BY <2>3 DEF Counts
    <3>3. scorer[w].prs # Missing
      BY <2>3, SomePRs DEF Missing
    <3>4. QED
      BY <3>1, <3>2, <3>3
  <2>5. untold' \in BOOLEAN /\ told' \in AnyGrade
    BY <1>1, <1>3, <2>3, <2>4 DEF Stored, RowsOK, AnyGrade
  <2>6. RowsOK'
    BY <1>1, <1>3, <2>2, <2>3, <2>4, <2>5 DEF RowsOK, AnyGrade
  <2>7. Holds(r)' /\ r \in Places
    <3>1. CASE Announces(w)
      <4>1. r \in AtScored /\ r.at = "announce"
        BY <1>2, <2>1, <3>1, Advanced
      <4>2. QED
        BY <4>1 DEF Holds, Places
    <3>2. CASE ~Announces(w)
      BY <2>1, <3>2, IdleHolds DEF Holds
    <3>3. QED
      BY <3>1, <3>2
  <2>8. Together'
    BY <1>1, <1>2, <2>2 DEF Holds, Together
  <2>9. \/ UNCHANGED <<reputation, told>> /\ (untold => untold')
        \/ untold' \/ told' = reputation'
        \/ r.at = "announce" /\ r.grade = reputation'
    <3>1. CASE reputation = NoGrade
      BY <1>3, <3>1 DEF Stored
    <3>2. CASE reputation = scorer[w].grade
      BY <1>3, <2>4, <3>2 DEF Stored
    <3>3. CASE reputation \notin {NoGrade, scorer[w].grade} /\ scorer[w].old # reputation
      BY <1>3, <3>3 DEF Stored
    <3>4. CASE reputation \notin {NoGrade, scorer[w].grade} /\ scorer[w].old = reputation
      <4>1. Announces(w)
        BY <3>4 DEF Announces
      <4>2. r.at = "announce" /\ r.grade = scorer[w].grade
        BY <1>2, <2>1, <4>1, Advanced DEF SameGrade
      <4>3. QED
        BY <2>2, <4>2
    <3>5. QED
      BY <3>1, <3>2, <3>3, <3>4
  <2>10. QED
    BY <1>1, <2>2, <2>6, <2>7, <2>8, <2>9, OwnWrite
<1>4. CASE /\ IF known THEN Fault ELSE UNCHANGED faults
           /\ Step(w, Idle)
           /\ UNCHANGED <<reputation, told, untold, prs, split>>
  <2>1. faults' \in 0..MaxFaults
    BY <1>1, <1>4, FaultType DEF RowsOK
  <2>2. RowsOK'
    BY <1>1, <1>4, <2>1 DEF RowsOK
  <2>3. QED
    BY <1>1, <1>4, <2>2, IdleHolds, OwnStep
<1>5. QED
  BY <1>3, <1>4 DEF UpdateReputation

LEMMA AnnounceKeeps ==
  ASSUME ReputationInv, NEW w \in Scorers, Announce(w) PROVE ReputationInv'
<1>1. /\ RowsOK /\ scorer[w].at = "announce" /\ Step(w, Idle)
      /\ UNCHANGED <<archive, known, reputation, prs, last, split, scores, moves>>
  BY DEF ReputationInv, Announce
<1>2. scorer[w].grade \in Grades
  BY <1>1, ScoredPlace DEF AtScored
<1>3. CASE /\ told' = scorer[w].grade
           /\ untold' = (scorer[w].grade # reputation)
           /\ UNCHANGED faults
  <2>1. RowsOK'
    BY <1>1, <1>2, <1>3 DEF RowsOK, AnyGrade
  <2>2. ScorersOK'
    BY <1>1, IdleHolds, StepHolds DEF ReputationInv
  <2>3. Telling' /\ Together'
    BY <1>1, <1>3 DEF ReputationInv, Telling, Together
  <2>4. QED
    BY <2>1, <2>2, <2>3 DEF ReputationInv
<1>4. CASE Fault /\ untold' = TRUE /\ UNCHANGED told
  <2>1. RowsOK'
    BY <1>1, <1>4, FaultType DEF RowsOK
  <2>2. QED
    BY <1>1, <1>4, <2>1, IdleHolds, OwnStep
<1>5. QED
  BY <1>3, <1>4 DEF Announce

LEMMA PersistKeeps ==
  ASSUME ReputationInv, NEW w \in Scorers, Persist(w) PROVE ReputationInv'
<1>1. PICK g \in Grades :
        Step(w, [at |-> "persist", grade |-> g, raced |-> FALSE, torn |-> FALSE])
  BY DEF Persist
<1> DEFINE r == [at |-> "persist", grade |-> g, raced |-> FALSE, torn |-> FALSE]
<1>2. /\ RowsOK /\ scorer[w] = Idle /\ Begin /\ known' = TRUE
      /\ UNCHANGED <<archive, reputation, prs, last, told, untold, split, faults, moves>>
  BY DEF ReputationInv, Persist
<1>3. r \in Places /\ Holds(r)'
  BY <1>2 DEF AtPersist, Places, Holds
<1>4. RowsOK'
  BY <1>2, BeginType DEF RowsOK
<1> HIDE DEF r
<1>5. QED
  BY <1>1, <1>2, <1>3, <1>4, OwnStep DEF Idle, r

\* The goroutine of a handler writes the reputation row first and keeps its count.
LEMMA PersistReputationKeeps ==
  ASSUME ReputationInv, NEW w \in Scorers, PersistReputation(w) PROVE ReputationInv'
<1>1. RowsOK /\ scorer[w].at = "persist" /\ UNCHANGED <<archive, known, last, scores, moves>>
  BY DEF ReputationInv, PersistReputation
<1>2. scorer[w] \in AtPersist /\ known
  BY <1>1, PersistPlace DEF Holds
<1>3. scorer[w].grade \in Grades /\ scorer[w].grade # NoGrade
  BY <1>2, ReputationAssumption DEF AtPersist, NoGrade
<1>4. CASE /\ Stored(scorer[w].grade, FALSE) /\ prs' = Kept
           /\ FirstWrite(w, [scorer[w] EXCEPT !.at = "record"])
           /\ UNCHANGED faults
  <2>1. PICK r : r = [[scorer[w] EXCEPT !.at = "record"] EXCEPT !.torn = FALSE]
    OBVIOUS
  <2>2. r \in AtPersist /\ r.at = "record" /\ r.grade = scorer[w].grade
    BY <1>2, <2>1 DEF AtPersist
  <2>3. WriteStep(w, r) /\ split' = TRUE /\ reputation' = scorer[w].grade
    BY <1>4, <2>1 DEF FirstWrite, Stored
  <2>4. Holds(r)' /\ r \in Places
    BY <1>1, <1>2, <2>2, <2>3 DEF Holds, Places
  <2>5. untold' \in BOOLEAN /\ told' \in AnyGrade
    BY <1>1, <1>3, <1>4 DEF Stored, RowsOK, AnyGrade
  <2>6. RowsOK'
    BY <1>1, <1>2, <1>3, <1>4, <2>3, <2>5 DEF RowsOK, AnyGrade, Kept
  <2>7. \/ UNCHANGED <<reputation, told>> /\ (untold => untold')
        \/ untold' \/ told' = reputation'
    BY <1>3, <1>4 DEF Stored
  <2>8. QED
    BY <1>1, <2>3, <2>4, <2>6, <2>7, OwnWrite DEF Together
<1>5. CASE /\ Fault /\ Step(w, [scorer[w] EXCEPT !.at = "record", !.torn = TRUE])
           /\ UNCHANGED <<reputation, told, untold, prs, split>>
  <2>1. PICK r : r = [scorer[w] EXCEPT !.at = "record", !.torn = TRUE]
    OBVIOUS
  <2>2. r \in AtPersist /\ r.at = "record" /\ r.torn
    BY <1>2, <2>1 DEF AtPersist
  <2>3. Holds(r)' /\ r \in Places
    BY <1>1, <1>2, <2>2 DEF Holds, Places
  <2>4. RowsOK'
    BY <1>1, <1>5, FaultType DEF RowsOK
  <2>5. QED
    BY <1>1, <1>5, <2>1, <2>3, <2>4, OwnStep
<1>6. QED
  BY <1>4, <1>5 DEF PersistReputation

LEMMA PersistHistoryKeeps ==
  ASSUME ReputationInv, NEW w \in Scorers, PersistHistory(w) PROVE ReputationInv'
<1>1. /\ RowsOK /\ scorer[w].at = "record"
      /\ UNCHANGED <<archive, known, reputation, prs, told, untold, scores, moves>>
  BY DEF ReputationInv, PersistHistory
<1>2. scorer[w] \in AtPersist /\ Holds(scorer[w]) /\ known
  BY <1>1, PersistPlace DEF Holds
<1>3. CASE last' = scorer[w].grade /\ SecondWrite(w, Idle) /\ UNCHANGED faults
  <2>1. WriteStep(w, Idle) /\ split' = scorer[w].torn
    BY <1>3 DEF SecondWrite
  <2>2. scorer[w].grade \in Grades /\ scorer[w].torn \in BOOLEAN
    BY <1>2 DEF AtPersist
  <2>3. RowsOK'
    BY <1>1, <1>2, <1>3, <2>1, <2>2 DEF RowsOK, AnyGrade
  <2>4. Together'
    BY <1>1, <1>2, <1>3, <2>1 DEF Holds, Together
  <2>5. QED
    BY <1>1, <2>1, <2>3, <2>4, IdleHolds, OwnWrite
<1>4. CASE Fault /\ Step(w, Idle) /\ UNCHANGED <<last, split>>
  <2>1. RowsOK'
    BY <1>1, <1>4, FaultType DEF RowsOK
  <2>2. QED
    BY <1>1, <1>4, <2>1, IdleHolds, OwnStep
<1>5. QED
  BY <1>3, <1>4 DEF PersistHistory

LEMMA ReputationKept == ReputationInv /\ [ReputationNext]_reputationVars => ReputationInv'
<1> SUFFICES ASSUME ReputationInv, [ReputationNext]_reputationVars PROVE ReputationInv'
  OBVIOUS
<1>1. CASE ArchiveMoves
  <2>1. MaxMoves \in Nat
    BY ReputationAssumption
  <2>2. moves' \in 0..MaxMoves /\ archive' \in Counts
    BY <1>1, <2>1 DEF ArchiveMoves, ReputationInv, RowsOK, Counts
  <2>3. RowsOK' /\ ScorersOK' /\ Telling' /\ Together'
    BY <1>1, <2>2 DEF ArchiveMoves, ReputationInv, RowsOK, ScorersOK, Holds, Telling,
                      Heard, Together, rows
  <2>4. QED
    BY <2>3 DEF ReputationInv
<1>2. CASE UNCHANGED reputationVars
  BY <1>2 DEF reputationVars, rows, bounds, ReputationInv, RowsOK, ScorersOK, Holds,
              Telling, Heard, Together
<1>3. QED
  BY <1>1, <1>2, GetKeeps, ReadKeeps, FetchKeeps, AbandonKeeps, UpsertKeeps, HistoryKeeps,
     UpdateKeeps, AnnounceKeeps, PersistKeeps, PersistReputationKeeps, PersistHistoryKeeps
     DEF ReputationNext

LEMMA ReputationSafe == ReputationSpec => []ReputationInv
BY ReputationStart, ReputationKept, PTL DEF ReputationSpec

\* Watchers know the grade that is stored, or one of the named causes has come
\* between (notifyGradeChange, persistScore), for any number of scorers and grades.
THEOREM ChangesTold == ReputationSpec => []GradeChangesAreTold
<1>1. ReputationInv => GradeChangesAreTold
  BY ReputationTypes DEF ReputationInv, GradeChangesAreTold, Telling, Heard, AtRest, Idle
<1>2. QED
  BY <1>1, ReputationSafe, PTL

\* The history ends at the grade of the reputation row, unless a write failed or
\* another came between (SaveScoreHistory, UpdateReputation, persistScore).
THEOREM RowsAgree == ReputationSpec => []StoresAgree
<1>1. ReputationInv => StoresAgree
  BY DEF ReputationInv, StoresAgree, Together
<1>2. QED
  BY <1>1, ReputationSafe, PTL

\* Merged pull requests once seen are forgotten only by a scorer without the floor,
\* or one that was overtaken (scoreContributor, fetchSignals, UpdateReputation).
THEOREM FloorIsKept == ReputationSpec => FloorKept
<1> DEFINE Allowed == \E w \in Scorers : /\ scorer[w].at = "update"
                                         /\ ~scorer[w].floor \/ scorer[w].raced
<1>1. ASSUME ReputationInv, [ReputationNext]_reputationVars, prs' < prs
      PROVE  Allowed
  <2>1. prs \in Int
    BY <1>1, SomePRs DEF ReputationInv, RowsOK, Counts, Missing
  <2>2. prs' # prs
    BY <1>1, <2>1
  <2>3. PICK w \in Scorers : UpdateReputation(w) /\ prs' = scorer[w].prs
    BY <1>1, <2>2 DEF ReputationNext, GetCurrentGrade, ReadHints, FetchSignals, Abandon,
       UpsertContributor, SaveScoreHistory, UpdateReputation, Announce, Persist,
       PersistReputation, PersistHistory, ArchiveMoves, Kept, reputationVars, rows
  <2>4. scorer[w].at = "update" /\ scorer[w] \in AtScored /\ Holds(scorer[w])
    BY <1>1, <2>3, ScoredPlace DEF UpdateReputation
  <2>5. scorer[w].prs \in Int
    BY <2>4, SomePRs DEF AtScored
  <2>6. QED
    BY <1>1, <2>1, <2>3, <2>4, <2>5 DEF Holds
<1>2. ReputationInv /\ [ReputationNext]_reputationVars => [prs' < prs => Allowed]_prs
  BY <1>1
<1>3. QED
  BY <1>2, ReputationSafe, PTL DEF ReputationSpec, FloorKept

-----------------------------------------------------------------------------
(* The arithmetic of a score *)

Share(v) == v \in 0..One

LEMMA RatioShare ==
  ASSUME NEW a \in Nat, NEW b \in Nat \ {0}, a <= b PROVE Share(Ratio(a, b))
BY DEF Ratio, Share, One

LEMMA RatioNat ==
  ASSUME NEW a \in Nat, NEW b \in Nat \ {0} PROVE Ratio(a, b) \in Nat
BY DEF Ratio, One

LEMMA RatioGrows ==
  ASSUME NEW a \in Nat, NEW b \in Nat \ {0}, NEW c \in Nat, a <= c
  PROVE  Ratio(a, b) <= Ratio(c, b)
BY DEF Ratio, One

LEMMA RatioFalls ==
  ASSUME NEW a \in Nat, NEW b \in Nat \ {0}, NEW c \in Nat \ {0}, b <= c
  PROVE  Ratio(a, c) <= Ratio(a, b)
BY DEF Ratio, One

\* Of more, the same number is missing, or of more, as many more are there.
LEMMA RatioOfMore ==
  ASSUME NEW u \in Nat, NEW c \in Nat \ {0}, NEW d \in Nat \ {0}, u <= c, c <= d
  PROVE  Ratio(c - u, c) <= Ratio(d - u, d)
BY DEF Ratio, One

LEMMA RatioWithMore ==
  ASSUME NEW m \in Nat, NEW n \in Nat, NEW c \in Nat, m <= n, m + c > 0
  PROVE  Ratio(m, m + c) <= Ratio(n, n + c)
BY DEF Ratio, One

LEMMA TimesShare ==
  ASSUME NEW a, NEW b, Share(a), Share(b) PROVE Share(Times(a, b))
BY DEF Times, Share, One

LEMMA TimesGrows ==
  ASSUME NEW a, NEW b, NEW c, NEW d, Share(a), Share(b), Share(c), Share(d),
         a <= c, b <= d
  PROVE  Times(a, b) <= Times(c, d)
BY SMTT(30) DEF Times, Share, One

LEMMA ClampedShare ==
  ASSUME NEW v \in Int, NEW ceil \in Int PROVE Share(ClampedRatio(v, ceil))
<1>1. CASE ceil <= 0 \/ v <= 0 \/ v >= ceil
  BY <1>1 DEF ClampedRatio, Share, One
<1>2. CASE 0 < ceil /\ 0 < v /\ v < ceil
  BY <1>2, RatioShare DEF ClampedRatio
<1>3. QED
  BY <1>1, <1>2

LEMMA ClampedGrows ==
  ASSUME NEW v \in Int, NEW w \in Int, NEW ceil \in Int, v <= w
  PROVE  ClampedRatio(v, ceil) <= ClampedRatio(w, ceil)
<1>1. CASE 0 < ceil /\ 0 < v /\ w < ceil
  BY <1>1, RatioGrows DEF ClampedRatio
<1>2. CASE 0 < ceil /\ 0 < v /\ w >= ceil
  BY <1>2, ClampedShare DEF ClampedRatio, Share
<1>3. CASE ceil <= 0 \/ v <= 0
  BY <1>3, ClampedShare DEF ClampedRatio, Share
<1>4. QED
  BY <1>1, <1>2, <1>3

LEMMA ClampedFalls ==
  ASSUME NEW v \in Int, NEW ceil \in Nat \ {0}, NEW top \in Nat \ {0}, ceil <= top
  PROVE  ClampedRatio(v, top) <= ClampedRatio(v, ceil)
<1>1. CASE 0 < v /\ v < ceil
  BY <1>1, RatioFalls DEF ClampedRatio
<1>2. CASE v >= ceil /\ v > 0
  BY <1>2, ClampedShare DEF ClampedRatio, Share
<1>3. CASE v <= 0
  BY <1>3 DEF ClampedRatio
<1>4. QED
  BY <1>1, <1>2, <1>3

\* A contributor as GitHub may describe it.
Plain(s) ==
  /\ \A f \in Flags : s[f] \in BOOLEAN
  /\ {s.age, s.commits, s.total, s.contributors, s.lastCommit, s.unverified, s.merged,
      s.closed, s.followers, s.following, s.repos, s.forked, s.recent, s.reviews,
      s.diversity} \subseteq Nat
  /\ s.profile \subseteq Profile /\ s.consistency \in 0..One
  /\ Sane(s)
Described(s) == Sampled(s) /\ Sane(s)

LEMMA DescribedIsPlain == ASSUME NEW s, Described(s) PROVE Plain(s)
<1>1. \A f \in Counted : f \in Fields /\ s[f] \in Nat
  BY ScoreAssumption DEF Described, Sampled
<1>2. \A f \in Flags : s[f] \in BOOLEAN
  BY ScoreAssumption DEF Described, Sampled
<1>3. s.profile \subseteq Profile /\ s.consistency \in 0..One
  BY ScoreAssumption DEF Described, Sampled
<1>4. QED
  BY <1>1, <1>2, <1>3 DEF Plain, Counted, Described

LEMMA OneElementMore ==
  ASSUME NEW S, NEW x, IsFiniteSet(S)
  PROVE  /\ IsFiniteSet(S \cup {x}) /\ Cardinality(S \cup {x}) \in Nat
         /\ Cardinality(S \cup {x}) <= Cardinality(S) + 1
<1>1. /\ IsFiniteSet(S \cup {x}) /\ Cardinality(S) \in Nat
      /\ Cardinality(S \cup {x}) = IF x \in S THEN Cardinality(S) ELSE Cardinality(S) + 1
  BY FS_AddElement, FS_CardinalityType
<1>2. QED
  BY <1>1

LEMMA FewProfiles ==
  ASSUME NEW p \in SUBSET Profile, NEW q \in SUBSET Profile, p \subseteq q
  PROVE  /\ Cardinality(p) \in Nat /\ Cardinality(q) \in Nat
         /\ Cardinality(p) <= Cardinality(q) /\ Cardinality(q) <= 5
<1>1. PICK A : A = {"bio"}
  OBVIOUS
<1>2. PICK B : B = A \cup {"company"}
  OBVIOUS
<1>3. PICK C : C = B \cup {"location"}
  OBVIOUS
<1>4. PICK D : D = C \cup {"website"}
  OBVIOUS
<1>5. IsFiniteSet(A) /\ Cardinality(A) \in Nat /\ Cardinality(A) <= 1
  <2>1. IsFiniteSet({"bio"}) /\ Cardinality({"bio"}) = 1
    BY FS_Singleton
  <2>2. QED
    BY <1>1, <2>1
<1>6. IsFiniteSet(B) /\ Cardinality(B) \in Nat /\ Cardinality(B) <= 2
  BY <1>2, <1>5, OneElementMore
<1>7. IsFiniteSet(C) /\ Cardinality(C) \in Nat /\ Cardinality(C) <= 3
  <2>1. /\ IsFiniteSet(B \cup {"location"}) /\ Cardinality(B \cup {"location"}) \in Nat
        /\ Cardinality(B \cup {"location"}) <= Cardinality(B) + 1
    BY <1>6, OneElementMore
  <2>2. QED
    BY <1>3, <1>6, <2>1
<1>8. IsFiniteSet(D) /\ Cardinality(D) \in Nat /\ Cardinality(D) <= 4
  <2>1. /\ IsFiniteSet(C \cup {"website"}) /\ Cardinality(C \cup {"website"}) \in Nat
        /\ Cardinality(C \cup {"website"}) <= Cardinality(C) + 1
    BY <1>7, OneElementMore
  <2>2. QED
    BY <1>4, <1>7, <2>1
<1>9. IsFiniteSet(D \cup {"email"}) /\ Cardinality(D \cup {"email"}) <= 5
  BY <1>8, OneElementMore
<1>10. Profile = D \cup {"email"}
  BY <1>1, <1>2, <1>3, <1>4 DEF Profile
<1>11. IsFiniteSet(q) /\ Cardinality(q) <= Cardinality(Profile)
  BY <1>9, <1>10, FS_Subset
<1>12. IsFiniteSet(p) /\ Cardinality(p) <= Cardinality(q)
  BY <1>11, FS_Subset
<1>13. Cardinality(p) \in Nat /\ Cardinality(q) \in Nat /\ Cardinality(Profile) \in Nat
  BY <1>9, <1>10, <1>11, <1>12, FS_CardinalityType
<1>14. QED
  BY <1>9, <1>10, <1>11, <1>12, <1>13

\* The parts of a score are shares of their weights.
LEMMA CurveShares ==
  ASSUME NEW s, Described(s)
  PROVE  /\ Share(LogCurve(s.age, 730)) /\ Share(LogCurve(s.repos, 30))
         /\ Share(LogCurve(s.merged + s.closed, 20))
         /\ s.following > 0 => Share(LogCurve(s.followers \div s.following, 10))
         /\ Share(Recency(s.lastCommit, Upper(s.contributors, 1)))
<1>1. /\ s.age \in Samples["age"] /\ s.repos \in Samples["repos"]
      /\ s.merged \in Samples["merged"] /\ s.closed \in Samples["closed"]
      /\ s.followers \in Samples["followers"] /\ s.following \in Samples["following"]
      /\ s.lastCommit \in Samples["lastCommit"]
      /\ s.contributors \in Samples["contributors"]
  BY ScoreAssumption DEF Described, Sampled, Counted
<1>2. Share(LogCurve(s.age, 730)) /\ Share(LogCurve(s.repos, 30))
  BY <1>1, CurvesAssumption DEF Curve, Share
<1>3. Share(LogCurve(s.merged + s.closed, 20))
  <2>1. s.merged + s.closed \in {m + c : m \in Samples["merged"], c \in Samples["closed"]}
    BY <1>1
  <2>2. QED
    BY <2>1, CurvesAssumption DEF Curve, Share
<1>4. ASSUME s.following > 0 PROVE Share(LogCurve(s.followers \div s.following, 10))
  <2>1. s.followers \div s.following
          \in {f \div g : f \in Samples["followers"], g \in Samples["following"] \ {0}}
    BY <1>1, <1>4
  <2>2. QED
    BY <2>1, CurvesAssumption DEF Curve, Share
<1>5. Share(Recency(s.lastCommit, Upper(s.contributors, 1)))
  BY <1>1, CurvesAssumption DEF Share
<1>6. QED
  BY <1>2, <1>3, <1>4, <1>5

LEMMA ProvenanceType == ASSUME NEW s, Described(s) PROVE Provenance(s) \in 0..1500
<1>1. CASE Contributes(s)
  <2>1. /\ s.commits \in Nat \ {0} /\ s.unverified \in Nat /\ s.unverified <= s.commits
        /\ s.commits - s.unverified \in Nat /\ s.commits - s.unverified <= s.commits
    BY <1>1, DescribedIsPlain DEF Contributes, Plain, Sane
  <2>2. Share(Ratio(s.commits - s.unverified, s.commits))
    BY <2>1, RatioShare
  <2>3. Share(Times(Ratio(s.commits - s.unverified, s.commits), LogCurve(s.age, 730)))
    BY <2>2, CurveShares, TimesShare
  <2>4. PICK q \in 0..100 :
          q = Times(Ratio(s.commits - s.unverified, s.commits), LogCurve(s.age, 730))
    BY <2>3 DEF Share, One
  <2>5. PICK v \in 0..1500 : v = 15 * q
    OBVIOUS
  <2>6. Provenance(s) = 15 * Times(Ratio(s.commits - s.unverified, s.commits),
                                    LogCurve(s.age, 730))
    BY <1>1 DEF Provenance
  <2>7. Provenance(s) = v
    BY <2>4, <2>5, <2>6
  <2>8. QED
    BY <2>7
<1>2. CASE ~Contributes(s)
  BY <1>2 DEF Provenance
<1>3. QED
  BY <1>1, <1>2

LEMMA AssociationShare == ASSUME NEW s PROVE Share(AssociationScore(s))
<1> DEFINE base == CASE s.association \in {"OWNER", "MEMBER"} -> 100
                [] s.association = "COLLABORATOR" -> 80
                [] s.association = "CONTRIBUTOR" -> 50
                [] s.association = "FIRST_TIME_CONTRIBUTOR" -> 20
                [] s.association = "NONE" -> 0
                [] OTHER -> IF s.orgMember THEN 100 ELSE 0
<1>1. base \in {100, 80, 50, 20, 0}
  <2>1. CASE s.association \in {"OWNER", "MEMBER"}
    BY <2>1
  <2>2. CASE s.association = "COLLABORATOR"
    BY <2>2
  <2>3. CASE s.association = "CONTRIBUTOR"
    BY <2>3
  <2>4. CASE s.association = "FIRST_TIME_CONTRIBUTOR"
    BY <2>4
  <2>5. CASE s.association = "NONE"
    BY <2>5
  <2>6. CASE s.association \notin {"OWNER", "MEMBER", "COLLABORATOR", "CONTRIBUTOR",
                                   "FIRST_TIME_CONTRIBUTOR", "NONE"}
    BY <2>6
  <2>7. QED
    BY <2>1, <2>2, <2>3, <2>4, <2>5, <2>6
<1>2. AssociationScore(s) = IF s.trusted THEN Upper(base, 80) ELSE base
  BY DEF AssociationScore
<1> HIDE DEF base
<1>3. QED
  BY <1>1, <1>2 DEF Share, Upper, One

LEMMA ProfileShare ==
  ASSUME NEW p \in SUBSET Profile PROVE Share(Ratio(Cardinality(p), 5))
BY FewProfiles, RatioShare

LEMMA IdentityType ==
  ASSUME NEW s, Described(s)
  PROVE  Identity(s) \in 0..2500 /\ (~s.repo => Identity(s) \in 0..2000)
<1>1. Share(LogCurve(s.age, 730)) /\ Share(ProfileScore(s)) /\ Share(AssociationScore(s))
  BY CurveShares, ProfileShare, AssociationShare, DescribedIsPlain DEF ProfileScore, Plain
<1>2. PICK a \in 0..100 : a = LogCurve(s.age, 730)
  BY <1>1 DEF Share, One
<1>3. PICK p \in 0..100 : p = ProfileScore(s)
  BY <1>1 DEF Share, One
<1>4. PICK r \in 0..100 : r = AssociationScore(s)
  BY <1>1 DEF Share, One
<1>5. Identity(s) = 15 * a + 5 * p + (IF s.repo THEN 5 * r ELSE 0)
  BY <1>2, <1>3, <1>4 DEF Identity
<1>6. CASE s.repo
  BY <1>5, <1>6
<1>7. CASE ~s.repo
  BY <1>5, <1>7
<1>8. QED
  BY <1>6, <1>7

LEMMA RepoEngagementType == ASSUME NEW s, Described(s) PROVE RepoEngagementScore(s) \in 0..2000
<1>1. Share(Recency(s.lastCommit, Upper(s.contributors, 1)))
  BY CurveShares
<1>2. CASE Contributes(s)
  <2>1. /\ s.commits \in Nat /\ s.total \in Nat \ {0} /\ s.commits <= s.total
        /\ s.contributors \in Nat
    BY <1>2, DescribedIsPlain DEF Contributes, Plain, Sane
  <2>2. PICK a \in Nat : a = Ratio(s.commits, s.total)
    BY <2>1, RatioNat
  <2>3. Upper(s.contributors, 1) \in Nat \ {0}
    BY <2>1 DEF Upper
  <2>4. PICK b \in Nat : b = Upper(Ratio(1, Upper(s.contributors, 1)), 5)
    BY <2>3, RatioNat DEF Upper
  <2>5. PICK d \in Nat : d = Ratio(s.total, Upper(s.contributors * 10, 30))
    <3>1. Upper(s.contributors * 10, 30) \in Nat \ {0}
      BY <2>1 DEF Upper
    <3>2. QED
      BY <2>1, <3>1, RatioNat
  <2>6. Share(ClampedRatio(a, b)) /\ Share(Lower(d, One))
    BY ClampedShare, SMTT(30) DEF Lower, Share, One
  <2>7. Share(Times(ClampedRatio(a, b), Lower(d, One)))
    BY <2>6, TimesShare
  <2>8. RepoEngagementScore(s) = 15 * Times(ClampedRatio(a, b), Lower(d, One))
          + 5 * Recency(s.lastCommit, Upper(s.contributors, 1))
    BY <1>2, <2>2, <2>4, <2>5 DEF RepoEngagementScore
  <2>9. PICK q \in 0..100 : q = Times(ClampedRatio(a, b), Lower(d, One))
    BY <2>7 DEF Share, One
  <2>10. PICK r \in 0..100 : r = Recency(s.lastCommit, Upper(s.contributors, 1))
    BY <1>1 DEF Share, One
  <2>11. PICK v \in 0..2000 : v = 15 * q + 5 * r
    OBVIOUS
  <2>12. RepoEngagementScore(s) = v
    BY <2>8, <2>9, <2>10, <2>11
  <2>13. QED
    BY <2>12
<1>3. CASE ~Contributes(s)
  BY <1>1, <1>3, SMTT(30) DEF RepoEngagementScore, Share, One
<1>4. QED
  BY <1>2, <1>3

LEMMA EngagementType ==
  ASSUME NEW s, Described(s)
  PROVE  Engagement(s) \in 0..2500 /\ (~s.repo => Engagement(s) \in 0..500)
<1>1. RepoEngagementScore(s) \in 0..2000
  BY RepoEngagementType
<1>2. PICK reviewed \in Nat : reviewed = s.merged + s.closed
  BY DescribedIsPlain DEF Plain
<1>3. PICK e : e = IF reviewed > 0
                   THEN 5 * Times(Ratio(s.merged, reviewed), LogCurve(reviewed, 20))
                   ELSE 0
  OBVIOUS
<1>4. e \in 0..500
  <2>1. CASE reviewed > 0
    <3>1. s.merged \in Nat /\ s.merged <= reviewed /\ reviewed \in Nat \ {0}
      BY <1>2, <2>1, DescribedIsPlain DEF Plain
    <3>2. Share(Ratio(s.merged, reviewed)) /\ Share(LogCurve(reviewed, 20))
      BY <1>2, <3>1, RatioShare, CurveShares
    <3>3. Share(Times(Ratio(s.merged, reviewed), LogCurve(reviewed, 20)))
      BY <3>2, TimesShare
    <3>4. QED
      BY <1>3, <2>1, <3>3 DEF Share, One
  <2>2. CASE ~(reviewed > 0)
    BY <1>3, <2>2
  <2>3. QED
    BY <2>1, <2>2
<1>5. Engagement(s) = (IF s.repo THEN RepoEngagementScore(s) ELSE 0) + e
  BY <1>2, <1>3 DEF Engagement
<1>6. CASE s.repo
  <2>1. Engagement(s) = RepoEngagementScore(s) + e
    BY <1>5, <1>6
  <2>2. QED
    <3>1. PICK g \in 0..2000 : g = RepoEngagementScore(s)
      BY <1>1
    <3>2. g + e \in 0..2500
      BY <1>4
    <3>3. QED
      BY <1>6, <2>1, <3>1, <3>2
<1>7. CASE ~s.repo
  <2>1. Engagement(s) = e
    BY <1>4, <1>5, <1>7
  <2>2. QED
    BY <1>4, <2>1
<1>8. QED
  BY <1>6, <1>7

LEMMA CommunityType == ASSUME NEW s, Described(s) PROVE Community(s) \in 0..1500
<1>1. PICK r \in 0..100 : r = LogCurve(s.repos, 30)
  BY CurveShares DEF Share, One
<1>2. PICK f \in 0..100 : f = IF s.following > 0
                              THEN LogCurve(s.followers \div s.following, 10)
                              ELSE IF s.followers > 0 THEN One ELSE 0
  BY CurveShares, SMTT(90) DEF Share, One
<1>3. Community(s) = 5 * f + 10 * r
  BY <1>1, <1>2 DEF Community, One
<1>4. QED
  BY <1>3

LEMMA BurstShare == ASSUME NEW s, Described(s) PROVE Share(Burst(s))
<1>1. s.recent \in Nat /\ s.age \in Nat
  BY DescribedIsPlain DEF Plain
<1>2. PICK ceil \in Int : ceil = 5 * Upper(s.age \div 30, 1)
  BY <1>1 DEF Upper
<1>3. Share(ClampedRatio(s.recent, ceil))
  BY <1>1, ClampedShare
<1>4. Burst(s) \in {One, One - ClampedRatio(s.recent, ceil)}
  BY <1>2 DEF Burst
<1>5. QED
  BY <1>3, <1>4 DEF Share, One

LEMMA BehavioralType == ASSUME NEW s, Described(s) PROVE BehavioralScore(s) \in 0..2000
<1>1. /\ s.consistency \in 0..100 /\ s.reviews \in Int /\ s.diversity \in Int
      /\ s.repos - s.forked \in Int
  BY DescribedIsPlain DEF Plain, One
<1>2. /\ Share(ClampedRatio(s.reviews, 10)) /\ Share(ClampedRatio(s.diversity, 8))
      /\ Share(ClampedRatio(s.repos - s.forked, 5)) /\ Share(Burst(s))
  BY <1>1, ClampedShare, BurstShare
<1>3. PICK v : v = IF s.archived
                    THEN 6 * s.consistency + 4 * ClampedRatio(s.reviews, 10)
                         + 4 * ClampedRatio(s.diversity, 8)
                    ELSE 0
  OBVIOUS
<1>4. PICK w : w = IF s.repos > 0 THEN 3 * ClampedRatio(s.repos - s.forked, 5) ELSE 0
  OBVIOUS
<1>5. v \in 0..1400
  <2>1. PICK r \in 0..100 : r = ClampedRatio(s.reviews, 10)
    BY <1>2 DEF Share, One
  <2>2. PICK d \in 0..100 : d = ClampedRatio(s.diversity, 8)
    BY <1>2 DEF Share, One
  <2>3. PICK c \in 0..100 : c = s.consistency
    BY <1>1
  <2>4. v = 0 \/ v = 6 * c + 4 * r + 4 * d
    BY <1>3, <2>1, <2>2, <2>3
  <2>5. 6 * c + 4 * r + 4 * d \in 0..1400
    OBVIOUS
  <2>6. CASE v = 0
    BY <2>6
  <2>7. CASE v = 6 * c + 4 * r + 4 * d
    BY <2>5, <2>7
  <2>8. QED
    BY <2>4, <2>6, <2>7
<1>6. w \in 0..300
  BY <1>2, <1>4 DEF Share, One
<1>7. BehavioralScore(s) = v + 3 * Burst(s) + w
  BY <1>3, <1>4 DEF BehavioralScore
<1>8. PICK b \in 0..100 : b = Burst(s)
  BY <1>2 DEF Share, One
<1>9. v + 3 * b + w \in 0..2000
  BY <1>5, <1>6
<1>10. QED
  BY <1>7, <1>8, <1>9

\* A part whose weight is shared out.
LEMMA Shared ==
  ASSUME NEW n \in Int, 0 <= n, n <= 6000
  PROVE  \E q \in Int : /\ q = (n * 100) \div 60 /\ 0 <= q /\ q <= 10000
                        /\ 60 * q <= 100 * n /\ 100 * n < 60 * q + 60
<1>1. PICK q \in Int : q = (n * 100) \div 60
  OBVIOUS
<1>2. 60 * q <= 100 * n /\ 100 * n < 60 * q + 60
  BY <1>1
<1>3. 0 <= q /\ q <= 10000
  BY <1>2
<1>4. QED
  BY <1>1, <1>2, <1>3

LEMMA InRange ==
  ASSUME NEW v \in Int, 0 <= v, v <= 10000 PROVE v \in Tenthousandths
BY SMTT(30) DEF Tenthousandths

LEMMA Unexplained == ASSUME NEW s, Described(s), s.suspended, Sum(s) \in Tenthousandths
  PROVE  Explained(s)
<1>1. Compute(s) = 0
  BY DEF Compute
<1>2. PICK k : k = Categories(s)
  OBVIOUS
<1>3. \A n \in Names(s) : k[n] = 0
  BY <1>2 DEF Categories
<1>4. DOMAIN k = Names(s)
  BY <1>2 DEF Categories
<1>5. /\ k.identity = 0 /\ k.engagement = 0 /\ k.community = 0 /\ k.behavioral = 0
      /\ "code_provenance" \in DOMAIN k => k.code_provenance = 0
  BY <1>3, <1>4 DEF Names
<1>6. Total(k) = 0
  <2>1. CASE "code_provenance" \in DOMAIN k
    BY <1>5, <2>1 DEF Total
  <2>2. CASE "code_provenance" \notin DOMAIN k
    BY <1>5, <2>2 DEF Total
  <2>3. QED
    BY <2>1, <2>2
<1>7. PICK t \in Int, f \in Int : t = Total(Categories(s)) /\ f = Compute(s)
  BY <1>1, <1>2, <1>6
<1>8. -55 <= t - 100 * f /\ t - 100 * f <= 55
  BY <1>1, <1>2, <1>6, <1>7
<1>9. \A n \in Names(s) : Categories(s)[n] \in Tenthousandths
  BY <1>2, <1>3, InRange
<1>10. QED
  BY <1>7, <1>8, <1>9 DEF Explained

LEMMA Rounded ==
  ASSUME NEW s, ~s.suspended, NEW w \in Int, 0 <= w, w <= 10000, w = Sum(s),
         NEW t \in Int, t = Total(Categories(s)), t <= w, w <= t + 3,
         \A n \in Names(s) : Categories(s)[n] \in Tenthousandths
  PROVE  Explained(s)
<1>1. Lower(Sum(s), 10000) = w
  BY DEF Lower
<1>2. PICK f \in Int : f = ToFixed2(w)
  BY DEF ToFixed2
<1>3. 100 * f <= w + 50 /\ w + 50 < 100 * f + 100
  BY <1>2 DEF ToFixed2
<1>4. Compute(s) = f
  BY <1>1, <1>2 DEF Compute
<1>5. -55 <= t - 100 * f /\ t - 100 * f <= 55
  BY <1>3
<1>6. Sum(s) \in Tenthousandths
  BY InRange
<1>7. QED
  BY <1>4, <1>5, <1>6 DEF Explained

LEMMA AllExplained == ASSUME NEW s, Described(s) PROVE Explained(s)
<1>1. PICK p \in Int : p = Provenance(s) /\ 0 <= p /\ p <= 1500
  BY ProvenanceType, SMTT(30)
<1>2. PICK i \in Int : i = Identity(s) /\ 0 <= i /\ i <= 2500
  BY IdentityType, SMTT(30)
<1>3. PICK e \in Int : e = Engagement(s) /\ 0 <= e /\ e <= 2500
  BY EngagementType, SMTT(30)
<1>4. PICK c \in Int : c = Community(s) /\ 0 <= c /\ c <= 1500
  BY CommunityType, SMTT(30)
<1>5. PICK b \in Int : b = BehavioralScore(s) /\ 0 <= b /\ b <= 2000
  BY BehavioralType, SMTT(30)
<1>6. s.repo \in BOOLEAN /\ s.suspended \in BOOLEAN
  BY DescribedIsPlain DEF Plain, Flags
<1>7. Sum(s) = Scaled(s, p + i + e + c + b)
  BY <1>1, <1>2, <1>3, <1>4, <1>5 DEF Sum
<1>8. PICK k : k = Categories(s)
  OBVIOUS
<1>9. CASE s.repo
  <2>1. PICK w \in Int : w = p + i + e + c + b /\ 0 <= w /\ w <= 10000
    BY <1>1, <1>2, <1>3, <1>4, <1>5
  <2>2. w = Sum(s)
    BY <1>7, <1>9, <2>1 DEF Scaled
  <2>3. CASE s.suspended
    BY <2>1, <2>2, <2>3, InRange, Unexplained
  <2>4. CASE ~s.suspended
    <3>1. /\ "code_provenance" \in DOMAIN k /\ k.code_provenance = p /\ k.identity = i
          /\ k.engagement = e /\ k.community = c /\ k.behavioral = b
      BY <1>1, <1>2, <1>3, <1>4, <1>5, <1>8, <1>9, <2>4 DEF Categories, Names, Scaled
    <3>2. PICK t \in Int : t = i + e + c + b + p
      OBVIOUS
    <3>3. Total(k) = t
      BY <3>1, <3>2 DEF Total
    <3>4. t <= w /\ w <= t + 3
      BY <2>1, <3>2
    <3>5. ASSUME NEW n \in Names(s) PROVE k[n] \in {p, i, e, c, b}
      BY <3>1 DEF Names
    <3>6. \A v \in {p, i, e, c, b} : v \in Tenthousandths
      BY <1>1, <1>2, <1>3, <1>4, <1>5, InRange
    <3>7. \A n \in Names(s) : k[n] \in Tenthousandths
      BY <3>5, <3>6
    <3>8. QED
      BY <1>8, <2>1, <2>2, <2>4, <3>3, <3>4, <3>7, Rounded
  <2>5. QED
    BY <1>6, <2>3, <2>4
<1>10. CASE ~s.repo
  <2>1. p = 0 /\ i <= 2000 /\ e <= 500
    <3>1. p = 0
      BY <1>1, <1>10 DEF Provenance, Contributes
    <3>2. Identity(s) \in 0..2000 /\ Engagement(s) \in 0..500
      BY <1>10, IdentityType, EngagementType
    <3>3. QED
      BY <1>2, <1>3, <3>1, <3>2, SMTT(30)
  <2>2. PICK m \in Int : m = i + e + c + b /\ 0 <= m /\ m <= 6000
    BY <1>2, <1>3, <1>4, <1>5, <2>1
  <2>3. PICK w \in Int : /\ w = (m * 100) \div 60 /\ 0 <= w /\ w <= 10000
                          /\ 60 * w <= 100 * m /\ 100 * m < 60 * w + 60
    BY <2>2, Shared
  <2>4. PICK qi \in Int : /\ qi = (i * 100) \div 60 /\ 0 <= qi /\ qi <= 10000
                          /\ 60 * qi <= 100 * i /\ 100 * i < 60 * qi + 60
    BY <1>2, <1>3, <1>4, <1>5, <2>1, Shared
  <2>5. PICK qe \in Int : /\ qe = (e * 100) \div 60 /\ 0 <= qe /\ qe <= 10000
                          /\ 60 * qe <= 100 * e /\ 100 * e < 60 * qe + 60
    BY <1>2, <1>3, <1>4, <1>5, <2>1, Shared
  <2>6. PICK qc \in Int : /\ qc = (c * 100) \div 60 /\ 0 <= qc /\ qc <= 10000
                          /\ 60 * qc <= 100 * c /\ 100 * c < 60 * qc + 60
    BY <1>2, <1>3, <1>4, <1>5, <2>1, Shared
  <2>7. PICK qb \in Int : /\ qb = (b * 100) \div 60 /\ 0 <= qb /\ qb <= 10000
                          /\ 60 * qb <= 100 * b /\ 100 * b < 60 * qb + 60
    BY <1>2, <1>3, <1>4, <1>5, <2>1, Shared
  <2>8. PICK t \in Int : t = qi + qe + qc + qb /\ t <= w /\ w <= t + 3
    BY <2>2, <2>3, <2>4, <2>5, <2>6, <2>7
  <2>9. w = Sum(s)
    <3>1. p + i + e + c + b = m
      BY <2>1, <2>2
    <3>2. QED
      BY <1>7, <1>10, <2>3, <3>1 DEF Scaled
  <2>10. CASE s.suspended
    BY <2>3, <2>9, <2>10, InRange, Unexplained
  <2>11. CASE ~s.suspended
    <3>1. /\ "code_provenance" \notin DOMAIN k /\ k.identity = qi
          /\ k.engagement = qe /\ k.community = qc /\ k.behavioral = qb
      <4>1. /\ "code_provenance" \notin DOMAIN k /\ k.identity = Scaled(s, i)
            /\ k.engagement = Scaled(s, e) /\ k.community = Scaled(s, c)
            /\ k.behavioral = Scaled(s, b)
        BY <1>2, <1>3, <1>4, <1>5, <1>8, <1>10, <2>11 DEF Categories, Names
      <4>2. QED
        BY <1>10, <2>4, <2>5, <2>6, <2>7, <4>1 DEF Scaled
    <3>2. Total(k) = t
      BY <2>8, <3>1 DEF Total
    <3>3. ASSUME NEW n \in Names(s) PROVE k[n] \in {qi, qe, qc, qb}
      BY <1>10, <3>1 DEF Names
    <3>4. \A v \in {qi, qe, qc, qb} : v \in Tenthousandths
      BY <2>4, <2>5, <2>6, <2>7, InRange
    <3>5. \A n \in Names(s) : k[n] \in Tenthousandths
      BY <3>3, <3>4
    <3>6. QED
      BY <1>8, <2>3, <2>8, <2>9, <2>11, <3>2, <3>5, Rounded
  <2>12. QED
    BY <1>6, <2>10, <2>11
<1>11. QED
  BY <1>6, <1>9, <1>10

LEMMA BetterFields ==
  ASSUME NEW s, NEW t, Described(s), Described(t), Better(s, t)
  PROVE  /\ s.age <= t.age /\ s.merged <= t.merged /\ s.followers <= t.followers
         /\ s.repos <= t.repos /\ s.consistency <= t.consistency
         /\ s.reviews <= t.reviews /\ s.diversity <= t.diversity /\ s.commits <= t.commits
         /\ s.repo = t.repo /\ s.association = t.association /\ s.orgMember = t.orgMember
         /\ s.trusted = t.trusted /\ s.total = t.total /\ s.contributors = t.contributors
         /\ s.lastCommit = t.lastCommit /\ s.unverified = t.unverified
         /\ s.closed = t.closed /\ s.following = t.following /\ s.forked = t.forked
         /\ s.recent = t.recent /\ s.archived = t.archived /\ s.suspended = t.suspended
         /\ s.profile \subseteq t.profile
         /\ s.age = 0 => t.age = 0 \/ t.recent = 0
<1>1. \A f \in {"age", "merged", "followers", "repos", "consistency", "reviews",
               "diversity", "commits"} : s[f] <= t[f]
  BY DEF Better, Growing
<1>2. \A f \in {"repo", "association", "orgMember", "trusted", "total", "contributors",
               "lastCommit", "unverified", "closed", "following", "forked", "recent",
               "archived", "suspended"} :
        s[f] = t[f]
  <2>1. \A f \in {"repo", "association", "orgMember", "trusted", "total", "contributors",
               "lastCommit", "unverified", "closed", "following", "forked", "recent",
               "archived", "suspended"} : f \in Fields \ (Growing \cup {"profile"})
    BY ScoreAssumption DEF Flags, Counted, Growing
  <2>2. QED
    BY <2>1 DEF Better
<1>3. QED
  BY <1>1, <1>2 DEF Better

LEMMA CurvesGrow ==
  ASSUME NEW s, NEW t, Described(s), Described(t), Better(s, t)
  PROVE  /\ LogCurve(s.age, 730) <= LogCurve(t.age, 730)
         /\ LogCurve(s.repos, 30) <= LogCurve(t.repos, 30)
         /\ LogCurve(s.merged + s.closed, 20) <= LogCurve(t.merged + t.closed, 20)
         /\ s.following > 0 => LogCurve(s.followers \div s.following, 10)
                                 <= LogCurve(t.followers \div t.following, 10)
<1>1. \A r \in {s, t} :
        /\ r.age \in Samples["age"] /\ r.repos \in Samples["repos"]
        /\ r.merged \in Samples["merged"] /\ r.closed \in Samples["closed"]
        /\ r.followers \in Samples["followers"] /\ r.following \in Samples["following"]
  BY ScoreAssumption DEF Described, Sampled, Counted
<1>2. LogCurve(s.age, 730) <= LogCurve(t.age, 730)
  BY <1>1, BetterFields, CurvesAssumption DEF Curve
<1>3. LogCurve(s.repos, 30) <= LogCurve(t.repos, 30)
  BY <1>1, BetterFields, CurvesAssumption DEF Curve
<1>4. LogCurve(s.merged + s.closed, 20) <= LogCurve(t.merged + t.closed, 20)
  <2>1. \A r \in {s, t} : r.merged + r.closed
          \in {m + c : m \in Samples["merged"], c \in Samples["closed"]}
    BY <1>1
  <2>2. s.merged + s.closed <= t.merged + t.closed
    BY BetterFields, DescribedIsPlain DEF Plain
  <2>3. QED
    BY <2>1, <2>2, CurvesAssumption DEF Curve
<1>5. ASSUME s.following > 0
      PROVE  LogCurve(s.followers \div s.following, 10)
               <= LogCurve(t.followers \div t.following, 10)
  <2>1. t.following = s.following /\ s.followers <= t.followers
    BY BetterFields
  <2>2. \A r \in {s, t} : r.followers \div r.following
          \in {f \div g : f \in Samples["followers"], g \in Samples["following"] \ {0}}
    BY <1>1, <1>5, <2>1
  <2>3. PICK a \in Nat, b \in Nat, n \in Nat \ {0} :
          a = s.followers /\ b = t.followers /\ n = s.following
    BY <1>5, DescribedIsPlain DEF Plain
  <2>4. a <= b
    BY <2>1, <2>3
  <2>5. a \div n <= b \div n
    BY <2>4
  <2>6. s.followers \div s.following <= t.followers \div t.following
    BY <2>1, <2>3, <2>5
  <2>7. QED
    BY <2>2, <2>6, CurvesAssumption DEF Curve
<1>6. QED
  BY <1>2, <1>3, <1>4, <1>5

LEMMA ProvenanceGrows ==
  ASSUME NEW s, NEW t, Described(s), Described(t), Better(s, t)
  PROVE  Provenance(s) <= Provenance(t)
<1>1. CASE Contributes(s)
  <2>1. PICK c \in Nat \ {0}, d \in Nat \ {0}, u \in Nat :
          c = s.commits /\ d = t.commits /\ u = s.unverified /\ u <= c
    <3>1. s.commits \in Nat /\ t.commits \in Nat /\ s.unverified \in Nat
      BY DescribedIsPlain DEF Plain
    <3>2. s.commits > 0 /\ s.unverified <= s.commits /\ s.commits <= t.commits
      BY <1>1, BetterFields, DescribedIsPlain DEF Contributes, Plain, Sane
    <3>3. s.commits \in Nat \ {0} /\ t.commits \in Nat \ {0}
      BY <3>1, <3>2
    <3>4. QED
      BY <3>1, <3>2, <3>3
  <2>2. c <= d /\ t.unverified = u /\ Contributes(t) /\ u <= d
    BY <1>1, <2>1, BetterFields DEF Contributes
  <2>3. Ratio(c - u, c) <= Ratio(d - u, d)
    BY <2>1, <2>2, RatioOfMore
  <2>4. Share(Ratio(c - u, c)) /\ Share(Ratio(d - u, d))
    <3>1. c - u \in Nat /\ c - u <= c /\ d - u \in Nat /\ d - u <= d
      BY <2>1, <2>2
    <3>2. QED
      BY <3>1, RatioShare
  <2>5. /\ Share(LogCurve(s.age, 730)) /\ Share(LogCurve(t.age, 730))
        /\ LogCurve(s.age, 730) <= LogCurve(t.age, 730)
    BY CurveShares, CurvesGrow
  <2>6. PICK x, y : /\ x = Times(Ratio(c - u, c), LogCurve(s.age, 730))
                    /\ y = Times(Ratio(d - u, d), LogCurve(t.age, 730))
    OBVIOUS
  <2>7. Share(x) /\ Share(y) /\ x <= y
    BY <2>3, <2>4, <2>5, <2>6, TimesShare, TimesGrows
  <2>8. Provenance(s) = 15 * x /\ Provenance(t) = 15 * y
    BY <1>1, <2>1, <2>2, <2>6 DEF Provenance
  <2>9. QED
    BY <2>7, <2>8 DEF Share, One
<1>2. CASE ~Contributes(s)
  <2>1. Provenance(s) = 0
    BY <1>2 DEF Provenance
  <2>2. QED
    BY <2>1, ProvenanceType
<1>3. QED
  BY <1>1, <1>2

LEMMA IdentityGrows ==
  ASSUME NEW s, NEW t, Described(s), Described(t), Better(s, t)
  PROVE  Identity(s) <= Identity(t)
<1>1. PICK a \in Int, b \in Int :
        a = LogCurve(s.age, 730) /\ b = LogCurve(t.age, 730) /\ a <= b
  BY CurveShares, CurvesGrow, SMTT(30) DEF Share, One
<1>2. PICK p \in Int, q \in Int : p = ProfileScore(s) /\ q = ProfileScore(t) /\ p <= q
  <2>1. s.profile \subseteq Profile /\ t.profile \subseteq Profile /\ s.profile \subseteq t.profile
    BY BetterFields, DescribedIsPlain DEF Plain
  <2>2. /\ Cardinality(s.profile) \in Nat /\ Cardinality(t.profile) \in Nat
        /\ Cardinality(s.profile) <= Cardinality(t.profile)
    BY <2>1, FewProfiles
  <2>3. /\ Ratio(Cardinality(s.profile), 5) <= Ratio(Cardinality(t.profile), 5)
        /\ Ratio(Cardinality(s.profile), 5) \in Nat /\ Ratio(Cardinality(t.profile), 5) \in Nat
    BY <2>2, RatioGrows, RatioNat
  <2>4. QED
    BY <2>3 DEF ProfileScore
<1>3. PICK r \in Int : r = AssociationScore(s)
  BY AssociationShare DEF Share, One
<1>4. r = AssociationScore(t) /\ s.repo = t.repo /\ s.repo \in BOOLEAN
  BY <1>3, BetterFields, DescribedIsPlain DEF AssociationScore, Plain, Flags
<1>5. /\ Identity(s) = 15 * a + 5 * p + (IF s.repo THEN 5 * r ELSE 0)
      /\ Identity(t) = 15 * b + 5 * q + (IF s.repo THEN 5 * r ELSE 0)
  BY <1>1, <1>2, <1>3, <1>4 DEF Identity
<1>6. PICK x \in Int : x = IF s.repo THEN 5 * r ELSE 0
  OBVIOUS
<1>7. 15 * a + 5 * p + x <= 15 * b + 5 * q + x
  BY <1>1, <1>2
<1>8. QED
  BY <1>5, <1>6, <1>7

LEMMA PartsAreNumbers ==
  ASSUME NEW s, Described(s)
  PROVE  /\ Provenance(s) \in Int /\ Identity(s) \in Int /\ RepoEngagementScore(s) \in Int
         /\ Engagement(s) \in Int /\ Community(s) \in Int /\ BehavioralScore(s) \in Int
<1>1. PICK p \in Int : p = Provenance(s)
  BY ProvenanceType, SMTT(30)
<1>2. PICK i \in Int : i = Identity(s)
  BY IdentityType, SMTT(30)
<1>3. PICK r \in Int : r = RepoEngagementScore(s)
  BY RepoEngagementType, SMTT(30)
<1>4. PICK e \in Int : e = Engagement(s)
  BY EngagementType, SMTT(30)
<1>5. PICK c \in Int : c = Community(s)
  BY CommunityType, SMTT(30)
<1>6. PICK b \in Int : b = BehavioralScore(s)
  BY BehavioralType, SMTT(30)
<1>7. QED
  BY <1>1, <1>2, <1>3, <1>4, <1>5, <1>6

LEMMA ClampedPair ==
  ASSUME NEW v \in Int, NEW w \in Int, NEW ceil \in Int, v <= w
  PROVE  \E x \in Int, y \in Int :
           x = ClampedRatio(v, ceil) /\ y = ClampedRatio(w, ceil) /\ x <= y /\ 0 <= x
<1>1. /\ ClampedRatio(v, ceil) \in Int /\ ClampedRatio(w, ceil) \in Int
      /\ 0 <= ClampedRatio(v, ceil)
  <2>1. Share(ClampedRatio(v, ceil)) /\ Share(ClampedRatio(w, ceil))
    BY ClampedShare
  <2>2. QED
    BY <2>1 DEF Share, One
<1>2. ClampedRatio(v, ceil) <= ClampedRatio(w, ceil)
  BY ClampedGrows
<1>3. QED
  BY <1>1, <1>2

LEMMA RepoEngagementGrows ==
  ASSUME NEW s, NEW t, Described(s), Described(t), Better(s, t)
  PROVE  RepoEngagementScore(s) <= RepoEngagementScore(t)
<1>1. PICK x \in Int : x = Recency(s.lastCommit, Upper(s.contributors, 1))
  BY CurveShares DEF Share, One
<1>2. /\ s.lastCommit = t.lastCommit /\ s.contributors = t.contributors /\ s.total = t.total
      /\ s.commits <= t.commits /\ s.commits \in Nat /\ t.commits \in Nat /\ s.total \in Nat
      /\ s.contributors \in Nat /\ s.repo = t.repo /\ t.repo \in BOOLEAN
  BY BetterFields, DescribedIsPlain DEF Plain, Flags
<1>3. CASE Contributes(s)
  <2>1. Contributes(t) /\ s.total \in Nat \ {0}
    BY <1>2, <1>3 DEF Contributes
  <2>2. PICK a \in Nat : a = Ratio(s.commits, s.total)
    BY <1>2, <2>1, RatioNat
  <2>3. PICK b \in Nat : b = Ratio(t.commits, s.total)
    BY <1>2, <2>1, RatioNat
  <2>4. a <= b
    BY <1>2, <2>1, <2>2, <2>3, RatioGrows
  <2>5. PICK ceil \in Nat : ceil = Upper(Ratio(1, Upper(s.contributors, 1)), 5)
    <3>1. Upper(s.contributors, 1) \in Nat \ {0}
      BY <1>2 DEF Upper
    <3>2. QED
      BY <3>1, RatioNat DEF Upper
  <2>6. PICK d \in Nat : d = Ratio(s.total, Upper(s.contributors * 10, 30))
    <3>1. Upper(s.contributors * 10, 30) \in Nat \ {0}
      BY <1>2 DEF Upper
    <3>2. QED
      BY <1>2, <3>1, RatioNat
  <2>7. /\ Share(ClampedRatio(a, ceil)) /\ Share(ClampedRatio(b, ceil)) /\ Share(Lower(d, One))
        /\ ClampedRatio(a, ceil) <= ClampedRatio(b, ceil)
    <3>1. Share(ClampedRatio(a, ceil)) /\ Share(ClampedRatio(b, ceil))
      BY ClampedShare
    <3>2. Share(Lower(d, One))
      BY DEF Lower, Share, One
    <3>3. ClampedRatio(a, ceil) <= ClampedRatio(b, ceil)
      BY <2>4, ClampedGrows
    <3>4. QED
      BY <3>1, <3>2, <3>3
  <2>8. PICK y, z : /\ y = Times(ClampedRatio(a, ceil), Lower(d, One))
                    /\ z = Times(ClampedRatio(b, ceil), Lower(d, One))
    OBVIOUS
  <2>9. Share(y) /\ Share(z) /\ y <= z
    <3>1. Lower(d, One) <= Lower(d, One)
      BY <2>7 DEF Share, One
    <3>2. QED
      BY <2>7, <2>8, <3>1, TimesShare, TimesGrows
  <2>10. RepoEngagementScore(s) = 15 * y + 5 * x
    BY <1>1, <1>3, <2>2, <2>5, <2>6, <2>8 DEF RepoEngagementScore
  <2>11. RepoEngagementScore(t) = 15 * z + 5 * x
    BY <1>1, <1>2, <2>1, <2>3, <2>5, <2>6, <2>8 DEF RepoEngagementScore
  <2>12. QED
    BY <2>9, <2>10, <2>11 DEF Share, One
<1>4. CASE ~Contributes(s)
  <2>1. RepoEngagementScore(s) = 0 + 5 * x
    BY <1>1, <1>4 DEF RepoEngagementScore
  <2>2. \E v \in Nat : RepoEngagementScore(t) = v + 5 * x
    <3>1. CASE ~Contributes(t)
      <4>1. RepoEngagementScore(t) = 0 + 5 * x
        BY <1>1, <1>2, <3>1 DEF RepoEngagementScore
      <4>2. QED
        BY <4>1
    <3>2. CASE Contributes(t)
      <4>1. t.total \in Nat \ {0}
        BY <1>2, <3>2 DEF Contributes
      <4>2. PICK a \in Nat : a = Ratio(t.commits, t.total)
        BY <1>2, <4>1, RatioNat
      <4>3. PICK ceil \in Nat : ceil = Upper(Ratio(1, Upper(t.contributors, 1)), 5)
        <5>1. Upper(t.contributors, 1) \in Nat \ {0}
          BY <1>2 DEF Upper
        <5>2. QED
          BY <5>1, RatioNat DEF Upper
      <4>4. PICK d \in Nat : d = Ratio(t.total, Upper(t.contributors * 10, 30))
        <5>1. Upper(t.contributors * 10, 30) \in Nat \ {0}
          BY <1>2 DEF Upper
        <5>2. QED
          BY <1>2, <5>1, RatioNat
      <4>5. PICK z : z = Times(ClampedRatio(a, ceil), Lower(d, One))
        OBVIOUS
      <4>6. Share(z)
        <5>1. Share(ClampedRatio(a, ceil)) /\ Share(Lower(d, One))
          BY ClampedShare, SMTT(30) DEF Lower, Share, One
        <5>2. QED
          BY <4>5, <5>1, TimesShare
      <4>7. RepoEngagementScore(t) = 15 * z + 5 * x
        BY <1>1, <1>2, <3>2, <4>2, <4>3, <4>4, <4>5 DEF RepoEngagementScore
      <4>8. 15 * z \in Nat
        BY <4>6 DEF Share, One
      <4>9. QED
        BY <4>7, <4>8
    <3>3. QED
      BY <3>1, <3>2
  <2>3. QED
    BY <1>1, <2>1, <2>2
<1>5. QED
  BY <1>3, <1>4

\* Merged pull requests among those that were closed.
PRs(s) == IF s.merged + s.closed > 0
          THEN 5 * Times(Ratio(s.merged, s.merged + s.closed),
                         LogCurve(s.merged + s.closed, 20))
          ELSE 0

LEMMA PRsGrow ==
  ASSUME NEW s, NEW t, Described(s), Described(t), Better(s, t)
  PROVE  PRs(s) \in Int /\ PRs(t) \in Int /\ PRs(s) <= PRs(t)
<1>1. PICK m \in Nat, n \in Nat, c \in Nat :
        m = s.merged /\ n = t.merged /\ c = s.closed /\ c = t.closed /\ m <= n
  BY BetterFields, DescribedIsPlain DEF Plain
<1>2. Share(LogCurve(m + c, 20)) /\ Share(LogCurve(n + c, 20))
      /\ LogCurve(m + c, 20) <= LogCurve(n + c, 20)
  <2>1. /\ Share(LogCurve(s.merged + s.closed, 20)) /\ Share(LogCurve(t.merged + t.closed, 20))
        /\ LogCurve(s.merged + s.closed, 20) <= LogCurve(t.merged + t.closed, 20)
    BY CurveShares, CurvesGrow
  <2>2. s.merged + s.closed = m + c /\ t.merged + t.closed = n + c
    BY <1>1
  <2>3. QED
    BY <2>1, <2>2
<1>3. ASSUME NEW k \in Nat, k + c > 0 PROVE Share(Ratio(k, k + c))
  <2>1. k + c \in Nat \ {0} /\ k <= k + c
    BY <1>3
  <2>2. QED
    BY <2>1, RatioShare
<1>4. CASE m + c > 0
  <2>1. n + c > 0
    BY <1>1, <1>4
  <2>2. Ratio(m, m + c) <= Ratio(n, n + c)
    BY <1>1, <1>4, RatioWithMore
  <2>3. PICK x, y : /\ x = Times(Ratio(m, m + c), LogCurve(m + c, 20))
                    /\ y = Times(Ratio(n, n + c), LogCurve(n + c, 20))
    OBVIOUS
  <2>4. Share(x) /\ Share(y) /\ x <= y
    BY <1>2, <1>3, <1>4, <2>1, <2>2, <2>3, TimesShare, TimesGrows
  <2>5. PRs(s) = 5 * x /\ PRs(t) = 5 * y
    BY <1>1, <1>4, <2>1, <2>3 DEF PRs
  <2>6. QED
    BY <2>4, <2>5 DEF Share, One
<1>5. CASE ~(m + c > 0)
  <2>1. PRs(s) = 0
    BY <1>1, <1>5 DEF PRs
  <2>2. CASE n + c > 0
    <3>1. PICK y : y = Times(Ratio(n, n + c), LogCurve(n + c, 20))
      OBVIOUS
    <3>2. Share(y)
      BY <1>2, <1>3, <2>2, <3>1, TimesShare
    <3>3. PRs(t) = 5 * y
      BY <1>1, <2>2, <3>1 DEF PRs
    <3>4. QED
      BY <2>1, <3>2, <3>3 DEF Share, One
  <2>3. CASE ~(n + c > 0)
    <3>1. PRs(t) = 0
      BY <1>1, <2>3 DEF PRs
    <3>2. QED
      BY <2>1, <3>1
  <2>4. QED
    BY <2>2, <2>3
<1>6. QED
  BY <1>4, <1>5

LEMMA EngagementGrows ==
  ASSUME NEW s, NEW t, Described(s), Described(t), Better(s, t)
  PROVE  Engagement(s) <= Engagement(t)
<1>1. PICK a \in Int, b \in Int :
        a = RepoEngagementScore(s) /\ b = RepoEngagementScore(t) /\ a <= b
  <2>1. RepoEngagementScore(s) \in Int /\ RepoEngagementScore(t) \in Int
    BY PartsAreNumbers
  <2>2. QED
    BY <2>1, RepoEngagementGrows
<1>2. PICK x \in Int, y \in Int : x = PRs(s) /\ y = PRs(t) /\ x <= y
  BY PRsGrow
<1>3. s.repo = t.repo /\ t.repo \in BOOLEAN
  BY BetterFields, DescribedIsPlain DEF Plain, Flags
<1>4. /\ Engagement(s) = (IF s.repo THEN a ELSE 0) + x
      /\ Engagement(t) = (IF s.repo THEN b ELSE 0) + y
  BY <1>1, <1>2, <1>3 DEF Engagement, PRs
<1>5. CASE s.repo
  BY <1>1, <1>2, <1>4, <1>5
<1>6. CASE ~s.repo
  BY <1>2, <1>4, <1>6
<1>7. QED
  BY <1>3, <1>5, <1>6

LEMMA CommunityGrows ==
  ASSUME NEW s, NEW t, Described(s), Described(t), Better(s, t)
  PROVE  Community(s) <= Community(t)
<1>1. PICK a \in Int, b \in Int :
        a = LogCurve(s.repos, 30) /\ b = LogCurve(t.repos, 30) /\ a <= b
  BY CurveShares, CurvesGrow, SMTT(30) DEF Share, One
<1>2. /\ s.following = t.following /\ s.following \in Nat
      /\ s.followers \in Nat /\ t.followers \in Nat /\ s.followers <= t.followers
  BY BetterFields, DescribedIsPlain DEF Plain
<1>3. CASE s.following > 0
  <2>1. PICK x \in Int, y \in Int : /\ x = LogCurve(s.followers \div s.following, 10)
                                    /\ y = LogCurve(t.followers \div t.following, 10)
                                    /\ x <= y
    BY <1>2, <1>3, CurveShares, CurvesGrow, SMTT(30) DEF Share, One
  <2>2. Community(s) = 5 * x + 10 * a /\ Community(t) = 5 * y + 10 * b
    BY <1>1, <1>2, <1>3, <2>1 DEF Community
  <2>3. QED
    BY <1>1, <2>1, <2>2
<1>4. CASE ~(s.following > 0)
  <2>1. PICK x \in Int : x = IF s.followers > 0 THEN 5 * One ELSE 0
    BY DEF One
  <2>2. PICK y \in Int : y = IF t.followers > 0 THEN 5 * One ELSE 0
    BY DEF One
  <2>3. x <= y
    BY <1>2, <2>1, <2>2 DEF One
  <2>4. Community(s) = x + 10 * a /\ Community(t) = y + 10 * b
    BY <1>1, <1>2, <1>4, <2>1, <2>2 DEF Community
  <2>5. QED
    BY <1>1, <2>3, <2>4
<1>5. QED
  BY <1>3, <1>4

LEMMA BurstGrows ==
  ASSUME NEW s, NEW t, Described(s), Described(t), Better(s, t)
  PROVE  Burst(s) <= Burst(t)
<1>1. PICK r \in Nat, a \in Nat, b \in Nat :
        /\ r = s.recent /\ r = t.recent /\ a = s.age /\ b = t.age /\ a <= b
        /\ a = 0 => b = 0 \/ r = 0
  BY BetterFields, DescribedIsPlain DEF Plain
<1>2. CASE r > 0 /\ a > 0
  <2>1. PICK c \in Nat \ {0} : c = 5 * Upper(a \div 30, 1)
    BY DEF Upper
  <2>2. PICK d \in Nat \ {0} : d = 5 * Upper(b \div 30, 1)
    BY DEF Upper
  <2>3. c <= d
    <3>1. a \div 30 <= b \div 30
      BY <1>1
    <3>2. QED
      BY <2>1, <2>2, <3>1 DEF Upper
  <2>4. PICK x \in Int, y \in Int :
          x = ClampedRatio(r, c) /\ y = ClampedRatio(r, d) /\ y <= x
    <3>1. ClampedRatio(r, c) \in Int /\ ClampedRatio(r, d) \in Int
      <4>1. Share(ClampedRatio(r, c)) /\ Share(ClampedRatio(r, d))
        BY ClampedShare
      <4>2. QED
        BY <4>1 DEF Share, One
    <3>2. ClampedRatio(r, d) <= ClampedRatio(r, c)
      BY <2>3, ClampedFalls
    <3>3. QED
      BY <3>1, <3>2
  <2>5. Burst(s) = 100 - x /\ Burst(t) = 100 - y
    BY <1>1, <1>2, <2>1, <2>2, <2>4 DEF Burst, One
  <2>6. QED
    BY <2>4, <2>5
<1>3. CASE ~(r > 0 /\ a > 0)
  <2>1. Burst(t) = One
    BY <1>1, <1>3 DEF Burst
  <2>2. QED
    BY <2>1, BurstShare DEF Share, One
<1>4. QED
  BY <1>2, <1>3

LEMMA BehavioralGrows ==
  ASSUME NEW s, NEW t, Described(s), Described(t), Better(s, t)
  PROVE  BehavioralScore(s) <= BehavioralScore(t)
<1>1. PICK a \in Int, b \in Int : a = s.consistency /\ b = t.consistency /\ a <= b
  <2>1. s.consistency \in 0..One /\ t.consistency \in 0..One
    BY DescribedIsPlain DEF Plain
  <2>2. s.consistency \in Int /\ t.consistency \in Int
    BY <2>1 DEF One
  <2>3. QED
    BY <2>2, BetterFields
<1>2. /\ s.reviews \in Int /\ t.reviews \in Int /\ s.reviews <= t.reviews
      /\ s.diversity \in Int /\ t.diversity \in Int /\ s.diversity <= t.diversity
      /\ s.repos \in Nat /\ t.repos \in Nat /\ s.repos <= t.repos
      /\ s.forked \in Nat /\ s.forked = t.forked /\ s.archived = t.archived
      /\ t.archived \in BOOLEAN
  BY BetterFields, DescribedIsPlain DEF Plain, Flags
<1>3. PICK c \in Int, d \in Int :
        c = ClampedRatio(s.reviews, 10) /\ d = ClampedRatio(t.reviews, 10) /\ c <= d
  BY <1>2, ClampedPair
<1>4. PICK e \in Int, f \in Int :
        e = ClampedRatio(s.diversity, 8) /\ f = ClampedRatio(t.diversity, 8) /\ e <= f
  BY <1>2, ClampedPair
<1>5. PICK x \in Int, y \in Int : x = Burst(s) /\ y = Burst(t) /\ x <= y
  BY BurstShare, BurstGrows, SMTT(30) DEF Share, One
<1>6. PICK o \in Int, p \in Int :
        /\ o = ClampedRatio(s.repos - s.forked, 5) /\ p = ClampedRatio(t.repos - t.forked, 5)
        /\ o <= p /\ 0 <= o
  <2>1. /\ s.repos - s.forked \in Int /\ t.repos - t.forked \in Int
        /\ s.repos - s.forked <= t.repos - t.forked
    BY <1>2
  <2>2. QED
    BY <2>1, ClampedPair
<1>7. PICK g \in Int, h \in Int :
        /\ g = (IF s.archived THEN 6 * a + 4 * c + 4 * e ELSE 0)
        /\ h = (IF s.archived THEN 6 * b + 4 * d + 4 * f ELSE 0)
        /\ g <= h
  <2>1. 6 * a + 4 * c + 4 * e <= 6 * b + 4 * d + 4 * f
    BY <1>1, <1>3, <1>4
  <2>2. CASE s.archived
    BY <2>1, <2>2
  <2>3. CASE ~s.archived
    BY <2>3
  <2>4. QED
    BY <1>2, <2>2, <2>3
<1>8. PICK k \in Int, l \in Int :
        /\ k = (IF s.repos > 0 THEN 3 * o ELSE 0) /\ l = (IF t.repos > 0 THEN 3 * p ELSE 0)
        /\ k <= l
  <2>1. CASE s.repos > 0
    <3>1. t.repos > 0
      BY <1>2, <2>1
    <3>2. QED
      BY <1>6, <2>1, <3>1
  <2>2. CASE ~(s.repos > 0) /\ t.repos > 0
    BY <1>6, <2>2
  <2>3. CASE ~(s.repos > 0) /\ ~(t.repos > 0)
    BY <2>3
  <2>4. QED
    BY <2>1, <2>2, <2>3
<1>9. BehavioralScore(s) = g + 3 * x + k /\ BehavioralScore(t) = h + 3 * y + l
  BY <1>1, <1>2, <1>3, <1>4, <1>5, <1>6, <1>7, <1>8 DEF BehavioralScore
<1>10. QED
  BY <1>5, <1>7, <1>8, <1>9

LEMMA ScaledGrows ==
  ASSUME NEW s, NEW t, s.repo = t.repo, NEW a \in Int, NEW b \in Int, a <= b
  PROVE  Scaled(s, a) \in Int /\ Scaled(t, b) \in Int /\ Scaled(s, a) <= Scaled(t, b)
<1>1. /\ (a * 100) \div 60 \in Int /\ (b * 100) \div 60 \in Int
      /\ (a * 100) \div 60 <= (b * 100) \div 60
  OBVIOUS
<1>2. CASE s.repo
  <2>1. Scaled(s, a) = a /\ Scaled(t, b) = b
    BY <1>2 DEF Scaled
  <2>2. QED
    BY <2>1
<1>3. CASE ~s.repo
  <2>1. Scaled(s, a) = (a * 100) \div 60 /\ Scaled(t, b) = (b * 100) \div 60
    BY <1>3 DEF Scaled
  <2>2. QED
    BY <1>1, <2>1
<1>4. QED
  BY <1>2, <1>3

LEMMA SumGrows ==
  ASSUME NEW s, NEW t, Described(s), Described(t), Better(s, t)
  PROVE  Sum(s) \in Int /\ Sum(t) \in Int /\ Sum(s) <= Sum(t)
<1>1. PICK p \in Int, q \in Int : p = Provenance(s) /\ q = Provenance(t) /\ p <= q
  BY PartsAreNumbers, ProvenanceGrows
<1>2. PICK i \in Int, j \in Int : i = Identity(s) /\ j = Identity(t) /\ i <= j
  BY PartsAreNumbers, IdentityGrows
<1>3. PICK e \in Int, f \in Int : e = Engagement(s) /\ f = Engagement(t) /\ e <= f
  BY PartsAreNumbers, EngagementGrows
<1>4. PICK c \in Int, d \in Int : c = Community(s) /\ d = Community(t) /\ c <= d
  BY PartsAreNumbers, CommunityGrows
<1>5. PICK b \in Int, g \in Int : b = BehavioralScore(s) /\ g = BehavioralScore(t) /\ b <= g
  BY PartsAreNumbers, BehavioralGrows
<1>6. PICK v \in Int, w \in Int : v = p + i + e + c + b /\ w = q + j + f + d + g
  OBVIOUS
<1>7. v <= w
  BY <1>1, <1>2, <1>3, <1>4, <1>5, <1>6
<1>8. s.repo = t.repo
  BY BetterFields
<1>9. Sum(s) = Scaled(s, v) /\ Sum(t) = Scaled(t, w)
  BY <1>1, <1>2, <1>3, <1>4, <1>5, <1>6 DEF Sum
<1>10. QED
  BY <1>7, <1>8, <1>9, ScaledGrows

LEMMA ComputeGrows ==
  ASSUME NEW s, NEW t, Described(s), Described(t), Better(s, t)
  PROVE  Compute(s) \in Int /\ Compute(t) \in Int /\ Compute(s) <= Compute(t)
<1>1. PICK v \in Int, w \in Int : v = Sum(s) /\ w = Sum(t) /\ v <= w
  BY SumGrows
<1>2. PICK a \in Int, b \in Int :
        a = ToFixed2(Lower(v, 10000)) /\ b = ToFixed2(Lower(w, 10000)) /\ a <= b
  BY <1>1 DEF ToFixed2, Lower
<1>3. s.suspended = t.suspended
  BY BetterFields
<1>4. CASE s.suspended
  <2>1. Compute(s) = 0 /\ Compute(t) = 0
    BY <1>3, <1>4 DEF Compute
  <2>2. QED
    BY <2>1
<1>5. CASE ~s.suspended
  <2>1. Compute(s) = a /\ Compute(t) = b
    BY <1>1, <1>2, <1>3, <1>5 DEF Compute
  <2>2. QED
    BY <1>2, <2>1
<1>6. QED
  BY <1>4, <1>5

\* A higher value reaches every threshold a lower one does.
LEMMA GradeGrows ==
  ASSUME NEW v \in Int, NEW w \in Int, v <= w PROVE Grade(v) <= Grade(w)
<1>1. IsFiniteSet(Thresholds)
  <2>1. Thresholds \subseteq 0..100
    BY DEF Thresholds
  <2>2. 0 \in Int /\ 100 \in Int
    OBVIOUS
  <2>4. IsFiniteSet(0..100)
    BY <2>2, FS_Interval
  <2>3. QED
    BY <2>1, <2>4, FS_Subset
<1>2. PICK A, B : /\ A = {x \in Thresholds : v >= x} /\ B = {x \in Thresholds : w >= x}
                  /\ A \subseteq B /\ B \subseteq Thresholds
  <2>1. \A x \in Thresholds : x \in Int
    BY DEF Thresholds
  <2>2. {x \in Thresholds : v >= x} \subseteq {x \in Thresholds : w >= x}
    BY <2>1
  <2>3. QED
    BY <2>2
<1>3. IsFiniteSet(B)
  BY <1>1, <1>2, FS_Subset
<1>4. Cardinality(A) <= Cardinality(B)
  BY <1>2, <1>3, FS_Subset
<1>5. QED
  BY <1>2, <1>4 DEF Grade

LEMMA FlagsFall ==
  ASSUME NEW s, NEW t, Described(s), Described(t), Better(s, t)
  PROVE  SyntheticRiskFlags(t) \subseteq SyntheticRiskFlags(s)
<1>1. \A r : /\ "young_account" \in SyntheticRiskFlags(r) <=> r.age < 30
             /\ "high_fork_ratio" \in SyntheticRiskFlags(r)
                  <=> (r.repos > 0 => 100 * r.forked > 80 * r.repos)
             /\ "empty_profile" \in SyntheticRiskFlags(r) <=> r.profile \subseteq {"email"}
             /\ "no_reviews" \in SyntheticRiskFlags(r) <=> (r.archived => r.reviews = 0)
             /\ "no_consistency" \in SyntheticRiskFlags(r)
                  <=> (r.archived => r.consistency = 0)
             /\ "no_verified_commits" \in SyntheticRiskFlags(r)
                  <=> r.commits > 0 /\ r.unverified = r.commits
  BY DEF SyntheticRiskFlags
<1>2. /\ s.age \in Nat /\ t.age \in Nat /\ s.repos \in Nat /\ t.repos \in Nat
      /\ s.forked \in Nat /\ t.forked = s.forked /\ s.reviews \in Nat /\ t.reviews \in Nat
      /\ s.commits \in Nat /\ t.commits \in Nat /\ s.unverified \in Nat
      /\ t.unverified = s.unverified /\ s.unverified <= s.commits
      /\ s.archived = t.archived
      /\ s.age <= t.age /\ s.repos <= t.repos /\ s.reviews <= t.reviews
      /\ s.commits <= t.commits
  BY BetterFields, DescribedIsPlain DEF Plain, Sane
<1>3. "young_account" \in SyntheticRiskFlags(t) => "young_account" \in SyntheticRiskFlags(s)
  BY <1>1, <1>2
<1>4. "high_fork_ratio" \in SyntheticRiskFlags(t)
        => "high_fork_ratio" \in SyntheticRiskFlags(s)
  BY <1>1, <1>2
<1>5. "empty_profile" \in SyntheticRiskFlags(t) => "empty_profile" \in SyntheticRiskFlags(s)
  <2>1. s.profile \subseteq t.profile
    BY BetterFields
  <2>2. QED
    BY <1>1, <2>1
<1>6. "no_reviews" \in SyntheticRiskFlags(t) => "no_reviews" \in SyntheticRiskFlags(s)
  BY <1>1, <1>2
<1>7. "no_consistency" \in SyntheticRiskFlags(t) => "no_consistency" \in SyntheticRiskFlags(s)
  <2>1. s.consistency \in 0..One /\ t.consistency \in 0..One
    BY DescribedIsPlain DEF Plain
  <2>2. PICK a \in Nat : a = s.consistency
    BY <2>1 DEF One
  <2>3. PICK b \in Nat : b = t.consistency
    BY <2>1 DEF One
  <2>4. a <= b
    BY <2>2, <2>3, BetterFields
  <2>5. b = 0 => a = 0
    BY <2>4
  <2>6. QED
    BY <1>1, <1>2, <2>2, <2>3, <2>5
<1>8. "no_verified_commits" \in SyntheticRiskFlags(t)
        => "no_verified_commits" \in SyntheticRiskFlags(s)
  BY <1>1, <1>2
<1>9. \A r : SyntheticRiskFlags(r) \subseteq
        {"young_account", "high_fork_ratio", "empty_profile", "no_reviews",
         "no_consistency", "no_verified_commits"}
  BY DEF SyntheticRiskFlags
<1>10. QED
  BY <1>3, <1>4, <1>5, <1>6, <1>7, <1>8, <1>9

-----------------------------------------------------------------------------
(* A contributor stays one that GitHub may describe *)

LEMMA ScoreInitOK == ASSUME ScoreInit PROVE Described(signal)
BY ScoreAssumption DEF ScoreInit, Described

LEMMA StaysDescribed == ASSUME Described(signal), [ScoreNext]_scoreVars PROVE Described(signal)'
<1>1. CASE UNCHANGED scoreVars
  BY <1>1 DEF scoreVars, Described, Sampled, Sane
<1>2. ASSUME NEW f \in Fields, SignalChanges(f) PROVE Described(signal')
  <2>1. PICK v \in Samples[f] : signal' = [signal EXCEPT ![f] = v]
    BY <1>2 DEF SignalChanges
  <2>2. Sampled(signal')
    BY <2>1 DEF Described, Sampled
  <2>3. QED
    BY <1>2, <2>2 DEF Described, SignalChanges
<1>3. QED
  BY <1>1, <1>2 DEF ScoreNext, Described, Sampled, Sane

LEMMA AlwaysDescribed == ScoreSpec => []Described(signal)
<1>1. ScoreInit => Described(signal)
  BY ScoreInitOK
<1>2. Described(signal) /\ [ScoreNext]_scoreVars => Described(signal)'
  BY StaysDescribed
<1>3. QED
  BY <1>1, <1>2, PTL DEF ScoreSpec

\* The categories shown with a score are shares of one and explain it to within half a
\* hundredth, with a repository or without, for all the values a signal may take.
THEOREM CategoriesExplain == ScoreSpec => []CategoriesAddUp
<1>1. Described(signal) => CategoriesAddUp
  <2>1. SUFFICES ASSUME Described(signal) PROVE CategoriesAddUp
    OBVIOUS
  <2>2. QED
    BY <2>1, AllExplained DEF CategoriesAddUp, Described
<1>2. QED
  BY <1>1, AlwaysDescribed, PTL

\* More of a signal that can only do good never costs a grade or a point of the score,
\* nor brings a flag.
THEOREM NoWorse == ScoreSpec => MoreIsNoWorse
<1>1. ASSUME Described(signal), Described(signal)', Better(signal, signal')
      PROVE  /\ Grade(Compute(signal)) <= Grade(Compute(signal'))
             /\ Compute(signal) <= Compute(signal')
             /\ SyntheticRiskFlags(signal') \subseteq SyntheticRiskFlags(signal)
  <2>1. Described(signal')
    BY <1>1 DEF Described, Sampled, Sane
  <2>2. /\ Compute(signal) \in Int /\ Compute(signal') \in Int
        /\ Compute(signal) <= Compute(signal')
    BY <1>1, <2>1, ComputeGrows
  <2>3. Grade(Compute(signal)) <= Grade(Compute(signal'))
    BY <2>2, GradeGrows
  <2>4. SyntheticRiskFlags(signal') \subseteq SyntheticRiskFlags(signal)
    BY <1>1, <2>1, FlagsFall
  <2>5. QED
    BY <2>2, <2>3, <2>4
<1>2. Described(signal) /\ Described(signal)' /\ [ScoreNext]_scoreVars
        => [Better(signal, signal') =>
              /\ Grade(Compute(signal)) <= Grade(Compute(signal'))
              /\ Compute(signal) <= Compute(signal')
              /\ SyntheticRiskFlags(signal') \subseteq SyntheticRiskFlags(signal)]_signal
  BY <1>1
<1>3. QED
  BY <1>2, AlwaysDescribed, PTL DEF ScoreSpec, MoreIsNoWorse

=============================================================================
