----------------------------- MODULE Notifications -----------------------------
(***************************************************************************)
(* Watchlists, their notification events and the e-mail digest             *)
(* (pkg/data/postgres/watchlist.go, pkg/ingest/runner.go, pkg/watchlist,   *)
(* pkg/server/handler_watchlist.go and handler_events.go).  Four kinds of  *)
(* actors share the tables: the ingest loop, which announces newcomers,    *)
(* sends the digests and prunes; a background scorer, which announces      *)
(* changes of grade; the requests of the tenants; and the installations    *)
(* that add watchlists.  Every statement on the tables is a step.          *)
(*                                                                         *)
(* Time is counted in ticks of the ingest loop.  A run of the loop takes   *)
(* less than a tick, but some time: two runs that are an interval apart by *)
(* the clock may be a little less or a little more than it apart.          *)
(***************************************************************************)
EXTENDS Integers, FiniteSets

CONSTANTS
  Tenants,
  Watchlists,   \* rows there may be, one for each tenant and target
  Owner,        \* the tenant of each
  PlanOf,       \* the plan of each tenant
  DigestDay,    \* digestDay: the day of the week of each tenant
  Installed,    \* watchlists of the first installations
  Summaries,    \* what an hour may show of a contributor
  Mailable,     \* tenants with an address and, in a dry run, in the admin set
  MaxPerEmail,  \* digestMaxEventsPerEmail
  Day,          \* ticks in a day
  WeekDays,     \* days in a week
  Horizon,      \* bound: the last tick
  MaxEvents,    \* bound: events ever written
  MaxAdding,    \* bound: additions of one tenant under way at a time
  MaxEdits,     \* bound: changes of watchlists
  MaxSlips      \* bound: failed calls and restarts

Activities == {"pr", "review", "issue"}
Plans == [digest : BOOLEAN, scope : SUBSET Activities, retention : Nat,
          cap : Nat, manual : Nat]

ASSUME NotificationsAssumption ==
  /\ IsFiniteSet(Watchlists)
  /\ Owner \in [Watchlists -> Tenants]
  /\ PlanOf \in [Tenants -> Plans]
  /\ DigestDay \in [Tenants -> 0..(WeekDays - 1)]
  /\ Mailable \subseteq Tenants
  /\ Installed \subseteq Watchlists
  /\ Summaries \subseteq SUBSET Activities
  /\ {MaxPerEmail, Day, WeekDays, MaxAdding} \subseteq Nat \ {0}
  /\ {Horizon, MaxEvents, MaxEdits, MaxSlips} \subseteq Nat

VARIABLES
  now,        \* the current tick
  source,     \* where each watchlist comes from; "none": no row
  notify,     \* notify_email
  event,      \* the events there are, by id
  written,    \* the id of the latest event
  pc,         \* where the ingest loop is
  watched,    \* the watchlists read at the start of the run
  todo,       \* watchlists to announce to, or tenants to visit
  about,      \* activity of the contributor under way
  mail,       \* the digest under way
  lastSweep,  \* sync state digest_email_sweep
  lastPrune,  \* sync state notification_prune_state
  regraded,   \* watchlists a scorer has still to tell of a change of grade
  adding,     \* requests that have passed the check of the plan's limit
  digests,    \* history: the digests the mail provider has accepted
  slips,      \* history: failed calls and restarts
  edits       \* bound: changes of watchlists so far

tables == <<source, notify, event, written>>
sync == <<lastSweep, lastPrune>>
loop == <<pc, watched, todo, about, mail>>
requests == <<regraded, adding, edits>>
vars == <<now, tables, sync, loop, requests, digests, slips>>

Never == -1
NoMail == [tenant |-> "nobody", rows |-> {}, upto |-> 0, marked |-> 0,
           at |-> 0, no |-> 0]

-----------------------------------------------------------------------------
(* Reading the tables *)

Rows == {w \in Watchlists : source[w] # "none"}
OwnedBy(t) == {w \in Watchlists : Owner[w] = t}
Manual(t) == {w \in OwnedBy(t) : source[w] = "manual"}

EventsOf(t) == {e \in DOMAIN event : Owner[event[e].list] = t}
Unsent(t) == {e \in EventsOf(t) : ~event[e].sent}

Newer(e, S) == {f \in S : f > e}
\* ORDER BY created_at DESC LIMIT n OFFSET skip
Newest(S, n, skip) ==
  {e \in S : Cardinality(Newer(e, S)) \in skip..(skip + n - 1)}

\* Tenants an unsent event of an e-mail-enabled watchlist waits for.
GetTenantsWithUnsentEvents ==
  {t \in Tenants : \E e \in Unsent(t) : notify[event[e].list]}

\* GetUnsentEventsForDigest_Oldest is a seeded fault: the oldest come first.
GetUnsentEventsForDigest_Oldest(t) ==
  {e \in Unsent(t) : Cardinality({f \in Unsent(t) : f < e}) < MaxPerEmail}
GetUnsentEventsForDigest(t) == Newest(Unsent(t), MaxPerEmail, 0)

-----------------------------------------------------------------------------
(* Writing the tables *)

\* The activity the plan of the watchlist's tenant lets it see.
EventDetails(w, a) == a \cap PlanOf[Owner[w]].scope

\* The row must exist: watchlist_id is a foreign key.
InsertEvent(w, kind, a) ==
  /\ w \in Rows /\ written < MaxEvents
  /\ written' = written + 1
  /\ event' = [e \in DOMAIN event \cup {written + 1} |->
                 IF e = written + 1
                 THEN [list |-> w, kind |-> kind, details |-> a, at |-> now,
                       sent |-> FALSE]
                 ELSE event[e]]

Keep(S) == event' = [e \in S |-> event[e]]

\* Not only the events of the digest: all that wait by now.
MarkAllEventsSent(t) ==
  event' = [e \in DOMAIN event |->
              IF e \in EventsOf(t) THEN [event[e] EXCEPT !.sent = TRUE]
                                   ELSE event[e]]

\* notify_email is TRUE by default; ON CONFLICT DO NOTHING.
CreateWatchlist(w, from) ==
  /\ source' = [source EXCEPT ![w] = IF @ = "none" THEN from ELSE @]
  /\ notify' = [notify EXCEPT ![w] = @ \/ source[w] = "none"]

Slip == /\ slips < MaxSlips
        /\ slips' = slips + 1
Edit == /\ edits < MaxEdits
        /\ edits' = edits + 1

-----------------------------------------------------------------------------
(* Requests of the tenants, and installations *)

\* addWatchlistHandler counts the manual watchlists and then inserts one (a
\* request for a row that exists already changes nothing).
AddWatchlist(w) ==
  /\ w \notin adding \cup Rows
  /\ Cardinality(adding \cap OwnedBy(Owner[w])) < MaxAdding
  /\ Cardinality(Manual(Owner[w])) < PlanOf[Owner[w]].manual
  /\ adding' = adding \cup {w}
  /\ UNCHANGED <<now, tables, sync, loop, regraded, edits, digests, slips>>

AddWatchlistInsert(w) ==
  /\ w \in adding
  /\ adding' = adding \ {w}
  /\ CreateWatchlist(w, "manual")
  /\ UNCHANGED <<now, event, written, sync, loop, regraded, edits,
                 digests, slips>>

\* A manual row only; its events go with it (ON DELETE CASCADE).
DeleteWatchlist(w) ==
  /\ source[w] = "manual" /\ Edit
  /\ source' = [source EXCEPT ![w] = "none"]
  /\ notify' = [notify EXCEPT ![w] = FALSE]
  /\ Keep({e \in DOMAIN event : event[e].list # w})
  /\ UNCHANGED <<now, written, sync, loop, regraded, adding, digests,
                 slips>>

ToggleWatchlistEmail(w) ==
  /\ w \in Rows /\ Edit
  /\ notify' = [notify EXCEPT ![w] = ~@]
  /\ UNCHANGED <<now, source, event, written, sync, loop, regraded, adding,
                 digests, slips>>

\* The one-click link of a digest.
DigestUnsubscribe(t) ==
  /\ \E d \in digests : d.tenant = t
  /\ Edit
  /\ notify' = [w \in Watchlists |-> notify[w] /\ Owner[w] # t]
  /\ UNCHANGED <<now, source, event, written, sync, loop, regraded, adding,
                 digests, slips>>

\* The application is installed in an organisation.
EnsureImplicitWatchlist(w) ==
  /\ Edit
  /\ CreateWatchlist(w, "implicit")
  /\ UNCHANGED <<now, event, written, sync, loop, regraded, adding,
                 digests, slips>>

-----------------------------------------------------------------------------
(* A scorer that has changed a grade: notifyGradeChange *)

GradeChanged ==
  /\ regraded = {} /\ written < MaxEvents
  /\ regraded' \in SUBSET Rows \ {{}}
  /\ UNCHANGED <<now, tables, sync, loop, adding, edits, digests, slips>>

TellGrade(w) ==
  /\ w \in regraded
  /\ regraded' = regraded \ {w}
  /\ InsertEvent(w, "score_change", {})
  /\ UNCHANGED <<now, source, notify, sync, loop, adding, edits, digests,
                 slips>>

\* The insert fails: the row is gone, or the call slips.
TellGradeFails(w) ==
  /\ w \in regraded
  /\ regraded' = regraded \ {w}
  /\ IF w \in Rows THEN Slip ELSE UNCHANGED slips
  /\ UNCHANGED <<now, tables, sync, loop, adding, edits, digests>>

-----------------------------------------------------------------------------
(* The ingest loop: newcomers *)

Go(place) == pc' = place

\* The watchlists are read once, before the hours are processed.
StartRun ==
  /\ pc = "due"
  /\ Go("hours")
  /\ watched' = Rows
  /\ UNCHANGED <<now, tables, sync, todo, about, mail, requests, digests, slips>>

\* A contributor of the hour has no score yet, and its repositories match the
\* targets of M.
Newcomer(M, a) ==
  /\ pc = "hours" /\ M # {} /\ M \subseteq watched
  /\ Go("newcomer")
  /\ todo' = M
  /\ about' = a
  /\ UNCHANGED <<now, tables, sync, watched, mail, requests, digests, slips>>

TellNewcomer(w) ==
  /\ pc = "newcomer" /\ w \in todo
  /\ EventDetails(w, about) # {}
  /\ InsertEvent(w, "new_contributor", EventDetails(w, about))
  /\ todo' = todo \ {w}
  /\ UNCHANGED <<now, source, notify, sync, pc, watched, about, mail, requests,
                 digests, slips>>

\* No activity in scope, the row is gone, or the call slips.
TellNewcomerNot(w) ==
  /\ pc = "newcomer" /\ w \in todo
  /\ todo' = todo \ {w}
  /\ IF EventDetails(w, about) = {} \/ w \notin Rows THEN UNCHANGED slips
                                                     ELSE Slip
  /\ UNCHANGED <<now, tables, sync, pc, watched, about, mail, requests, digests>>

NewcomerTold ==
  /\ pc = "newcomer" /\ todo = {}
  /\ Go("hours")
  /\ about' = {}
  /\ UNCHANGED <<now, tables, sync, watched, todo, mail, requests, digests, slips>>

HoursDone ==
  /\ pc = "hours"
  /\ Go("sweep")
  /\ watched' = {}
  /\ UNCHANGED <<now, tables, sync, todo, about, mail, requests, digests, slips>>

-----------------------------------------------------------------------------
(* The ingest loop: digests *)

\* time.Since(last) against an interval of a day; just a day by the clock may
\* be a little less or a little more.
TooSoon(last) == last # Never /\ now - last <= Day
LongAgo(last) == last = Never \/ now - last >= Day

Today == (now \div Day) % WeekDays

\* SkipSweep also stands for targets that cannot be read, which is a slip.
SkipSweep ==
  /\ pc = "sweep"
  /\ \/ TooSoon(lastSweep) /\ UNCHANGED slips
     \/ LongAgo(lastSweep) /\ Slip
  /\ Go("prune")
  /\ UNCHANGED <<now, tables, sync, watched, todo, about, mail, requests, digests>>

Sweep ==
  /\ pc = "sweep" /\ LongAgo(lastSweep)
  /\ Go("digests")
  /\ todo' = {t \in GetTenantsWithUnsentEvents : t \in Mailable}
  /\ UNCHANGED <<now, tables, sync, watched, about, mail, requests, digests, slips>>

\* ServedToday_AnyDay is a seeded fault: every day is every tenant's day.
ServedToday_AnyDay(t) == PlanOf[t].digest
ServedToday(t) == PlanOf[t].digest /\ DigestDay[t] = Today

SkipTenant(t) ==
  /\ pc = "digests" /\ t \in todo
  /\ ~ServedToday(t)
  /\ todo' = todo \ {t}
  /\ UNCHANGED <<now, tables, sync, pc, watched, about, mail, requests, digests,
                 slips>>

Render(t, ids) ==
  [tenant |-> t, rows |-> ids, upto |-> written, marked |-> 0, at |-> now,
   no |-> Cardinality(digests) + 1]

\* sendOneDigest: read the events ...
ReadEvents(t) ==
  /\ pc = "digests" /\ t \in todo
  /\ ServedToday(t)
  /\ todo' = todo \ {t}
  /\ \/ /\ GetUnsentEventsForDigest(t) # {}
        /\ mail' = Render(t, GetUnsentEventsForDigest(t))
        /\ Go("send")
        /\ UNCHANGED slips
     \/ /\ GetUnsentEventsForDigest(t) = {}
        /\ UNCHANGED <<mail, pc, slips>>
     \/ /\ Slip
        /\ UNCHANGED <<mail, pc>>
  /\ UNCHANGED <<now, tables, sync, watched, about, requests, digests>>

\* ... send the e-mail ...
SendEmail ==
  /\ pc = "send"
  /\ digests' = digests \cup {mail}
  /\ Go("mark")
  /\ UNCHANGED <<now, tables, sync, watched, todo, about, mail, requests, slips>>

SendFails ==
  /\ pc = "send" /\ Slip
  /\ Go("digests")
  /\ mail' = NoMail
  /\ UNCHANGED <<now, tables, sync, watched, todo, about, requests, digests>>

\* ... and mark.
\* Mark_Forgets is a seeded fault: nothing is marked.
Mark_Forgets ==
  /\ pc = "mark"
  /\ Go("digests")
  /\ mail' = NoMail
  /\ UNCHANGED <<now, tables, sync, watched, todo, about, requests, digests, slips>>
Mark ==
  /\ pc = "mark"
  /\ \/ /\ MarkAllEventsSent(mail.tenant)
        /\ digests' = {IF d = mail THEN [d EXCEPT !.marked = written] ELSE d :
                         d \in digests}
        /\ UNCHANGED slips
     \/ Slip /\ UNCHANGED <<event, digests>>
  /\ Go("digests")
  /\ mail' = NoMail
  /\ UNCHANGED <<now, source, notify, written, sync, watched, todo, about,
                 requests>>

SaveSweep ==
  /\ pc = "digests" /\ todo = {}
  /\ \/ lastSweep' = now /\ UNCHANGED slips
     \/ Slip /\ UNCHANGED lastSweep
  /\ Go("prune")
  /\ UNCHANGED <<now, tables, lastPrune, watched, todo, about, mail, requests,
                 digests>>

-----------------------------------------------------------------------------
(* The ingest loop: pruning *)

SkipPrune ==
  /\ pc = "prune"
  /\ \/ TooSoon(lastPrune) /\ UNCHANGED slips
     \/ LongAgo(lastPrune) /\ Slip
  /\ Go("idle")
  /\ UNCHANGED <<now, tables, sync, watched, todo, about, mail, requests, digests>>

Prune ==
  /\ pc = "prune" /\ LongAgo(lastPrune)
  /\ Go("pruning")
  /\ todo' = Tenants
  /\ UNCHANGED <<now, tables, sync, watched, about, mail, requests, digests, slips>>

Expired(t) == {e \in EventsOf(t) : event[e].at < now - PlanOf[t].retention}
Excess(t) ==
  LET left == EventsOf(t) \ Expired(t)
  IN  {e \in left : Cardinality(Newer(e, left)) >= PlanOf[t].cap}

\* By age, then by number; either statement may fail, and the next tenant
\* follows.
PruneTenant(t) ==
  /\ pc = "pruning" /\ t \in todo
  /\ \/ Keep(DOMAIN event \ (Expired(t) \cup Excess(t))) /\ UNCHANGED slips
     \/ Keep(DOMAIN event \ Expired(t)) /\ Slip
     \/ Slip /\ UNCHANGED event
  /\ todo' = todo \ {t}
  /\ UNCHANGED <<now, source, notify, written, sync, pc, watched, about, mail,
                 requests, digests>>

SavePrune ==
  /\ pc = "pruning" /\ todo = {}
  /\ \/ lastPrune' = now /\ UNCHANGED slips
     \/ Slip /\ UNCHANGED lastPrune
  /\ Go("idle")
  /\ UNCHANGED <<now, tables, lastSweep, watched, todo, about, mail, requests,
                 digests>>

-----------------------------------------------------------------------------
(* The clock, and restarts *)

Tick ==
  /\ pc = "idle" /\ now < Horizon
  /\ now' = now + 1
  /\ Go("due")
  /\ UNCHANGED <<tables, sync, watched, todo, about, mail, requests, digests, slips>>

\* The process ends anywhere, and a new one starts with a run.
Restart ==
  /\ Slip
  /\ Go("due")
  /\ watched' = {} /\ todo' = {} /\ about' = {} /\ mail' = NoMail
  /\ regraded' = {} /\ adding' = {}
  /\ UNCHANGED <<now, tables, sync, edits, digests>>

-----------------------------------------------------------------------------

Init ==
  /\ now = 0
  /\ source = [w \in Watchlists |->
                 IF w \in Installed THEN "implicit" ELSE "none"]
  /\ notify = [w \in Watchlists |-> w \in Installed]
  /\ event = [e \in {} |-> {}] /\ written = 0
  /\ pc = "due" /\ watched = {} /\ todo = {} /\ about = {} /\ mail = NoMail
  /\ lastSweep = Never /\ lastPrune = Never
  /\ regraded = {} /\ adding = {}
  /\ digests = {} /\ slips = 0 /\ edits = 0

Requests ==
  \/ \E w \in Watchlists :
       \/ AddWatchlist(w) \/ AddWatchlistInsert(w) \/ DeleteWatchlist(w)
       \/ ToggleWatchlistEmail(w) \/ EnsureImplicitWatchlist(w)
  \/ \E t \in Tenants : DigestUnsubscribe(t)

Scoring ==
  \/ GradeChanged
  \/ \E w \in Watchlists : TellGrade(w) \/ TellGradeFails(w)

Announcing ==
  \/ StartRun \/ NewcomerTold \/ HoursDone
  \/ \E M \in SUBSET Watchlists, a \in Summaries : Newcomer(M, a)
  \/ \E w \in Watchlists : TellNewcomer(w) \/ TellNewcomerNot(w)

Digesting ==
  \/ SkipSweep \/ Sweep \/ SendEmail \/ SendFails \/ Mark \/ SaveSweep
  \/ \E t \in Tenants : SkipTenant(t) \/ ReadEvents(t)

Pruning ==
  \/ SkipPrune \/ Prune \/ SavePrune
  \/ \E t \in Tenants : PruneTenant(t)

Next == Requests \/ Scoring \/ Announcing \/ Digesting \/ Pruning
        \/ Tick \/ Restart

Spec == Init /\ [][Next]_vars

-----------------------------------------------------------------------------
(* Properties *)

\* The tables and the loop hold what they can hold; a digest under way belongs
\* to a tenant whose plan has one, and only the scorer's and the loop's own
\* places hold work.
TypeOK ==
  /\ now \in 0..Horizon
  /\ source \in [Watchlists -> {"none", "manual", "implicit"}]
  /\ notify \in [Watchlists -> BOOLEAN]
  /\ \A w \in Watchlists : notify[w] => w \in Rows
  /\ written \in 0..MaxEvents /\ DOMAIN event \subseteq 1..written
  /\ \A e \in DOMAIN event : event[e].list \in Rows /\ event[e].at \in 0..now
  /\ pc \in {"due", "hours", "newcomer", "sweep", "digests", "send", "mark",
             "prune", "pruning", "idle"}
  /\ watched \subseteq Watchlists
  /\ todo \subseteq (IF pc = "newcomer" THEN watched ELSE Tenants)
  /\ pc \in {"send", "mark"} => PlanOf[mail.tenant].digest
  /\ pc \notin {"send", "mark"} => mail = NoMail
  /\ {lastSweep, lastPrune} \subseteq {Never} \cup 0..now
  /\ regraded \subseteq Watchlists /\ adding \subseteq Watchlists
  /\ slips \in 0..MaxSlips /\ edits \in 0..MaxEdits

\* Why an event that is marked as sent needs no further e-mail: an accepted
\* digest lists it, or lists as many newer ones as fit, or had been read before
\* the event was written and was marked after.
CoveredBy(e, d) ==
  \/ e \in d.rows
  \/ /\ e <= d.upto
     /\ Cardinality(d.rows) = MaxPerEmail
     /\ \A f \in d.rows : f > e
  \/ d.upto < e /\ e <= d.marked

\* No event is marked as sent but for a digest of its own tenant that the mail
\* provider has accepted (MarkAllEventsSent, sendOneDigest), whatever fails or
\* restarts and whatever scorers and requests write meanwhile; and the tables are
\* what they should be.
SentIsCovered ==
  /\ TypeOK
  /\ \A e \in DOMAIN event : event[e].sent =>
       \E d \in digests : d.tenant = Owner[event[e].list] /\ CoveredBy(e, d)

\* An event is mailed again only for a failed mark or a restart
\* (sendOneDigest).
RepeatsArePaidFor ==
  \A e \in 1..written : Cardinality({d \in digests : e \in d.rows}) <= 1 + slips

\* Without failures a tenant gets no two digests within the week between its
\* days (maybeSendDigests, digestDay).
DigestsAWeekApart ==
  slips = 0 =>
    \A c, d \in digests :
      c.tenant = d.tenant /\ c.no < d.no => d.at - c.at > (WeekDays - 1) * Day

=============================================================================
