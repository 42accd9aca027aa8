-------------------------- MODULE Notifications_proofs --------------------------
(***************************************************************************)
(* The digests, for any number of tenants, watchlists and events: what is  *)
(* marked as sent has been sent or was crowded out by newer events, what   *)
(* is sent again has been paid for by a failure, and without failures a    *)
(* tenant gets no two digests in a week.                                   *)
(***************************************************************************)
EXTENDS Notifications, FiniteSetTheorems, WellFoundedInduction, TLAPS

-----------------------------------------------------------------------------
(* Types *)

EventRow ==
  [list : Watchlists, kind : {"score_change", "new_contributor"},
   details : SUBSET Activities, at : Int, sent : BOOLEAN]
Digest ==
  [tenant : Tenants, rows : SUBSET Nat, upto : Nat, marked : Nat, at : Nat, no : Nat]

\* A digest lists events there were when they were read.
Dated(d) ==
  /\ d \in Digest
  /\ d.rows \subseteq 1..d.upto
  /\ d.upto <= written /\ d.marked <= written /\ d.at <= now

\* What TypeOK leaves open: the rows of the events and the digests.
Known ==
  /\ TypeOK
  /\ \A e \in DOMAIN event : event[e] \in EventRow
  /\ IsFiniteSet(digests)
  /\ \A d \in digests : Dated(d) /\ d.no <= Cardinality(digests)
  /\ \A c, d \in digests : c.no = d.no => c = d
  /\ pc \in {"send", "mark"} => Dated(mail) /\ mail.marked = 0 /\ mail.at = now
  /\ pc = "send" => mail.no = Cardinality(digests) + 1

LEMMA KnownInit == Init => Known
<1> SUFFICES ASSUME Init PROVE Known
  OBVIOUS
<1>1. IsFiniteSet(digests) /\ Cardinality(digests) = 0
  BY FS_EmptySet DEF Init
<1>2. TypeOK
  <2>1. /\ now \in 0..Horizon /\ written \in 0..MaxEvents
        /\ slips \in 0..MaxSlips /\ edits \in 0..MaxEdits
    BY NotificationsAssumption DEF Init, NotificationsAssumption
  <2>2. /\ source \in [Watchlists -> {"none", "manual", "implicit"}]
        /\ notify \in [Watchlists -> BOOLEAN]
    BY DEF Init
  <2>3. \A w \in Watchlists : notify[w] => w \in Rows
    BY DEF Init, Rows
  <2>4. DOMAIN event = {}
    BY DEF Init
  <2>5. QED
    BY <2>1, <2>2, <2>3, <2>4 DEF Init, TypeOK
<1>3. QED
  BY <1>1, <1>2 DEF Init, Known

LEMMA BoundTypes ==
  /\ Horizon \in Nat /\ MaxEvents \in Nat /\ MaxSlips \in Nat /\ MaxEdits \in Nat
  /\ MaxPerEmail \in Nat \ {0} /\ Day \in Nat \ {0} /\ WeekDays \in Nat \ {0}
  BY NotificationsAssumption DEF NotificationsAssumption

LEMMA SlipTypes ==
  ASSUME Known
  PROVE  /\ Slip => slips' \in 0..MaxSlips /\ slips' = slips + 1
         /\ Edit => edits' \in 0..MaxEdits
  BY BoundTypes DEF Slip, Edit, Known, TypeOK

LEMMA DigestCount == Known => Cardinality(digests) \in Nat
  BY FS_CardinalityType DEF Known

\* Marking neither makes nor merges digests.
LEMMA MarkedDigests ==
  ASSUME Known, pc = "mark",
         NEW D, D = {IF d = mail THEN [d EXCEPT !.marked = written] ELSE d : d \in digests}
  PROVE  IsFiniteSet(D) /\ Cardinality(D) = Cardinality(digests)
<1> DEFINE f == [d \in digests |-> IF d = mail THEN [d EXCEPT !.marked = written] ELSE d]
<1>1. \A d \in digests : d \in Digest /\ f[d].no = d.no
  BY DEF Known, Dated, Digest
<1>2. f \in Surjection(digests, D)
  BY DEF Surjection
<1>3. ASSUME NEW c \in digests, NEW d \in digests, f[c] = f[d] PROVE c = d
  <2>1. c.no = d.no
    BY <1>1, <1>3
  <2>2. QED
    BY <2>1 DEF Known
<1> HIDE DEF f
<1>5. f \in Injection(digests, D)
  BY <1>2, <1>3 DEF Injection, IsInjective, Surjection
<1>6. QED
  BY <1>2, <1>5, FS_Surjection DEF Known

\* A new event keeps the types.
LEMMA InsertEventTypes ==
  ASSUME Known, NEW w \in Watchlists, NEW kind \in {"score_change", "new_contributor"},
         NEW a \in SUBSET Activities, InsertEvent(w, kind, a),
         UNCHANGED <<now, source>>
  PROVE  /\ written' \in 0..MaxEvents /\ written' = written + 1
         /\ DOMAIN event' \subseteq 1..written'
         /\ \A e \in DOMAIN event' : /\ event'[e] \in EventRow
                                     /\ event'[e].list \in Rows'
                                     /\ event'[e].at \in 0..now'
  BY NotificationsAssumption
  DEF Known, TypeOK, InsertEvent, EventRow, Rows, NotificationsAssumption

\* So do events that are taken away.
LEMMA KeepTypes ==
  ASSUME Known, NEW S \in SUBSET DOMAIN event, Keep(S)
  PROVE  /\ DOMAIN event' = S
         /\ \A e \in S : event'[e] = event[e]
  BY DEF Keep

\* Digests, the digest under way and time are left alone, and no event is lost
\* count of.
LEMMA DigestsKeepTypes ==
  ASSUME Known, UNCHANGED <<now, digests>>, written' \in Nat, written <= written',
         \/ UNCHANGED mail /\ (pc' \in {"send", "mark"} => pc' = pc)
         \/ pc' \notin {"send", "mark"}
  PROVE  /\ IsFiniteSet(digests')
         /\ \A d \in digests' : Dated(d)' /\ d.no <= Cardinality(digests')
         /\ \A c, d \in digests' : c.no = d.no => c = d
         /\ pc' \in {"send", "mark"} =>
              Dated(mail)' /\ mail'.marked = 0 /\ mail'.at = now'
         /\ pc' = "send" => mail'.no = Cardinality(digests') + 1
<1>1. written \in Nat
  BY DEF Known, TypeOK
<1>2. ASSUME NEW d, Dated(d) PROVE Dated(d)'
  BY <1>1, <1>2 DEF Dated, Digest
<1>3. QED
  BY <1>2 DEF Known

\* What a step has to show, where it leaves the digests alone.
RowsTyped ==
  /\ TypeOK
  /\ \A e \in DOMAIN event : event[e] \in EventRow

LEMMA KnownParts ==
  ASSUME Known, RowsTyped', UNCHANGED <<now, digests>>, written <= written',
         \/ UNCHANGED mail /\ (pc' \in {"send", "mark"} => pc' = pc)
         \/ pc' \notin {"send", "mark"}
  PROVE  Known'
<1>1. written' \in Nat
  BY DEF RowsTyped, TypeOK
<1>2. QED
  BY <1>1, DigestsKeepTypes DEF Known, RowsTyped

LEMMA Same == ASSUME Known PROVE RowsTyped /\ written <= written
  BY DEF Known, RowsTyped, TypeOK

LEMMA RequestsKnown == ASSUME Known, Requests PROVE Known'
<1> USE DEF tables, sync, loop
<1>1. ASSUME NEW w \in Watchlists, AddWatchlist(w) PROVE Known'
  <2>1. RowsTyped'
    BY <1>1, Same DEF AddWatchlist, RowsTyped, TypeOK, Rows
  <2>2. QED
    BY <1>1, <2>1, KnownParts, Same DEF AddWatchlist
<1>2. ASSUME NEW w \in Watchlists, AddWatchlistInsert(w) PROVE Known'
  <2>1. RowsTyped'
    BY <1>2, Same DEF AddWatchlistInsert, CreateWatchlist, RowsTyped, TypeOK, Rows
  <2>2. QED
    BY <1>2, <2>1, KnownParts, Same DEF AddWatchlistInsert
<1>3. ASSUME NEW w \in Watchlists, DeleteWatchlist(w) PROVE Known'
  <2>1. RowsTyped'
    <3>1. /\ DOMAIN event' = {e \in DOMAIN event : event[e].list # w}
          /\ \A e \in DOMAIN event' : event'[e] = event[e]
      BY <1>3, KeepTypes DEF DeleteWatchlist
    <3>2. QED
      BY <1>3, <3>1, Same, SlipTypes DEF DeleteWatchlist, RowsTyped, TypeOK, Rows
  <2>2. QED
    BY <1>3, <2>1, KnownParts, Same DEF DeleteWatchlist
<1>4. ASSUME NEW w \in Watchlists, ToggleWatchlistEmail(w) PROVE Known'
  <2>1. RowsTyped'
    BY <1>4, Same, SlipTypes DEF ToggleWatchlistEmail, RowsTyped, TypeOK, Rows
  <2>2. QED
    BY <1>4, <2>1, KnownParts, Same DEF ToggleWatchlistEmail
<1>5. ASSUME NEW w \in Watchlists, EnsureImplicitWatchlist(w) PROVE Known'
  <2>1. RowsTyped'
    BY <1>5, Same, SlipTypes
    DEF EnsureImplicitWatchlist, CreateWatchlist, RowsTyped, TypeOK, Rows
  <2>2. QED
    BY <1>5, <2>1, KnownParts, Same DEF EnsureImplicitWatchlist
<1>6. ASSUME NEW t \in Tenants, DigestUnsubscribe(t) PROVE Known'
  <2>1. RowsTyped'
    BY <1>6, Same, SlipTypes DEF DigestUnsubscribe, RowsTyped, TypeOK, Rows
  <2>2. QED
    BY <1>6, <2>1, KnownParts, Same DEF DigestUnsubscribe
<1>7. QED
  BY <1>1, <1>2, <1>3, <1>4, <1>5, <1>6 DEF Requests

LEMMA ScoringKnown == ASSUME Known, Scoring PROVE Known'
<1> USE DEF tables, sync, loop
<1>1. CASE GradeChanged
  <2>1. RowsTyped'
    BY <1>1, Same DEF GradeChanged, RowsTyped, TypeOK, Rows
  <2>2. QED
    BY <1>1, <2>1, KnownParts, Same DEF GradeChanged
<1>2. ASSUME NEW w \in Watchlists, TellGrade(w) PROVE Known'
  <2>1. InsertEvent(w, "score_change", {}) /\ UNCHANGED <<now, source>>
    BY <1>2 DEF TellGrade
  <2>2. RowsTyped'
    BY <1>2, <2>1, InsertEventTypes, Same DEF TellGrade, RowsTyped, TypeOK, Rows
  <2>3. QED
    BY <1>2, <2>1, <2>2, InsertEventTypes, KnownParts, Same
    DEF TellGrade, Known, TypeOK
<1>3. ASSUME NEW w \in Watchlists, TellGradeFails(w) PROVE Known'
  <2>1. RowsTyped'
    BY <1>3, Same, SlipTypes DEF TellGradeFails, RowsTyped, TypeOK, Rows
  <2>2. QED
    BY <1>3, <2>1, KnownParts, Same DEF TellGradeFails
<1>4. QED
  BY <1>1, <1>2, <1>3 DEF Scoring

LEMMA AnnouncingKnown == ASSUME Known, Announcing PROVE Known'
<1> USE DEF tables, sync, loop, requests, Go
<1>1. CASE StartRun
  <2>1. RowsTyped'
    BY <1>1, Same DEF StartRun, RowsTyped, TypeOK, Rows
  <2>2. QED
    BY <1>1, <2>1, KnownParts, Same DEF StartRun
<1>2. CASE NewcomerTold
  <2>1. RowsTyped'
    BY <1>2, Same DEF NewcomerTold, RowsTyped, TypeOK, Rows
  <2>2. QED
    BY <1>2, <2>1, KnownParts, Same DEF NewcomerTold
<1>3. CASE HoursDone
  <2>1. RowsTyped'
    BY <1>3, Same DEF HoursDone, RowsTyped, TypeOK, Rows
  <2>2. QED
    BY <1>3, <2>1, KnownParts, Same DEF HoursDone
<1>4. ASSUME NEW M \in SUBSET Watchlists, NEW a \in Summaries, Newcomer(M, a)
      PROVE  Known'
  <2>1. RowsTyped'
    BY <1>4, Same DEF Newcomer, RowsTyped, TypeOK, Rows
  <2>2. QED
    BY <1>4, <2>1, KnownParts, Same DEF Newcomer
<1>5. ASSUME NEW w \in Watchlists, TellNewcomer(w) PROVE Known'
  <2>1. InsertEvent(w, "new_contributor", EventDetails(w, about))
        /\ UNCHANGED <<now, source>>
    BY <1>5 DEF TellNewcomer
  <2>2. EventDetails(w, about) \in SUBSET Activities
    <3>1. PlanOf[Owner[w]].scope \in SUBSET Activities
      BY NotificationsAssumption DEF NotificationsAssumption, Plans
    <3>2. QED
      BY <3>1 DEF EventDetails
  <2>3. RowsTyped'
    BY <1>5, <2>1, <2>2, InsertEventTypes, Same
    DEF TellNewcomer, RowsTyped, TypeOK, Rows
  <2>4. QED
    BY <1>5, <2>1, <2>2, <2>3, InsertEventTypes, KnownParts, Same
    DEF TellNewcomer, Known, TypeOK
<1>6. ASSUME NEW w \in Watchlists, TellNewcomerNot(w) PROVE Known'
  <2>1. RowsTyped'
    BY <1>6, Same, SlipTypes DEF TellNewcomerNot, RowsTyped, TypeOK, Rows
  <2>2. QED
    BY <1>6, <2>1, KnownParts, Same DEF TellNewcomerNot
<1>7. QED
  BY <1>1, <1>2, <1>3, <1>4, <1>5, <1>6 DEF Announcing

\* A digest that has been accepted or is under way stays one.
LEMMA DatedLater ==
  ASSUME Known, written' \in Nat, written <= written', now' \in Nat, now <= now',
         NEW d, Dated(d)
  PROVE  Dated(d)'
  BY DEF Known, TypeOK, Dated, Digest

LEMMA DigestingKnown == ASSUME Known, Digesting PROVE Known'
<1> USE DEF tables, sync, loop, requests, Go
<1>1. CASE SkipSweep
  <2>1. RowsTyped'
    BY <1>1, Same, SlipTypes DEF SkipSweep, RowsTyped, TypeOK, Rows
  <2>2. QED
    BY <1>1, <2>1, KnownParts, Same DEF SkipSweep
<1>2. CASE Sweep
  <2>1. RowsTyped'
    BY <1>2, Same DEF Sweep, GetTenantsWithUnsentEvents, RowsTyped, TypeOK, Rows
  <2>2. QED
    BY <1>2, <2>1, KnownParts, Same DEF Sweep
<1>3. ASSUME NEW t \in Tenants, SkipTenant(t) PROVE Known'
  <2>1. RowsTyped'
    BY <1>3, Same DEF SkipTenant, RowsTyped, TypeOK, Rows
  <2>2. QED
    BY <1>3, <2>1, KnownParts, Same DEF SkipTenant
<1>4. ASSUME NEW t \in Tenants, ReadEvents(t) PROVE Known'
  <2>1. CASE UNCHANGED <<mail, pc>>
    <3>1. slips' \in 0..MaxSlips
      BY <1>4, SlipTypes, Same DEF ReadEvents, RowsTyped, TypeOK
    <3>2. UNCHANGED <<now, tables, sync, watched, about, requests, digests>>
          /\ todo' = todo \ {t}
      BY <1>4 DEF ReadEvents
    <3> HIDE DEF requests
    <3>3. RowsTyped'
      BY <2>1, <3>1, <3>2, Same DEF RowsTyped, TypeOK, Rows, requests
    <3>4. QED
      BY <2>1, <3>2, <3>3, KnownParts, Same
  <2>2. CASE /\ mail' = Render(t, GetUnsentEventsForDigest(t))
             /\ pc' = "send" /\ UNCHANGED slips
    <3>1. PlanOf[t].digest
      BY <1>4 DEF ReadEvents, ServedToday
    <3>2. mail'.tenant = t /\ mail'.marked = 0 /\ mail'.at = now
          /\ mail'.no = Cardinality(digests) + 1
      BY <2>2 DEF Render
    <3>3. RowsTyped'
      BY <1>4, <2>2, <3>1, <3>2, Same DEF ReadEvents, RowsTyped, TypeOK, Rows
    <3>4. Dated(mail)'
      <4>1. GetUnsentEventsForDigest(t) \subseteq 1..written
        BY Same DEF RowsTyped, TypeOK, GetUnsentEventsForDigest, Newest, Unsent, EventsOf
      <4>2. written \in Nat /\ now \in Nat
        BY Same DEF RowsTyped, TypeOK
      <4>3. UNCHANGED <<written, now>>
        BY <1>4 DEF ReadEvents
      <4>4. QED
        BY <2>2, <4>1, <4>2, <4>3, DigestCount DEF Render, Dated, Digest
    <3>5. UNCHANGED <<now, digests, written>>
      BY <1>4 DEF ReadEvents
    <3>6. QED
      BY <2>2, <3>2, <3>3, <3>4, <3>5 DEF Known, RowsTyped, Dated
  <2>3. QED
    BY <1>4, <2>1, <2>2 DEF ReadEvents
<1>5. CASE SendEmail
  <2>1. RowsTyped'
    BY <1>5, Same DEF SendEmail, RowsTyped, TypeOK, Rows
  <2>2. mail \notin digests /\ \A d \in digests : d.no # mail.no
    BY <1>5, DigestCount DEF SendEmail, Known, Dated, Digest
  <2>3. digests' = digests \cup {mail}
    BY <1>5 DEF SendEmail
  <2>4. IsFiniteSet(digests') /\ Cardinality(digests') = Cardinality(digests) + 1
    BY <2>2, <2>3, FS_AddElement DEF Known
  <2>5. \A d \in digests' : d.no <= Cardinality(digests')
    BY <1>5, <2>3, <2>4, DigestCount DEF Known, Dated, Digest, SendEmail
  <2>6. \A d \in digests' : Dated(d)'
    BY <1>5 DEF SendEmail, Known, Dated
  <2>7. QED
    BY <1>5, <2>1, <2>2, <2>3, <2>4, <2>5, <2>6 DEF SendEmail, Known, RowsTyped, Dated
<1>6. CASE SendFails
  <2>1. RowsTyped'
    BY <1>6, Same, SlipTypes DEF SendFails, RowsTyped, TypeOK, Rows
  <2>2. QED
    BY <1>6, <2>1, KnownParts, Same DEF SendFails
<1>7. CASE Mark
  <2>1. DOMAIN event' = DOMAIN event /\ \A e \in DOMAIN event :
          event'[e] \in EventRow /\ event'[e].list = event[e].list
          /\ event'[e].at = event[e].at
    <3>1. CASE UNCHANGED event
      BY <3>1, Same DEF RowsTyped
    <3>2. CASE MarkAllEventsSent(mail.tenant)
      BY <3>2, Same DEF MarkAllEventsSent, RowsTyped, EventRow
    <3>3. QED
      BY <1>7, <3>1, <3>2 DEF Mark
  <2>2. RowsTyped'
    BY <1>7, <2>1, Same, SlipTypes DEF Mark, RowsTyped, TypeOK, Rows
  <2>3. CASE UNCHANGED digests
    BY <1>7, <2>2, <2>3, KnownParts, Same DEF Mark
  <2>4. CASE digests' = {IF d = mail THEN [d EXCEPT !.marked = written] ELSE d :
                           d \in digests}
    <3>1. IsFiniteSet(digests') /\ Cardinality(digests') = Cardinality(digests)
      BY <1>7, <2>4, MarkedDigests DEF Mark
    <3>2. written \in Nat
      BY Same DEF RowsTyped, TypeOK
    <3> DEFINE marked(d) == IF d = mail THEN [d EXCEPT !.marked = written] ELSE d
    <3>3. \A d \in digests : Dated(marked(d)) /\ marked(d).no = d.no
      BY <3>2 DEF Known, Dated, Digest
    <3>4. \A d \in digests' : \E c \in digests : d = marked(c)
      BY <2>4
    <3> HIDE DEF marked
    <3>5. /\ \A d \in digests' : Dated(d) /\ d.no <= Cardinality(digests')
          /\ \A c, d \in digests' : c.no = d.no => c = d
      BY <3>1, <3>3, <3>4 DEF Known
    <3>6. UNCHANGED <<now, written>> /\ pc' = "digests"
      BY <1>7 DEF Mark
    <3>7. QED
      BY <2>2, <3>1, <3>5, <3>6 DEF Known, RowsTyped, Dated
  <2>5. QED
    BY <1>7, <2>3, <2>4 DEF Mark
<1>8. CASE SaveSweep
  <2>1. RowsTyped'
    BY <1>8, Same, SlipTypes DEF SaveSweep, RowsTyped, TypeOK, Rows
  <2>2. QED
    BY <1>8, <2>1, KnownParts, Same DEF SaveSweep
<1>9. QED
  BY <1>1, <1>2, <1>3, <1>4, <1>5, <1>6, <1>7, <1>8 DEF Digesting

LEMMA PruningKnown == ASSUME Known, Pruning PROVE Known'
<1> USE DEF tables, sync, loop, requests, Go
<1>1. CASE SkipPrune
  <2>1. RowsTyped'
    BY <1>1, Same, SlipTypes DEF SkipPrune, RowsTyped, TypeOK, Rows
  <2>2. QED
    BY <1>1, <2>1, KnownParts, Same DEF SkipPrune
<1>2. CASE Prune
  <2>1. RowsTyped'
    BY <1>2, Same DEF Prune, RowsTyped, TypeOK, Rows
  <2>2. QED
    BY <1>2, <2>1, KnownParts, Same DEF Prune
<1>3. ASSUME NEW t \in Tenants, PruneTenant(t) PROVE Known'
  <2>1. /\ DOMAIN event' \subseteq DOMAIN event
        /\ \A e \in DOMAIN event' : event'[e] = event[e]
    BY <1>3 DEF PruneTenant, Keep
  <2>2. RowsTyped'
    BY <1>3, <2>1, Same, SlipTypes DEF PruneTenant, RowsTyped, TypeOK, Rows
  <2>3. QED
    BY <1>3, <2>2, KnownParts, Same DEF PruneTenant
<1>4. CASE SavePrune
  <2>1. RowsTyped'
    BY <1>4, Same, SlipTypes DEF SavePrune, RowsTyped, TypeOK, Rows
  <2>2. QED
    BY <1>4, <2>1, KnownParts, Same DEF SavePrune
<1>5. QED
  BY <1>1, <1>2, <1>3, <1>4 DEF Pruning

LEMMA KnownStep == ASSUME Known, [Next]_vars PROVE Known'
<1> USE DEF tables, sync, loop, requests, Go
<1>1. CASE Tick
  <2>1. RowsTyped'
    BY <1>1, Same, BoundTypes DEF Tick, RowsTyped, TypeOK, Rows, Never
  <2>2. \A d \in digests : Dated(d)'
    BY <1>1, <2>1, Same, DatedLater DEF Known, Tick, RowsTyped, TypeOK
  <2>3. QED
    BY <1>1, <2>1, <2>2 DEF Tick, Known, RowsTyped
<1>2. CASE Restart
  <2>1. RowsTyped'
    BY <1>2, Same, SlipTypes DEF Restart, RowsTyped, TypeOK, Rows
  <2>2. QED
    BY <1>2, <2>1, KnownParts, Same DEF Restart
<1>3. CASE UNCHANGED vars
  <2>1. RowsTyped'
    BY <1>3, Same DEF vars, RowsTyped, TypeOK, Rows
  <2>2. QED
    BY <1>3, <2>1, KnownParts, Same DEF vars
<1>4. QED
  BY <1>1, <1>2, <1>3, RequestsKnown, ScoringKnown, AnnouncingKnown,
     DigestingKnown, PruningKnown DEF Next

-----------------------------------------------------------------------------
(* Steps *)

\* What most steps do to the events and the digests: events come and go, none is
\* sent or marked, and a digest that waits to be marked is given up only by a
\* failure.
Onward ==
  /\ UNCHANGED digests /\ slips <= slips' /\ written <= written'
  /\ \A e \in DOMAIN event' :
       \/ e \in DOMAIN event /\ event'[e] = event[e]
       \/ written < e /\ e <= written' /\ ~event'[e].sent
  /\ \/ UNCHANGED <<pc, mail>>
     \/ pc' \notin {"send", "mark"} /\ (pc = "mark" => slips < slips')

\* A new event is not sent.
LEMMA InsertIsOnward ==
  ASSUME Known, NEW w, NEW kind, NEW a, InsertEvent(w, kind, a)
  PROVE  /\ written <= written'
         /\ \A e \in DOMAIN event' :
              \/ e \in DOMAIN event /\ event'[e] = event[e]
              \/ written < e /\ e <= written' /\ ~event'[e].sent
<1>1. written \in Nat
  BY DEF Known, TypeOK
<1>2. QED
  BY <1>1 DEF InsertEvent

\* Every step but those that read, send and mark is of that kind.
LEMMA StepKinds ==
  ASSUME Known, [Next]_vars
  PROVE  \/ Onward
         \/ \E t \in Tenants : ReadEvents(t) /\ pc' = "send"
         \/ SendEmail \/ Mark
<1> USE DEF tables, sync, loop, requests, Go
<1>1. /\ UNCHANGED slips => slips <= slips'
      /\ Slip => slips <= slips' /\ slips < slips'
      /\ UNCHANGED written => written <= written'
  BY DEF Known, TypeOK, Slip
<1>2. ASSUME NEW w \in Watchlists, AddWatchlist(w) PROVE Onward
  BY <1>1, <1>2 DEF AddWatchlist, Onward
<1>3. ASSUME NEW w \in Watchlists, AddWatchlistInsert(w) PROVE Onward
  BY <1>1, <1>3 DEF AddWatchlistInsert, Onward
<1>4. ASSUME NEW w \in Watchlists, DeleteWatchlist(w) PROVE Onward
  BY <1>1, <1>4 DEF DeleteWatchlist, Keep, Onward
<1>5. ASSUME NEW w \in Watchlists, ToggleWatchlistEmail(w) PROVE Onward
  BY <1>1, <1>5 DEF ToggleWatchlistEmail, Onward
<1>6. ASSUME NEW w \in Watchlists, EnsureImplicitWatchlist(w) PROVE Onward
  BY <1>1, <1>6 DEF EnsureImplicitWatchlist, Onward
<1>7. ASSUME NEW t \in Tenants, DigestUnsubscribe(t) PROVE Onward
  BY <1>1, <1>7 DEF DigestUnsubscribe, Onward
<1>8. CASE GradeChanged
  BY <1>1, <1>8 DEF GradeChanged, Onward
<1>9. ASSUME NEW w \in Watchlists, TellGrade(w) PROVE Onward
  <2>1. InsertEvent(w, "score_change", {})
    BY <1>9 DEF TellGrade
  <2>2. QED
    BY <1>1, <1>9, <2>1, InsertIsOnward DEF TellGrade, Onward
<1>10. ASSUME NEW w \in Watchlists, TellGradeFails(w) PROVE Onward
  <2>1. slips <= slips'
    BY <1>1, <1>10 DEF TellGradeFails
  <2>2. QED
    BY <1>1, <1>10, <2>1 DEF TellGradeFails, Onward
<1>11. CASE StartRun
  BY <1>1, <1>11 DEF StartRun, Onward
<1>12. CASE NewcomerTold
  BY <1>1, <1>12 DEF NewcomerTold, Onward
<1>13. CASE HoursDone
  BY <1>1, <1>13 DEF HoursDone, Onward
<1>14. ASSUME NEW M \in SUBSET Watchlists, NEW a \in Summaries, Newcomer(M, a)
       PROVE  Onward
  BY <1>1, <1>14 DEF Newcomer, Onward
<1>15. ASSUME NEW w \in Watchlists, TellNewcomer(w) PROVE Onward
  <2>1. InsertEvent(w, "new_contributor", EventDetails(w, about))
    BY <1>15 DEF TellNewcomer
  <2>2. QED
    BY <1>1, <1>15, <2>1, InsertIsOnward DEF TellNewcomer, Onward
<1>16. ASSUME NEW w \in Watchlists, TellNewcomerNot(w) PROVE Onward
  <2>1. slips <= slips'
    BY <1>1, <1>16 DEF TellNewcomerNot
  <2>2. QED
    BY <1>1, <1>16, <2>1 DEF TellNewcomerNot, Onward
<1>17. CASE SkipSweep
  <2>1. slips <= slips'
    BY <1>1, <1>17 DEF SkipSweep
  <2>2. QED
    BY <1>1, <1>17, <2>1 DEF SkipSweep, Onward
<1>18. CASE Sweep
  BY <1>1, <1>18 DEF Sweep, Onward
<1>19. CASE SendFails
  BY <1>1, <1>19 DEF SendFails, Onward
<1>20. CASE SaveSweep
  <2>1. slips <= slips'
    BY <1>1, <1>20 DEF SaveSweep
  <2>2. QED
    BY <1>1, <1>20, <2>1 DEF SaveSweep, Onward
<1>21. ASSUME NEW t \in Tenants, SkipTenant(t) PROVE Onward
  BY <1>1, <1>21 DEF SkipTenant, Onward
<1>22. ASSUME NEW t \in Tenants, ReadEvents(t), pc' # "send" PROVE Onward
  <2>1. UNCHANGED <<mail, pc>> /\ slips <= slips'
    BY <1>1, <1>22 DEF ReadEvents
  <2>2. QED
    BY <1>1, <1>22, <2>1 DEF ReadEvents, Onward
<1>23. CASE SkipPrune
  <2>1. slips <= slips'
    BY <1>1, <1>23 DEF SkipPrune
  <2>2. QED
    BY <1>1, <1>23, <2>1 DEF SkipPrune, Onward
<1>24. CASE Prune
  BY <1>1, <1>24 DEF Prune, Onward
<1>25. ASSUME NEW t \in Tenants, PruneTenant(t) PROVE Onward
  <2>1. \A e \in DOMAIN event' : e \in DOMAIN event /\ event'[e] = event[e]
    BY <1>25 DEF PruneTenant, Keep
  <2>2. slips <= slips'
    BY <1>1, <1>25 DEF PruneTenant
  <2>3. QED
    BY <1>1, <1>25, <2>1, <2>2 DEF PruneTenant, Onward
<1>26. CASE SavePrune
  <2>1. slips <= slips'
    BY <1>1, <1>26 DEF SavePrune
  <2>2. QED
    BY <1>1, <1>26, <2>1 DEF SavePrune, Onward
<1>27. CASE Tick
  BY <1>1, <1>27 DEF Tick, Onward
<1>28. CASE Restart
  BY <1>1, <1>28 DEF Restart, Onward
<1>29. CASE UNCHANGED vars
  BY <1>1, <1>29 DEF vars, Onward
<1>30. CASE Requests \/ Scoring
  BY <1>2, <1>3, <1>4, <1>5, <1>6, <1>7, <1>8, <1>9, <1>10, <1>30 DEF Requests, Scoring
<1>31. CASE Announcing
  BY <1>11, <1>12, <1>13, <1>14, <1>15, <1>16, <1>31 DEF Announcing
<1>32. CASE Digesting
  BY <1>17, <1>18, <1>19, <1>20, <1>21, <1>22, <1>32 DEF Digesting
<1>33. CASE Pruning
  BY <1>23, <1>24, <1>25, <1>26, <1>33 DEF Pruning
<1>34. QED
  BY <1>27, <1>28, <1>29, <1>30, <1>31, <1>32, <1>33 DEF Next

-----------------------------------------------------------------------------
(* The newest events *)

\* Every set of numbers up to n that is not empty has a greatest and a least.
LEMMA GreatestAndLeast ==
  ASSUME NEW n \in Nat, NEW S, S # {}, S \subseteq 1..n
  PROVE  /\ \E x \in S : \A y \in S : y <= x
         /\ \E x \in S : \A y \in S : x <= y
<1>1. ASSUME NEW T \in SUBSET Nat, T # {} PROVE \E x \in T : \A y \in T : x <= y
  <2>1. PICK x \in T : \A y \in T : ~(<<y, x>> \in OpToRel(<, Nat))
    BY <1>1, NatLessThanWellFounded, WFMin, Zenon
  <2>2. ASSUME NEW y \in T PROVE x <= y
    <3>1. ~(y < x)
      BY <2>1 DEF OpToRel
    <3>2. QED
      BY <3>1
  <2>3. QED
    BY <2>2
<1>2. \A y \in S : y \in Nat /\ n - y \in Nat
  <2>1. SUFFICES ASSUME NEW y \in S PROVE y \in Nat /\ n - y \in Nat
    OBVIOUS
  <2>2. y \in 1..n
    OBVIOUS
  <2>3. QED
    BY <2>2
<1>3. \E x \in S : \A y \in S : x <= y
  BY <1>1, <1>2
<1>4. PICK m \in {n - y : y \in S} : \A k \in {n - y : y \in S} : m <= k
  <2>1. {n - y : y \in S} \in SUBSET Nat
    BY <1>2
  <2>2. {n - y : y \in S} # {}
    OBVIOUS
  <2>3. QED
    BY <1>1, <2>1, <2>2
<1>5. PICK x \in S : \A y \in S : n - x <= n - y
  BY <1>4
<1>6. \A y \in S : y <= x
  BY <1>2, <1>5
<1>7. QED
  BY <1>3, <1>6

\* The n newest of a set either are all of it or are n, and newer than the rest.
LEMMA NewestOf ==
  ASSUME NEW m \in Nat, NEW S, S \subseteq 1..m, NEW n \in Nat \ {0},
         NEW e \in S, e \notin Newest(S, n, 0)
  PROVE  /\ Cardinality(Newest(S, n, 0)) = n
         /\ \A f \in Newest(S, n, 0) : f > e
<1> DEFINE T == Newest(S, n, 0)
<1>1. IsFiniteSet(S) /\ \A x \in S : x \in Nat
  <2>1. IsFiniteSet(1..m)
    BY FS_Interval
  <2>2. IsFiniteSet(S)
    BY <2>1, FS_Subset
  <2>3. \A x \in 1..m : x \in Nat
    OBVIOUS
  <2>4. QED
    BY <2>2, <2>3
<1>2. ASSUME NEW x \in S
      PROVE  /\ Newer(x, S) \in SUBSET S
             /\ IsFiniteSet(Newer(x, S)) /\ Cardinality(Newer(x, S)) \in Nat
  BY <1>1, FS_Subset, FS_CardinalityType DEF Newer
<1>3. \A x \in S : x \in T <=> Cardinality(Newer(x, S)) < n
  BY <1>2 DEF Newest
<1>4. ASSUME NEW x \in S, NEW y \in S, x <= y
      PROVE  Cardinality(Newer(y, S)) <= Cardinality(Newer(x, S))
  <2>1. ASSUME NEW z \in S, z > y PROVE z > x
    <3>1. x \in Nat /\ y \in Nat /\ z \in Nat
      BY <1>1
    <3>2. QED
      BY <1>4, <2>1, <3>1
  <2>2. Newer(y, S) \subseteq Newer(x, S)
    BY <2>1 DEF Newer
  <2>3. QED
    BY <1>2, <2>2, FS_Subset
<1>5. T \subseteq S /\ e \notin T
  BY DEF Newest
<1> HIDE DEF T
<1>6. PICK f \in S \ T : \A y \in S \ T : y <= f
  <2>1. S \ T \subseteq 1..m /\ S \ T # {}
    BY <1>5
  <2>2. QED
    BY <2>1, GreatestAndLeast
<1>7. T = Newer(f, S)
  <2>1. ASSUME NEW x \in T PROVE x > f
    <3>1. x \in S /\ x \in Nat /\ f \in Nat
      BY <1>1, <1>5
    <3>2. ~(x <= f)
      BY <1>2, <1>3, <1>4, <1>6, <3>1
    <3>3. QED
      BY <3>1, <3>2
  <2>2. ASSUME NEW x \in S, x > f PROVE x \in T
    BY <1>1, <1>6, <2>2
  <2>3. QED
    BY <1>5, <2>1, <2>2 DEF Newer
<1>8. IsFiniteSet(T) /\ Cardinality(T) \in Nat /\ Cardinality(T) >= n
  BY <1>2, <1>3, <1>6, <1>7
<1>9. Cardinality(T) <= n
  <2>1. T # {}
    BY <1>8, FS_EmptySet
  <2>2. PICK g \in T : \A y \in T : g <= y
    <3>1. T \subseteq 1..m
      BY <1>5
    <3>2. QED
      BY <2>1, <3>1, GreatestAndLeast
  <2>3. T \subseteq Newer(g, S) \cup {g}
    BY <1>1, <1>5, <2>2 DEF Newer
  <2>4. /\ g \in S /\ IsFiniteSet(Newer(g, S))
        /\ Cardinality(Newer(g, S)) \in Nat /\ Cardinality(Newer(g, S)) < n
    BY <1>2, <1>3, <1>5
  <2>5. g \notin Newer(g, S)
    BY <1>1, <2>4 DEF Newer
  <2>6. /\ IsFiniteSet(Newer(g, S) \cup {g})
        /\ Cardinality(Newer(g, S) \cup {g}) = Cardinality(Newer(g, S)) + 1
    BY <2>4, <2>5, FS_AddElement
  <2>7. Cardinality(T) <= Cardinality(Newer(g, S)) + 1
    BY <2>3, <2>6, FS_Subset
  <2>8. QED
    BY <1>8, <2>4, <2>7
<1>10. \A x \in T : x > e
  <2>1. e <= f /\ e \in Nat /\ f \in Nat
    BY <1>1, <1>5, <1>6
  <2>2. \A x \in T : x \in Nat /\ x > f
    BY <1>1, <1>7 DEF Newer
  <2>3. QED
    BY <2>1, <2>2
<1>11. QED
  BY <1>8, <1>9, <1>10 DEF T

-----------------------------------------------------------------------------
(* What is marked as sent is covered by a digest *)

\* With the digest under way: it covers what waited when it was read, and once
\* it is sent it is among the digests.
Covered ==
  /\ \A e \in DOMAIN event : event[e].sent =>
       \E d \in digests : d.tenant = Owner[event[e].list] /\ CoveredBy(e, d)
  /\ pc \in {"send", "mark"} =>
       \A e \in Unsent(mail.tenant) : e <= mail.upto => CoveredBy(e, mail)
  /\ pc = "mark" => mail \in digests

LEMMA EventTypes ==
  ASSUME Known, NEW e \in DOMAIN event
  PROVE  /\ e \in 1..written /\ e \in Nat /\ written \in Nat
         /\ event[e] \in EventRow /\ Owner[event[e].list] \in Tenants
  BY NotificationsAssumption
  DEF Known, TypeOK, EventRow, NotificationsAssumption

LEMMA OnwardCovered == ASSUME Known, Known', Covered, Onward PROVE Covered'
<1>1. ASSUME NEW e \in DOMAIN event', event'[e].sent
      PROVE  \E d \in digests' : d.tenant = Owner[event'[e].list] /\ CoveredBy(e, d)
  BY <1>1 DEF Onward, Covered
<1>2. ASSUME pc' \in {"send", "mark"}, NEW e \in Unsent(mail.tenant)',
             e <= mail'.upto
      PROVE  CoveredBy(e, mail)'
  <2>1. UNCHANGED <<pc, mail>>
    BY <1>2 DEF Onward
  <2>2. mail.upto \in Nat /\ mail.upto <= written /\ written \in Nat
    BY <1>2, <2>1 DEF Known, TypeOK, Dated, Digest
  <2>3. e \in DOMAIN event' /\ ~event'[e].sent
        /\ Owner[event'[e].list] = mail.tenant
    BY <1>2, <2>1 DEF Unsent, EventsOf
  <2>4. CASE e \in DOMAIN event /\ event'[e] = event[e]
    <3>1. e \in Unsent(mail.tenant)
      BY <2>3, <2>4 DEF Unsent, EventsOf
    <3>2. QED
      BY <1>2, <2>1, <3>1 DEF Covered, CoveredBy
  <2>5. CASE written < e /\ e <= written'
    <3>1. e \in Nat
      BY <2>3, EventTypes DEF Known, TypeOK
    <3>2. QED
      BY <1>2, <2>1, <2>2, <2>5, <3>1
  <2>6. QED
    BY <2>3, <2>4, <2>5 DEF Onward
<1>3. QED
  BY <1>1, <1>2 DEF Covered, Onward

LEMMA ReadCovered ==
  ASSUME Known, Covered, NEW t \in Tenants, ReadEvents(t), pc' = "send"
  PROVE  Covered'
<1> USE DEF tables, sync, loop, requests, Go
<1>1. /\ UNCHANGED <<event, digests, written>>
      /\ mail' = Render(t, GetUnsentEventsForDigest(t))
  BY DEF ReadEvents
<1>2. /\ mail'.tenant = t /\ mail'.rows = Newest(Unsent(t), MaxPerEmail, 0)
      /\ mail'.upto = written
  BY <1>1 DEF Render, GetUnsentEventsForDigest
<1>3. ASSUME NEW e \in Unsent(t) PROVE CoveredBy(e, mail')
  <2>1. Unsent(t) \subseteq 1..written /\ written \in Nat
    BY DEF Unsent, EventsOf, Known, TypeOK
  <2>2. CASE e \in Newest(Unsent(t), MaxPerEmail, 0)
    BY <1>2, <2>2 DEF CoveredBy
  <2>3. CASE e \notin Newest(Unsent(t), MaxPerEmail, 0)
    <3>1. /\ Cardinality(mail'.rows) = MaxPerEmail
          /\ \A f \in mail'.rows : f > e
      BY <1>2, <1>3, <2>1, <2>3, NewestOf, BoundTypes
    <3>2. e <= mail'.upto
      BY <1>2, <1>3, <2>1
    <3>3. QED
      BY <3>1, <3>2 DEF CoveredBy
  <2>4. QED
    BY <2>2, <2>3
<1>4. Unsent(mail.tenant)' = Unsent(t)
  BY <1>1, <1>2 DEF Unsent, EventsOf
<1>5. QED
  BY <1>1, <1>3, <1>4 DEF Covered, CoveredBy

LEMMA SendCovered == ASSUME Known, Covered, SendEmail PROVE Covered'
<1> USE DEF tables, sync, loop, requests, Go
<1>1. UNCHANGED <<event, mail>> /\ digests' = digests \cup {mail} /\ pc = "send"
  BY DEF SendEmail
<1>2. Unsent(mail.tenant)' = Unsent(mail.tenant)
  BY <1>1 DEF Unsent, EventsOf
<1>3. QED
  BY <1>1, <1>2 DEF Covered, CoveredBy

LEMMA MarkCovered == ASSUME Known, Covered, Mark PROVE Covered'
<1> USE DEF tables, sync, loop, requests, Go
<1>1. pc' = "digests" /\ pc = "mark" /\ UNCHANGED written
  BY DEF Mark
<1>2. CASE UNCHANGED <<event, digests>>
  BY <1>1, <1>2 DEF Covered
<1> DEFINE marked(d) == IF d = mail THEN [d EXCEPT !.marked = written] ELSE d
<1>3. CASE /\ MarkAllEventsSent(mail.tenant)
           /\ digests' = {marked(d) : d \in digests}
  <2>1. /\ mail \in digests /\ mail \in Digest /\ mail.marked = 0
        /\ mail.upto \in Nat /\ written \in Nat
    BY <1>1 DEF Covered, Known, Dated, Digest, TypeOK
  <2>2. /\ marked(mail).marked = written /\ marked(mail).tenant = mail.tenant
        /\ marked(mail).rows = mail.rows /\ marked(mail).upto = mail.upto
    BY <2>1 DEF Digest
  <2>3. ASSUME NEW d \in digests, NEW e \in Nat, CoveredBy(e, d)
        PROVE  CoveredBy(e, marked(d)) /\ marked(d).tenant = d.tenant
    <3>1. CASE d # mail
      BY <2>3, <3>1
    <3>2. CASE d = mail
      <4>1. ~(d.upto < e /\ e <= d.marked)
        BY <2>1, <2>3, <3>2
      <4>2. QED
        BY <2>2, <2>3, <3>2, <4>1 DEF CoveredBy
    <3>3. QED
      BY <3>1, <3>2
  <2>4. ASSUME NEW e \in DOMAIN event', event'[e].sent
        PROVE  \E d \in digests' : d.tenant = Owner[event'[e].list] /\ CoveredBy(e, d)
    <3>1. e \in DOMAIN event /\ event'[e].list = event[e].list
      BY <1>3, <2>4, EventTypes DEF MarkAllEventsSent, EventRow
    <3>2. e \in Nat /\ e <= written
      BY <3>1, EventTypes
    <3>3. CASE event[e].sent
      <4>1. PICK d \in digests : d.tenant = Owner[event[e].list] /\ CoveredBy(e, d)
        BY <3>1, <3>3 DEF Covered
      <4>2. marked(d) \in digests' /\ CoveredBy(e, marked(d))
            /\ marked(d).tenant = d.tenant
        BY <1>3, <2>3, <3>2, <4>1
      <4>3. QED
        BY <3>1, <4>1, <4>2
    <3>4. CASE ~event[e].sent
      <4>1. e \in EventsOf(mail.tenant)
        BY <1>3, <2>4, <3>1, <3>4 DEF MarkAllEventsSent
      <4>2. Owner[event[e].list] = mail.tenant
        BY <4>1 DEF EventsOf
      <4>3. CoveredBy(e, marked(mail))
        <5>1. CASE e <= mail.upto
          <6>1. CoveredBy(e, mail)
            BY <1>1, <3>4, <4>1, <5>1 DEF Covered, Unsent
          <6>2. QED
            BY <2>1, <2>3, <3>2, <6>1
        <5>2. CASE mail.upto < e
          BY <2>2, <3>2, <5>2 DEF CoveredBy
        <5>3. QED
          BY <2>1, <3>2, <5>1, <5>2
      <4>4. marked(mail) \in digests'
        BY <1>3, <2>1
      <4>5. QED
        BY <2>2, <3>1, <4>2, <4>3, <4>4
    <3>5. QED
      BY <3>3, <3>4
  <2>5. QED
    BY <1>1, <2>4 DEF Covered
<1>4. QED
  BY <1>2, <1>3 DEF Mark

\* No event is marked as sent but for a digest of its own tenant that the mail
\* provider has accepted (MarkAllEventsSent, sendOneDigest).
THEOREM SentEventsAreCovered == Spec => []SentIsCovered
<1>1. Init => Known /\ Covered
  <2>1. Init => Covered
    BY DEF Init, Covered
  <2>2. QED
    BY <2>1, KnownInit
<1>2. Known /\ Covered /\ [Next]_vars => (Known /\ Covered)'
  BY KnownStep, StepKinds, OnwardCovered, ReadCovered, SendCovered, MarkCovered
<1>3. Known /\ Covered => SentIsCovered
  BY DEF Known, Covered, SentIsCovered
<1>4. QED
  BY <1>1, <1>2, <1>3, PTL DEF Spec

-----------------------------------------------------------------------------
(* What is mailed again has been paid for *)

Copies(e) == {d \in digests : e \in d.rows}

\* An event that waits has been mailed no more often than calls have failed, but
\* for the digest that waits to be marked; the events of the digest under way are
\* all of its tenant.
PaidFor ==
  /\ pc \in {"send", "mark"} =>
       \A e \in mail.rows \cap DOMAIN event : e \in EventsOf(mail.tenant)
  /\ pc = "send" => \A e \in mail.rows : Cardinality(Copies(e)) <= slips
  /\ \A e \in 1..written : Cardinality(Copies(e)) <= 1 + slips
  /\ \A e \in DOMAIN event : ~event[e].sent =>
       \/ Cardinality(Copies(e)) <= slips
       \/ pc = "mark" /\ e \in mail.rows

LEMMA CopiesTypes ==
  ASSUME Known, NEW e
  PROVE  /\ IsFiniteSet(Copies(e)) /\ Cardinality(Copies(e)) \in Nat
         /\ slips \in Nat /\ written \in Nat
  BY FS_Subset, FS_CardinalityType DEF Known, Copies, TypeOK

\* An event that is not written yet is in no digest.
LEMMA CopiesOfNone ==
  ASSUME Known, NEW e \in Nat, written < e
  PROVE  Cardinality(Copies(e)) = 0
<1>1. ASSUME NEW d \in digests, e \in d.rows PROVE FALSE
  <2>1. d.rows \subseteq 1..d.upto /\ d.upto <= written /\ d.upto \in Nat
        /\ written \in Nat
    BY DEF Known, Dated, Digest, TypeOK
  <2>2. e <= d.upto
    BY <1>1, <2>1
  <2>3. QED
    BY <2>1, <2>2
<1>2. Copies(e) = {}
  BY <1>1 DEF Copies
<1>3. QED
  BY <1>2, FS_EmptySet

LEMMA OnwardPaidFor == ASSUME Known, Known', PaidFor, Onward PROVE PaidFor'
<1>1. /\ slips \in Nat /\ slips' \in Nat /\ slips <= slips'
      /\ written \in Nat /\ written' \in Nat /\ written <= written'
  BY DEF Onward, Known, TypeOK
<1>2. \A e : Copies(e)' = Copies(e) /\ Cardinality(Copies(e)) \in Nat
  BY CopiesTypes DEF Onward, Copies
<1>3. ASSUME pc' \in {"send", "mark"}, NEW e \in mail'.rows \cap DOMAIN event'
      PROVE  e \in EventsOf(mail.tenant)'
  <2>1. UNCHANGED <<pc, mail>>
    BY <1>3 DEF Onward
  <2>2. /\ mail.rows \subseteq 1..mail.upto /\ mail.upto <= written
        /\ mail.upto \in Nat
    BY <1>3, <2>1 DEF Known, Dated, Digest
  <2>3. e <= mail.upto /\ e \in Nat
    BY <1>3, <2>1, <2>2
  <2>4. e \in DOMAIN event /\ event'[e] = event[e]
    BY <1>1, <1>3, <2>2, <2>3 DEF Onward
  <2>5. e \in EventsOf(mail.tenant)
    BY <1>3, <2>1, <2>4 DEF PaidFor
  <2>6. QED
    BY <1>3, <2>1, <2>4, <2>5 DEF EventsOf
<1>4. ASSUME pc' = "send", NEW e \in mail'.rows
      PROVE  Cardinality(Copies(e)') <= slips'
  <2>1. UNCHANGED <<pc, mail>>
    BY <1>4 DEF Onward
  <2>2. QED
    BY <1>1, <1>2, <1>4, <2>1 DEF PaidFor
<1>5. ASSUME NEW e \in 1..written' PROVE Cardinality(Copies(e)') <= 1 + slips'
  <2>1. CASE e \in 1..written
    BY <1>1, <1>2, <2>1 DEF PaidFor
  <2>2. CASE written < e
    BY <1>1, <1>2, <2>2, CopiesOfNone
  <2>3. QED
    BY <1>1, <2>1, <2>2
<1>6. ASSUME NEW e \in DOMAIN event', ~event'[e].sent
      PROVE  \/ Cardinality(Copies(e)') <= slips'
             \/ pc' = "mark" /\ e \in mail'.rows
  <2>1. CASE e \in DOMAIN event /\ event'[e] = event[e]
    <3>1. e \in 1..written
      BY <2>1, EventTypes
    <3>2. CASE Cardinality(Copies(e)) <= slips
      BY <1>1, <1>2, <3>2
    <3>3. CASE pc = "mark" /\ e \in mail.rows
      <4>1. CASE UNCHANGED <<pc, mail>>
        BY <3>3, <4>1
      <4>2. CASE slips < slips'
        BY <1>1, <1>2, <3>1, <4>2 DEF PaidFor
      <4>3. QED
        BY <3>3, <4>1, <4>2 DEF Onward
    <3>4. QED
      BY <1>6, <2>1, <3>2, <3>3 DEF PaidFor
  <2>2. CASE written < e /\ e <= written'
    <3>1. e \in Nat
      BY <1>6, EventTypes DEF Known, TypeOK
    <3>2. QED
      BY <1>1, <1>2, <2>2, <3>1, CopiesOfNone
  <2>3. QED
    BY <1>6, <2>1, <2>2 DEF Onward
<1>7. QED
  BY <1>3, <1>4, <1>5, <1>6 DEF PaidFor

LEMMA ReadPaidFor ==
  ASSUME Known, PaidFor, NEW t \in Tenants, ReadEvents(t), pc' = "send"
  PROVE  PaidFor'
<1> USE DEF tables, sync, loop, requests, Go
<1>1. UNCHANGED <<event, digests, written, slips>> /\ pc = "digests"
      /\ mail' = Render(t, GetUnsentEventsForDigest(t))
  BY DEF ReadEvents, Known, TypeOK, Slip
<1>2. mail'.tenant = t /\ mail'.rows \subseteq Unsent(t)
  BY <1>1 DEF Render, GetUnsentEventsForDigest, Newest
<1>3. \A e : Copies(e)' = Copies(e)
  BY <1>1 DEF Copies
<1>4. \A e \in Unsent(t) : /\ e \in DOMAIN event /\ e \in EventsOf(t)
                          /\ Cardinality(Copies(e)) <= slips
  BY <1>1 DEF PaidFor, Unsent, EventsOf
<1>5. EventsOf(mail.tenant)' = EventsOf(t)
  BY <1>1, <1>2 DEF EventsOf
<1>6. QED
  BY <1>1, <1>2, <1>3, <1>4, <1>5 DEF PaidFor

LEMMA SendPaidFor == ASSUME Known, PaidFor, SendEmail PROVE PaidFor'
<1> USE DEF tables, sync, loop, requests, Go
<1>1. /\ UNCHANGED <<event, written, mail, slips>> /\ digests' = digests \cup {mail}
      /\ pc = "send" /\ pc' = "mark"
  BY DEF SendEmail
<1>2. \A e : e \notin mail.rows => Copies(e)' = Copies(e)
  BY <1>1 DEF Copies
<1>3. ASSUME NEW e \in mail.rows PROVE Cardinality(Copies(e)') <= 1 + slips
  <2>1. Copies(e)' = Copies(e) \cup {mail}
    BY <1>1 DEF Copies
  <2>2. IsFiniteSet(Copies(e)) /\ Cardinality(Copies(e)) \in Nat /\ slips \in Nat
    BY CopiesTypes
  <2>3. Cardinality(Copies(e) \cup {mail}) =
          IF mail \in Copies(e) THEN Cardinality(Copies(e)) ELSE Cardinality(Copies(e)) + 1
    BY <2>2, FS_AddElement
  <2>4. Cardinality(Copies(e)) <= slips
    BY <1>1 DEF PaidFor
  <2>5. QED
    BY <2>1, <2>2, <2>3, <2>4
<1>4. EventsOf(mail.tenant)' = EventsOf(mail.tenant)
  BY <1>1 DEF EventsOf
<1>5. QED
  BY <1>1, <1>2, <1>3, <1>4 DEF PaidFor

LEMMA MarkPaidFor == ASSUME Known, PaidFor, Mark PROVE PaidFor'
<1> USE DEF tables, sync, loop, requests, Go
<1>1. pc' = "digests" /\ pc = "mark" /\ UNCHANGED written
  BY DEF Mark
<1>2. CASE UNCHANGED <<event, digests>> /\ Slip
  <2>1. \A e : Copies(e)' = Copies(e) /\ Cardinality(Copies(e)) \in Nat
    BY <1>2, CopiesTypes DEF Copies
  <2>2. slips \in Nat /\ slips' = slips + 1
    BY <1>2 DEF Known, TypeOK, Slip
  <2>3. \A e \in DOMAIN event : e \in 1..written
    BY EventTypes
  <2>4. \A e \in 1..written : Cardinality(Copies(e)) <= slips'
    BY <2>1, <2>2 DEF PaidFor
  <2>5. QED
    BY <1>1, <1>2, <2>1, <2>2, <2>3, <2>4 DEF PaidFor
<1> DEFINE marked(d) == IF d = mail THEN [d EXCEPT !.marked = written] ELSE d
<1>3. CASE /\ MarkAllEventsSent(mail.tenant) /\ UNCHANGED slips
           /\ digests' = {marked(d) : d \in digests}
  <2>1. \A d \in digests : marked(d).rows = d.rows
    BY DEF Known, Dated, Digest
  <2>2. ASSUME NEW e PROVE Cardinality(Copies(e)') <= Cardinality(Copies(e))
    <3>1. Copies(e)' = {marked(d) : d \in Copies(e)}
      BY <1>3, <2>1 DEF Copies
    <3>2. [d \in Copies(e) |-> marked(d)] \in Surjection(Copies(e), Copies(e)')
      BY <3>1 DEF Surjection
    <3>3. QED
      BY <3>2, CopiesTypes, FS_Surjection
  <2>3. \A e : /\ Cardinality(Copies(e)) \in Nat /\ slips \in Nat
              /\ Cardinality(Copies(e)') \in Nat
    <3>1. \A e : Cardinality(Copies(e)) \in Nat /\ slips \in Nat
      BY CopiesTypes
    <3>2. Known'
      BY KnownStep DEF Next, Digesting
    <3>3. \A e : IsFiniteSet(Copies(e)')
      BY <3>2, FS_Subset DEF Known, Copies
    <3>4. QED
      BY <3>1, <3>3, FS_CardinalityType
  <2>4. ASSUME NEW e \in DOMAIN event', ~event'[e].sent
        PROVE  Cardinality(Copies(e)') <= slips
    <3>1. e \in DOMAIN event /\ e \notin EventsOf(mail.tenant)
          /\ event'[e] = event[e]
      BY <1>3, <2>4, EventTypes DEF MarkAllEventsSent, EventRow
    <3>2. Cardinality(Copies(e)) <= slips
      BY <1>1, <2>4, <3>1 DEF PaidFor
    <3>3. QED
      BY <2>2, <2>3, <3>2
  <2>5. \A e \in 1..written : Cardinality(Copies(e)') <= 1 + slips
    BY <2>2, <2>3 DEF PaidFor
  <2>6. QED
    BY <1>1, <1>3, <2>4, <2>5 DEF PaidFor
<1>4. QED
  BY <1>2, <1>3 DEF Mark

\* An event is mailed again only for a failed mark or a restart
\* (sendOneDigest).
THEOREM RepeatsArePaid == Spec => []RepeatsArePaidFor
<1>1. Init => PaidFor
  BY DEF Init, PaidFor
<1>2. Known /\ PaidFor /\ [Next]_vars => PaidFor'
  BY KnownStep, StepKinds, OnwardPaidFor, ReadPaidFor, SendPaidFor, MarkPaidFor
<1>3. Known /\ PaidFor => RepeatsArePaidFor
  BY DEF PaidFor, RepeatsArePaidFor, Copies
<1>4. QED
  BY <1>1, <1>2, <1>3, KnownInit, KnownStep, PTL DEF Spec

-----------------------------------------------------------------------------
(* Days of the week *)

LEMMA DivMod ==
  ASSUME NEW a \in Nat, NEW n \in Nat \ {0}
  PROVE  /\ a \div n \in Nat /\ a % n \in Nat /\ a % n < n
         /\ a = n * (a \div n) + (a % n)
<1>1. a % n \in Nat /\ a % n < n
  OBVIOUS
<1>2. a = n * (a \div n) + (a % n)
  OBVIOUS
<1>3. a \div n \in Int
  OBVIOUS
<1>4. a \div n >= 0
  OBVIOUS
<1>5. QED
  BY <1>1, <1>2, <1>3, <1>4

LEMMA Times ==
  ASSUME NEW a \in Nat, NEW b \in Nat, NEW n \in Nat, a <= b
  PROVE  n * a <= n * b
  OBVIOUS
\* Two moments on the same day of the week that are a day apart are further apart
\* than the days between.
LEMMA WeekLater ==
  ASSUME NEW a \in Nat, NEW b \in Nat, NEW day \in Nat \ {0}, NEW week \in Nat \ {0},
         b - a >= day, (a \div day) % week = (b \div day) % week
  PROVE  b - a > (week - 1) * day
<1> DEFINE p == a \div day
           q == b \div day
           k == p \div week
           l == q \div week
<1>1. /\ p \in Nat /\ a % day \in Nat /\ a % day < day /\ a = day * p + (a % day)
      /\ q \in Nat /\ b % day \in Nat /\ b % day < day /\ b = day * q + (b % day)
  BY DivMod
<1>2. /\ k \in Nat /\ p % week \in Nat /\ p % week < week /\ p = week * k + (p % week)
      /\ l \in Nat /\ q % week \in Nat /\ q % week < week /\ q = week * l + (q % week)
  BY <1>1, DivMod
<1>3. p % week = q % week
  OBVIOUS
<1> HIDE DEF p, q, k, l
<1>4. p < q
  <2>1. SUFFICES ASSUME q <= p PROVE FALSE
    BY <1>1
  <2>2. day * q <= day * p
    BY <1>1, <2>1, Times
  <2>3. day * q \in Nat /\ day * p \in Nat
    BY <1>1
  <2>4. QED
    BY <1>1, <2>2, <2>3
<1>5. k < l
  <2>1. SUFFICES ASSUME l <= k PROVE FALSE
    BY <1>2
  <2>2. week * l <= week * k
    BY <1>2, <2>1, Times
  <2>3. week * l \in Nat /\ week * k \in Nat
    BY <1>2
  <2>4. QED
    BY <1>1, <1>2, <1>3, <1>4, <2>2, <2>3
<1>6. q - p >= week
  <2>1. week * (k + 1) <= week * l
    BY <1>2, <1>5, Times
  <2>2. week * (k + 1) = week * k + week
    BY <1>2
  <2>3. week * l \in Nat /\ week * k \in Nat
    BY <1>2
  <2>4. QED
    BY <1>1, <1>2, <1>3, <2>1, <2>2, <2>3
<1>7. day * (q - p) >= day * week
  BY <1>1, <1>6, Times
<1>8. QED
  <2>1. day * (q - p) = day * q - day * p
    BY <1>1
  <2>2. (week - 1) * day = day * week - day
    OBVIOUS
  <2>3. day * q \in Nat /\ day * p \in Nat /\ day * week \in Nat
    BY <1>1
  <2>4. QED
    BY <1>1, <1>7, <2>1, <2>2, <2>3

-----------------------------------------------------------------------------
(* A tenant's digests are a week apart *)

Sweeping == {"digests", "send", "mark"}

\* Without failures, what has been sent was sent before the latest sweep that was
\* saved, or in this one to a tenant that is not visited again; and always on the
\* day of its tenant.
Weekly ==
  slips = 0 =>
    /\ \A d \in digests :
         /\ DigestDay[d.tenant] = (d.at \div Day) % WeekDays
         /\ \/ d.at <= lastSweep
            \/ /\ pc \in Sweeping /\ d.tenant \notin todo
               /\ pc = "send" => d.tenant # mail.tenant
    /\ pc \in Sweeping => LongAgo(lastSweep)
    /\ pc \in {"send", "mark"} => mail.tenant \notin todo
    /\ pc = "send" => DigestDay[mail.tenant] = Today
    /\ \A c, d \in digests :
         c.tenant = d.tenant /\ c.no < d.no => d.at - c.at > (WeekDays - 1) * Day

\* What the steps do that have no part in a sweep, and those of a sweep that skip a
\* tenant.
Aside ==
  /\ UNCHANGED <<digests, lastSweep, now>>
  /\ slips' = 0 =>
       /\ slips = 0
       /\ \/ pc \notin Sweeping /\ pc' \notin Sweeping
          \/ UNCHANGED <<pc, mail>> /\ todo' \subseteq todo

LEMMA AsideWeekly == ASSUME Weekly, Aside PROVE Weekly'
<1>1. SUFFICES ASSUME slips' = 0 PROVE Weekly'
  BY DEF Weekly
<1>2. CASE pc \notin Sweeping /\ pc' \notin Sweeping
  BY <1>1, <1>2 DEF Weekly, Aside, Sweeping, Today, LongAgo
<1>3. CASE UNCHANGED <<pc, mail>> /\ todo' \subseteq todo
  BY <1>1, <1>3 DEF Weekly, Aside, Sweeping, Today, LongAgo
<1>4. QED
  BY <1>1, <1>2, <1>3 DEF Aside

LEMMA AsideSteps ==
  ASSUME Known, [Next]_vars
  PROVE  \/ Aside \/ Sweep \/ SendEmail \/ Mark \/ SaveSweep \/ Tick
         \/ \E t \in Tenants : ReadEvents(t) /\ pc' = "send"
<1> USE DEF tables, sync, loop, requests, Go
<1>1. Slip => slips' # 0
  BY DEF Slip, Known, TypeOK
<1>2. ASSUME NEW w \in Watchlists, AddWatchlist(w) PROVE Aside
  BY <1>2 DEF AddWatchlist, Aside
<1>3. ASSUME NEW w \in Watchlists, AddWatchlistInsert(w) PROVE Aside
  BY <1>3 DEF AddWatchlistInsert, Aside
<1>4. ASSUME NEW w \in Watchlists, DeleteWatchlist(w) PROVE Aside
  BY <1>4 DEF DeleteWatchlist, Aside
<1>5. ASSUME NEW w \in Watchlists, ToggleWatchlistEmail(w) PROVE Aside
  BY <1>5 DEF ToggleWatchlistEmail, Aside
<1>6. ASSUME NEW w \in Watchlists, EnsureImplicitWatchlist(w) PROVE Aside
  BY <1>6 DEF EnsureImplicitWatchlist, Aside
<1>7. ASSUME NEW t \in Tenants, DigestUnsubscribe(t) PROVE Aside
  BY <1>7 DEF DigestUnsubscribe, Aside
<1>8. CASE GradeChanged
  BY <1>8 DEF GradeChanged, Aside
<1>9. ASSUME NEW w \in Watchlists, TellGrade(w) PROVE Aside
  BY <1>9 DEF TellGrade, Aside
<1>10. ASSUME NEW w \in Watchlists, TellGradeFails(w) PROVE Aside
  <2>1. slips' = 0 => slips = 0
    BY <1>1, <1>10 DEF TellGradeFails
  <2>2. QED
    BY <1>10, <2>1 DEF TellGradeFails, Aside
<1>11. CASE StartRun \/ NewcomerTold \/ HoursDone
  BY <1>11 DEF StartRun, NewcomerTold, HoursDone, Aside, Sweeping
<1>12. ASSUME NEW M \in SUBSET Watchlists, NEW a \in Summaries, Newcomer(M, a)
       PROVE  Aside
  BY <1>12 DEF Newcomer, Aside, Sweeping
<1>13. ASSUME NEW w \in Watchlists, TellNewcomer(w) PROVE Aside
  BY <1>13 DEF TellNewcomer, Aside
<1>14. ASSUME NEW w \in Watchlists, TellNewcomerNot(w) PROVE Aside
  <2>1. slips' = 0 => slips = 0
    BY <1>1, <1>14 DEF TellNewcomerNot
  <2>2. QED
    BY <1>14, <2>1 DEF TellNewcomerNot, Aside
<1>15. CASE SkipSweep
  BY <1>1, <1>15 DEF SkipSweep, Aside, Sweeping
<1>16. CASE SendFails
  BY <1>1, <1>16 DEF SendFails, Aside
<1>17. ASSUME NEW t \in Tenants, SkipTenant(t) PROVE Aside
  BY <1>17 DEF SkipTenant, Aside
<1>18. ASSUME NEW t \in Tenants, ReadEvents(t), pc' # "send" PROVE Aside
  <2>1. UNCHANGED <<mail, pc>> /\ (slips' = 0 => slips = 0)
    BY <1>1, <1>18 DEF ReadEvents
  <2>2. QED
    BY <1>18, <2>1 DEF ReadEvents, Aside
<1>19. CASE SkipPrune
  BY <1>1, <1>19 DEF SkipPrune, Aside, Sweeping
<1>20. CASE Prune
  BY <1>20 DEF Prune, Aside, Sweeping
<1>21. ASSUME NEW t \in Tenants, PruneTenant(t) PROVE Aside
  <2>1. slips' = 0 => slips = 0
    BY <1>1, <1>21 DEF PruneTenant
  <2>2. QED
    BY <1>21, <2>1 DEF PruneTenant, Aside
<1>22. CASE SavePrune
  BY <1>1, <1>22 DEF SavePrune, Aside, Sweeping
<1>23. CASE Restart
  BY <1>1, <1>23 DEF Restart, Aside
<1>24. CASE UNCHANGED vars
  BY <1>24 DEF vars, Aside
<1>25. CASE Requests \/ Scoring
  BY <1>2, <1>3, <1>4, <1>5, <1>6, <1>7, <1>8, <1>9, <1>10, <1>25 DEF Requests, Scoring
<1>26. CASE Announcing
  BY <1>11, <1>12, <1>13, <1>14, <1>26 DEF Announcing
<1>27. CASE Digesting
  BY <1>15, <1>16, <1>17, <1>18, <1>27 DEF Digesting
<1>28. CASE Pruning
  BY <1>19, <1>20, <1>21, <1>22, <1>28 DEF Pruning
<1>29. QED
  BY <1>23, <1>24, <1>25, <1>26, <1>27, <1>28 DEF Next

LEMMA DigestTypes ==
  ASSUME Known, NEW d \in digests
  PROVE  /\ d \in Digest /\ d.at \in Nat /\ d.no \in Nat /\ d.at <= now
         /\ now \in Nat /\ lastSweep \in Int /\ d.no <= Cardinality(digests)
  BY DEF Known, Dated, Digest, TypeOK, Never

LEMMA ReadWeekly ==
  ASSUME Known, Weekly, NEW t \in Tenants, ReadEvents(t), pc' = "send"
  PROVE  Weekly'
<1> USE DEF tables, sync, loop, requests, Go
<1>1. /\ UNCHANGED <<digests, lastSweep, now, slips>> /\ pc = "digests"
      /\ t \in todo /\ todo' = todo \ {t} /\ mail'.tenant = t
      /\ DigestDay[t] = Today
  BY DEF ReadEvents, Known, TypeOK, Slip, Render, ServedToday
<1>2. QED
  BY <1>1 DEF Weekly, Sweeping, Today, LongAgo

LEMMA SendWeekly == ASSUME Known, Weekly, SendEmail PROVE Weekly'
<1> USE DEF tables, sync, loop, requests, Go
<1>1. /\ UNCHANGED <<now, lastSweep, todo, mail, slips>> /\ pc = "send" /\ pc' = "mark"
      /\ digests' = digests \cup {mail}
  BY DEF SendEmail
<1>2. SUFFICES ASSUME slips = 0 PROVE Weekly'
  BY <1>1 DEF Weekly
<1>3. /\ mail \in Digest /\ mail.at = now /\ mail.no = Cardinality(digests) + 1
      /\ Cardinality(digests) \in Nat /\ mail.no \in Nat
  BY <1>1, DigestCount DEF Known, Dated, Digest
<1>4. /\ \A d \in digests' : DigestDay[d.tenant] = (d.at \div Day) % WeekDays
      /\ LongAgo(lastSweep) /\ mail.tenant \notin todo
  BY <1>1, <1>2, <1>3 DEF Weekly, Today, Sweeping
<1>5. ASSUME NEW c \in digests, c.tenant = mail.tenant
      PROVE  mail.at - c.at > (WeekDays - 1) * Day
  <2>1. c.at <= lastSweep
    BY <1>1, <1>2, <1>5 DEF Weekly
  <2>2. mail.at - c.at >= Day
    BY <1>3, <1>4, <2>1, DigestTypes, BoundTypes DEF LongAgo, Never
  <2>3. (c.at \div Day) % WeekDays = (mail.at \div Day) % WeekDays
    BY <1>1, <1>4, <1>5
  <2>4. QED
    BY <1>3, <2>2, <2>3, DigestTypes, BoundTypes, WeekLater
<1>6. ASSUME NEW c \in digests', NEW d \in digests', c.tenant = d.tenant, c.no < d.no
      PROVE  d.at - c.at > (WeekDays - 1) * Day
  <2>1. CASE c \in digests /\ d \in digests
    BY <1>2, <1>6, <2>1 DEF Weekly
  <2>2. CASE d = mail
    <3>1. c \in digests
      BY <1>1, <1>3, <1>6, <2>2
    <3>2. QED
      BY <1>5, <1>6, <2>2, <3>1
  <2>3. CASE c = mail /\ d \in digests
    BY <1>3, <1>6, <2>3, DigestTypes
  <2>4. QED
    BY <1>1, <2>1, <2>2, <2>3
<1>7. QED
  BY <1>1, <1>2, <1>4, <1>6 DEF Weekly, Sweeping, LongAgo

LEMMA MarkWeekly == ASSUME Known, Weekly, Mark PROVE Weekly'
<1> USE DEF tables, sync, loop, requests, Go
<1>1. pc' = "digests" /\ pc = "mark" /\ UNCHANGED <<now, lastSweep, todo>>
  BY DEF Mark
<1>2. CASE Slip
  BY <1>2 DEF Weekly, Slip, Known, TypeOK
<1> DEFINE marked(d) == IF d = mail THEN [d EXCEPT !.marked = written] ELSE d
<1>3. CASE UNCHANGED slips /\ digests' = {marked(d) : d \in digests}
  <2>1. \A d \in digests : /\ marked(d).tenant = d.tenant /\ marked(d).at = d.at
                           /\ marked(d).no = d.no
    BY DigestTypes DEF Digest
  <2>2. \A e \in digests' : \E d \in digests :
          e.tenant = d.tenant /\ e.at = d.at /\ e.no = d.no
    BY <1>3, <2>1
  <2>3. SUFFICES ASSUME slips = 0 PROVE Weekly'
    BY <1>3 DEF Weekly
  <2>4. ASSUME NEW c \in digests', NEW d \in digests', c.tenant = d.tenant, c.no < d.no
        PROVE  d.at - c.at > (WeekDays - 1) * Day
    BY <2>2, <2>3, <2>4 DEF Weekly
  <2>5. ASSUME NEW e \in digests'
        PROVE  /\ DigestDay[e.tenant] = (e.at \div Day) % WeekDays
               /\ e.at <= lastSweep \/ e.tenant \notin todo
    BY <2>2, <2>3, <2>5 DEF Weekly
  <2>6. QED
    BY <1>1, <1>3, <2>3, <2>4, <2>5 DEF Weekly, Sweeping, LongAgo
<1>4. QED
  BY <1>2, <1>3 DEF Mark

LEMMA WeeklyStep == ASSUME Known, Weekly, [Next]_vars PROVE Weekly'
<1> USE DEF tables, sync, loop, requests, Go
<1>1. CASE Sweep
  BY <1>1 DEF Sweep, Weekly, Sweeping, LongAgo
<1>2. CASE SaveSweep
  <2>1. CASE Slip
    BY <2>1 DEF Weekly, Slip, Known, TypeOK
  <2>2. CASE lastSweep' = now /\ UNCHANGED slips
    BY <1>2, <2>2, DigestTypes DEF SaveSweep, Weekly, Sweeping
  <2>3. QED
    BY <1>2, <2>1, <2>2 DEF SaveSweep
<1>3. CASE Tick
  BY <1>3 DEF Tick, Weekly, Sweeping
<1>4. QED
  BY <1>1, <1>2, <1>3, AsideSteps, AsideWeekly, ReadWeekly, SendWeekly, MarkWeekly

\* Without failures a tenant gets no two digests within the week between its
\* days (maybeSendDigests, digestDay).
THEOREM DigestsWeekApart == Spec => []DigestsAWeekApart
<1>1. Init => Weekly
  BY DEF Init, Weekly, Sweeping
<1>2. Weekly => DigestsAWeekApart
  BY DEF Weekly, DigestsAWeekApart
<1>3. QED
  BY <1>1, <1>2, KnownInit, KnownStep, WeeklyStep, PTL DEF Spec

=============================================================================
