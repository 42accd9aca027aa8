------------------------------ MODULE Installations ------------------------------
(***************************************************************************)
(* What the store knows of the GitHub App's installations: the webhook     *)
(* that records them (pkg/server/handler_webhook.go), the rows it writes   *)
(* (pkg/tenant/installation.go) and the implicit watchlist that comes with *)
(* one.  GitHub delivers each event once and does not repeat a delivery    *)
(* that was answered 500, unless someone asks for a redelivery.  The token *)
(* pool is filled from the active rows (TokenPool).                        *)
(***************************************************************************)
EXTENDS Integers, FiniteSets, Sequences

CONSTANTS
  InstallIds,   \* installations of our app; an id is never used twice
  Owners,       \* GitHub users that install it, tenants or not
  MaxEvents,    \* bound: events GitHub sends
  MaxTroubles   \* bound: failed or repeated or overtaken deliveries, deletions

ASSUME InstallationsAssumption == MaxEvents \in Nat /\ MaxTroubles \in Nat

VARIABLES
  truth,       \* at GitHub an installation is absent, active, suspended or gone
  owner,       \* who installed it, the sender of its "created"
  mail,        \* events on their way, in the order they were sent
  row,         \* devtrace_app_installation: absent, active or suspended
  belongs,     \* its tenant_id
  registered,  \* the tenants
  implicit,    \* the implicit watchlists, by tenant and the installation's login
  creating,    \* how far the handler of a "created" has come
  orphaned,    \* installations whose handler holds a tenant that was deleted since
  signal,      \* installNotify, the channel of one place
  missed,      \* ghost: installations with an event lost, late or repeated
  sent, troubles

installVars == <<truth, owner, mail, row, belongs, registered, implicit, creating,
                 orphaned, signal, missed, sent, troubles>>

Event == [about : InstallIds, action : {"created", "suspend", "unsuspend", "deleted"}]

InstallInit ==
  /\ truth = [i \in InstallIds |-> "absent"] /\ row = truth
  /\ owner \in [InstallIds -> Owners] /\ belongs = owner
  /\ mail = <<>> /\ registered \in SUBSET Owners /\ implicit = {}
  /\ creating = [i \in InstallIds |-> "no"] /\ orphaned = {}
  /\ signal = FALSE /\ missed = {} /\ sent = 0 /\ troubles = 0

-----------------------------------------------------------------------------
(* GitHub *)

Change(i, from, to, action) ==
  /\ truth[i] = from /\ truth' = [truth EXCEPT ![i] = to]
  /\ sent < MaxEvents /\ sent' = sent + 1
  /\ mail' = Append(mail, [about |-> i, action |-> action])
  /\ UNCHANGED <<owner, row, belongs, registered, implicit, creating, orphaned, signal,
                 missed, troubles>>

AtGitHub(i) ==
  \/ Change(i, "absent", "active", "created")
  \/ Change(i, "active", "suspended", "suspend")
  \/ Change(i, "suspended", "active", "unsuspend")
  \/ Change(i, "active", "gone", "deleted")
  \/ Change(i, "suspended", "gone", "deleted")

-----------------------------------------------------------------------------
(* handleInstallationEvent *)

Trouble == troubles < MaxTroubles /\ troubles' = troubles + 1
Miss(i) == missed' = missed \cup {i}
Notify == signal' = TRUE
Creating(i, step) == creating' = [creating EXCEPT ![i] = step]

\* GetTenantByGitHubID: a sender that is no tenant is an error, answered 500, and
\* the pool is not told.  A repeated "created" is handled after the first.
Created(i) ==
  /\ \/ owner[i] \in registered /\ Creating(i, "save") /\ UNCHANGED missed
     \/ owner[i] \notin registered /\ Miss(i) /\ UNCHANGED creating
  /\ creating[i] = "no"
  /\ UNCHANGED <<row, signal>>

\* SuspendInstallation updates the row, if there is one.  The event overtakes a
\* "created" whose row is not yet there.
Suspended(i) ==
  /\ row' = IF row[i] = "absent" THEN row ELSE [row EXCEPT ![i] = "suspended"]
  /\ IF creating[i] = "save" THEN Miss(i) ELSE UNCHANGED missed
  /\ Notify /\ UNCHANGED creating

\* Any other action is answered 200 and changes no row.
Ignored(i) == Miss(i) /\ Notify /\ UNCHANGED <<row, creating>>

HandleInstallationEvent(e) ==
  \/ e.action = "created" /\ Created(e.about)
  \/ e.action \in {"suspend", "deleted"} /\ Suspended(e.about)
  \/ e.action = "unsuspend" /\ Ignored(e.about)

WebhookHandler ==
  /\ mail # <<>> /\ mail' = Tail(mail)
  /\ HandleInstallationEvent(Head(mail))
  /\ UNCHANGED <<truth, owner, belongs, registered, implicit, orphaned, sent, troubles>>

\* SaveInstallation: the row is made, or moved to this tenant and active again.  It
\* fails for a tenant that is gone, and is answered 500.
SaveInstallation(i) ==
  /\ creating[i] = "save"
  /\ \/ /\ i \notin orphaned /\ Creating(i, "watch")
        /\ row' = [row EXCEPT ![i] = "active"]
        /\ belongs' = [belongs EXCEPT ![i] = owner[i]]
        /\ UNCHANGED <<orphaned, missed, troubles>>
     \/ /\ Trouble \/ (i \in orphaned /\ UNCHANGED troubles)
        /\ Creating(i, "no") /\ orphaned' = orphaned \ {i} /\ Miss(i)
        /\ UNCHANGED <<row, belongs>>
  /\ UNCHANGED <<truth, owner, mail, registered, implicit, signal, sent>>

\* EnsureImplicitWatchlist_Later is a seeded fault: the watchlist is left to the
\* next sign-in.
EnsureImplicitWatchlist_Later(i) ==
  /\ creating[i] = "watch" /\ Creating(i, "no") /\ orphaned' = orphaned \ {i}
  /\ Notify
  /\ UNCHANGED <<truth, owner, mail, row, belongs, registered, implicit, missed, sent,
                 troubles>>
\* EnsureImplicitWatchlist: a failure is only logged.  The pool is told.
EnsureImplicitWatchlist(i) ==
  /\ creating[i] = "watch" /\ Creating(i, "no") /\ orphaned' = orphaned \ {i}
  /\ Notify
  /\ \/ /\ i \notin orphaned /\ implicit' = implicit \cup {<<owner[i], i>>}
        /\ UNCHANGED <<missed, troubles>>
     \/ /\ Trouble \/ (i \in orphaned /\ UNCHANGED troubles)
        /\ Miss(i) /\ UNCHANGED implicit
  /\ UNCHANGED <<truth, owner, mail, row, belongs, registered, sent>>

\* A delivery that is lost, or whose statement fails: 500, and not repeated.
DeliveryFails ==
  /\ mail # <<>> /\ Trouble /\ mail' = Tail(mail)
  /\ missed' = missed \cup {Head(mail).about}
  /\ UNCHANGED <<truth, owner, row, belongs, registered, implicit, creating, orphaned,
                 signal, sent>>

\* A later event overtakes an earlier one, or an earlier one is delivered again.
Disorder ==
  /\ mail # <<>> /\ Trouble
  /\ \/ /\ Len(mail) > 1
        /\ mail' = [mail EXCEPT ![1] = mail[2], ![2] = mail[1]]
        /\ missed' = missed \cup {mail[1].about, mail[2].about}
     \/ /\ mail' = Append(mail, Head(mail))
        /\ missed' = missed \cup {Head(mail).about}
  /\ UNCHANGED <<truth, owner, row, belongs, registered, implicit, creating, orphaned,
                 signal, sent>>

-----------------------------------------------------------------------------
(* The others that meet these rows *)

\* Upsert: a user signs in for the first time.
Register(o) ==
  /\ o \notin registered /\ registered' = registered \cup {o}
  /\ UNCHANGED <<truth, owner, mail, row, belongs, implicit, creating, orphaned, signal,
                 missed, sent, troubles>>

\* DeleteTenant takes its installations and watchlists with it, and tells nobody.
DeleteTenant(o) ==
  /\ o \in registered /\ Trouble
  /\ registered' = registered \ {o}
  /\ LET Gone == {i \in InstallIds : row[i] # "absent" /\ belongs[i] = o}
     IN /\ row' = [i \in InstallIds |-> IF i \in Gone THEN "absent" ELSE row[i]]
        /\ missed' = missed \cup Gone
  /\ implicit' = {w \in implicit : w[1] # o}
  /\ orphaned' = orphaned \cup {i \in InstallIds : creating[i] # "no" /\ owner[i] = o}
  /\ UNCHANGED <<truth, owner, mail, belongs, creating, signal, sent>>

\* The refresher of the pool takes the signal and lists the active rows.
Refresh ==
  /\ signal /\ signal' = FALSE
  /\ UNCHANGED <<truth, owner, mail, row, belongs, registered, implicit, creating,
                 orphaned, missed, sent, troubles>>

InstallNext ==
  \/ \E i \in InstallIds :
       AtGitHub(i) \/ SaveInstallation(i) \/ EnsureImplicitWatchlist(i)
  \/ WebhookHandler \/ DeliveryFails \/ Disorder \/ Refresh
  \/ \E o \in Owners : Register(o) \/ DeleteTenant(o)

InstallSpec == InstallInit /\ [][InstallNext]_installVars

-----------------------------------------------------------------------------
(* Properties *)

InstallTypeOK ==
  /\ truth \in [InstallIds -> {"absent", "active", "suspended", "gone"}]
  /\ owner \in [InstallIds -> Owners] /\ belongs \in [InstallIds -> Owners]
  /\ mail \in Seq(Event) /\ row \in [InstallIds -> {"absent", "active", "suspended"}]
  /\ registered \subseteq Owners /\ implicit \subseteq Owners \X InstallIds
  /\ creating \in [InstallIds -> {"no", "save", "watch"}] /\ orphaned \subseteq InstallIds
  /\ signal \in BOOLEAN /\ missed \subseteq InstallIds
  /\ sent \in 0..MaxEvents /\ troubles \in 0..MaxTroubles

Coming(i) == \E n \in DOMAIN mail : mail[n].about = i
InFlight(i) == Coming(i) \/ creating[i] # "no"

\* Once its events have arrived and been handled, each once, in order and understood,
\* an installation is active in the store exactly when it is active at GitHub, and
\* its tenant then watches it.  An "unsuspend", which the handler ignores, counts
\* among those not understood, and what is handled before the row of its "created"
\* is there among those out of order.  (And the state has its type.)
RowsFollowGitHub ==
  /\ InstallTypeOK
  /\ \A i \in InstallIds \ missed :
       ~InFlight(i) => /\ row[i] = "active" <=> truth[i] = "active"
                       /\ row[i] = "active" => <<belongs[i], i>> \in implicit

=============================================================================
