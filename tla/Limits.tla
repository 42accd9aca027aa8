--------------------------------- MODULE Limits ---------------------------------
(***************************************************************************)
(* What a plan limits: the contributors scored in a billing period and the *)
(* API keys (pkg/server/handler_score.go, handler_token.go,                *)
(* handler_pages.go, pkg/tenant).  The middleware reads the tenant once;   *)
(* the handler counts rows, works and inserts a row, while other calls,    *)
(* the administrator and the end of the period come in between.            *)
(*                                                                         *)
(* One GitHub user is modelled, whose tenant may be deleted and made anew  *)
(* by the next sign-in.                                                    *)
(***************************************************************************)
EXTENDS Integers, FiniteSets

CONSTANTS
  Calls,           \* calls the user may have under way at a time
  Contributors,
  Plans,
  MaxContributors, \* of each plan
  MaxAPIKeys,
  DefaultPlan,     \* the plan of a new tenant
  MaxKeys,         \* bound: keys there may be
  MaxIds,          \* bound: tenants made
  MaxChanges,      \* bound: what administrators do
  MaxMisses        \* bound: statements that fail

LimitsAssumption ==
  /\ IsFiniteSet(Calls) /\ Calls # {}
  /\ IsFiniteSet(Contributors)
  /\ MaxContributors \in [Plans -> Nat \ {0}]
  /\ MaxAPIKeys \in [Plans -> Nat \ {0}]
  /\ DefaultPlan \in Plans
  /\ {MaxKeys, MaxIds, MaxChanges, MaxMisses} \subseteq Nat

VARIABLES
  tenant,   \* the user's tenant, or Nobody
  ids,      \* tenants made so far
  usage,    \* contributors recorded in the period, with the source
  keys,     \* how many API keys the tenant has
  call,     \* where each call is, with the tenant it has read
  admin,    \* the change of an administrator who has looked the tenant up
  unpaid,   \* history: contributors scored by a call that was not recorded
  misses,   \* history: statements that failed
  held,     \* history: plans in force, or in the hands of calls, in the period
  everHeld, \* history: plans in force since the tenant was made
  changes   \* bound: what administrators did

history == <<unpaid, held, everHeld, misses, changes>>
vars == <<tenant, ids, usage, keys, call, admin, history>>

Nobody == [id |-> 0]
Quiet == [at |-> "quiet", id |-> 0]

Exists == tenant # Nobody
Mine(c) == Exists /\ call[c].id = tenant.id

Miss == misses < MaxMisses /\ misses' = misses + 1

-----------------------------------------------------------------------------
(* The tenant *)

\* UpsertTenant of a sign-in: a new row has the default plan.
SignUp ==
  /\ ~Exists /\ ids < MaxIds
  /\ ids' = ids + 1
  /\ tenant' = [id |-> ids + 1, status |-> "active", plan |-> DefaultPlan,
                max |-> MaxContributors[DefaultPlan]]
  /\ usage' = {} /\ keys' = 0 /\ unpaid' = {}
  /\ held' = {DefaultPlan} /\ everHeld' = {DefaultPlan}
  /\ UNCHANGED <<call, admin, misses, changes>>

\* An administrator's form: the tenant is looked up by name ...
LookUp(change) ==
  /\ admin = Quiet /\ Exists /\ changes < MaxChanges
  /\ admin' = [at |-> change, id |-> tenant.id]
  /\ changes' = changes + 1
  /\ UNCHANGED <<tenant, ids, usage, keys, call, unpaid, misses, held, everHeld>>

\* ... and changed by its id, if that is still there.
UpdateTenantPlan(p) ==
  /\ tenant' = [tenant EXCEPT !.plan = p, !.max = MaxContributors[p]]
  /\ held' = held \cup {p}
  /\ everHeld' = everHeld \cup {p}

UpdateTenantStatus ==
  /\ tenant' = [tenant EXCEPT
                  !.status = IF @ = "active" THEN "suspended" ELSE "active"]
  /\ UNCHANGED <<held, everHeld>>

\* Usage records and keys go with the row (ON DELETE CASCADE).
DeleteTenant ==
  /\ tenant' = Nobody /\ usage' = {} /\ keys' = 0 /\ unpaid' = {}
  /\ held' = {} /\ everHeld' = {}

Change ==
  /\ admin # Quiet
  /\ admin' = Quiet
  /\ \/ /\ Exists => admin.id # tenant.id
        /\ UNCHANGED <<tenant, usage, keys, unpaid, held, everHeld>>
     \/ /\ Exists /\ admin.id = tenant.id
        /\ \/ /\ admin.at \in Plans /\ UpdateTenantPlan(admin.at)
              /\ UNCHANGED <<usage, keys, unpaid>>
           \/ /\ admin.at = "status" /\ UpdateTenantStatus
              /\ UNCHANGED <<usage, keys, unpaid>>
           \/ admin.at = "delete" /\ DeleteTenant
  /\ UNCHANGED <<ids, call, misses, changes>>

\* BillingPeriodStart moves: what was recorded before no longer counts.
NewPeriod ==
  /\ Exists /\ usage # {}
  /\ usage' = {} /\ unpaid' = {}
  /\ held' = {tenant.plan} \cup {call[c].plan : c \in {d \in Calls : Mine(d)}}
  /\ UNCHANGED <<tenant, ids, keys, call, admin, misses, everHeld, changes>>

-----------------------------------------------------------------------------
(* Calls *)

\* RequireAnyAuth and RequireAuth: the tenant as the call will know it.
Enter(c, at, u) ==
  /\ call[c] = Quiet
  /\ Exists /\ tenant.status = "active"
  /\ call' = [call EXCEPT ![c] =
       [at |-> at, id |-> tenant.id, plan |-> tenant.plan, max |-> tenant.max,
        whom |-> u]]
  /\ UNCHANGED <<tenant, ids, usage, keys, admin, history>>

Leave(c) == call' = [call EXCEPT ![c] = Quiet]

\* The distinct contributors of the period: nobody's rows count nothing.
GetUsageCount(c) ==
  IF Mine(c) THEN Cardinality({x[1] : x \in usage}) ELSE 0

\* OverQuota_Beyond is a seeded fault: the limit itself is still let through.
OverQuota_Beyond(c) == GetUsageCount(c) > call[c].max
OverQuota(c) == GetUsageCount(c) >= call[c].max

\* The API's score handler: checkQuota, which may fail, ...
CheckQuota(c) ==
  /\ call[c].at = "api"
  /\ \/ /\ ~OverQuota(c)
        /\ call' = [call EXCEPT ![c].at = "score"]
        /\ UNCHANGED misses
     \/ OverQuota(c) /\ Leave(c) /\ UNCHANGED misses
     \/ Miss /\ Leave(c)
  /\ UNCHANGED <<tenant, ids, usage, keys, admin, unpaid, held, everHeld, changes>>

\* ... Score, which may fail, and RecordUsage: the answer is served even if it
\* fails, as it does for a tenant that is gone.  Pages skip the check.
ScoreFails(c) ==
  /\ call[c].at \in {"score", "page"}
  /\ Leave(c)
  /\ UNCHANGED <<tenant, ids, usage, keys, admin, history>>

Source(c) == IF call[c].at = "score" THEN "api" ELSE "ui"

RecordUsage(c) ==
  /\ call[c].at \in {"score", "page"}
  /\ Leave(c)
  /\ \/ /\ Mine(c)
        /\ usage' = usage \cup (call[c].whom \X {Source(c)})
        /\ UNCHANGED <<unpaid, misses>>
     \/ ~Mine(c) /\ UNCHANGED <<usage, unpaid, misses>>
     \/ /\ Miss /\ Mine(c)
        /\ unpaid' = IF Source(c) = "api" THEN unpaid \cup call[c].whom
                                          ELSE unpaid
        /\ UNCHANGED usage
  /\ UNCHANGED <<tenant, ids, keys, admin, held, everHeld, changes>>

\* createTokenHandler: the keys are counted ...
ListAPITokens(c) == IF Mine(c) THEN keys ELSE 0

\* AtKeyLimit_Beyond is a seeded fault: the limit itself is still let through.
AtKeyLimit_Beyond(c) == ListAPITokens(c) > MaxAPIKeys[call[c].plan]
AtKeyLimit(c) == ListAPITokens(c) >= MaxAPIKeys[call[c].plan]

CheckKeys(c) ==
  /\ call[c].at = "key"
  /\ \/ /\ ~AtKeyLimit(c)
        /\ call' = [call EXCEPT ![c].at = "create"]
        /\ UNCHANGED misses
     \/ AtKeyLimit(c) /\ Leave(c) /\ UNCHANGED misses
     \/ Miss /\ Leave(c)
  /\ UNCHANGED <<tenant, ids, usage, keys, admin, unpaid, held, everHeld, changes>>

\* ... and one is inserted, unless the tenant is gone or the statement fails.
CreateAPIToken(c) ==
  /\ call[c].at = "create"
  /\ Leave(c)
  /\ \/ /\ Mine(c) /\ keys < MaxKeys
        /\ keys' = keys + 1 /\ UNCHANGED misses
     \/ ~Mine(c) /\ UNCHANGED <<keys, misses>>
     \/ Miss /\ UNCHANGED keys
  /\ UNCHANGED <<tenant, ids, usage, admin, unpaid, held, everHeld, changes>>

RevokeAPIToken(c) ==
  /\ call[c].at = "revoke"
  /\ Leave(c)
  /\ \/ Mine(c) /\ keys > 0 /\ keys' = keys - 1
     \/ UNCHANGED keys
  /\ UNCHANGED <<tenant, ids, usage, admin, history>>

-----------------------------------------------------------------------------

Init ==
  /\ tenant = Nobody /\ ids = 0 /\ usage = {} /\ keys = 0
  /\ call = [c \in Calls |-> Quiet] /\ admin = Quiet
  /\ unpaid = {} /\ misses = 0 /\ held = {} /\ everHeld = {} /\ changes = 0

Administration ==
  \/ \E change \in Plans \cup {"status", "delete"} : LookUp(change)
  \/ Change

CallStep(c) ==
  \/ \E at \in {"api", "page"}, u \in Contributors : Enter(c, at, {u})
  \/ \E at \in {"key", "revoke"} : Enter(c, at, {})
  \/ CheckQuota(c) \/ ScoreFails(c) \/ RecordUsage(c)
  \/ CheckKeys(c) \/ CreateAPIToken(c) \/ RevokeAPIToken(c)

Next == SignUp \/ NewPeriod \/ Administration \/ \E c \in Calls : CallStep(c)

Spec == Init /\ [][Next]_vars

-----------------------------------------------------------------------------
(* Properties *)

Tenant == {Nobody} \cup
  {t \in [id : Nat \ {0}, status : {"active", "suspended"}, plan : Plans, max : Nat] :
     t.max = MaxContributors[t.plan]}
Call == {Quiet} \cup
  {t \in [at : {"api", "score", "page", "key", "create", "revoke"},
          id : Nat \ {0}, plan : Plans, max : Nat, whom : SUBSET Contributors] :
     t.max = MaxContributors[t.plan] /\ \A u, v \in t.whom : u = v}

\* The rows and the calls have their types, and a tenant's own limit on
\* contributors is that of its plan at all times.
TypeOK ==
  /\ tenant \in Tenant
  /\ ids \in 0..MaxIds
  /\ usage \in SUBSET (Contributors \X {"api", "ui"})
  /\ keys \in 0..MaxKeys
  /\ call \in [Calls -> Call]
  /\ admin \in [at : Plans \cup {"quiet", "status", "delete"}, id : Nat]
  /\ unpaid \in SUBSET Contributors
  /\ misses \in 0..MaxMisses
  /\ changes \in 0..MaxChanges
  /\ held \in SUBSET Plans /\ everHeld \in SUBSET Plans

\* Contributors the API has scored for the tenant in the period.
Paid == {u \in Contributors : <<u, "api">> \in usage}

\* The API scores no more contributors in a period than the largest limit the
\* tenant had in it, but for calls that were counted at the same time and for
\* records that failed (checkQuota, RecordUsage): a plan that changes, a tenant
\* made anew and the end of the period let nothing else through.
QuotaWithinRace ==
  Exists => \E p \in held :
    Cardinality(Paid \cup unpaid) <=
      MaxContributors[p] + Cardinality(Calls) - 1 + misses

\* A tenant has no more API keys than the largest limit of the plans it has had,
\* but for calls that were counted at the same time (createTokenHandler).
KeysWithinRace ==
  Exists => \E p \in everHeld :
    keys <= MaxAPIKeys[p] + Cardinality(Calls) - 1

=============================================================================
