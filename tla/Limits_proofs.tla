------------------------------ MODULE Limits_proofs ------------------------------
(***************************************************************************)
(* How far a tenant may get beyond its limits, for any number of calls at  *)
(* a time: by those that were counted together, and by the records that    *)
(* failed.                                                                 *)
(***************************************************************************)
EXTENDS Limits, FiniteSetTheorems, TLAPS

\* Ids are given out once: whatever has read a tenant has an id given out.
IdsKnown ==
  /\ \A c \in Calls : call[c].id <= ids
  /\ Exists => tenant.id \in 1..ids

\* The plan a tenant has, and those its calls have read, were in force.
PlansKnown ==
  /\ Exists => tenant.plan \in held /\ tenant.plan \in everHeld
  /\ \A c \in Calls :
       Mine(c) => call[c].plan \in held /\ call[c].plan \in everHeld

Known == TypeOK /\ IdsKnown /\ PlansKnown

LEMMA KnownInit == ASSUME LimitsAssumption, Init PROVE Known
<1>1. 0 \in 0..MaxIds /\ 0 \in 0..MaxKeys /\ 0 \in 0..MaxMisses /\ 0 \in 0..MaxChanges
  BY DEF LimitsAssumption
<1>2. TypeOK
  BY <1>1 DEF Init, TypeOK, Tenant, Call, Quiet
<1>3. IdsKnown /\ PlansKnown
  BY DEF Init, IdsKnown, PlansKnown, Exists, Mine, Quiet
<1>4. QED
  BY <1>2, <1>3 DEF Known

\* What is known of the tenant there is.
LEMMA TenantIs ==
  ASSUME Known, Exists
  PROVE  /\ tenant \in [id : Nat \ {0}, status : {"active", "suspended"},
                        plan : Plans, max : Nat]
         /\ tenant.max = MaxContributors[tenant.plan]
         /\ tenant.id \in 1..ids /\ ids \in Nat
  BY DEF Known, TypeOK, Exists, Tenant, IdsKnown

\* What is known of a call that is not over.
LEMMA CallIs ==
  ASSUME Known, NEW c \in Calls, call[c].at # "quiet"
  PROVE  /\ call[c] \in [at : {"api", "score", "page", "key", "create", "revoke"},
                         id : Nat \ {0}, plan : Plans, max : Nat,
                         whom : SUBSET Contributors]
         /\ call[c].max = MaxContributors[call[c].plan]
         /\ \A u, v \in call[c].whom : u = v
<1>1. call[c] \in Call /\ call[c] # Quiet
  BY DEF Known, TypeOK, Quiet
<1>2. QED
  BY <1>1 DEF Call

\* A quiet call is nobody's.
LEMMA MineIsNotQuiet ==
  ASSUME Known, NEW c \in Calls, Mine(c)
  PROVE  call[c].at # "quiet"
<1>1. call[c].id # 0
  BY TenantIs DEF Mine
<1>2. call[c] # Quiet
  BY <1>1 DEF Quiet
<1>3. call[c] \in Call
  BY DEF Known, TypeOK
<1>4. QED
  BY <1>2, <1>3 DEF Call

\* A call that moves on is the same but for where it is.
LEMMA MovesOn ==
  ASSUME Known, NEW c \in Calls, call[c].at # "quiet",
         NEW at \in {"score", "create"},
         call' = [call EXCEPT ![c].at = at]
  PROVE  /\ call' \in [Calls -> Call]
         /\ \A d \in Calls : /\ d # c => call'[d] = call[d]
                             /\ call'[d].id = call[d].id
         /\ call'[c].plan = call[c].plan
         /\ call'[c].whom = call[c].whom
         /\ call'[c].at = at
<1>1. call \in [Calls -> Call]
  BY DEF Known, TypeOK
<1>2. call'[c] = [call[c] EXCEPT !.at = at]
  BY <1>1
<1>3. call'[c] \in Call
  BY <1>2, CallIs DEF Call
<1>4. QED
  BY <1>1, <1>2, <1>3, CallIs

\* A call that is over is quiet, the others are what they were.
LEMMA Leaves ==
  ASSUME Known, NEW c \in Calls, Leave(c)
  PROVE  /\ call' \in [Calls -> Call]
         /\ call'[c] = Quiet
         /\ \A d \in Calls : d # c => call'[d] = call[d]
  BY DEF Known, TypeOK, Leave, Call

\* Nobody learns of a plan by a call that moves on or ends.
LEMMA CallStepKeeps ==
  ASSUME Known, NEW c \in Calls, UNCHANGED <<tenant, ids, held, everHeld>>,
         \A d \in Calls : d # c => call'[d] = call[d],
         \/ call'[c] = Quiet
         \/ call'[c].id = call[c].id /\ call'[c].plan = call[c].plan
  PROVE  IdsKnown' /\ PlansKnown'
<1>1. Exists' <=> Exists
  BY DEF Exists
<1>2. Exists => tenant.id \in 1..ids
  BY DEF Known, IdsKnown
<1>3. ids \in Nat
  BY DEF Known, TypeOK
<1>4. IdsKnown'
  BY <1>1, <1>3 DEF Known, IdsKnown, Quiet
<1>5. \A d \in Calls : Mine(d)' => Mine(d) /\ call'[d].plan = call[d].plan
  BY <1>1, <1>2 DEF Mine, Quiet
<1>6. PlansKnown'
  BY <1>1, <1>5 DEF Known, PlansKnown
<1>7. QED
  BY <1>4, <1>6

LEMMA SignUpKnown ==
  ASSUME LimitsAssumption, Known, SignUp
  PROVE  Known'
<1>1. ids + 1 \in Nat \ {0} /\ ids + 1 \in 0..MaxIds /\ ids \in Nat
  BY DEF Known, TypeOK, SignUp, LimitsAssumption
<1>2. tenant' \in [id : Nat \ {0}, status : {"active", "suspended"},
                   plan : Plans, max : Nat]
  BY <1>1 DEF SignUp, LimitsAssumption
<1>3. tenant'.max = MaxContributors[tenant'.plan] /\ tenant'.id = ids + 1
      /\ tenant'.plan = DefaultPlan
  BY DEF SignUp
<1>4. TypeOK'
  BY <1>1, <1>2, <1>3 DEF SignUp, Known, TypeOK, Tenant, LimitsAssumption
<1>5. \A c \in Calls : call[c].id <= ids /\ call[c].id # ids + 1
  <2>1. \A c \in Calls : call[c].id \in Nat
    BY DEF Known, TypeOK, Call, Quiet
  <2>2. QED
    BY <1>1, <2>1 DEF Known, IdsKnown
<1>6. IdsKnown'
  BY <1>1, <1>3, <1>5 DEF SignUp, IdsKnown, Known, TypeOK, Call, Quiet
<1>7. PlansKnown'
  BY <1>3, <1>5 DEF SignUp, PlansKnown, Mine
<1>8. QED
  BY <1>4, <1>6, <1>7 DEF Known

LEMMA ChangeKnown ==
  ASSUME LimitsAssumption, Known, Change
  PROVE  Known'
<1> USE DEF Known
<1>1. UNCHANGED <<ids, call, misses, changes>> /\ admin' = Quiet
  BY DEF Change
<1>2. admin' \in [at : Plans \cup {"quiet", "status", "delete"}, id : Nat]
  BY <1>1 DEF Quiet
<1>3. CASE UNCHANGED <<tenant, usage, keys, unpaid, held, everHeld>>
  BY <1>1, <1>2, <1>3
     DEF TypeOK, IdsKnown, PlansKnown, Exists, Mine
<1>4. ASSUME Exists, NEW p \in Plans, UpdateTenantPlan(p),
             UNCHANGED <<usage, keys, unpaid>>
      PROVE  Known'
  <2>1. /\ tenant' \in [id : Nat \ {0}, status : {"active", "suspended"},
                        plan : Plans, max : Nat]
        /\ tenant'.max = MaxContributors[tenant'.plan]
        /\ tenant'.id = tenant.id /\ tenant'.plan = p
    BY <1>4, TenantIs DEF UpdateTenantPlan, LimitsAssumption
  <2>2. TypeOK'
    BY <1>1, <1>2, <1>4, <2>1 DEF TypeOK, Tenant, UpdateTenantPlan
  <2>3. IdsKnown'
    BY <1>1, <1>4, <2>1 DEF IdsKnown, Exists
  <2>4. PlansKnown'
    BY <1>1, <1>4, <2>1 DEF PlansKnown, Exists, Mine, UpdateTenantPlan
  <2>5. QED
    BY <2>2, <2>3, <2>4
<1>5. ASSUME Exists, UpdateTenantStatus, UNCHANGED <<usage, keys, unpaid>>
      PROVE  Known'
  <2>1. /\ tenant' \in [id : Nat \ {0}, status : {"active", "suspended"},
                        plan : Plans, max : Nat]
        /\ tenant'.max = MaxContributors[tenant'.plan]
        /\ tenant'.id = tenant.id /\ tenant'.plan = tenant.plan
    BY <1>5, TenantIs DEF UpdateTenantStatus
  <2>2. TypeOK'
    BY <1>1, <1>2, <1>5, <2>1 DEF TypeOK, Tenant, UpdateTenantStatus
  <2>3. IdsKnown'
    BY <1>1, <1>5, <2>1 DEF IdsKnown, Exists
  <2>4. PlansKnown'
    BY <1>1, <1>5, <2>1 DEF PlansKnown, Exists, Mine, UpdateTenantStatus
  <2>5. QED
    BY <2>2, <2>3, <2>4
<1>6. CASE DeleteTenant
  <2>1. 0 \in 0..MaxKeys
    BY DEF LimitsAssumption
  <2>2. TypeOK'
    BY <1>1, <1>2, <1>6, <2>1 DEF TypeOK, Tenant, DeleteTenant
  <2>3. QED
    BY <1>1, <1>6, <2>2 DEF DeleteTenant, IdsKnown, PlansKnown, Exists, Mine
<1>7. QED
  BY <1>3, <1>4, <1>5, <1>6 DEF Change

LEMMA NewPeriodKnown ==
  ASSUME Known, NewPeriod
  PROVE  Known'
<1>1. tenant.plan \in Plans
  BY TenantIs DEF NewPeriod
<1>2. \A c \in Calls : Mine(c) => call[c].plan \in Plans
  BY MineIsNotQuiet, CallIs
<1>3. held' \subseteq Plans
  BY <1>1, <1>2 DEF NewPeriod
<1>4. TypeOK'
  BY <1>3 DEF NewPeriod, Known, TypeOK
<1>5. QED
  BY <1>4 DEF NewPeriod, Known, IdsKnown, PlansKnown, Exists, Mine

LEMMA EnterKnown ==
  ASSUME LimitsAssumption, Known, NEW c \in Calls,
         NEW at \in {"api", "page", "key", "revoke"}, NEW S \in SUBSET Contributors,
         \A u, v \in S : u = v, Enter(c, at, S)
  PROVE  Known'
<1>1. /\ call' \in [Calls -> Call]
      /\ call'[c].id = tenant.id /\ call'[c].plan = tenant.plan
      /\ \A d \in Calls : d # c => call'[d] = call[d]
  <2> DEFINE new == [at |-> at, id |-> tenant.id, plan |-> tenant.plan,
                     max |-> tenant.max, whom |-> S]
  <2>1. new \in Call
    BY TenantIs DEF Enter, Call
  <2>2. call \in [Calls -> Call]
    BY DEF Known, TypeOK
  <2>3. call' = [call EXCEPT ![c] = new]
    BY DEF Enter
  <2> HIDE DEF new
  <2>4. /\ call' \in [Calls -> Call] /\ call'[c] = new
        /\ \A d \in Calls : d # c => call'[d] = call[d]
    BY <2>1, <2>2, <2>3
  <2>5. new.id = tenant.id /\ new.plan = tenant.plan
    BY DEF new
  <2>6. QED
    BY <2>4, <2>5
<1>2. Exists /\ tenant.id \in 1..ids /\ ids \in Nat
  BY TenantIs DEF Enter
<1>3. TypeOK'
  BY <1>1 DEF Enter, Known, TypeOK, history
<1>4. IdsKnown'
  BY <1>1, <1>2 DEF Enter, Known, IdsKnown, Exists
<1>5. PlansKnown'
  BY <1>1, <1>2 DEF Enter, Known, PlansKnown, Exists, Mine, history
<1>6. QED
  BY <1>3, <1>4, <1>5 DEF Known

\* The statements of a call: it moves on with what it knows, or is over.
CallMoves(c) ==
  CheckQuota(c) \/ ScoreFails(c) \/ RecordUsage(c) \/ CheckKeys(c)
  \/ CreateAPIToken(c) \/ RevokeAPIToken(c)

LEMMA CallMovesKnown ==
  ASSUME LimitsAssumption, Known, NEW c \in Calls, CallMoves(c)
  PROVE  /\ Known'
         /\ call[c].at # "quiet"
         /\ UNCHANGED <<tenant, ids, admin, held, everHeld, changes>>
         /\ \A d \in Calls : d # c => call'[d] = call[d]
         /\ \/ call'[c] = Quiet
            \/ /\ call'[c].id = call[c].id /\ call'[c].plan = call[c].plan
               /\ call'[c].whom = call[c].whom
               /\ \/ CheckQuota(c) /\ call'[c].at = "score"
                  \/ CheckKeys(c) /\ call'[c].at = "create"
<1>1. call[c].at # "quiet"
  BY DEF CallMoves, CheckQuota, ScoreFails, RecordUsage, CheckKeys, CreateAPIToken,
         RevokeAPIToken
<1>2. UNCHANGED <<tenant, ids, admin, held, everHeld, changes>>
  BY DEF CallMoves, CheckQuota, ScoreFails, RecordUsage, CheckKeys, CreateAPIToken,
         RevokeAPIToken, history
<1>3. \/ Leave(c)
      \/ CheckQuota(c) /\ call' = [call EXCEPT ![c].at = "score"]
      \/ CheckKeys(c) /\ call' = [call EXCEPT ![c].at = "create"]
  BY DEF CallMoves, CheckQuota, ScoreFails, RecordUsage, CheckKeys, CreateAPIToken,
         RevokeAPIToken
<1>4. /\ call' \in [Calls -> Call]
      /\ \A d \in Calls : d # c => call'[d] = call[d]
      /\ \/ call'[c] = Quiet
         \/ /\ call'[c].id = call[c].id /\ call'[c].plan = call[c].plan
            /\ call'[c].whom = call[c].whom
            /\ \/ CheckQuota(c) /\ call'[c].at = "score"
               \/ CheckKeys(c) /\ call'[c].at = "create"
  <2>1. CASE Leave(c)
    BY <2>1, Leaves
  <2>2. CASE CheckQuota(c) /\ call' = [call EXCEPT ![c].at = "score"]
    BY <1>1, <2>2, MovesOn
  <2>3. CASE CheckKeys(c) /\ call' = [call EXCEPT ![c].at = "create"]
    BY <1>1, <2>3, MovesOn
  <2>4. QED
    BY <1>3, <2>1, <2>2, <2>3
<1>5. misses' \in 0..MaxMisses
  BY DEF CallMoves, CheckQuota, ScoreFails, RecordUsage, CheckKeys, CreateAPIToken,
         RevokeAPIToken, history, Miss, Known, TypeOK, LimitsAssumption
<1>6. usage' \in SUBSET (Contributors \X {"api", "ui"})
  <2>1. UNCHANGED usage \/ usage' = usage \cup (call[c].whom \X {Source(c)})
    BY DEF CallMoves, CheckQuota, ScoreFails, RecordUsage, CheckKeys, CreateAPIToken,
           RevokeAPIToken, history
  <2>2. call[c].whom \subseteq Contributors /\ Source(c) \in {"api", "ui"}
    BY <1>1, CallIs DEF Source
  <2>3. QED
    BY <2>1, <2>2 DEF Known, TypeOK
<1>7. unpaid' \subseteq Contributors
  <2>1. UNCHANGED unpaid \/ unpaid' = unpaid \cup call[c].whom
    BY DEF CallMoves, CheckQuota, ScoreFails, RecordUsage, CheckKeys, CreateAPIToken,
           RevokeAPIToken, history
  <2>2. QED
    BY <1>1, <2>1, CallIs DEF Known, TypeOK
<1>8. keys' \in 0..MaxKeys
  BY DEF CallMoves, CheckQuota, ScoreFails, RecordUsage, CheckKeys, CreateAPIToken,
         RevokeAPIToken, history, Known, TypeOK, LimitsAssumption
<1>9. TypeOK'
  BY <1>2, <1>4, <1>5, <1>6, <1>7, <1>8 DEF Known, TypeOK
<1>10. IdsKnown' /\ PlansKnown'
  BY <1>2, <1>4, CallStepKeeps
<1>11. QED
  BY <1>1, <1>2, <1>4, <1>9, <1>10 DEF Known

LEMMA KnownStep ==
  ASSUME LimitsAssumption, Known, [Next]_vars
  PROVE  Known'
<1>1. CASE SignUp
  BY <1>1, SignUpKnown
<1>2. CASE NewPeriod
  BY <1>2, NewPeriodKnown
<1>3. CASE \E change \in Plans \cup {"status", "delete"} : LookUp(change)
  <2>1. PICK change \in Plans \cup {"status", "delete"} : LookUp(change)
    BY <1>3
  <2>2. tenant.id \in Nat
    BY <2>1, TenantIs DEF LookUp
  <2>3. admin' \in [at : Plans \cup {"quiet", "status", "delete"}, id : Nat]
    BY <2>1, <2>2 DEF LookUp
  <2>4. changes' \in 0..MaxChanges
    BY <2>1 DEF LookUp, Known, TypeOK, LimitsAssumption
  <2>5. TypeOK'
    BY <2>1, <2>3, <2>4 DEF LookUp, Known, TypeOK
  <2>6. QED
    BY <2>1, <2>5 DEF LookUp, Known, IdsKnown, PlansKnown, Exists, Mine
<1>4. CASE Change
  BY <1>4, ChangeKnown
<1>5. ASSUME NEW c \in Calls, CallStep(c) PROVE Known'
  <2>1. CASE \E at \in {"api", "page"}, u \in Contributors : Enter(c, at, {u})
    BY <2>1, EnterKnown
  <2>2. CASE \E at \in {"key", "revoke"} : Enter(c, at, {})
    BY <2>2, EnterKnown
  <2>3. CASE CallMoves(c)
    BY <2>3, CallMovesKnown
  <2>4. QED
    BY <1>5, <2>1, <2>2, <2>3 DEF CallStep, CallMoves
<1>6. CASE UNCHANGED vars
  BY <1>6 DEF vars, history, Known, TypeOK, IdsKnown, PlansKnown, Exists, Mine
<1>7. QED
  BY <1>1, <1>2, <1>3, <1>4, <1>5, <1>6 DEF Next, Administration

\* The rows and calls keep their types, in particular a tenant's own limit on
\* contributors is that of its plan (UpdateTenantPlan, UpsertTenant).
THEOREM LimitsTypes == LimitsAssumption => (Spec => []TypeOK)
<1> SUFFICES ASSUME LimitsAssumption PROVE Spec => []TypeOK
  OBVIOUS
<1>1. Known => TypeOK
  BY DEF Known
<1>2. Init => Known
  BY KnownInit
<1>3. Known /\ [Next]_vars => Known'
  BY KnownStep
<1>4. QED
  BY <1>1, <1>2, <1>3, PTL DEF Spec

-----------------------------------------------------------------------------
(* Contributors *)

\* The calls of the tenant that have passed the check, and whom it has scored or
\* will score.
Passed == {c \in Calls : Mine(c) /\ call[c].at = "score"}
Awaited == UNION {call[c].whom : c \in Passed}
Through == Paid \cup unpaid \cup Awaited

QuotaHeld ==
  /\ Cardinality(unpaid) <= misses
  /\ Exists => \E p \in held :
       Cardinality(Through) <= MaxContributors[p] + Cardinality(Calls) - 1 + misses

\* Sets of contributors are finite, and the larger one has more of them.
LEMMA Counting ==
  ASSUME LimitsAssumption, NEW S \in SUBSET Contributors, NEW T \in SUBSET S
  PROVE  /\ IsFiniteSet(S) /\ Cardinality(S) \in Nat
         /\ IsFiniteSet(T) /\ Cardinality(T) \in Nat
         /\ Cardinality(T) <= Cardinality(S)
<1>1. IsFiniteSet(S)
  BY FS_Subset DEF LimitsAssumption
<1>2. IsFiniteSet(T) /\ Cardinality(T) <= Cardinality(S)
  BY <1>1, FS_Subset
<1>3. QED
  BY <1>1, <1>2, FS_CardinalityType

LEMMA CallsCounted ==
  ASSUME LimitsAssumption
  PROVE  Cardinality(Calls) \in Nat \ {0}
  BY FS_CardinalityType, FS_EmptySet DEF LimitsAssumption

\* Each call is about one contributor.
LEMMA AwaitedFew ==
  ASSUME LimitsAssumption, Known
  PROVE  /\ Awaited \subseteq Contributors
         /\ Cardinality(Awaited) <= Cardinality(Calls)
<1>1. \A c \in Passed : /\ c \in Calls /\ call[c].whom \subseteq Contributors
                        /\ \A u, v \in call[c].whom : u = v
  BY MineIsNotQuiet, CallIs DEF Passed
<1>2. Awaited \subseteq Contributors
  BY <1>1 DEF Awaited
<1> DEFINE asks == [u \in Awaited |-> CHOOSE c \in Passed : u \in call[c].whom]
<1>3. \A u \in Awaited : asks[u] \in Passed /\ u \in call[asks[u]].whom
  BY DEF Awaited
<1>4. asks \in [Awaited -> Calls]
  BY <1>1, <1>3
<1>5. \A u, v \in Awaited : asks[u] = asks[v] => u = v
  BY <1>1, <1>3
<1> HIDE DEF asks
<1>6. IsFiniteSet(Calls) /\ IsFiniteSet(Awaited)
  BY <1>2, Counting DEF LimitsAssumption
<1>7. ~(Cardinality(Calls) < Cardinality(Awaited))
  BY <1>4, <1>5, <1>6, FS_PigeonHole
<1>8. Cardinality(Calls) \in Nat /\ Cardinality(Awaited) \in Nat
  BY <1>6, FS_CardinalityType
<1>9. QED
  BY <1>2, <1>7, <1>8

LEMMA AwaitedFewAlways ==
  LimitsAssumption /\ Known =>
    Awaited \subseteq Contributors /\ Cardinality(Awaited) <= Cardinality(Calls)
  BY AwaitedFew

\* Nothing new gets through, and no plan is forgotten.
LEMMA NothingNew ==
  ASSUME LimitsAssumption, Known, Known', QuotaHeld, Exists' => Exists,
         held \subseteq held', misses' >= misses, Through' \subseteq Through,
         Cardinality(unpaid') <= misses'
  PROVE  QuotaHeld'
<1>1. Through \subseteq Contributors
  BY AwaitedFew DEF Through, Paid, Known, TypeOK
<1>2. Cardinality(Through') \in Nat /\ Cardinality(Through) \in Nat
      /\ Cardinality(Through') <= Cardinality(Through)
  BY <1>1, Counting
<1>3. misses \in Nat /\ misses' \in Nat
  BY DEF Known, TypeOK
<1>4. \A p \in held : MaxContributors[p] \in Nat
  BY DEF Known, TypeOK, LimitsAssumption
<1>5. QED
  BY <1>2, <1>3, <1>4, CallsCounted DEF QuotaHeld

\* The check lets a call through beside those that have passed it before, and
\* beside the records that failed.
LEMMA CheckHolds ==
  ASSUME LimitsAssumption, Known, Known', QuotaHeld, NEW c \in Calls, Mine(c),
         CheckQuota(c), ~OverQuota(c)
  PROVE  QuotaHeld'
<1>1. call[c].plan \in held /\ call[c].plan \in Plans
      /\ call[c].max = MaxContributors[call[c].plan]
  BY MineIsNotQuiet, CallIs DEF Known, PlansKnown
<1>2. UNCHANGED <<tenant, usage, held, unpaid>> /\ Exists
  BY DEF CheckQuota, Mine
<1>3. misses' \in Nat /\ misses \in Nat /\ misses' >= misses
  BY DEF CheckQuota, Miss, Known, TypeOK
<1> DEFINE counted == {x[1] : x \in usage}
<1>4. Cardinality(counted) < call[c].max
  <2>1. counted \subseteq Contributors
    BY DEF Known, TypeOK
  <2>2. Cardinality(counted) \in Nat /\ call[c].max \in Nat
    BY <1>1, <2>1, Counting DEF LimitsAssumption
  <2>3. QED
    BY <2>2 DEF OverQuota, GetUsageCount
<1>5. Paid \subseteq counted /\ counted \subseteq Contributors
      /\ unpaid \subseteq Contributors
  <2>1. counted \subseteq Contributors /\ unpaid \subseteq Contributors
    BY DEF Known, TypeOK
  <2>2. ASSUME NEW u \in Paid PROVE u \in counted
    <3>1. <<u, "api">> \in usage /\ <<u, "api">>[1] = u
      BY DEF Paid
    <3>2. QED
      BY <3>1
  <2>3. QED
    BY <2>1, <2>2
<1> HIDE DEF counted
<1>6. Awaited' \subseteq Contributors /\ Cardinality(Awaited') <= Cardinality(Calls)
  <2>1. (LimitsAssumption /\ Known =>
          Awaited \subseteq Contributors
          /\ Cardinality(Awaited) <= Cardinality(Calls))'
    BY AwaitedFewAlways, PTL
  <2>2. LimitsAssumption'
    BY DEF LimitsAssumption
  <2>3. QED
    BY <2>1, <2>2
<1>7. Paid' = Paid /\ unpaid' = unpaid
  BY <1>2 DEF Paid
<1>8. Cardinality(Through') <= Cardinality(Paid) + Cardinality(unpaid)
                               + Cardinality(Awaited')
  <2>1. Paid \subseteq Contributors
    BY <1>5
  <2>2. IsFiniteSet(Paid) /\ IsFiniteSet(unpaid) /\ IsFiniteSet(Awaited')
    BY <1>5, <1>6, <2>1, Counting
  <2>3. /\ IsFiniteSet(Paid \cup unpaid)
        /\ Cardinality(Paid \cup unpaid) =
             Cardinality(Paid) + Cardinality(unpaid) - Cardinality(Paid \cap unpaid)
    BY <2>2, FS_Union
  <2>4. Cardinality((Paid \cup unpaid) \cup Awaited') =
          Cardinality(Paid \cup unpaid) + Cardinality(Awaited')
          - Cardinality((Paid \cup unpaid) \cap Awaited')
    BY <2>2, <2>3, FS_Union
  <2>5. /\ Cardinality(Paid) \in Nat /\ Cardinality(unpaid) \in Nat
        /\ Cardinality(Paid \cap unpaid) \in Nat
        /\ Cardinality(Paid \cup unpaid) \in Nat
        /\ Cardinality(Awaited') \in Nat
        /\ Cardinality((Paid \cup unpaid) \cap Awaited') \in Nat
    BY <1>5, <1>6, <2>1, Counting
  <2>6. Through' = (Paid \cup unpaid) \cup Awaited'
    BY <1>7 DEF Through
  <2>7. QED
    BY <2>3, <2>4, <2>5, <2>6
<1>9. Cardinality(Paid) <= Cardinality(counted) /\ Cardinality(unpaid) <= misses
      /\ Cardinality(counted) \in Nat /\ Cardinality(Paid) \in Nat
      /\ Cardinality(unpaid) \in Nat /\ Cardinality(Awaited') \in Nat
  BY <1>5, <1>6, Counting DEF QuotaHeld
<1>10. Cardinality(Through') \in Nat
  <2>1. Through' \subseteq Contributors
    BY <1>5, <1>6, <1>7 DEF Through
  <2>2. QED
    BY <2>1, Counting
<1>11. call[c].max \in Nat
  BY <1>1 DEF LimitsAssumption
<1>12. Cardinality(Through') <= call[c].max + Cardinality(Calls) - 1 + misses'
  BY <1>3, <1>4, <1>6, <1>8, <1>9, <1>10, <1>11, CallsCounted
<1>13. QED
  BY <1>1, <1>2, <1>3, <1>9, <1>12 DEF QuotaHeld

\* What a call awaits becomes paid or unpaid for, or is given up.
LEMMA CallMovesQuota ==
  ASSUME LimitsAssumption, Known, QuotaHeld, NEW c \in Calls, CallMoves(c)
  PROVE  QuotaHeld'
<1>1. /\ Known' /\ call[c].at # "quiet" /\ UNCHANGED <<tenant, held>>
      /\ \A d \in Calls : d # c => call'[d] = call[d]
      /\ \/ call'[c] = Quiet
         \/ /\ call'[c].id = call[c].id /\ call'[c].whom = call[c].whom
            /\ \/ CheckQuota(c) /\ call'[c].at = "score"
               \/ CheckKeys(c) /\ call'[c].at = "create"
  BY CallMovesKnown
<1>2. CASE CheckQuota(c) /\ Mine(c) /\ ~OverQuota(c)
  BY <1>1, <1>2, CheckHolds
<1>3. CASE ~(CheckQuota(c) /\ Mine(c) /\ ~OverQuota(c))
  <2>1. Exists' <=> Exists
    BY <1>1 DEF Exists
  <2>2. Passed' \subseteq Passed
    <3>1. ASSUME NEW d \in Passed' PROVE d \in Passed
      <4>1. d \in Calls /\ Mine(d)' /\ call'[d].at = "score"
        BY <3>1 DEF Passed
      <4>2. CASE d # c
        BY <1>1, <2>1, <4>1, <4>2 DEF Passed, Mine
      <4>3. CASE d = c
        <5>1. call'[c] # Quiet /\ CheckQuota(c) /\ call'[c].id = call[c].id
          BY <1>1, <4>1, <4>3 DEF Quiet
        <5>2. Mine(c)
          BY <1>1, <2>1, <4>1, <4>3, <5>1 DEF Mine
        <5>3. ~OverQuota(c)
          <6>1. CASE Leave(c)
            BY <5>1, <6>1, Leaves
          <6>2. QED
            BY <5>1, <6>1 DEF CheckQuota
        <5>4. QED
          BY <1>3, <5>1, <5>2, <5>3
      <4>4. QED
        BY <4>2, <4>3
    <3>2. QED
      BY <3>1
  <2>3. \A d \in Passed' : call'[d].whom = call[d].whom
    BY <1>1 DEF Passed, Quiet
  <2>4. Awaited' \subseteq Awaited
    BY <2>2, <2>3 DEF Awaited
  <2>5. misses \in Nat /\ misses' \in Nat
    BY <1>1 DEF Known, TypeOK
  <2>6. CASE UNCHANGED <<usage, unpaid>>
    <3>1. misses' >= misses
      BY <2>5 DEF CallMoves, CheckQuota, ScoreFails, RecordUsage, CheckKeys,
                  CreateAPIToken, RevokeAPIToken, history, Miss
    <3>2. Through' \subseteq Through
      BY <2>4, <2>6 DEF Through, Paid
    <3>3. Cardinality(unpaid') <= misses'
      <4>1. Cardinality(unpaid) \in Nat
        BY Counting DEF Known, TypeOK
      <4>2. QED
        BY <2>5, <2>6, <3>1, <4>1 DEF QuotaHeld
    <3>4. QED
      BY <1>1, <2>1, <3>1, <3>2, <3>3, NothingNew
  <2>7. CASE ~UNCHANGED <<usage, unpaid>>
    <3>1. RecordUsage(c) /\ Mine(c)
      BY <2>7 DEF CallMoves, CheckQuota, ScoreFails, RecordUsage, CheckKeys,
                  CreateAPIToken, RevokeAPIToken, history
    <3>2. call[c].at = "score" => call[c].whom \subseteq Awaited
      BY <3>1 DEF Awaited, Passed
    <3>3. /\ call[c].whom \subseteq Contributors
          /\ \A u, v \in call[c].whom : u = v
      BY <1>1, CallIs
    <3>4. Through' \subseteq Through
      <4>1. CASE UNCHANGED unpaid /\ usage' = usage \cup (call[c].whom \X {Source(c)})
        <5>1. Paid' \subseteq Paid \cup Awaited
          BY <3>2, <4>1 DEF Paid, Source
        <5>2. QED
          BY <2>4, <4>1, <5>1 DEF Through
      <4>2. CASE UNCHANGED usage /\ unpaid' = IF Source(c) = "api"
                                              THEN unpaid \cup call[c].whom
                                              ELSE unpaid
        <5>1. Paid' = Paid /\ unpaid' \subseteq unpaid \cup Awaited
          BY <3>2, <4>2 DEF Paid, Source
        <5>2. QED
          BY <2>4, <5>1 DEF Through
      <4>3. QED
        BY <3>1, <4>1, <4>2, <2>7 DEF RecordUsage
    <3>5. Cardinality(unpaid') <= misses' /\ misses' >= misses
      <4>1. Cardinality(unpaid) \in Nat /\ Cardinality(unpaid) <= misses
            /\ IsFiniteSet(unpaid)
        BY Counting DEF Known, TypeOK, QuotaHeld
      <4>2. CASE unpaid' = unpaid /\ misses' \in {misses, misses + 1}
        BY <2>5, <4>1, <4>2
      <4>3. CASE unpaid' = unpaid \cup call[c].whom /\ misses' = misses + 1
        <5>1. CASE call[c].whom = {}
          BY <2>5, <4>1, <4>3, <5>1
        <5>2. ASSUME NEW u \in call[c].whom
              PROVE  Cardinality(unpaid') <= misses'
          <6>1. unpaid' = unpaid \cup {u}
            BY <3>3, <4>3, <5>2
          <6>2. Cardinality(unpaid \cup {u}) \in
                  {Cardinality(unpaid), Cardinality(unpaid) + 1}
            BY <4>1, FS_AddElement
          <6>3. Cardinality(unpaid') = Cardinality(unpaid \cup {u})
            BY <6>1
          <6>4. misses' = misses + 1
            BY <4>3
          <6>5. QED
            BY <2>5, <4>1, <6>2, <6>3, <6>4
        <5>3. misses' >= misses
          BY <2>5, <4>3
        <5>4. QED
          BY <5>1, <5>2, <5>3
      <4>4. QED
        BY <3>1, <4>2, <4>3 DEF RecordUsage, Miss
    <3>6. QED
      BY <1>1, <2>1, <3>4, <3>5, NothingNew
  <2>8. QED
    BY <2>6, <2>7
<1>4. QED
  BY <1>2, <1>3

\* A tenant made anew has no call under way, its id being new.
LEMMA NobodysCalls ==
  ASSUME Known, SignUp
  PROVE  \A c \in Calls : ~Mine(c)'
<1>1. ids \in Nat /\ \A c \in Calls : call[c].id \in Nat /\ call[c].id <= ids
  BY DEF Known, TypeOK, IdsKnown, Call, Quiet
<1>2. tenant'.id = ids + 1 /\ call' = call
  BY DEF SignUp
<1>3. QED
  BY <1>1, <1>2 DEF Mine

\* The steps beside the calls change neither what they are nor whose.
LEMMA QuotaStep ==
  ASSUME LimitsAssumption, Known, QuotaHeld, [Next]_vars
  PROVE  QuotaHeld'
<1>0. Known' /\ misses \in Nat /\ \A p \in Plans : MaxContributors[p] \in Nat \ {0}
  BY KnownStep DEF Known, TypeOK, LimitsAssumption
<1>1. CASE SignUp
  <2>1. Through' = {} /\ unpaid' = {} /\ misses' = misses /\ held' = {DefaultPlan}
    BY <1>1, NobodysCalls DEF SignUp, Through, Paid, Awaited, Passed
  <2>2. Cardinality(Through') = 0 /\ Cardinality(unpaid') = 0
    BY <2>1, FS_EmptySet
  <2>3. QED
    BY <1>0, <2>1, <2>2, CallsCounted DEF QuotaHeld, LimitsAssumption
<1>2. CASE NewPeriod
  <2>1. Paid' = {} /\ unpaid' = {} /\ misses' = misses /\ tenant.plan \in held'
    BY <1>2 DEF NewPeriod, Paid
  <2>2. Through' = Awaited
    BY <1>2, <2>1 DEF NewPeriod, Through, Awaited, Passed, Mine, Exists
  <2>3. Cardinality(Through') <= Cardinality(Calls) /\ Cardinality(Through') \in Nat
    BY <2>2, AwaitedFew, Counting
  <2>4. Cardinality(unpaid') = 0
    BY <2>1, FS_EmptySet
  <2>5. tenant.plan \in Plans
    BY <1>2, TenantIs DEF NewPeriod
  <2>6. QED
    BY <1>0, <2>1, <2>3, <2>4, <2>5, CallsCounted DEF QuotaHeld
<1>3. ASSUME Exists' => Exists /\ tenant'.id = tenant.id,
             UNCHANGED <<usage, unpaid, misses, call>>, held \subseteq held'
      PROVE  QuotaHeld'
  <2>1. Through' \subseteq Through \/ ~Exists'
    BY <1>3 DEF Through, Paid, Awaited, Passed, Mine
  <2>2. CASE Exists'
    BY <1>0, <1>3, <2>1, <2>2, NothingNew DEF QuotaHeld
  <2>3. CASE ~Exists'
    BY <1>3, <2>3 DEF QuotaHeld
  <2>4. QED
    BY <2>2, <2>3
<1>4. CASE \E change \in Plans \cup {"status", "delete"} : LookUp(change)
  BY <1>3, <1>4 DEF LookUp, Exists
<1>5. CASE Change
  <2>1. CASE UNCHANGED <<tenant, usage, keys, unpaid, held, everHeld>>
    BY <1>3, <1>5, <2>1 DEF Change, Exists
  <2>2. ASSUME Exists, NEW p \in Plans, UpdateTenantPlan(p),
               UNCHANGED <<usage, keys, unpaid>>
        PROVE  QuotaHeld'
    BY <1>3, <1>5, <2>2, TenantIs DEF Change, UpdateTenantPlan
  <2>3. ASSUME Exists, UpdateTenantStatus, UNCHANGED <<usage, keys, unpaid>>
        PROVE  QuotaHeld'
    BY <1>3, <1>5, <2>3, TenantIs DEF Change, UpdateTenantStatus
  <2>4. CASE DeleteTenant
    <3>1. ~Exists' /\ unpaid' = {} /\ misses' = misses
      BY <1>5, <2>4 DEF Change, DeleteTenant, Exists
    <3>2. Cardinality(unpaid') = 0
      BY <3>1, FS_EmptySet
    <3>3. QED
      BY <1>0, <3>1, <3>2 DEF QuotaHeld
  <2>5. QED
    BY <1>5, <2>1, <2>2, <2>3, <2>4 DEF Change
<1>6. ASSUME NEW c \in Calls, NEW at \in {"api", "page", "key", "revoke"}, NEW S,
             Enter(c, at, S)
      PROVE  QuotaHeld'
  <2>1. /\ UNCHANGED <<tenant, usage, unpaid, misses, held>>
        /\ \A d \in Calls : d # c => call'[d] = call[d]
        /\ call'[c].at = at
    <3>1. call \in [Calls -> Call]
      BY DEF Known, TypeOK
    <3>2. QED
      BY <1>6, <3>1 DEF Enter, history
  <2>2. Through' \subseteq Through
    BY <2>1 DEF Through, Paid, Awaited, Passed, Mine, Exists
  <2>3. Exists' => Exists
    BY <2>1 DEF Exists
  <2>4. QED
    BY <1>0, <2>1, <2>2, <2>3, NothingNew DEF QuotaHeld
<1>7. ASSUME NEW c \in Calls, CallStep(c) PROVE QuotaHeld'
  BY <1>6, <1>7, CallMovesQuota DEF CallStep, CallMoves
<1>8. CASE UNCHANGED vars
  BY <1>3, <1>8 DEF vars, history, Exists
<1>9. QED
  BY <1>1, <1>2, <1>4, <1>5, <1>7, <1>8 DEF Next, Administration

\* However many calls a tenant has under way, and whatever administrators do
\* meanwhile, it exceeds the largest limit it had in the period only by calls
\* counted together and by records that failed (checkQuota, RecordUsage).
THEOREM QuotaHolds == LimitsAssumption => (Spec => []QuotaWithinRace)
<1> SUFFICES ASSUME LimitsAssumption PROVE Spec => []QuotaWithinRace
  OBVIOUS
<1>1. Init => Known /\ QuotaHeld
  <2>1. SUFFICES ASSUME Init PROVE Known /\ QuotaHeld
    OBVIOUS
  <2>2. unpaid = {} /\ misses = 0 /\ ~Exists
    BY <2>1 DEF Init, Exists
  <2>3. QED
    BY <2>1, <2>2, KnownInit, FS_EmptySet DEF QuotaHeld
<1>2. Known /\ QuotaHeld /\ [Next]_vars => (Known /\ QuotaHeld)'
  BY KnownStep, QuotaStep
<1>3. Known /\ QuotaHeld => QuotaWithinRace
  <2>1. SUFFICES ASSUME Known, QuotaHeld, Exists
                 PROVE  \E p \in held :
                          Cardinality(Paid \cup unpaid) <=
                            MaxContributors[p] + Cardinality(Calls) - 1 + misses
    BY DEF QuotaWithinRace
  <2>2. Paid \cup unpaid \subseteq Through /\ Through \subseteq Contributors
    BY <2>1, AwaitedFew DEF Through, Paid, Known, TypeOK
  <2>3. /\ Cardinality(Paid \cup unpaid) <= Cardinality(Through)
        /\ Cardinality(Paid \cup unpaid) \in Nat /\ Cardinality(Through) \in Nat
    BY <2>2, Counting
  <2>4. misses \in Nat /\ \A p \in held : MaxContributors[p] \in Nat
    BY <2>1 DEF Known, TypeOK, LimitsAssumption
  <2>5. QED
    BY <2>1, <2>3, <2>4, CallsCounted DEF QuotaHeld
<1>4. QED
  BY <1>1, <1>2, <1>3, PTL DEF Spec

-----------------------------------------------------------------------------
(* Keys *)

\* The calls of the tenant that have counted its keys and will make one.
Creating == {c \in Calls : Mine(c) /\ call[c].at = "create"}

KeysHeld ==
  Exists => \E p \in everHeld :
    keys + Cardinality(Creating) <= MaxAPIKeys[p] + Cardinality(Calls) - 1

LEMMA CreatingCounted ==
  ASSUME LimitsAssumption, NEW S \in SUBSET Calls, NEW T \in SUBSET S
  PROVE  /\ IsFiniteSet(S) /\ Cardinality(S) \in Nat /\ Cardinality(T) \in Nat
         /\ Cardinality(T) <= Cardinality(S)
         /\ Cardinality(S) <= Cardinality(Calls)
<1>1. IsFiniteSet(Calls)
  BY DEF LimitsAssumption
<1>2. IsFiniteSet(S) /\ Cardinality(S) <= Cardinality(Calls)
  BY <1>1, FS_Subset
<1>3. IsFiniteSet(T) /\ Cardinality(T) <= Cardinality(S)
  BY <1>2, FS_Subset
<1>4. QED
  BY <1>2, <1>3, FS_CardinalityType

\* No more keys, no more calls that make one, and no plan is forgotten.
LEMMA NoMoreKeys ==
  ASSUME LimitsAssumption, Known, Known', KeysHeld, Exists' => Exists,
         everHeld \subseteq everHeld', keys' <= keys, Creating' \subseteq Creating
  PROVE  KeysHeld'
<1>1. Cardinality(Creating') \in Nat /\ Cardinality(Creating) \in Nat
      /\ Cardinality(Creating') <= Cardinality(Creating)
  <2>1. Creating \subseteq Calls
    BY DEF Creating
  <2>2. QED
    BY <2>1, CreatingCounted
<1>2. keys \in Nat /\ keys' \in Nat /\ everHeld \subseteq Plans
  BY DEF Known, TypeOK
<1>3. \A p \in Plans : MaxAPIKeys[p] \in Nat
  BY DEF LimitsAssumption
<1>4. QED
  BY <1>1, <1>2, <1>3, CallsCounted DEF KeysHeld

LEMMA CallMovesKeys ==
  ASSUME LimitsAssumption, Known, KeysHeld, NEW c \in Calls, CallMoves(c)
  PROVE  KeysHeld'
<1>1. /\ Known' /\ call[c].at # "quiet" /\ UNCHANGED <<tenant, everHeld>>
      /\ \A d \in Calls : d # c => call'[d] = call[d]
      /\ \/ call'[c] = Quiet
         \/ /\ call'[c].id = call[c].id
            /\ \/ CheckQuota(c) /\ call'[c].at = "score"
               \/ CheckKeys(c) /\ call'[c].at = "create"
  BY CallMovesKnown
<1>2. (Exists' <=> Exists) /\ Creating \subseteq Calls /\ Creating' \subseteq Calls
  BY <1>1 DEF Exists, Creating
<1>3. keys \in Nat /\ keys' \in Nat
  BY <1>1 DEF Known, TypeOK
<1>4. CASE CheckKeys(c) /\ Mine(c) /\ ~AtKeyLimit(c)
  <2>1. call[c].plan \in everHeld /\ call[c].plan \in Plans
    BY <1>4, MineIsNotQuiet, CallIs DEF Known, PlansKnown
  <2>2. MaxAPIKeys[call[c].plan] \in Nat
    BY <2>1 DEF LimitsAssumption
  <2>3. keys < MaxAPIKeys[call[c].plan] /\ keys' = keys
    BY <1>3, <1>4, <2>2 DEF AtKeyLimit, ListAPITokens, CheckKeys
  <2>4. Cardinality(Creating') \in Nat /\ Cardinality(Creating') <= Cardinality(Calls)
    BY <1>2, CreatingCounted
  <2>5. keys' + Cardinality(Creating')
          <= MaxAPIKeys[call[c].plan] + Cardinality(Calls) - 1
    BY <1>3, <2>2, <2>3, <2>4, CallsCounted
  <2>6. QED
    BY <1>1, <2>1, <2>5 DEF KeysHeld
<1>5. CASE ~(CheckKeys(c) /\ Mine(c) /\ ~AtKeyLimit(c))
  <2>1. Creating' \subseteq Creating /\ (call[c].at = "create" => c \notin Creating')
    <3>1. ASSUME NEW d \in Creating' PROVE d \in Creating
      <4>1. d \in Calls /\ Mine(d)' /\ call'[d].at = "create"
        BY <3>1 DEF Creating
      <4>2. CASE d # c
        BY <1>1, <1>2, <4>1, <4>2 DEF Creating, Mine
      <4>3. CASE d = c
        <5>1. call'[c] # Quiet /\ CheckKeys(c) /\ call'[c].id = call[c].id
          BY <1>1, <4>1, <4>3 DEF Quiet
        <5>2. Mine(c)
          BY <1>1, <1>2, <4>1, <4>3, <5>1 DEF Mine
        <5>3. ~AtKeyLimit(c)
          <6>1. CASE Leave(c)
            BY <5>1, <6>1, Leaves
          <6>2. QED
            BY <5>1, <6>1 DEF CheckKeys
        <5>4. QED
          BY <1>5, <5>1, <5>2, <5>3
      <4>4. QED
        BY <4>2, <4>3
    <3>2. QED
      BY <3>1, <1>1 DEF Creating, Quiet, CheckKeys, CheckQuota
  <2>2. CASE keys' <= keys
    BY <1>1, <1>2, <2>1, <2>2, NoMoreKeys
  <2>3. CASE ~(keys' <= keys)
    <3>1. CreateAPIToken(c) /\ Mine(c) /\ keys' = keys + 1
      BY <1>3, <2>3 DEF CallMoves, CheckQuota, ScoreFails, RecordUsage, CheckKeys,
                        CreateAPIToken, RevokeAPIToken, history
    <3>2. c \in Creating /\ c \notin Creating'
      BY <2>1, <3>1 DEF Creating, CreateAPIToken
    <3>3. /\ IsFiniteSet(Creating) /\ Cardinality(Creating) \in Nat
          /\ Creating' \subseteq Creating \ {c}
      BY <1>2, <2>1, <3>2, CreatingCounted
    <3>4. Cardinality(Creating \ {c}) = Cardinality(Creating) - 1
      BY <3>2, <3>3, FS_RemoveElement
    <3>5. /\ Cardinality(Creating') <= Cardinality(Creating \ {c})
          /\ Cardinality(Creating') \in Nat
      BY <1>2, <3>3, CreatingCounted
    <3>6. \A p \in everHeld : MaxAPIKeys[p] \in Nat
      BY DEF Known, TypeOK, LimitsAssumption
    <3>7. QED
      BY <1>1, <1>2, <1>3, <3>1, <3>3, <3>4, <3>5, <3>6, CallsCounted DEF KeysHeld
  <2>4. QED
    BY <2>2, <2>3
<1>6. QED
  BY <1>4, <1>5

LEMMA KeysStep ==
  ASSUME LimitsAssumption, Known, KeysHeld, [Next]_vars
  PROVE  KeysHeld'
<1>0. Known' /\ keys \in Nat
  BY KnownStep DEF Known, TypeOK
<1>1. CASE SignUp
  <2>1. Creating' = {} /\ keys' = 0 /\ everHeld' = {DefaultPlan}
    BY <1>1, NobodysCalls DEF SignUp, Creating
  <2>2. Cardinality(Creating') = 0
    BY <2>1, FS_EmptySet
  <2>3. MaxAPIKeys[DefaultPlan] \in Nat \ {0}
    BY DEF LimitsAssumption
  <2>4. QED
    BY <2>1, <2>2, <2>3, CallsCounted DEF KeysHeld
<1>2. ASSUME Exists' => Exists /\ tenant'.id = tenant.id,
             UNCHANGED <<keys, call>>, everHeld \subseteq everHeld'
      PROVE  KeysHeld'
  <2>1. CASE Exists'
    <3>1. Creating' \subseteq Creating
      BY <1>2, <2>1 DEF Creating, Mine
    <3>2. QED
      BY <1>0, <1>2, <3>1, NoMoreKeys
  <2>2. CASE ~Exists'
    BY <2>2 DEF KeysHeld
  <2>3. QED
    BY <2>1, <2>2
<1>3. CASE NewPeriod \/ \E change \in Plans \cup {"status", "delete"} : LookUp(change)
  BY <1>2, <1>3 DEF NewPeriod, LookUp, Exists
<1>4. CASE Change
  <2>1. CASE UNCHANGED <<tenant, usage, keys, unpaid, held, everHeld>>
    BY <1>2, <1>4, <2>1 DEF Change, Exists
  <2>2. ASSUME Exists, NEW p \in Plans, UpdateTenantPlan(p),
               UNCHANGED <<usage, keys, unpaid>>
        PROVE  KeysHeld'
    BY <1>2, <1>4, <2>2, TenantIs DEF Change, UpdateTenantPlan
  <2>3. ASSUME Exists, UpdateTenantStatus, UNCHANGED <<usage, keys, unpaid>>
        PROVE  KeysHeld'
    BY <1>2, <1>4, <2>3, TenantIs DEF Change, UpdateTenantStatus
  <2>4. CASE DeleteTenant
    BY <2>4 DEF DeleteTenant, KeysHeld, Exists
  <2>5. QED
    BY <1>4, <2>1, <2>2, <2>3, <2>4 DEF Change
<1>5. ASSUME NEW c \in Calls, NEW at \in {"api", "page", "key", "revoke"}, NEW S,
             Enter(c, at, S)
      PROVE  KeysHeld'
  <2>1. /\ UNCHANGED <<tenant, keys, everHeld>>
        /\ \A d \in Calls : d # c => call'[d] = call[d]
        /\ call'[c].at = at
    <3>1. call \in [Calls -> Call]
      BY DEF Known, TypeOK
    <3>2. QED
      BY <1>5, <3>1 DEF Enter, history
  <2>2. Creating' \subseteq Creating /\ (Exists' => Exists)
    BY <2>1 DEF Creating, Mine, Exists
  <2>3. QED
    BY <1>0, <2>1, <2>2, NoMoreKeys
<1>6. ASSUME NEW c \in Calls, CallStep(c) PROVE KeysHeld'
  BY <1>5, <1>6, CallMovesKeys DEF CallStep, CallMoves
<1>7. CASE UNCHANGED vars
  BY <1>2, <1>7 DEF vars, history, Exists
<1>8. QED
  BY <1>1, <1>3, <1>4, <1>6, <1>7 DEF Next, Administration

\* However many calls a tenant has under way, and whatever plans it moves between,
\* it exceeds the largest number of keys it was ever allowed only by calls counted
\* together (createTokenHandler).
THEOREM KeysHold == LimitsAssumption => (Spec => []KeysWithinRace)
<1> SUFFICES ASSUME LimitsAssumption PROVE Spec => []KeysWithinRace
  OBVIOUS
<1>1. Init => Known /\ KeysHeld
  <2>1. Init => KeysHeld
    BY DEF Init, KeysHeld, Exists
  <2>2. QED
    BY <2>1, KnownInit
<1>2. Known /\ KeysHeld /\ [Next]_vars => (Known /\ KeysHeld)'
  BY KnownStep, KeysStep
<1>3. Known /\ KeysHeld => KeysWithinRace
  <2>1. SUFFICES ASSUME Known, KeysHeld, Exists
                 PROVE  \E p \in everHeld :
                          keys <= MaxAPIKeys[p] + Cardinality(Calls) - 1
    BY DEF KeysWithinRace
  <2>2. Cardinality(Creating) \in Nat
    <3>1. Creating \subseteq Calls
      BY DEF Creating
    <3>2. QED
      BY <3>1, CreatingCounted
  <2>3. keys \in Nat /\ \A p \in everHeld : MaxAPIKeys[p] \in Nat
    BY <2>1 DEF Known, TypeOK, LimitsAssumption
  <2>4. QED
    BY <2>1, <2>2, <2>3, CallsCounted DEF KeysHeld
<1>4. QED
  BY <1>1, <1>2, <1>3, PTL DEF Spec

=============================================================================
