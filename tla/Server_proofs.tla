------------------------------ MODULE Server_proofs ------------------------------
(***************************************************************************)
(* Any number of replicas migrate a database once, whatever crashes; the   *)
(* writes of a replica precede the end of its store; any number of         *)
(* goroutines mint one token per expiry; the rows of any number of         *)
(* installations follow GitHub.                                            *)
(***************************************************************************)
EXTENDS Lifecycle, InstallationClient, Installations, FiniteSetTheorems, TLAPS

-----------------------------------------------------------------------------
(* Types of the replicas *)

\* A replica that runs or records a file is at a version there is.
LifecycleTypes ==
  /\ LifecycleTypeOK
  /\ \A r \in Replicas : pc[r] \in {"apply", "record"} => at[r] \in Versions

LEMMA LifecycleTypeInit == LifecycleInit => LifecycleTypes
<1>1. (CHOOSE r \in Replicas : TRUE) \in Replicas
  BY LifecycleAssumption
<1>2. 1 \in 1..LastVersion + 1
  BY LifecycleAssumption
<1>3. QED
  BY <1>1, <1>2, LifecycleAssumption
     DEF LifecycleInit, LifecycleTypes, LifecycleTypeOK, Stages, Versions

LEMMA LifecycleTypeStep ==
  ASSUME LifecycleTypes, [LifecycleNext]_lifeVars
  PROVE  LifecycleTypes'
<1> USE LifecycleAssumption
    DEF LifecycleTypes, LifecycleTypeOK, Stages, Versions, Step, Fault
<1>1. ASSUME NEW r \in Replicas, Start(r) PROVE LifecycleTypes'
  BY <1>1 DEF Start
<1>2. ASSUME NEW r \in Replicas, TakeLock(r) PROVE LifecycleTypes'
  BY <1>2 DEF TakeLock
<1>3. ASSUME NEW r \in Replicas, CheckVersion(r) PROVE LifecycleTypes'
  <2>1. CASE at[r] > LastVersion /\ pc' = [pc EXCEPT ![r] = "unlock"] /\ UNCHANGED at
    BY <1>3, <2>1 DEF CheckVersion
  <2>2. CASE at[r] \in recorded /\ at' = [at EXCEPT ![r] = @ + 1] /\ UNCHANGED pc
    <3>1. pc[r] = "check" /\ at[r] + 1 \in 1..LastVersion + 1
      BY <1>3, <2>2 DEF CheckVersion
    <3>2. QED
      BY <1>3, <2>2, <3>1 DEF CheckVersion
  <2>3. CASE /\ at[r] \in Versions \ recorded
             /\ pc' = [pc EXCEPT ![r] = "apply"] /\ UNCHANGED at
    BY <1>3, <2>3 DEF CheckVersion
  <2>4. QED
    BY <1>3, <2>1, <2>2, <2>3 DEF CheckVersion
<1>4. ASSUME NEW r \in Replicas, ApplyVersion(r) PROVE LifecycleTypes'
  <2>1. at[r] \in Versions /\ schema' \in [Versions -> Nat]
    BY <1>4 DEF ApplyVersion
  <2>2. recorded' \subseteq Versions /\ pc' = [pc EXCEPT ![r] = "record"]
    BY <1>4 DEF ApplyVersion
  <2>3. QED
    BY <1>4, <2>1, <2>2 DEF ApplyVersion
<1>5. ASSUME NEW r \in Replicas, RecordVersion(r) PROVE LifecycleTypes'
  BY <1>5 DEF RecordVersion
<1>6. ASSUME NEW r \in Replicas, Unlock(r) \/ CloseIdle(r) \/ Serve(r)
      PROVE  LifecycleTypes'
  <2>1. CASE Unlock(r)
    BY <2>1, SMTT(30) DEF Unlock
  <2>2. CASE CloseIdle(r)
    BY <2>2 DEF CloseIdle
  <2>3. CASE Serve(r)
    BY <2>3 DEF Serve
  <2>4. QED
    BY <1>6, <2>1, <2>2, <2>3
<1>7. ASSUME NEW r \in Replicas, NEW j \in Jobs, Arrive(j, r)
      PROVE  LifecycleTypes'
  BY <1>7 DEF Arrive
<1>8. ASSUME NEW j \in Jobs, Answer(j) \/ Write(j) PROVE LifecycleTypes'
  BY <1>8 DEF Answer, Write
<1>9. ASSUME NEW r \in Replicas, Signal(r) \/ ListenFails(r) \/ Shutdown(r)
      PROVE  LifecycleTypes'
  <2>1. CASE Signal(r)
    BY <2>1 DEF Signal
  <2>2. CASE ListenFails(r)
    BY <2>2 DEF ListenFails
  <2>3. CASE Shutdown(r)
    BY <2>3, SMTT(30) DEF Shutdown
  <2>4. QED
    BY <1>9, <2>1, <2>2, <2>3
<1>10. ASSUME NEW r \in Replicas, CloseStore(r) PROVE LifecycleTypes'
  BY <1>10, SMTT(30) DEF CloseStore
<1>11. ASSUME NEW r \in Replicas, Exit(r) PROVE LifecycleTypes'
  BY <1>11 DEF Exit, Gone
<1>12. ASSUME NEW r \in Replicas, StartFails(r) PROVE LifecycleTypes'
  BY <1>12 DEF StartFails, Cut
<1>13. ASSUME NEW r \in Replicas, Crash(r) PROVE LifecycleTypes'
  BY <1>13 DEF Crash, Cut, Gone
<1>14. CASE UNCHANGED lifeVars
  BY <1>14 DEF lifeVars
<1>15. QED
  BY <1>1, <1>2, <1>3, <1>4, <1>5, <1>6, <1>7, <1>8, <1>9, <1>10, <1>11, <1>12,
     <1>13, <1>14
     DEF LifecycleNext, Migrate, Leave

\* The variables of the replicas keep their types, in particular no version is
\* recorded but those of the files (Migrate).
THEOREM LifecycleTypesHold == LifecycleSpec => []LifecycleTypeOK
<1>1. LifecycleTypes => LifecycleTypeOK
  BY DEF LifecycleTypes
<1>2. QED
  BY <1>1, LifecycleTypeInit, LifecycleTypeStep, PTL DEF LifecycleSpec

-----------------------------------------------------------------------------
(* The migrations *)

\* Only one session has the lock, and who migrates has it.
LockGuards ==
  /\ \A r \in Replicas : pc[r] \in Migrating => r \in lock
  /\ \A r, s \in lock : r = s

\* Versions are looked at from the first, and recorded in order after their files
\* have been run.
InOrder ==
  /\ \A v \in recorded : schema[v] > 0 /\ 1..v \subseteq recorded
  /\ \A r \in Replicas :
       pc[r] \in {"check", "apply", "record"} => 1..at[r] - 1 \subseteq recorded
  /\ \A r \in Replicas :
       pc[r] \in {"apply", "record"} => at[r] \notin recorded
  /\ \A r \in Replicas : pc[r] = "record" => schema[at[r]] > 0
  /\ \A r \in Replicas : pc[r] = "lock" => at[r] = 1

\* A file has been run once more often than replicas ended in its middle only
\* if it is recorded, or about to be.
RunOnce ==
  \A v \in Versions :
    /\ schema[v] <= cut + 1
    /\ v \notin recorded =>
         \/ schema[v] <= cut
         \/ \E r \in Replicas : pc[r] = "record" /\ at[r] = v

Migrations == LifecycleTypes /\ LockGuards /\ InOrder /\ RunOnce

LEMMA MigrationsInit == LifecycleInit => Migrations
<1>1. LifecycleInit => LockGuards /\ InOrder /\ RunOnce
  BY DEF LifecycleInit, LockGuards, InOrder, RunOnce, Migrating
<1>2. QED
  BY <1>1, LifecycleTypeInit DEF Migrations

\* Of the replicas only r moves, from one stage to another.
LEMMA LockStep ==
  ASSUME Migrations, [LifecycleNext]_lifeVars
  PROVE  LockGuards'
<1> USE DEF Migrations, LockGuards, LifecycleTypes, LifecycleTypeOK, Step, Migrating
<1>1. ASSUME NEW r \in Replicas, TakeLock(r) PROVE LockGuards'
  BY <1>1 DEF TakeLock
<1>2. ASSUME NEW r \in Replicas, CheckVersion(r) PROVE LockGuards'
  BY <1>2 DEF CheckVersion
<1>3. ASSUME NEW r \in Replicas,
             Start(r) \/ ApplyVersion(r) \/ RecordVersion(r) \/ Serve(r) \/ Signal(r)
             \/ ListenFails(r) \/ Shutdown(r)
      PROVE  LockGuards'
  BY <1>3
     DEF Start, ApplyVersion, RecordVersion, Serve, Signal, ListenFails, Shutdown
<1>4. ASSUME NEW r \in Replicas,
             Unlock(r) \/ CloseIdle(r) \/ CloseStore(r) \/ Exit(r)
      PROVE  LockGuards'
  BY <1>4 DEF Unlock, CloseIdle, CloseStore, Exit
<1>5. ASSUME NEW r \in Replicas, StartFails(r) \/ Crash(r) PROVE LockGuards'
  BY <1>5 DEF StartFails, Crash
<1>6. CASE UNCHANGED <<pc, lock>>
  BY <1>6
<1>7. QED
  BY <1>1, <1>2, <1>3, <1>4, <1>5, <1>6
     DEF LifecycleNext, Migrate, Leave, Arrive, Answer, Write, lifeVars

\* Nobody migrates beside a replica that does.
LEMMA OnlyOneMigrates ==
  ASSUME LockGuards, NEW r \in Replicas, NEW s \in Replicas,
         pc[r] \in Migrating, pc[s] \in Migrating
  PROVE  r = s
  BY DEF LockGuards

\* The steps that leave the files and the records alone, and bring no replica to
\* a stage of the migration.
LEMMA QuietSteps ==
  ASSUME Migrations, UNCHANGED <<recorded, schema>>, cut' \in Nat, cut' >= cut,
         \A r \in Replicas :
           pc'[r] \in {"check", "apply", "record"} =>
             pc'[r] = pc[r] /\ at'[r] = at[r],
         \A r \in Replicas :
           pc'[r] = "lock" => at'[r] = 1,
         \A r \in Replicas :
           pc[r] = "record" => \/ pc'[r] = "record"
                               \/ cut' = cut + 1
  PROVE  InOrder' /\ RunOnce'
<1> USE DEF Migrations, LifecycleTypes, LifecycleTypeOK
<1>1. InOrder'
  BY DEF InOrder
<1>2. RunOnce'
  <2> SUFFICES ASSUME NEW v \in Versions
               PROVE  /\ schema[v] <= cut' + 1
                      /\ v \notin recorded =>
                           \/ schema[v] <= cut'
                           \/ \E r \in Replicas : pc'[r] = "record" /\ at'[r] = v
    BY DEF RunOnce
  <2>1. schema[v] \in Nat /\ cut \in Nat /\ schema[v] <= cut + 1
    BY DEF RunOnce
  <2>2. CASE v \in recorded \/ schema[v] <= cut
    BY <2>1, <2>2
  <2>3. ASSUME NEW r \in Replicas, pc[r] = "record", at[r] = v
        PROVE  \/ schema[v] <= cut'
               \/ \E s \in Replicas : pc'[s] = "record" /\ at'[s] = v
    BY <2>1, <2>3
  <2>4. QED
    BY <2>1, <2>2, <2>3 DEF RunOnce
<1>3. QED
  BY <1>1, <1>2

\* A replica takes the lock and looks at the versions from the first.
LEMMA TakeLockKeeps ==
  ASSUME Migrations, NEW r \in Replicas, TakeLock(r)
  PROVE  InOrder' /\ RunOnce'
<1> USE DEF Migrations, LifecycleTypes, LifecycleTypeOK, TakeLock, Step
<1>1. 1..at[r] - 1 = {}
  BY DEF InOrder
<1>2. InOrder'
  BY <1>1 DEF InOrder
<1>3. RunOnce'
  BY DEF RunOnce
<1>4. QED
  BY <1>2, <1>3

LEMMA CheckKeeps ==
  ASSUME Migrations, NEW r \in Replicas, CheckVersion(r)
  PROVE  InOrder' /\ RunOnce'
<1> USE DEF Migrations, LifecycleTypes, LifecycleTypeOK
<1>1. pc[r] = "check" /\ at[r] \in 1..LastVersion + 1 /\ LastVersion \in Nat
  BY LifecycleAssumption DEF CheckVersion
<1>2. UNCHANGED <<recorded, schema, cut>>
  BY DEF CheckVersion
<1>3. RunOnce'
  BY <1>1, <1>2 DEF RunOnce, CheckVersion
<1>4. CASE at[r] > LastVersion /\ pc' = [pc EXCEPT ![r] = "unlock"] /\ UNCHANGED at
  BY <1>2, <1>3, <1>4 DEF InOrder
<1>5. CASE at[r] \in recorded /\ at' = [at EXCEPT ![r] = @ + 1] /\ UNCHANGED pc
  <2>1. 1..(at[r] + 1) - 1 \subseteq recorded
    <3>1. 1..(at[r] + 1) - 1 = 1..at[r]
      BY <1>1
    <3>2. QED
      BY <1>5, <3>1 DEF InOrder
  <2>2. QED
    BY <1>1, <1>2, <1>3, <1>5, <2>1 DEF InOrder
<1>6. CASE /\ at[r] \in Versions \ recorded
           /\ pc' = [pc EXCEPT ![r] = "apply"] /\ UNCHANGED at
  BY <1>1, <1>2, <1>3, <1>6 DEF InOrder
<1>7. QED
  BY <1>4, <1>5, <1>6 DEF CheckVersion

\* The first file finds no version recorded when it drops the table.
LEMMA ApplyKeeps ==
  ASSUME Migrations, NEW r \in Replicas, ApplyVersion(r)
  PROVE  InOrder' /\ RunOnce'
<1> USE DEF Migrations, LifecycleTypes, LifecycleTypeOK
<1>1. /\ pc[r] = "apply" /\ pc' = [pc EXCEPT ![r] = "record"]
      /\ schema' = [schema EXCEPT ![at[r]] = @ + 1]
      /\ UNCHANGED <<at, cut>> /\ at[r] \in Versions /\ at[r] \notin recorded
  BY DEF ApplyVersion, Step, InOrder
<1>2. recorded' = recorded
  <2>1. CASE at[r] = 1
    <3>1. \A v \in recorded : 1 \in 1..v
      BY DEF Versions
    <3>2. recorded = {}
      BY <1>1, <2>1, <3>1 DEF InOrder
    <3>3. QED
      BY <2>1, <3>2 DEF ApplyVersion
  <2>2. CASE at[r] # 1
    BY <2>2 DEF ApplyVersion
  <2>3. QED
    BY <2>1, <2>2
<1>3. \A s \in Replicas : s # r => pc[s] \notin {"check", "apply", "record"}
  BY <1>1, OnlyOneMigrates DEF Migrating
<1>4. \A v \in Versions : /\ schema[v] \in Nat
                          /\ v # at[r] => schema'[v] = schema[v]
                          /\ schema'[at[r]] = schema[at[r]] + 1
  BY <1>1
<1>5. InOrder'
  <2>1. \A v \in recorded : schema'[v] > 0 /\ 1..v \subseteq recorded
    BY <1>4, <1>1 DEF InOrder
  <2>2. schema'[at[r]] > 0
    BY <1>1, <1>4
  <2>3. QED
    BY <1>1, <1>2, <1>3, <2>1, <2>2 DEF InOrder
<1>6. RunOnce'
  <2>1. schema[at[r]] <= cut
    BY <1>1, <1>3 DEF RunOnce
  <2>2. cut \in Nat
    OBVIOUS
  <2>3. QED
    BY <1>1, <1>2, <1>3, <1>4, <2>1, <2>2 DEF RunOnce
<1>7. QED
  BY <1>5, <1>6

LEMMA RecordKeeps ==
  ASSUME Migrations, NEW r \in Replicas, RecordVersion(r)
  PROVE  InOrder' /\ RunOnce'
<1> USE DEF Migrations, LifecycleTypes, LifecycleTypeOK
<1>1. /\ pc[r] = "record" /\ pc' = [pc EXCEPT ![r] = "check"]
      /\ recorded' = recorded \cup {at[r]}
      /\ UNCHANGED <<at, cut, schema>> /\ at[r] \in Versions
      /\ schema[at[r]] > 0
  BY DEF RecordVersion, Step, InOrder
<1>2. \A s \in Replicas : s # r => pc[s] \notin {"check", "apply", "record"}
  BY <1>1, OnlyOneMigrates DEF Migrating
<1>3. 1..at[r] \subseteq recorded \cup {at[r]}
  <2>1. 1..at[r] - 1 \subseteq recorded
    BY <1>1 DEF InOrder
  <2>2. \A w \in 1..at[r] : w \in 1..at[r] - 1 \/ w = at[r]
    BY <1>1 DEF Versions
  <2>3. QED
    BY <2>1, <2>2
<1>4. 1..at[r] - 1 \subseteq recorded
  BY <1>1 DEF InOrder
<1>5. InOrder'
  BY <1>1, <1>2, <1>3, <1>4 DEF InOrder
<1>6. RunOnce'
  BY <1>1, <1>2 DEF RunOnce
<1>7. QED
  BY <1>5, <1>6

LEMMA MigrationsStep ==
  ASSUME Migrations, [LifecycleNext]_lifeVars
  PROVE  Migrations'
<1> DEFINE Kept == InOrder' /\ RunOnce'
<1> USE DEF LifecycleTypes, LifecycleTypeOK, Step
<1>0. cut \in Nat /\ pc \in [Replicas -> Stages] /\ at \in [Replicas -> 1..LastVersion + 1]
  BY DEF Migrations
<1>1. ASSUME NEW r \in Replicas, Start(r) PROVE Kept
  BY <1>0, <1>1, QuietSteps DEF Start, Migrations, InOrder
<1>2. ASSUME NEW r \in Replicas, TakeLock(r) PROVE Kept
  BY <1>2, TakeLockKeeps
<1>3. ASSUME NEW r \in Replicas, CheckVersion(r) PROVE Kept
  BY <1>3, CheckKeeps
<1>4. ASSUME NEW r \in Replicas, ApplyVersion(r) PROVE Kept
  BY <1>4, ApplyKeeps
<1>5. ASSUME NEW r \in Replicas, RecordVersion(r) PROVE Kept
  BY <1>5, RecordKeeps
<1>6. ASSUME NEW r \in Replicas,
             Unlock(r) \/ CloseIdle(r) \/ Serve(r) \/ Signal(r) \/ ListenFails(r)
             \/ Shutdown(r) \/ CloseStore(r) \/ Exit(r)
      PROVE  Kept
  <2>1. UNCHANGED <<recorded, schema, cut, at>>
    BY <1>6 DEF Unlock, CloseIdle, Serve, Signal, ListenFails, Shutdown,
                CloseStore, Exit
  <2>2. pc[r] # "record" /\ pc[r] # "lock" => pc'[r] \notin Migrating \/ pc'[r] = pc[r]
    BY <1>0, <1>6 DEF Unlock, CloseIdle, Serve, Signal, ListenFails, Shutdown,
                CloseStore, Exit, Migrating
  <2>3. /\ pc'[r] \notin {"check", "apply", "record", "lock"} \/ pc'[r] = pc[r]
        /\ pc[r] = "record" => pc'[r] = "record"
        /\ \A s \in Replicas : s # r => pc'[s] = pc[s]
    BY <1>0, <1>6 DEF Unlock, CloseIdle, Serve, Signal, ListenFails, Shutdown,
                CloseStore, Exit, Migrating
  <2>4. QED
    BY <1>0, <2>1, <2>3, QuietSteps DEF Migrations, InOrder
<1>7. ASSUME NEW r \in Replicas, StartFails(r) \/ Crash(r) PROVE Kept
  <2>1. /\ UNCHANGED <<recorded, schema, at>>
        /\ cut' = IF pc[r] = "record" THEN cut + 1 ELSE cut
        /\ pc'[r] \in {"drain", "down"}
        /\ \A s \in Replicas : s # r => pc'[s] = pc[s]
    BY <1>0, <1>7 DEF StartFails, Crash, Cut
  <2>2. QED
    BY <1>0, <2>1, QuietSteps DEF Migrations, InOrder
<1>8. ASSUME UNCHANGED <<recorded, schema, cut, at, pc>> PROVE Kept
  <2>1. /\ UNCHANGED <<recorded, schema>> /\ cut' = cut
        /\ \A r \in Replicas : pc'[r] = pc[r] /\ at'[r] = at[r]
    BY <1>8
  <2>2. \A r \in Replicas : pc'[r] = "lock" => at'[r] = 1
    BY <2>1 DEF Migrations, InOrder
  <2>3. QED
    BY <1>0, <2>1, <2>2, QuietSteps
<1>9. Kept
  BY <1>1, <1>2, <1>3, <1>4, <1>5, <1>6, <1>7, <1>8
     DEF LifecycleNext, Migrate, Leave, Arrive, Answer, Write, lifeVars
<1>10. QED
  BY <1>9, LifecycleTypeStep, LockStep DEF Migrations

\* Replicas that boot together run each file once but for those that end between
\* running and recording it, in order, and one at a time (Migrate).
THEOREM MigrationsRunOnce == LifecycleSpec => []MigratesOnce
<1>1. Migrations => MigratesOnce
  <2>1. SUFFICES ASSUME Migrations PROVE MigratesOnce
    OBVIOUS
  <2> DEFINE S == {r \in Replicas : pc[r] \in Migrating}
  <2>2. \A r, s \in S : r = s
    BY <2>1, OnlyOneMigrates DEF Migrations
  <2>3. S = {} \/ \E r : S = {r}
    <3>1. CASE S # {}
      <4>1. PICK r \in S : TRUE
        BY <3>1
      <4>2. S = {r}
        BY <2>2, <4>1
      <4>3. QED
        BY <4>2
    <3>2. QED
      BY <3>1
  <2>4. Cardinality(S) <= 1
    <3> HIDE DEF S
    <3>1. CASE S = {}
      BY <3>1, FS_EmptySet
    <3>2. ASSUME NEW r, S = {r} PROVE Cardinality(S) <= 1
      BY <3>2, FS_Singleton
    <3>3. QED
      BY <2>3, <3>1, <3>2
  <2>5. \A v \in Versions : schema[v] <= 1 + cut
    BY <2>1 DEF Migrations, RunOnce, LifecycleTypes, LifecycleTypeOK
  <2>6. QED
    BY <2>1, <2>4, <2>5 DEF MigratesOnce, Migrations, InOrder
<1>2. QED
  BY <1>1, MigrationsInit, MigrationsStep, PTL DEF LifecycleSpec

-----------------------------------------------------------------------------
(* The writes *)

\* A replica that does not serve yet has no jobs; one that is past a step of its
\* shutdown has those left that it gave up waiting for.
JobsFollow ==
  \A j \in Jobs :
    LET r == home[j]
    IN  /\ job[j] = "handler" => \/ pc[r] \in {"serve", "stop"}
                                 \/ pc[r] \in {"drain", "exit"} /\ r \in excused
        /\ job[j] = "write" => \/ pc[r] \in {"serve", "stop", "drain"}
                               \/ pc[r] = "exit" /\ r \in excused

Writes == LifecycleTypes /\ JobsFollow /\ WritesPrecedeClose

LEMMA WritesStep ==
  ASSUME Writes, [LifecycleNext]_lifeVars
  PROVE  JobsFollow' /\ WritesPrecedeClose'
<1> DEFINE Kept == JobsFollow' /\ WritesPrecedeClose'
<1>0. ASSUME NEW r \in Replicas,
             TakeLock(r) \/ ApplyVersion(r) \/ RecordVersion(r) \/ Unlock(r)
             \/ CloseIdle(r) \/ Serve(r) \/ Signal(r)
      PROVE  /\ UNCHANGED <<job, home, excused, late>>
             /\ \/ UNCHANGED pc
                \/ /\ pc[r] \notin {"serve", "stop", "drain", "exit"}
                   /\ \E s \in Stages : pc' = [pc EXCEPT ![r] = s]
                \/ pc[r] = "serve" /\ pc' = [pc EXCEPT ![r] = "stop"]
  BY <1>0 DEF TakeLock, ApplyVersion, RecordVersion, Unlock, CloseIdle, Serve,
              Signal, Step, Stages
<1> USE DEF Writes, LifecycleTypes, LifecycleTypeOK, JobsFollow, WritesPrecedeClose,
            Step
<1>1. ASSUME NEW r \in Replicas, Start(r) PROVE Kept
  BY <1>1 DEF Start
<1>2. ASSUME NEW r \in Replicas,
             TakeLock(r) \/ ApplyVersion(r) \/ RecordVersion(r) \/ Unlock(r)
             \/ CloseIdle(r) \/ Serve(r) \/ Signal(r)
      PROVE  Kept
  BY <1>0, <1>2
<1>3. ASSUME NEW r \in Replicas, CheckVersion(r) PROVE Kept
  BY <1>3 DEF CheckVersion
<1>4. ASSUME NEW r \in Replicas, NEW j \in Jobs, Arrive(j, r) PROVE Kept
  BY <1>4 DEF Arrive
<1>5. ASSUME NEW j \in Jobs, Answer(j) PROVE Kept
  BY <1>5 DEF Answer
<1>6. ASSUME NEW j \in Jobs, Write(j) PROVE Kept
  BY <1>6 DEF Write
<1>7. ASSUME NEW r \in Replicas, ListenFails(r) PROVE Kept
  BY <1>7 DEF ListenFails
<1>8. ASSUME NEW r \in Replicas, Shutdown(r) PROVE Kept
  BY <1>8 DEF Shutdown, Running
<1>9. ASSUME NEW r \in Replicas, CloseStore(r) PROVE Kept
  BY <1>9 DEF CloseStore, Running
<1>10. ASSUME NEW r \in Replicas, Exit(r) PROVE Kept
  BY <1>10 DEF Exit, Gone
<1>11. ASSUME NEW r \in Replicas, StartFails(r) PROVE Kept
  BY <1>11 DEF StartFails, Migrating
<1>12. ASSUME NEW r \in Replicas, Crash(r) PROVE Kept
  BY <1>12 DEF Crash, Gone
<1>13. CASE UNCHANGED lifeVars
  BY <1>13 DEF lifeVars
<1>14. QED
  BY <1>1, <1>2, <1>3, <1>4, <1>5, <1>6, <1>7, <1>8, <1>9, <1>10, <1>11, <1>12,
     <1>13
     DEF LifecycleNext, Migrate, Leave

\* A write handed to the store meets it closed only where the shutdown gave up
\* waiting, or the listener failed (Run, WaitBackground, Close).
THEOREM WritesComeFirst == LifecycleSpec => []WritesPrecedeClose
<1>1. LifecycleInit => Writes
  BY LifecycleTypeInit DEF LifecycleInit, Writes, JobsFollow, WritesPrecedeClose
<1>2. Writes /\ [LifecycleNext]_lifeVars => Writes'
  BY WritesStep, LifecycleTypeStep DEF Writes
<1>3. Writes => WritesPrecedeClose
  BY DEF Writes
<1>4. QED
  BY <1>1, <1>2, <1>3, PTL DEF LifecycleSpec

-----------------------------------------------------------------------------
(* The client of an installation *)

\* Who mints has the mutex and found no fresh token; a fresh token was minted in
\* the place of one that had come near its end.
Minters ==
  /\ \A c \in Goroutines : place[c] = "mints" => mintMu = c /\ ~CachedTokenIfFresh
  /\ fresh => token # 0 /\ minted <= expiries + 1 + lost
  /\ ~fresh => minted <= expiries + lost

LEMMA MintersStep ==
  ASSUME ClientTypeOK, Minters, [ClientNext]_clientVars
  PROVE  ClientTypeOK' /\ Minters'
<1> DEFINE Kept == ClientTypeOK' /\ Minters'
<1> USE ClientAssumption DEF ClientTypeOK, Minters, CachedTokenIfFresh
<1>1. ASSUME NEW c \in Goroutines, Look(c) PROVE Kept
  BY <1>1 DEF Look, BuildClient
<1>2. ASSUME NEW c \in Goroutines, TakeMutex(c) PROVE Kept
  BY <1>2 DEF TakeMutex, BuildClient
<1>3. ASSUME NEW c \in Goroutines, Mint(c) PROVE Kept
  <2>1. minted + 1 \in 0..MaxMints /\ minted + 1 # 0
    BY <1>3 DEF Mint
  <2>2. ~fresh
    BY <1>3 DEF Mint
  <2>3. QED
    BY <1>3, <2>1, <2>2 DEF Mint, BuildClient
<1>4. ASSUME NEW c \in Goroutines, MintFails(c) PROVE Kept
  <2>1. ~fresh /\ UNCHANGED <<token, fresh, expiries>>
    BY <1>4 DEF MintFails
  <2>2. \/ minted' = minted + 1 /\ lost' = lost + 1 /\ minted + 1 \in 0..MaxMints
        \/ UNCHANGED <<minted, lost>>
    BY <1>4 DEF MintFails
  <2>3. minted' \in 0..MaxMints /\ lost' \in 0..minted' /\ minted' <= expiries + lost'
    BY <2>1, <2>2
  <2>4. ClientTypeOK'
    BY <1>4, <2>1, <2>3 DEF MintFails
  <2>5. \A d \in Goroutines : place'[d] = "mints" => mintMu' = d
    BY <1>4 DEF MintFails
  <2>6. QED
    BY <2>1, <2>3, <2>4, <2>5
<1>5. ASSUME NEW c \in Goroutines, CallEnds(c) PROVE Kept
  BY <1>5 DEF CallEnds
<1>6. CASE NearsExpiry
  <2>1. minted <= expiries + 1 + lost
    BY <1>6 DEF NearsExpiry
  <2>2. expiries' = expiries + 1 /\ expiries + 1 \in 0..MaxExpiries
    BY <1>6 DEF NearsExpiry
  <2>3. fresh' = FALSE
    BY <1>6 DEF NearsExpiry
  <2>4. \A c \in Goroutines : place[c] = "mints" => mintMu = c /\ ~CachedTokenIfFresh'
    BY <2>3, Zenon
  <2>5. ClientTypeOK'
    BY <1>6, <2>2, <2>3 DEF NearsExpiry
  <2>6. Minters'
    BY <1>6, <2>1, <2>2, <2>3, <2>4 DEF NearsExpiry
  <2>7. QED
    BY <2>5, <2>6
<1>7. CASE UNCHANGED clientVars
  BY <1>7 DEF clientVars
<1>8. QED
  BY <1>1, <1>2, <1>3, <1>4, <1>5, <1>6, <1>7 DEF ClientNext, MintEnds

\* Any number of goroutines that find a stale token mint one between them, and
\* none mints while a fresh one is cached (ghClient).
THEOREM OneMintPerExpiry == ClientSpec => []MintsOncePerExpiry
<1>1. ClientInit => ClientTypeOK /\ Minters
  <2>1. SUFFICES ASSUME ClientInit PROVE ClientTypeOK /\ Minters
    OBVIOUS
  <2>2. ClientTypeOK
    <3>1. fresh \in BOOLEAN
      BY <2>1, Zenon DEF ClientInit
    <3>2. 0 \in 0..MaxMints /\ 0 \in 0..MaxExpiries
      BY ClientAssumption
    <3>3. QED
      BY <2>1, <3>1, <3>2 DEF ClientInit, ClientTypeOK
  <2>3. Minters
    BY <2>1 DEF ClientInit, Minters
  <2>4. QED
    BY <2>2, <2>3
<1>2. ClientTypeOK /\ Minters => MintsOncePerExpiry
  BY DEF ClientTypeOK, Minters, MintsOncePerExpiry
<1>3. QED
  BY <1>1, <1>2, MintersStep, PTL DEF ClientSpec

-----------------------------------------------------------------------------
(* Events on their way *)

\* The last event about i that is on its way.
LastOf(i, n) ==
  /\ n \in DOMAIN mail /\ mail[n].about = i
  /\ \A m \in DOMAIN mail : m > n => mail[m].about # i

LEMMA MailTypes ==
  ASSUME InstallTypeOK
  PROVE  /\ DOMAIN mail = 1..Len(mail) /\ Len(mail) \in Nat
         /\ \A n \in 1..Len(mail) : mail[n] \in Event /\ mail[n].about \in InstallIds
<1>1. /\ DOMAIN mail = 1..Len(mail) /\ Len(mail) \in Nat
      /\ \A n \in 1..Len(mail) : mail[n] \in Event
  BY DEF InstallTypeOK
<1>2. QED
  BY <1>1 DEF Event

LEMMA AppendLast ==
  ASSUME InstallTypeOK, NEW e \in Event, mail' = Append(mail, e)
  PROVE  /\ mail' \in Seq(Event) /\ Coming(e.about)'
         /\ \A n : LastOf(e.about, n)' => mail'[n] = e
         /\ \A i : i # e.about => Coming(i)' = Coming(i)
         /\ \A i, n : i # e.about /\ LastOf(i, n)' => LastOf(i, n) /\ mail'[n] = mail[n]
<1>1. /\ mail' \in Seq(Event) /\ DOMAIN mail' = 1..(Len(mail) + 1)
      /\ \A n \in 1..Len(mail) : mail'[n] = mail[n]
      /\ mail'[Len(mail) + 1] = e
      /\ DOMAIN mail = 1..Len(mail) /\ Len(mail) \in Nat
  BY DEF InstallTypeOK
<1>2. \A n \in DOMAIN mail' : n \in DOMAIN mail \/ n = Len(mail) + 1
  BY <1>1
<1>3. DOMAIN mail \subseteq DOMAIN mail' /\ Len(mail) + 1 \in DOMAIN mail'
  BY <1>1
<1>4. Coming(e.about)'
  BY <1>1, <1>3 DEF Coming
<1>5. ASSUME NEW n, LastOf(e.about, n)' PROVE mail'[n] = e
  <2>1. n \notin DOMAIN mail
    <3>1. SUFFICES ASSUME n \in DOMAIN mail PROVE FALSE
      OBVIOUS
    <3>2. Len(mail) + 1 > n
      BY <1>1, <3>1
    <3>3. QED
      BY <1>1, <1>3, <1>5, <3>2 DEF LastOf
  <2>2. QED
    BY <1>1, <1>2, <1>5, <2>1 DEF LastOf
<1>6. ASSUME NEW i, i # e.about PROVE Coming(i)' = Coming(i)
  BY <1>1, <1>2, <1>3, <1>6 DEF Coming
<1>7. ASSUME NEW i, NEW n, i # e.about, LastOf(i, n)'
      PROVE  LastOf(i, n) /\ mail'[n] = mail[n]
  BY <1>1, <1>2, <1>3, <1>7 DEF LastOf
<1>8. QED
  BY <1>1, <1>4, <1>5, <1>6, <1>7

LEMMA TailLast ==
  ASSUME InstallTypeOK, mail # <<>>, mail' = Tail(mail)
  PROVE  /\ mail' \in Seq(Event) /\ Head(mail) \in Event /\ Head(mail) = mail[1]
         /\ \A i, n : LastOf(i, n)' => LastOf(i, n + 1) /\ mail'[n] = mail[n + 1]
         /\ \A i : ~Coming(i)' => ~Coming(i) \/ LastOf(i, 1)
<1>1. /\ mail' \in Seq(Event) /\ Len(mail) \in Nat /\ Len(mail) > 0
      /\ DOMAIN mail' = 1..(Len(mail) - 1) /\ DOMAIN mail = 1..Len(mail)
      /\ Head(mail) = mail[1] /\ Head(mail) \in Event
      /\ \A n \in 1..(Len(mail) - 1) : mail'[n] = mail[n + 1]
  BY DEF InstallTypeOK
<1>2. ASSUME NEW m \in DOMAIN mail, m # 1
      PROVE  m - 1 \in DOMAIN mail' /\ mail'[m - 1] = mail[m]
  <2>1. m - 1 \in 1..(Len(mail) - 1) /\ (m - 1) + 1 = m
    BY <1>1, <1>2
  <2>2. QED
    BY <1>1, <2>1
<1>3. ASSUME NEW i, NEW n, LastOf(i, n)'
      PROVE  LastOf(i, n + 1) /\ mail'[n] = mail[n + 1]
  <2>1. n \in 1..(Len(mail) - 1) /\ n + 1 \in DOMAIN mail /\ mail'[n] = mail[n + 1]
    BY <1>1, <1>3 DEF LastOf
  <2>2. ASSUME NEW m \in DOMAIN mail, m > n + 1 PROVE mail[m].about # i
    <3>1. m # 1 /\ m - 1 > n
      BY <1>1, <2>1, <2>2
    <3>2. QED
      BY <1>2, <1>3, <2>2, <3>1 DEF LastOf
  <2>3. QED
    BY <1>3, <2>1, <2>2 DEF LastOf
<1>4. ASSUME NEW i, ~Coming(i)' PROVE ~Coming(i) \/ LastOf(i, 1)
  <2>1. \A m \in DOMAIN mail : m # 1 => mail[m].about # i
    BY <1>2, <1>4 DEF Coming
  <2>2. 1 \in DOMAIN mail /\ \A m \in DOMAIN mail : m > 1 => m # 1
    BY <1>1
  <2>3. QED
    BY <2>1, <2>2 DEF Coming, LastOf
<1>5. QED
  BY <1>1, <1>3, <1>4

LEMMA SwapLast ==
  ASSUME InstallTypeOK, Len(mail) > 1,
         mail' = [mail EXCEPT ![1] = mail[2], ![2] = mail[1]]
  PROVE  /\ mail' \in Seq(Event) /\ mail[1] \in Event /\ mail[2] \in Event
         /\ \A i : i \notin {mail[1].about, mail[2].about} =>
              /\ Coming(i)' = Coming(i)
              /\ \A n : LastOf(i, n)' => LastOf(i, n) /\ mail'[n] = mail[n]
<1>1. /\ mail \in Seq(Event) /\ Len(mail) \in Nat /\ DOMAIN mail = 1..Len(mail)
      /\ 1 \in DOMAIN mail /\ 2 \in DOMAIN mail
      /\ mail[1] \in Event /\ mail[2] \in Event
  BY DEF InstallTypeOK
<1>2. /\ DOMAIN mail' = DOMAIN mail /\ mail'[1] = mail[2] /\ mail'[2] = mail[1]
      /\ \A n \in DOMAIN mail : n \notin {1, 2} => mail'[n] = mail[n]
  BY <1>1
<1>3. mail' \in Seq(Event)
  BY <1>1
<1>4. ASSUME NEW i, i \notin {mail[1].about, mail[2].about}
      PROVE  /\ Coming(i)' = Coming(i)
             /\ \A n : LastOf(i, n)' => LastOf(i, n) /\ mail'[n] = mail[n]
  BY <1>1, <1>2, <1>4 DEF Coming, LastOf
<1>5. QED
  BY <1>1, <1>3, <1>4

-----------------------------------------------------------------------------
(* The rows of the installations *)

Result(action) ==
  CASE action \in {"created", "unsuspend"} -> "active"
    [] action = "suspend" -> "suspended"
    [] OTHER -> "gone"

\* What the last event about an installation says is true, and once it has arrived
\* the row says it, or is about to.
Told(i) ==
  /\ \A n : LastOf(i, n) => truth[i] = Result(mail[n].action)
  /\ ~Coming(i) => (row[i] = "active" \/ creating[i] = "save" <=> truth[i] = "active")
  /\ row[i] = "active" /\ creating[i] = "no" => <<belongs[i], i>> \in implicit
  /\ creating[i] = "watch" => belongs[i] = owner[i]

Followed == InstallTypeOK /\ \A i \in InstallIds \ missed : Told(i)

\* A step that leaves an installation, its row and its events alone.
LEMMA ToldStays ==
  ASSUME NEW j, Told(j), truth'[j] = truth[j], row'[j] = row[j],
         belongs'[j] = belongs[j], owner'[j] = owner[j], creating'[j] = creating[j],
         row[j] = "active" /\ <<belongs[j], j>> \in implicit
           => <<belongs[j], j>> \in implicit',
         Coming(j)' = Coming(j),
         \A n : LastOf(j, n)' => LastOf(j, n) /\ mail'[n] = mail[n]
  PROVE  Told(j)'
<1>1. ASSUME NEW n, LastOf(j, n)' PROVE truth'[j] = Result(mail'[n].action)
  BY <1>1 DEF Told
<1>2. ~Coming(j)' => (row'[j] = "active" \/ creating'[j] = "save" <=> truth'[j] = "active")
  BY DEF Told
<1>3. row'[j] = "active" /\ creating'[j] = "no" => <<belongs'[j], j>> \in implicit'
  BY DEF Told
<1>4. creating'[j] = "watch" => belongs'[j] = owner'[j]
  BY DEF Told
<1>5. QED
  BY <1>1, <1>2, <1>3, <1>4 DEF Told

LEMMA SameMail ==
  ASSUME mail' = mail, NEW j
  PROVE  Coming(j)' = Coming(j) /\ \A n : LastOf(j, n)' = LastOf(j, n)
BY DEF Coming, LastOf

LEMMA FollowedInit == InstallInit => Followed
<1> SUFFICES ASSUME InstallInit PROVE Followed
  OBVIOUS
<1> USE DEF InstallInit
<1>1. sent \in 0..MaxEvents /\ troubles \in 0..MaxTroubles
  BY InstallationsAssumption
<1>2. signal \in BOOLEAN
  BY Zenon
<1>3. mail \in Seq(Event) /\ DOMAIN mail = {}
  OBVIOUS
<1>4. InstallTypeOK
  BY <1>1, <1>2, <1>3 DEF InstallTypeOK
<1>5. \A i \in InstallIds :
        row[i] = "absent" /\ truth[i] = "absent" /\ creating[i] = "no"
  OBVIOUS
<1>6. ASSUME NEW i \in InstallIds PROVE Told(i)
  BY <1>3, <1>5 DEF Told, LastOf
<1>7. QED
  BY <1>4, <1>6 DEF Followed

LEMMA TroubleType == InstallTypeOK /\ Trouble => troubles' \in 0..MaxTroubles
  BY InstallationsAssumption DEF InstallTypeOK, Trouble

LEMMA GitHubFollowed ==
  ASSUME Followed, NEW i \in InstallIds, AtGitHub(i)
  PROVE  Followed'
<1>1. PICK to \in {"active", "suspended", "gone"},
           action \in {"created", "suspend", "unsuspend", "deleted"} :
        /\ truth' = [truth EXCEPT ![i] = to] /\ to = Result(action)
        /\ mail' = Append(mail, [about |-> i, action |-> action])
        /\ sent' \in 0..MaxEvents
        /\ UNCHANGED <<owner, row, belongs, registered, implicit, creating, orphaned,
                       signal, missed, troubles>>
  <2>1. sent < MaxEvents /\ sent' = sent + 1 => sent' \in 0..MaxEvents
    BY InstallationsAssumption DEF Followed, InstallTypeOK
  <2>2. QED
    BY <2>1 DEF AtGitHub, Change, Result
<1> DEFINE e == [about |-> i, action |-> action]
<1>2. e \in Event /\ e.about = i /\ e.action = action
  BY DEF Event
<1>3. InstallTypeOK
  BY DEF Followed
<1>4. /\ mail' \in Seq(Event) /\ Coming(i)'
      /\ \A n : LastOf(i, n)' => mail'[n] = e
      /\ \A j : j # i => Coming(j)' = Coming(j)
      /\ \A j, n : j # i /\ LastOf(j, n)' => LastOf(j, n) /\ mail'[n] = mail[n]
  BY <1>1, <1>2, <1>3, AppendLast
<1>5. truth' \in [InstallIds -> {"absent", "active", "suspended", "gone"}]
  BY <1>1, <1>3 DEF InstallTypeOK
<1>6. InstallTypeOK'
  BY <1>1, <1>3, <1>4, <1>5 DEF InstallTypeOK
<1>7. truth'[i] = to /\ \A j \in InstallIds : j # i => truth'[j] = truth[j]
  BY <1>1, <1>3 DEF InstallTypeOK
<1>8. ASSUME NEW j \in InstallIds \ missed', j # i PROVE Told(j)'
  BY <1>1, <1>4, <1>7, <1>8, ToldStays DEF Followed
<1>9. ASSUME i \notin missed' PROVE Told(i)'
  <2>1. ASSUME NEW n, LastOf(i, n)' PROVE truth'[i] = Result(mail'[n].action)
    BY <1>1, <1>2, <1>4, <1>7, <2>1
  <2>2. /\ row[i] = "active" /\ creating[i] = "no" => <<belongs[i], i>> \in implicit
        /\ creating[i] = "watch" => belongs[i] = owner[i]
    BY <1>1, <1>9 DEF Followed, Told
  <2>3. QED
    BY <1>1, <1>4, <2>1, <2>2 DEF Told
<1>10. QED
  BY <1>6, <1>8, <1>9 DEF Followed

\* The handler of a "created" sets out to make the row; that of another event leaves
\* no active row.
LEMMA HandlerFollowed == ASSUME Followed, WebhookHandler PROVE Followed'
<1>1. InstallTypeOK
  BY DEF Followed
<1>2. PICK e \in Event : e = Head(mail) /\ e = mail[1]
  BY <1>1, TailLast DEF WebhookHandler
<1> DEFINE i == e.about
<1>3. /\ mail' \in Seq(Event) /\ 1 \in DOMAIN mail
      /\ \A j, n : LastOf(j, n)' => LastOf(j, n + 1) /\ mail'[n] = mail[n + 1]
      /\ \A j : ~Coming(j)' => ~Coming(j) \/ LastOf(j, 1)
      /\ i \in InstallIds
      /\ UNCHANGED <<truth, owner, belongs, registered, implicit, orphaned, sent, troubles>>
      /\ HandleInstallationEvent(e)
  <2>1. 1 \in DOMAIN mail
    BY <1>1 DEF InstallTypeOK, WebhookHandler
  <2>2. QED
    BY <1>1, <1>2, <2>1, TailLast DEF WebhookHandler, Event
<1>4. ASSUME NEW j \in InstallIds \ missed PROVE
        \A n : LastOf(j, n)' => truth'[j] = Result(mail'[n].action)
  <2>1. ASSUME NEW n, LastOf(j, n)' PROVE truth'[j] = Result(mail'[n].action)
    <3>1. LastOf(j, n + 1) /\ mail'[n] = mail[n + 1]
      BY <1>3, <2>1
    <3>2. truth[j] = Result(mail[n + 1].action)
      BY <3>1 DEF Followed, Told
    <3>3. QED
      BY <1>3, <3>1, <3>2
  <2>2. QED
    BY <2>1
<1>5. ASSUME NEW j \in InstallIds \ missed, j # i,
             row'[j] = row[j], creating'[j] = creating[j]
      PROVE  Told(j)'
  <2>1. ~Coming(j)' => ~Coming(j)
    BY <1>2, <1>3, <1>5 DEF LastOf
  <2>2. QED
    BY <1>3, <1>4, <1>5, <2>1 DEF Followed, Told
<1>6. ASSUME i \notin missed,
             row'[i] = "active" \/ creating'[i] = "save" <=> Result(e.action) = "active",
             row'[i] = "active" /\ creating'[i] = "no" => <<belongs[i], i>> \in implicit,
             creating'[i] = "watch" => creating[i] = "watch"
      PROVE  Told(i)'
  <2>1. Coming(i)
    BY <1>2, <1>3 DEF Coming
  <2>2. ~Coming(i)' => truth'[i] = Result(e.action)
    <3>1. ~Coming(i)' => LastOf(i, 1)
      BY <1>3, <2>1, Zenon
    <3>2. LastOf(i, 1) => truth[i] = Result(mail[1].action)
      BY <1>3, <1>6 DEF Followed, Told
    <3>3. QED
      BY <1>2, <1>3, <3>1, <3>2
  <2>3. \A n : LastOf(i, n)' => truth'[i] = Result(mail'[n].action)
    BY <1>3, <1>4, <1>6
  <2>4. creating'[i] = "watch" => belongs'[i] = owner'[i]
    BY <1>3, <1>6 DEF Followed, Told
  <2>5. ~Coming(i)' =>
          (row'[i] = "active" \/ creating'[i] = "save" <=> truth'[i] = "active")
    BY <1>6, <2>2
  <2>6. row'[i] = "active" /\ creating'[i] = "no" => <<belongs'[i], i>> \in implicit'
    BY <1>3, <1>6
  <2>7. QED
    BY <2>3, <2>4, <2>5, <2>6 DEF Told
<1>7. /\ row' \in [InstallIds -> {"absent", "active", "suspended"}]
      /\ creating' \in [InstallIds -> {"no", "save", "watch"}]
      /\ missed' \in {missed, missed \cup {i}} /\ signal' \in BOOLEAN
      /\ \A j \in InstallIds : j # i => row'[j] = row[j] /\ creating'[j] = creating[j]
  <2>1. CASE Created(i)
    BY <1>1, <1>3, <2>1 DEF InstallTypeOK, Created, Creating, Miss
  <2>2. CASE Suspended(i)
    BY <1>1, <1>3, <2>2 DEF InstallTypeOK, Suspended, Miss, Notify
  <2>3. CASE Ignored(i)
    BY <1>1, <1>3, <2>3 DEF InstallTypeOK, Ignored, Miss, Notify
  <2>4. QED
    BY <1>3, <2>1, <2>2, <2>3 DEF HandleInstallationEvent
<1>8. InstallTypeOK'
  <2>1. missed' \subseteq InstallIds
    BY <1>1, <1>3, <1>7 DEF InstallTypeOK
  <2>2. QED
    BY <1>1, <1>3, <1>7, <2>1 DEF InstallTypeOK
<1>9. ASSUME i \notin missed' PROVE Told(i)'
  <2>1. i \notin missed /\ Told(i)
    BY <1>3, <1>7, <1>9 DEF Followed
  <2>2. CASE e.action = "created" /\ Created(i)
    <3>1. Result(e.action) = "active"
      BY <2>2 DEF Result
    <3>2. creating' = [creating EXCEPT ![i] = "save"]
      BY <1>9, <2>2 DEF Created, Creating, Miss
    <3>3. creating'[i] = "save"
      BY <1>1, <1>3, <3>2 DEF InstallTypeOK
    <3>4. QED
      BY <1>6, <2>1, <3>1, <3>3
  <2>3. CASE e.action \in {"suspend", "deleted"} /\ Suspended(i)
    <3>1. Result(e.action) # "active"
      BY <2>3 DEF Result
    <3>2. creating[i] # "save" /\ creating' = creating
      BY <1>9, <2>3 DEF Suspended, Miss
    <3>3. row'[i] # "active"
      BY <1>1, <1>3, <2>3 DEF Suspended, InstallTypeOK
    <3>4. QED
      BY <1>6, <2>1, <3>1, <3>2, <3>3
  <2>4. CASE Ignored(i)
    BY <1>9, <2>4 DEF Ignored, Miss
  <2>5. QED
    BY <1>3, <2>2, <2>3, <2>4 DEF HandleInstallationEvent
<1>10. QED
  <2>1. \A j \in InstallIds \ missed' : j \notin missed
    BY <1>7
  <2>2. \A j \in InstallIds \ missed' : j # i => Told(j)'
    BY <1>5, <1>7, <2>1
  <2>3. QED
    BY <1>8, <1>9, <2>2 DEF Followed

\* The steps of the handler of a "created": the row is given to its sender, who then
\* watches it.
LEMMA CreatedFollowed ==
  ASSUME Followed, NEW i \in InstallIds, SaveInstallation(i) \/ EnsureImplicitWatchlist(i)
  PROVE  Followed'
<1>1. /\ InstallTypeOK /\ UNCHANGED <<truth, owner, mail, registered, sent>>
      /\ orphaned' \subseteq InstallIds
  BY DEF Followed, InstallTypeOK, SaveInstallation, EnsureImplicitWatchlist
<1>2. \A j : Coming(j)' = Coming(j) /\ \A n : LastOf(j, n)' = LastOf(j, n)
  BY <1>1, SameMail
<1>3. ASSUME NEW j \in InstallIds \ missed, row'[j] = row[j], belongs'[j] = belongs[j],
             creating'[j] = creating[j], implicit \subseteq implicit'
      PROVE  Told(j)'
  BY <1>1, <1>2, <1>3, ToldStays DEF Followed
<1>4. CASE SaveInstallation(i)
  <2>1. CASE /\ creating' = [creating EXCEPT ![i] = "watch"]
             /\ row' = [row EXCEPT ![i] = "active"]
             /\ belongs' = [belongs EXCEPT ![i] = owner[i]]
             /\ UNCHANGED <<missed, troubles, implicit, signal>>
    <3>1. /\ row'[i] = "active" /\ creating'[i] = "watch" /\ belongs'[i] = owner[i]
          /\ \A j \in InstallIds : j # i => /\ row'[j] = row[j] /\ belongs'[j] = belongs[j]
                                          /\ creating'[j] = creating[j]
      BY <1>1, <2>1 DEF InstallTypeOK
    <3>2. InstallTypeOK'
      BY <1>1, <2>1 DEF InstallTypeOK
    <3>3. ASSUME i \notin missed PROVE Told(i)'
      <4>1. creating[i] = "save" /\ Told(i)
        BY <1>4, <3>3 DEF SaveInstallation, Followed
      <4>2. ~Coming(i)' => truth'[i] = "active"
        BY <1>1, <1>2, <4>1 DEF Told
      <4>3. \A n : LastOf(i, n)' => truth'[i] = Result(mail'[n].action)
        BY <1>1, <1>2, <4>1 DEF Told
      <4>4. QED
        BY <1>1, <3>1, <4>2, <4>3 DEF Told
    <3>4. QED
      BY <1>3, <2>1, <3>1, <3>2, <3>3 DEF Followed
  <2>2. CASE /\ creating' = [creating EXCEPT ![i] = "no"]
             /\ troubles' \in 0..MaxTroubles /\ missed' = missed \cup {i}
             /\ UNCHANGED <<row, belongs, implicit, signal>>
    <3>1. \A j \in InstallIds : j # i => creating'[j] = creating[j]
      BY <1>1, <2>2 DEF InstallTypeOK
    <3>2. InstallTypeOK'
      BY <1>1, <2>2 DEF InstallTypeOK
    <3>3. \A j \in InstallIds \ missed' : Told(j)'
      BY <1>3, <2>2, <3>1
    <3>4. QED
      BY <3>2, <3>3 DEF Followed
  <2>3. QED
    BY <1>1, <1>4, <2>1, <2>2, TroubleType
       DEF SaveInstallation, Creating, Miss, InstallTypeOK
<1>5. CASE EnsureImplicitWatchlist(i)
  <2>1. /\ creating' = [creating EXCEPT ![i] = "no"] /\ creating[i] = "watch"
        /\ signal' \in BOOLEAN /\ UNCHANGED <<row, belongs>>
        /\ \/ implicit' = implicit \cup {<<owner[i], i>>} /\ UNCHANGED <<missed, troubles>>
           \/ /\ troubles' \in 0..MaxTroubles /\ missed' = missed \cup {i}
              /\ UNCHANGED implicit
    BY <1>1, <1>5, TroubleType
       DEF EnsureImplicitWatchlist, Creating, Miss, Notify, InstallTypeOK
  <2>2. /\ creating'[i] = "no" /\ implicit \subseteq implicit'
        /\ \A j \in InstallIds : j # i => creating'[j] = creating[j]
    BY <1>1, <2>1 DEF InstallTypeOK
  <2>3. InstallTypeOK'
    <3>1. implicit' \subseteq Owners \X InstallIds
      BY <1>1, <2>1 DEF InstallTypeOK
    <3>2. missed' \subseteq InstallIds /\ troubles' \in 0..MaxTroubles
      BY <1>1, <2>1 DEF InstallTypeOK
    <3>3. creating' \in [InstallIds -> {"no", "save", "watch"}]
      BY <1>1, <2>1 DEF InstallTypeOK
    <3>4. QED
      BY <1>1, <2>1, <3>1, <3>2, <3>3 DEF InstallTypeOK
  <2>4. ASSUME i \notin missed' PROVE Told(i)'
    <3>1. i \notin missed /\ Told(i) /\ implicit' = implicit \cup {<<owner[i], i>>}
      BY <2>1, <2>4 DEF Followed
    <3>2. belongs'[i] = owner[i]
      BY <2>1, <3>1 DEF Told
    <3>3. ~Coming(i)' => (row'[i] = "active" <=> truth'[i] = "active")
      BY <1>1, <1>2, <2>1, <3>1 DEF Told
    <3>4. \A n : LastOf(i, n)' => truth'[i] = Result(mail'[n].action)
      BY <1>1, <1>2, <3>1 DEF Told
    <3>5. QED
      BY <2>2, <3>1, <3>2, <3>3, <3>4 DEF Told
  <2>5. \A j \in InstallIds \ missed' : j \notin missed
    BY <2>1
  <2>6. \A j \in InstallIds \ missed' : j # i => Told(j)'
    BY <1>3, <2>1, <2>2, <2>5
  <2>7. QED
    BY <2>3, <2>4, <2>6 DEF Followed
<1>6. QED
  BY <1>4, <1>5

LEMMA FailureFollowed == ASSUME Followed, DeliveryFails PROVE Followed'
<1>1. InstallTypeOK
  BY DEF Followed
<1>2. /\ mail' \in Seq(Event) /\ Head(mail) \in Event /\ Head(mail) = mail[1]
      /\ \A j, n : LastOf(j, n)' => LastOf(j, n + 1) /\ mail'[n] = mail[n + 1]
      /\ \A j : ~Coming(j)' => ~Coming(j) \/ LastOf(j, 1)
  BY <1>1, TailLast DEF DeliveryFails
<1>3. /\ missed' = missed \cup {Head(mail).about} /\ Head(mail).about \in InstallIds
      /\ troubles' \in 0..MaxTroubles
      /\ UNCHANGED <<truth, owner, row, belongs, registered, implicit, creating, orphaned,
                     signal, sent>>
  BY <1>1, <1>2, TroubleType DEF DeliveryFails, Event
<1>4. InstallTypeOK'
  BY <1>1, <1>2, <1>3 DEF InstallTypeOK
<1>5. ASSUME NEW j \in InstallIds \ missed' PROVE Told(j)'
  <2>1. j \notin missed /\ ~LastOf(j, 1) /\ Told(j)
    BY <1>2, <1>3 DEF LastOf, Followed
  <2>2. ASSUME NEW n, LastOf(j, n)' PROVE truth'[j] = Result(mail'[n].action)
    <3>1. LastOf(j, n + 1) /\ mail'[n] = mail[n + 1]
      BY <1>2, <2>2
    <3>2. truth[j] = Result(mail[n + 1].action)
      BY <2>1, <3>1 DEF Told
    <3>3. QED
      BY <1>3, <3>1, <3>2
  <2>3. QED
    BY <1>2, <1>3, <2>1, <2>2 DEF Told
<1>6. QED
  BY <1>4, <1>5 DEF Followed

LEMMA DisorderFollowed == ASSUME Followed, Disorder PROVE Followed'
<1>1. InstallTypeOK
  BY DEF Followed
<1>2. /\ troubles' \in 0..MaxTroubles
      /\ UNCHANGED <<truth, owner, row, belongs, registered, implicit, creating, orphaned,
                     signal, sent>>
  BY <1>1, TroubleType DEF Disorder
<1>3. CASE /\ Len(mail) > 1 /\ mail' = [mail EXCEPT ![1] = mail[2], ![2] = mail[1]]
           /\ missed' = missed \cup {mail[1].about, mail[2].about}
  <2>1. /\ mail' \in Seq(Event) /\ mail[1] \in Event /\ mail[2] \in Event
        /\ \A i : i \notin {mail[1].about, mail[2].about} =>
             /\ Coming(i)' = Coming(i)
             /\ \A n : LastOf(i, n)' => LastOf(i, n) /\ mail'[n] = mail[n]
    BY <1>1, <1>3, SwapLast
  <2>2. InstallTypeOK'
    <3>1. mail[1].about \in InstallIds /\ mail[2].about \in InstallIds
      BY <2>1 DEF Event
    <3>2. QED
      BY <1>1, <1>2, <1>3, <2>1, <3>1 DEF InstallTypeOK
  <2>3. \A j \in InstallIds \ missed' : Told(j)'
    BY <1>2, <1>3, <2>1, ToldStays DEF Followed
  <2>4. QED
    BY <2>2, <2>3 DEF Followed
<1>4. CASE /\ mail # <<>> /\ mail' = Append(mail, Head(mail))
           /\ missed' = missed \cup {Head(mail).about}
  <2>1. Head(mail) \in Event
    BY <1>1, <1>4 DEF InstallTypeOK
  <2>2. /\ mail' \in Seq(Event)
        /\ \A i : i # Head(mail).about => Coming(i)' = Coming(i)
        /\ \A i, n : i # Head(mail).about /\ LastOf(i, n)' =>
             LastOf(i, n) /\ mail'[n] = mail[n]
    BY <1>1, <1>4, <2>1, AppendLast
  <2>3. InstallTypeOK'
    <3>1. Head(mail).about \in InstallIds
      BY <2>1 DEF Event
    <3>2. QED
      BY <1>1, <1>2, <1>4, <2>2, <3>1 DEF InstallTypeOK
  <2>4. \A j \in InstallIds \ missed' : Told(j)'
    BY <1>2, <1>4, <2>2, ToldStays DEF Followed
  <2>5. QED
    BY <2>3, <2>4 DEF Followed
<1>5. QED
  BY <1>3, <1>4 DEF Disorder

LEMMA TenantsFollowed ==
  ASSUME Followed, NEW o \in Owners, Register(o) \/ DeleteTenant(o)
  PROVE  Followed'
<1>1. InstallTypeOK /\ UNCHANGED <<truth, owner, mail, belongs, creating, signal, sent>>
  BY DEF Followed, Register, DeleteTenant
<1>2. \A i : Coming(i)' = Coming(i) /\ \A n : LastOf(i, n)' = LastOf(i, n)
  BY <1>1, SameMail
<1>3. CASE Register(o)
  <2>1. InstallTypeOK'
    BY <1>1, <1>3 DEF InstallTypeOK, Register
  <2>2. \A j \in InstallIds \ missed' : Told(j)'
    BY <1>1, <1>2, <1>3, ToldStays DEF Followed, Register
  <2>3. QED
    BY <2>1, <2>2 DEF Followed
<1>4. CASE DeleteTenant(o)
  <2> DEFINE Its == {i \in InstallIds : row[i] # "absent" /\ belongs[i] = o}
  <2>1. /\ row' = [i \in InstallIds |-> IF i \in Its THEN "absent" ELSE row[i]]
        /\ missed' = missed \cup Its
        /\ implicit' = {w \in implicit : w[1] # o}
        /\ registered' = registered \ {o}
    BY <1>4 DEF DeleteTenant
  <2>2. InstallTypeOK'
    <3>1. troubles' \in 0..MaxTroubles
      BY <1>1, <1>4, TroubleType DEF DeleteTenant
    <3>2. row' \in [InstallIds -> {"absent", "active", "suspended"}]
      BY <1>1, <2>1 DEF InstallTypeOK
    <3>3. orphaned' \subseteq InstallIds
      BY <1>1, <1>4 DEF InstallTypeOK, DeleteTenant
    <3>4. QED
      BY <1>1, <2>1, <3>1, <3>2, <3>3 DEF InstallTypeOK
  <2>3. ASSUME NEW i \in InstallIds \ missed'
        PROVE  /\ i \notin missed /\ row'[i] = row[i]
               /\ row[i] = "active" => belongs[i] # o
    BY <2>1
  <2>4. ASSUME NEW i \in InstallIds \ missed' PROVE Told(i)'
    <3>1. row[i] = "active" /\ <<belongs[i], i>> \in implicit
            => <<belongs[i], i>> \in implicit'
      BY <2>1, <2>3
    <3>2. Told(i)
      BY <2>3 DEF Followed
    <3>3. QED
      BY <1>1, <1>2, <2>3, <3>1, <3>2, ToldStays
  <2>5. QED
    BY <2>2, <2>4 DEF Followed
<1>5. QED
  BY <1>3, <1>4

\* Once its events have arrived, each once, in order and understood, an
\* installation is active in the store exactly when it is active at GitHub, and
\* its tenant watches it (handleInstallationEvent, SaveInstallation).
THEOREM RowsFollow == InstallSpec => []RowsFollowGitHub
<1>1. Followed => RowsFollowGitHub
  BY DEF Followed, Told, RowsFollowGitHub, InFlight
<1>2. ASSUME Followed, [InstallNext]_installVars PROVE Followed'
  <2>1. ASSUME signal' \in BOOLEAN,
               UNCHANGED <<truth, owner, mail, row, belongs, registered, implicit,
                           creating, orphaned, missed, sent, troubles>>
        PROVE  Followed'
    <3>1. InstallTypeOK'
      BY <1>2, <2>1 DEF Followed, InstallTypeOK
    <3>2. \A j \in InstallIds \ missed' : Told(j)'
      BY <1>2, <2>1, SameMail, ToldStays DEF Followed
    <3>3. QED
      BY <3>1, <3>2 DEF Followed
  <2>2. CASE Refresh
    BY <2>1, <2>2 DEF Refresh
  <2>3. CASE UNCHANGED installVars
    <3>1. signal \in BOOLEAN
      BY <1>2 DEF Followed, InstallTypeOK
    <3>2. QED
      BY <2>1, <2>3, <3>1 DEF installVars
  <2>4. QED
    BY <1>2, <2>2, <2>3, GitHubFollowed, HandlerFollowed, CreatedFollowed,
       FailureFollowed,
       DisorderFollowed, TenantsFollowed DEF InstallNext
<1>3. QED
  BY <1>1, <1>2, FollowedInit, PTL DEF InstallSpec

=============================================================================
