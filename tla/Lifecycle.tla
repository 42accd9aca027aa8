------------------------------- MODULE Lifecycle -------------------------------
(***************************************************************************)
(* A replica of the server from start to exit: Run of pkg/server/server.go *)
(* and what it calls of the store, New, Migrate, Go, WaitBackground and    *)
(* Close (pkg/data/postgres/postgres.go and migrate.go).  Several replicas *)
(* may boot at once on one database.  Deferred calls run last in, first    *)
(* out, so the store drains and closes after the loops have been told to   *)
(* stop.                                                                   *)
(***************************************************************************)
EXTENDS Integers, FiniteSets

CONSTANTS
  Replicas,      \* processes
  LastVersion,   \* the migrations are 1 .. LastVersion
  Jobs,          \* a job is a request and the write it leaves behind
  MaxFailures    \* bound: failed statements, crashes, timeouts

ASSUME LifecycleAssumption ==
  Replicas # {} /\ LastVersion \in Nat /\ MaxFailures \in Nat

VARIABLES
  pc,        \* how far Run of a replica has got
  at,        \* the version its Migrate looks at
  lock,      \* the replicas whose session holds the advisory lock
  recorded,  \* devtrace_schema_version
  schema,    \* how often each version's file has been run to its end
  cut,       \* ghost: the times a replica ended between running and recording
  job,       \* each job: not begun, a handler runs, its write runs, over
  home,      \* the replica a job runs in
  excused,   \* replicas whose shutdown gave up waiting for something
  late,      \* ghost: replicas whose tracked write met a closed store
  failures

lifeVars == <<pc, at, lock, recorded, schema, cut, job, home, excused, late, failures>>

Versions == 1..LastVersion
Stages == {"down", "lock", "check", "apply", "record", "unlock", "client", "serve",
           "stop", "drain", "exit"}
Migrating == {"check", "apply", "record", "unlock"}

LifecycleInit ==
  /\ pc = [r \in Replicas |-> "down"] /\ at = [r \in Replicas |-> 1]
  /\ lock = {} /\ recorded = {}
  /\ schema = [v \in Versions |-> 0] /\ cut = 0
  /\ job = [j \in Jobs |-> "new"]
  /\ home = [j \in Jobs |-> CHOOSE r \in Replicas : TRUE]
  /\ excused = {} /\ late = {} /\ failures = 0

-----------------------------------------------------------------------------
(* Starting *)

Step(r, from, to) == pc[r] = from /\ pc' = [pc EXCEPT ![r] = to]
Fault == failures < MaxFailures /\ failures' = failures + 1

\* New opens the pool and pings it, and Migrate takes a connection of its own; a
\* failure of either ends the process before it has done anything.
Start(r) ==
  /\ Step(r, "down", "lock")
  /\ at' = [at EXCEPT ![r] = 1]
  /\ excused' = excused \ {r} /\ late' = late \ {r}
  /\ UNCHANGED <<lock, recorded, schema, cut, job, home, failures>>

\* TakeLock_Shared is a seeded fault: the lock is taken on another connection.
TakeLock_Shared(r) ==
  /\ Step(r, "lock", "check")
  /\ lock' = lock \cup {r}
  /\ UNCHANGED <<at, recorded, schema, cut, job, home, excused, late, failures>>
\* pg_advisory_lock waits until no other session holds the lock.
TakeLock(r) ==
  /\ Step(r, "lock", "check")
  /\ lock = {}
  /\ lock' = {r}
  /\ UNCHANGED <<at, recorded, schema, cut, job, home, excused, late, failures>>

\* migrationAppliedConn.
CheckVersion(r) ==
  /\ pc[r] = "check"
  /\ \/ /\ at[r] > LastVersion
        /\ pc' = [pc EXCEPT ![r] = "unlock"] /\ UNCHANGED at
     \/ /\ at[r] \in recorded
        /\ at' = [at EXCEPT ![r] = @ + 1] /\ UNCHANGED pc
     \/ /\ at[r] \in Versions \ recorded
        /\ pc' = [pc EXCEPT ![r] = "apply"] /\ UNCHANGED at
  /\ UNCHANGED <<lock, recorded, schema, cut, job, home, excused, late, failures>>

\* One Exec runs the whole file, and Postgres runs it as one transaction.  The
\* first file drops and makes anew the table of the recorded versions.  A file that
\* is run a second time, after a crash before its version was recorded, succeeds as
\* it did at first: each creates, adds and drops with IF [NOT] EXISTS, inserts with
\* ON CONFLICT, or sets a default or deletes a cursor.
ApplyVersion(r) ==
  /\ Step(r, "apply", "record")
  /\ schema' = [schema EXCEPT ![at[r]] = @ + 1]
  /\ recorded' = IF at[r] = 1 THEN {} ELSE recorded
  /\ UNCHANGED <<at, lock, cut, job, home, excused, late, failures>>

RecordVersion(r) ==
  /\ Step(r, "record", "check")
  /\ recorded' = recorded \cup {at[r]}
  /\ UNCHANGED <<at, lock, schema, cut, job, home, excused, late, failures>>

\* The unlock is best effort: when it fails the connection goes back to the pool
\* and its session keeps the lock, while the replica goes on.
Unlock(r) ==
  /\ Step(r, "unlock", "client")
  /\ \/ lock' = lock \ {r} /\ UNCHANGED failures
     \/ Fault /\ UNCHANGED lock
  /\ UNCHANGED <<at, recorded, schema, cut, job, home, excused, late>>

\* CloseIdle_Never is a seeded fault: the pool is opened without these limits.
CloseIdle_Never(r) == FALSE
\* SetConnMaxIdleTime and SetConnMaxLifetime: the pool closes the connection, and
\* with its session the lock goes.
CloseIdle(r) ==
  /\ r \in lock /\ pc[r] \notin Migrating
  /\ lock' = lock \ {r}
  /\ UNCHANGED <<pc, at, recorded, schema, cut, job, home, excused, late, failures>>

\* buildGitHubClient, the loops, the router and the listener.
Serve(r) ==
  /\ Step(r, "client", "serve")
  /\ UNCHANGED <<at, lock, recorded, schema, cut, job, home, excused, late, failures>>

-----------------------------------------------------------------------------
(* Requests and what they leave running *)

Running(r, s) == {j \in Jobs : home[j] = r /\ job[j] = s}

\* A handler starts while the server listens.
Arrive(j, r) ==
  /\ job[j] = "new" /\ pc[r] = "serve"
  /\ job' = [job EXCEPT ![j] = "handler"] /\ home' = [home EXCEPT ![j] = r]
  /\ UNCHANGED <<pc, at, lock, recorded, schema, cut, excused, late, failures>>

\* scoreHandler answers and hands persistScore to Store.Go.
Answer(j) ==
  /\ job[j] = "handler" /\ pc[home[j]] # "down"
  /\ job' = [job EXCEPT ![j] = "write"]
  /\ UNCHANGED <<pc, at, lock, recorded, schema, cut, home, excused, late, failures>>

Write(j) ==
  /\ job[j] = "write" /\ pc[home[j]] # "down"
  /\ job' = [job EXCEPT ![j] = "over"]
  /\ late' = IF pc[home[j]] = "exit" THEN late \cup {home[j]} ELSE late
  /\ UNCHANGED <<pc, at, lock, recorded, schema, cut, home, excused, failures>>

-----------------------------------------------------------------------------
(* Stopping *)

\* A signal cancels the context of Run, which then calls Shutdown.
Signal(r) ==
  /\ Step(r, "serve", "stop")
  /\ UNCHANGED <<at, lock, recorded, schema, cut, job, home, excused, late, failures>>

\* The listener fails: Run returns without Shutdown, its handlers still running.
ListenFails(r) ==
  /\ Step(r, "serve", "drain") /\ Fault
  /\ excused' = excused \cup {r}
  /\ UNCHANGED <<at, lock, recorded, schema, cut, job, home, late>>

\* Shutdown waits for the handlers, but no longer than its timeout.
Shutdown(r) ==
  /\ Step(r, "stop", "drain")
  /\ \/ Running(r, "handler") = {} /\ UNCHANGED <<excused, failures>>
     \/ Running(r, "handler") # {} /\ Fault /\ excused' = excused \cup {r}
  /\ UNCHANGED <<at, lock, recorded, schema, cut, job, home, late>>

\* CloseStore_First is a seeded fault: Close is not preceded by the wait.
CloseStore_First(r) ==
  /\ Step(r, "drain", "exit")
  /\ lock' = lock \ {r}
  /\ UNCHANGED <<at, recorded, schema, cut, job, home, excused, late, failures>>
\* The cancel functions of the loops have been called, none of which waits.
\* WaitBackground waits for the tracked writes, but no longer than its timeout;
\* then the store is closed, and with its connections the lock goes.
CloseStore(r) ==
  /\ Step(r, "drain", "exit")
  /\ \/ Running(r, "write") = {} /\ UNCHANGED <<excused, failures>>
     \/ Running(r, "write") # {} /\ Fault /\ excused' = excused \cup {r}
  /\ lock' = lock \ {r}
  /\ UNCHANGED <<at, recorded, schema, cut, job, home, late>>

\* The process ends, its jobs with it.
Gone(r) ==
  job' = [j \in Jobs |-> IF home[j] = r /\ job[j] \in {"handler", "write"}
                         THEN "over" ELSE job[j]]
Exit(r) ==
  /\ Step(r, "exit", "down") /\ Gone(r)
  /\ UNCHANGED <<at, lock, recorded, schema, cut, home, excused, late, failures>>

\* A replica that ends before it has recorded the file it has run.
Cut(r) == cut' = IF pc[r] = "record" THEN cut + 1 ELSE cut

\* A statement of the start fails, or its context is cancelled: Run returns.  A
\* file that fails leaves nothing behind; the deferred unlock may fail as well.
StartFails(r) ==
  /\ pc[r] \in {"lock", "client"} \cup Migrating /\ Fault /\ Cut(r)
  /\ pc' = [pc EXCEPT ![r] = "drain"]
  /\ lock' \in {lock, lock \ {r}}
  /\ UNCHANGED <<at, recorded, schema, job, home, excused, late>>

\* The process is killed; the server closes its sessions.
Crash(r) ==
  /\ pc[r] # "down" /\ Fault /\ Cut(r)
  /\ pc' = [pc EXCEPT ![r] = "down"] /\ Gone(r)
  /\ lock' = lock \ {r}
  /\ UNCHANGED <<at, recorded, schema, home, excused, late>>

-----------------------------------------------------------------------------
Migrate(r) == CheckVersion(r) \/ ApplyVersion(r) \/ RecordVersion(r)
              \/ Unlock(r) \/ Serve(r)
Leave(r) == Shutdown(r) \/ CloseStore(r) \/ Exit(r)

LifecycleNext ==
  \/ \E r \in Replicas : Start(r) \/ TakeLock(r) \/ Migrate(r) \/ CloseIdle(r) \/ Signal(r)
                         \/ ListenFails(r) \/ Leave(r) \/ StartFails(r) \/ Crash(r)
  \/ \E j \in Jobs, r \in Replicas : Arrive(j, r)
  \/ \E j \in Jobs : Answer(j) \/ Write(j)

LifecycleSpec == LifecycleInit /\ [][LifecycleNext]_lifeVars

-----------------------------------------------------------------------------
(* Properties *)

\* The variables have their types; no version but those of the files is recorded.
LifecycleTypeOK ==
  /\ pc \in [Replicas -> Stages] /\ at \in [Replicas -> 1..LastVersion + 1]
  /\ lock \subseteq Replicas /\ recorded \subseteq Versions
  /\ schema \in [Versions -> Nat] /\ cut \in Nat
  /\ job \in [Jobs -> {"new", "handler", "write", "over"}]
  /\ home \in [Jobs -> Replicas]
  /\ excused \subseteq Replicas /\ late \subseteq Replicas
  /\ failures \in 0..MaxFailures

\* Replicas that boot together run each migration once: a file is run a second
\* time only when a replica died or failed between running it and recording it.
\* The versions are recorded in order, none before its file has been run.
MigratesOnce ==
  /\ \A v \in recorded : schema[v] > 0 /\ 1..v \subseteq recorded
  /\ \A v \in Versions : schema[v] <= 1 + cut
  /\ Cardinality({r \in Replicas : pc[r] \in Migrating}) <= 1

\* A tracked write meets a closed store only in a replica whose shutdown ran into
\* a timeout, or whose listener failed.
WritesPrecedeClose == late \subseteq excused

\* No replica that waits for the migration lock waits for ever, though an unlock
\* may fail and leave the lock with an idle connection.
EveryReplicaStarts ==
  \A r \in Replicas : pc[r] = "lock" ~> pc[r] \in {"client", "down"}

=============================================================================
