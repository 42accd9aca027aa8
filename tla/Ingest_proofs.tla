----------------------------- MODULE Ingest_proofs -----------------------------
(***************************************************************************)
(* What the two cursors of the ingest loop are worth, and how often an     *)
(* hour is counted, for any clock, batch size, number of workers, retries, *)
(* restarts, lost cursor writes and unread cursors.                        *)
(***************************************************************************)
EXTENDS Ingest, WellFoundedInduction, TLAPS

Mark == Hours \cup {None}
Stage == {"waiting", "stream", "queue", "save"}

\* What the proof needs of the state's types.
StateOK ==
  /\ now \in Hours
  /\ {cursor, backCursor, origin, backOrigin} \subseteq Mark
  /\ plan \subseteq Hours /\ batch \subseteq Hours
  /\ work \in [DOMAIN work -> [stage : Stage, tries : Nat, agg : Nat]]
  /\ DOMAIN work \subseteq Hours
  /\ runs \in [Hours -> Nat] /\ fills \in [Hours -> Nat]
  /\ ran \subseteq Hours /\ filled \subseteq Hours
  /\ misread \in BOOLEAN /\ slips \in Nat

\* The program counter tells which job is under way and what it holds.
Maintenance == {"compact", "prune", "mark"}
Shape ==
  /\ pc \in {"idle", "batches", "batch", "hours"} \cup Maintenance
  /\ pc = "idle" => job = "none" /\ plan = {} /\ batch = {} /\ DOMAIN work = {}
  /\ pc = "batches" => job = "backfill" /\ batch = {} /\ DOMAIN work = {}
  /\ pc = "batch" => job = "backfill" /\ batch # {} /\ DOMAIN work \subseteq batch
  /\ pc = "hours" => job = "run" /\ batch = {}
  /\ pc \in Maintenance => /\ job \in {"backfill", "run"}
                           /\ batch = {} /\ DOMAIN work = {}
                           /\ job = "run" => plan = {}
  /\ \A h \in DOMAIN work :
       /\ work[h].stage = "save" => job = "run"
       /\ work[h].stage = "waiting" => job = "backfill"

\* The forward run has at most one hour under way, before all it has planned,
\* and leaves no hour out between two of them.
Ahead == plan \cup DOMAIN work
RunOrder ==
  job = "run" =>
    /\ \A g, h \in DOMAIN work : g = h
    /\ \A h \in DOMAIN work, p \in plan : h < p
    /\ \A a, b \in Ahead, g \in Hours : a <= g /\ g <= b => g \in Ahead

\* The backfill goes down from its newest hour and leaves no hour out.
Below == plan \cup batch
FillOrder ==
  /\ backOrigin < now /\ backCursor < now
  /\ job = "backfill" =>
       /\ \A b \in batch, p \in plan : p < b
       /\ \A a, b \in Below, g \in Hours : a <= g /\ g <= b => g \in Below
       /\ \A p \in Below : p < now
       /\ batch \ DOMAIN work \subseteq filled

\* An hour counted as often as the slips allow is not counted once more: it is
\* behind the cursor, or committed and about to be.
Committed(h) == h \in DOMAIN work /\ work[h].stage \in {"queue", "save"}
RunPaid(h) ==
  /\ runs[h] <= 1 + slips
  /\ runs[h] = 1 + slips =>
       /\ h <= cursor \/ (job = "run" /\ Committed(h))
       /\ job = "run" =>
            \A p \in Ahead : h < p \/ (h = p /\ Committed(h))

FillPaid(h) ==
  /\ fills[h] <= 1 + slips
  /\ fills[h] = 1 + slips =>
       /\ (backCursor # None /\ backCursor <= h) \/ h \in batch
       /\ job = "backfill" =>
            /\ \A p \in plan : p < h
            /\ \A b \in batch : b < h \/ h \in batch
            /\ h \in DOMAIN work => Committed(h)

\* What lies before the hours ahead has been processed.
CursorInv ==
  /\ cursor # None => origin # None /\ runs[cursor] > 0
  /\ \A h \in DOMAIN work :
       /\ job = "run" /\ Committed(h) => runs[h] > 0
       /\ work[h].stage = "save" => h \in ran
  /\ ~misread =>
       /\ cursor = None <=> origin = None
       /\ cursor # None =>
            /\ \A g \in Hours : origin <= g /\ g <= cursor => g \in ran
            /\ job = "run" =>
                 \A p \in Ahead, g \in Hours :
                   origin <= g /\ g < p => g \in ran \cup Ahead

BackInv ==
  /\ backCursor = None <=> backOrigin = None
  /\ backCursor # None =>
       /\ \A g \in Hours : backCursor <= g /\ g <= backOrigin => g \in filled
       /\ job = "backfill" =>
            \A p \in Below, g \in Hours :
              p <= g /\ g <= backOrigin => g \in filled \cup Below

IngestInv ==
  /\ StateOK /\ Shape /\ RunOrder /\ FillOrder
  /\ \A h \in Hours : RunPaid(h) /\ FillPaid(h)
  /\ CursorInv /\ BackInv

-----------------------------------------------------------------------------
(* Least and greatest hours *)

LEMMA LeastHour ==
  ASSUME NEW S, S \subseteq Nat, S # {}
  PROVE  \E x \in S : \A y \in S : x <= y
<1>1. PICK x \in S : \A y \in S : ~(<<y, x>> \in OpToRel(<, Nat))
  BY NatLessThanWellFounded, WFMin, Zenon
<1>2. ASSUME NEW y \in S PROVE x <= y
  <2>1. x \in Nat /\ y \in Nat
    BY <1>1
  <2>2. ~(y < x)
    BY <1>1, <2>1 DEF OpToRel
  <2>3. QED
    BY <2>1, <2>2
<1>3. QED
  BY <1>1, <1>2

LEMMA MinHour ==
  ASSUME NEW S, S \subseteq Hours, S # {}
  PROVE  Min(S) \in S /\ \A y \in S : Min(S) <= y
<1>1. S \subseteq Nat
  BY IngestAssumption DEF Hours
<1>2. PICK x \in S : \A y \in S : x <= y
  BY <1>1, LeastHour
<1>3. QED
  BY <1>2 DEF Min

LEMMA MaxHour ==
  ASSUME NEW S, S \subseteq Hours, S # {}
  PROVE  Max(S) \in S /\ \A y \in S : y <= Max(S)
<1> DEFINE Down == {Horizon - x : x \in S}
<1>1. Horizon \in Nat /\ \A x \in S : x \in Nat /\ x <= Horizon
  BY IngestAssumption DEF Hours
<1>2. Down \subseteq Nat /\ Down # {}
  BY <1>1
<1>3. PICK d \in Down : \A e \in Down : d <= e
  BY <1>2, LeastHour
<1>4. PICK x \in S : d = Horizon - x
  BY <1>3
<1>5. ASSUME NEW y \in S PROVE y <= x
  <2>1. Horizon - x <= Horizon - y
    BY <1>3, <1>4
  <2>2. QED
    BY <1>1, <2>1
<1>6. QED
  BY <1>1, <1>4, <1>5 DEF Max

-----------------------------------------------------------------------------

LEMMA HoursAreNat == Hours \subseteq Nat /\ None \notin Hours /\ None = -1
  BY IngestAssumption DEF Hours, None

LEMMA IngestInit == Init => IngestInv
<1> SUFFICES ASSUME Init PROVE IngestInv
  OBVIOUS
<1> USE DEF Init
<1>1. now \in Hours /\ Start \in Nat
  BY IngestAssumption DEF Hours
<1>2. DOMAIN work = {}
  BY DEF NoWork
<1>3. StateOK
  BY <1>1, <1>2 DEF StateOK, Mark, NoWork
<1>4. Shape
  BY <1>2 DEF Shape, Maintenance
<1>4a. RunOrder
  BY DEF RunOrder
<1>5. FillOrder
  BY <1>1, <1>2, HoursAreNat DEF FillOrder
<1>6. ASSUME NEW h \in Hours PROVE RunPaid(h) /\ FillPaid(h)
  BY <1>6 DEF RunPaid, FillPaid
<1>7. CursorInv /\ BackInv
  BY <1>2 DEF CursorInv, BackInv
<1>8. QED
  BY <1>3, <1>4, <1>4a, <1>5, <1>6, <1>7 DEF IngestInv

-----------------------------------------------------------------------------
(* Steps that do not touch the work *)

\* Steps of the environment and of the table.
LEMMA QuietStep ==
  ASSUME IngestInv,
         now' \in Hours, now <= now',
         UNCHANGED <<cursor, backCursor, loop, history>>
  PROVE  IngestInv'
<1> USE DEF IngestInv, loop, history
<1>1. StateOK'
  BY DEF StateOK
<1>2. Shape' /\ RunOrder'
  BY DEF Shape, RunOrder, Ahead
<1>3. FillOrder'
  <2>1. /\ now \in Int /\ now' \in Int /\ Below \subseteq Int
        /\ backOrigin \in Int /\ backCursor \in Int
    BY HoursAreNat DEF StateOK, Mark, Below
  <2>2. Below' = Below
    BY DEF Below
  <2>3. QED
    BY <2>1, <2>2 DEF FillOrder
<1>4. \A h \in Hours : RunPaid(h)' /\ FillPaid(h)'
  BY DEF RunPaid, FillPaid, Committed, Ahead
<1>5. CursorInv' /\ BackInv'
  BY DEF CursorInv, BackInv, Committed, Ahead, Below
<1>6. QED
  BY <1>1, <1>2, <1>3, <1>4, <1>5

\* Maintenance goes on, or hands back to its job.
LEMMA MaintenanceStep ==
  ASSUME IngestInv, pc \in Maintenance,
         \/ pc' \in Maintenance /\ UNCHANGED job
         \/ Resume,
         UNCHANGED <<now, cursor, backCursor, plan, batch, work, history>>
  PROVE  IngestInv'
<1> USE DEF IngestInv, history
<1>1. StateOK'
  BY DEF StateOK
<1>2. batch = {} /\ DOMAIN work = {} /\ job \in {"backfill", "run"}
      /\ (job = "run" => plan = {})
  BY DEF Shape
<1>3. Shape'
  BY <1>2 DEF Shape, Resume, Maintenance
<1>4. job' = job \/ (job' = "none" /\ job = "run" /\ plan = {})
  BY <1>2 DEF Resume
<1>5. RunOrder'
  BY <1>2, <1>4 DEF RunOrder, Ahead
<1>6. FillOrder'
  BY <1>4 DEF FillOrder, Below
<1>7. \A h \in Hours : RunPaid(h)' /\ FillPaid(h)'
  BY <1>2, <1>4 DEF RunPaid, FillPaid, Committed, Ahead
<1>8. CursorInv' /\ BackInv'
  BY <1>2, <1>4 DEF CursorInv, BackInv, Committed, Ahead, Below
<1>9. QED
  BY <1>1, <1>3, <1>5, <1>6, <1>7, <1>8

-----------------------------------------------------------------------------
(* Steps of one hour *)

\* An hour under way belongs to a batch or to the forward run.
LEMMA UnderWay ==
  ASSUME IngestInv, NEW h \in DOMAIN work
  PROVE  /\ h \in Hours
         /\ \/ pc = "batch" /\ job = "backfill" /\ h \in batch
            \/ pc = "hours" /\ job = "run" /\ batch = {} /\ DOMAIN work = {h}
  BY DEF IngestInv, StateOK, Shape, RunOrder, Maintenance

\* An attempt breaks off, or a worker gets its slot.
LEMMA AttemptStep ==
  ASSUME IngestInv,
         DOMAIN work' = DOMAIN work,
         work' \in [DOMAIN work -> [stage : Stage, tries : Nat, agg : Nat]],
         \A h \in DOMAIN work :
           \/ work'[h].stage = work[h].stage
           \/ work[h].stage = "waiting" /\ work'[h].stage = "stream",
         UNCHANGED <<now, syncState, pc, job, plan, batch, history>>
  PROVE  IngestInv'
<1> USE DEF IngestInv, syncState, history
<1>1. StateOK'
  BY DEF StateOK
<1>2. Shape' /\ RunOrder'
  BY DEF Shape, RunOrder, Ahead
<1>3. FillOrder'
  BY DEF FillOrder, Below
<1>4. \A h : Committed(h)' <=> Committed(h)
  BY DEF Committed
<1>5. \A h \in Hours : RunPaid(h)' /\ FillPaid(h)'
  BY <1>4 DEF RunPaid, FillPaid, Ahead
<1>6. CursorInv' /\ BackInv'
  BY <1>4 DEF CursorInv, BackInv, Ahead, Below
<1>7. QED
  BY <1>1, <1>2, <1>3, <1>5, <1>6

LEMMA StreamBreaksStep ==
  ASSUME IngestInv, NEW h \in Hours, StreamBreaks(h)
  PROVE  IngestInv'
<1>1. PICK n \in 0..1 :
        work' = [work EXCEPT ![h].tries = @ + 1, ![h].agg = @ + n]
  BY DEF StreamBreaks
<1>2. h \in DOMAIN work /\ work[h] \in [stage : Stage, tries : Nat, agg : Nat]
  BY DEF StreamBreaks, At, IngestInv, StateOK
<1>3. work'[h] = [stage |-> work[h].stage, tries |-> work[h].tries + 1,
                  agg |-> work[h].agg + n]
  BY <1>1, <1>2
<1>4. \A g \in DOMAIN work : g # h => work'[g] = work[g]
  BY <1>1
<1>5. work' \in [DOMAIN work -> [stage : Stage, tries : Nat, agg : Nat]]
  BY <1>1, <1>2, <1>3, <1>4 DEF IngestInv, StateOK
<1>6. QED
  BY <1>1, <1>3, <1>4, <1>5, AttemptStep DEF StreamBreaks

LEMMA AcquireStep ==
  ASSUME IngestInv, NEW h \in Hours, Acquire(h)
  PROVE  IngestInv'
<1>1. h \in DOMAIN work /\ work[h].stage = "waiting"
      /\ work' = [work EXCEPT ![h] = Fresh]
  BY DEF Acquire, At
<1>2. Fresh \in [stage : Stage, tries : Nat, agg : Nat]
      /\ Fresh.stage = "stream"
  BY DEF Fresh, Stage
<1>3. work' \in [DOMAIN work -> [stage : Stage, tries : Nat, agg : Nat]]
  BY <1>1, <1>2 DEF IngestInv, StateOK
<1>4. QED
  BY <1>1, <1>2, <1>3, AttemptStep DEF Acquire

\* The hour leaves the work, recorded as over.
LEMMA LeaveWork ==
  ASSUME IngestInv, NEW h \in DOMAIN work, End(h)
  PROVE  /\ DOMAIN work' = DOMAIN work \ {h}
         /\ \A g \in DOMAIN work' : work'[g] = work[g]
         /\ work' \in [DOMAIN work' -> [stage : Stage, tries : Nat, agg : Nat]]
         /\ \A g : Committed(g)' <=> Committed(g) /\ g # h
<1>1. /\ DOMAIN work' = DOMAIN work \ {h}
      /\ \A g \in DOMAIN work' : work'[g] = work[g]
      /\ work' = [g \in DOMAIN work' |-> work'[g]]
  BY DEF End, Restrict
<1>2. \A g \in DOMAIN work :
        work[g] \in [stage : Stage, tries : Nat, agg : Nat]
  BY DEF IngestInv, StateOK
<1>3. QED
  BY <1>1, <1>2 DEF Committed

LEMMA GiveUpStep ==
  ASSUME IngestInv, NEW h \in Hours, GiveUp(h)
  PROVE  IngestInv'
<1> USE DEF GiveUp
<1>1. h \in DOMAIN work /\ work[h].stage = "stream" /\ ~Committed(h)
  BY DEF At, Committed
<1>2. /\ DOMAIN work' = DOMAIN work \ {h}
      /\ \A g \in DOMAIN work' : work'[g] = work[g]
      /\ work' \in [DOMAIN work' -> [stage : Stage, tries : Nat, agg : Nat]]
      /\ \A g : Committed(g)' <=> Committed(g) /\ g # h
  BY <1>1, LeaveWork
<1>3. \/ pc = "batch" /\ job = "backfill" /\ h \in batch
      \/ pc = "hours" /\ job = "run" /\ batch = {} /\ DOMAIN work = {h}
  BY <1>1, UnderWay
<1>4. /\ ran \subseteq ran' /\ filled \subseteq filled'
      /\ ran' \subseteq Hours /\ filled' \subseteq Hours
      /\ job = "run" => h \in ran'
      /\ job = "backfill" => h \in filled'
  BY DEF Over, IngestInv, StateOK
<1> USE DEF IngestInv, syncState
<1>5. StateOK'
  BY <1>2, <1>4 DEF StateOK
<1>6. Shape'
  BY <1>2, <1>3 DEF Shape, Maintenance
<1>7. RunOrder'
  BY <1>1, <1>2, <1>3, HoursAreNat DEF RunOrder, Ahead, StateOK
<1>8. FillOrder'
  BY <1>2, <1>3, <1>4 DEF FillOrder, Below
<1>9. \A g \in Hours : RunPaid(g)' /\ FillPaid(g)'
  BY <1>1, <1>2, <1>3 DEF RunPaid, FillPaid, Ahead
<1>10. CursorInv'
  BY <1>1, <1>2, <1>3, <1>4 DEF CursorInv, Ahead
<1>11. BackInv'
  BY <1>4 DEF BackInv, Below
<1>12. QED
  BY <1>5, <1>6, <1>7, <1>8, <1>9, <1>10, <1>11

\* An hour that has not been counted in this job has a repetition to spare, and one
\* more slip pays for another: no hour is left at its bound.
LEMMA UnansweredStep ==
  ASSUME IngestInv, NEW h \in Hours, UpsertUnanswered(h)
  PROVE  IngestInv'
<1> USE DEF UpsertUnanswered, Count
<1>1. h \in DOMAIN work /\ work[h].stage = "stream" /\ ~Committed(h)
  BY DEF At, Committed
<1>2. /\ DOMAIN work' = DOMAIN work \ {h}
      /\ \A g \in DOMAIN work' : work'[g] = work[g]
      /\ work' \in [DOMAIN work' -> [stage : Stage, tries : Nat, agg : Nat]]
      /\ \A g : Committed(g)' <=> Committed(g) /\ g # h
  BY <1>1, LeaveWork
<1>3. \/ pc = "batch" /\ job = "backfill" /\ h \in batch
      \/ pc = "hours" /\ job = "run" /\ batch = {} /\ DOMAIN work = {h}
  BY <1>1, UnderWay
<1>4. /\ ran \subseteq ran' /\ filled \subseteq filled'
      /\ ran' \subseteq Hours /\ filled' \subseteq Hours
      /\ job = "run" => h \in ran'
      /\ job = "backfill" => h \in filled'
  BY DEF Over, IngestInv, StateOK
<1>5. /\ runs \in [Hours -> Nat] /\ fills \in [Hours -> Nat]
      /\ slips \in Nat /\ slips' = slips + 1
      /\ \A g \in Hours : g # h => runs'[g] = runs[g] /\ fills'[g] = fills[g]
      /\ job = "run" => runs'[h] = runs[h] + 1 /\ fills'[h] = fills[h]
      /\ job = "backfill" => fills'[h] = fills[h] + 1 /\ runs'[h] = runs[h]
      /\ runs' \in [Hours -> Nat] /\ fills' \in [Hours -> Nat]
  BY <1>3 DEF IngestInv, StateOK
<1>6. \A g \in Hours : runs[g] <= 1 + slips /\ fills[g] <= 1 + slips
  BY DEF IngestInv, RunPaid, FillPaid
<1>7. job = "run" => runs[h] # 1 + slips
  <2>1. h \in Ahead /\ ~(h < h)
    BY <1>1, HoursAreNat DEF Ahead
  <2>2. QED
    BY <1>1, <2>1 DEF IngestInv, RunPaid
<1>8. job = "backfill" => fills[h] # 1 + slips
  BY <1>1 DEF IngestInv, FillPaid
<1>9. \A g \in Hours : runs'[g] <= 1 + slips /\ fills'[g] <= 1 + slips
  BY <1>3, <1>5, <1>6, <1>7, <1>8
<1>10. \A g \in Hours : runs[g] > 0 => runs'[g] > 0
  BY <1>3, <1>5
<1> USE DEF IngestInv, syncState
<1>11. StateOK'
  BY <1>2, <1>4, <1>5 DEF StateOK
<1>12. Shape'
  BY <1>2, <1>3 DEF Shape, Maintenance
<1>13. RunOrder'
  BY <1>1, <1>2, <1>3, HoursAreNat DEF RunOrder, Ahead, StateOK
<1>14. FillOrder'
  BY <1>2, <1>3, <1>4 DEF FillOrder, Below
<1>15. \A g \in Hours : RunPaid(g)' /\ FillPaid(g)'
  <2>1. ASSUME NEW g \in Hours
        PROVE  /\ runs'[g] <= 1 + slips' /\ fills'[g] <= 1 + slips'
               /\ runs'[g] # 1 + slips' /\ fills'[g] # 1 + slips'
    BY <1>5, <1>9
  <2>2. QED
    BY <2>1 DEF RunPaid, FillPaid
<1>16. CursorInv'
  <2>1. cursor # None => cursor \in Hours
    BY DEF StateOK, Mark
  <2>2. DOMAIN work \subseteq Hours
    BY DEF StateOK
  <2>3. QED
    BY <1>1, <1>2, <1>3, <1>4, <1>10, <2>1, <2>2 DEF CursorInv, Ahead
<1>17. BackInv'
  BY <1>4 DEF BackInv, Below
<1>18. QED
  BY <1>11, <1>12, <1>13, <1>14, <1>15, <1>16, <1>17

LEMMA NotFoundStep ==
  ASSUME IngestInv, NEW h \in Hours, NotFound(h)
  PROVE  IngestInv'
<1> USE DEF NotFound
<1>1. h \in DOMAIN work /\ work[h].stage = "stream" /\ ~Committed(h)
  BY DEF At, Committed
<1>2. /\ DOMAIN work' = DOMAIN work \ {h}
      /\ \A g \in DOMAIN work' : work'[g] = work[g]
      /\ work' \in [DOMAIN work' -> [stage : Stage, tries : Nat, agg : Nat]]
      /\ \A g : Committed(g)' <=> Committed(g) /\ g # h
  BY <1>1, LeaveWork
<1>3. \/ pc = "batch" /\ job = "backfill" /\ h \in batch
      \/ pc = "hours" /\ job = "run" /\ batch = {} /\ DOMAIN work = {h}
  BY <1>1, UnderWay
<1>4. /\ filled \subseteq filled' /\ filled' \subseteq Hours
      /\ job = "backfill" => h \in filled'
      /\ plan' \subseteq plan
      /\ job = "backfill" => plan' = plan
  BY DEF IngestInv, StateOK
<1> USE DEF IngestInv, syncState
<1>5. StateOK'
  BY <1>2, <1>4 DEF StateOK
<1>6. Shape'
  BY <1>2, <1>3 DEF Shape, Maintenance
<1>7. job = "run" => Ahead' = {} /\ plan' = {} /\ DOMAIN work' = {}
  BY <1>2, <1>3 DEF Ahead
<1>8. RunOrder'
  BY <1>7 DEF RunOrder
<1>9. FillOrder'
  BY <1>2, <1>3, <1>4 DEF FillOrder, Below
<1>10. \A g \in Hours : RunPaid(g)' /\ FillPaid(g)'
  BY <1>1, <1>2, <1>3, <1>4, <1>7 DEF RunPaid, FillPaid
<1>11. CursorInv'
  BY <1>1, <1>2, <1>3, <1>4, <1>7 DEF CursorInv
<1>12. BackInv'
  BY <1>4 DEF BackInv, Below
<1>13. QED
  BY <1>5, <1>6, <1>8, <1>9, <1>10, <1>11, <1>12

LEMMA UpsertStep ==
  ASSUME IngestInv, NEW h \in Hours, Upsert(h)
  PROVE  IngestInv'
<1> USE DEF Upsert, Count
<1>1. h \in DOMAIN work /\ work[h].stage = "stream" /\ ~Committed(h)
  BY DEF At, Committed
<1>2. \/ pc = "batch" /\ job = "backfill" /\ h \in batch
      \/ pc = "hours" /\ job = "run" /\ batch = {} /\ DOMAIN work = {h}
  BY <1>1, UnderWay
<1>3. work \in [DOMAIN work -> [stage : Stage, tries : Nat, agg : Nat]]
      /\ DOMAIN work \subseteq Hours
  BY DEF IngestInv, StateOK
<1>4. /\ DOMAIN work' = DOMAIN work
      /\ \A g \in DOMAIN work : g # h => work'[g] = work[g]
      /\ work'[h].stage = "queue"
      /\ work' \in [DOMAIN work -> [stage : Stage, tries : Nat, agg : Nat]]
  <2>1. work[h] \in [stage : Stage, tries : Nat, agg : Nat]
    BY <1>1, <1>3
  <2>2. [work[h] EXCEPT !.stage = "queue"]
          \in [stage : Stage, tries : Nat, agg : Nat]
        /\ [work[h] EXCEPT !.stage = "queue"].stage = "queue"
    BY <2>1 DEF Stage
  <2>3. QED
    BY <1>1, <1>3, <2>2
<1>5. /\ Committed(h)' /\ Ahead' = Ahead
      /\ \A g : g # h => (Committed(g)' <=> Committed(g))
  BY <1>1, <1>4 DEF Committed, Ahead
<1>6. /\ runs \in [Hours -> Nat] /\ fills \in [Hours -> Nat] /\ slips \in Nat
      /\ \A g \in Hours : g # h => runs'[g] = runs[g] /\ fills'[g] = fills[g]
      /\ job = "run" => runs'[h] = runs[h] + 1 /\ fills'[h] = fills[h]
      /\ job = "backfill" => fills'[h] = fills[h] + 1 /\ runs'[h] = runs[h]
      /\ runs' \in [Hours -> Nat] /\ fills' \in [Hours -> Nat]
  BY <1>2 DEF IngestInv, StateOK
<1> USE DEF IngestInv, syncState
<1>7. StateOK'
  BY <1>3, <1>4, <1>6 DEF StateOK
<1>8. Shape'
  BY <1>1, <1>4 DEF Shape
<1>9. RunOrder'
  BY <1>4, <1>5 DEF RunOrder
<1>10. FillOrder'
  BY <1>4 DEF FillOrder, Below
<1>11. RunPaid(h)'
  <2>1. CASE job = "run"
    <3>1. runs[h] <= slips
      <4>1. h \in Ahead /\ ~(h < h)
        BY <1>1, HoursAreNat DEF Ahead
      <4>2. runs[h] # 1 + slips
        BY <1>1, <2>1, <4>1 DEF RunPaid
      <4>3. QED
        BY <1>6, <4>2 DEF RunPaid
    <3>2. runs'[h] <= 1 + slips
      BY <1>6, <2>1, <3>1
    <3>3. \A p \in Ahead : h < p \/ h = p
      BY <1>2, <2>1 DEF RunOrder, Ahead
    <3>4. QED
      BY <1>5, <2>1, <3>2, <3>3 DEF RunPaid
  <2>2. CASE job = "backfill"
    BY <1>5, <1>6, <2>2 DEF RunPaid
  <2>3. QED
    BY <1>2, <2>1, <2>2
<1>12. FillPaid(h)'
  <2>1. CASE job = "backfill"
    <3>1. fills[h] <= slips
      <4>1. fills[h] # 1 + slips
        BY <1>1, <2>1 DEF FillPaid
      <4>2. QED
        BY <1>6, <4>1 DEF FillPaid
    <3>2. fills'[h] <= 1 + slips
      BY <1>6, <2>1, <3>1
    <3>3. h \in batch /\ \A p \in plan : p < h
      BY <1>2, <2>1 DEF FillOrder
    <3>4. QED
      BY <1>5, <2>1, <3>2, <3>3 DEF FillPaid
  <2>2. CASE job = "run"
    BY <1>5, <1>6, <2>2 DEF FillPaid
  <2>3. QED
    BY <1>2, <2>1, <2>2
<1>13. \A g \in Hours : g # h => RunPaid(g)' /\ FillPaid(g)'
  BY <1>4, <1>5, <1>6 DEF RunPaid, FillPaid
<1>14. CursorInv'
  <2>1. \A g \in Hours : runs'[g] >= runs[g]
    BY <1>2, <1>6
  <2>2. cursor # None => origin # None /\ runs'[cursor] > 0
    BY <1>6, <2>1 DEF CursorInv, StateOK, Mark
  <2>3. \A g \in DOMAIN work' :
          /\ job = "run" /\ Committed(g)' => runs'[g] > 0
          /\ work'[g].stage = "save" => g \in ran
    BY <1>2, <1>3, <1>4, <1>5, <1>6 DEF CursorInv
  <2>4. QED
    BY <1>5, <2>2, <2>3 DEF CursorInv
<1>15. BackInv'
  BY DEF BackInv, Below
<1>16. QED
  BY <1>7, <1>8, <1>9, <1>10, <1>11, <1>12, <1>13, <1>14, <1>15

LEMMA QueueContributorsStep ==
  ASSUME IngestInv, NEW h \in Hours, QueueContributors(h)
  PROVE  IngestInv'
<1> USE DEF QueueContributors
<1>1. h \in DOMAIN work /\ work[h].stage = "queue" /\ Committed(h)
  BY DEF At, Committed
<1>2. \/ pc = "batch" /\ job = "backfill" /\ h \in batch
      \/ pc = "hours" /\ job = "run" /\ batch = {} /\ DOMAIN work = {h}
  BY <1>1, UnderWay
<1>3. /\ ran \subseteq ran' /\ filled \subseteq filled'
      /\ ran' \subseteq Hours /\ filled' \subseteq Hours
      /\ job = "run" => h \in ran'
      /\ job = "backfill" => h \in filled'
  BY DEF Over, IngestInv, StateOK
<1>4. CASE job = "run"
  <2>1. /\ DOMAIN work' = {h} /\ work'[h].stage = "save"
        /\ work' \in [DOMAIN work' -> [stage : Stage, tries : Nat, agg : Nat]]
    <3>1. work \in [{h} -> [stage : Stage, tries : Nat, agg : Nat]]
      BY <1>2, <1>4 DEF IngestInv, StateOK
    <3>2. [work[h] EXCEPT !.stage = "save"]
            \in [stage : Stage, tries : Nat, agg : Nat]
          /\ [work[h] EXCEPT !.stage = "save"].stage = "save"
      BY <3>1 DEF Stage
    <3>3. QED
      BY <1>4, <3>1, <3>2
  <2>2. Ahead' = Ahead /\ DOMAIN work = {h} /\ batch = {} /\ pc = "hours"
        /\ \A g : Committed(g)' <=> Committed(g)
    BY <1>1, <1>2, <1>4, <2>1 DEF Ahead, Committed
  <2> USE DEF IngestInv, syncState
  <2>3. StateOK'
    BY <1>3, <2>1 DEF StateOK
  <2>4. Shape'
    BY <1>4, <2>1, <2>2 DEF Shape, Maintenance
  <2>5. RunOrder' /\ FillOrder'
    BY <1>3, <1>4, <2>1, <2>2 DEF RunOrder, FillOrder
  <2>6. \A g \in Hours : RunPaid(g)' /\ FillPaid(g)'
    BY <1>4, <2>2 DEF RunPaid, FillPaid
  <2>7. CursorInv'
    BY <1>1, <1>3, <1>4, <2>1, <2>2 DEF CursorInv
  <2>8. BackInv'
    BY <1>3 DEF BackInv, Below
  <2>9. QED
    BY <2>3, <2>4, <2>5, <2>6, <2>7, <2>8
<1>5. CASE job = "backfill"
  <2>1. /\ DOMAIN work' = DOMAIN work \ {h}
        /\ \A g \in DOMAIN work' : work'[g] = work[g]
        /\ work' \in [DOMAIN work' -> [stage : Stage, tries : Nat, agg : Nat]]
        /\ \A g : Committed(g)' <=> Committed(g) /\ g # h
    BY <1>1, <1>5, LeaveWork
  <2> USE DEF IngestInv, syncState
  <2>2. StateOK'
    BY <1>3, <2>1 DEF StateOK
  <2>3. Shape'
    BY <1>2, <1>5, <2>1 DEF Shape, Maintenance
  <2>4. RunOrder' /\ FillOrder'
    BY <1>3, <1>5, <2>1 DEF RunOrder, FillOrder, Below
  <2>5. \A g \in Hours : RunPaid(g)' /\ FillPaid(g)'
    BY <1>2, <1>5, <2>1 DEF RunPaid, FillPaid
  <2>6. CursorInv'
    BY <1>3, <1>5, <2>1 DEF CursorInv
  <2>7. BackInv'
    BY <1>3 DEF BackInv, Below
  <2>8. QED
    BY <2>2, <2>3, <2>4, <2>5, <2>6, <2>7
<1>6. QED
  BY <1>2, <1>4, <1>5

LEMMA SaveCursorStep ==
  ASSUME IngestInv, NEW h \in Hours, SaveCursor(h)
  PROVE  IngestInv'
<1>1. h \in DOMAIN work /\ work[h].stage = "save" /\ Committed(h)
  BY DEF SaveCursor, At, Committed
<1>2. /\ DOMAIN work' = DOMAIN work \ {h}
      /\ \A g \in DOMAIN work' : work'[g] = work[g]
      /\ work' \in [DOMAIN work' -> [stage : Stage, tries : Nat, agg : Nat]]
      /\ \A g : Committed(g)' <=> Committed(g) /\ g # h
  BY <1>1, LeaveWork DEF SaveCursor
<1>3. job = "run" /\ pc = "hours" /\ batch = {} /\ DOMAIN work = {h}
  BY <1>1, UnderWay DEF IngestInv, Shape
<1>4. DOMAIN work' = {} /\ Ahead' = plan /\ Ahead = plan \cup {h}
      /\ \A g : ~Committed(g)'
  BY <1>2, <1>3 DEF Ahead, SaveCursor, Committed
<1>5. /\ \A p \in plan : h < p
      /\ \A a, b \in plan \cup {h}, g \in Hours :
           a <= g /\ g <= b => g \in plan \cup {h}
      /\ h \in ran /\ runs[h] > 0
      /\ plan \subseteq Hours
  BY <1>1, <1>3, <1>4 DEF IngestInv, RunOrder, CursorInv, StateOK
<1> USE DEF SaveCursor, IngestInv
<1>6. StateOK'
  BY <1>2, <1>4, SMTT(30) DEF StateOK, Mark
<1>7. Shape'
  BY <1>3, <1>4 DEF Shape, Maintenance
<1>8. RunOrder'
  BY <1>3, <1>4, <1>5, HoursAreNat DEF RunOrder
<1>9. FillOrder'
  BY <1>3, <1>4 DEF FillOrder, Below
<1>10. BackInv'
  BY DEF BackInv, Below
<1>11. CASE cursor' = h /\ slips' = slips
               /\ origin' = IF origin = None THEN h ELSE origin
  <2>1. ASSUME NEW g \in Hours PROVE RunPaid(g)'
    <3>0. RunPaid(g) /\ h \in Ahead /\ plan \subseteq Ahead
      BY <1>4
    <3>1. runs[g] = 1 + slips => g <= h
      BY <1>3, <3>0, HoursAreNat DEF RunPaid
    <3>2. runs[g] = 1 + slips => \A p \in plan : g < p
      BY <1>3, <1>5, <3>0, <3>1, HoursAreNat
    <3>3. QED
      BY <1>4, <1>11, <3>1, <3>2 DEF RunPaid
  <2>2. \A g \in Hours : FillPaid(g)'
    BY <1>3, <1>11 DEF FillPaid
  <2>3. CursorInv'
    <3>1. origin' # None /\ runs'[cursor'] > 0 /\ cursor' # None
      BY <1>5, <1>11, HoursAreNat
    <3>2. ASSUME ~misread, NEW g \in Hours, origin' <= g, g <= h
          PROVE  g \in ran
      <4>1. CASE cursor = None
        <5>1. g = h
          BY <1>11, <3>2, <4>1, HoursAreNat DEF CursorInv
        <5>2. QED
          BY <1>5, <5>1
      <4>2. CASE cursor # None /\ g < h
        <5>1. g \in ran \cup plan \cup {h} /\ g \notin plan
          BY <1>3, <1>4, <1>5, <1>11, <3>2, <4>2, HoursAreNat DEF CursorInv
        <5>2. QED
          BY <1>5, <5>1
      <4>3. CASE g = h
        BY <1>5, <4>3
      <4>4. QED
        BY <3>2, <4>1, <4>2, <4>3, HoursAreNat
    <3>3. ASSUME ~misread, NEW p \in plan, NEW g \in Hours,
                 origin' <= g, g < p
          PROVE  g \in ran \cup plan
      <4>1. CASE g <= h
        BY <3>2, <3>3, <4>1
      <4>2. CASE h < g
        BY <1>5, <3>3, <4>2, HoursAreNat
      <4>3. QED
        BY <3>3, <4>1, <4>2, HoursAreNat
    <3>4. QED
      BY <1>4, <1>11, <3>1, <3>2, <3>3 DEF CursorInv
  <2>4. QED
    BY <1>6, <1>7, <1>8, <1>9, <1>10, <2>1, <2>2, <2>3
<1>12. CASE slips' = slips + 1 /\ UNCHANGED <<cursor, origin>>
  <2>1. \A g \in Hours : RunPaid(g)' /\ FillPaid(g)'
    BY <1>12 DEF RunPaid, FillPaid, StateOK
  <2>2. CursorInv'
    <3>1. ASSUME ~misread, cursor # None, NEW p \in plan, NEW g \in Hours,
                 origin <= g, g < p
          PROVE  g \in ran \cup plan
      BY <1>3, <1>4, <1>5, <3>1 DEF CursorInv
    <3>2. QED
      BY <1>4, <1>12, <3>1 DEF CursorInv
  <2>3. QED
    BY <1>6, <1>7, <1>8, <1>9, <1>10, <2>1, <2>2
<1>13. QED
  BY <1>11, <1>12

-----------------------------------------------------------------------------
(* Steps of the two jobs *)

LEMMA BackfillPlan ==
  ASSUME StateOK, NEW c \in Mark, c < now
  PROVE  /\ BackfillHours(c) \subseteq Hours
         /\ \A a, b \in BackfillHours(c), g \in Hours :
              a <= g /\ g <= b => g \in BackfillHours(c)
         /\ \A p \in BackfillHours(c) :
              /\ p < now
              /\ c # None => p < c
              /\ \A g \in Hours :
                   p <= g /\ (IF c = None THEN g < now ELSE g < c)
                     => g \in BackfillHours(c)
<1> DEFINE first == IF c = None THEN now - 1 ELSE c - 1
           last == now - BackfillSpan
<1>1. now \in Int /\ c \in Int /\ first \in Int /\ last \in Int
  BY IngestAssumption, HoursAreNat DEF StateOK, Mark
<1>2. QED
  <2>1. \A g : g \in BackfillHours(c)
                <=> g \in Hours /\ first > last /\ last <= g /\ g <= first
    BY DEF BackfillHours
  <2>2. \A g \in Hours : g \in Int
    BY HoursAreNat
  <2>3. c # None => first = c - 1 /\ first < now
    BY <1>1
  <2>4. c = None => first = now - 1
    OBVIOUS
  <2> HIDE DEF first, last
  <2>5. QED
    BY <1>1, <2>1, <2>2, <2>3, <2>4

LEMMA RunPlan ==
  ASSUME StateOK, NEW c \in Mark
  PROVE  /\ ComputeHours(c) \subseteq Hours
         /\ \A a, b \in ComputeHours(c), g \in Hours :
              a <= g /\ g <= b => g \in ComputeHours(c)
         /\ c # None =>
              \A p \in ComputeHours(c) :
                /\ c < p
                /\ \A g \in Hours : c < g /\ g < p => g \in ComputeHours(c)
<1> DEFINE first == IF c = None THEN LastAvailable - (Lookback - 1) ELSE c + 1
           cap == IF c = None THEN Lookback ELSE CatchupMax
<1>1. /\ c \in Int /\ LastAvailable \in Int /\ first \in Int /\ cap \in Int
      /\ c # None => first = c + 1
  BY IngestAssumption, HoursAreNat DEF StateOK, Mark, LastAvailable
<1>2. \A g : g \in ComputeHours(c)
              <=> g \in Hours /\ first <= g /\ g <= LastAvailable
                              /\ g < first + cap
  BY DEF ComputeHours
<1>3. \A g \in Hours : g \in Int
  BY HoursAreNat
<1> HIDE DEF first, cap
<1>4. QED
  BY <1>1, <1>2, <1>3

LEMMA StartBackfillStep ==
  ASSUME IngestInv, StartBackfill
  PROVE  IngestInv'
<1> USE DEF StartBackfill
<1>1. PICK c \in ReadSyncState(backCursor) :
        /\ Slip(backCursor, c)
        /\ plan' = IF BackfillSpan > 0 THEN BackfillHours(c) ELSE {}
  OBVIOUS
<1>2. job = "none" /\ batch = {} /\ DOMAIN work = {}
  BY DEF IngestInv, Shape
<1>3. c \in Mark /\ c < now /\ (c = backCursor \/ c = None)
      /\ backCursor \in Mark
  BY <1>1, HoursAreNat DEF ReadSyncState, IngestInv, StateOK, Mark, FillOrder
<1>4. \/ c = backCursor /\ slips' = slips
      \/ slips' = slips + 1
  BY <1>1 DEF Slip
<1>5. /\ plan' \subseteq Hours
      /\ \A a, b \in plan', g \in Hours : a <= g /\ g <= b => g \in plan'
      /\ \A p \in plan' :
           /\ p < now
           /\ c # None => p < c
           /\ \A g \in Hours :
                p <= g /\ (IF c = None THEN g < now ELSE g < c) => g \in plan'
  BY <1>1, <1>3, BackfillPlan DEF IngestInv
<1> HIDE DEF StartBackfill
<1> USE DEF IngestInv, syncState
<1>6. /\ pc' = "batches" /\ job' = "backfill"
      /\ UNCHANGED <<now, cursor, backCursor, batch, work, runs, fills, ran,
                     filled, origin, backOrigin, misread>>
  BY DEF StartBackfill
<1>7. StateOK'
  BY <1>4, <1>5, <1>6 DEF StateOK
<1>8. Shape' /\ RunOrder'
  BY <1>2, <1>6 DEF Shape, RunOrder, Maintenance
<1>9. FillOrder'
  BY <1>2, <1>5, <1>6 DEF FillOrder, Below
<1>10. ASSUME NEW g \in Hours PROVE RunPaid(g)' /\ FillPaid(g)'
  <2>1. RunPaid(g) /\ FillPaid(g) /\ runs[g] \in Nat /\ fills[g] \in Nat
        /\ slips \in Nat
    BY DEF StateOK
  <2>2. CASE slips' = slips + 1
    BY <1>6, <2>1, <2>2 DEF RunPaid, FillPaid
  <2>3. CASE c = backCursor /\ slips' = slips
    <3>1. RunPaid(g)'
      BY <1>2, <1>6, <2>1, <2>3 DEF RunPaid
    <3>2. fills[g] = 1 + slips => \A p \in plan' : p < g
      BY <1>2, <1>3, <1>5, <2>1, <2>3, HoursAreNat DEF FillPaid, Mark
    <3>3. QED
      BY <1>2, <1>6, <2>1, <2>3, <3>1, <3>2 DEF FillPaid
  <2>4. QED
    BY <1>4, <2>2, <2>3
<1>11. CursorInv'
  BY <1>2, <1>6 DEF CursorInv
<1>12. BackInv'
  <2>1. ASSUME backCursor # None, NEW p \in plan', NEW g \in Hours,
               p <= g, g <= backOrigin
        PROVE  g \in filled \cup plan'
    <3>1. CASE c = None
      <4>1. g < now
        BY <2>1, HoursAreNat DEF FillOrder, StateOK, Mark
      <4>2. QED
        BY <1>5, <2>1, <3>1, <4>1
    <3>2. CASE c = backCursor /\ g < c
      BY <1>5, <2>1, <3>2
    <3>3. CASE c = backCursor /\ ~(g < c)
      <4>1. backCursor <= g
        BY <1>3, <2>1, <3>3, HoursAreNat DEF Mark
      <4>2. QED
        BY <2>1, <4>1 DEF BackInv
    <3>4. QED
      BY <1>3, <3>1, <3>2, <3>3
  <2>2. QED
    BY <1>2, <1>6, <2>1 DEF BackInv, Below
<1>13. QED
  BY <1>7, <1>8, <1>9, <1>10, <1>11, <1>12

LEMMA NextBatchStep ==
  ASSUME IngestInv, NextBatch
  PROVE  IngestInv'
<1>1. PICK B \in SUBSET plan :
        /\ \A h \in B, g \in plan \ B : g < h
        /\ B # {} /\ batch' = B /\ plan' = plan \ B
        /\ work' = [h \in B |-> [Fresh EXCEPT !.stage = "waiting"]]
  BY DEF NextBatch
<1>2. job = "backfill" /\ batch = {} /\ DOMAIN work = {}
  BY DEF NextBatch, IngestInv, Shape
<1>3. /\ pc' = "batch" /\ job' = job
      /\ UNCHANGED <<now, cursor, backCursor, runs, fills, ran, filled, origin,
                     backOrigin, misread, slips>>
  BY DEF NextBatch, syncState, history
<1>4. /\ DOMAIN work' = B /\ \A h \in B : work'[h].stage = "waiting"
      /\ work' \in [B -> [stage : Stage, tries : Nat, agg : Nat]]
  BY <1>1 DEF Fresh, Stage
<1>5. Below' = Below /\ Below = plan /\ plan' \subseteq plan
      /\ \A h : ~Committed(h) /\ ~Committed(h)'
  BY <1>1, <1>2, <1>4 DEF Below, Committed
<1> USE DEF IngestInv
<1>6. StateOK'
  BY <1>1, <1>3, <1>4 DEF StateOK
<1>7. Shape' /\ RunOrder'
  BY <1>1, <1>2, <1>3, <1>4 DEF Shape, RunOrder, Maintenance
<1>8. FillOrder'
  BY <1>1, <1>2, <1>3, <1>4, <1>5 DEF FillOrder
<1>9. \A g \in Hours : RunPaid(g)'
  BY <1>2, <1>3, <1>5 DEF RunPaid
<1>10. ASSUME NEW g \in Hours PROVE FillPaid(g)'
  <2>1. FillPaid(g)
    OBVIOUS
  <2>2. fills[g] = 1 + slips => (\A p \in plan : p < g) /\ g \notin plan
    BY <1>2, <2>1, HoursAreNat DEF FillPaid
  <2>3. QED
    BY <1>1, <1>2, <1>3, <1>4, <2>1, <2>2 DEF FillPaid
<1>11. CursorInv'
  BY <1>2, <1>3, <1>4, <1>5 DEF CursorInv
<1>12. BackInv'
  BY <1>2, <1>3, <1>5 DEF BackInv
<1>13. QED
  BY <1>6, <1>7, <1>8, <1>9, <1>10, <1>11, <1>12

LEMMA SaveBackfillCursorStep ==
  ASSUME IngestInv, SaveBackfillCursor
  PROVE  IngestInv'
<1>1. /\ pc = "batch" /\ DOMAIN work = {} /\ batch' = {} /\ pc' = "compact"
      /\ UNCHANGED <<now, cursor, job, plan, work, runs, fills, ran, filled,
                     origin, misread>>
      /\ \/ /\ backCursor' = Min(batch)
            /\ backOrigin' = IF backOrigin = None THEN Max(batch)
                                                  ELSE backOrigin
            /\ slips' = slips
         \/ /\ slips' = slips + 1
            /\ UNCHANGED <<backCursor, backOrigin>>
  BY DEF SaveBackfillCursor
<1>2. job = "backfill" /\ batch # {} /\ batch \subseteq Hours
      /\ plan \subseteq Hours
  BY <1>1 DEF IngestInv, Shape, StateOK
<1>3. /\ Min(batch) \in batch /\ \A b \in batch : Min(batch) <= b
      /\ Max(batch) \in batch /\ \A b \in batch : b <= Max(batch)
  BY <1>2, MinHour, MaxHour
<1> USE DEF IngestInv
<1>4. /\ \A b \in batch, p \in plan : p < b
      /\ \A a, b \in plan \cup batch, g \in Hours :
           a <= g /\ g <= b => g \in plan \cup batch
      /\ \A p \in plan \cup batch : p < now
      /\ batch \subseteq filled
      /\ backOrigin < now /\ backCursor < now
  BY <1>1, <1>2 DEF FillOrder, Below
<1>5. Below' = plan /\ Below = plan \cup batch
      /\ \A h : ~Committed(h) /\ ~Committed(h)'
  BY <1>1 DEF Below, Committed
<1>6. StateOK'
  <2>1. {backCursor', backOrigin'} \subseteq Mark
    <3>1. Min(batch) \in Mark /\ Max(batch) \in Mark
      BY <1>2, <1>3 DEF Mark
    <3>2. {backCursor, backOrigin} \subseteq Mark
      BY DEF StateOK
    <3>3. QED
      BY <1>1, <3>1, <3>2
  <2>2. slips' \in Nat
    BY <1>1 DEF StateOK
  <2>3. StateOK
    OBVIOUS
  <2> HIDE DEF IngestInv
  <2>4. QED
    BY <1>1, <2>1, <2>2, <2>3 DEF StateOK
<1>7. Shape' /\ RunOrder'
  BY <1>1, <1>2 DEF Shape, RunOrder, Maintenance
<1>8. FillOrder'
  <2>1. \A a, b \in plan, g \in Hours : a <= g /\ g <= b => g \in plan
    <3> SUFFICES ASSUME NEW a \in plan, NEW b \in plan, NEW g \in Hours,
                        a <= g, g <= b
                 PROVE  g \in plan
      OBVIOUS
    <3>1. g \in batch => b < g
      BY <1>4
    <3>2. ~(b < g)
      BY <1>2, HoursAreNat
    <3>3. QED
      BY <1>4, <3>1, <3>2
  <2>2. backOrigin' < now /\ backCursor' < now
    BY <1>1, <1>3, <1>4
  <2>3. QED
    BY <1>1, <1>4, <1>5, <2>1, <2>2 DEF FillOrder
<1>9. \A g \in Hours : RunPaid(g)'
  BY <1>1, <1>2, <1>5 DEF RunPaid, StateOK
<1>10. ASSUME NEW g \in Hours PROVE FillPaid(g)'
  <2>1. FillPaid(g) /\ fills[g] \in Nat /\ slips \in Nat
    BY DEF StateOK
  <2>2. CASE slips' = slips + 1
    BY <1>1, <2>1, <2>2 DEF FillPaid
  <2>3. CASE slips' = slips /\ backCursor' = Min(batch)
    <3>1. fills[g] = 1 + slips => Min(batch) <= g
      <4>1. fills[g] = 1 + slips => Min(batch) < g \/ g \in batch
        BY <1>2, <1>3, <2>1 DEF FillPaid
      <4>2. g \in Nat /\ Min(batch) \in Nat
        BY <1>2, <1>3, HoursAreNat
      <4>3. QED
        BY <1>3, <4>1, <4>2
    <3>2. Min(batch) # None
      BY <1>2, <1>3, HoursAreNat
    <3>3. QED
      BY <1>1, <1>2, <2>1, <2>3, <3>1, <3>2 DEF FillPaid
  <2>4. QED
    BY <1>1, <2>2, <2>3
<1>11. CursorInv'
  BY <1>1, <1>2, <1>5 DEF CursorInv
<1>12. BackInv'
  <2>1. CASE UNCHANGED <<backCursor, backOrigin>>
    <3>1. ASSUME backCursor # None, NEW p \in plan, NEW g \in Hours,
                 p <= g, g <= backOrigin
          PROVE  g \in filled \cup plan
      BY <1>2, <1>4, <1>5, <3>1 DEF BackInv
    <3>2. QED
      BY <1>1, <1>5, <2>1, <3>1 DEF BackInv
  <2>2. CASE /\ backCursor' = Min(batch)
             /\ backOrigin' = IF backOrigin = None THEN Max(batch)
                                                   ELSE backOrigin
    <3>1. Min(batch) \in Hours /\ Max(batch) \in Hours /\ backCursor' # None
          /\ backOrigin' # None
      BY <1>2, <1>3, <2>2, HoursAreNat
    <3>2. ASSUME NEW p \in plan \cup batch, NEW g \in Hours,
                 p <= g, g <= backOrigin'
          PROVE  g \in filled \cup plan
      <4>1. CASE backOrigin = None
        BY <1>3, <1>4, <2>2, <3>2, <4>1
      <4>2. CASE backOrigin # None
        <5>1. g \in filled \cup plan \cup batch
          BY <1>2, <1>5, <2>2, <3>2, <4>2 DEF BackInv
        <5>2. QED
          BY <1>4, <5>1
      <4>3. QED
        BY <4>1, <4>2
    <3>3. ASSUME NEW g \in Hours, Min(batch) <= g, g <= backOrigin'
          PROVE  g \in filled
      <4>1. g \in filled \cup plan
        BY <1>3, <3>2, <3>3
      <4>2. g \notin plan
        <5>1. g \in plan => g < Min(batch)
          BY <1>3, <1>4
        <5>2. g \in Nat /\ Min(batch) \in Nat
          BY <3>1, HoursAreNat
        <5>3. QED
          BY <3>3, <5>1, <5>2
      <4>3. QED
        BY <4>1, <4>2
    <3>4. QED
      BY <1>1, <1>5, <2>2, <3>1, <3>2, <3>3 DEF BackInv
  <2>3. QED
    BY <1>1, <2>1, <2>2
<1>13. QED
  BY <1>6, <1>7, <1>8, <1>9, <1>10, <1>11, <1>12

LEMMA StartRunStep ==
  ASSUME IngestInv, StartRun
  PROVE  IngestInv'
<1>1. PICK c \in ReadSyncState(cursor) :
        /\ Slip(cursor, c)
        /\ misread' = (misread \/ c # cursor)
        /\ plan' = ComputeHours(c)
  BY DEF StartRun
<1>2. /\ batch = {} /\ DOMAIN work = {} /\ batch' = {} /\ DOMAIN work' = {}
      /\ UNCHANGED <<now, cursor, backCursor, work, batch, runs, fills, ran,
                     filled, origin, backOrigin>>
      /\ \/ pc' = "idle" /\ job' = "none" /\ plan' = {}
         \/ pc' = "hours" /\ job' = "run"
  BY DEF StartRun, IngestInv, Shape, syncState
<1>3. c \in Mark /\ (c = cursor \/ c = None) /\ cursor \in Mark
  BY <1>1 DEF ReadSyncState, IngestInv, StateOK, Mark
<1>4. \/ c = cursor /\ slips' = slips
      \/ slips' = slips + 1
  BY <1>1 DEF Slip
<1>5. /\ plan' \subseteq Hours
      /\ \A a, b \in plan', g \in Hours : a <= g /\ g <= b => g \in plan'
      /\ c # None =>
           \A p \in plan' :
             /\ c < p
             /\ \A g \in Hours : c < g /\ g < p => g \in plan'
  BY <1>1, <1>3, RunPlan DEF IngestInv
<1>6. Ahead' = plan' /\ \A g : ~Committed(g) /\ ~Committed(g)'
  BY <1>2 DEF Ahead, Committed
<1> USE DEF IngestInv
<1>7. StateOK'
  BY <1>1, <1>2, <1>4, <1>5 DEF StateOK
<1>8. Shape'
  BY <1>2 DEF Shape, Maintenance
<1>9. RunOrder' /\ FillOrder'
  BY <1>2, <1>5, <1>6 DEF RunOrder, FillOrder
<1>10. ASSUME NEW g \in Hours PROVE RunPaid(g)' /\ FillPaid(g)'
  <2>1. RunPaid(g) /\ FillPaid(g) /\ runs[g] \in Nat /\ fills[g] \in Nat
        /\ slips \in Nat
    BY DEF StateOK
  <2>2. CASE slips' = slips + 1
    BY <1>2, <2>1, <2>2 DEF RunPaid, FillPaid
  <2>3. CASE c = cursor /\ slips' = slips
    <3>1. runs[g] = 1 + slips => g <= cursor /\ cursor # None
      BY <1>6, <2>1, HoursAreNat DEF RunPaid
    <3>2. runs[g] = 1 + slips => \A p \in plan' : g < p
      <4> SUFFICES ASSUME runs[g] = 1 + slips, NEW p \in plan'
                   PROVE  g < p
        OBVIOUS
      <4>1. g <= cursor /\ cursor < p
        BY <1>5, <2>3, <3>1
      <4>2. g \in Int /\ cursor \in Int /\ p \in Int
        BY <1>3, <1>5, HoursAreNat DEF Mark
      <4>3. QED
        BY <4>1, <4>2
    <3>3. RunPaid(g)'
      BY <1>2, <1>6, <2>1, <2>3, <3>1, <3>2 DEF RunPaid
    <3>4. FillPaid(g)'
      BY <1>2, <2>1, <2>3 DEF FillPaid
    <3>5. QED
      BY <3>3, <3>4
  <2>4. QED
    BY <1>4, <2>2, <2>3
<1>11. CursorInv'
  <2>1. ASSUME ~misread', cursor # None, NEW p \in plan', NEW g \in Hours,
               origin <= g, g < p
        PROVE  g \in ran \cup plan'
    <3>1. c = cursor /\ ~misread
      BY <1>1, <2>1
    <3>2. CASE g <= cursor
      BY <2>1, <3>1, <3>2 DEF CursorInv
    <3>3. CASE ~(g <= cursor)
      <4>1. cursor < g
        BY <1>3, <3>3, HoursAreNat DEF Mark
      <4>2. QED
        BY <1>5, <2>1, <3>1, <4>1
    <3>4. QED
      BY <3>2, <3>3
  <2>2. ~misread' => ~misread
    BY <1>1 DEF StateOK
  <2>3. QED
    BY <1>2, <1>6, <2>1, <2>2 DEF CursorInv
<1>12. BackInv'
  BY <1>2 DEF BackInv
<1>13. QED
  BY <1>7, <1>8, <1>9, <1>10, <1>11, <1>12

LEMMA NextHourStep ==
  ASSUME IngestInv, NextHour
  PROVE  IngestInv'
<1> DEFINE m == Min(plan)
<1>1. /\ pc = "hours" /\ job = "run" /\ batch = {} /\ DOMAIN work = {}
      /\ plan # {} /\ plan \subseteq Hours
      /\ UNCHANGED <<now, cursor, backCursor, pc, job, batch, runs, fills, ran,
                     filled, origin, backOrigin, misread, slips>>
  BY DEF NextHour, IngestInv, Shape, StateOK, Maintenance, syncState, history
<1>2. m \in plan /\ \A p \in plan : m <= p
  BY <1>1, MinHour
<1>3. plan' = plan \ {m}
  BY DEF NextHour
<1>4. /\ DOMAIN work' = {m} /\ work'[m] = Fresh
      /\ work' \in [{m} -> [stage : Stage, tries : Nat, agg : Nat]]
  BY <1>1 DEF NextHour, Begin, Fresh, Stage
<1> HIDE DEF m
<1>5. Ahead' = Ahead /\ Ahead = plan /\ \A g : ~Committed(g) /\ ~Committed(g)'
  BY <1>1, <1>2, <1>3, <1>4 DEF Ahead, Committed, Fresh
<1> USE DEF IngestInv
<1>6. StateOK'
  BY <1>1, <1>2, <1>3, <1>4 DEF StateOK
<1>7. Shape'
  BY <1>1, <1>3, <1>4 DEF Shape, Maintenance, Fresh
<1>8. RunOrder'
  <2>1. \A p \in plan' : m < p
    BY <1>1, <1>2, <1>3, HoursAreNat
  <2>2. QED
    BY <1>1, <1>4, <1>5, <2>1 DEF RunOrder
<1>9. FillOrder'
  BY <1>1 DEF FillOrder
<1>10. \A g \in Hours : RunPaid(g)' /\ FillPaid(g)'
  BY <1>1, <1>5 DEF RunPaid, FillPaid
<1>11. CursorInv'
  BY <1>1, <1>4, <1>5 DEF CursorInv, Fresh
<1>12. BackInv'
  BY <1>1 DEF BackInv
<1>13. QED
  BY <1>6, <1>7, <1>8, <1>9, <1>10, <1>11, <1>12

LEMMA HoursDoneStep ==
  ASSUME IngestInv, HoursDone
  PROVE  IngestInv'
<1> USE DEF IngestInv, syncState, history
<1>1. /\ DOMAIN work = {} /\ plan = {} /\ pc' = "compact" /\ job = "run"
      /\ batch = {}
      /\ UNCHANGED <<now, cursor, backCursor, job, plan, batch, work, history>>
  BY DEF HoursDone, Shape, Maintenance
<1>2. StateOK'
  BY <1>1 DEF StateOK
<1>3. Shape'
  BY <1>1 DEF Shape, Maintenance
<1>4. RunOrder' /\ FillOrder'
  BY <1>1 DEF RunOrder, FillOrder, Ahead, Below
<1>5. \A h \in Hours : RunPaid(h)' /\ FillPaid(h)'
  BY <1>1 DEF RunPaid, FillPaid, Committed, Ahead
<1>6. CursorInv' /\ BackInv'
  BY <1>1 DEF CursorInv, BackInv, Committed, Ahead, Below
<1>7. QED
  BY <1>2, <1>3, <1>4, <1>5, <1>6

LEMMA RestartStep ==
  ASSUME IngestInv, Restart
  PROVE  IngestInv'
<1>1. /\ pc' = "idle" /\ job' = "none" /\ plan' = {} /\ batch' = {}
      /\ work' = NoWork /\ DOMAIN work' = {} /\ slips' = slips + 1
      /\ UNCHANGED <<now, cursor, backCursor, runs, fills, ran, filled, origin,
                     backOrigin, misread>>
  BY DEF Restart, NoWork, syncState
<1> USE DEF IngestInv
<1>2. StateOK'
  BY <1>1 DEF StateOK, NoWork
<1>3. Shape'
  BY <1>1 DEF Shape, Maintenance
<1>4. RunOrder' /\ FillOrder'
  BY <1>1 DEF RunOrder, FillOrder
<1>5. \A h \in Hours : RunPaid(h)' /\ FillPaid(h)'
  BY <1>1 DEF RunPaid, FillPaid, StateOK
<1>6. CursorInv'
  BY <1>1 DEF CursorInv
<1>7. BackInv'
  BY <1>1 DEF BackInv
<1>8. QED
  BY <1>2, <1>3, <1>4, <1>5, <1>6, <1>7

-----------------------------------------------------------------------------
(* Every step, and what follows for a reader of the cursors *)

LEMMA IngestStep ==
  ASSUME IngestInv, [Next]_vars
  PROVE  IngestInv'
<1>1. now \in Hours
  BY DEF IngestInv, StateOK
<1>2. CASE UNCHANGED vars
  BY <1>1, <1>2, QuietStep, HoursAreNat DEF vars, loop, history
<1>3. ASSUME NEW h \in Hours, Step(h) PROVE IngestInv'
  BY <1>3, StreamBreaksStep, GiveUpStep, NotFoundStep, UpsertStep, UnansweredStep,
     QueueContributorsStep DEF Step
<1>4. ASSUME NEW h \in Hours, Publish(h) PROVE IngestInv'
  BY <1>1, <1>4, QuietStep, HoursAreNat DEF Publish, syncState, loop
<1>5. CASE HourPasses
  <2>1. now' \in Hours /\ now <= now'
    BY <1>1, <1>5, IngestAssumption DEF HourPasses, Hours
  <2>2. QED
    BY <1>5, <2>1, QuietStep DEF HourPasses, syncState
<1>6. CASE Maintain
  BY <1>6, MaintenanceStep
  DEF Maintain, Maintenance, CompactionNotDue, Compact, CompactionFails, Prune,
      SaveCompactState, syncState
<1>7. QED
  BY <1>2, <1>3, <1>4, <1>5, <1>6, AcquireStep, SaveCursorStep,
     StartBackfillStep, NextBatchStep, SaveBackfillCursorStep, StartRunStep,
     NextHourStep, HoursDoneStep, RestartStep
  DEF Next

\* The invariant holds of every reachable state.
THEOREM IngestInvariant == Spec => []IngestInv
<1>1. IngestInv /\ [Next]_vars => IngestInv'
  BY IngestStep
<1>2. QED
  BY <1>1, IngestInit, PTL DEF Spec

\* A saved cursor means that every hour from the first saved one up to it was
\* processed or given up by a run, unless a run could not read the cursor:
\* processHour's order, the break on a missing archive and the cursor writes.
THEOREM CursorHonest == Spec => []CursorIsHonest
<1>1. IngestInv => CursorIsHonest
  <2> SUFFICES ASSUME IngestInv, cursor # None, ~misread,
                      NEW g \in origin..cursor
               PROVE  g \in ran
    BY DEF CursorIsHonest, IngestInv, CursorInv
  <2>1. cursor \in Hours /\ origin \in Hours
    BY DEF IngestInv, StateOK, CursorInv, Mark
  <2>2. g \in Hours /\ origin <= g /\ g <= cursor
    BY <2>1, IngestAssumption DEF Hours
  <2>3. QED
    BY <2>2 DEF IngestInv, CursorInv
<1>2. QED
  BY <1>1, IngestInvariant, PTL

\* A saved backfill cursor means that every hour from it up to the newest hour
\* of the first batch was processed or skipped, in whatever order the workers
\* of a batch finished: Backfill and processBackfillBatch.
THEOREM BackfillHonest == Spec => []BackfillIsHonest
<1>1. IngestInv => BackfillIsHonest
  <2> SUFFICES ASSUME IngestInv, backCursor # None,
                      NEW g \in backCursor..backOrigin
               PROVE  g \in filled
    BY DEF BackfillIsHonest
  <2>1. backCursor \in Hours /\ backOrigin \in Hours
    BY DEF IngestInv, StateOK, BackInv, Mark
  <2>2. g \in Hours /\ backCursor <= g /\ g <= backOrigin
    BY <2>1, IngestAssumption DEF Hours
  <2>3. QED
    BY <2>2 DEF IngestInv, BackInv
<1>2. QED
  BY <1>1, IngestInvariant, PTL

\* An hour is counted at most once by each job, and once more for each restart,
\* lost cursor write or answer, or unread cursor: BatchUpsertActivity is additive, and
\* computeHours and backfillHours begin beyond their cursors.
THEOREM RecountsPaid == Spec => []RecountsArePaidFor
<1>1. IngestInv => RecountsArePaidFor
  BY DEF IngestInv, RecountsArePaidFor, RunPaid, FillPaid
<1>2. QED
  BY <1>1, IngestInvariant, PTL

-----------------------------------------------------------------------------
(* The repositories of an hour *)

\* An hour that was counted lists its repositories until it is old enough for
\* compaction.
KeepsNames ==
  \A h \in Hours : runs[h] + fills[h] > 0 /\ h > now - CompactOlderThan => h \in named

\* A bucket is no younger than what goes into it.
LEMMA CompactableIsOld ==
  ASSUME NEW w \in Hours, NEW h \in Compactable(w), now \in Hours
  PROVE  /\ h <= now - CompactOlderThan
         /\ w <= now - CompactOlderThan
<1>1. h \in Nat /\ now \in Nat /\ CompactOlderThan \in Nat /\ Week \in Nat \ {0}
  BY IngestAssumption DEF Hours, Compactable, HoursOfWeek
<1>2. h <= now - CompactOlderThan /\ w = (h \div Week) * Week
  BY DEF Compactable, HoursOfWeek, WeekOf, Before
<1>3. (h \div Week) * Week <= h
  BY <1>1
<1>4. w \in Nat
  BY IngestAssumption DEF Hours
<1>5. QED
  BY <1>1, <1>2, <1>3, <1>4

LEMMA CompactKeepsNames ==
  ASSUME now \in Hours, CompactActivity, NEW h \in named, h \in Hours,
         h > now - CompactOlderThan
  PROVE  h \in named'
<1>1. h \in Nat /\ now \in Nat /\ CompactOlderThan \in Nat /\ Week \in Nat \ {0}
      /\ ~(h <= now - CompactOlderThan)
  BY IngestAssumption DEF Hours
<1>2. h \notin Compactable(WeekOf(h))
  BY <1>1 DEF Compactable, Before
<1>3. Compactable(h) = {}
  <2>1. SUFFICES ASSUME NEW g \in Compactable(h) PROVE FALSE
    OBVIOUS
  <2>2. h <= now - CompactOlderThan
    BY CompactableIsOld
  <2>3. QED
    BY <1>1, <2>2
<1>4. QED
  BY <1>2, <1>3 DEF CompactActivity

LEMMA PruneKeepsNames ==
  ASSUME now \in Hours, PruneActivity, NEW h \in named, h \in Hours,
         h > now - CompactOlderThan
  PROVE  h \in named'
<1>1. h \in Nat /\ now \in Nat /\ CompactOlderThan \in Nat /\ PruneRetention \in Nat
      /\ CompactOlderThan <= PruneRetention
  BY IngestAssumption, RetentionAssumption DEF Hours
<1>2. ~(h <= now - PruneRetention)
  BY <1>1
<1>3. QED
  BY <1>2 DEF PruneActivity, Before

LEMMA NamesStep ==
  ASSUME IngestInv, KeepsNames, [Next]_vars
  PROVE  KeepsNames'
<1> USE DEF syncState, loop, history, table
<1>1. now \in Hours /\ now \in Nat /\ CompactOlderThan \in Nat
      /\ runs \in [Hours -> Nat] /\ fills \in [Hours -> Nat]
  <2>1. now \in Hours /\ runs \in [Hours -> Nat] /\ fills \in [Hours -> Nat]
    BY DEF IngestInv, StateOK
  <2>2. QED
    BY <2>1, HoursAreNat, IngestAssumption
<1>2. ASSUME UNCHANGED <<now, runs, fills, named>> PROVE KeepsNames'
  BY <1>2 DEF KeepsNames
<1>3. ASSUME UNCHANGED <<now, runs, fills>>,
             \A h \in named : h \in Hours /\ h > now - CompactOlderThan => h \in named'
      PROVE  KeepsNames'
  BY <1>3 DEF KeepsNames
<1>4. ASSUME NEW h \in Hours, Step(h) PROVE KeepsNames'
  <2>1. CASE Upsert(h) \/ UpsertUnanswered(h)
    <3>1. /\ named' = named \cup {h} /\ UNCHANGED now
          /\ \A g \in Hours : g # h => runs'[g] = runs[g] /\ fills'[g] = fills[g]
      BY <1>1, <2>1 DEF Upsert, UpsertUnanswered, Count, UpsertActivity
    <3>2. QED
      BY <3>1 DEF KeepsNames
  <2>2. QED
    BY <1>2, <1>4, <2>1
    DEF Step, StreamBreaks, GiveUp, NotFound, QueueContributors
<1>5. CASE Compact
  BY <1>1, <1>3, <1>5, CompactKeepsNames DEF Compact
<1>6. CASE Prune
  BY <1>1, <1>2, <1>3, <1>6, PruneKeepsNames DEF Prune
<1>7. CASE HourPasses
  <2>1. now' = now + 1 /\ UNCHANGED <<runs, fills, named>>
    BY <1>7 DEF HourPasses
  <2>2. \A h \in Hours : h \in Nat
    BY HoursAreNat
  <2>3. QED
    BY <1>1, <2>1, <2>2 DEF KeepsNames
<1>8. CASE CompactionNotDue \/ CompactionFails \/ SaveCompactState
  BY <1>2, <1>8 DEF CompactionNotDue, CompactionFails, SaveCompactState
<1>9. ASSUME NEW h \in Hours, Acquire(h) \/ SaveCursor(h) \/ Publish(h)
      PROVE  KeepsNames'
  BY <1>2, <1>9 DEF Acquire, SaveCursor, Publish
<1>10. CASE StartBackfill \/ NextBatch \/ SaveBackfillCursor
  BY <1>2, <1>10 DEF StartBackfill, NextBatch, SaveBackfillCursor
<1>11. CASE StartRun \/ NextHour \/ HoursDone \/ Restart \/ UNCHANGED vars
  BY <1>2, <1>11 DEF StartRun, NextHour, HoursDone, Restart, vars
<1>12. QED
  BY <1>4, <1>5, <1>6, <1>7, <1>8, <1>9, <1>10, <1>11 DEF Next, Maintain

\* Until compaction takes it, an hour that was counted keeps its repositories in
\* the window of GetBehavioralSignals.
THEOREM RepositoriesKept == Spec => []RepositoriesUntilCompaction
<1>1. Init => KeepsNames
  <2>1. 0 + 0 = 0
    OBVIOUS
  <2>2. QED
    BY <2>1 DEF Init, KeepsNames
<1>2. KeepsNames => RepositoriesUntilCompaction
  BY DEF KeepsNames, RepositoriesUntilCompaction, DistinctRepos90d
<1>3. QED
  BY <1>1, <1>2, NamesStep, IngestInvariant, PTL DEF Spec

=============================================================================
