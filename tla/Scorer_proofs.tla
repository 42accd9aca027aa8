----------------------------- MODULE Scorer_proofs -----------------------------
(***************************************************************************)
(* No request is lost between the queue, the batches and the way back from *)
(* a dry pool, for any number of instances, contributors and goroutines.   *)
(***************************************************************************)
EXTENDS Scorer, FiniteSetTheorems, TLAPS

Unsettled == {"waiting", "next", "running", "dry"}

\* What the proof needs of the state's types.
StateOK ==
  /\ queue \in [Contributors -> {NoRow} \cup Priority]
  /\ pc \in [Scorers -> {"top", "drain", "requeue", "stale", "rescore",
                         "stopped"}]
  /\ entry \in [Scorers -> [Contributors -> EntryState]]
  /\ prio \in [Scorers -> [Contributors -> {NoRow} \cup Priority]]
  /\ scored \in [Scorers -> BOOLEAN]
  /\ owed \subseteq Contributors

\* A scorer knows the priority of everything it holds, so that what it puts
\* back is a row again.
PriorityKnown ==
  \A s \in Scorers : \A c \in InHand(s) : prio[s][c] \in Priority

\* Nothing runs any more when rows are put back: no decision can come between.
JoinedFirst ==
  \A s \in Scorers : pc[s] = "requeue" => In(s, {"running"}) = {}

WorkInv == StateOK /\ PriorityKnown /\ JoinedFirst /\ OwedWorkIsHeld

LEMMA WorkInit == Init => WorkInv
  BY DEF Init, WorkInv, StateOK, PriorityKnown, JoinedFirst, OwedWorkIsHeld,
         InHand, In, EntryState, NoRow

\* Enqueueing makes a row of c, no less urgent than it was, and keeps every other.
LEMMA EnqueueEffect ==
  ASSUME queue \in [Contributors -> {NoRow} \cup Priority],
         NEW c \in Contributors, NEW p \in Priority,
         EnqueueForScoring(c, p)
  PROVE  /\ queue' \in [Contributors -> {NoRow} \cup Priority]
         /\ queue'[c] \in Priority /\ queue'[c] <= p
         /\ queue[c] # NoRow => queue'[c] <= queue[c]
         /\ \A d \in Contributors : d # c => queue'[d] = queue[d]
  BY DEF EnqueueForScoring, Merged, Priority, NoRow, Newcomer, Returning

LEMMA PriorityIsRow == NoRow \notin Priority
  BY DEF Priority, NoRow, Newcomer, Returning

\* What a scorer holds depends only on its own program counter and entries.
LEMMA InHandDef ==
  ASSUME NEW s
  PROVE  /\ InHand(s) = {c \in Contributors :
                           pc[s] \in {"drain", "requeue"}
                             /\ entry[s][c] \in Unsettled}
         /\ InHand(s)' = {c \in Contributors :
                           pc'[s] \in {"drain", "requeue"}
                             /\ entry'[s][c] \in Unsettled}
  BY DEF InHand, In, Unsettled

\* Progress between two undecided states keeps c in hand.
LEMMA InHandSame ==
  ASSUME NEW s, pc'[s] = pc[s],
         \A c \in Contributors : entry'[s][c] \in Unsettled
                                   <=> entry[s][c] \in Unsettled
  PROVE  InHand(s)' = InHand(s)
<1>1. \A c : c \in InHand(s)' <=> c \in InHand(s)
  BY InHandDef
<1>2. QED
  BY <1>1

\* A step of s that leaves the queue, the other scorers and the open requests
\* alone, apart from closing what s gives up, keeps the invariant.
LEMMA LocalStep ==
  ASSUME WorkInv, NEW s \in Scorers, StateOK', queue' = queue,
         \A r \in Scorers \ {s} : /\ pc'[r] = pc[r]
                                  /\ entry'[r] = entry[r]
                                  /\ prio'[r] = prio[r],
         InHand(s)' \subseteq InHand(s),
         \A c \in InHand(s)' : prio'[s][c] = prio[s][c],
         pc'[s] = "requeue" => In(s, {"running"})' = {},
         owed' \subseteq owed,
         \A c \in owed' : c \in InHand(s) /\ c \notin InHand(s)'
                            => HeldBesides(s, c)
  PROVE  WorkInv'
<1>1. \A r \in Scorers \ {s} : InHand(r)' = InHand(r)
  BY InHandSame
<1>2. PriorityKnown'
  BY <1>1 DEF WorkInv, PriorityKnown
<1>3. JoinedFirst'
  BY DEF WorkInv, JoinedFirst, In
<1>4. OwedWorkIsHeld'
  <2> SUFFICES ASSUME NEW c \in owed'
               PROVE  c \in Queued' \/ \E r \in Scorers : c \in InHand(r)'
    BY DEF OwedWorkIsHeld
  <2>1. Queued' = Queued
    BY DEF Queued
  <2>2. c \in Contributors
    BY DEF StateOK
  <2>3. CASE c \in InHand(s) /\ c \notin InHand(s)'
    BY <1>1, <2>1, <2>2, <2>3 DEF HeldBesides, Queued
  <2>4. CASE ~(c \in InHand(s) /\ c \notin InHand(s)')
    BY <1>1, <2>1, <2>4 DEF WorkInv, OwedWorkIsHeld
  <2>5. QED
    BY <2>3, <2>4
<1>5. QED
  BY <1>2, <1>3, <1>4 DEF WorkInv

-----------------------------------------------------------------------------
(* The types *)

LEMMA LoadType ==
  ASSUME StateOK, NEW s \in Scorers, NEW B,
         NEW p \in [Contributors -> {NoRow} \cup Priority], Load(s, B, p)
  PROVE  /\ entry' \in [Scorers -> [Contributors -> EntryState]]
         /\ prio' \in [Scorers -> [Contributors -> {NoRow} \cup Priority]]
         /\ scored' \in [Scorers -> BOOLEAN]
<1>1. [c \in Contributors |-> IF c \in B THEN "waiting" ELSE "out"]
        \in [Contributors -> EntryState]
  BY DEF EntryState
<1>2. [c \in Contributors |-> IF c \in B THEN p[c] ELSE NoRow]
        \in [Contributors -> {NoRow} \cup Priority]
  OBVIOUS
<1>3. QED
  BY <1>1, <1>2 DEF Load, StateOK

LEMMA UnloadType ==
  ASSUME StateOK, NEW s \in Scorers, Unload(s)
  PROVE  /\ entry' \in [Scorers -> [Contributors -> EntryState]]
         /\ prio' \in [Scorers -> [Contributors -> {NoRow} \cup Priority]]
         /\ scored' \in [Scorers -> BOOLEAN]
<1>1. NoBatch \in [Contributors -> EntryState]
  BY DEF NoBatch, EntryState
<1>2. NoPrio \in [Contributors -> {NoRow} \cup Priority]
  BY DEF NoPrio
<1>3. QED
  BY <1>1, <1>2 DEF Unload, StateOK

LEMMA AdvanceType ==
  ASSUME StateOK, NEW s \in Scorers, NEW c \in Contributors,
         NEW state \in EntryState, Advance(s, c, state)
  PROVE  /\ entry' \in [Scorers -> [Contributors -> EntryState]]
         /\ entry'[s][c] = state
         /\ \A d \in Contributors : d # c => entry'[s][d] = entry[s][d]
         /\ \A r \in Scorers \ {s} : entry'[r] = entry[r]
  BY DEF Advance, StateOK

LEMMA AtType ==
  ASSUME StateOK, NEW s \in Scorers,
         NEW label \in {"top", "drain", "requeue", "stale", "rescore",
                        "stopped"},
         At(s, label)
  PROVE  /\ pc' \in [Scorers -> {"top", "drain", "requeue", "stale",
                                 "rescore", "stopped"}]
         /\ pc'[s] = label
         /\ \A r \in Scorers \ {s} : pc'[r] = pc[r]
  BY DEF At, StateOK

LEMMA DequeueType ==
  ASSUME StateOK, NEW B, NEW locked, DequeueForScoring(B, locked)
  PROVE  queue' \in [Contributors -> {NoRow} \cup Priority]
  BY DEF DequeueForScoring, StateOK

LEMMA CloseType ==
  ASSUME StateOK, NEW s, NEW D, Close(s, D)
  PROVE  owed' \subseteq owed /\ owed' \subseteq Contributors
  BY DEF Close, StateOK

LEMMA LoopType ==
  ASSUME StateOK, NEW s \in Scorers, Loop(s)
  PROVE  StateOK'
<1>1. ASSUME NEW locked, Dequeue(s, locked) PROVE StateOK'
  <2>1. PICK B : DequeueForScoring(B, locked) /\ Load(s, B, queue)
    BY <1>1 DEF Dequeue
  <2>2. QED
    BY <1>1, <2>1, LoadType, DequeueType, AtType DEF Dequeue, StateOK
<1>2. CASE DequeueNothing(s)
  BY <1>2, AtType DEF DequeueNothing, StateOK, store, batch
<1>3. ASSUME NEW locked, DequeueLost(s, locked) PROVE StateOK'
  BY <1>3, AtType, DequeueType DEF DequeueLost, StateOK, batch
<1>4. ASSUME NEW c \in Contributors, TakeUp(s, c) \/ Spawn(s, c) PROVE StateOK'
  BY <1>4, AdvanceType DEF TakeUp, Spawn, StateOK, store, EntryState
<1>5. ASSUME NEW c \in Contributors, Attempt(s, c) PROVE StateOK'
  <2>1. ASSUME NEW state \in EntryState, Decide(s, c, state),
               scored' \in [Scorers -> BOOLEAN]
        PROVE  StateOK'
    BY <2>1, AdvanceType, CloseType DEF Decide, StateOK
  <2>2. CASE Scores(s, c)
    BY <2>1, <2>2 DEF Scores, StateOK, EntryState
  <2>3. CASE Tombstones(s, c)
    BY <2>1, <2>3 DEF Tombstones, StateOK, EntryState
  <2>4. CASE Fails(s, c)
    BY <2>1, <2>4 DEF Fails, StateOK, EntryState
  <2>5. CASE SpendsLast(s, c)
    BY <2>1, <2>5 DEF SpendsLast, StateOK, EntryState
  <2>6. CASE NoTokens(s, c)
    BY <2>6, AdvanceType DEF NoTokens, StateOK, store, EntryState
  <2>7. QED
    BY <1>5, <2>2, <2>3, <2>4, <2>5, <2>6 DEF Attempt
<1>6. CASE FinishDrain(s)
  BY <1>6, AtType, UnloadType, CloseType
  DEF FinishDrain, ScoredNone, StateOK, store, batch
<1>7. ASSUME NEW c \in Contributors, Requeue(s, c) PROVE StateOK'
  <2>1. prio[s][c] \in {NoRow} \cup Priority
    BY DEF StateOK
  <2>2. queue' \in [Contributors -> {NoRow} \cup Priority]
    BY <1>7, <2>1 DEF Requeue, EnqueueForScoring, Merged, StateOK
  <2>3. QED
    BY <1>7, <2>2, AdvanceType DEF Requeue, StateOK, EntryState
<1>8. ASSUME NEW c \in Contributors, RequeueRefused(s, c) PROVE StateOK'
  BY <1>8, AdvanceType, CloseType
  DEF RequeueRefused, StateOK, store, EntryState
<1>9. CASE FinishRequeue(s)
  BY <1>9, AtType, UnloadType DEF FinishRequeue, ScoredNone, StateOK, store
<1>10. CASE StartRescore(s)
  <2>1. PICK B : Load(s, B, NoPrio)
    BY <1>10 DEF StartRescore
  <2>2. NoPrio \in [Contributors -> {NoRow} \cup Priority]
    BY DEF NoPrio
  <2>3. QED
    BY <1>10, <2>1, <2>2, LoadType, AtType DEF StartRescore, StateOK, store
<1>11. CASE RescoreNothing(s)
  BY <1>11, AtType DEF RescoreNothing, StateOK, store, batch
<1>12. CASE FinishRescore(s)
  BY <1>12, AtType, UnloadType DEF FinishRescore, StateOK, store
<1>13. CASE Stop(s)
  BY <1>13, AtType DEF Stop, StateOK, store, batch
<1>14. QED
  BY <1>1, <1>2, <1>3, <1>4, <1>5, <1>6, <1>7, <1>8, <1>9, <1>10, <1>11,
     <1>12, <1>13 DEF Loop

-----------------------------------------------------------------------------
(* The steps of a scorer that leave the queue alone *)

\* A decision, or a failed way back, gives up c alone and closes its request.
LEMMA GiveUp ==
  ASSUME WorkInv, NEW s \in Scorers, NEW c \in Contributors,
         NEW state \in EntryState \ Unsettled, StateOK',
         UNCHANGED <<queue, pc, prio>>, Advance(s, c, state),
         pc[s] \in {"drain", "requeue"} => Close(s, {c}),
         owed' \subseteq owed
  PROVE  WorkInv'
<1>1. /\ \A d \in Contributors : d # c => entry'[s][d] = entry[s][d]
      /\ entry'[s][c] = state
      /\ \A r \in Scorers \ {s} : entry'[r] = entry[r]
  BY AdvanceType DEF WorkInv
<1>2. InHand(s)' = InHand(s) \ {c}
  BY <1>1, InHandDef
<1>3. pc'[s] = "requeue" => In(s, {"running"})' = {}
  BY <1>1 DEF WorkInv, JoinedFirst, In, Unsettled
<1>4. \A d \in owed' : d \in InHand(s) /\ d \notin InHand(s)'
                         => HeldBesides(s, d)
  BY <1>2, InHandDef DEF Close
<1>5. QED
  BY <1>1, <1>2, <1>3, <1>4, LocalStep

LEMMA AttemptHeld ==
  ASSUME WorkInv, NEW s \in Scorers, NEW c \in Contributors,
         StateOK', Attempt(s, c)
  PROVE  WorkInv'
<1>1. ASSUME NEW state \in {"settled", "outOfTokens"}, Decide(s, c, state)
      PROVE  WorkInv'
  <2>1. pc[s] # "requeue"
    BY <1>1 DEF Decide, WorkInv, JoinedFirst, In
  <2>2. state \in EntryState \ Unsettled
    BY DEF EntryState, Unsettled
  <2>3. owed' \subseteq owed
    BY <1>1 DEF Decide, Close
  <2>4. QED
    BY <1>1, <2>1, <2>2, <2>3, GiveUp DEF Decide
<1>2. CASE NoTokens(s, c)
  <2>1. /\ \A d \in Contributors : d # c => entry'[s][d] = entry[s][d]
        /\ entry'[s][c] = "dry"
        /\ \A r \in Scorers \ {s} : entry'[r] = entry[r]
        /\ UNCHANGED <<queue, pc, prio, owed>>
    BY <1>2, AdvanceType DEF NoTokens, WorkInv, EntryState, store
  <2>2. \A d \in Contributors : entry'[s][d] \in Unsettled
                                 <=> entry[s][d] \in Unsettled
    BY <1>2, <2>1 DEF NoTokens, Unsettled
  <2>3. InHand(s)' = InHand(s)
    BY <2>1, <2>2, InHandSame
  <2>4. pc'[s] = "requeue" => In(s, {"running"})' = {}
    BY <2>1 DEF WorkInv, JoinedFirst, In
  <2>5. QED
    BY <2>1, <2>3, <2>4, LocalStep
<1>3. QED
  BY <1>1, <1>2 DEF Attempt, Scores, Tombstones, Fails, SpendsLast

LEMMA SpawnHeld ==
  ASSUME WorkInv, NEW s \in Scorers, NEW c \in Contributors,
         StateOK', TakeUp(s, c) \/ Spawn(s, c)
  PROVE  WorkInv'
<1>1. /\ \A d \in Contributors : d # c => entry'[s][d] = entry[s][d]
      /\ entry'[s][c] \in {"next", "running"}
      /\ \A r \in Scorers \ {s} : entry'[r] = entry[r]
      /\ UNCHANGED <<queue, pc, prio, owed>>
  BY AdvanceType DEF TakeUp, Spawn, WorkInv, EntryState, store
<1>2. \A d \in Contributors : entry'[s][d] \in Unsettled
                               <=> entry[s][d] \in Unsettled
  BY <1>1 DEF TakeUp, Spawn, MayTakeUp, Unsettled
<1>3. InHand(s)' = InHand(s)
  BY <1>1, <1>2, InHandSame
<1>4. pc'[s] # "requeue"
  BY <1>1 DEF TakeUp, Spawn
<1>5. QED
  BY <1>1, <1>3, <1>4, LocalStep

LEMMA FinishDrainHeld ==
  ASSUME WorkInv, NEW s \in Scorers, StateOK', FinishDrain(s)
  PROVE  WorkInv'
<1>1. CASE Dry(s)
  <2>1. /\ pc'[s] = "requeue" /\ \A r \in Scorers \ {s} : pc'[r] = pc[r]
        /\ UNCHANGED <<queue, entry, prio, owed>>
    BY <1>1, AtType DEF FinishDrain, WorkInv, store, batch
  <2>2. InHand(s)' = InHand(s)
    BY <2>1, InHandDef DEF FinishDrain
  <2>3. In(s, {"running"})' = {}
    BY <2>1 DEF FinishDrain, Joined, In
  <2>4. QED
    BY <2>1, <2>2, <2>3, LocalStep
<1>2. CASE ~Dry(s)
  <2>1. /\ pc'[s] \in {"top", "stale"}
        /\ \A r \in Scorers \ {s} : pc'[r] = pc[r]
    BY <1>2, AtType DEF FinishDrain, ScoredNone, WorkInv
  <2>2. /\ \A r \in Scorers \ {s} : entry'[r] = entry[r] /\ prio'[r] = prio[r]
        /\ queue' = queue
    BY <1>2 DEF FinishDrain, Unload, WorkInv, StateOK, store
  <2>3. InHand(s)' = {}
    BY <2>1, InHandDef
  <2>4. /\ owed' \subseteq owed
        /\ \A c \in owed' : c \in InHand(s) => HeldBesides(s, c)
    BY <1>2 DEF FinishDrain, Close
  <2>5. QED
    BY <2>1, <2>2, <2>3, <2>4, LocalStep
<1>3. QED
  BY <1>1, <1>2

\* Steps at which s neither has nor takes anything in hand.
LEMMA EmptyHanded ==
  ASSUME WorkInv, NEW s \in Scorers, StateOK',
         DequeueNothing(s) \/ FinishRequeue(s) \/ StartRescore(s)
           \/ RescoreNothing(s) \/ FinishRescore(s) \/ Stop(s)
  PROVE  WorkInv'
<1>1. UNCHANGED <<queue, owed>>
  BY DEF DequeueNothing, FinishRequeue, StartRescore, RescoreNothing,
         FinishRescore, Stop, store
<1>2. /\ pc'[s] \in {"top", "stale", "rescore", "stopped"}
      /\ \A r \in Scorers \ {s} : pc'[r] = pc[r]
  BY AtType DEF DequeueNothing, FinishRequeue, ScoredNone, StartRescore,
                RescoreNothing, FinishRescore, Stop, WorkInv
<1>3. \A r \in Scorers \ {s} : entry'[r] = entry[r] /\ prio'[r] = prio[r]
  BY DEF DequeueNothing, FinishRequeue, StartRescore, RescoreNothing,
         FinishRescore, Stop, batch, Load, Unload, WorkInv, StateOK
<1>4. InHand(s) = {}
  BY DEF DequeueNothing, MayStart, FinishRequeue, StartRescore,
         RescoreNothing, FinishRescore, Stop, InHand, Unscored
<1>5. InHand(s)' = {}
  BY <1>2, InHandDef
<1>6. QED
  BY <1>1, <1>2, <1>3, <1>4, <1>5, LocalStep

LEMMA RestartHeld ==
  ASSUME WorkInv, NEW s \in Scorers, Restart(s)
  PROVE  WorkInv'
<1>1. /\ pc'[s] = "top" /\ \A r \in Scorers \ {s} : pc'[r] = pc[r]
      /\ StateOK'
  BY AtType, UnloadType, CloseType DEF Restart, WorkInv, StateOK, store
<1>2. /\ \A r \in Scorers \ {s} : entry'[r] = entry[r] /\ prio'[r] = prio[r]
      /\ queue' = queue
  BY DEF Restart, Unload, WorkInv, StateOK, store
<1>3. InHand(s)' = {}
  BY <1>1, InHandDef
<1>4. /\ owed' \subseteq owed
      /\ \A c \in owed' : c \in InHand(s) => HeldBesides(s, c)
  BY DEF Restart, Close
<1>5. QED
  BY <1>1, <1>2, <1>3, <1>4, LocalStep

-----------------------------------------------------------------------------
(* The steps that move rows *)

\* A batch of rows passes from the queue to the scorer, with its priorities.
LEMMA DequeueMoves ==
  ASSUME WorkInv, NEW s \in Scorers, NEW locked, Dequeue(s, locked)
  PROVE  \E B \in SUBSET Queued :
           /\ \A c \in Contributors : queue'[c] = IF c \in B THEN NoRow ELSE queue[c]
           /\ \A c \in B : prio'[s][c] = queue[c]
           /\ InHand(s) = {} /\ InHand(s)' = B
           /\ \A r \in Scorers \ {s} : /\ InHand(r)' = InHand(r)
                                      /\ entry'[r] = entry[r] /\ prio'[r] = prio[r]
                                      /\ pc'[r] = pc[r]
           /\ pc'[s] = "drain" /\ owed' = owed
<1>1. PICK B \in SUBSET Queued :
        DequeueForScoring(B, locked) /\ Load(s, B, queue)
  BY DEF Dequeue
<1>2. /\ pc'[s] = "drain" /\ \A r \in Scorers \ {s} : pc'[r] = pc[r]
      /\ owed' = owed
  BY AtType DEF Dequeue, WorkInv
<1>3. /\ \A r \in Scorers \ {s} : entry'[r] = entry[r] /\ prio'[r] = prio[r]
      /\ \A c \in Contributors :
           /\ entry'[s][c] = (IF c \in B THEN "waiting" ELSE "out")
           /\ c \in B => prio'[s][c] = queue[c]
  BY <1>1 DEF Load, WorkInv, StateOK
<1>4. \A r \in Scorers \ {s} : InHand(r)' = InHand(r)
  BY <1>2, <1>3, InHandSame
<1>5. B \subseteq Contributors
  BY DEF Queued
<1>6. InHand(s) = {} /\ \A c : c \in InHand(s)' <=> c \in B
  <2>1. pc[s] = "top"
    BY DEF Dequeue, MayStart
  <2>2. QED
    BY <1>2, <1>3, <1>5, <2>1, InHandDef DEF Unsettled
<1>7. \A c \in Contributors : queue'[c] = IF c \in B THEN NoRow ELSE queue[c]
  BY <1>1 DEF DequeueForScoring
<1>8. QED
  BY <1>2, <1>3, <1>4, <1>5, <1>6, <1>7

LEMMA DequeueHeld ==
  ASSUME WorkInv, NEW s \in Scorers, NEW locked, StateOK',
         Dequeue(s, locked)
  PROVE  WorkInv'
<1>1. PICK B \in SUBSET Queued :
           /\ \A c \in Contributors : queue'[c] = IF c \in B THEN NoRow ELSE queue[c]
           /\ \A c \in B : prio'[s][c] = queue[c]
           /\ InHand(s) = {} /\ InHand(s)' = B
           /\ \A r \in Scorers \ {s} : /\ InHand(r)' = InHand(r)
                                      /\ entry'[r] = entry[r] /\ prio'[r] = prio[r]
                                      /\ pc'[r] = pc[r]
           /\ pc'[s] = "drain" /\ owed' = owed
  BY DequeueMoves
<1>2. PriorityKnown'
  <2> SUFFICES ASSUME NEW r \in Scorers, NEW c \in InHand(r)'
               PROVE  prio'[r][c] \in Priority
    BY DEF PriorityKnown
  <2>1. CASE r = s
    BY <1>1, <2>1 DEF Queued, WorkInv, StateOK
  <2>2. CASE r # s
    BY <1>1, <2>2 DEF WorkInv, PriorityKnown
  <2>3. QED
    BY <2>1, <2>2
<1>3. JoinedFirst'
  BY <1>1 DEF WorkInv, JoinedFirst, In
<1>4. OwedWorkIsHeld'
  <2> SUFFICES ASSUME NEW c \in owed'
               PROVE  c \in Queued' \/ \E r \in Scorers : c \in InHand(r)'
    BY DEF OwedWorkIsHeld
  <2>1. c \in owed /\ c \in Contributors
    BY <1>1 DEF WorkInv, StateOK
  <2>2. CASE c \in B
    BY <1>1, <2>2
  <2>3. CASE c \in Queued \ B
    BY <1>1, <2>1, <2>3 DEF Queued
  <2>4. CASE c \notin Queued
    BY <1>1, <2>1, <2>4 DEF WorkInv, OwedWorkIsHeld
  <2>5. QED
    BY <2>2, <2>3, <2>4
<1>5. QED
  BY <1>2, <1>3, <1>4 DEF WorkInv

LEMMA DequeueLostHeld ==
  ASSUME WorkInv, NEW s \in Scorers, NEW locked, StateOK',
         DequeueLost(s, locked)
  PROVE  WorkInv'
<1>1. PICK B \in SUBSET Queued :
        /\ DequeueForScoring(B, locked)
        /\ owed' = owed \ {c \in B : \A r \in Scorers : c \notin InHand(r)}
  BY DEF DequeueLost
<1>2. /\ pc'[s] = "stale" /\ \A r \in Scorers \ {s} : pc'[r] = pc[r]
      /\ entry' = entry /\ prio' = prio
  BY AtType DEF DequeueLost, WorkInv, batch
<1>3. \A r \in Scorers \ {s} : InHand(r)' = InHand(r)
  BY <1>2, InHandSame
<1>4. InHand(s) = {} /\ InHand(s)' = {}
  BY <1>2, InHandDef DEF DequeueLost, MayStart
<1>5. PriorityKnown' /\ JoinedFirst'
  BY <1>2, <1>3, <1>4 DEF WorkInv, PriorityKnown, JoinedFirst, In
<1>6. OwedWorkIsHeld'
  <2> SUFFICES ASSUME NEW c \in owed'
               PROVE  c \in Queued' \/ \E r \in Scorers : c \in InHand(r)'
    BY DEF OwedWorkIsHeld
  <2>1. c \in owed /\ c \in Contributors
    BY <1>1 DEF WorkInv, StateOK
  <2>2. CASE \E r \in Scorers : c \in InHand(r)
    BY <1>3, <1>4, <2>2
  <2>3. CASE ~\E r \in Scorers : c \in InHand(r)
    <3>1. c \in Queued \ B
      BY <1>1, <2>1, <2>3 DEF WorkInv, OwedWorkIsHeld
    <3>2. QED
      BY <1>1, <2>1, <3>1 DEF DequeueForScoring, Queued
  <2>4. QED
    BY <2>2, <2>3
<1>7. QED
  BY <1>5, <1>6 DEF WorkInv

\* A row put back is in the queue again, with a priority the scorer knows.
\* The row goes back to the queue with the priority it was dequeued with.
LEMMA RequeueMoves ==
  ASSUME WorkInv, NEW s \in Scorers, NEW c \in Contributors, Requeue(s, c)
  PROVE  /\ \A d \in Contributors : d # c => entry'[s][d] = entry[s][d]
         /\ entry'[s][c] = "out"
         /\ \A r \in Scorers \ {s} : entry'[r] = entry[r]
         /\ UNCHANGED <<pc, prio, owed>>
         /\ \A r \in Scorers \ {s} : InHand(r)' = InHand(r)
         /\ \A d : d \in InHand(s)' <=> d \in InHand(s) /\ d # c
         /\ queue'[c] \in Priority /\ queue'[c] <= prio[s][c]
         /\ queue[c] # NoRow => queue'[c] <= queue[c]
         /\ \A d \in Contributors : d # c => queue'[d] = queue[d]
<1>1. /\ \A d \in Contributors : d # c => entry'[s][d] = entry[s][d]
      /\ entry'[s][c] = "out"
      /\ \A r \in Scorers \ {s} : entry'[r] = entry[r]
      /\ UNCHANGED <<pc, prio, owed>>
  BY AdvanceType DEF Requeue, WorkInv, EntryState
<1>2. /\ \A r \in Scorers \ {s} : InHand(r)' = InHand(r)
      /\ \A d : d \in InHand(s)' <=> d \in InHand(s) /\ d # c
  <2>1. \A r \in Scorers \ {s} : InHand(r)' = InHand(r)
    BY <1>1, InHandSame
  <2>2. \A d : d \in InHand(s)' <=> d \in InHand(s) /\ d # c
    BY <1>1, InHandDef DEF Unsettled
  <2>3. QED
    BY <2>1, <2>2
<1>3. /\ queue'[c] \in Priority /\ queue'[c] <= prio[s][c]
      /\ queue[c] # NoRow => queue'[c] <= queue[c]
      /\ \A d \in Contributors : d # c => queue'[d] = queue[d]
  <2>1. c \in InHand(s)
    BY DEF Requeue, Unscored, InHand
  <2>2. prio[s][c] \in Priority
    BY <2>1 DEF WorkInv, PriorityKnown
  <2>3. EnqueueForScoring(c, prio[s][c])
    BY DEF Requeue
  <2>4. queue \in [Contributors -> {NoRow} \cup Priority]
    BY DEF WorkInv, StateOK
  <2>5. QED
    BY <2>2, <2>3, <2>4, EnqueueEffect
<1>4. QED
  BY <1>1, <1>2, <1>3

LEMMA RequeueHeld ==
  ASSUME WorkInv, NEW s \in Scorers, NEW c \in Contributors,
         StateOK', Requeue(s, c)
  PROVE  WorkInv'
<1>1. PriorityKnown'
  BY RequeueMoves DEF WorkInv, PriorityKnown
<1>2. JoinedFirst'
  BY RequeueMoves DEF WorkInv, JoinedFirst, In
<1>3. OwedWorkIsHeld'
  <2> SUFFICES ASSUME NEW d \in owed'
               PROVE  d \in Queued' \/ \E r \in Scorers : d \in InHand(r)'
    BY DEF OwedWorkIsHeld
  <2>1. d \in owed /\ d \in Contributors
    BY RequeueMoves DEF WorkInv, StateOK
  <2>2. CASE d = c
    BY RequeueMoves, <2>2, PriorityIsRow DEF Queued
  <2>3. CASE d # c
    BY RequeueMoves, <2>1, <2>3 DEF WorkInv, OwedWorkIsHeld, Queued
  <2>4. QED
    BY <2>2, <2>3
<1>4. QED
  BY <1>1, <1>2, <1>3 DEF WorkInv

LEMMA RequeueRefusedHeld ==
  ASSUME WorkInv, NEW s \in Scorers, NEW c \in Contributors,
         StateOK', RequeueRefused(s, c)
  PROVE  WorkInv'
<1>1. "out" \in EntryState \ Unsettled
  BY DEF EntryState, Unsettled
<1>2. owed' \subseteq owed
  BY DEF RequeueRefused, Close
<1>3. QED
  BY <1>1, <1>2, GiveUp DEF RequeueRefused, store

LEMMA IngestHeld ==
  ASSUME WorkInv, NEW c \in Contributors, Ingest(c)
  PROVE  WorkInv'
<1>1. PICK p \in Priority : EnqueueForScoring(c, p)
  BY DEF Ingest, Priority
<1>2. /\ queue' \in [Contributors -> {NoRow} \cup Priority]
      /\ queue'[c] \in Priority
      /\ \A d \in Contributors : d # c => queue'[d] = queue[d]
  BY <1>1, EnqueueEffect DEF WorkInv, StateOK
<1>3. UNCHANGED <<pc, entry, prio, scored>> /\ owed' = owed \cup {c}
  BY DEF Ingest, batch
<1>4. \A r : InHand(r)' = InHand(r)
  BY <1>3 DEF InHand, In
<1>5. StateOK' /\ PriorityKnown' /\ JoinedFirst'
  BY <1>2, <1>3, <1>4 DEF WorkInv, StateOK, PriorityKnown, JoinedFirst, In
<1>6. OwedWorkIsHeld'
  <2> SUFFICES ASSUME NEW d \in owed'
               PROVE  d \in Queued' \/ \E r \in Scorers : d \in InHand(r)'
    BY DEF OwedWorkIsHeld
  <2>1. d \in Contributors
    BY <1>5 DEF StateOK
  <2>2. CASE d = c
    BY <1>2, <2>2, PriorityIsRow DEF Queued
  <2>3. CASE d # c
    BY <1>2, <1>3, <1>4, <2>1, <2>3 DEF WorkInv, OwedWorkIsHeld, Queued
  <2>4. QED
    BY <2>2, <2>3
<1>7. QED
  BY <1>5, <1>6 DEF WorkInv

LEMMA Idle ==
  ASSUME WorkInv, UNCHANGED <<queue, pc, entry, prio, scored, owed>>
  PROVE  WorkInv'
<1>1. \A r : InHand(r)' = InHand(r)
  BY DEF InHand, In
<1>2. QED
  BY <1>1 DEF WorkInv, StateOK, PriorityKnown, JoinedFirst, OwedWorkIsHeld,
              In, Queued

-----------------------------------------------------------------------------
LEMMA WorkStep == WorkInv /\ [Next]_vars => WorkInv'
<1> SUFFICES ASSUME WorkInv, [Next]_vars PROVE WorkInv'
  OBVIOUS
<1>1. ASSUME NEW s \in Scorers, Loop(s) PROVE WorkInv'
  <2>1. StateOK'
    BY <1>1, LoopType DEF WorkInv
  <2>2. QED
    BY <1>1, <2>1, DequeueHeld, DequeueLostHeld, SpawnHeld, AttemptHeld,
       FinishDrainHeld, RequeueHeld, RequeueRefusedHeld, EmptyHanded DEF Loop
<1>2. ASSUME NEW s \in Scorers, Cancel(s) \/ TokenSpent(s) \/ TokenBack(s)
      PROVE  WorkInv'
  BY <1>2, Idle DEF Cancel, TokenSpent, TokenBack, store, batch
<1>3. ASSUME NEW c \in Contributors, ScoredElsewhere(c) \/ GrowStale(c)
      PROVE  WorkInv'
  BY <1>3, Idle DEF ScoredElsewhere, GrowStale, batch
<1>4. CASE UNCHANGED vars
  BY <1>4, Idle DEF vars
<1>5. QED
  BY <1>1, <1>2, <1>3, <1>4, RestartHeld, IngestHeld DEF Next

\* A request that nobody has decided is in the queue or in a scorer's hands,
\* for any number of instances, contributors, goroutines and tokens, whatever
\* requests arrive while a dry pool's batch goes back row by row.
THEOREM WorkHeld == Spec => []OwedWorkIsHeld
<1>1. WorkInv => OwedWorkIsHeld
  BY DEF WorkInv
<1>2. QED
  BY <1>1, WorkInit, WorkStep, PTL DEF Spec

-----------------------------------------------------------------------------
(* No request becomes less urgent on its way *)

LEMMA HeldDef ==
  ASSUME NEW c
  PROVE  /\ \A p : p \in Held(c) <=>
              \/ p = queue[c] /\ p # NoRow
              \/ \E s \in Scorers : c \in InHand(s) /\ p = prio[s][c]
         /\ \A p : p \in Held(c)' <=>
              \/ p = queue'[c] /\ p # NoRow
              \/ \E s \in Scorers : c \in InHand(s)' /\ p = prio'[s][c]
  BY DEF Held

LEMMA HeldTypes ==
  ASSUME WorkInv, NEW c \in Contributors
  PROVE  \A p \in Held(c) : p \in Priority /\ p <= p
<1>1. \A p \in Held(c) : p \in Priority
  BY HeldDef DEF WorkInv, StateOK, PriorityKnown
<1>2. \A p \in Priority : p <= p
  BY DEF Priority, Newcomer, Returning
<1>3. QED
  BY <1>1, <1>2

LEMMA DequeueUrgent ==
  ASSUME WorkInv, NEW s \in Scorers, NEW locked, Dequeue(s, locked),
         NEW c \in Contributors, NEW p \in Held(c)
  PROVE  p \in Held(c)'
<1>1. PICK B \in SUBSET Queued :
           /\ \A d \in Contributors : queue'[d] = IF d \in B THEN NoRow ELSE queue[d]
           /\ \A d \in B : prio'[s][d] = queue[d]
           /\ InHand(s) = {} /\ InHand(s)' = B
           /\ \A r \in Scorers \ {s} : InHand(r)' = InHand(r) /\ prio'[r] = prio[r]
  BY DequeueMoves
<1>2. CASE p = queue[c] /\ p # NoRow
  <2>1. CASE c \in B
    BY <1>1, <1>2, <2>1, HeldDef
  <2>2. CASE c \notin B
    BY <1>1, <1>2, <2>2, HeldDef
  <2>3. QED
    BY <2>1, <2>2
<1>3. ASSUME NEW r \in Scorers, c \in InHand(r), p = prio[r][c] PROVE p \in Held(c)'
  BY <1>1, <1>3, HeldDef
<1>4. QED
  BY <1>2, <1>3, HeldDef

\* The row of c takes over what s held of it.
LEMMA RequeueUrgent ==
  ASSUME WorkInv, NEW s \in Scorers, NEW c \in Contributors, Requeue(s, c),
         NEW d \in Contributors, NEW p \in Held(d)
  PROVE  \E q \in Held(d)' : q <= p
<1>1. p <= p
  BY HeldTypes
<1>2. CASE d # c
  <2>1. p \in Held(d)'
    BY <1>2, RequeueMoves, HeldDef
  <2>2. QED
    BY <1>1, <2>1
<1>3. CASE d = c
  <2>1. queue'[c] \in Held(c)'
    BY RequeueMoves, PriorityIsRow, HeldDef
  <2>2. CASE p = queue[c] /\ p # NoRow
    BY <1>3, <2>1, <2>2, RequeueMoves
  <2>3. CASE p = prio[s][c]
    BY <1>3, <2>1, <2>3, RequeueMoves
  <2>4. ASSUME NEW r \in Scorers \ {s}, c \in InHand(r), p = prio[r][c]
        PROVE  p \in Held(c)'
    BY <2>4, RequeueMoves, HeldDef
  <2>5. QED
    BY <1>1, <1>3, <2>2, <2>3, <2>4, HeldDef
<1>4. QED
  BY <1>2, <1>3

LEMMA IngestUrgent ==
  ASSUME WorkInv, NEW c \in Contributors, Ingest(c),
         NEW d \in Contributors, NEW p \in Held(d)
  PROVE  \E q \in Held(d)' : q <= p
<1>1. PICK n \in Priority : EnqueueForScoring(c, n)
  BY DEF Ingest, Priority
<1>2. /\ queue'[c] \in Priority
      /\ queue[c] # NoRow => queue'[c] <= queue[c]
      /\ \A e \in Contributors : e # c => queue'[e] = queue[e]
  BY <1>1, EnqueueEffect DEF WorkInv, StateOK
<1>3. UNCHANGED prio /\ \A r : InHand(r)' = InHand(r)
  BY DEF Ingest, batch, InHand, In
<1>4. p <= p
  BY HeldTypes
<1>5. CASE p = queue[d] /\ p # NoRow
  <2>1. queue'[d] \in Held(d)' /\ queue'[d] <= p
    BY <1>2, <1>4, <1>5, PriorityIsRow, HeldDef
  <2>2. QED
    BY <2>1
<1>6. ASSUME NEW r \in Scorers, d \in InHand(r), p = prio[r][d]
      PROVE  p \in Held(d)'
  BY <1>3, <1>6, HeldDef
<1>7. QED
  BY <1>4, <1>5, <1>6, HeldDef

\* Moving a request between the queue and a batch never makes it less urgent,
\* whatever requests for the same contributor arrive meanwhile (DequeueForScoring,
\* requeueUnscored, EnqueueForScoring).
THEOREM UrgencyHeld == Spec => UrgencyKept
<1>1. WorkInv => (RequestMoves => NoLessUrgent)
  <2>1. SUFFICES ASSUME WorkInv, RequestMoves, NEW c \in Contributors, NEW p \in Held(c)
                 PROVE  \E q \in Held(c)' : q <= p
    BY DEF NoLessUrgent
  <2>2. ASSUME NEW s \in Scorers, NEW locked, Dequeue(s, locked)
        PROVE  \E q \in Held(c)' : q <= p
    BY <2>1, <2>2, DequeueUrgent, HeldTypes
  <2>3. QED
    BY <2>1, <2>2, RequeueUrgent, IngestUrgent DEF RequestMoves
<1>2. QED
  BY <1>1, WorkInit, WorkStep, PTL DEF Spec, UrgencyKept

=============================================================================
