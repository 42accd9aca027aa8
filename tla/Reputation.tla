------------------------------- MODULE Reputation -------------------------------
(***************************************************************************)
(* How a score comes to be stored and its change announced: the background *)
(* scorer's scoreContributor and notifyGradeChange                         *)
(* (pkg/background/scorer.go), the write that follows an interactive score *)
(* (persistScore of pkg/server/handler_score.go), fetchSignals             *)
(* (pkg/github/fetch.go) and the statements of stale.go and history.go.    *)
(*                                                                         *)
(* One contributor.  Of the signals the merged pull requests stand for     *)
(* all; the grade depends on much else and is left open.  The scorers are  *)
(* the replicas' scorers and the handlers' goroutines.                     *)
(***************************************************************************)
EXTENDS Integers, FiniteSets

CONSTANTS
  Scorers,
  Grades,
  MaxPRs,      \* bound: pull requests
  MaxFaults,   \* bound: failed statements and fetches
  MaxScores,   \* bound: scores begun
  MaxMoves     \* bound: changes to the archive's aggregates

ASSUME ReputationAssumption ==
  "" \notin Grades /\ MaxPRs \in Nat \ {0} /\ {MaxFaults, MaxScores, MaxMoves} \subseteq Nat

VARIABLES
  archive,     \* merged pull requests of GetBehavioralSignals, or Missing
  known,       \* the contributor has its row
  reputation,  \* the grade of the reputation row, or NoGrade
  prs,         \* the cached signals of that row, or Missing
  last,        \* the grade of the newest history row, or NoGrade
  told,        \* the grade watchers last heard of
  scorer,      \* where each scorer is
  untold,      \* history: the grade watchers know may be old, see Stored and Announce
  split,       \* history: the two rows may differ, see FirstWrite and SecondWrite
  faults, scores, moves

rows == <<known, reputation, prs, last, told>>
bounds == <<faults, scores, moves>>
reputationVars == <<archive, rows, scorer, untold, split, bounds>>

Missing == -1
NoGrade == ""
Idle == [at |-> "idle"]

ReputationInit ==
  /\ archive \in {Missing, 1}
  /\ known = FALSE /\ reputation = NoGrade /\ prs = Missing /\ last = NoGrade
  /\ told = NoGrade /\ scorer = [w \in Scorers |-> Idle]
  /\ untold = FALSE /\ split = FALSE /\ faults = 0 /\ scores = 0 /\ moves = 0

Fault == faults < MaxFaults /\ faults' = faults + 1
Begin == scores < MaxScores /\ scores' = scores + 1
Step(w, r) == scorer' = [scorer EXCEPT ![w] = r]

\* A write of one scorer, after which it is at r: the others have been overtaken.
WriteStep(w, r) ==
  scorer' = [x \in Scorers |->
    CASE x = w -> r
      [] scorer[x] = Idle -> Idle
      [] OTHER -> [scorer[x] EXCEPT !.raced = TRUE, !.torn = TRUE]]

-----------------------------------------------------------------------------
(* fetchSignals *)

Searches == {"merged_prs", "closed_prs", "recent_prs"}
Requests == Searches \cup {"others"}

\* What fetchSignals returns: the merged pull requests, and whether the account is
\* suspended, which ends the fetch early.  Trusted hints stand in for the searches,
\* others for a search that fails.
Signals(hints, trusted) ==
  {[prs |-> 0, suspended |-> TRUE]} \cup
  {[prs |-> IF trusted THEN hints
            ELSE IF "merged_prs" \in failed THEN (IF hints = Missing THEN 0 ELSE hints)
            ELSE n,
    suspended |-> FALSE] :
       failed \in SUBSET (IF trusted THEN {"others"} ELSE Requests), n \in 0..MaxPRs}

-----------------------------------------------------------------------------
(* scoreContributor *)

\* GetCurrentGrade; if it fails there is no old grade.
GetCurrentGrade(w) ==
  /\ scorer[w] = Idle /\ Begin
  /\ \E old \in {reputation, NoGrade} :
       /\ Step(w, [at |-> "hints", old |-> old, raced |-> FALSE, torn |-> FALSE])
       /\ IF old = reputation THEN UNCHANGED faults ELSE Fault
  /\ UNCHANGED <<archive, rows, untold, split, moves>>

\* Floor_ArchiveOnly is a seeded fault: the cached signals are not looked at.
Floor_ArchiveOnly == archive
Floor == IF prs > archive THEN prs ELSE archive

\* GetBehavioralSignals and GetCachedSignals: without aggregates there are no hints,
\* without the cached signals there is no floor.
ReadHints(w) ==
  /\ scorer[w].at = "hints"
  /\ \E hints \in {Missing, archive, Floor}, floor \in BOOLEAN :
       /\ Step(w, [at |-> "fetch", old |-> scorer[w].old, hints |-> hints,
                   floor |-> floor, raced |-> FALSE, torn |-> FALSE])
       /\ \/ archive = Missing /\ hints = Missing /\ ~floor /\ UNCHANGED faults
          \/ archive # Missing /\ hints = Floor /\ floor /\ UNCHANGED faults
          \/ /\ archive # Missing /\ hints \in {Missing, archive} /\ ~floor
             /\ Fault
  /\ UNCHANGED <<archive, rows, untold, split, scores, moves>>

\* FetchSignals, and the grade that Compute and Grade make of it.
FetchSignals(w) ==
  /\ scorer[w].at = "fetch"
  /\ \E s \in Signals(scorer[w].hints, scorer[w].hints # Missing), g \in Grades :
       Step(w, [at |-> "upsert", old |-> scorer[w].old, grade |-> g, prs |-> s.prs,
                floor |-> scorer[w].floor /\ ~s.suspended,
                raced |-> scorer[w].raced, torn |-> FALSE])
  /\ UNCHANGED <<archive, rows, untold, split, bounds>>

\* It fails, or the process ends: the scorer module says who tries again.
Abandon(w) ==
  /\ scorer[w] # Idle /\ Fault
  /\ Step(w, Idle)
  /\ untold' = (untold \/ scorer[w].at = "announce")
  /\ UNCHANGED <<archive, rows, split, scores, moves>>

\* UpsertContributor; a failure is only logged.
UpsertContributor(w) ==
  /\ scorer[w].at = "upsert"
  /\ Step(w, [scorer[w] EXCEPT !.at = "history"])
  /\ \/ known' = TRUE /\ UNCHANGED faults
     \/ Fault /\ UNCHANGED known
  /\ UNCHANGED <<archive, reputation, prs, last, told, untold, split, scores, moves>>

\* Of the history row and the reputation row one is written first ...
FirstWrite(w, r) == WriteStep(w, [r EXCEPT !.torn = FALSE]) /\ split' = TRUE
\* ... and the other second: they differ only if someone wrote in between.
SecondWrite(w, r) == WriteStep(w, r) /\ split' = scorer[w].torn

\* SaveScoreHistory; a failure is only logged.
SaveScoreHistory(w) ==
  /\ scorer[w].at = "history"
  /\ \/ /\ known /\ last' = scorer[w].grade
        /\ FirstWrite(w, [scorer[w] EXCEPT !.at = "update"])
        /\ UNCHANGED faults
     \/ /\ IF known THEN Fault ELSE UNCHANGED faults
        /\ Step(w, [scorer[w] EXCEPT !.at = "update", !.torn = TRUE])
        /\ UNCHANGED <<last, split>>
  /\ UNCHANGED <<archive, known, reputation, prs, told, untold, scores, moves>>

\* The reputation row gets this grade, and watchers will hear of it or not.  The
\* first grade of a contributor is no change.
Stored(grade, announced) ==
  /\ reputation' = grade
  /\ told' = IF reputation = NoGrade THEN grade ELSE told
  /\ untold' = (untold \/ (reputation \notin {NoGrade, grade} /\ ~announced))

\* A change is announced against the grade that was read at the start.
\* Announces_Late is a seeded fault: against the grade of the row, just written.
Announces_Late(w) == scorer[w].grade \notin {NoGrade, scorer[w].grade}
Announces(w) == scorer[w].old \notin {NoGrade, scorer[w].grade}

UpdateReputation(w) ==
  /\ scorer[w].at = "update"
  /\ \/ /\ known
        /\ Stored(scorer[w].grade, scorer[w].old = reputation)
        /\ prs' = scorer[w].prs
        /\ SecondWrite(w, IF Announces(w) THEN [scorer[w] EXCEPT !.at = "announce"]
                                          ELSE Idle)
        /\ UNCHANGED faults
     \/ /\ IF known THEN Fault ELSE UNCHANGED faults
        /\ Step(w, Idle)
        /\ UNCHANGED <<reputation, told, untold, prs, split>>
  /\ UNCHANGED <<archive, known, last, scores, moves>>

\* notifyGradeChange, after which a later change may already have been announced.
Announce(w) ==
  /\ scorer[w].at = "announce"
  /\ Step(w, Idle)
  /\ \/ /\ told' = scorer[w].grade
        /\ untold' = (scorer[w].grade # reputation)
        /\ UNCHANGED faults
     \/ Fault /\ untold' = TRUE /\ UNCHANGED told
  /\ UNCHANGED <<archive, known, reputation, prs, last, split, scores, moves>>

-----------------------------------------------------------------------------
(* persistScore, after an interactive score *)

\* COALESCE keeps the cached signals where a score comes without.
Kept == prs

\* UpsertContributor; a failure ends the goroutine.
Persist(w) ==
  /\ scorer[w] = Idle /\ Begin
  /\ known' = TRUE
  /\ \E g \in Grades :
       Step(w, [at |-> "persist", grade |-> g, raced |-> FALSE, torn |-> FALSE])
  /\ UNCHANGED <<archive, reputation, prs, last, told, untold, split, faults, moves>>

\* UpdateReputation without signals; a failure is only logged.
PersistReputation(w) ==
  /\ scorer[w].at = "persist"
  /\ \/ /\ Stored(scorer[w].grade, FALSE) /\ prs' = Kept
        /\ FirstWrite(w, [scorer[w] EXCEPT !.at = "record"])
        /\ UNCHANGED faults
     \/ /\ Fault /\ Step(w, [scorer[w] EXCEPT !.at = "record", !.torn = TRUE])
        /\ UNCHANGED <<reputation, told, untold, prs, split>>
  /\ UNCHANGED <<archive, known, last, scores, moves>>

\* SaveScoreHistory.  PersistHistory_Once is a seeded fault: a contributor that has
\* a row gets no other.
PersistHistory_Once(w) ==
  /\ scorer[w].at = "record"
  /\ last' = IF last = NoGrade THEN scorer[w].grade ELSE last
  /\ SecondWrite(w, Idle)
  /\ UNCHANGED <<archive, known, reputation, prs, told, untold, faults, scores, moves>>
PersistHistory(w) ==
  /\ scorer[w].at = "record"
  /\ \/ last' = scorer[w].grade /\ SecondWrite(w, Idle) /\ UNCHANGED faults
     \/ Fault /\ Step(w, Idle) /\ UNCHANGED <<last, split>>
  /\ UNCHANGED <<archive, known, reputation, prs, told, untold, scores, moves>>

-----------------------------------------------------------------------------

\* The ingest and the pruning of old rows move the aggregates.
ArchiveMoves ==
  /\ moves < MaxMoves /\ moves' = moves + 1
  /\ archive' \in {Missing} \cup 0..MaxPRs
  /\ UNCHANGED <<rows, scorer, untold, split, faults, scores>>

ReputationNext ==
  \/ \E w \in Scorers :
       \/ GetCurrentGrade(w) \/ ReadHints(w) \/ FetchSignals(w) \/ Abandon(w)
       \/ UpsertContributor(w) \/ SaveScoreHistory(w) \/ UpdateReputation(w)
       \/ Announce(w)
       \/ Persist(w) \/ PersistReputation(w) \/ PersistHistory(w)
  \/ ArchiveMoves

ReputationSpec == ReputationInit /\ [][ReputationNext]_reputationVars

-----------------------------------------------------------------------------
(* Properties *)

Stages == {"idle", "hints", "fetch", "upsert", "history", "update", "announce",
           "persist", "record"}

\* Nothing is stored of a contributor without its row, and no grade without the
\* signals or hints being counts.
ReputationTypeOK ==
  /\ archive \in {Missing} \cup 0..MaxPRs /\ prs \in {Missing} \cup 0..MaxPRs
  /\ known \in BOOLEAN /\ untold \in BOOLEAN /\ split \in BOOLEAN
  /\ {reputation, last, told} \subseteq Grades \cup {NoGrade}
  /\ \A w \in Scorers : scorer[w].at \in Stages
  /\ reputation # NoGrade \/ last # NoGrade => known
  /\ prs # Missing => reputation # NoGrade
  /\ faults \in 0..MaxFaults /\ scores \in 0..MaxScores /\ moves \in 0..MaxMoves

AtRest == \A w \in Scorers : scorer[w] = Idle

\* Watchers know the current grade, unless an interactive score changed it
\* (persistScore announces nothing), the old grade could not be read or had changed
\* since, an announcement failed, or two were made in the wrong order.  (And the
\* state has its type.)
GradeChangesAreTold ==
  /\ ReputationTypeOK
  /\ AtRest /\ ~untold => told = reputation

\* The trend chart ends at the grade that is shown, although the two paths write the
\* two rows in opposite orders, unless a write failed or one was made in between.
StoresAgree == AtRest /\ ~split => last = reputation

\* The floor: merged pull requests once seen are not forgotten where the archive
\* covers the contributor only in part, but by a scorer that could not read them,
\* found no aggregates, met a suspended account or was overtaken.
FloorKept ==
  [][prs' < prs => \E w \in Scorers : /\ scorer[w].at = "update"
                                      /\ ~scorer[w].floor \/ scorer[w].raced]_prs

=============================================================================
