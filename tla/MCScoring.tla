-------------------------------- MODULE MCScoring --------------------------------
(* How a score is made and what becomes of it: the service and its caches, the    *)
(* limits of the caller's plan, the rows and announcements that follow, and the   *)
(* arithmetic.  Each behaviour exercises one of them and leaves the others at     *)
(* rest.                                                                          *)
EXTENDS Limits, ScoreService, Reputation, Score, TLC

VARIABLE focus

MCInit ==
  /\ ServiceInit /\ Init /\ ReputationInit /\ ScoreInit
  /\ focus \in {"service", "quota", "keys", "rows", "score"}
  /\ focus # "service" => configured = {"credits"}
  /\ focus # "service" \/ configured # {"credits"} => fetchesCredits
  /\ focus # "rows" => archive = Missing
  /\ focus # "score" => origin = Least

\* A repository matters only to scorecards, which are asked for by one call at a
\* time.  One kind of source is followed to the end of its longest lifetime, the
\* others for less, and two sources together only for their order and for callers of
\* several plans.  When the profile was fetched matters only to the link in it, and no
\* call begins when time ends.
Horizon == IF configured = {"stackoverflow"} THEN LastTick
           ELSE IF configured = {"credits"} THEN 3
           ELSE IF Cardinality(configured) = 2 THEN 1 ELSE 2
OneQuestion ==
  /\ clock' <= Horizon
  /\ "ossf" \notin configured => \A c \in Askers : request'[c].repo = NoRepo
  /\ "ossf" \in configured =>
       \A c, d \in Askers : c = d \/ Absent \in {request'[c], request'[d]}
  /\ Cardinality(configured) = 1 => answer'.plan \in {"", "pro"}
  /\ \A c \in Askers : LET r == request'[c]
                       IN /\ r.began < Horizon
                          /\ configured # {"stackoverflow"} => r.linked.asOf <= r.began

\* The process restarts where that may change its setting.  An entry of the memory
\* that has expired is as good as none: it goes where there are several.
OneRestart ==
  /\ configured # {"credits"} => ~Restart
  /\ configured # {"ossf"} => ~Evict

\* Calls for a score and calls for keys do not meet.
OneKind ==
  \A c \in Calls :
    call'[c].at \in (IF focus = "quota" THEN {"quiet", "api", "score", "page"}
                     ELSE {"quiet", "key", "create", "revoke"})

\* A failure takes the place of a score.
FewScores == scores' + faults' <= MaxScores

MCNext ==
  /\ UNCHANGED focus
  /\ \/ /\ focus = "service" /\ ServiceNext /\ OneQuestion /\ OneRestart
        /\ UNCHANGED <<vars, reputationVars, scoreVars>>
     \/ /\ focus \in {"quota", "keys"} /\ Next /\ OneKind
        /\ UNCHANGED <<serviceVars, reputationVars, scoreVars>>
     \/ /\ focus = "rows" /\ ReputationNext /\ FewScores
        /\ UNCHANGED <<serviceVars, vars, scoreVars>>
     \/ /\ focus = "score" /\ ScoreNext
        /\ UNCHANGED <<serviceVars, vars, reputationVars>>

MCSpec ==
  MCInit /\ [][MCNext]_<<focus, serviceVars, vars, reputationVars, scoreVars>>

CONSTANTS c1, c2
Symmetry == Permutations({c1, c2})

-----------------------------------------------------------------------------
(* Values *)

SetsOfSources ==
  {{"stackoverflow"}, {"forges"}, {"credits"}, {"ossf"}, {"npm", "repos"}}
OneTick == [s \in Sources |-> 1]
PlanContributors == "free" :> 1 @@ "pro" :> 2
PlanKeys == "free" :> 1 @@ "pro" :> 2

\* logCurve in hundredths, for the values that occur.
Log ==
  730 :> (0 :> 0 @@ 1 :> 10 @@ 20 :> 46 @@ 45 :> 58 @@ 400 :> 90 @@ 730 :> 100) @@
  20 :> (0 :> 0 @@ 1 :> 22 @@ 3 :> 45 @@ 4 :> 52 @@ 20 :> 100 @@ 23 :> 100) @@
  10 :> (0 :> 0 @@ 1 :> 28 @@ 2 :> 45 @@ 6 :> 81 @@ 12 :> 100) @@
  30 :> (0 :> 0 @@ 2 :> 31 @@ 30 :> 100)
SampledLog(val, ceil) == Log[ceil][val]
\* expDecay after 90 days, for one contributor and for very many.
SampledRecency(days, contributors) ==
  IF days = 0 THEN 100 ELSE IF contributors = 1 THEN 50 ELSE 6

Stranger ==
  [repo |-> FALSE, age |-> 0, association |-> "NONE", orgMember |-> FALSE,
   trusted |-> FALSE, profile |-> {}, commits |-> 0, total |-> 50,
   contributors |-> 1, lastCommit |-> 90, unverified |-> 0, merged |-> 0,
   closed |-> 0, followers |-> 0, following |-> 2, repos |-> 0, forked |-> 0,
   recent |-> 0, archived |-> FALSE, consistency |-> 0, reviews |-> 0,
   diversity |-> 0, suspended |-> FALSE]
AllProfile == {"bio", "company", "location", "website", "email"}
Maintainer ==
  [repo |-> TRUE, age |-> 730, association |-> "OWNER", orgMember |-> TRUE,
   trusted |-> TRUE, profile |-> AllProfile, commits |-> 50, total |-> 50,
   contributors |-> 1, lastCommit |-> 0, unverified |-> 0, merged |-> 20,
   closed |-> 0, followers |-> 12, following |-> 0, repos |-> 30, forked |-> 0,
   recent |-> 0, archived |-> TRUE, consistency |-> 100, reviews |-> 10,
   diversity |-> 8, suspended |-> FALSE]
SampledSignals ==
  [repo |-> BOOLEAN, age |-> {0, 1, 20, 45, 400, 730},
   association |-> {"NONE", "CONTRIBUTOR", "", "OWNER"}, orgMember |-> BOOLEAN,
   trusted |-> BOOLEAN, profile |-> {{}, {"email"}, {"email", "bio"}, AllProfile},
   commits |-> {0, 5, 50}, total |-> {50, 400}, contributors |-> {1, 25},
   lastCommit |-> {0, 90}, unverified |-> {0, 5}, merged |-> {0, 1, 20},
   closed |-> {0, 3}, followers |-> {0, 1, 12}, following |-> {0, 1, 2},
   repos |-> {0, 2, 30}, forked |-> {0, 2}, recent |-> {0, 3, 40},
   archived |-> BOOLEAN, consistency |-> {0, 50, 100}, reviews |-> {0, 10},
   diversity |-> {0, 2, 8}, suspended |-> BOOLEAN]

=============================================================================
