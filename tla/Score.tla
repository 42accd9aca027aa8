---------------------------------- MODULE Score ----------------------------------
(***************************************************************************)
(* The reputation model of pkg/score: Compute, Categories, Grade and the   *)
(* flags of ComputeTier2Heuristics, in integers.  Ratios and curves are in *)
(* hundredths, a score and a category in ten-thousandths; what score.go    *)
(* takes from logarithms and exponentials is a parameter.                  *)
(*                                                                         *)
(* The state is what is known of a contributor, which changes one signal   *)
(* at a time.                                                              *)
(***************************************************************************)
EXTENDS Integers, FiniteSets

CONSTANTS
  LogCurve(_, _),   \* logCurve(val, ceil), in hundredths
  Recency(_, _),    \* expDecay(days, half-life for so many contributors)
  Samples,          \* of each signal, the values it may take
  Least, Best,      \* a contributor with nothing, and one with everything
  MaxDifferences    \* bound: signals in which a contributor differs from those

VARIABLES
  signal,   \* InputSignals and Behavior
  origin    \* the contributor it started from

scoreVars == <<signal, origin>>

One == 100
Lower(a, b) == IF a < b THEN a ELSE b
Upper(a, b) == IF a > b THEN a ELSE b
Ratio(a, b) == (One * a) \div b
ClampedRatio(val, ceil) ==
  IF ceil <= 0 \/ val <= 0 THEN 0 ELSE IF val >= ceil THEN One ELSE Ratio(val, ceil)
Times(a, b) == (a * b) \div One

-----------------------------------------------------------------------------
(* The signals of each category, times their weights *)

Contributes(s) == s.repo /\ s.commits > 0 /\ s.total > 0

Provenance(s) ==
  IF Contributes(s)
  THEN 15 * Times(Ratio(s.commits - s.unverified, s.commits), LogCurve(s.age, 730))
  ELSE 0

AssociationScore(s) ==
  LET base == CASE s.association \in {"OWNER", "MEMBER"} -> 100
                [] s.association = "COLLABORATOR" -> 80
                [] s.association = "CONTRIBUTOR" -> 50
                [] s.association = "FIRST_TIME_CONTRIBUTOR" -> 20
                [] s.association = "NONE" -> 0
                [] OTHER -> IF s.orgMember THEN 100 ELSE 0
  IN IF s.trusted THEN Upper(base, 80) ELSE base

ProfileScore(s) == Ratio(Cardinality(s.profile), 5)

Identity(s) == 15 * LogCurve(s.age, 730) + 5 * ProfileScore(s)
               + (IF s.repo THEN 5 * AssociationScore(s) ELSE 0)

RepoEngagementScore(s) ==
  (IF Contributes(s)
   THEN 15 * Times(ClampedRatio(Ratio(s.commits, s.total),
                                Upper(Ratio(1, Upper(s.contributors, 1)), 5)),
                   Lower(Ratio(s.total, Upper(s.contributors * 10, 30)), One))
   ELSE 0)
  + 5 * Recency(s.lastCommit, Upper(s.contributors, 1))

Engagement(s) ==
  LET prs == s.merged + s.closed
  IN (IF s.repo THEN RepoEngagementScore(s) ELSE 0)
     + (IF prs > 0 THEN 5 * Times(Ratio(s.merged, prs), LogCurve(prs, 20)) ELSE 0)

\* Community_Swapped is a seeded fault: followed over followers.
Community_Swapped(s) ==
  (IF s.followers > 0 THEN 5 * LogCurve(s.following \div s.followers, 10) ELSE 0)
  + 10 * LogCurve(s.repos, 30)
Community(s) ==
  (IF s.following > 0 THEN 5 * LogCurve(s.followers \div s.following, 10)
   ELSE IF s.followers > 0 THEN 5 * One ELSE 0)
  + 10 * LogCurve(s.repos, 30)

\* A contributor without recent pull requests, or on its first day, is no burst.
Burst(s) ==
  IF s.recent > 0 /\ s.age > 0
  THEN One - ClampedRatio(s.recent, 5 * Upper(s.age \div 30, 1))
  ELSE One

BehavioralScore(s) ==
  (IF s.archived
   THEN 6 * s.consistency + 4 * ClampedRatio(s.reviews, 10)
        + 4 * ClampedRatio(s.diversity, 8)
   ELSE 0)
  + 3 * Burst(s)
  + (IF s.repos > 0 THEN 3 * ClampedRatio(s.repos - s.forked, 5) ELSE 0)

-----------------------------------------------------------------------------
(* Compute, Categories, Grade *)

\* Without a repository the weights that need one are shared out among the others.
Scaled(s, v) == IF s.repo THEN v ELSE (v * 100) \div 60

\* The sum before it is cut off at 1.
Sum(s) == Scaled(s, Provenance(s) + Identity(s) + Engagement(s) + Community(s)
                    + BehavioralScore(s))

ToFixed2(v) == (v + 50) \div 100
Compute(s) == IF s.suspended THEN 0 ELSE ToFixed2(Lower(Sum(s), 10000))

Names(s) == {"identity", "engagement", "community", "behavioral"} \cup
            (IF s.repo THEN {"code_provenance"} ELSE {})

\* Categories_Unscaled is a seeded fault: engagement keeps its own weight.
Categories_Unscaled(s) ==
  [n \in Names(s) |->
    IF s.suspended THEN 0
    ELSE CASE n = "code_provenance" -> Provenance(s)
           [] n = "identity" -> Scaled(s, Identity(s))
           [] n = "engagement" -> Engagement(s)
           [] n = "community" -> Scaled(s, Community(s))
           [] n = "behavioral" -> Scaled(s, BehavioralScore(s))]
Categories(s) ==
  [n \in Names(s) |->
    IF s.suspended THEN 0
    ELSE CASE n = "code_provenance" -> Provenance(s)
           [] n = "identity" -> Scaled(s, Identity(s))
           [] n = "engagement" -> Scaled(s, Engagement(s))
           [] n = "community" -> Scaled(s, Community(s))
           [] n = "behavioral" -> Scaled(s, BehavioralScore(s))]

\* Grades from F, 0, to A+, 12.
Thresholds == {37, 43, 47, 53, 57, 63, 67, 73, 77, 83, 87, 93}
Grade(value) == Cardinality({t \in Thresholds : value >= t})

\* syntheticRiskFlags.
SyntheticRiskFlags(s) ==
  {f \in {"young_account", "high_fork_ratio", "empty_profile", "no_reviews",
          "no_consistency", "no_verified_commits"} :
    CASE f = "young_account" -> s.age < 30
      [] f = "high_fork_ratio" -> s.repos > 0 => 100 * s.forked > 80 * s.repos
      [] f = "empty_profile" -> s.profile \subseteq {"email"}
      [] f = "no_reviews" -> s.archived => s.reviews = 0
      [] f = "no_consistency" -> s.archived => s.consistency = 0
      [] f = "no_verified_commits" -> s.commits > 0 /\ s.unverified = s.commits}

-----------------------------------------------------------------------------

Fields == DOMAIN Samples
Differences(s) == Cardinality({f \in Fields : s[f] # origin[f]})

\* What GitHub may say of one contributor.
Sane(s) == /\ s.forked <= s.repos
           /\ s.unverified <= s.commits /\ s.commits <= s.total
Sampled(s) == DOMAIN s = Fields /\ \A f \in Fields : s[f] \in Samples[f]

Flags == {"repo", "orgMember", "trusted", "archived", "suspended"}
Counted == {"age", "commits", "total", "contributors", "lastCommit", "unverified",
            "merged", "closed", "followers", "following", "repos", "forked", "recent",
            "reviews", "diversity"}
Profile == {"bio", "company", "location", "website", "email"}

\* On these values a curve is a share of one that never falls.
Curve(ceil, values) ==
  \A v, w \in values : /\ LogCurve(v, ceil) \in 0..One
                       /\ v <= w => LogCurve(v, ceil) <= LogCurve(w, ceil)

ASSUME ScoreAssumption ==
  /\ Fields = Flags \cup Counted \cup {"association", "profile", "consistency"}
  /\ \A f \in Flags : Samples[f] \subseteq BOOLEAN
  /\ \A f \in Counted : Samples[f] \subseteq Nat
  /\ Samples["profile"] \subseteq SUBSET Profile
  /\ Samples["consistency"] \subseteq 0..One
  /\ \A s \in {Least, Best} : Sampled(s) /\ Sane(s)

ASSUME CurvesAssumption ==
  /\ Curve(730, Samples["age"]) /\ Curve(30, Samples["repos"])
  /\ Curve(20, {m + c : m \in Samples["merged"], c \in Samples["closed"]})
  /\ Curve(10, {f \div g : f \in Samples["followers"], g \in Samples["following"] \ {0}})
  /\ \A d \in Samples["lastCommit"], n \in Samples["contributors"] :
       Recency(d, Upper(n, 1)) \in 0..One

ScoreInit == origin \in {Least, Best} /\ signal = origin

SignalChanges(f) ==
  /\ \E v \in Samples[f] : signal' = [signal EXCEPT ![f] = v]
  /\ Sane(signal') /\ Differences(signal') <= MaxDifferences
  /\ UNCHANGED origin

ScoreNext == \E f \in Fields : SignalChanges(f)

ScoreSpec == ScoreInit /\ [][ScoreNext]_scoreVars

-----------------------------------------------------------------------------
(* Properties *)

Total(c) == c.identity + c.engagement + c.community + c.behavioral
            + (IF "code_provenance" \in DOMAIN c THEN c.code_provenance ELSE 0)

Tenthousandths == 0..10000
Explained(s) ==
  LET parts == Categories(s)
      rest == Total(parts) - 100 * Compute(s)
  IN /\ -55 <= rest /\ rest <= 55
     /\ Sum(s) \in Tenthousandths
     /\ \A n \in Names(s) : parts[n] \in Tenthousandths

\* The categories shown with a score explain it, with a repository or without, where
\* the weights are shared out anew: they are shares of one, add up to the score but
\* for rounding, and the cut at 1 in Compute takes nothing away.
CategoriesAddUp == Sampled(signal) /\ Sane(signal) /\ Explained(signal)

\* Signals of which more can do a contributor only good.  On the first day nothing
\* counts as a burst, so that a recent pull request costs from the second day on.
Growing == {"age", "merged", "followers", "repos", "consistency", "reviews", "diversity",
            "commits"}
Better(s, t) ==
  /\ s # t
  /\ \A f \in Growing : s[f] <= t[f]
  /\ \A f \in Fields \ (Growing \cup {"profile"}) : s[f] = t[f]
  /\ s.profile \subseteq t.profile
  /\ s.age = 0 => t.age = 0 \/ t.recent = 0

\* Nobody loses by an older account, a merged pull request, a follower, a repository
\* of its own, a fuller profile, a review or a commit: not by one of the shares and
\* rates these also enter, nor in a flag.
MoreIsNoWorse ==
  [][Better(signal, signal') =>
       /\ Grade(Compute(signal)) <= Grade(Compute(signal'))
       /\ Compute(signal) <= Compute(signal')
       /\ SyntheticRiskFlags(signal') \subseteq SyntheticRiskFlags(signal)]_signal

=============================================================================
