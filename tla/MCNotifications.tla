---------------------------- MODULE MCNotifications ----------------------------
(* Instances of Notifications for TLC: "a" has a plan with digests and one     *)
(* watchlist of its own, "b" a plan with neither.                              *)
EXTENDS Notifications, TLC

CONSTANTS a1, a2, b1

MCTenants == {"a", "b"}
MCOwner == [w \in {a1, a2, b1} |-> IF w = b1 THEN "b" ELSE "a"]
MCPlanOf ==
  [t \in MCTenants |->
     [digest |-> t = "a", retention |-> IF t = "a" THEN 29 ELSE 1, cap |-> 1,
      scope |-> IF t = "a" THEN {"pr", "review"} ELSE {"pr"},
      manual |-> IF t = "a" THEN 1 ELSE 0]]
MCDigestDay == [t \in MCTenants |-> IF t = "a" THEN 0 ELSE 1]

\* The two watchlists of "a" differ in nothing.
WatchlistSymmetry == Permutations({a1, a2})

=============================================================================
