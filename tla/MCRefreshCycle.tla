--------------------------- MODULE MCRefreshCycle ---------------------------
(***************************************************************************)
(* Small instances of RefreshCycle for TLC.  The configurations choose the *)
(* working trees, branches, intervals and bounds; what gh can report is    *)
(* chosen here.                                                            *)
(***************************************************************************)
EXTENDS RefreshCycle, TLC

\* A pull request without and with running checks, one that is over, and the
\* default branch, which renders to nothing.
Waiting1 == [blank |-> FALSE, refresh_mode |-> "Warm", pr_count |-> 1]
Running1 == [blank |-> FALSE, refresh_mode |-> "Hot", pr_count |-> 1]
Over == [blank |-> TRUE, refresh_mode |-> "Terminal", pr_count |-> 0]
DefaultBranch == [blank |-> TRUE, refresh_mode |-> "Warm", pr_count |-> 0]

WarmResults == {Waiting1}
HotResults == {Running1}
AllResults == {Waiting1, Running1, Over, DefaultBranch}

NoSnapshots == {}

Quota(core, core_reset, graphql, graphql_reset) ==
  [core_remaining |-> core, core_limit |-> 100, core_reset_in |-> core_reset,
   graphql_remaining |-> graphql, graphql_limit |-> 100,
   graphql_reset_in |-> graphql_reset]

\* Plenty left; one resource used up; both; one at the threshold; and one
\* resource used up whose reset lies in the past.
SomeSnapshots ==
  {Quota(90, -1, 90, -1), Quota(0, 1, 90, -1), Quota(0, 0, 0, 1), Quota(60, -1, 5, 1),
   Quota(50, -1, 0, -1)}
==============================================================================
