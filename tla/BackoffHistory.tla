--------------------------- MODULE BackoffHistory ---------------------------
(***************************************************************************)
(* RefreshCycle with a history variable.  The store keeps only the last    *)
(* snapshot of the rate limit and the end of the backoff; awaited          *)
(* remembers the reset that the backoff was entered for, however many      *)
(* snapshots have been observed since.  It does not restrict RefreshCycle. *)
(***************************************************************************)
EXTENDS RefreshCycle

VARIABLE
  awaited   \* seconds until the reset the last backoff waits for; {}: none, or passed

varsH == <<vars, awaited>>

InitH == Init /\ awaited = {}

\* A snapshot that calls for a backoff, and whose reset lies ahead, is waited for.
RateLimitObservedH(s) ==
  /\ RateLimitObserved(s)
  /\ awaited' = IF should_enter_backoff(s) /\ bottleneck_reset_in(s) >= 0
                THEN {bottleneck_reset_in(s)} ELSE awaited

AdvanceH ==
  /\ Advance
  /\ awaited' = {t - 1 : t \in awaited \ {0}}

\* Every other step of RefreshCycle.
OtherStepH ==
  /\ \/ \E c \in Cwd : Query(c) \/ SwitchBranch(c)
     \/ SchedulerTick
     \/ JobStep
     \/ \E j \in jobs : LoseUpdate(j)
     \/ \E r \in RepoId : RemoteChange(r)
  /\ UNCHANGED awaited

NextH ==
  \/ \E s \in Observable : RateLimitObservedH(s)
  \/ AdvanceH
  \/ OtherStepH

SpecH == InitH /\ [][NextH]_varsH

FairSpecH == SpecH /\ Fairness

(***************************************************************************)
(* The scheduler starts nothing before the reset of the rate limit that    *)
(* last called for a backoff, whatever is observed meanwhile: a healthy    *)
(* snapshot, or one whose reset lies in the past, does not end it early.   *)
(***************************************************************************)
RefreshWaitsForReset ==
  [][\A r \in RepoId : TickRefreshes(r) => awaited = {}]_varsH
=============================================================================
