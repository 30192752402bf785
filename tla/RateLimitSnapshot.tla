-------------------------- MODULE RateLimitSnapshot --------------------------
(***************************************************************************)
(* The snapshot of `gh api rate_limit` and the questions the daemon asks   *)
(* of it (domain/rate_limit_snapshot.rs).                                  *)
(*                                                                         *)
(* The code stores the absolute wall-clock time of each reset.  Here a     *)
(* snapshot holds the seconds that remain until it, and time passing       *)
(* counts them down: -1 stands for every time in the past, so that         *)
(* `duration_since(now)` fails exactly when the field is negative.         *)
(***************************************************************************)
EXTENDS Integers

\* 10000 basis points are the ratio 1.0.
RATIO_SCALE_BP == 10000

Smaller(a, b) == IF a <= b THEN a ELSE b

Larger(a, b) == IF a >= b THEN a ELSE b

Snapshot ==
  [core_remaining : Nat, core_limit : Nat, core_reset_in : Int,
   graphql_remaining : Nat, graphql_limit : Nat, graphql_reset_in : Int]

(***************************************************************************)
(* remaining / limit in basis points.  A resource without a limit counts   *)
(* as untouched.                                                           *)
(***************************************************************************)
ratio_bp(remaining, limit) ==
  IF limit = 0 THEN RATIO_SCALE_BP ELSE (remaining * RATIO_SCALE_BP) \div limit

core_ratio(s) == ratio_bp(s.core_remaining, s.core_limit)

graphql_ratio(s) == ratio_bp(s.graphql_remaining, s.graphql_limit)

\* Mutant: always the reset of core.
bottleneck_reset_in_core(s) == s.core_reset_in

\* The resource closest to exhaustion decides; on a tie the later reset.
bottleneck_reset_in(s) ==
  CASE core_ratio(s) < graphql_ratio(s) -> s.core_reset_in
    [] core_ratio(s) > graphql_ratio(s) -> s.graphql_reset_in
    [] OTHER -> Larger(s.core_reset_in, s.graphql_reset_in)

bottleneck_ratio_bp(s) == Smaller(core_ratio(s), graphql_ratio(s))

secs_until_reset(s) == Larger(bottleneck_reset_in(s), 0)

is_exhausted(s) == s.core_remaining = 0 \/ s.graphql_remaining = 0

\* One second later.
CountDown(t) == IF t > -1 THEN t - 1 ELSE t

SnapshotLater(s) ==
  [s EXCEPT !.core_reset_in = CountDown(@), !.graphql_reset_in = CountDown(@)]
==============================================================================
