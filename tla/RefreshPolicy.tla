--------------------------- MODULE RefreshPolicy ---------------------------
(***************************************************************************)
(* How long the scheduler leaves an entry alone: the base interval of its  *)
(* mode, stretched by the rate limit that remains                          *)
(* (domain/refresh_policy.rs).  All u64 arithmetic saturates at U64Max.    *)
(***************************************************************************)
EXTENDS CacheEntry, RateLimitSnapshot

CONSTANTS
  U64Max,                  \* u64::MAX
  hot_recent_query_secs,   \* a query this recent makes an entry Hot
  hot_with_query_secs,     \* interval: Hot, or Warm, with a recent query
  hot_without_query_secs,  \* interval: Hot without one
  warm_refresh_secs,       \* interval: Warm; and the TTL of a Terminal entry
  warm_to_cold_secs,       \* a Warm entry not queried for this long is cold
  cold_early_secs,         \* interval: cold, the first cold_early_limit times
  cold_late_secs,          \* interval: cold, from then on
  cold_early_limit

ASSUME PolicyAssumption ==
  /\ U64Max \in Nat \ {0}
  /\ hot_recent_query_secs \in Nat
  /\ warm_to_cold_secs \in Nat
  /\ cold_early_limit \in 0 .. ColdCountCap
  \* AgeCap does not hide that an interval or a limit has passed.
  /\ {hot_with_query_secs, hot_without_query_secs, warm_refresh_secs,
      cold_early_secs, cold_late_secs} \subseteq 1 .. AgeCap
  \* They are u64s themselves.
  /\ {hot_with_query_secs, hot_without_query_secs, warm_refresh_secs,
      cold_early_secs, cold_late_secs} \subseteq 1 .. U64Max
  /\ hot_recent_query_secs < AgeCap /\ warm_to_cold_secs <= AgeCap
  /\ warm_refresh_secs < AgeCap

------------------------------------------------------------------------------
(* Saturating arithmetic. *)

SatAdd(a, b) == IF a > U64Max - b THEN U64Max ELSE a + b

SatMul(a, b) == IF a > 0 /\ b > U64Max \div a THEN U64Max ELSE a * b

SatSub(a, b) == IF a > b THEN a - b ELSE 0

------------------------------------------------------------------------------
(* The base interval and the TTL. *)

\* Mutant: a cold entry is given up after cold_early_limit refreshes.
cold_interval_secs_ends(count) ==
  IF count < cold_early_limit THEN cold_early_secs ELSE U64Max

cold_interval_secs(count) ==
  IF count < cold_early_limit THEN cold_early_secs ELSE cold_late_secs

effective_refresh_interval_secs(e) ==
  CASE e.refresh_mode = "Terminal" -> U64Max
    [] e.refresh_mode # "Terminal" /\ has_recent_query(e, hot_recent_query_secs)
         -> hot_with_query_secs
    [] e.refresh_mode = "Hot" /\ ~has_recent_query(e, hot_recent_query_secs)
         -> hot_without_query_secs
    [] OTHER -> IF is_cold(e, warm_to_cold_secs)
                THEN cold_interval_secs(e.cold_refresh_count)
                ELSE warm_refresh_secs

effective_ttl(e, base_ttl) ==
  IF e.refresh_mode = "Terminal" THEN warm_refresh_secs ELSE base_ttl

------------------------------------------------------------------------------
(* Scaling by what remains of the rate limit. *)

effective_mode(e) ==
  CASE e.refresh_mode = "Terminal" -> "Cold"
    [] e.refresh_mode = "Hot" -> "Hot"
    [] OTHER -> CASE has_recent_query(e, hot_recent_query_secs) -> "Hot"
                  [] is_cold(e, warm_to_cold_secs) -> "Cold"
                  [] OTHER -> "Warm"

\* Ten times the weight of the quadratic and of the budget term of a mode.
scaling_params ==
  [Hot  |-> [alpha_x10 |-> 30,  weight_x10 |-> 5],
   Warm |-> [alpha_x10 |-> 70,  weight_x10 |-> 10],
   Cold |-> [alpha_x10 |-> 150, weight_x10 |-> 20]]

SCALE_X10 == 10

RESET_WINDOW_CAP_SECS == 3600

bottleneck_budget(s) == Smaller(s.core_remaining, s.graphql_remaining)

\* base * (1 + alpha * (1 - ratio)^2)
compute_ratio_term(base, ratio, alpha_x10) ==
  LET used == SatSub(RATIO_SCALE_BP, ratio)
      used_sq == SatMul(used, used) \div RATIO_SCALE_BP
      bonus == SatMul(SatMul(base, alpha_x10), used_sq)
                 \div SatMul(SCALE_X10, RATIO_SCALE_BP)
  IN SatAdd(base, bonus)

\* cost * window / (95% of the budget) * weight, faded out by (1 - ratio).
compute_budget_term(cost, window, budget, weight_x10, ratio) ==
  LET safety == Larger(SatMul(budget, 95) \div 100, 1)
      numer == SatMul(SatMul(SatMul(cost, window), weight_x10),
                      SatSub(RATIO_SCALE_BP, ratio))
      denom == SatMul(SatMul(safety, SCALE_X10), RATIO_SCALE_BP)
  IN IF denom = 0 THEN U64Max ELSE numer \div denom

\* Mutant: no floor of cold_late_secs.
effective_refresh_interval_secs_scaled_unfloored(e, snapshot, total_cost) ==
  LET base == effective_refresh_interval_secs(e)
  IN IF base = U64Max \/ snapshot = {} THEN base
     ELSE LET s == CHOOSE s \in snapshot : TRUE
          IN compute_ratio_term(base, bottleneck_ratio_bp(s),
                                scaling_params[effective_mode(e)].alpha_x10)

\* `snapshot` is empty while no rate limit has been observed.
effective_refresh_interval_secs_scaled(e, snapshot, total_cost) ==
  LET base == effective_refresh_interval_secs(e)
      params == scaling_params[effective_mode(e)]
      Scaled(s) ==
        Larger(Larger(base,
                 compute_ratio_term(base, bottleneck_ratio_bp(s), params.alpha_x10)),
               compute_budget_term(total_cost,
                 Smaller(secs_until_reset(s), RESET_WINDOW_CAP_SECS),
                 bottleneck_budget(s), params.weight_x10, bottleneck_ratio_bp(s)))
      WithFloor(s) ==
        IF is_exhausted(s) THEN Larger(Scaled(s), cold_late_secs) ELSE Scaled(s)
  IN IF base = U64Max \/ snapshot = {}
     THEN base
     ELSE WithFloor(CHOOSE s \in snapshot : TRUE)
==============================================================================
