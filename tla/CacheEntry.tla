----------------------------- MODULE CacheEntry -----------------------------
(***************************************************************************)
(* One cache entry of the daemon: what it stores, its fetch state machine, *)
(* the builders that change it and the time predicates the transitions     *)
(* test (domain/cache/entry.rs and the helpers at the end of               *)
(* domain/cache/transition.rs).                                            *)
(*                                                                         *)
(* An `Option` is a set with at most one element, so that `is_some_and` is *)
(* \E and `is_none_or` is \A.  An `Instant` is kept as the whole seconds   *)
(* that have passed since it ("_ago"), which is the only thing the code    *)
(* ever computes from one; Later(e) lets one second pass.                  *)
(***************************************************************************)
EXTENDS Naturals

CONSTANTS
  Cwd,           \* working trees the prompt is used in
  Branch,        \* branches that can be checked out (a detached HEAD is one)
  AgeCap,        \* elapsed seconds are counted up to this many
  ColdCountCap   \* where cold_refresh_count saturates (u32::MAX)

ASSUME CapsAssumption == AgeCap \in Nat /\ ColdCountCap \in Nat

\* The key of an entry: the hash of toplevel path and branch.
RepoId == Cwd \X Branch

RefreshMode == {"Hot", "Warm", "Terminal"}

FetchState == {"Loading", "PendingRetry", "Ready", "Refreshing"}

(***************************************************************************)
(* A rendered prompt is the branch it describes and a version that tells   *)
(* older renderings of that branch from newer ones.  The empty string is   *)
(* the empty set.                                                          *)
(***************************************************************************)
Text == [src : RepoId, ver : Nat]

Output == SUBSET Text

Age == 0 .. AgeCap

Entry ==
  [output : Output, pr_count : Nat, fetch_state : FetchState, fetched_ago : Age,
   refresh_started_ago : SUBSET Age, refresh_mode : RefreshMode,
   last_queried_ago : SUBSET Age, cold_refresh_count : 0 .. ColdCountCap]

\* The key is not in the map.
NoEntry == [fetch_state |-> "Absent"]

------------------------------------------------------------------------------
(* Judgements that need no clock. *)

has_fetched(e) == e.fetch_state \in {"Ready", "Refreshing"}

\* Mutant: a refresh of fetched data is not seen.
is_refreshing_first_only(e) == e.fetch_state = "Loading"

is_refreshing(e) == e.fetch_state \in {"Loading", "Refreshing"}

is_active(e) == e.output # {} /\ e.refresh_mode # "Terminal"

(* Judgements about the time that has passed. *)

is_fresh(e, ttl) == e.fetched_ago <= ttl

\* Mutant: counts from the last fetch.
is_expired_by_fetch(e, max_age_secs) == e.fetched_ago >= max_age_secs

is_expired(e, max_age_secs) == \E t \in e.last_queried_ago : t >= max_age_secs

is_cold(e, warm_to_cold) == \E t \in e.last_queried_ago : t >= warm_to_cold

is_cold_or_never_queried(e, warm_to_cold) ==
  \A t \in e.last_queried_ago : t >= warm_to_cold

has_recent_query(e, recent_secs) == \E t \in e.last_queried_ago : t <= recent_secs

refresh_lock_expired(e, timeout_secs) ==
  \E t \in e.refresh_started_ago : t >= timeout_secs

------------------------------------------------------------------------------
(* Builders. *)

SecondLater(t) == IF t < AgeCap THEN t + 1 ELSE t

\* `fetched_at` lies stale_ttl + 1 seconds back: stale from the start.
new_loading(ttl) ==
  [output |-> {}, pr_count |-> 0, fetch_state |-> "Loading",
   fetched_ago |-> ttl + 1, refresh_started_ago |-> {0}, refresh_mode |-> "Warm",
   last_queried_ago |-> {0}, cold_refresh_count |-> 0]

with_record_query(e) == [e EXCEPT !.last_queried_ago = {0}]

with_mark_refreshing(e) ==
  [e EXCEPT !.fetch_state = IF has_fetched(e) THEN "Refreshing" ELSE "Loading",
            !.refresh_started_ago = {0}]

\* Mutant: what has been fetched is forgotten.
with_clear_refresh_lock_retry(e) ==
  [e EXCEPT !.fetch_state = "PendingRetry", !.refresh_started_ago = {}]

with_clear_refresh_lock(e) ==
  [e EXCEPT !.fetch_state = IF has_fetched(e) THEN "Ready" ELSE "PendingRetry",
            !.refresh_started_ago = {}]

with_reset_cold_count(e) == [e EXCEPT !.cold_refresh_count = 0]

\* Mutant: the addition does not saturate.
with_increment_cold_count_wide(e) == [e EXCEPT !.cold_refresh_count = @ + 1]

with_increment_cold_count(e) ==
  [e EXCEPT !.cold_refresh_count = IF @ < ColdCountCap THEN @ + 1 ELSE @]

with_reset_to_warm(e) == [e EXCEPT !.refresh_mode = "Warm"]

\* Mutant: the state is only moved on from Loading.
with_refresh_completed_locked(e, rendered) ==
  [e EXCEPT !.output = rendered.output, !.pr_count = rendered.pr_count,
            !.refresh_mode = rendered.refresh_mode,
            !.fetch_state = IF @ = "Loading" THEN "Ready" ELSE @,
            !.fetched_ago = 0]

\* Mutant: the start of the refresh stays.
with_refresh_completed_started(e, rendered) ==
  [e EXCEPT !.output = rendered.output, !.pr_count = rendered.pr_count,
            !.refresh_mode = rendered.refresh_mode, !.fetch_state = "Ready",
            !.fetched_ago = 0]

with_refresh_completed(e, rendered) ==
  [e EXCEPT !.output = rendered.output, !.pr_count = rendered.pr_count,
            !.refresh_mode = rendered.refresh_mode, !.fetch_state = "Ready",
            !.fetched_ago = 0, !.refresh_started_ago = {}]

\* One second passes for every Instant of the entry.
Later(e) ==
  [e EXCEPT !.fetched_ago = SecondLater(@),
            !.refresh_started_ago = {SecondLater(t) : t \in @},
            !.last_queried_ago = {SecondLater(t) : t \in @}]
==============================================================================
