-------------------------- MODULE RateLimitFetcher --------------------------
(***************************************************************************)
(* The task that polls `gh api rate_limit` and the client that caches the  *)
(* answer (daemon/infrastructure/rate_limit_fetcher.rs,                    *)
(* rate_limit_client.rs): when gh is asked, and how old the snapshot is    *)
(* that the store scales its intervals by.  What the store does with a     *)
(* snapshot is RateLimitObserved of RefreshCycle.                          *)
(*                                                                         *)
(* Time is in seconds; a snapshot is its age.                              *)
(***************************************************************************)
EXTENDS Integers

CONSTANTS
  None,        \* no snapshot
  interval,    \* MERGE_READY_RATE_LIMIT_FETCH_INTERVAL_SECS
  gh_timeout,  \* MERGE_READY_GH_TIMEOUT_SECS
  MaxFailures, \* bound: failures of gh in a row
  MaxAge       \* bound: ages, and the time since gh was started, are counted up to it

\* The client is created with the interval as its TTL.
ttl == interval

ASSUME FetcherAssumption ==
  /\ None \notin Nat
  /\ interval \in Nat \ {0} /\ gh_timeout \in Nat \ {0}
  /\ MaxFailures \in Nat
  /\ MaxAge \in Nat /\ MaxAge >= interval

VARIABLES
  stage,     \* "waiting" for the ticker, "fetching", or "observed": a snapshot is at hand
  due,       \* seconds until the ticker's next tick; negative if it is late
  running,   \* how long gh has been running
  cache,     \* RateLimitClient.cache
  latest,    \* CacheStore.latest_rate_limit
  failures,  \* how often gh has failed since its last answer
  idle       \* seconds since gh was last started; None: never

vars == <<stage, due, running, cache, latest, failures, idle>>

Init ==
  /\ stage = "waiting" /\ due = 0 /\ running = 0
  /\ cache = None /\ latest = None
  /\ failures = 0 /\ idle = None

\* Mutant: MissedTickBehavior::Burst, the default.
NextTick_burst == due + interval

\* MissedTickBehavior::Delay: the next tick is an interval after this one.
NextTick == interval

\* Mutant: a snapshot serves for two polls more.
cached_if_fresh_twice == cache # None /\ cache < 2 * ttl

cached_if_fresh == cache # None /\ cache < ttl

\* A tick: the cached snapshot if it is fresh, else gh.
Poll ==
  /\ stage = "waiting" /\ due <= 0
  /\ due' = NextTick
  /\ \/ cached_if_fresh /\ stage' = "observed" /\ UNCHANGED <<running, idle>>
     \/ ~cached_if_fresh /\ stage' = "fetching" /\ running' = 0 /\ idle' = 0
  /\ UNCHANGED <<cache, latest, failures>>

\* raw_fetch has no snapshot: gh is missing, failed, timed out, or was not understood.
GhFails ==
  /\ stage = "fetching" /\ failures < MaxFailures
  /\ stage' = "waiting" /\ failures' = failures + 1
  /\ UNCHANGED <<due, running, cache, latest, idle>>

GhAnswers ==
  /\ stage = "fetching"
  /\ stage' = "observed" /\ cache' = 0
  /\ UNCHANGED <<due, running, latest, failures, idle>>

\* The actor has applied the snapshot: the store's latest is the client's.
Observe ==
  /\ stage = "observed"
  /\ stage' = "waiting" /\ latest' = cache /\ failures' = 0
  /\ UNCHANGED <<due, running, cache, idle>>

Older(age) == IF age # None /\ age < MaxAge THEN age + 1 ELSE age

\* A second passes: gh is stopped after gh_timeout, timers and the actor are prompt.
Pass ==
  /\ \/ stage = "waiting" /\ due > 0 /\ running' = running
     \/ stage = "fetching" /\ running < gh_timeout /\ running' = running + 1
  /\ due' = due - 1
  /\ cache' = Older(cache) /\ latest' = Older(latest) /\ idle' = Older(idle)
  /\ UNCHANGED <<stage, failures>>

Next == Poll \/ GhFails \/ GhAnswers \/ Observe \/ Pass

Spec == Init /\ [][Next]_vars

------------------------------------------------------------------------------
Age == Nat \cup {None}

TypeOK ==
  /\ stage \in {"waiting", "fetching", "observed"}
  /\ due \in -gh_timeout .. interval
  /\ running \in 0 .. gh_timeout
  /\ cache \in Age /\ latest \in Age /\ idle \in Age
  /\ failures \in 0 .. MaxFailures

Slower == IF interval >= gh_timeout THEN interval ELSE gh_timeout

(***************************************************************************)
(* How old the store's snapshot gets.  The client's TTL is the interval of *)
(* the polls, and its snapshot is a little younger than that when the next *)
(* poll comes, so a poll that follows an answer finds it fresh and only    *)
(* the one after that asks gh: less than two intervals and one run of gh,  *)
(* and for each failure an interval more, or a run of gh if that is longer.*)
(***************************************************************************)
LatestIsRecent ==
  latest # None => latest < 2 * interval + gh_timeout + failures * Slower

(***************************************************************************)
(* gh is asked at most once per interval, also after it was slow or has    *)
(* failed: no burst makes up for the polls that were missed.               *)
(***************************************************************************)
GhIsSpaced ==
  [][stage = "waiting" /\ stage' = "fetching" => idle = None \/ idle >= interval]_vars
==============================================================================
