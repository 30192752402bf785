---------------------------- MODULE RefreshCycle ----------------------------
(***************************************************************************)
(* The daemon's cache and everything that touches it: prompts that query   *)
(* it, the scheduler, the background refreshes it starts, the results they *)
(* send back, the rate limit it observes, and the user who switches        *)
(* branches meanwhile.                                                     *)
(*                                                                         *)
(* One actor owns the store (infrastructure/daemon_state_actor.rs), so a   *)
(* command is one step.  A refresh is not: the effect a command returns is *)
(* drained after the actor has gone on to other commands, the repository   *)
(* is read again, git and gh run for seconds, and the result comes back as *)
(* an ordinary Update request that can fail to arrive.  Each of these is a *)
(* step of its own.                                                        *)
(***************************************************************************)
EXTENDS RefreshPolicy, FiniteSetsExt

CONSTANTS
  NoRepo,                     \* `head` of a directory without a repository
  Result,                     \* what a fetch can render (see Rendered)
  MaxVersion,                 \* bound: changes on GitHub per branch
  Observable,                 \* rate limit snapshots gh can report
  stale_ttl_secs,             \* an answer this old starts a refresh
  refresh_lock_timeout_secs,  \* a refresh this old is given up
  entry_max_age_secs,         \* an entry not queried for this long is dropped
  RefreshTimeout              \* seconds within which git and gh end or are killed

ASSUME CycleAssumption ==
  /\ NoRepo \notin Branch
  /\ Result \subseteq [blank : BOOLEAN, refresh_mode : RefreshMode, pr_count : Nat]
  /\ Result # {}
  \* render() returns the empty string for a pull request that is over.
  /\ \A x \in Result : x.refresh_mode = "Terminal" => x.blank
  /\ MaxVersion \in Nat
  /\ Observable \subseteq Snapshot
  \* AgeCap does not hide how old a refresh is.
  /\ RefreshTimeout \in Nat /\ RefreshTimeout <= AgeCap
  /\ entry_max_age_secs \in Nat
  /\ stale_ttl_secs \in Nat /\ stale_ttl_secs < AgeCap
  /\ refresh_lock_timeout_secs \in 1 .. AgeCap

VARIABLES
  entries,            \* CacheStore.entries: RepoId -> Entry or NoEntry
  latest_rate_limit,  \* CacheStore.latest_rate_limit: at most one Snapshot
  backoff_left,       \* seconds until CacheStore.backoff_until; 0: none, or passed
  head,               \* what .git/HEAD of each working tree says
  remote,             \* what GitHub would answer for each branch now
  jobs,               \* refreshes that have been asked for and not ended
  answer              \* what the last step told a prompt, if it was a query

vars == <<entries, latest_rate_limit, backoff_left, head, remote, jobs, answer>>

------------------------------------------------------------------------------
(* Refreshes in flight. *)

Rendered == [output : Output, pr_count : Nat, refresh_mode : RefreshMode]

Remote == [ver : 0 .. MaxVersion, result : Result]

\* What render() makes of the state of branch r.
Render(r, x) ==
  [output |-> IF x.result.blank THEN {} ELSE {[src |-> r, ver |-> x.ver]},
   pr_count |-> x.result.pr_count, refresh_mode |-> x.result.refresh_mode]

\* A directory without a repository renders to the empty string.
NoRepository == [output |-> {}, pr_count |-> 0, refresh_mode |-> "Warm"]

(***************************************************************************)
(* origin is the entry whose lock the refresh holds, target the id it will *)
(* update, branch what `git branch --show-current` said.                   *)
(***************************************************************************)
Job ==
  [stage : {"effect", "running", "querying", "fetched"}, age : 0 .. RefreshTimeout,
   origin : RepoId, target : RepoId, branch : Branch, rendered : SUBSET Rendered]

SpawnRefreshEffect(r) ==
  [stage |-> "effect", age |-> 0, origin |-> r, target |-> r, branch |-> r[2],
   rendered |-> {}]

\* The job moves on: j is replaced by k.
Becomes(j, k) == jobs' = (jobs \ {j}) \cup {k}

Stored(output) == {[loading |-> FALSE, output |-> output]}

Loading == {[loading |-> TRUE, output |-> {}]}

NoAnswer == {}

Exists(r) == entries[r] # NoEntry

------------------------------------------------------------------------------
Init ==
  /\ entries = [r \in RepoId |-> NoEntry]
  /\ latest_rate_limit = {}
  /\ backoff_left = 0
  /\ head \in [Cwd -> Branch]
  /\ remote \in [RepoId -> [ver : {0}, result : Result]]
  /\ jobs = {}
  /\ answer = NoAnswer

------------------------------------------------------------------------------
(* Query: on_query in the actor, one action per case. *)

Put(r, e) == entries' = [entries EXCEPT ![r] = e]

\* The entry is fresh: nothing but the time of the query changes.
QueryFresh(r) ==
  /\ is_fresh(entries[r], effective_ttl(entries[r], stale_ttl_secs))
  /\ Put(r, with_record_query(entries[r]))
  /\ answer' = Stored(entries[r].output)
  /\ jobs' = jobs

\* A stale entry's query is recorded; coming back from cold, the count restarts.
Requeried(e) ==
  with_record_query(IF is_cold_or_never_queried(e, warm_to_cold_secs)
                    THEN with_reset_cold_count(e) ELSE e)

\* Stale, and a refresh is on its way.
QueryRefreshing(r) ==
  /\ ~is_fresh(entries[r], effective_ttl(entries[r], stale_ttl_secs))
  /\ is_refreshing(entries[r])
  /\ Put(r, Requeried(entries[r]))
  /\ answer' = IF has_fetched(entries[r]) THEN Stored(entries[r].output) ELSE Loading
  /\ jobs' = jobs

\* Stale: answer what there is and start a refresh.
QueryStale(r) ==
  LET queried == Requeried(entries[r])
  IN /\ ~is_fresh(entries[r], effective_ttl(entries[r], stale_ttl_secs))
     /\ ~is_refreshing(entries[r])
     /\ Put(r, with_mark_refreshing(IF queried.refresh_mode = "Terminal"
                                    THEN with_reset_to_warm(queried) ELSE queried))
     /\ answer' = Stored(entries[r].output)
     /\ jobs' = jobs \cup {SpawnRefreshEffect(r)}

\* Mutant: the refresh is forgotten.
QueryMiss_without_refresh(r) ==
  Put(r, new_loading(stale_ttl_secs)) /\ answer' = Loading /\ jobs' = jobs

\* The first query of this branch.
QueryMiss(r) ==
  /\ Put(r, new_loading(stale_ttl_secs))
  /\ answer' = Loading
  /\ jobs' = jobs \cup {SpawnRefreshEffect(r)}

on_query(r) ==
  \/ Exists(r) /\ (QueryFresh(r) \/ QueryRefreshing(r) \/ QueryStale(r))
  \/ ~Exists(r) /\ QueryMiss(r)

\* A prompt asks from directory c; the actor reads HEAD there.
Query(c) ==
  /\ \/ \E b \in Branch : head[c] = b /\ on_query(<<c, b>>)
     \/ head[c] = NoRepo /\ answer' = Stored({}) /\ UNCHANGED <<entries, jobs>>
  /\ UNCHANGED <<latest_rate_limit, backoff_left, head, remote>>

------------------------------------------------------------------------------
(* The scheduler: on_scheduler_tick in the actor, then its effects. *)

\* Mutants: every lock is taken back; none is.
Unlocked_always(e) == IF is_refreshing(e) THEN with_clear_refresh_lock(e) ELSE e

Unlocked_never(e) == e

\* An active entry gives up a refresh that has taken too long.
Unlocked(e) ==
  IF is_refreshing(e) /\ refresh_lock_expired(e, refresh_lock_timeout_secs)
  THEN with_clear_refresh_lock(e) ELSE e

\* API calls of one round: a query and one comparison per pull request.
total_refresh_cost(ids) ==
  MapThenFoldSet(SatAdd, 0, LAMBDA r : SatAdd(entries[r].pr_count, 1),
                 LAMBDA S : CHOOSE r \in S : TRUE,
                 {r \in ids : is_active(entries[r])})

\* The scheduler refreshes e now.
Due(e, cost) ==
  /\ is_active(e)
  /\ ~is_refreshing(Unlocked(e))
  /\ e.fetched_ago >=
       effective_refresh_interval_secs_scaled(Unlocked(e), latest_rate_limit, cost)

\* An active entry that is not refreshed now.
Waiting(e) == IF is_active(e) THEN Unlocked(e) ELSE e

Refreshed(e) ==
  with_mark_refreshing(
    IF e.refresh_mode = "Warm" /\ is_cold(e, warm_to_cold_secs)
    THEN with_increment_cold_count(Unlocked(e)) ELSE Unlocked(e))

\* A tick during backoff returns the store as it is and is not a step here.
SchedulerTick ==
  LET kept == {r \in RepoId : Exists(r) /\ ~is_expired(entries[r], entry_max_age_secs)}
      due == {r \in kept : Due(entries[r], total_refresh_cost(kept))}
  IN /\ backoff_left = 0
     /\ entries' = [r \in RepoId |->
                      CASE r \in due -> Refreshed(entries[r])
                        [] r \in kept \ due -> Waiting(entries[r])
                        [] OTHER -> NoEntry]
     /\ jobs' = jobs \cup {SpawnRefreshEffect(r) : r \in due}
     /\ answer' = NoAnswer
     /\ UNCHANGED <<latest_rate_limit, backoff_left, head, remote>>

------------------------------------------------------------------------------
(* A background refresh, from the effect to the Update request. *)

\* spawn_refresh: derive the id again from the directory; keep it on failure.
SpawnRefresh(j) ==
  /\ j.stage = "effect"
  /\ LET cwd == j.origin[1]
     IN Becomes(j, [j EXCEPT !.stage = "running",
                     !.target = IF head[cwd] = NoRepo THEN j.origin
                                ELSE <<cwd, head[cwd]>>])
  /\ answer' = NoAnswer
  /\ UNCHANGED <<entries, latest_rate_limit, backoff_left, head, remote>>

\* fetch_prompt begins: is it a repository, and on which branch?
ReadBranch(j) ==
  /\ j.stage = "running"
  /\ LET now == head[j.origin[1]]
     IN \/ /\ now \in Branch
           /\ Becomes(j, [j EXCEPT !.stage = "querying", !.branch = now])
        \/ /\ now = NoRepo
           /\ Becomes(j, [j EXCEPT !.stage = "fetched", !.rendered = {NoRepository}])
  /\ answer' = NoAnswer
  /\ UNCHANGED <<entries, latest_rate_limit, backoff_left, head, remote>>

\* gh answers for that branch, and the answer is rendered.
Fetch(j) ==
  /\ j.stage = "querying"
  /\ LET read == <<j.origin[1], j.branch>>
     IN Becomes(j, [j EXCEPT !.stage = "fetched", !.rendered = {Render(read, remote[read])}])
  /\ answer' = NoAnswer
  /\ UNCHANGED <<entries, latest_rate_limit, backoff_left, head, remote>>

\* Mutant: an unknown id is inserted.
on_refresh_completed_upsert(r, rendered) ==
  [entries EXCEPT ![r] =
     with_refresh_completed(IF Exists(r) THEN @ ELSE new_loading(stale_ttl_secs), rendered)]

\* The store after a refresh of r: an id that is not in the map is ignored.
on_refresh_completed(r, rendered) ==
  IF Exists(r) THEN [entries EXCEPT ![r] = with_refresh_completed(@, rendered)]
  ELSE entries

\* The result reaches the daemon as an Update request.
Update(j) ==
  /\ j.stage = "fetched"
  /\ \E x \in j.rendered : entries' = on_refresh_completed(j.target, x)
  /\ jobs' = jobs \ {j}
  /\ answer' = NoAnswer
  /\ UNCHANGED <<latest_rate_limit, backoff_left, head, remote>>

\* Sending it fails; the client ignores that.
LoseUpdate(j) ==
  /\ j.stage = "fetched"
  /\ jobs' = jobs \ {j}
  /\ answer' = NoAnswer
  /\ UNCHANGED <<entries, latest_rate_limit, backoff_left, head, remote>>

------------------------------------------------------------------------------
(* The rate limit: on_rate_limit_observed in the actor. *)

BACKOFF_THRESHOLD_BP == 500

\* 1500 ms, in whole seconds: the backoff still holds during the second one.
BACKOFF_SAFETY_MARGIN == 2

should_enter_backoff(s) ==
  is_exhausted(s) \/ bottleneck_ratio_bp(s) <= BACKOFF_THRESHOLD_BP

\* Mutant: what calls for no backoff ends it.
BackoffAfter_ended(s) ==
  IF should_enter_backoff(s) /\ bottleneck_reset_in(s) >= 0
  THEN bottleneck_reset_in(s) + BACKOFF_SAFETY_MARGIN ELSE 0

\* A reset in the past gives no new end, and the old one stays.
BackoffAfter(s) ==
  IF should_enter_backoff(s) /\ bottleneck_reset_in(s) >= 0
  THEN bottleneck_reset_in(s) + BACKOFF_SAFETY_MARGIN
  ELSE backoff_left

RateLimitObserved(s) ==
  /\ latest_rate_limit' = {s}
  /\ backoff_left' = BackoffAfter(s)
  /\ answer' = NoAnswer
  /\ UNCHANGED <<entries, head, remote, jobs>>

------------------------------------------------------------------------------
(* The world outside. *)

\* A second passes.  No refresh outlives the timeout of its subprocesses.
Advance ==
  /\ \A j \in jobs : j.age < RefreshTimeout
  /\ entries' = [r \in RepoId |-> IF Exists(r) THEN Later(entries[r]) ELSE NoEntry]
  /\ jobs' = {[j EXCEPT !.age = @ + 1] : j \in jobs}
  /\ latest_rate_limit' = {SnapshotLater(s) : s \in latest_rate_limit}
  /\ backoff_left' = IF backoff_left > 0 THEN backoff_left - 1 ELSE 0
  /\ answer' = NoAnswer
  /\ UNCHANGED <<head, remote>>

\* The user checks out another branch in c, or c stops being a repository.
SwitchBranch(c) ==
  /\ \E h \in (Branch \cup {NoRepo}) \ {head[c]} : head' = [head EXCEPT ![c] = h]
  /\ answer' = NoAnswer
  /\ UNCHANGED <<entries, latest_rate_limit, backoff_left, remote, jobs>>

\* Something happens to the pull requests of branch r.
RemoteChange(r) ==
  /\ remote[r].ver < MaxVersion
  /\ \E x \in Result : remote' = [remote EXCEPT ![r] = [ver |-> @.ver + 1, result |-> x]]
  /\ answer' = NoAnswer
  /\ UNCHANGED <<entries, latest_rate_limit, backoff_left, head, jobs>>

------------------------------------------------------------------------------
\* A step of a refresh that is not lost.
JobStep == \E j \in jobs : SpawnRefresh(j) \/ ReadBranch(j) \/ Fetch(j) \/ Update(j)

\* The steps of a world in which nothing is lost and HEAD stays where it is.
ReliableNext ==
  \/ \E c \in Cwd : Query(c)
  \/ SchedulerTick
  \/ JobStep
  \/ \E s \in Observable : RateLimitObserved(s)
  \/ Advance
  \/ \E r \in RepoId : RemoteChange(r)

Next ==
  \/ ReliableNext
  \/ \E j \in jobs : LoseUpdate(j)
  \/ \E c \in Cwd : SwitchBranch(c)

Spec == Init /\ [][Next]_vars

ReliableSpec == Init /\ [][ReliableNext]_vars

\* Timers fire, spawned tasks run and subprocesses end.
Fairness == WF_vars(Advance) /\ WF_vars(SchedulerTick) /\ WF_vars(JobStep)

FairSpec == Spec /\ Fairness

ReliableFairSpec == ReliableSpec /\ Fairness

------------------------------------------------------------------------------
(* What the cache must keep true. *)

CacheTypeOK ==
  /\ entries \in [RepoId -> Entry \cup {NoEntry}]
  /\ latest_rate_limit \in SUBSET Snapshot
  /\ backoff_left \in Nat
  /\ head \in [Cwd -> Branch \cup {NoRepo}]
  /\ remote \in [RepoId -> Remote]
  /\ jobs \in SUBSET Job
  /\ answer \in SUBSET [loading : BOOLEAN, output : Output]

\* The fields of one entry fit together.
Coherent(e) ==
  /\ e.refresh_started_ago = {} <=> ~is_refreshing(e)
  /\ ~has_fetched(e) =>
       /\ e.output = {} /\ e.pr_count = 0 /\ e.refresh_mode = "Warm"
       /\ e.fetched_ago > stale_ttl_secs
  /\ e.refresh_mode = "Terminal" => e.output = {}
  /\ e.last_queried_ago # {}

(***************************************************************************)
(* The fields of an entry agree however queries, ticks, results and time   *)
(* interleave: the lock has a start exactly while it is held, an entry     *)
(* that was never fetched is empty, Warm and stale, whether its refresh is *)
(* on its way or given up, a Terminal entry is empty, and the time of the  *)
(* last query is known.                                                    *)
(***************************************************************************)
EntryCoherent == \A r \in RepoId : Exists(r) => Coherent(entries[r])

(***************************************************************************)
(* A prompt is told "? loading" exactly as long as no refresh of the       *)
(* branch has completed, and from then on what the last one left.          *)
(***************************************************************************)
LoadingUntilFirstFetch ==
  [][\A c \in Cwd : \A b \in Branch : Query(c) /\ head[c] = b =>
       answer' = IF has_fetched(entries[<<c, b>>])
                 THEN Stored(entries[<<c, b>>].output) ELSE Loading]_vars

\* What the cache promises, in terms of what it stores.
Promised ==
  INSTANCE PromptCache WITH
    Key <- RepoId, Text <- Output,
    state <- [r \in RepoId |-> entries[r].fetch_state],
    shown <- [r \in RepoId |-> IF Exists(r) THEN entries[r].output ELSE {}],
    told <- answer

(***************************************************************************)
(* The cache with its clocks, locks, effects and late results keeps what   *)
(* PromptCache promises: only a result that arrives for an entry changes   *)
(* what is shown, entries move between the documented states only, and a   *)
(* prompt is told what is shown, or that nothing has been fetched.         *)
(***************************************************************************)
KeepsPromise == Promised!Spec

(***************************************************************************)
(* Only a query of the checked-out branch brings an entry into being: a    *)
(* result that arrives after its entry was dropped, or for a branch nobody *)
(* has asked about, leaves no entry behind.                                *)
(***************************************************************************)
NoOrphanEntries ==
  [][\A r \in RepoId : ~Exists(r) /\ Exists(r)' =>
       /\ head[r[1]] = r[2]
       /\ entries'[r].last_queried_ago = {0}
       /\ SpawnRefreshEffect(r) \in jobs']_vars

(***************************************************************************)
(* While the resource with less left was last seen at or below the         *)
(* threshold, and waits for its reset, the backoff outlasts that reset:    *)
(* the later of the two if both are equally short.                         *)
(***************************************************************************)
BackoffCoversReset ==
  \A s \in latest_rate_limit :
    LET least == Smaller(core_ratio(s), graphql_ratio(s))
    IN least <= BACKOFF_THRESHOLD_BP =>
         /\ core_ratio(s) = least /\ s.core_reset_in >= 0
              => backoff_left > s.core_reset_in
         /\ graphql_ratio(s) = least /\ s.graphql_reset_in >= 0
              => backoff_left > s.graphql_reset_in

\* The scheduler starts a refresh of r in this step.
TickRefreshes(r) == SchedulerTick /\ SpawnRefreshEffect(r) \in jobs' \ jobs

(***************************************************************************)
(* The intervals of the modes are the floor: the rate limit only stretches *)
(* them, to cold_late_secs at least once a resource is used up; and an     *)
(* entry that is being refreshed is refreshed again only after the lock    *)
(* timeout.                                                                *)
(***************************************************************************)
PolicyIntervalRespected ==
  [][\A r \in RepoId : TickRefreshes(r) =>
       LET e == entries[r]
       IN /\ e.fetched_ago >= effective_refresh_interval_secs(e)
          /\ (\E s \in latest_rate_limit : is_exhausted(s)) =>
               e.fetched_ago >= cold_late_secs
          /\ \A t \in e.refresh_started_ago : t >= refresh_lock_timeout_secs]_vars

------------------------------------------------------------------------------
(* When no result is lost and HEAD stays where it is (ReliableSpec). *)

(***************************************************************************)
(* Whoever is marked as being refreshed has the very refresh that the mark *)
(* was set for on its way: no lock waits for nobody.                       *)
(***************************************************************************)
LockOwned ==
  \A r \in RepoId : Exists(r) /\ is_refreshing(entries[r]) =>
    \E j \in jobs : j.origin = r /\ entries[r].refresh_started_ago = {j.age}

(***************************************************************************)
(* With refreshes shorter than the lock timeout, and entries that stay, no *)
(* entry is refreshed twice at a time.                                     *)
(***************************************************************************)
SingleFlight == \A j, k \in jobs : j.origin = k.origin => j = k

(***************************************************************************)
(* A result never replaces what is shown by something older, or by another *)
(* branch's prompt.                                                        *)
(***************************************************************************)
NoStaleOverwrite ==
  [][\A r \in RepoId : Exists(r) /\ Exists(r)' =>
       \A old \in entries[r].output, new \in entries'[r].output :
         new.src = r /\ new.ver >= old.ver]_vars

\* "? loading" ends.
FirstFetchCompletes ==
  \A r \in RepoId :
    entries[r].fetch_state = "Loading" ~> entries[r].fetch_state # "Loading"

\* An entry somebody may look at catches up with every change on GitHub.
ChangesReachThePrompt ==
  \A r \in RepoId : \A v \in 0 .. MaxVersion :
    Exists(r) /\ is_active(entries[r]) /\ remote[r].ver = v ~>
      \/ ~Exists(r)
      \/ ~is_active(entries[r])
      \/ \E x \in entries[r].output : x.ver >= v

------------------------------------------------------------------------------
(* When results are lost and branches are switched (FairSpec). *)

(***************************************************************************)
(* An active entry is refreshed again and again, however many results are  *)
(* lost: the scheduler takes the lock back.  A backoff only delays that,   *)
(* unless gh reports a rate limit that asks for another one for ever.      *)
(***************************************************************************)
ActiveEntryKeepsRefreshing ==
  <>[][\A s \in Observable : should_enter_backoff(s) => ~RateLimitObserved(s)]_vars =>
    \A r \in RepoId :
      Exists(r) /\ is_active(entries[r]) ~>
        \/ ~Exists(r)
        \/ ~is_active(entries[r])
        \/ \E j \in jobs : j.origin = r /\ j.stage = "effect"

(***************************************************************************)
(* When the prompts fall silent the daemon does too: every entry is        *)
(* dropped in the end and no refresh is started any more.                  *)
(***************************************************************************)
Quiescence ==
  <>[][\A c \in Cwd : ~Query(c)]_vars =>
    <>[](jobs = {} /\ \A r \in RepoId : ~Exists(r))

------------------------------------------------------------------------------
(* What the documentation says and the code does not do. *)

(***************************************************************************)
(* daemon_server.rs, spawn_refresh: if the branch has changed, the cache   *)
(* is updated for the new id.  So an entry shows its own branch.           *)
(***************************************************************************)
OutputMatchesBranch ==
  \A r \in RepoId : Exists(r) => \A x \in entries[r].output : x.src = r
==============================================================================
