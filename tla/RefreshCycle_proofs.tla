------------------------ MODULE RefreshCycle_proofs ------------------------
(***************************************************************************)
(* Proofs about RefreshCycle for every number of trees, branches and       *)
(* concurrent refreshes, every interval and every bound: the refresh       *)
(* policy it uses, its invariants, that it implements PromptCache, and     *)
(* what holds besides when no result is lost.                              *)
(***************************************************************************)
EXTENDS BackoffHistory, SequenceFacts

------------------------------------------------------------------------------
(* The rate limit only stretches the intervals of RefreshPolicy, for every *)
(* entry, snapshot and cost, saturated or not.                             *)

\* Saturating arithmetic on numbers gives numbers.
LEMMA SatFacts ==
  ASSUME NEW a \in Nat, NEW b \in Nat
  PROVE  SatAdd(a, b) \in Nat /\ SatMul(a, b) \in Nat /\ SatSub(a, b) \in Nat
<1>1. SatAdd(a, b) \in Nat
  BY PolicyAssumption DEF SatAdd
<1>2. SatMul(a, b) \in Nat
  <2>1. a * b \in Nat
    OBVIOUS
  <2> QED
    BY <2>1, PolicyAssumption DEF SatMul
<1>3. SatSub(a, b) \in Nat
  BY DEF SatSub
<1> QED
  BY <1>1, <1>2, <1>3

\* Whole quotients of numbers are numbers.
LEMMA QuotientTyped == \A a \in Nat, b \in Nat \ {0} : a \div b \in Nat
OBVIOUS

\* The greater of two numbers is one of them, and no less than either.
LEMMA LargerFacts ==
  ASSUME NEW a \in Nat, NEW b \in Nat
  PROVE  Larger(a, b) \in Nat /\ Larger(a, b) >= a /\ Larger(a, b) >= b
BY DEF Larger

\* The stretch by what is left of the quota is a number.
LEMMA RatioTermTyped ==
  ASSUME NEW base \in Nat, NEW ratio \in Nat, NEW alpha \in Nat
  PROVE  compute_ratio_term(base, ratio, alpha) \in Nat
<1> DEFINE scale == SatMul(SCALE_X10, RATIO_SCALE_BP)
           used == SatSub(RATIO_SCALE_BP, ratio)
           sq == SatMul(used, used) \div RATIO_SCALE_BP
           grown == SatMul(SatMul(base, alpha), sq)
<1>1. RATIO_SCALE_BP \in Nat \ {0} /\ SCALE_X10 \in Nat
  BY DEF RATIO_SCALE_BP, SCALE_X10
<1>2. used \in Nat /\ scale \in Nat
  BY <1>1, SatFacts
<1>3. sq \in Nat
  BY <1>1, <1>2, SatFacts, QuotientTyped
<1>4. grown \in Nat
  BY <1>3, SatFacts
<1>5. scale # 0
  BY PolicyAssumption DEF SatMul, SCALE_X10, RATIO_SCALE_BP
<1>6. grown \div scale \in Nat
  BY <1>2, <1>4, <1>5, QuotientTyped
<1> HIDE DEF scale, grown
<1>7. SatAdd(base, grown \div scale) \in Nat
  BY <1>6, SatFacts
<1> QED
  BY <1>7 DEF compute_ratio_term, scale, grown, sq, used

\* The stretch by what the budget of requests allows is a number.
LEMMA BudgetTermTyped ==
  ASSUME NEW cost \in Nat, NEW window \in Nat, NEW budget \in Nat, NEW weight \in Nat,
         NEW ratio \in Nat
  PROVE  compute_budget_term(cost, window, budget, weight, ratio) \in Nat
<1> DEFINE safety == Larger(SatMul(budget, 95) \div 100, 1)
           numer == SatMul(SatMul(SatMul(cost, window), weight),
                           SatSub(RATIO_SCALE_BP, ratio))
           denom == SatMul(SatMul(safety, SCALE_X10), RATIO_SCALE_BP)
<1>1. RATIO_SCALE_BP \in Nat /\ SCALE_X10 \in Nat
  BY DEF RATIO_SCALE_BP, SCALE_X10
<1>2. safety \in Nat
  <2>1. SatMul(budget, 95) \in Nat
    BY SatFacts
  <2>2. SatMul(budget, 95) \div 100 \in Nat
    BY <2>1, QuotientTyped
  <2> QED
    BY <2>2, LargerFacts
<1>3. denom \in Nat
  BY <1>1, <1>2, SatFacts
<1>4. numer \in Nat
  BY <1>1, SatFacts
<1> HIDE DEF numer, denom
<1>5. denom # 0 => numer \div denom \in Nat
  BY <1>3, <1>4, QuotientTyped
<1>6. (IF denom = 0 THEN U64Max ELSE numer \div denom) \in Nat
  BY <1>5, PolicyAssumption
<1> QED
  BY <1>6 DEF compute_budget_term, numer, denom, safety

\* Ratios, budgets and the time until the reset are numbers.
LEMMA SnapshotFacts ==
  ASSUME NEW s \in Snapshot
  PROVE  /\ bottleneck_ratio_bp(s) \in Nat
         /\ bottleneck_budget(s) \in Nat
         /\ secs_until_reset(s) \in Nat
<1>1. \A n \in Nat, l \in Nat : ratio_bp(n, l) \in Nat
  <2> TAKE n \in Nat, l \in Nat
  <2>1. n * RATIO_SCALE_BP \in Nat /\ RATIO_SCALE_BP \in Nat
    BY DEF RATIO_SCALE_BP
  <2> HIDE DEF RATIO_SCALE_BP
  <2> QED
    BY <2>1, QuotientTyped DEF ratio_bp
<1>2. /\ s.core_remaining \in Nat /\ s.core_limit \in Nat /\ s.core_reset_in \in Int
      /\ s.graphql_remaining \in Nat /\ s.graphql_limit \in Nat
      /\ s.graphql_reset_in \in Int
  BY DEF Snapshot
<1>3. bottleneck_ratio_bp(s) \in Nat
  BY <1>1, <1>2 DEF bottleneck_ratio_bp, core_ratio, graphql_ratio, Smaller
<1>4. bottleneck_budget(s) \in Nat
  BY <1>2 DEF bottleneck_budget, Smaller
<1>5. bottleneck_reset_in(s) \in Int
  BY <1>2 DEF bottleneck_reset_in, Larger
<1>6. secs_until_reset(s) \in Nat
  BY <1>5 DEF secs_until_reset, Larger
<1> QED
  BY <1>3, <1>4, <1>6

\* Every base interval is a number, and one of the constants.
LEMMA BaseTyped ==
  ASSUME NEW e \in Entry
  PROVE  effective_refresh_interval_secs(e) \in Nat
<1>1. cold_interval_secs(e.cold_refresh_count) \in Nat
  BY PolicyAssumption, CapsAssumption DEF cold_interval_secs
<1>2. CASE e.refresh_mode = "Terminal"
  BY <1>2, PolicyAssumption DEF effective_refresh_interval_secs
<1>3. CASE e.refresh_mode # "Terminal"
  <2>1. \/ effective_refresh_interval_secs(e) = hot_with_query_secs
        \/ effective_refresh_interval_secs(e) = hot_without_query_secs
        \/ effective_refresh_interval_secs(e) = cold_interval_secs(e.cold_refresh_count)
        \/ effective_refresh_interval_secs(e) = warm_refresh_secs
    BY <1>3 DEF effective_refresh_interval_secs
  <2> QED
    BY <1>1, <2>1, PolicyAssumption, CapsAssumption
<1> QED
  BY <1>2, <1>3

(***************************************************************************)
(* Scaling is a floor: for every cost of a round and every snapshot, the   *)
(* scaled interval is at least the base interval, and at least             *)
(* cold_late_secs while a resource is used up.  Saturation does not change *)
(* that.                                                                   *)
(***************************************************************************)
THEOREM ScalingOnlyLengthens ==
  ASSUME NEW e \in Entry, NEW cost \in Nat, NEW snapshot \in SUBSET Snapshot
  PROVE  LET scaled == effective_refresh_interval_secs_scaled(e, snapshot, cost)
             base == effective_refresh_interval_secs(e)
         IN /\ scaled \in Nat /\ scaled >= base
            /\ (\A s \in snapshot : is_exhausted(s)) /\ snapshot # {} /\ base # U64Max
                 => scaled >= cold_late_secs
<1> DEFINE base == effective_refresh_interval_secs(e)
           params == scaling_params[effective_mode(e)]
           Ratio(s) == compute_ratio_term(base, bottleneck_ratio_bp(s), params.alpha_x10)
           Budget(s) == compute_budget_term(cost,
                          Smaller(secs_until_reset(s), RESET_WINDOW_CAP_SECS),
                          bottleneck_budget(s), params.weight_x10, bottleneck_ratio_bp(s))
           Scaled(s) == Larger(Larger(base, Ratio(s)), Budget(s))
           WithFloor(s) ==
             IF is_exhausted(s) THEN Larger(Scaled(s), cold_late_secs) ELSE Scaled(s)
<1>1. base \in Nat
  BY BaseTyped
<1>2. params.alpha_x10 \in Nat /\ params.weight_x10 \in Nat
  <2>1. effective_mode(e) \in {"Hot", "Warm", "Cold"}
    BY DEF effective_mode
  <2> QED
    BY <2>1 DEF scaling_params
<1>3. cold_late_secs \in Nat
  BY PolicyAssumption, CapsAssumption
<1>4. ASSUME NEW s \in Snapshot
      PROVE  /\ WithFloor(s) \in Nat /\ WithFloor(s) >= base
             /\ is_exhausted(s) => WithFloor(s) >= cold_late_secs
  <2>1. Ratio(s) \in Nat
    BY <1>1, <1>2, SnapshotFacts, RatioTermTyped
  <2>2. Smaller(secs_until_reset(s), RESET_WINDOW_CAP_SECS) \in Nat
    BY SnapshotFacts DEF Smaller, RESET_WINDOW_CAP_SECS
  <2>3. Budget(s) \in Nat
    BY <1>2, <2>2, SnapshotFacts, BudgetTermTyped
  <2> HIDE DEF base, Ratio, Budget
  <2>4. Scaled(s) \in Nat /\ Scaled(s) >= base
    BY <1>1, <2>1, <2>3 DEF Larger
  <2> QED
    BY <1>1, <1>3, <2>4 DEF Larger
<1>5. effective_refresh_interval_secs_scaled(e, snapshot, cost) =
        IF base = U64Max \/ snapshot = {} THEN base
        ELSE WithFloor(CHOOSE s \in snapshot : TRUE)
  BY DEF effective_refresh_interval_secs_scaled
<1>6. snapshot # {} => (CHOOSE s \in snapshot : TRUE) \in snapshot
  OBVIOUS
<1> HIDE DEF base, WithFloor
<1> QED
  BY <1>1, <1>4, <1>5, <1>6 DEF base

------------------------------------------------------------------------------
(* The entries of RefreshCycle and its refreshes.                          *)

(***************************************************************************)
(* What a refresh brings back has the same shape as an entry: a finished   *)
(* pull request renders to the empty string.                               *)
(***************************************************************************)
RenderedCoherent ==
  \A j \in jobs : \A x \in j.rendered : x.refresh_mode = "Terminal" => x.output = {}

(***************************************************************************)
(* EntryCoherent alone is not inductive.  An entry that has never been     *)
(* fetched keeps its lock: the tick passes over it, as it has no output,   *)
(* and nothing else takes a lock back.                                     *)
(***************************************************************************)
Held(e) == Coherent(e) /\ e.fetch_state # "PendingRetry"

EntriesHeld == \A r \in RepoId : Exists(r) => Held(entries[r])

\* The inductive invariant.
IInv == CacheTypeOK /\ EntriesHeld /\ RenderedCoherent

USE DEF Exists

------------------------------------------------------------------------------
(* Builders return entries. *)

\* The Option-valued ages: "just now" is an age, and a second later still is.
LEMMA AgeFacts ==
  /\ 0 \in Age
  /\ \A t \in Age : SecondLater(t) \in Age
  /\ \A S \in SUBSET Age : {SecondLater(t) : t \in S} \in SUBSET Age
BY CapsAssumption DEF Age, SecondLater

\* No entry is the mark of an absent key.
LEMMA EntryIsPresent == NoEntry \notin Entry
BY DEF NoEntry, Entry, FetchState

\* Every builder that on_query, the tick and a result apply returns an entry.
LEMMA BuildersTyped ==
  ASSUME NEW e \in Entry
  PROVE  /\ with_record_query(e) \in Entry
         /\ with_mark_refreshing(e) \in Entry
         /\ with_clear_refresh_lock(e) \in Entry
         /\ with_reset_cold_count(e) \in Entry
         /\ with_increment_cold_count(e) \in Entry
         /\ with_reset_to_warm(e) \in Entry
         /\ Later(e) \in Entry
         /\ \A x \in Rendered : with_refresh_completed(e, x) \in Entry
<1>1. with_record_query(e) \in Entry
  BY AgeFacts DEF Entry, with_record_query
<1>2. with_mark_refreshing(e) \in Entry
  BY AgeFacts DEF Entry, with_mark_refreshing, FetchState
<1>3. with_clear_refresh_lock(e) \in Entry
  BY DEF Entry, with_clear_refresh_lock, FetchState
<1>4. with_reset_cold_count(e) \in Entry
  BY CapsAssumption DEF Entry, with_reset_cold_count
<1>5. with_increment_cold_count(e) \in Entry
  BY CapsAssumption DEF Entry, with_increment_cold_count
<1>6. with_reset_to_warm(e) \in Entry
  BY DEF Entry, with_reset_to_warm, RefreshMode
<1>7. Later(e) \in Entry
  BY AgeFacts DEF Entry, Later
<1>8. \A x \in Rendered : with_refresh_completed(e, x) \in Entry
  BY AgeFacts DEF Entry, with_refresh_completed, Rendered, FetchState
<1> QED
  BY <1>1, <1>2, <1>3, <1>4, <1>5, <1>6, <1>7, <1>8

\* A new entry is an entry, and coherent: stale from the start.
LEMMA NewLoading ==
  /\ new_loading(stale_ttl_secs) \in Entry
  /\ Held(new_loading(stale_ttl_secs))
<1>1. stale_ttl_secs + 1 \in Age /\ stale_ttl_secs + 1 > stale_ttl_secs
  BY CapsAssumption, CycleAssumption DEF Age
<1>2. new_loading(stale_ttl_secs) \in Entry
  BY <1>1, AgeFacts, CapsAssumption
  DEF new_loading, Entry, FetchState, RefreshMode, Output
<1>3. Held(new_loading(stale_ttl_secs))
  BY <1>1 DEF new_loading, Held, Coherent, is_refreshing, has_fetched
<1> QED
  BY <1>2, <1>3

(***************************************************************************)
(* What each handler does to one entry keeps it an entry, and coherent.    *)
(***************************************************************************)

\* A query that changes nothing but the time of the query and the count.
LEMMA RequeriedFacts ==
  ASSUME NEW e \in Entry, Held(e)
  PROVE  /\ with_record_query(e) \in Entry /\ Held(with_record_query(e))
         /\ Requeried(e) \in Entry /\ Held(Requeried(e))
         /\ Requeried(e).fetch_state = e.fetch_state
<1>1. with_record_query(e) \in Entry /\ Held(with_record_query(e))
  BY BuildersTyped DEF Held, Coherent, is_refreshing, has_fetched, with_record_query, Entry
<1>2. with_reset_cold_count(e) \in Entry /\ Held(with_reset_cold_count(e))
  BY BuildersTyped DEF Held, Coherent, is_refreshing, has_fetched, with_reset_cold_count, Entry
<1>3. Requeried(e) \in Entry
  BY <1>2, BuildersTyped DEF Requeried
<1>4. Held(Requeried(e)) /\ Requeried(e).fetch_state = e.fetch_state
  BY <1>2 DEF Requeried, Held, Coherent, is_refreshing, has_fetched, with_record_query, with_reset_cold_count, Entry
<1> QED
  BY <1>1, <1>3, <1>4

\* A stale query that starts a refresh: the entry has been fetched.
LEMMA RestartedFacts ==
  ASSUME NEW e \in Entry, Held(e), ~is_refreshing(e)
  PROVE  LET q == Requeried(e)
             m == with_mark_refreshing(IF q.refresh_mode = "Terminal"
                                       THEN with_reset_to_warm(q) ELSE q)
         IN m \in Entry /\ Held(m)
<1> DEFINE q == Requeried(e)
           w == IF q.refresh_mode = "Terminal" THEN with_reset_to_warm(q) ELSE q
<1>1. q \in Entry /\ Held(q) /\ q.fetch_state = "Ready"
  BY RequeriedFacts DEF Held, Coherent, is_refreshing, has_fetched, Entry, FetchState
<1> HIDE DEF q
<1>2. w \in Entry /\ Held(w) /\ w.fetch_state = "Ready"
  BY <1>1, BuildersTyped DEF Held, Coherent, is_refreshing, has_fetched, with_reset_to_warm, Entry
<1> HIDE DEF w
<1>3. with_mark_refreshing(w) \in Entry /\ Held(with_mark_refreshing(w))
  BY <1>2, BuildersTyped DEF Held, Coherent, is_refreshing, has_fetched, with_mark_refreshing, Entry
<1> QED
  BY <1>3 DEF w, q

\* The tick, on an active entry: taking a lock back leaves it Ready.
LEMMA UnlockedFacts ==
  ASSUME NEW e \in Entry, Held(e), is_active(e)
  PROVE  /\ Unlocked(e) \in Entry /\ Held(Unlocked(e))
         /\ ~is_refreshing(Unlocked(e)) => Unlocked(e).fetch_state = "Ready"
<1>1. Unlocked(e) \in Entry
  BY BuildersTyped DEF Unlocked
<1>2. e.fetch_state \in {"Ready", "Refreshing"}
  BY DEF Held, Coherent, is_refreshing, has_fetched, is_active, Entry, FetchState
<1>3. Held(Unlocked(e))
  BY <1>2 DEF Unlocked, Held, Coherent, is_refreshing, has_fetched, with_clear_refresh_lock, Entry
<1>4. ~is_refreshing(Unlocked(e)) => Unlocked(e).fetch_state = "Ready"
  BY <1>1, <1>3 DEF Held, Coherent, is_refreshing, has_fetched, Entry, FetchState
<1> QED
  BY <1>1, <1>3, <1>4

\* The tick leaves a kept entry an entry, whether it is due or not.
LEMMA TickFacts ==
  ASSUME NEW e \in Entry, Held(e)
  PROVE  /\ Waiting(e) \in Entry /\ Held(Waiting(e))
         /\ is_active(e) /\ ~is_refreshing(Unlocked(e)) =>
              Refreshed(e) \in Entry /\ Held(Refreshed(e))
<1>1. Waiting(e) \in Entry /\ Held(Waiting(e))
  BY UnlockedFacts DEF Waiting
<1>2. ASSUME is_active(e), ~is_refreshing(Unlocked(e))
      PROVE  Refreshed(e) \in Entry /\ Held(Refreshed(e))
  <2> DEFINE u == Unlocked(e)
             c == IF e.refresh_mode = "Warm" /\ is_cold(e, warm_to_cold_secs)
                  THEN with_increment_cold_count(u) ELSE u
  <2>1. u \in Entry /\ Held(u) /\ u.fetch_state = "Ready"
    BY <1>2, UnlockedFacts
  <2> HIDE DEF u
  <2>2. c \in Entry /\ Held(c) /\ c.fetch_state = "Ready"
    BY <2>1, BuildersTyped DEF Held, Coherent, is_refreshing, has_fetched, with_increment_cold_count, Entry
  <2> HIDE DEF c
  <2>3. with_mark_refreshing(c) \in Entry /\ Held(with_mark_refreshing(c))
    BY <2>2, BuildersTyped DEF Held, Coherent, is_refreshing, has_fetched, with_mark_refreshing, Entry
  <2> QED
    BY <2>3 DEF c, u, Refreshed
<1> QED
  BY <1>1, <1>2

\* A result makes an entry Ready.
LEMMA CompletedFacts ==
  ASSUME NEW e \in Entry, Held(e), NEW x \in Rendered,
         x.refresh_mode = "Terminal" => x.output = {}
  PROVE  /\ with_refresh_completed(e, x) \in Entry
         /\ Held(with_refresh_completed(e, x))
<1>1. with_refresh_completed(e, x) \in Entry
  BY BuildersTyped
<1>2. Held(with_refresh_completed(e, x))
  BY DEF Held, Coherent, is_refreshing, has_fetched, with_refresh_completed, Entry, Rendered
<1> QED
  BY <1>1, <1>2

\* A second that passes leaves an entry coherent: what is stale stays stale.
LEMMA LaterFacts ==
  ASSUME NEW e \in Entry, Held(e)
  PROVE  Later(e) \in Entry /\ Held(Later(e))
<1>1. Later(e) \in Entry
  BY BuildersTyped
<1>2. SecondLater(e.fetched_ago) >= e.fetched_ago /\ SecondLater(e.fetched_ago) \in Nat
  BY CapsAssumption DEF Entry, Age, SecondLater
<1>3. e.fetched_ago > stale_ttl_secs => SecondLater(e.fetched_ago) > stale_ttl_secs
  BY <1>2, CycleAssumption DEF Entry, Age
<1>4. Held(Later(e))
  BY <1>3 DEF Held, Coherent, is_refreshing, has_fetched, Later, Entry
<1> QED
  BY <1>1, <1>4

------------------------------------------------------------------------------
(* Every action preserves the inductive invariant. *)

\* The refresh that is asked for is a job, and has rendered nothing yet.
LEMMA EffectFacts ==
  ASSUME NEW r \in RepoId
  PROVE  SpawnRefreshEffect(r) \in Job /\ SpawnRefreshEffect(r).rendered = {}
BY CycleAssumption DEF SpawnRefreshEffect, Job, RepoId

\* What is rendered has the shape of a result, and is blank if Terminal.
LEMMA RenderFacts ==
  /\ NoRepository \in Rendered
  /\ NoRepository.refresh_mode # "Terminal"
  /\ \A r \in RepoId : \A x \in Remote :
       /\ Render(r, x) \in Rendered
       /\ Render(r, x).refresh_mode = "Terminal" => Render(r, x).output = {}
<1>1. NoRepository \in Rendered /\ NoRepository.refresh_mode # "Terminal"
  BY DEF NoRepository, Rendered, RefreshMode, Output
<1>2. ASSUME NEW r \in RepoId, NEW x \in Remote
      PROVE  /\ Render(r, x) \in Rendered
             /\ Render(r, x).refresh_mode = "Terminal" => Render(r, x).output = {}
  <2>1. /\ x.ver \in Nat
        /\ x.result \in Result
        /\ x.result \in [blank : BOOLEAN, refresh_mode : RefreshMode, pr_count : Nat]
    BY <1>2, CycleAssumption DEF Remote
  <2>2. [src |-> r, ver |-> x.ver] \in Text
    BY <2>1 DEF Text
  <2>3. (IF x.result.blank THEN {} ELSE {[src |-> r, ver |-> x.ver]}) \in Output
    BY <2>2 DEF Output
  <2>4. Render(r, x) \in Rendered
    BY <2>1, <2>3 DEF Render, Rendered
  <2>5. x.result.refresh_mode = "Terminal" => x.result.blank
    BY <2>1, CycleAssumption
  <2>6. Render(r, x).refresh_mode = "Terminal" => Render(r, x).output = {}
    BY <2>5 DEF Render
  <2> QED
    BY <2>4, <2>6
<1> QED
  BY <1>1, <1>2

\* Initially nothing is cached and nothing is on its way.
LEMMA InitIInv == Init => IInv
<1> SUFFICES ASSUME Init PROVE IInv
  OBVIOUS
<1>1. remote \in [RepoId -> Remote]
  BY CycleAssumption DEF Init, Remote
<1>2. entries \in [RepoId -> Entry \cup {NoEntry}]
  BY DEF Init
<1>3. CacheTypeOK
  BY <1>1, <1>2 DEF Init, CacheTypeOK, NoAnswer
<1>4. EntriesHeld /\ RenderedCoherent
  BY DEF Init, EntriesHeld, RenderedCoherent
<1> QED
  BY <1>3, <1>4 DEF IInv

\* Putting a coherent entry under a key.
LEMMA PutFacts ==
  ASSUME IInv, NEW r \in RepoId, NEW e \in Entry, Held(e), Put(r, e)
  PROVE  /\ entries' \in [RepoId -> Entry \cup {NoEntry}]
         /\ EntriesHeld'
BY DEF IInv, CacheTypeOK, Put, EntriesHeld

\* on_query, in every case, leaves coherent entries and one more job at most.
LEMMA OnQueryFacts ==
  ASSUME IInv, NEW r \in RepoId, on_query(r)
  PROVE  /\ entries' \in [RepoId -> Entry \cup {NoEntry}]
         /\ EntriesHeld'
         /\ jobs' \in {jobs, jobs \cup {SpawnRefreshEffect(r)}}
         /\ answer' \in SUBSET [loading : BOOLEAN, output : Output]
<1> DEFINE e == entries[r]
<1>1. CASE Exists(r)
  <2>1. e \in Entry /\ Held(e) /\ e.output \in Output
    BY <1>1 DEF IInv, CacheTypeOK, EntriesHeld, Entry
  <2>2. Stored(e.output) \in SUBSET [loading : BOOLEAN, output : Output]
    BY <2>1 DEF Stored
  <2>3. Loading \in SUBSET [loading : BOOLEAN, output : Output]
    BY DEF Loading, Output
  <2>4. CASE QueryFresh(r)
    <3>1. Put(r, with_record_query(e)) /\ jobs' = jobs /\ answer' = Stored(e.output)
      BY <2>4 DEF QueryFresh
    <3> QED
      BY <3>1, <2>1, <2>2, RequeriedFacts, PutFacts
  <2>5. CASE QueryRefreshing(r)
    <3>1. /\ Put(r, Requeried(e)) /\ jobs' = jobs
          /\ answer' = Stored(e.output) \/ answer' = Loading
      BY <2>5 DEF QueryRefreshing
    <3> QED
      BY <3>1, <2>1, <2>2, <2>3, RequeriedFacts, PutFacts
  <2>6. CASE QueryStale(r)
    <3> DEFINE q == Requeried(e)
               m == with_mark_refreshing(IF q.refresh_mode = "Terminal"
                                         THEN with_reset_to_warm(q) ELSE q)
    <3>1. /\ ~is_refreshing(e)
          /\ Put(r, m)
          /\ jobs' = jobs \cup {SpawnRefreshEffect(r)}
          /\ answer' = Stored(e.output)
      BY <2>6 DEF QueryStale
    <3>2. m \in Entry /\ Held(m)
      BY <3>1, <2>1, RestartedFacts
    <3> HIDE DEF m
    <3> QED
      BY <3>1, <3>2, <2>2, PutFacts
  <2> QED
    BY <1>1, <2>4, <2>5, <2>6 DEF on_query
<1>2. CASE ~Exists(r)
  <2>1. /\ Put(r, new_loading(stale_ttl_secs))
        /\ jobs' = jobs \cup {SpawnRefreshEffect(r)} /\ answer' = Loading
    BY <1>2 DEF on_query, QueryMiss
  <2>2. Loading \in SUBSET [loading : BOOLEAN, output : Output]
    BY DEF Loading, Output
  <2> QED
    BY <2>1, <2>2, NewLoading, PutFacts
<1> QED
  BY <1>1, <1>2

\* A query.
LEMMA QueryIInv ==
  ASSUME IInv, NEW c \in Cwd, Query(c)
  PROVE  IInv'
<1>1. CASE \E b \in Branch : head[c] = b /\ on_query(<<c, b>>)
  <2>1. PICK b \in Branch : on_query(<<c, b>>)
    BY <1>1
  <2>2. <<c, b>> \in RepoId
    BY DEF RepoId
  <2>3. /\ entries' \in [RepoId -> Entry \cup {NoEntry}]
        /\ EntriesHeld'
        /\ jobs' \in {jobs, jobs \cup {SpawnRefreshEffect(<<c, b>>)}}
        /\ answer' \in SUBSET [loading : BOOLEAN, output : Output]
    BY <2>1, <2>2, OnQueryFacts
  <2>4. jobs' \in SUBSET Job /\ RenderedCoherent'
    BY <2>2, <2>3, EffectFacts DEF IInv, CacheTypeOK, RenderedCoherent
  <2> QED
    BY <2>3, <2>4 DEF IInv, CacheTypeOK, Query
<1>2. CASE answer' = Stored({}) /\ UNCHANGED <<entries, jobs>>
  <2>1. Stored({}) \in SUBSET [loading : BOOLEAN, output : Output]
    BY DEF Stored, Output
  <2> QED
    BY <1>2, <2>1 DEF IInv, CacheTypeOK, EntriesHeld, RenderedCoherent, Query
<1> QED
  BY <1>1, <1>2 DEF Query

\* A tick.
LEMMA TickIInv ==
  ASSUME IInv, SchedulerTick
  PROVE  IInv'
<1> DEFINE kept == {r \in RepoId : Exists(r) /\ ~is_expired(entries[r], entry_max_age_secs)}
           due == {r \in kept : Due(entries[r], total_refresh_cost(kept))}
<1>1. /\ entries' = [r \in RepoId |->
                      CASE r \in due -> Refreshed(entries[r])
                        [] r \in kept \ due -> Waiting(entries[r])
                        [] OTHER -> NoEntry]
      /\ jobs' = jobs \cup {SpawnRefreshEffect(r) : r \in due}
      /\ answer' = {}
      /\ UNCHANGED <<latest_rate_limit, backoff_left, head, remote>>
  BY DEF SchedulerTick, NoAnswer
<1>2. \A r \in kept : r \in RepoId /\ entries[r] \in Entry /\ Held(entries[r])
  BY DEF IInv, CacheTypeOK, EntriesHeld
<1>3. \A r \in due : /\ r \in kept
                     /\ is_active(entries[r]) /\ ~is_refreshing(Unlocked(entries[r]))
  BY DEF Due
<1> HIDE DEF kept, due
<1>4. \A r \in due : Refreshed(entries[r]) \in Entry /\ Held(Refreshed(entries[r]))
  BY <1>2, <1>3, TickFacts
<1>5. \A r \in kept : Waiting(entries[r]) \in Entry /\ Held(Waiting(entries[r]))
  BY <1>2, TickFacts
<1>6. \A r \in RepoId : \/ entries'[r] \in Entry /\ Held(entries'[r])
                        \/ entries'[r] = NoEntry
  <2> TAKE r \in RepoId
  <2>1. CASE r \in due
    BY <2>1, <1>1, <1>4
  <2>2. CASE r \in kept \ due
    BY <2>2, <1>1, <1>5
  <2>3. CASE r \notin kept /\ r \notin due
    BY <2>3, <1>1
  <2> QED
    BY <2>1, <2>2, <2>3
<1>7. entries' \in [RepoId -> Entry \cup {NoEntry}] /\ EntriesHeld'
  BY <1>1, <1>6 DEF EntriesHeld
<1>8. \A j \in jobs' : j \in jobs \/ (j \in Job /\ j.rendered = {})
  BY <1>1, <1>2, <1>3, EffectFacts
<1>9. jobs' \in SUBSET Job /\ RenderedCoherent'
  BY <1>8 DEF IInv, CacheTypeOK, RenderedCoherent
<1> QED
  BY <1>1, <1>7, <1>9 DEF IInv, CacheTypeOK

\* A job that moves on to a job whose rendering is coherent.
LEMMA BecomesFacts ==
  ASSUME IInv, NEW j \in jobs, NEW k \in Job, Becomes(j, k),
         \A x \in k.rendered : x.refresh_mode = "Terminal" => x.output = {}
  PROVE  jobs' \in SUBSET Job /\ RenderedCoherent'
BY DEF IInv, CacheTypeOK, RenderedCoherent, Becomes

\* The steps of a refresh before its result is sent.
LEMMA SpawnRefreshIInv ==
  ASSUME IInv, NEW j \in jobs, SpawnRefresh(j)
  PROVE  IInv'
<1> DEFINE cwd == j.origin[1]
           k == [j EXCEPT !.stage = "running",
                   !.target = IF head[cwd] = NoRepo THEN j.origin ELSE <<cwd, head[cwd]>>]
<1>1. j \in Job /\ cwd \in Cwd
  BY DEF IInv, CacheTypeOK, Job, RepoId
<1>2. k.target \in RepoId /\ k \in Job
  BY <1>1 DEF IInv, CacheTypeOK, Job, RepoId
<1>3. Becomes(j, k)
  BY DEF SpawnRefresh
<1>4. \A x \in k.rendered : x.refresh_mode = "Terminal" => x.output = {}
  BY <1>1 DEF IInv, RenderedCoherent, Job
<1> HIDE DEF k
<1>5. jobs' \in SUBSET Job /\ RenderedCoherent'
  BY <1>2, <1>3, <1>4, BecomesFacts
<1> QED
  BY <1>5 DEF IInv, CacheTypeOK, EntriesHeld, SpawnRefresh, NoAnswer

\* A refresh that finds no repository brings the empty, Warm result.
LEMMA ReadBranchIInv ==
  ASSUME IInv, NEW j \in jobs, ReadBranch(j)
  PROVE  IInv'
<1> DEFINE now == head[j.origin[1]]
           k == [j EXCEPT !.stage = "querying", !.branch = now]
           l == [j EXCEPT !.stage = "fetched", !.rendered = {NoRepository}]
<1>1. j \in Job
  BY DEF IInv, CacheTypeOK
<1>2. CASE now \in Branch /\ Becomes(j, k)
  <2>1. k \in Job /\ k.rendered = j.rendered
    BY <1>1, <1>2 DEF Job
  <2>2. \A x \in k.rendered : x.refresh_mode = "Terminal" => x.output = {}
    BY <2>1 DEF IInv, RenderedCoherent
  <2> HIDE DEF k
  <2> QED
    BY <1>2, <2>1, <2>2, BecomesFacts
       DEF IInv, CacheTypeOK, EntriesHeld, ReadBranch, NoAnswer
<1>3. CASE Becomes(j, l)
  <2>1. l \in Job /\ l.rendered = {NoRepository}
    BY <1>1, RenderFacts DEF Job
  <2>2. \A x \in l.rendered : x.refresh_mode = "Terminal" => x.output = {}
    BY <2>1, RenderFacts
  <2> HIDE DEF l
  <2> QED
    BY <1>3, <2>1, <2>2, BecomesFacts
       DEF IInv, CacheTypeOK, EntriesHeld, ReadBranch, NoAnswer
<1> QED
  BY <1>2, <1>3 DEF ReadBranch

\* What gh answers renders to a coherent result.
LEMMA FetchIInv ==
  ASSUME IInv, NEW j \in jobs, Fetch(j)
  PROVE  IInv'
<1> DEFINE read == <<j.origin[1], j.branch>>
           x == Render(read, remote[read])
           k == [j EXCEPT !.stage = "fetched", !.rendered = {x}]
<1>1. j \in Job /\ read \in RepoId
  BY DEF IInv, CacheTypeOK, Job, RepoId
<1>2. x \in Rendered /\ (x.refresh_mode = "Terminal" => x.output = {})
  BY <1>1, RenderFacts DEF IInv, CacheTypeOK
<1>3. Becomes(j, k)
  BY DEF Fetch
<1> HIDE DEF x
<1>4. k \in Job /\ k.rendered = {x}
  BY <1>1, <1>2 DEF Job
<1> HIDE DEF k
<1>5. jobs' \in SUBSET Job /\ RenderedCoherent'
  BY <1>2, <1>3, <1>4, BecomesFacts
<1> QED
  BY <1>5 DEF IInv, CacheTypeOK, EntriesHeld, Fetch, NoAnswer

\* The result arrives, for an entry that is there or for one that is not.
LEMMA UpdateIInv ==
  ASSUME IInv, NEW j \in jobs, Update(j)
  PROVE  IInv'
<1>1. PICK x \in j.rendered : entries' = on_refresh_completed(j.target, x)
  BY DEF Update
<1>2. /\ j.target \in RepoId
      /\ x \in Rendered
      /\ x.refresh_mode = "Terminal" => x.output = {}
  BY <1>1 DEF IInv, CacheTypeOK, RenderedCoherent, Job
<1>3. entries' \in [RepoId -> Entry \cup {NoEntry}] /\ EntriesHeld'
  <2>1. CASE Exists(j.target)
    <3> DEFINE e == entries[j.target]
               f == with_refresh_completed(e, x)
    <3>1. e \in Entry /\ Held(e)
      BY <1>2, <2>1 DEF IInv, CacheTypeOK, EntriesHeld
    <3>2. f \in Entry /\ Held(f)
      BY <3>1, <1>2, CompletedFacts
    <3>3. Put(j.target, f)
      BY <1>1, <2>1 DEF on_refresh_completed, Put
    <3> HIDE DEF f
    <3> QED
      BY <1>2, <3>2, <3>3, PutFacts
  <2>2. CASE ~Exists(j.target)
    BY <1>1, <2>2 DEF on_refresh_completed, IInv, CacheTypeOK, EntriesHeld
  <2> QED
    BY <2>1, <2>2
<1>4. jobs' \in SUBSET Job /\ RenderedCoherent'
  BY DEF Update, IInv, CacheTypeOK, RenderedCoherent
<1> QED
  BY <1>3, <1>4 DEF Update, IInv, CacheTypeOK, NoAnswer

\* Losing a result changes no entry.
LEMMA LoseUpdateIInv ==
  ASSUME IInv, NEW j \in jobs, LoseUpdate(j)
  PROVE  IInv'
BY DEF LoseUpdate, IInv, CacheTypeOK, EntriesHeld, RenderedCoherent, NoAnswer

\* The bottleneck's reset is a number, so the backoff stays one.
LEMMA BottleneckTyped ==
  ASSUME NEW s \in Snapshot
  PROVE  bottleneck_reset_in(s) \in {s.core_reset_in, s.graphql_reset_in}
BY DEF bottleneck_reset_in, Snapshot, Larger

\* An observation touches the rate limit alone.
LEMMA ObservedIInv ==
  ASSUME IInv, NEW s \in Observable, RateLimitObserved(s)
  PROVE  IInv'
<1>1. s \in Snapshot
  BY CycleAssumption
<1>2. bottleneck_reset_in(s) \in Int
  BY <1>1, BottleneckTyped DEF Snapshot
<1>3. BackoffAfter(s) \in Nat
  BY <1>2 DEF BackoffAfter, BACKOFF_SAFETY_MARGIN, IInv, CacheTypeOK
<1> QED
  BY <1>1, <1>3
     DEF RateLimitObserved, IInv, CacheTypeOK, EntriesHeld, RenderedCoherent, NoAnswer

\* A second passes.
LEMMA AdvanceIInv ==
  ASSUME IInv, Advance
  PROVE  IInv'
<1>1. \A r \in RepoId : \/ entries'[r] \in Entry /\ Held(entries'[r])
                        \/ entries'[r] = NoEntry
  BY LaterFacts DEF Advance, IInv, CacheTypeOK, EntriesHeld
<1>2. entries' \in [RepoId -> Entry \cup {NoEntry}] /\ EntriesHeld'
  BY <1>1 DEF Advance, EntriesHeld
<1>3. ASSUME NEW j \in jobs
      PROVE  /\ [j EXCEPT !.age = @ + 1] \in Job
             /\ [j EXCEPT !.age = @ + 1].rendered = j.rendered
  <2>1. j \in Job /\ j.age + 1 \in 0 .. RefreshTimeout
    BY CycleAssumption DEF Advance, IInv, CacheTypeOK, Job
  <2> QED
    BY <2>1 DEF Job
<1>4. jobs' \in SUBSET Job /\ RenderedCoherent'
  BY <1>3 DEF Advance, IInv, RenderedCoherent
<1>5. \A s \in Snapshot : SnapshotLater(s) \in Snapshot
  <2>1. \A t \in Int : CountDown(t) \in Int
    BY DEF CountDown
  <2> QED
    BY <2>1 DEF SnapshotLater, Snapshot
<1>6. latest_rate_limit' \in SUBSET Snapshot
  BY <1>5 DEF Advance, IInv, CacheTypeOK
<1>7. backoff_left' \in Nat
  BY DEF Advance, IInv, CacheTypeOK
<1> QED
  BY <1>2, <1>4, <1>6, <1>7 DEF Advance, IInv, CacheTypeOK, NoAnswer

\* A branch switch touches HEAD alone.
LEMMA SwitchBranchIInv ==
  ASSUME IInv, NEW c \in Cwd, SwitchBranch(c)
  PROVE  IInv'
BY DEF SwitchBranch, IInv, CacheTypeOK, EntriesHeld, RenderedCoherent, NoAnswer

\* GitHub changes behind the cache's back.
LEMMA RemoteChangeIInv ==
  ASSUME IInv, NEW r \in RepoId, RemoteChange(r)
  PROVE  IInv'
<1>1. remote[r].ver + 1 \in 0 .. MaxVersion
  BY CycleAssumption DEF RemoteChange, IInv, CacheTypeOK, Remote
<1>2. remote' \in [RepoId -> Remote]
  BY <1>1 DEF RemoteChange, IInv, CacheTypeOK, Remote
<1> QED
  BY <1>2 DEF RemoteChange, IInv, CacheTypeOK, EntriesHeld, RenderedCoherent, NoAnswer

\* Every step.
LEMMA NextIInv == IInv /\ [Next]_vars => IInv'
<1> SUFFICES ASSUME IInv, [Next]_vars PROVE IInv'
  OBVIOUS
<1>1. ASSUME NEW c \in Cwd, Query(c) PROVE IInv'
  BY <1>1, QueryIInv
<1>2. CASE SchedulerTick
  BY <1>2, TickIInv
<1>3. CASE JobStep
  BY <1>3, SpawnRefreshIInv, ReadBranchIInv, FetchIInv, UpdateIInv DEF JobStep
<1>4. ASSUME NEW s \in Observable, RateLimitObserved(s) PROVE IInv'
  BY <1>4, ObservedIInv
<1>5. CASE Advance
  BY <1>5, AdvanceIInv
<1>6. ASSUME NEW r \in RepoId, RemoteChange(r) PROVE IInv'
  BY <1>6, RemoteChangeIInv
<1>7. ASSUME NEW j \in jobs, LoseUpdate(j) PROVE IInv'
  BY <1>7, LoseUpdateIInv
<1>8. ASSUME NEW c \in Cwd, SwitchBranch(c) PROVE IInv'
  BY <1>8, SwitchBranchIInv
<1>9. CASE UNCHANGED vars
  BY <1>9 DEF vars, IInv, CacheTypeOK, EntriesHeld, RenderedCoherent
<1> QED
  BY <1>1, <1>2, <1>3, <1>4, <1>5, <1>6, <1>7, <1>8, <1>9 DEF Next, ReliableNext

\* The invariant holds in every reachable state.
THEOREM Invariance == Spec => []IInv
<1>1. Init => IInv
  BY InitIInv
<1>2. IInv /\ [Next]_vars => IInv'
  BY NextIInv
<1> QED
  BY <1>1, <1>2, PTL DEF Spec

(***************************************************************************)
(* Every variable keeps its type.                                          *)
(***************************************************************************)
THEOREM TypeCorrect == Spec => []CacheTypeOK
<1>1. IInv => CacheTypeOK
  BY DEF IInv
<1> QED
  BY <1>1, Invariance, PTL

(***************************************************************************)
(* The fields of every entry fit together in every reachable state.        *)
(***************************************************************************)
THEOREM EntriesCoherent == Spec => []EntryCoherent
<1>1. IInv => EntryCoherent
  BY DEF IInv, EntriesHeld, Held, EntryCoherent
<1> QED
  BY <1>1, Invariance, PTL

------------------------------------------------------------------------------
(* What a query is told, and where entries come from. *)

(***************************************************************************)
(* What on_query answers.  The point is the fresh case: an entry that was  *)
(* never fetched is stale (Coherent), so it never answers as if it were    *)
(* fresh.                                                                  *)
(***************************************************************************)
LEMMA AnswerFacts ==
  ASSUME IInv, NEW r \in RepoId, on_query(r)
  PROVE  answer' = IF has_fetched(entries[r]) THEN Stored(entries[r].output) ELSE Loading
<1> DEFINE e == entries[r]
<1>1. CASE ~Exists(r)
  <2>1. ~has_fetched(e)
    BY <1>1 DEF has_fetched, NoEntry
  <2> QED
    BY <1>1, <2>1 DEF on_query, QueryMiss
<1>2. CASE Exists(r)
  <2>1. e \in Entry /\ Held(e)
    BY <1>2 DEF IInv, CacheTypeOK, EntriesHeld
  <2>2. CASE QueryFresh(r)
    <3>1. e.fetch_state # "Loading"
      <4> SUFFICES ASSUME e.fetch_state = "Loading" PROVE FALSE
        OBVIOUS
      <4>1. e.refresh_mode = "Warm" /\ e.fetched_ago > stale_ttl_secs
        BY <2>1 DEF Held, Coherent, is_refreshing, has_fetched
      <4>2. e.fetched_ago <= stale_ttl_secs
        BY <2>2, <4>1 DEF QueryFresh, is_fresh, effective_ttl
      <4> QED
        BY <2>1, <4>1, <4>2, CycleAssumption, CapsAssumption DEF Entry, Age
    <3>2. has_fetched(e)
      BY <2>1, <3>1 DEF has_fetched, Held, Coherent, is_refreshing, Entry, FetchState
    <3> QED
      BY <2>2, <3>2 DEF QueryFresh
  <2>3. CASE QueryRefreshing(r)
    BY <2>3 DEF QueryRefreshing
  <2>4. CASE QueryStale(r)
    <3>1. has_fetched(e)
      BY <2>1, <2>4 DEF QueryStale, is_refreshing, has_fetched, Held, Coherent, Entry, FetchState
    <3> QED
      BY <2>4, <3>1 DEF QueryStale
  <2> QED
    BY <1>2, <2>2, <2>3, <2>4 DEF on_query
<1> QED
  BY <1>1, <1>2

(***************************************************************************)
(* A prompt is told "? loading" exactly until the first refresh of its     *)
(* branch has completed.                                                   *)
(***************************************************************************)
THEOREM AnswersLoading == Spec => LoadingUntilFirstFetch
<1>1. ASSUME IInv, NEW c \in Cwd, NEW b \in Branch, Query(c), head[c] = b
      PROVE  answer' = IF has_fetched(entries[<<c, b>>])
                       THEN Stored(entries[<<c, b>>].output) ELSE Loading
  <2>1. <<c, b>> \in RepoId
    BY DEF RepoId
  <2>2. on_query(<<c, b>>)
    BY <1>1, CycleAssumption DEF Query
  <2> QED
    BY <1>1, <2>1, <2>2, AnswerFacts
<1>2. IInv /\ [Next]_vars =>
        [\A c \in Cwd : \A b \in Branch : Query(c) /\ head[c] = b =>
           answer' = IF has_fetched(entries[<<c, b>>])
                     THEN Stored(entries[<<c, b>>].output) ELSE Loading]_vars
  BY <1>1
<1> QED
  BY <1>2, Invariance, PTL DEF Spec, LoadingUntilFirstFetch

(***************************************************************************)
(* Entries come into being by a query of the checked-out branch, never by  *)
(* a late result.                                                          *)
(***************************************************************************)
THEOREM NoOrphans == Spec => NoOrphanEntries
<1> DEFINE Born(r) == ~Exists(r) /\ Exists(r)'
           Asked(r) == /\ head[r[1]] = r[2]
                       /\ entries'[r].last_queried_ago = {0}
                       /\ SpawnRefreshEffect(r) \in jobs'
<1>1. ASSUME IInv, NEW r \in RepoId, NEW c \in Cwd, Query(c), Born(r)
      PROVE  Asked(r)
  <2>1. PICK b \in Branch : head[c] = b /\ on_query(<<c, b>>)
    BY <1>1 DEF Query
  <2>2. <<c, b>> \in RepoId
    BY DEF RepoId
  <2>3. \A k \in RepoId : k # <<c, b>> => entries'[k] = entries[k]
    BY <1>1, <2>1
       DEF on_query, QueryFresh, QueryRefreshing, QueryStale, QueryMiss, Put, IInv, CacheTypeOK
  <2>4. r = <<c, b>>
    BY <1>1, <2>3
  <2>5. QueryMiss(r)
    BY <1>1, <2>1, <2>4 DEF on_query
  <2>6. entries'[r] = new_loading(stale_ttl_secs)
    BY <1>1, <2>5 DEF QueryMiss, Put, IInv, CacheTypeOK
  <2> QED
    BY <2>1, <2>4, <2>5, <2>6 DEF QueryMiss, new_loading
<1>2. ASSUME IInv, NEW r \in RepoId, NEW j \in jobs, Update(j) PROVE ~Born(r)
  BY <1>2 DEF Update, on_refresh_completed, IInv, CacheTypeOK, Job
<1>3. ASSUME IInv, NEW r \in RepoId, SchedulerTick PROVE ~Born(r)
  <2> DEFINE kept == {k \in RepoId : Exists(k) /\ ~is_expired(entries[k], entry_max_age_secs)}
             due == {k \in kept : Due(entries[k], total_refresh_cost(kept))}
  <2>1. entries'[r] = CASE r \in due -> Refreshed(entries[r])
                        [] r \in kept \ due -> Waiting(entries[r])
                        [] OTHER -> NoEntry
    BY <1>3 DEF SchedulerTick
  <2>2. due \subseteq kept /\ \A k \in kept : Exists(k)
    OBVIOUS
  <2> HIDE DEF kept, due
  <2> QED
    BY <2>1, <2>2
<1>4. ASSUME IInv, NEW r \in RepoId, Advance PROVE ~Born(r)
  BY <1>4 DEF Advance
<1>5. ASSUME IInv, NEW r \in RepoId, [Next]_vars, Born(r) PROVE Asked(r)
  <2>1. ASSUME UNCHANGED entries PROVE FALSE
    BY <1>5, <2>1
  <2>2. ASSUME NEW j \in jobs, SpawnRefresh(j) \/ ReadBranch(j) \/ Fetch(j) \/ LoseUpdate(j)
        PROVE FALSE
    BY <2>1, <2>2 DEF SpawnRefresh, ReadBranch, Fetch, LoseUpdate
  <2>3. ASSUME NEW s \in Observable, RateLimitObserved(s) PROVE FALSE
    BY <2>1, <2>3 DEF RateLimitObserved
  <2>4. ASSUME NEW k \in RepoId, RemoteChange(k) PROVE FALSE
    BY <2>1, <2>4 DEF RemoteChange
  <2>5. ASSUME NEW c \in Cwd, SwitchBranch(c) PROVE FALSE
    BY <2>1, <2>5 DEF SwitchBranch
  <2>6. ASSUME UNCHANGED vars PROVE FALSE
    BY <2>1, <2>6 DEF vars
  <2> HIDE DEF Born, Asked
  <2> QED
    BY <1>1, <1>2, <1>3, <1>4, <1>5, <2>2, <2>3, <2>4, <2>5, <2>6
       DEF Next, ReliableNext, JobStep
<1>6. IInv /\ [Next]_vars => [\A r \in RepoId : Born(r) => Asked(r)]_vars
  BY <1>5
<1> QED
  BY <1>6, Invariance, PTL DEF Spec, NoOrphanEntries

------------------------------------------------------------------------------
(* Backoff. *)

\* A ratio is a number.
LEMMA RatioFacts ==
  ASSUME NEW n \in Nat, NEW l \in Nat
  PROVE  ratio_bp(n, l) \in Nat
<1>1. n * RATIO_SCALE_BP \in Nat
  BY DEF RATIO_SCALE_BP
<1>2. \A a \in Nat, b \in Nat \ {0} : a \div b \in Nat
  OBVIOUS
<1> HIDE DEF RATIO_SCALE_BP
<1>3. CASE l = 0
  BY <1>3 DEF ratio_bp, RATIO_SCALE_BP
<1>4. CASE l # 0
  BY <1>4, <1>1, <1>2 DEF ratio_bp
<1> QED
  BY <1>3, <1>4

\* The bottleneck resets no earlier than the resource of which less is left, or
\* than either if the same is left of both.
LEMMA BottleneckFacts ==
  ASSUME NEW s \in Snapshot
  PROVE  /\ bottleneck_reset_in(s) \in Int
         /\ s.core_reset_in \in Int /\ s.graphql_reset_in \in Int
         /\ core_ratio(s) = bottleneck_ratio_bp(s)
              => s.core_reset_in <= bottleneck_reset_in(s)
         /\ graphql_ratio(s) = bottleneck_ratio_bp(s)
              => s.graphql_reset_in <= bottleneck_reset_in(s)
<1>1. core_ratio(s) \in Nat /\ graphql_ratio(s) \in Nat
  BY RatioFacts DEF core_ratio, graphql_ratio, Snapshot
<1>2. s.core_reset_in \in Int /\ s.graphql_reset_in \in Int
  BY DEF Snapshot
<1> QED
  BY <1>1, <1>2 DEF bottleneck_reset_in, bottleneck_ratio_bp, Larger, Smaller

\* A second later the bottleneck is the same, and its reset a second nearer.
LEMMA LaterBottleneck ==
  ASSUME NEW s \in Snapshot
  PROVE  /\ SnapshotLater(s) \in Snapshot
         /\ should_enter_backoff(SnapshotLater(s)) = should_enter_backoff(s)
         /\ bottleneck_reset_in(SnapshotLater(s)) = CountDown(bottleneck_reset_in(s))
<1> DEFINE t == SnapshotLater(s)
<1>1. \A n \in Int : CountDown(n) \in Int
  BY DEF CountDown
<1>2. /\ t \in Snapshot
      /\ t.core_reset_in = CountDown(s.core_reset_in)
      /\ t.graphql_reset_in = CountDown(s.graphql_reset_in)
      /\ t.core_remaining = s.core_remaining /\ t.core_limit = s.core_limit
      /\ t.graphql_remaining = s.graphql_remaining /\ t.graphql_limit = s.graphql_limit
  BY <1>1 DEF SnapshotLater, Snapshot
<1> HIDE DEF t
<1>3. core_ratio(t) = core_ratio(s) /\ graphql_ratio(t) = graphql_ratio(s)
  BY <1>2 DEF core_ratio, graphql_ratio
<1>4. should_enter_backoff(t) = should_enter_backoff(s)
  BY <1>2, <1>3 DEF should_enter_backoff, is_exhausted, bottleneck_ratio_bp
<1>5. CountDown(Larger(s.core_reset_in, s.graphql_reset_in)) =
        Larger(CountDown(s.core_reset_in), CountDown(s.graphql_reset_in))
  BY DEF CountDown, Larger, Snapshot
<1>6. bottleneck_reset_in(t) = CountDown(bottleneck_reset_in(s))
  BY <1>2, <1>3, <1>5 DEF bottleneck_reset_in
<1> QED
  BY <1>2, <1>4, <1>6 DEF t

(***************************************************************************)
(* The backoff holds for the safety margin beyond the reset of the         *)
(* bottleneck.  Unlike BackoffCoversReset this is inductive: it speaks of  *)
(* the one reset the code computes the end of the backoff from.            *)
(***************************************************************************)
BackoffInv ==
  \A s \in latest_rate_limit :
    should_enter_backoff(s) /\ bottleneck_reset_in(s) >= 0 =>
      backoff_left >= bottleneck_reset_in(s) + BACKOFF_SAFETY_MARGIN

\* Every action preserves it.
LEMMA NextBackoffInv == IInv /\ BackoffInv /\ [Next]_vars => BackoffInv'
<1> SUFFICES ASSUME IInv, BackoffInv, [Next]_vars PROVE BackoffInv'
  OBVIOUS
<1>1. ASSUME UNCHANGED <<latest_rate_limit, backoff_left>> PROVE BackoffInv'
  BY <1>1 DEF BackoffInv
<1>2. ASSUME NEW s \in Observable, RateLimitObserved(s) PROVE BackoffInv'
  <2>1. bottleneck_reset_in(s) \in Int
    BY BottleneckFacts, CycleAssumption
  <2> QED
    BY <1>2, <2>1
       DEF RateLimitObserved, BackoffAfter, BackoffInv, BACKOFF_SAFETY_MARGIN
<1>3. CASE Advance
  <2>1. ASSUME NEW s \in latest_rate_limit,
               should_enter_backoff(SnapshotLater(s)),
               bottleneck_reset_in(SnapshotLater(s)) >= 0
        PROVE  backoff_left' >= bottleneck_reset_in(SnapshotLater(s)) + BACKOFF_SAFETY_MARGIN
    <3>1. /\ should_enter_backoff(s)
          /\ bottleneck_reset_in(SnapshotLater(s)) = CountDown(bottleneck_reset_in(s))
          /\ bottleneck_reset_in(s) \in Int
      BY <2>1, LaterBottleneck, BottleneckFacts DEF IInv, CacheTypeOK
    <3>2. /\ bottleneck_reset_in(s) >= 1
          /\ CountDown(bottleneck_reset_in(s)) = bottleneck_reset_in(s) - 1
      BY <2>1, <3>1 DEF CountDown
    <3>3. backoff_left >= bottleneck_reset_in(s) + BACKOFF_SAFETY_MARGIN
      BY <3>1, <3>2 DEF BackoffInv
    <3>4. backoff_left \in Nat /\ backoff_left' = IF backoff_left > 0 THEN backoff_left - 1 ELSE 0
      BY <1>3 DEF Advance, IInv, CacheTypeOK
    <3> QED
      BY <3>1, <3>2, <3>3, <3>4 DEF BACKOFF_SAFETY_MARGIN
  <2> QED
    BY <1>3, <2>1 DEF Advance, BackoffInv
<1>4. ASSUME NEW c \in Cwd, Query(c) PROVE BackoffInv'
  BY <1>1, <1>4 DEF Query
<1>5. CASE SchedulerTick
  BY <1>1, <1>5 DEF SchedulerTick
<1>6. CASE JobStep
  BY <1>1, <1>6 DEF JobStep, SpawnRefresh, ReadBranch, Fetch, Update
<1>7. ASSUME NEW r \in RepoId, RemoteChange(r) PROVE BackoffInv'
  BY <1>1, <1>7 DEF RemoteChange
<1>8. ASSUME NEW j \in jobs, LoseUpdate(j) PROVE BackoffInv'
  BY <1>1, <1>8 DEF LoseUpdate
<1>9. ASSUME NEW c \in Cwd, SwitchBranch(c) PROVE BackoffInv'
  BY <1>1, <1>9 DEF SwitchBranch
<1>10. CASE UNCHANGED vars
  BY <1>1, <1>10 DEF vars
<1> HIDE DEF BackoffInv
<1> QED
  BY <1>2, <1>3, <1>4, <1>5, <1>6, <1>7, <1>8, <1>9, <1>10 DEF Next, ReliableNext

\* The backoff invariant holds in every reachable state.
LEMMA BackoffInvariance == Spec => [](IInv /\ BackoffInv)
<1>1. Init => BackoffInv
  BY DEF Init, BackoffInv
<1> QED
  BY <1>1, InitIInv, NextIInv, NextBackoffInv, PTL DEF Spec

(***************************************************************************)
(* For every limit and reset time gh can report: while the resource that   *)
(* is short waits for its reset the backoff lasts, and if both are equally *)
(* short, until the later reset.                                           *)
(***************************************************************************)
THEOREM BackoffCovers == Spec => []BackoffCoversReset
<1>1. ASSUME IInv, BackoffInv, NEW s \in latest_rate_limit,
             bottleneck_ratio_bp(s) <= BACKOFF_THRESHOLD_BP
      PROVE  /\ core_ratio(s) = bottleneck_ratio_bp(s) /\ s.core_reset_in >= 0
                  => backoff_left > s.core_reset_in
             /\ graphql_ratio(s) = bottleneck_ratio_bp(s) /\ s.graphql_reset_in >= 0
                  => backoff_left > s.graphql_reset_in
  <2>1. s \in Snapshot /\ backoff_left \in Nat
    BY <1>1 DEF IInv, CacheTypeOK
  <2>2. bottleneck_reset_in(s) >= 0 =>
          backoff_left >= bottleneck_reset_in(s) + BACKOFF_SAFETY_MARGIN
    BY <1>1 DEF BackoffInv, should_enter_backoff
  <2> QED
    BY <2>1, <2>2, BottleneckFacts DEF BACKOFF_SAFETY_MARGIN
<1>2. IInv /\ BackoffInv => BackoffCoversReset
  BY <1>1 DEF BackoffCoversReset, bottleneck_ratio_bp
<1> QED
  BY <1>2, BackoffInvariance, PTL

(***************************************************************************)
(* The backoff outlasts the reset that is awaited by the safety margin.    *)
(* Unlike BackoffInv this says nothing of the last snapshot: a later one   *)
(* may have replaced the one that called for the backoff.                  *)
(***************************************************************************)
AwaitedInv == \A t \in awaited : t \in Nat /\ backoff_left >= t + BACKOFF_SAFETY_MARGIN

\* The history variable does not restrict the cache, whose steps it follows.
LEMMA StepsOfTheCache == [NextH]_varsH => [Next]_vars
<1>1. ASSUME NEW s \in Observable, RateLimitObservedH(s) PROVE Next
  BY <1>1 DEF RateLimitObservedH, Next, ReliableNext
<1>2. AdvanceH => Next
  BY DEF AdvanceH, Next, ReliableNext
<1>3. OtherStepH => Next
  BY DEF OtherStepH, Next, ReliableNext
<1>4. UNCHANGED varsH => UNCHANGED vars
  BY DEF varsH
<1> QED
  BY <1>1, <1>2, <1>3, <1>4 DEF NextH

\* Every action preserves it: an observation either sets both, or neither.
LEMMA NextAwaitedInv == IInv /\ AwaitedInv /\ [NextH]_varsH => AwaitedInv'
<1> SUFFICES ASSUME IInv, AwaitedInv, [NextH]_varsH PROVE AwaitedInv'
  OBVIOUS
<1>1. ASSUME NEW s \in Observable, RateLimitObservedH(s) PROVE AwaitedInv'
  <2>1. bottleneck_reset_in(s) \in Int
    BY BottleneckFacts, CycleAssumption
  <2>2. /\ backoff_left' = BackoffAfter(s)
        /\ awaited' = IF should_enter_backoff(s) /\ bottleneck_reset_in(s) >= 0
                      THEN {bottleneck_reset_in(s)} ELSE awaited
    BY <1>1, Zenon DEF RateLimitObservedH, RateLimitObserved
  <2> QED
    BY <2>1, <2>2 DEF BackoffAfter, AwaitedInv, BACKOFF_SAFETY_MARGIN
<1>2. CASE AdvanceH
  <2>1. /\ backoff_left \in Nat
        /\ backoff_left' = IF backoff_left > 0 THEN backoff_left - 1 ELSE 0
        /\ awaited' = {t - 1 : t \in awaited \ {0}}
    BY <1>2 DEF AdvanceH, Advance, IInv, CacheTypeOK
  <2> QED
    BY <2>1 DEF AwaitedInv, BACKOFF_SAFETY_MARGIN
<1>3. ASSUME UNCHANGED <<backoff_left, awaited>> PROVE AwaitedInv'
  BY <1>3 DEF AwaitedInv
<1>4. CASE OtherStepH
  <2>1. backoff_left' = backoff_left
    BY <1>4 DEF OtherStepH, Query, SwitchBranch, SchedulerTick, JobStep, SpawnRefresh,
                ReadBranch, Fetch, Update, LoseUpdate, RemoteChange
  <2> QED
    BY <1>3, <1>4, <2>1 DEF OtherStepH
<1>5. CASE UNCHANGED varsH
  BY <1>3, <1>5 DEF varsH, vars
<1> HIDE DEF AwaitedInv
<1> QED
  BY <1>1, <1>2, <1>4, <1>5 DEF NextH

(***************************************************************************)
(* The scheduler starts no refresh before the reset that the backoff was   *)
(* entered for, however many other snapshots are observed until then.      *)
(***************************************************************************)
THEOREM TickWaits == SpecH => RefreshWaitsForReset
<1>1. InitH => IInv /\ AwaitedInv
  BY InitIInv DEF InitH, AwaitedInv
<1>2. IInv /\ AwaitedInv /\ [NextH]_varsH => IInv' /\ AwaitedInv'
  BY NextIInv, NextAwaitedInv, StepsOfTheCache
<1>3. ASSUME AwaitedInv, SchedulerTick PROVE awaited = {}
  <2>1. backoff_left = 0
    BY <1>3, Zenon DEF SchedulerTick
  <2> QED
    BY <1>3, <2>1 DEF AwaitedInv, BACKOFF_SAFETY_MARGIN
<1>4. AwaitedInv /\ [NextH]_varsH =>
        [\A r \in RepoId : TickRefreshes(r) => awaited = {}]_varsH
  BY <1>3, Zenon DEF TickRefreshes
<1> QED
  BY <1>1, <1>2, <1>4, PTL DEF SpecH, RefreshWaitsForReset

------------------------------------------------------------------------------
(* What a tick starts has waited for its interval.  An Option holds one    *)
(* value at most, so the lock whose age is tested is the only one, and the *)
(* snapshot that scales is the one that is known; and the entries that a   *)
(* round counts are finitely many, so that its cost is a number.           *)

\* An entry has been marked at one moment at most.
LockedOnce(e) == \A t, u \in e.refresh_started_ago : t = u

Present == {r \in RepoId : Exists(r)}

OptionsInv ==
  /\ \A r \in RepoId : Exists(r) => LockedOnce(entries[r])
  /\ \A s, t \in latest_rate_limit : s = t
  /\ IsFiniteSet(Present)

\* Marking an entry leaves one moment.
LEMMA MarkedOnce ==
  ASSUME NEW e \in Entry
  PROVE  LockedOnce(with_mark_refreshing(e))
BY DEF LockedOnce, with_mark_refreshing, Entry

\* What the other handlers make of an entry has been marked at one moment at most.
LEMMA LockedOnceFacts ==
  ASSUME NEW e \in Entry, LockedOnce(e)
  PROVE  /\ LockedOnce(with_record_query(e))
         /\ LockedOnce(Requeried(e))
         /\ LockedOnce(Waiting(e))
         /\ LockedOnce(Later(e))
         /\ \A x : LockedOnce(with_refresh_completed(e, x))
<1>1. LockedOnce(with_record_query(e))
  BY DEF LockedOnce, with_record_query, Entry
<1>2. LockedOnce(Requeried(e))
  BY DEF LockedOnce, Requeried, with_record_query, with_reset_cold_count, Entry
<1>3. LockedOnce(Waiting(e))
  BY DEF LockedOnce, Waiting, Unlocked, with_clear_refresh_lock, Entry
<1>4. LockedOnce(Later(e))
  <2>1. Later(e).refresh_started_ago = {SecondLater(t) : t \in e.refresh_started_ago}
    BY DEF Later, Entry
  <2> QED
    BY <2>1 DEF LockedOnce
<1>5. \A x : LockedOnce(with_refresh_completed(e, x))
  BY DEF LockedOnce, with_refresh_completed, Entry
<1> QED
  BY <1>1, <1>2, <1>3, <1>4, <1>5

\* Entries are added one at a time, so finitely many are there.
LEMMA PutOption ==
  ASSUME IInv, OptionsInv, NEW r \in RepoId, NEW e, LockedOnce(e), Put(r, e),
         UNCHANGED latest_rate_limit
  PROVE  OptionsInv'
<1>1. Present' \in SUBSET (Present \cup {r})
  BY DEF IInv, CacheTypeOK, Put, Present
<1>2. IsFiniteSet(Present \cup {r})
  BY FS_AddElement DEF OptionsInv
<1>3. IsFiniteSet(Present')
  BY <1>1, <1>2, FS_Subset
<1> QED
  BY <1>3 DEF IInv, CacheTypeOK, Put, OptionsInv

\* A query.
LEMMA QueryOptions ==
  ASSUME IInv, OptionsInv, NEW c \in Cwd, Query(c)
  PROVE  OptionsInv'
<1>1. CASE \E b \in Branch : head[c] = b /\ on_query(<<c, b>>)
  <2>1. PICK b \in Branch : on_query(<<c, b>>)
    BY <1>1
  <2> DEFINE r == <<c, b>>
             e == entries[r]
  <2>2. r \in RepoId /\ latest_rate_limit' = latest_rate_limit
    BY DEF RepoId, Query
  <2> HIDE DEF r
  <2>3. CASE Exists(r)
    <3>1. e \in Entry /\ LockedOnce(e)
      BY <2>2, <2>3 DEF IInv, CacheTypeOK, OptionsInv
    <3>2. CASE QueryFresh(r)
      <4>1. Put(r, with_record_query(e))
        BY <3>2 DEF QueryFresh
      <4> QED
        BY <4>1, <2>2, <3>1, LockedOnceFacts, PutOption
    <3>3. CASE QueryRefreshing(r)
      <4>1. Put(r, Requeried(e))
        BY <3>3 DEF QueryRefreshing
      <4> QED
        BY <4>1, <2>2, <3>1, LockedOnceFacts, PutOption
    <3>4. CASE QueryStale(r)
      <4> DEFINE q == Requeried(e)
                 w == IF q.refresh_mode = "Terminal" THEN with_reset_to_warm(q) ELSE q
      <4>1. Put(r, with_mark_refreshing(w))
        BY <3>4 DEF QueryStale
      <4>2. w \in Entry
        BY <2>2, <2>3, <3>1, RequeriedFacts, BuildersTyped DEF IInv, EntriesHeld
      <4> HIDE DEF w
      <4> QED
        BY <4>1, <4>2, <2>2, MarkedOnce, PutOption
    <3> QED
      BY <2>1, <2>3, <3>2, <3>3, <3>4 DEF on_query, r
  <2>4. CASE ~Exists(r)
    <3>1. Put(r, new_loading(stale_ttl_secs))
      BY <2>1, <2>4 DEF on_query, QueryMiss, r
    <3>2. LockedOnce(new_loading(stale_ttl_secs))
      BY DEF LockedOnce, new_loading
    <3> QED
      BY <3>1, <3>2, <2>2, PutOption
  <2> QED
    BY <2>3, <2>4
<1>2. CASE UNCHANGED entries
  BY <1>2 DEF Query, OptionsInv, Present
<1> QED
  BY <1>1, <1>2 DEF Query

\* Where entries only leave, and those that stay are marked once, all is well.
LEMMA FewerOptions ==
  ASSUME OptionsInv, UNCHANGED latest_rate_limit,
         \A r \in RepoId : Exists(r)' => Exists(r) /\ LockedOnce(entries'[r])
  PROVE  OptionsInv'
<1>1. Present' \in SUBSET Present
  BY DEF Present
<1>2. IsFiniteSet(Present')
  BY <1>1, FS_Subset DEF OptionsInv
<1> QED
  BY <1>2 DEF OptionsInv

\* A tick.
LEMMA TickOptions ==
  ASSUME IInv, OptionsInv, SchedulerTick
  PROVE  OptionsInv'
<1> DEFINE kept == {r \in RepoId : Exists(r) /\ ~is_expired(entries[r], entry_max_age_secs)}
           due == {r \in kept : Due(entries[r], total_refresh_cost(kept))}
<1>1. /\ entries' = [r \in RepoId |->
                      CASE r \in due -> Refreshed(entries[r])
                        [] r \in kept \ due -> Waiting(entries[r])
                        [] OTHER -> NoEntry]
      /\ UNCHANGED latest_rate_limit
  BY DEF SchedulerTick
<1>2. \A r \in kept : /\ Exists(r) /\ entries[r] \in Entry /\ Held(entries[r])
                      /\ LockedOnce(entries[r])
  BY DEF IInv, CacheTypeOK, EntriesHeld, OptionsInv
<1>3. \A r \in due : r \in kept /\ is_active(entries[r])
  BY DEF Due
<1> HIDE DEF kept, due
<1>4. ASSUME NEW r \in due PROVE LockedOnce(Refreshed(entries[r]))
  <2> DEFINE e == entries[r]
             u == Unlocked(e)
             c == IF e.refresh_mode = "Warm" /\ is_cold(e, warm_to_cold_secs)
                  THEN with_increment_cold_count(u) ELSE u
  <2>1. u \in Entry
    BY <1>2, <1>3, UnlockedFacts
  <2> HIDE DEF u
  <2>2. c \in Entry
    BY <2>1, BuildersTyped
  <2> HIDE DEF c
  <2> QED
    BY <2>2, MarkedOnce DEF Refreshed, c, u
<1>5. \A r \in kept : LockedOnce(Waiting(entries[r]))
  BY <1>2, LockedOnceFacts
<1>6. ASSUME NEW r \in RepoId, Exists(r)' PROVE Exists(r) /\ LockedOnce(entries'[r])
  <2>1. CASE r \in due
    BY <2>1, <1>1, <1>2, <1>3, <1>4
  <2>2. CASE r \in kept \ due
    BY <2>2, <1>1, <1>2, <1>5
  <2>3. CASE r \notin kept /\ r \notin due
    BY <2>3, <1>1, <1>6
  <2> QED
    BY <2>1, <2>2, <2>3
<1> QED
  BY <1>1, <1>6, FewerOptions

\* A result arrives.
LEMMA UpdateOptions ==
  ASSUME IInv, OptionsInv, NEW j \in jobs, Update(j)
  PROVE  OptionsInv'
<1>1. PICK x \in j.rendered : entries' = on_refresh_completed(j.target, x)
  BY DEF Update
<1>2. j.target \in RepoId /\ UNCHANGED latest_rate_limit
  BY DEF IInv, CacheTypeOK, Job, Update
<1>3. CASE Exists(j.target)
  <2> DEFINE f == with_refresh_completed(entries[j.target], x)
  <2>1. LockedOnce(f)
    BY <1>2, <1>3, LockedOnceFacts DEF IInv, CacheTypeOK, OptionsInv
  <2>2. Put(j.target, f)
    BY <1>1, <1>3 DEF on_refresh_completed, Put
  <2> HIDE DEF f
  <2> QED
    BY <1>2, <2>1, <2>2, PutOption
<1>4. CASE ~Exists(j.target)
  BY <1>1, <1>2, <1>4 DEF on_refresh_completed, OptionsInv, Present
<1> QED
  BY <1>3, <1>4

\* A second passes.
LEMMA AdvanceOptions ==
  ASSUME IInv, OptionsInv, Advance
  PROVE  OptionsInv'
<1>1. /\ entries' = [r \in RepoId |-> IF Exists(r) THEN Later(entries[r]) ELSE NoEntry]
      /\ latest_rate_limit' = {SnapshotLater(s) : s \in latest_rate_limit}
  BY DEF Advance
<1>2. ASSUME NEW r \in RepoId, Exists(r)' PROVE Exists(r) /\ LockedOnce(entries'[r])
  BY <1>1, <1>2, LockedOnceFacts DEF IInv, CacheTypeOK, OptionsInv
<1>3. Present' \in SUBSET Present
  BY <1>2 DEF Present
<1>4. IsFiniteSet(Present')
  BY <1>3, FS_Subset DEF OptionsInv
<1>5. \A s, t \in latest_rate_limit' : s = t
  BY <1>1 DEF OptionsInv
<1> QED
  BY <1>2, <1>4, <1>5 DEF OptionsInv

\* Every step.
LEMMA NextOptions == IInv /\ OptionsInv /\ [Next]_vars => OptionsInv'
<1> SUFFICES ASSUME IInv, OptionsInv, [Next]_vars PROVE OptionsInv'
  OBVIOUS
<1>1. ASSUME UNCHANGED <<entries, latest_rate_limit>> PROVE OptionsInv'
  BY <1>1 DEF OptionsInv, Present
<1>2. ASSUME NEW c \in Cwd, Query(c) PROVE OptionsInv'
  BY <1>2, QueryOptions
<1>3. CASE SchedulerTick
  BY <1>3, TickOptions
<1>4. ASSUME NEW j \in jobs, Update(j) PROVE OptionsInv'
  BY <1>4, UpdateOptions
<1>5. ASSUME NEW j \in jobs, SpawnRefresh(j) \/ ReadBranch(j) \/ Fetch(j) \/ LoseUpdate(j)
      PROVE  OptionsInv'
  BY <1>1, <1>5 DEF SpawnRefresh, ReadBranch, Fetch, LoseUpdate
<1>6. ASSUME NEW s \in Observable, RateLimitObserved(s) PROVE OptionsInv'
  BY <1>6 DEF RateLimitObserved, OptionsInv, Present
<1>7. CASE Advance
  BY <1>7, AdvanceOptions
<1>8. ASSUME NEW r \in RepoId, RemoteChange(r) PROVE OptionsInv'
  BY <1>1, <1>8 DEF RemoteChange
<1>9. ASSUME NEW c \in Cwd, SwitchBranch(c) PROVE OptionsInv'
  BY <1>1, <1>9 DEF SwitchBranch
<1>10. CASE UNCHANGED vars
  BY <1>1, <1>10 DEF vars
<1> HIDE DEF OptionsInv
<1> QED
  BY <1>2, <1>3, <1>4, <1>5, <1>6, <1>7, <1>8, <1>9, <1>10 DEF Next, ReliableNext, JobStep

\* Options hold one value at most, and entries are finitely many, in every
\* reachable state.
LEMMA OptionsInvariance == Spec => [](IInv /\ OptionsInv)
<1>1. Init => OptionsInv
  <2> SUFFICES ASSUME Init PROVE OptionsInv
    OBVIOUS
  <2>1. Present = {} /\ latest_rate_limit = {} /\ \A r \in RepoId : ~Exists(r)
    BY DEF Init, Present
  <2> QED
    BY <2>1, FS_EmptySet DEF OptionsInv
<1> QED
  BY <1>1, InitIInv, NextIInv, NextOptions, PTL DEF Spec

\* What a round adds for one entry.
CostAdded(ids) == [r \in ids |-> [c \in Nat |-> SatAdd(SatAdd(entries[r].pr_count, 1), c)]]

\* The entries of a round that are counted.
Counted(ids) == {r \in ids : is_active(entries[r])}

\* f adds up the costs of the sets of entries in S.
AddsUp(f, S) ==
  f = [s \in SUBSET S |->
         IF s = {} THEN 0
         ELSE SatAdd(SatAdd(entries[Chosen(s)].pr_count, 1), f[s \ {Chosen(s)}])]

\* The cost of a round of finitely many entries is a number.
LEMMA CostTyped ==
  ASSUME NEW ids \in SUBSET RepoId, IsFiniteSet(ids),
         \A r \in ids : entries[r] \in Entry
  PROVE  total_refresh_cost(ids) \in Nat
<1> DEFINE S == Counted(ids)
           apply == CostAdded(S)
           g == CHOOSE f : AddsUp(f, S)
<1>1. total_refresh_cost(ids) = g[S]
  BY DEF total_refresh_cost, MapThenFoldSet, AddsUp, Counted, Chosen
<1>2. S \in SUBSET ids /\ IsFiniteSet(S)
  BY FS_Subset DEF Counted
<1>3. \A r \in S : SatAdd(entries[r].pr_count, 1) \in Nat
  BY <1>2, SatFacts DEF Entry
<1> HIDE DEF S
<1>4. apply \in [S -> [Nat -> Nat]]
  BY <1>3, SatFacts DEF CostAdded
<1>5. \A r \in S, c \in Nat : apply[r][c] = SatAdd(SatAdd(entries[r].pr_count, 1), c)
  BY DEF CostAdded
<1> HIDE DEF apply
<1>6. PICK f \in [SUBSET S -> Nat] : SolvesSetFold(f, S, 0, apply)
  BY <1>2, <1>4, SetFoldExists
<1>7. ASSUME NEW s \in SUBSET S
      PROVE  f[s] = IF s = {} THEN 0
                    ELSE SatAdd(SatAdd(entries[Chosen(s)].pr_count, 1), f[s \ {Chosen(s)}])
  <2>1. f[s] = SetFoldBody(f, s, 0, apply)
    BY <1>6 DEF SolvesSetFold
  <2>2. CASE s = {}
    BY <2>1, <2>2 DEF SetFoldBody
  <2>3. CASE s # {}
    <3>1. Chosen(s) \in S /\ s \ {Chosen(s)} \in SUBSET S
      BY <1>2, <2>3, RestOfSet
    <3>2. f[s \ {Chosen(s)}] \in Nat
      BY <3>1, <1>6
    <3>3. f[s] = apply[Chosen(s)][f[s \ {Chosen(s)}]]
      BY <2>1, <2>3 DEF SetFoldBody
    <3> QED
      BY <2>3, <3>1, <3>2, <3>3, <1>5
  <2> QED
    BY <2>2, <2>3
<1>8. AddsUp(f, S)
  BY <1>7 DEF AddsUp
<1>9. AddsUp(g, S)
  BY <1>8
<1> HIDE DEF g
<1>10. g[{}] = 0
  BY <1>9 DEF AddsUp
<1>11. ASSUME NEW s \in SUBSET S, s # {}, g[s \ {Chosen(s)}] \in Nat
       PROVE  g[s] \in Nat
  <2>1. g[s] = SatAdd(SatAdd(entries[Chosen(s)].pr_count, 1), g[s \ {Chosen(s)}])
    BY <1>9, <1>11 DEF AddsUp
  <2>2. Chosen(s) \in S
    BY <1>2, <1>11, RestOfSet
  <2>3. SatAdd(entries[Chosen(s)].pr_count, 1) \in Nat
    BY <2>2, <1>3
  <2> QED
    BY <2>1, <2>3, <1>11, SatFacts
<1>12. g[{}] \in Nat
  BY <1>10
<1>13. \A s \in SUBSET S : s # {} /\ g[s \ {Chosen(s)}] \in Nat => g[s] \in Nat
  BY <1>11
<1>14. g[S] \in Nat
  BY <1>2, <1>12, <1>13, SetFoldTyped
<1> QED
  BY <1>1, <1>14

\* Unlocking an entry changes nothing its interval depends on.
LEMMA UnlockedInterval ==
  ASSUME NEW e \in Entry
  PROVE  effective_refresh_interval_secs(Unlocked(e)) = effective_refresh_interval_secs(e)
<1>1. /\ Unlocked(e).refresh_mode = e.refresh_mode
      /\ Unlocked(e).last_queried_ago = e.last_queried_ago
      /\ Unlocked(e).cold_refresh_count = e.cold_refresh_count
  BY DEF Unlocked, with_clear_refresh_lock, Entry
<1> QED
  BY <1>1 DEF effective_refresh_interval_secs, has_recent_query, is_cold

\* Where the interval is not scaled it is at least cold_late_secs.
LEMMA LongestInterval == cold_late_secs \in Nat /\ U64Max \in Nat /\ cold_late_secs <= U64Max
BY PolicyAssumption, CapsAssumption

\* An entry that is due has waited for what the policy asks.
LEMMA DueHasWaited ==
  ASSUME IInv, OptionsInv, NEW r \in RepoId, Exists(r), NEW cost \in Nat, Due(entries[r], cost)
  PROVE  LET e == entries[r]
         IN /\ e.fetched_ago >= effective_refresh_interval_secs(e)
            /\ (\E s \in latest_rate_limit : is_exhausted(s)) =>
                 e.fetched_ago >= cold_late_secs
            /\ \A t \in e.refresh_started_ago : t >= refresh_lock_timeout_secs
<1> DEFINE e == entries[r]
           u == Unlocked(e)
           base == effective_refresh_interval_secs(u)
           scaled == effective_refresh_interval_secs_scaled(u, latest_rate_limit, cost)
<1>1. e \in Entry /\ Held(e) /\ LockedOnce(e) /\ latest_rate_limit \in SUBSET Snapshot
  BY DEF IInv, CacheTypeOK, EntriesHeld, OptionsInv
<1>2. is_active(e) /\ ~is_refreshing(u) /\ e.fetched_ago >= scaled
  BY DEF Due
<1>3. u \in Entry /\ e.fetched_ago \in Nat /\ base \in Nat
  BY <1>1, <1>2, UnlockedFacts, BaseTyped, CapsAssumption DEF Entry, Age
<1>4. /\ scaled \in Nat /\ scaled >= base
      /\ (\A s \in latest_rate_limit : is_exhausted(s)) /\ latest_rate_limit # {}
         /\ base # U64Max => scaled >= cold_late_secs
  BY <1>1, <1>3, ScalingOnlyLengthens
<1>5. base = effective_refresh_interval_secs(e)
  BY <1>1, UnlockedInterval
<1> HIDE DEF base, scaled, u
<1>6. e.fetched_ago >= base
  BY <1>2, <1>3, <1>4
<1>7. ASSUME NEW s \in latest_rate_limit, is_exhausted(s)
      PROVE  e.fetched_ago >= cold_late_secs
  <2>1. \A t \in latest_rate_limit : is_exhausted(t)
    BY <1>7 DEF OptionsInv
  <2>2. CASE base = U64Max
    BY <2>2, <1>3, <1>6, LongestInterval
  <2>3. CASE base # U64Max
    BY <2>1, <2>3, <1>2, <1>3, <1>4, <1>7, LongestInterval
  <2> QED
    BY <2>2, <2>3
<1>8. ASSUME NEW t \in e.refresh_started_ago PROVE t >= refresh_lock_timeout_secs
  <2>1. e.fetch_state # "Ready" /\ e.fetch_state # "PendingRetry"
    BY <1>1 DEF Held, Coherent, is_refreshing, has_fetched
  <2>2. is_refreshing(e)
    BY <1>1, <2>1 DEF is_refreshing, Entry, FetchState
  <2>3. refresh_lock_expired(e, refresh_lock_timeout_secs)
    BY <1>2, <2>2 DEF u, Unlocked
  <2> QED
    BY <1>1, <2>3 DEF refresh_lock_expired, LockedOnce
<1> QED
  BY <1>5, <1>6, <1>7, <1>8

(***************************************************************************)
(* The scheduler refreshes no entry before its interval has passed, none   *)
(* before cold_late_secs while a resource is used up, and none that is     *)
(* being refreshed before the lock timeout: for every mode, quota, number  *)
(* of entries and cost of a round, saturated or not.                       *)
(***************************************************************************)
THEOREM IntervalsRespected == Spec => PolicyIntervalRespected
<1>1. ASSUME IInv, OptionsInv, NEW r \in RepoId, TickRefreshes(r)
      PROVE  LET e == entries[r]
             IN /\ e.fetched_ago >= effective_refresh_interval_secs(e)
                /\ (\E s \in latest_rate_limit : is_exhausted(s)) =>
                     e.fetched_ago >= cold_late_secs
                /\ \A t \in e.refresh_started_ago : t >= refresh_lock_timeout_secs
  <2> DEFINE kept == {q \in RepoId : Exists(q) /\ ~is_expired(entries[q], entry_max_age_secs)}
             cost == total_refresh_cost(kept)
             due == {q \in kept : Due(entries[q], cost)}
  <2>1. SpawnRefreshEffect(r) \in {SpawnRefreshEffect(q) : q \in due}
    BY <1>1 DEF TickRefreshes, SchedulerTick
  <2>2. kept \in SUBSET Present /\ kept \in SUBSET RepoId /\ \A q \in kept : Exists(q)
    BY DEF Present
  <2>3. \A q \in kept : entries[q] \in Entry
    BY <2>2, <1>1 DEF IInv, CacheTypeOK
  <2>4. \A q \in due : q \in kept /\ Due(entries[q], cost)
    OBVIOUS
  <2>5. IsFiniteSet(kept)
    BY <1>1, <2>2, FS_Subset DEF OptionsInv
  <2> HIDE DEF kept
  <2>6. cost \in Nat
    BY <2>2, <2>3, <2>5, CostTyped
  <2> HIDE DEF cost, due
  <2>7. PICK q \in due : SpawnRefreshEffect(r) = SpawnRefreshEffect(q)
    BY <2>1
  <2>8. q = r
    BY <2>7 DEF SpawnRefreshEffect
  <2> QED
    BY <1>1, <2>2, <2>4, <2>6, <2>7, <2>8, DueHasWaited
<1> DEFINE Waited(r) ==
             LET e == entries[r]
             IN /\ e.fetched_ago >= effective_refresh_interval_secs(e)
                /\ (\E s \in latest_rate_limit : is_exhausted(s)) =>
                     e.fetched_ago >= cold_late_secs
                /\ \A t \in e.refresh_started_ago : t >= refresh_lock_timeout_secs
<1>2. IInv /\ OptionsInv /\ [Next]_vars => [\A r \in RepoId : TickRefreshes(r) => Waited(r)]_vars
  BY <1>1, Zenon
<1> QED
  BY <1>2, OptionsInvariance, PTL DEF Spec, PolicyIntervalRespected

------------------------------------------------------------------------------
(* RefreshCycle implements PromptCache.                                    *)

\* What an entry shows; an absent one shows nothing.
ShownOf(e) == IF e # NoEntry THEN e.output ELSE {}

\* f is e after refreshes of it were started or given up, and nothing else.
Moved(e, f) ==
  /\ e \in Entry /\ f \in Entry
  /\ f.output = e.output
  /\ f.fetch_state \in {e.fetch_state, Promised!Started(e.fetch_state),
                        Promised!GivenUp(e.fetch_state)}

\* Absent is the state of no entry.
LEMMA StateFacts ==
  /\ NoEntry.fetch_state = "Absent"
  /\ \A e \in Entry : e # NoEntry /\ e.fetch_state # "Absent" /\ e.fetch_state \in FetchState
BY DEF NoEntry, Entry, FetchState

\* The judgement of the code is that of the promise.
LEMMA FetchedFacts ==
  ASSUME NEW e
  PROVE  has_fetched(e) <=> Promised!Fetched(e.fetch_state)
BY DEF has_fetched, Promised!Fetched

------------------------------------------------------------------------------
(* A step that answers nobody and moves or drops entries is maintenance.   *)

LEMMA MaintainFacts ==
  ASSUME IInv, IInv', answer' = {},
         \A r \in RepoId : \/ entries'[r] = NoEntry
                           \/ entries[r] # NoEntry /\ Moved(entries[r], entries'[r])
  PROVE  Promised!Maintain
<1> DEFINE state == [r \in RepoId |-> entries[r].fetch_state]
           shown == [r \in RepoId |-> IF entries[r] # NoEntry THEN entries[r].output ELSE {}]
<1>1. ASSUME NEW r \in RepoId
      PROVE  state'[r] \in IF state[r] = "Absent" THEN {"Absent"}
                           ELSE {state[r], Promised!Started(state[r]),
                                 Promised!GivenUp(state[r]), "Absent"}
  <2>1. CASE entries'[r] = NoEntry
    BY <2>1, StateFacts
  <2>2. CASE entries[r] # NoEntry /\ Moved(entries[r], entries'[r])
    BY <2>2, StateFacts DEF Moved
  <2> QED
    BY <2>1, <2>2
<1>2. ASSUME NEW r \in RepoId
      PROVE  shown'[r] = IF state'[r] = "Absent" THEN {} ELSE shown[r]
  <2>1. CASE entries'[r] = NoEntry
    BY <2>1, StateFacts
  <2>2. CASE entries[r] # NoEntry /\ Moved(entries[r], entries'[r])
    BY <2>2, StateFacts DEF Moved
  <2> QED
    BY <2>1, <2>2
<1>3. state' = [r \in RepoId |-> state'[r]]
  OBVIOUS
<1>4. shown' = [r \in RepoId |-> IF state'[r] = "Absent" THEN {} ELSE shown[r]]
  BY <1>2
<1> QED
  BY <1>1, <1>3, <1>4 DEF Promised!Maintain

\* A step that leaves every entry as it is.
LEMMA QuietFacts ==
  ASSUME IInv, IInv', answer' = {}, UNCHANGED entries
  PROVE  Promised!Maintain
<1>1. \A r \in RepoId : \/ entries'[r] = NoEntry
                        \/ entries[r] # NoEntry /\ Moved(entries[r], entries'[r])
  BY DEF Moved, IInv, CacheTypeOK
<1> QED
  BY <1>1, MaintainFacts

------------------------------------------------------------------------------
(* Queries. *)

\* A query moves its entry or brings it into being, and shows what was shown.
LEMMA QueryMoves ==
  ASSUME IInv, NEW r \in RepoId, on_query(r)
  PROVE  \E f \in Entry :
           /\ Put(r, f)
           /\ f.output = ShownOf(entries[r])
           /\ f.fetch_state \in ({entries[r].fetch_state} \ {"Absent"})
                                \cup {Promised!Started(entries[r].fetch_state)}
<1> DEFINE e == entries[r]
<1>1. CASE ~Exists(r)
  <2>1. Put(r, new_loading(stale_ttl_secs))
    BY <1>1 DEF on_query, QueryMiss
  <2>2. Promised!Started(e.fetch_state) = "Loading"
    BY <1>1, StateFacts DEF Promised!Started, Promised!Fetched
  <2>3. /\ new_loading(stale_ttl_secs).output = {}
        /\ new_loading(stale_ttl_secs).fetch_state = "Loading"
    BY DEF new_loading
  <2> QED
    BY <1>1, <2>1, <2>2, <2>3, NewLoading DEF ShownOf
<1>2. CASE Exists(r)
  <2>1. e \in Entry /\ Held(e) /\ ShownOf(e) = e.output
    BY <1>2 DEF IInv, CacheTypeOK, EntriesHeld, ShownOf
  <2>2. /\ with_record_query(e).output = e.output
        /\ with_record_query(e).fetch_state = e.fetch_state
        /\ Requeried(e).output = e.output
        /\ Requeried(e).fetch_state = e.fetch_state
    BY <2>1 DEF Requeried, with_record_query, with_reset_cold_count, Entry
  <2>3. CASE QueryFresh(r)
    BY <2>1, <2>2, <2>3, RequeriedFacts, StateFacts DEF QueryFresh
  <2>4. CASE QueryRefreshing(r)
    BY <2>1, <2>2, <2>4, RequeriedFacts, StateFacts DEF QueryRefreshing
  <2>5. CASE QueryStale(r)
    <3> DEFINE q == Requeried(e)
               w == IF q.refresh_mode = "Terminal" THEN with_reset_to_warm(q) ELSE q
               f == with_mark_refreshing(w)
    <3>1. ~is_refreshing(e) /\ Put(r, f)
      BY <2>5 DEF QueryStale
    <3>2. f \in Entry
      BY <2>1, <3>1, RestartedFacts
    <3>3. q \in Entry
      BY <2>1, RequeriedFacts
    <3>4. w \in Entry /\ w.output = e.output /\ w.fetch_state = e.fetch_state
      BY <2>2, <3>3, BuildersTyped DEF with_reset_to_warm, Entry
    <3>5. f.output = e.output /\ f.fetch_state = Promised!Started(e.fetch_state)
      <4> HIDE DEF w
      <4> QED
        BY <3>4 DEF with_mark_refreshing, has_fetched, Promised!Started, Promised!Fetched, Entry
    <3> HIDE DEF f
    <3> QED
      BY <2>1, <3>1, <3>2, <3>5
  <2> QED
    BY <1>2, <2>3, <2>4, <2>5 DEF on_query
<1> QED
  BY <1>1, <1>2

\* A query of a branch is Ask.
LEMMA OnQueryAsks ==
  ASSUME IInv, NEW r \in RepoId, on_query(r)
  PROVE  Promised!Ask(r)
<1> DEFINE state == [k \in RepoId |-> entries[k].fetch_state]
           shown == [k \in RepoId |-> IF entries[k] # NoEntry THEN entries[k].output ELSE {}]
<1>1. PICK f \in Entry : /\ Put(r, f)
                         /\ f.output = ShownOf(entries[r])
                         /\ f.fetch_state \in ({state[r]} \ {"Absent"})
                                              \cup {Promised!Started(state[r])}
  BY QueryMoves
<1>2. entries' = [entries EXCEPT ![r] = f] /\ DOMAIN entries = RepoId
  BY <1>1 DEF Put, IInv, CacheTypeOK
<1>3. state' = [state EXCEPT ![r] = f.fetch_state]
  BY <1>2
<1>4. shown' = shown
  BY <1>1, <1>2, StateFacts DEF ShownOf
<1>5. answer' = IF Promised!Fetched(state[r]) THEN Promised!Stored(shown[r])
                ELSE Promised!Loading
  <2>1. answer' = IF has_fetched(entries[r]) THEN Stored(entries[r].output) ELSE Loading
    BY AnswerFacts
  <2>2. has_fetched(entries[r]) => entries[r] # NoEntry
    BY StateFacts DEF has_fetched
  <2> QED
    BY <2>1, <2>2, FetchedFacts DEF Promised!Stored, Promised!Loading, Stored, Loading
<1> QED
  BY <1>1, <1>3, <1>4, <1>5 DEF Promised!Ask

\* A query from anywhere.
LEMMA QueryKeepsPromise ==
  ASSUME IInv, NEW c \in Cwd, Query(c)
  PROVE  Promised!Next
<1>1. CASE \E b \in Branch : head[c] = b /\ on_query(<<c, b>>)
  <2>1. PICK b \in Branch : on_query(<<c, b>>)
    BY <1>1
  <2>2. <<c, b>> \in RepoId
    BY DEF RepoId
  <2> QED
    BY <2>1, <2>2, OnQueryAsks DEF Promised!Next
<1>2. CASE answer' = Stored({}) /\ UNCHANGED <<entries, jobs>>
  <2>1. Promised!AskOutside
    BY <1>2 DEF Promised!AskOutside, Promised!Stored, Stored
  <2> QED
    BY <2>1 DEF Promised!Next
<1> QED
  BY <1>1, <1>2 DEF Query

------------------------------------------------------------------------------
(* Ticks, results, time. *)

\* What a tick does to an entry that is kept.
LEMMA TickMoves ==
  ASSUME NEW e \in Entry, Held(e)
  PROVE  /\ Moved(e, Waiting(e))
         /\ is_active(e) /\ ~is_refreshing(Unlocked(e)) => Moved(e, Refreshed(e))
<1>1. /\ Unlocked(e) \in Entry /\ Unlocked(e).output = e.output
      /\ Unlocked(e).fetch_state \in {e.fetch_state, Promised!GivenUp(e.fetch_state)}
  BY BuildersTyped
  DEF Unlocked, with_clear_refresh_lock, has_fetched, Promised!GivenUp, Promised!Fetched, Entry
<1>2. Moved(e, Waiting(e))
  BY <1>1 DEF Waiting, Moved
<1>3. ASSUME is_active(e), ~is_refreshing(Unlocked(e))
      PROVE  Moved(e, Refreshed(e))
  <2> DEFINE u == Unlocked(e)
             c == IF e.refresh_mode = "Warm" /\ is_cold(e, warm_to_cold_secs)
                  THEN with_increment_cold_count(u) ELSE u
  <2>1. u \in Entry /\ u.output = e.output /\ u.fetch_state = "Ready"
    BY <1>1, <1>3, UnlockedFacts
  <2>2. e.fetch_state \in {"Ready", "Refreshing"}
    BY <1>3 DEF Held, Coherent, is_refreshing, has_fetched, is_active, Entry, FetchState
  <2> HIDE DEF u
  <2>3. c \in Entry /\ c.output = e.output /\ c.fetch_state = "Ready"
    BY <2>1, BuildersTyped DEF with_increment_cold_count, Entry
  <2> HIDE DEF c
  <2>4. /\ with_mark_refreshing(c) \in Entry
        /\ with_mark_refreshing(c).output = e.output
        /\ with_mark_refreshing(c).fetch_state = "Refreshing"
    BY <2>3, BuildersTyped DEF with_mark_refreshing, has_fetched, Entry
  <2>5. Refreshed(e) = with_mark_refreshing(c)
    BY DEF Refreshed, c, u
  <2> QED
    BY <2>2, <2>4, <2>5 DEF Moved, Promised!Started, Promised!Fetched
<1> QED
  BY <1>2, <1>3

LEMMA TickMaintains ==
  ASSUME IInv, SchedulerTick
  PROVE  Promised!Maintain
<1> DEFINE kept == {r \in RepoId : Exists(r) /\ ~is_expired(entries[r], entry_max_age_secs)}
           due == {r \in kept : Due(entries[r], total_refresh_cost(kept))}
<1>1. /\ entries' = [r \in RepoId |->
                      CASE r \in due -> Refreshed(entries[r])
                        [] r \in kept \ due -> Waiting(entries[r])
                        [] OTHER -> NoEntry]
      /\ answer' = {}
  BY DEF SchedulerTick, NoAnswer
<1>2. \A r \in kept : entries[r] # NoEntry /\ entries[r] \in Entry /\ Held(entries[r])
  BY DEF IInv, CacheTypeOK, EntriesHeld
<1>3. \A r \in due : /\ r \in kept
                     /\ is_active(entries[r]) /\ ~is_refreshing(Unlocked(entries[r]))
  BY DEF Due
<1> HIDE DEF kept, due
<1>4. ASSUME NEW r \in RepoId
      PROVE  \/ entries'[r] = NoEntry
             \/ entries[r] # NoEntry /\ Moved(entries[r], entries'[r])
  <2>1. CASE r \in due
    BY <2>1, <1>1, <1>2, <1>3, TickMoves
  <2>2. CASE r \in kept \ due
    BY <2>2, <1>1, <1>2, TickMoves
  <2>3. CASE r \notin kept /\ r \notin due
    BY <2>3, <1>1
  <2> QED
    BY <2>1, <2>2, <2>3
<1> QED
  BY <1>1, <1>4, TickIInv, MaintainFacts

\* A result for an entry is Complete; for none it changes nothing.
LEMMA UpdateCompletes ==
  ASSUME IInv, NEW j \in jobs, Update(j)
  PROVE  Promised!Next
<1> DEFINE r == j.target
           state == [k \in RepoId |-> entries[k].fetch_state]
           shown == [k \in RepoId |-> IF entries[k] # NoEntry THEN entries[k].output ELSE {}]
<1>1. PICK x \in j.rendered : entries' = on_refresh_completed(r, x)
  BY DEF Update
<1>2. r \in RepoId /\ x \in Rendered /\ answer' = {} /\ DOMAIN entries = RepoId
  BY DEF IInv, CacheTypeOK, Job, Update, NoAnswer
<1>3. CASE ~Exists(r)
  BY <1>1, <1>2, <1>3, UpdateIInv, QuietFacts DEF on_refresh_completed, Promised!Next
<1>4. CASE Exists(r)
  <2> DEFINE f == with_refresh_completed(entries[r], x)
  <2>1. entries[r] \in Entry
    BY <1>2, <1>4 DEF IInv, CacheTypeOK
  <2>2. f \in Entry /\ f.fetch_state = "Ready" /\ f.output = x.output /\ x.output \in Output
    BY <1>2, <2>1, BuildersTyped DEF with_refresh_completed, Entry, Rendered
  <2>3. entries' = [entries EXCEPT ![r] = f]
    BY <1>1, <1>4 DEF on_refresh_completed
  <2> HIDE DEF f
  <2>4. state[r] # "Absent" /\ state' = [state EXCEPT ![r] = "Ready"]
    BY <1>2, <2>1, <2>2, <2>3, StateFacts
  <2>5. shown' = [shown EXCEPT ![r] = f.output] /\ shown'[r] \in Output
    BY <1>2, <2>2, <2>3, StateFacts
  <2>6. shown' = [shown EXCEPT ![r] = shown'[r]]
    BY <1>2, <2>5
  <2>7. Promised!Complete(r)
    BY <1>2, <2>4, <2>5, <2>6 DEF Promised!Complete
  <2> QED
    BY <1>2, <2>7 DEF Promised!Next
<1> QED
  BY <1>3, <1>4

\* A second that passes moves no entry.
LEMMA AdvanceMaintains ==
  ASSUME IInv, Advance
  PROVE  Promised!Maintain
<1>1. \A e \in Entry : Moved(e, Later(e))
  BY BuildersTyped DEF Moved, Later, Entry
<1>2. \A r \in RepoId : \/ entries'[r] = NoEntry
                        \/ entries[r] # NoEntry /\ Moved(entries[r], entries'[r])
  BY <1>1 DEF Advance, IInv, CacheTypeOK
<1> QED
  BY <1>2, AdvanceIInv, MaintainFacts DEF Advance, NoAnswer

------------------------------------------------------------------------------
(* The refinement. *)

LEMMA InitKeepsPromise == Init => Promised!Init
BY StateFacts DEF Init, Promised!Init, NoAnswer

LEMMA NextKeepsPromise == IInv /\ IInv' /\ [Next]_vars => [Promised!Next]_(Promised!vars)
<1> SUFFICES ASSUME IInv, IInv', [Next]_vars PROVE Promised!Next \/ UNCHANGED Promised!vars
  OBVIOUS
<1>1. ASSUME NEW c \in Cwd, Query(c) PROVE Promised!Next
  BY <1>1, QueryKeepsPromise
<1>2. CASE SchedulerTick
  BY <1>2, TickMaintains DEF Promised!Next
<1>3. ASSUME NEW j \in jobs, Update(j) PROVE Promised!Next
  BY <1>3, UpdateCompletes
<1>4. CASE Advance
  BY <1>4, AdvanceMaintains DEF Promised!Next
<1>5. ASSUME UNCHANGED entries, answer' = {} PROVE Promised!Next
  BY <1>5, QuietFacts DEF Promised!Next
<1>6. ASSUME NEW j \in jobs, SpawnRefresh(j) \/ ReadBranch(j) \/ Fetch(j) \/ LoseUpdate(j)
      PROVE  Promised!Next
  BY <1>5, <1>6 DEF SpawnRefresh, ReadBranch, Fetch, LoseUpdate, NoAnswer
<1>7. ASSUME NEW s \in Observable, RateLimitObserved(s) PROVE Promised!Next
  BY <1>5, <1>7 DEF RateLimitObserved, NoAnswer
<1>8. ASSUME NEW r \in RepoId, RemoteChange(r) PROVE Promised!Next
  BY <1>5, <1>8 DEF RemoteChange, NoAnswer
<1>9. ASSUME NEW c \in Cwd, SwitchBranch(c) PROVE Promised!Next
  BY <1>5, <1>9 DEF SwitchBranch, NoAnswer
<1>10. CASE UNCHANGED vars
  BY <1>10 DEF vars, Promised!vars
<1> QED
  BY <1>1, <1>2, <1>3, <1>4, <1>6, <1>7, <1>8, <1>9, <1>10 DEF Next, ReliableNext, JobStep

(***************************************************************************)
(* The cache keeps its promise: every run of RefreshCycle, seen through    *)
(* the state and the output of its entries, is a run of PromptCache.       *)
(***************************************************************************)
THEOREM PromiseKept == Spec => KeepsPromise
<1>1. Init => Promised!Init
  BY InitKeepsPromise
<1>2. IInv /\ IInv' /\ [Next]_vars => [Promised!Next]_(Promised!vars)
  BY NextKeepsPromise
<1> QED
  BY <1>1, <1>2, Invariance, PTL DEF Spec, KeepsPromise, Promised!Spec

------------------------------------------------------------------------------
(* What holds when no result is lost and HEAD stays where it is            *)
(* (ReliableSpec): the lock of an entry belongs to a refresh that is on its *)
(* way; if moreover refreshes are shorter than the lock timeout and entries *)
(* are not dropped, there is one refresh of an entry at a time, and results *)
(* arrive in order.                                                        *)

------------------------------------------------------------------------------
(* Steps of ReliableNext, by what they do to entries and refreshes. *)

\* The lock of e is free, or so old that the scheduler takes it back.
Free(e) == is_refreshing(e) => refresh_lock_expired(e, refresh_lock_timeout_secs)

\* In this step a refresh of r is asked for.
Starts(r) ==
  /\ Exists(r)' /\ is_refreshing(entries'[r]) /\ entries'[r].refresh_started_ago = {0}
  /\ entries'[r].output = IF Exists(r) THEN entries[r].output ELSE {}
  /\ IF Exists(r) THEN Free(entries[r]) ELSE head[r[1]] = r[2]

\* In this step r keeps its output and its lock, loses a lock that is too old,
\* or is dropped after its maximal age.
Stays(r) ==
  IF Exists(r)'
  THEN /\ Exists(r)
       /\ entries'[r].output = entries[r].output
       /\ entries'[r].refresh_started_ago = entries[r].refresh_started_ago
            \/ ~is_refreshing(entries'[r])
       /\ is_refreshing(entries'[r]) => is_refreshing(entries[r])
       /\ ~Free(entries[r]) => is_refreshing(entries'[r])
  ELSE Exists(r) => is_expired(entries[r], entry_max_age_secs)

\* A query or a tick: the refreshes of the entries in D are asked for.
Asks(D) ==
  /\ jobs' = jobs \cup {SpawnRefreshEffect(r) : r \in D}
  /\ \A r \in D : Starts(r)
  /\ \A r \in RepoId \ D : Stays(r)

\* An entry that is not touched stays.
LEMMA SameStays ==
  ASSUME NEW r \in RepoId, entries'[r] = entries[r]
  PROVE  Stays(r)
BY DEF Stays, Free

\* A query asks for at most one refresh, of an entry whose lock is free.
LEMMA QueryAsks ==
  ASSUME IInv, NEW c \in Cwd, Query(c)
  PROVE  /\ \E D \in SUBSET RepoId : Asks(D)
         /\ UNCHANGED <<head, remote>>
<1>1. CASE head[c] = NoRepo /\ UNCHANGED <<entries, jobs>>
  <2>1. Asks({})
    BY <1>1, SameStays DEF Asks
  <2> QED
    BY <2>1 DEF Query
<1>2. ASSUME NEW b \in Branch, head[c] = b, on_query(<<c, b>>)
      PROVE  \E D \in SUBSET RepoId : Asks(D)
  <2> DEFINE r == <<c, b>>
             e == entries[r]
  <2>1. r \in RepoId /\ head[r[1]] = r[2]
    BY <1>2 DEF RepoId
  <2> HIDE DEF r
  <2>2. ASSUME NEW f \in Entry, Put(r, f)
        PROVE  /\ entries'[r] = f /\ Exists(r)'
               /\ \A q \in RepoId \ {r} : entries'[q] = entries[q]
    BY <2>1, <2>2, EntryIsPresent DEF Put, IInv, CacheTypeOK
  <2>3. ASSUME NEW f \in Entry, Put(r, f), Exists(r), jobs' = jobs, f.output = e.output,
               f.fetch_state = e.fetch_state,
               f.refresh_started_ago = e.refresh_started_ago
        PROVE  Asks({})
    <3>1. Stays(r)
      BY <2>2, <2>3 DEF Stays, Free, is_refreshing
    <3>2. \A q \in RepoId \ {r} : Stays(q)
      BY <2>2, <2>3, SameStays
    <3> QED
      BY <2>3, <3>1, <3>2 DEF Asks
  <2>4. ASSUME NEW f \in Entry, Put(r, f), jobs' = jobs \cup {SpawnRefreshEffect(r)},
               is_refreshing(f), f.refresh_started_ago = {0},
               f.output = IF Exists(r) THEN e.output ELSE {},
               Exists(r) => ~is_refreshing(e)
        PROVE  Asks({r})
    <3>1. Starts(r)
      BY <2>1, <2>2, <2>4 DEF Starts, Free
    <3>2. \A q \in RepoId \ {r} : Stays(q)
      BY <2>2, <2>4, SameStays
    <3> QED
      BY <2>4, <3>1, <3>2 DEF Asks
  <2>5. CASE Exists(r) /\ QueryFresh(r)
    <3>1. e \in Entry
      BY <2>1, <2>5 DEF IInv, CacheTypeOK
    <3>2. with_record_query(e) \in Entry
      BY <3>1, BuildersTyped
    <3> QED
      BY <2>3, <2>5, <3>1, <3>2 DEF QueryFresh, with_record_query, Entry
  <2>6. CASE Exists(r) /\ QueryRefreshing(r)
    <3>1. e \in Entry /\ Held(e)
      BY <2>1, <2>6 DEF IInv, CacheTypeOK, EntriesHeld
    <3>2. Requeried(e) \in Entry
      BY <3>1, RequeriedFacts
    <3>3. /\ Requeried(e).output = e.output
          /\ Requeried(e).fetch_state = e.fetch_state
          /\ Requeried(e).refresh_started_ago = e.refresh_started_ago
      BY <3>1 DEF Requeried, with_record_query, with_reset_cold_count, Entry
    <3> QED
      BY <2>3, <2>6, <3>2, <3>3 DEF QueryRefreshing
  <2>7. CASE Exists(r) /\ QueryStale(r)
    <3> DEFINE q == Requeried(e)
               w == IF q.refresh_mode = "Terminal" THEN with_reset_to_warm(q) ELSE q
               m == with_mark_refreshing(w)
    <3>1. e \in Entry /\ Held(e) /\ ~is_refreshing(e)
      BY <2>1, <2>7 DEF IInv, CacheTypeOK, EntriesHeld, QueryStale
    <3>2. m \in Entry
      BY <3>1, RestartedFacts
    <3>3. q \in Entry /\ q.output = e.output
      BY <3>1, RequeriedFacts DEF Requeried, with_record_query, with_reset_cold_count, Entry
    <3>4. Put(r, m) /\ jobs' = jobs \cup {SpawnRefreshEffect(r)}
      BY <2>7 DEF QueryStale
    <3> HIDE DEF q
    <3>5. w \in Entry /\ w.output = e.output
      BY <3>3, BuildersTyped DEF with_reset_to_warm, Entry
    <3> HIDE DEF w
    <3>6. is_refreshing(m) /\ m.refresh_started_ago = {0} /\ m.output = e.output
      BY <3>5 DEF with_mark_refreshing, is_refreshing, Entry
    <3> HIDE DEF m
    <3> QED
      BY <2>1, <2>4, <2>7, <3>1, <3>2, <3>4, <3>6
  <2>8. CASE ~Exists(r) /\ QueryMiss(r)
    <3>1. /\ is_refreshing(new_loading(stale_ttl_secs))
          /\ new_loading(stale_ttl_secs).refresh_started_ago = {0}
          /\ new_loading(stale_ttl_secs).output = {}
      BY DEF new_loading, is_refreshing
    <3> QED
      BY <2>1, <2>4, <2>8, <3>1, NewLoading DEF QueryMiss
  <2> QED
    BY <1>2, <2>1, <2>5, <2>6, <2>7, <2>8 DEF on_query, r
<1> QED
  BY <1>1, <1>2 DEF Query

\* Taking the lock back, or not, is seen in the lock alone.
LEMMA UnlockedShape ==
  ASSUME NEW e \in Entry
  PROVE  /\ Unlocked(e).output = e.output
         /\ is_refreshing(Unlocked(e)) <=> ~Free(e)
         /\ Unlocked(e) = e \/ ~is_refreshing(Unlocked(e))
<1>1. CASE Unlocked(e) = e
  <2>1. is_refreshing(e) => ~refresh_lock_expired(e, refresh_lock_timeout_secs)
    <3>1. ASSUME is_refreshing(e), refresh_lock_expired(e, refresh_lock_timeout_secs)
          PROVE  FALSE
      <4>1. with_clear_refresh_lock(e) = e
        BY <1>1, <3>1 DEF Unlocked
      <4>2. with_clear_refresh_lock(e).refresh_started_ago = {}
        BY DEF with_clear_refresh_lock, Entry
      <4> QED
        BY <3>1, <4>1, <4>2 DEF refresh_lock_expired
    <3> QED
      BY <3>1
  <2> QED
    BY <1>1, <2>1 DEF Free
<1>2. CASE Unlocked(e) # e
  <2>1. /\ is_refreshing(e) /\ refresh_lock_expired(e, refresh_lock_timeout_secs)
        /\ Unlocked(e) = with_clear_refresh_lock(e)
    BY <1>2 DEF Unlocked
  <2>2. /\ with_clear_refresh_lock(e).output = e.output
        /\ ~is_refreshing(with_clear_refresh_lock(e))
    BY DEF with_clear_refresh_lock, is_refreshing, Entry
  <2> QED
    BY <2>1, <2>2 DEF Free
<1> QED
  BY <1>1, <1>2

\* A tick asks for refreshes of entries whose lock is free or too old.
LEMMA TickAsks ==
  ASSUME IInv, SchedulerTick
  PROVE  /\ \E D \in SUBSET RepoId : Asks(D)
         /\ UNCHANGED <<head, remote>>
<1> DEFINE kept == {r \in RepoId : Exists(r) /\ ~is_expired(entries[r], entry_max_age_secs)}
           due == {r \in kept : Due(entries[r], total_refresh_cost(kept))}
<1>1. /\ entries' = [r \in RepoId |->
                      CASE r \in due -> Refreshed(entries[r])
                        [] r \in kept \ due -> Waiting(entries[r])
                        [] OTHER -> NoEntry]
      /\ jobs' = jobs \cup {SpawnRefreshEffect(r) : r \in due}
      /\ UNCHANGED <<head, remote>>
  BY DEF SchedulerTick
<1>2. \A r \in kept : Exists(r) /\ entries[r] \in Entry /\ Held(entries[r])
  BY DEF IInv, CacheTypeOK, EntriesHeld
<1>3. \A r \in RepoId \ kept : Exists(r) => is_expired(entries[r], entry_max_age_secs)
  OBVIOUS
<1>4. /\ kept \in SUBSET RepoId
      /\ \A r \in due : /\ r \in kept
                        /\ is_active(entries[r]) /\ ~is_refreshing(Unlocked(entries[r]))
  BY DEF Due
<1> HIDE DEF kept, due
<1>5. ASSUME NEW r \in due PROVE Starts(r)
  <2> DEFINE e == entries[r]
             u == Unlocked(e)
             c == IF e.refresh_mode = "Warm" /\ is_cold(e, warm_to_cold_secs)
                  THEN with_increment_cold_count(u) ELSE u
  <2>1. e \in Entry /\ Held(e) /\ Exists(r) /\ is_active(e) /\ Free(e)
    BY <1>2, <1>4, UnlockedShape
  <2>2. u \in Entry /\ u.output = e.output
    BY <2>1, UnlockedFacts, UnlockedShape
  <2>3. entries'[r] = with_mark_refreshing(c)
    BY <1>1, <1>4 DEF Refreshed
  <2>4. with_mark_refreshing(c) \in Entry
    BY <1>4, <2>1, TickFacts DEF Refreshed
  <2> HIDE DEF u
  <2>5. c \in Entry /\ c.output = e.output
    BY <2>2, BuildersTyped DEF with_increment_cold_count, Entry
  <2> HIDE DEF c
  <2>6. /\ is_refreshing(with_mark_refreshing(c))
        /\ with_mark_refreshing(c).refresh_started_ago = {0}
        /\ with_mark_refreshing(c).output = e.output
    BY <2>5 DEF with_mark_refreshing, is_refreshing, Entry
  <2> QED
    BY <2>1, <2>3, <2>4, <2>6, EntryIsPresent DEF Starts
<1>6. ASSUME NEW r \in RepoId \ due PROVE Stays(r)
  <2>1. CASE r \in kept
    <3>1. entries'[r] = Waiting(entries[r])
      BY <1>1, <2>1
    <3>2. entries[r] \in Entry /\ Exists(r) /\ Held(entries[r])
      BY <1>2, <2>1
    <3>3. CASE ~is_active(entries[r])
      BY <3>1, <3>3, SameStays DEF Waiting
    <3>4. CASE is_active(entries[r])
      <4>1. entries'[r] = Unlocked(entries[r]) /\ Unlocked(entries[r]) \in Entry
        BY <3>1, <3>2, <3>4, UnlockedFacts DEF Waiting
      <4> QED
        BY <3>2, <4>1, UnlockedShape, EntryIsPresent DEF Stays, Free
    <3> QED
      BY <3>3, <3>4
  <2>2. CASE r \notin kept
    <3>1. entries'[r] = NoEntry
      BY <1>1, <1>4, <2>2
    <3> QED
      BY <1>3, <2>2, <3>1 DEF Stays
  <2> QED
    BY <2>1, <2>2
<1>7. due \in SUBSET RepoId /\ Asks(due)
  BY <1>1, <1>4, <1>5, <1>6 DEF Asks
<1>8. \E D \in SUBSET RepoId : Asks(D)
  BY <1>7 DEF Asks
<1> QED
  BY <1>1, <1>8

(***************************************************************************)
(* HEAD is a branch; entries and refreshes are those of the branch that is *)
(* checked out, and so a refresh updates the entry it was started for.     *)
(***************************************************************************)
OwnJob(j) ==
  /\ head[j.origin[1]] = j.origin[2]
  /\ j.target = j.origin
  /\ <<j.origin[1], j.branch>> = j.origin

OwnHead ==
  /\ head \in [Cwd -> Branch]
  /\ \A r \in RepoId : Exists(r) => head[r[1]] = r[2]
  /\ \A j \in jobs : OwnJob(j)

\* A refresh moves on: j becomes k, with the same entry and the same age.
Moves(j, k) ==
  /\ jobs' = (jobs \ {j}) \cup {k}
  /\ k.origin = j.origin /\ k.age = j.age
  /\ UNCHANGED <<entries, head, remote>>

\* What k has rendered: what j had, or nothing, or the present state of GitHub.
Renders(j, k) ==
  \/ k.rendered = j.rendered
  \/ k.rendered = {Render(j.origin, remote[j.origin])}

\* Where HEAD stays, the steps of a refresh find its own branch.
LEMMA JobMoves ==
  ASSUME IInv, OwnHead, NEW j \in jobs, SpawnRefresh(j) \/ ReadBranch(j) \/ Fetch(j)
  PROVE  \E k \in Job : Moves(j, k) /\ Renders(j, k) /\ (OwnJob(j) => OwnJob(k))
<1> DEFINE cwd == j.origin[1]
<1>1. j \in Job /\ j.origin \in RepoId /\ cwd \in Cwd /\ OwnJob(j)
  BY DEF IInv, CacheTypeOK, Job, RepoId, OwnHead
<1>2. j.origin = <<cwd, j.origin[2]>> /\ head[cwd] = j.origin[2] /\ j.origin[2] \in Branch
  BY <1>1 DEF RepoId, OwnJob
<1>3. head[cwd] # NoRepo
  BY <1>2, CycleAssumption
<1>4. CASE SpawnRefresh(j)
  <2> DEFINE k == [j EXCEPT !.stage = "running",
                     !.target = IF head[cwd] = NoRepo THEN j.origin ELSE <<cwd, head[cwd]>>]
  <2>1. /\ k \in Job /\ k.origin = j.origin /\ k.age = j.age /\ k.rendered = j.rendered
        /\ k.branch = j.branch /\ k.target = j.origin
    BY <1>1, <1>2, <1>3 DEF Job
  <2>2. jobs' = (jobs \ {j}) \cup {k} /\ UNCHANGED <<entries, head, remote>>
    BY <1>4 DEF SpawnRefresh, Becomes
  <2> HIDE DEF k
  <2> QED
    BY <1>1, <2>1, <2>2 DEF Moves, Renders, OwnJob
<1>5. CASE ReadBranch(j)
  <2> DEFINE k == [j EXCEPT !.stage = "querying", !.branch = head[cwd]]
  <2>1. /\ k \in Job /\ k.origin = j.origin /\ k.age = j.age /\ k.rendered = j.rendered
        /\ k.branch = j.origin[2] /\ k.target = j.target
    BY <1>1, <1>2 DEF Job
  <2>2. jobs' = (jobs \ {j}) \cup {k} /\ UNCHANGED <<entries, head, remote>>
    BY <1>3, <1>5 DEF ReadBranch, Becomes
  <2> HIDE DEF k
  <2> QED
    BY <1>1, <1>2, <2>1, <2>2 DEF Moves, Renders, OwnJob
<1>6. CASE Fetch(j)
  <2> DEFINE x == Render(j.origin, remote[j.origin])
             k == [j EXCEPT !.stage = "fetched", !.rendered = {x}]
  <2>1. x \in Rendered
    BY <1>1, RenderFacts DEF IInv, CacheTypeOK
  <2>2. <<cwd, j.branch>> = j.origin
    BY <1>1 DEF OwnJob
  <2>3. jobs' = (jobs \ {j}) \cup {k} /\ UNCHANGED <<entries, head, remote>>
    BY <1>6, <2>2 DEF Fetch, Becomes
  <2> HIDE DEF x
  <2>4. /\ k \in Job /\ k.origin = j.origin /\ k.age = j.age /\ k.rendered = {x}
        /\ k.branch = j.branch /\ k.target = j.target
    BY <1>1, <2>1 DEF Job
  <2> HIDE DEF k
  <2> QED
    BY <1>1, <2>3, <2>4 DEF Moves, Renders, OwnJob, x
<1> QED
  BY <1>4, <1>5, <1>6

\* A second later every entry is there still, with its lock a second older.
LEMMA AdvanceShape ==
  ASSUME IInv, Advance, NEW r \in RepoId
  PROVE  /\ Exists(r)' <=> Exists(r)
         /\ Exists(r) =>
              /\ entries'[r].output = entries[r].output
              /\ is_refreshing(entries'[r]) <=> is_refreshing(entries[r])
              /\ entries'[r].refresh_started_ago =
                   {SecondLater(t) : t \in entries[r].refresh_started_ago}
<1>1. CASE Exists(r)
  <2>1. entries[r] \in Entry /\ entries'[r] = Later(entries[r])
    BY <1>1 DEF IInv, CacheTypeOK, Advance
  <2>2. Later(entries[r]) \in Entry
    BY <2>1, BuildersTyped
  <2>3. /\ Later(entries[r]).output = entries[r].output
        /\ Later(entries[r]).fetch_state = entries[r].fetch_state
        /\ Later(entries[r]).refresh_started_ago =
             {SecondLater(t) : t \in entries[r].refresh_started_ago}
    BY <2>1 DEF Later, Entry
  <2> QED
    BY <1>1, <2>1, <2>2, <2>3, EntryIsPresent DEF is_refreshing
<1>2. CASE ~Exists(r)
  BY <1>2 DEF Advance
<1> QED
  BY <1>1, <1>2

\* The refreshes in flight a second later.
LEMMA AdvanceJobs ==
  ASSUME IInv, Advance
  PROVE  /\ \A j \in jobs : \E k \in jobs' : /\ k.origin = j.origin
                                             /\ {k.age} = {SecondLater(t) : t \in {j.age}}
         /\ \A k \in jobs' : \E j \in jobs :
              /\ k = [j EXCEPT !.age = @ + 1]
              /\ k.origin = j.origin /\ k.target = j.target /\ k.branch = j.branch
              /\ k.rendered = j.rendered
              /\ {k.age} = {SecondLater(t) : t \in {j.age}}
         /\ UNCHANGED <<head, remote>>
<1>1. ASSUME NEW j \in jobs
      PROVE  LET k == [j EXCEPT !.age = @ + 1]
             IN /\ k.origin = j.origin /\ k.target = j.target /\ k.branch = j.branch
                /\ k.rendered = j.rendered
                /\ {k.age} = {SecondLater(t) : t \in {j.age}}
  <2>1. j \in Job /\ j.age \in Nat /\ j.age < AgeCap
    BY <1>1, CycleAssumption, CapsAssumption DEF IInv, CacheTypeOK, Job, Advance
  <2>2. SecondLater(j.age) = j.age + 1
    BY <2>1 DEF SecondLater
  <2> QED
    BY <2>1, <2>2 DEF Job
<1>2. jobs' = {[j EXCEPT !.age = @ + 1] : j \in jobs} /\ UNCHANGED <<head, remote>>
  BY DEF Advance
<1>3. ASSUME NEW j \in jobs
      PROVE  \E k \in jobs' : /\ k.origin = j.origin
                              /\ {k.age} = {SecondLater(t) : t \in {j.age}}
  BY <1>1, <1>2
<1>4. ASSUME NEW k \in jobs'
      PROVE  \E j \in jobs :
               /\ k = [j EXCEPT !.age = @ + 1]
               /\ k.origin = j.origin /\ k.target = j.target /\ k.branch = j.branch
               /\ k.rendered = j.rendered
               /\ {k.age} = {SecondLater(t) : t \in {j.age}}
  <2>1. PICK j \in jobs : k = [j EXCEPT !.age = @ + 1]
    BY <1>2, <1>4
  <2> QED
    BY <1>1, <2>1
<1> QED
  BY <1>2, <1>3, <1>4

\* A result arrives for the entry it was asked for, if that is still there.
LEMMA UpdateShape ==
  ASSUME IInv, OwnHead, NEW j \in jobs, Update(j)
  PROVE  /\ jobs' = jobs \ {j} /\ UNCHANGED <<head, remote>>
         /\ j.origin \in RepoId
         /\ \A r \in RepoId : Exists(r)' <=> Exists(r)
         /\ \A r \in RepoId \ {j.origin} : entries'[r] = entries[r]
         /\ Exists(j.origin) =>
              /\ ~is_refreshing(entries'[j.origin])
              /\ \E x \in j.rendered : entries'[j.origin].output = x.output
<1>1. PICK x \in j.rendered : entries' = on_refresh_completed(j.origin, x)
  BY DEF Update, OwnHead, OwnJob
<1>2. j.origin \in RepoId /\ x \in Rendered
  BY <1>1 DEF IInv, CacheTypeOK, Job
<1>3. CASE Exists(j.origin)
  <2> DEFINE e == entries[j.origin]
             f == with_refresh_completed(e, x)
  <2>1. e \in Entry /\ entries' = [entries EXCEPT ![j.origin] = f]
    BY <1>1, <1>2, <1>3 DEF IInv, CacheTypeOK, on_refresh_completed
  <2>2. f \in Entry
    BY <1>2, <2>1, BuildersTyped
  <2>3. f.output = x.output /\ ~is_refreshing(f)
    BY <2>1 DEF with_refresh_completed, is_refreshing, Entry
  <2> HIDE DEF f
  <2>4. /\ entries'[j.origin] = f
        /\ \A r \in RepoId \ {j.origin} : entries'[r] = entries[r]
    BY <1>2, <2>1 DEF IInv, CacheTypeOK
  <2> QED
    BY <1>1, <1>2, <1>3, <2>2, <2>3, <2>4, EntryIsPresent DEF Update
<1>4. CASE ~Exists(j.origin)
  <2>1. entries' = entries
    BY <1>1, <1>4 DEF on_refresh_completed
  <2> QED
    BY <1>2, <1>4, <2>1 DEF Update
<1> QED
  BY <1>3, <1>4

\* Any other step leaves entries, refreshes and HEAD alone.
Idles ==
  /\ UNCHANGED <<entries, head, jobs>>
  /\ remote' = remote \/ \E r \in RepoId : RemoteChange(r)

(***************************************************************************)
(* Every step, so sorted.                                                  *)
(***************************************************************************)
LEMMA StepShape ==
  ASSUME IInv, OwnHead, [ReliableNext]_vars
  PROVE  \/ /\ \E D \in SUBSET RepoId : Asks(D)
            /\ UNCHANGED <<head, remote>>
         \/ \E j \in jobs, k \in Job :
              Moves(j, k) /\ Renders(j, k) /\ (OwnJob(j) => OwnJob(k))
         \/ \E j \in jobs : Update(j)
         \/ Advance
         \/ Idles
<1>1. ASSUME NEW c \in Cwd, Query(c)
      PROVE  /\ \E D \in SUBSET RepoId : Asks(D)
             /\ UNCHANGED <<head, remote>>
  BY <1>1, QueryAsks
<1>2. CASE SchedulerTick
  BY <1>2, TickAsks
<1>3. ASSUME NEW j \in jobs, SpawnRefresh(j) \/ ReadBranch(j) \/ Fetch(j)
      PROVE  \E k \in Job : Moves(j, k) /\ Renders(j, k) /\ (OwnJob(j) => OwnJob(k))
  BY <1>3, JobMoves
<1>4. ASSUME NEW s \in Observable, RateLimitObserved(s) PROVE Idles
  BY <1>4 DEF RateLimitObserved, Idles
<1>5. ASSUME NEW r \in RepoId, RemoteChange(r) PROVE Idles
  BY <1>5 DEF RemoteChange, Idles
<1>6. CASE UNCHANGED vars
  BY <1>6 DEF vars, Idles
<1> QED
  BY <1>1, <1>2, <1>3, <1>4, <1>5, <1>6 DEF ReliableNext, JobStep

------------------------------------------------------------------------------
(* The invariant of all three results. *)

\* The refresh a query or a tick asks for is the entry's own.
LEMMA AskedOwn ==
  ASSUME OwnHead, NEW r \in RepoId, Exists(r) \/ head[r[1]] = r[2]
  PROVE  /\ OwnJob(SpawnRefreshEffect(r))
         /\ SpawnRefreshEffect(r).origin = r /\ SpawnRefreshEffect(r).age = 0
         /\ SpawnRefreshEffect(r).rendered = {}
BY DEF OwnHead, OwnJob, SpawnRefreshEffect, RepoId

\* While HEAD stays where it is, entries and refreshes are its own.
LEMMA NextOwnHead ==
  ASSUME IInv, OwnHead, [ReliableNext]_vars
  PROVE  OwnHead'
<1>1. ASSUME NEW D \in SUBSET RepoId, Asks(D), UNCHANGED <<head, remote>>
      PROVE  OwnHead'
  <2>1. \A r \in D : Exists(r) \/ head[r[1]] = r[2]
    BY <1>1 DEF Asks, Starts
  <2>2. \A r \in RepoId : Exists(r)' => head[r[1]] = r[2]
    BY <1>1, <2>1 DEF Asks, Stays, OwnHead
  <2>3. \A j \in jobs' : OwnJob(j)
    BY <1>1, <2>1, AskedOwn DEF Asks, OwnHead
  <2> QED
    BY <1>1, <2>2, <2>3 DEF OwnHead, OwnJob
<1>2. ASSUME NEW j \in jobs, NEW k \in Job, Moves(j, k), OwnJob(j) => OwnJob(k)
      PROVE  OwnHead'
  BY <1>2 DEF Moves, OwnHead, OwnJob
<1>3. ASSUME NEW j \in jobs, Update(j) PROVE OwnHead'
  <2>1. /\ jobs' = jobs \ {j} /\ UNCHANGED <<head, remote>>
        /\ \A r \in RepoId : Exists(r)' <=> Exists(r)
    BY <1>3, UpdateShape
  <2> QED
    BY <2>1 DEF OwnHead, OwnJob
<1>4. CASE Advance
  <2>1. \A r \in RepoId : Exists(r)' <=> Exists(r)
    BY <1>4, AdvanceShape
  <2> QED
    BY <1>4, <2>1, AdvanceJobs DEF OwnHead, OwnJob
<1>5. CASE Idles
  BY <1>5 DEF Idles, OwnHead, OwnJob
<1> QED
  BY <1>1, <1>2, <1>3, <1>4, <1>5, StepShape

\* Initially there is a branch, and nothing is cached or on its way.
LEMMA InitOwnHead == Init => OwnHead
BY DEF Init, OwnHead

\* Both invariants hold in every reachable state.
LEMMA ReliableInvariance == ReliableSpec => [](IInv /\ OwnHead)
<1>1. IInv /\ OwnHead /\ [ReliableNext]_vars => (IInv /\ OwnHead)'
  <2>1. [ReliableNext]_vars => [Next]_vars
    BY DEF Next
  <2> QED
    BY <2>1, NextIInv, NextOwnHead
<1> QED
  BY <1>1, InitIInv, InitOwnHead, PTL DEF ReliableSpec

------------------------------------------------------------------------------
(* Locks. *)

\* LockOwned is inductive, given that refreshes update their own entry.
LEMMA NextLockOwned ==
  ASSUME IInv, OwnHead, LockOwned, [ReliableNext]_vars
  PROVE  LockOwned'
<1> SUFFICES ASSUME NEW r \in RepoId, Exists(r)', is_refreshing(entries'[r])
             PROVE  \E j \in jobs' : j.origin = r /\ entries'[r].refresh_started_ago = {j.age}
  BY DEF LockOwned
<1>1. Exists(r) /\ is_refreshing(entries[r]) =>
        \E j \in jobs : j.origin = r /\ entries[r].refresh_started_ago = {j.age}
  BY DEF LockOwned
<1>2. ASSUME NEW D \in SUBSET RepoId, Asks(D)
      PROVE  \E j \in jobs' : j.origin = r /\ entries'[r].refresh_started_ago = {j.age}
  <2>1. CASE r \in D
    <3>1. entries'[r].refresh_started_ago = {0} /\ SpawnRefreshEffect(r) \in jobs'
      BY <1>2, <2>1 DEF Asks, Starts
    <3> QED
      BY <3>1 DEF SpawnRefreshEffect
  <2>2. CASE r \notin D
    <3>1. /\ Exists(r) /\ is_refreshing(entries[r])
          /\ entries'[r].refresh_started_ago = entries[r].refresh_started_ago
          /\ jobs \subseteq jobs'
      BY <1>2, <2>2 DEF Asks, Stays
    <3> QED
      BY <1>1, <3>1
  <2> QED
    BY <2>1, <2>2
<1>3. ASSUME NEW j \in jobs, NEW k \in Job, Moves(j, k)
      PROVE  \E i \in jobs' : i.origin = r /\ entries'[r].refresh_started_ago = {i.age}
  BY <1>1, <1>3 DEF Moves
<1>4. ASSUME NEW j \in jobs, Update(j)
      PROVE  \E i \in jobs' : i.origin = r /\ entries'[r].refresh_started_ago = {i.age}
  BY <1>1, <1>4, UpdateShape
<1>5. CASE Advance
  <2>1. /\ Exists(r) /\ is_refreshing(entries[r])
        /\ entries'[r].refresh_started_ago =
             {SecondLater(t) : t \in entries[r].refresh_started_ago}
    BY <1>5, AdvanceShape
  <2>2. PICK j \in jobs : j.origin = r /\ entries[r].refresh_started_ago = {j.age}
    BY <1>1, <2>1
  <2>3. PICK k \in jobs' : k.origin = r /\ {k.age} = {SecondLater(t) : t \in {j.age}}
    BY <1>5, <2>2, AdvanceJobs
  <2> QED
    BY <2>1, <2>2, <2>3
<1>6. CASE Idles
  BY <1>1, <1>6 DEF Idles
<1> QED
  BY <1>2, <1>3, <1>4, <1>5, <1>6, StepShape

(***************************************************************************)
(* A lock never waits for nobody: while no result is lost and HEAD stays,  *)
(* an entry that is marked as being refreshed has the refresh that the     *)
(* mark was set for on its way.  It needs no bound on how long refreshes   *)
(* take: a lock that is taken back early belongs to the new refresh.       *)
(***************************************************************************)
THEOREM LocksOwned == ReliableSpec => []LockOwned
<1>1. Init => LockOwned
  BY DEF Init, LockOwned
<1>2. IInv /\ OwnHead /\ LockOwned /\ [ReliableNext]_vars => LockOwned'
  BY NextLockOwned
<1> QED
  BY <1>1, <1>2, ReliableInvariance, PTL DEF ReliableSpec

------------------------------------------------------------------------------
(* One refresh at a time. *)

\* Refreshes end before their lock is too old, and entries stay.
ShortRefreshes ==
  RefreshTimeout < refresh_lock_timeout_secs /\ entry_max_age_secs > AgeCap

\* The converse of LockOwned: a refresh holds the lock of its entry.
HoldsLock(j) ==
  /\ Exists(j.origin) /\ is_refreshing(entries[j.origin])
  /\ entries[j.origin].refresh_started_ago = {j.age}

JobsHoldLocks == \A j \in jobs : HoldsLock(j)

\* No entry is old enough to be dropped.
LEMMA EntriesStay ==
  ASSUME IInv, ShortRefreshes, NEW r \in RepoId, Exists(r)
  PROVE  ~is_expired(entries[r], entry_max_age_secs)
<1>1. \A t \in entries[r].last_queried_ago : t \in 0 .. AgeCap
  BY DEF IInv, CacheTypeOK, Entry, Age
<1> QED
  BY <1>1, CapsAssumption, CycleAssumption DEF is_expired, ShortRefreshes

\* The lock of a refresh that is on its way is not free.
LEMMA HeldNotFree ==
  ASSUME IInv, ShortRefreshes, NEW j \in jobs, HoldsLock(j)
  PROVE  ~Free(entries[j.origin])
<1>1. j.age \in 0 .. RefreshTimeout
  BY DEF IInv, CacheTypeOK, Job
<1> QED
  BY <1>1, CycleAssumption, CapsAssumption
     DEF HoldsLock, Free, refresh_lock_expired, ShortRefreshes

\* A refresh is asked for only where none is on its way.
LEMMA NextSingleFlight ==
  ASSUME IInv, OwnHead, ShortRefreshes, JobsHoldLocks, SingleFlight, [ReliableNext]_vars
  PROVE  JobsHoldLocks' /\ SingleFlight'
<1>1. \A j \in jobs : /\ j.origin \in RepoId /\ HoldsLock(j)
                      /\ ~Free(entries[j.origin])
  BY HeldNotFree DEF JobsHoldLocks, IInv, CacheTypeOK, Job
<1>2. ASSUME NEW D \in SUBSET RepoId, Asks(D)
      PROVE  JobsHoldLocks' /\ SingleFlight'
  <2>1. \A j \in jobs : j.origin \notin D
    BY <1>1, <1>2 DEF Asks, Starts, HoldsLock
  <2>2. ASSUME NEW j \in jobs PROVE HoldsLock(j)'
    <3>1. Stays(j.origin) /\ ~is_expired(entries[j.origin], entry_max_age_secs)
      BY <1>1, <1>2, <2>1, EntriesStay DEF Asks, HoldsLock
    <3> QED
      BY <1>1, <3>1 DEF Stays, HoldsLock
  <2>3. ASSUME NEW r \in D
        PROVE  HoldsLock(SpawnRefreshEffect(r))' /\ SpawnRefreshEffect(r).origin = r
    BY <1>2 DEF Asks, Starts, HoldsLock, SpawnRefreshEffect
  <2>4. JobsHoldLocks'
    BY <1>2, <2>2, <2>3 DEF Asks, JobsHoldLocks
  <2>5. SingleFlight'
    BY <1>2, <2>1, <2>3 DEF Asks, SingleFlight
  <2> QED
    BY <2>4, <2>5
<1>3. ASSUME NEW j \in jobs, NEW k \in Job, Moves(j, k)
      PROVE  JobsHoldLocks' /\ SingleFlight'
  <2>1. JobsHoldLocks'
    BY <1>1, <1>3 DEF Moves, JobsHoldLocks, HoldsLock
  <2>2. SingleFlight'
    BY <1>3 DEF Moves, SingleFlight
  <2> QED
    BY <2>1, <2>2
<1>4. ASSUME NEW j \in jobs, Update(j)
      PROVE  JobsHoldLocks' /\ SingleFlight'
  <2>1. jobs' = jobs \ {j} /\ \A r \in RepoId \ {j.origin} : entries'[r] = entries[r]
    BY <1>4, UpdateShape
  <2>2. \A i \in jobs' : i \in jobs /\ i.origin # j.origin
    BY <2>1 DEF SingleFlight
  <2>3. JobsHoldLocks'
    BY <1>1, <2>1, <2>2 DEF JobsHoldLocks, HoldsLock
  <2>4. SingleFlight'
    BY <2>1 DEF SingleFlight
  <2> QED
    BY <2>3, <2>4
<1>5. CASE Advance
  <2>1. ASSUME NEW k \in jobs' PROVE HoldsLock(k)'
    <3>1. PICK j \in jobs : /\ k.origin = j.origin
                            /\ {k.age} = {SecondLater(t) : t \in {j.age}}
      BY <1>5, AdvanceJobs
    <3>2. Exists(j.origin)' /\ is_refreshing(entries'[j.origin])
      BY <1>1, <1>5, AdvanceShape DEF HoldsLock
    <3>3. entries'[j.origin].refresh_started_ago = {SecondLater(t) : t \in {j.age}}
      BY <1>1, <1>5, AdvanceShape DEF HoldsLock
    <3> QED
      BY <3>1, <3>2, <3>3 DEF HoldsLock
  <2>2. ASSUME NEW k \in jobs', NEW l \in jobs', k.origin = l.origin
        PROVE  k = l
    <3>1. PICK i \in jobs : k = [i EXCEPT !.age = @ + 1] /\ k.origin = i.origin
      BY <1>5, AdvanceJobs
    <3>2. PICK j \in jobs : l = [j EXCEPT !.age = @ + 1] /\ l.origin = j.origin
      BY <1>5, AdvanceJobs
    <3>3. i = j
      BY <2>2, <3>1, <3>2 DEF SingleFlight
    <3> QED
      BY <3>1, <3>2, <3>3
  <2> QED
    BY <2>1, <2>2 DEF JobsHoldLocks, SingleFlight
<1>6. CASE Idles
  BY <1>6 DEF Idles, JobsHoldLocks, HoldsLock, SingleFlight
<1> QED
  BY <1>2, <1>3, <1>4, <1>5, <1>6, StepShape

\* Initially nothing is on its way.
LEMMA InitSingleFlight == Init => JobsHoldLocks /\ SingleFlight
BY DEF Init, JobsHoldLocks, SingleFlight

\* The invariant behind the next two results.
LEMMA SingleFlightInvariance ==
  ASSUME ShortRefreshes
  PROVE  ReliableSpec => [](IInv /\ OwnHead /\ JobsHoldLocks /\ SingleFlight)
<1>1. IInv /\ OwnHead /\ JobsHoldLocks /\ SingleFlight /\ [ReliableNext]_vars =>
        JobsHoldLocks' /\ SingleFlight'
  BY NextSingleFlight
<1> QED
  BY <1>1, InitSingleFlight, ReliableInvariance, PTL DEF ReliableSpec

(***************************************************************************)
(* With refreshes that end before their lock is too old, and entries that  *)
(* are not dropped, an entry is never refreshed twice at a time, however   *)
(* many prompts ask and the scheduler ticks.                               *)
(***************************************************************************)
THEOREM OneRefreshAtATime ==
  ASSUME ShortRefreshes
  PROVE  ReliableSpec => []SingleFlight
BY SingleFlightInvariance, PTL

------------------------------------------------------------------------------
(* Results in order. *)

\* A text of branch r that is no newer than GitHub.
Known(r, x) == x.src = r /\ x.ver <= remote[r].ver

\* No text of `new` is older than one of `old`.
NotOlder(old, new) == \A x \in old, y \in new : y.ver >= x.ver

\* What is shown, and what is on its way, is in order.
Ordered ==
  /\ \A r \in RepoId : Exists(r) =>
       /\ \A x \in entries[r].output : Known(r, x)
       /\ NotOlder(entries[r].output, entries[r].output)
  /\ \A j \in jobs : \A d \in j.rendered :
       /\ \A x \in d.output : Known(j.origin, x)
       /\ NotOlder(d.output, d.output)
       /\ Exists(j.origin) => NotOlder(entries[j.origin].output, d.output)

\* What GitHub says now is no older than what is shown.
LEMMA RenderNewest ==
  ASSUME IInv, Ordered, NEW r \in RepoId
  PROVE  LET d == Render(r, remote[r])
         IN /\ \A x \in d.output : Known(r, x)
            /\ NotOlder(d.output, d.output)
            /\ Exists(r) => NotOlder(entries[r].output, d.output)
<1> DEFINE d == Render(r, remote[r])
<1>1. remote[r].ver \in Nat
  BY DEF IInv, CacheTypeOK, Remote
<1>2. \A x \in d.output : x.src = r /\ x.ver = remote[r].ver
  BY DEF Render
<1> HIDE DEF d
<1>3. Exists(r) => \A x \in entries[r].output : x.ver \in Nat /\ x.ver <= remote[r].ver
  BY DEF IInv, CacheTypeOK, Entry, Output, Text, Ordered, Known
<1> QED
  BY <1>1, <1>2, <1>3 DEF Known, NotOlder, d

\* Outputs only change when a result arrives.
LEMMA SameOutput ==
  ASSUME IInv, OwnHead, [ReliableNext]_vars, ~(\E j \in jobs : Update(j)),
         NEW r \in RepoId, Exists(r), Exists(r)'
  PROVE  entries'[r].output = entries[r].output
<1>1. ASSUME NEW D \in SUBSET RepoId, Asks(D)
      PROVE  entries'[r].output = entries[r].output
  BY <1>1 DEF Asks, Starts, Stays
<1>2. ASSUME NEW j \in jobs, NEW k \in Job, Moves(j, k)
      PROVE  entries'[r].output = entries[r].output
  BY <1>2 DEF Moves
<1>3. CASE Advance
  BY <1>3, AdvanceShape
<1>4. CASE Idles
  BY <1>4 DEF Idles
<1> QED
  BY <1>1, <1>2, <1>3, <1>4, StepShape

\* GitHub only moves on.
LEMMA RemoteMonotone ==
  ASSUME IInv, [ReliableNext]_vars, OwnHead, NEW r \in RepoId
  PROVE  /\ remote[r].ver \in Nat /\ remote'[r].ver \in Nat
         /\ remote'[r].ver >= remote[r].ver
<1>1. remote \in [RepoId -> Remote] /\ \A q \in RepoId : remote[q].ver \in Nat
  BY DEF IInv, CacheTypeOK, Remote
<1>2. CASE remote' = remote
  BY <1>1, <1>2
<1>3. ASSUME NEW q \in RepoId, RemoteChange(q)
      PROVE  remote'[r].ver \in Nat /\ remote'[r].ver >= remote[r].ver
  BY <1>1, <1>3 DEF RemoteChange
<1>4. remote' = remote \/ \E q \in RepoId : RemoteChange(q)
  BY StepShape, UpdateShape, AdvanceJobs DEF Moves, Idles
<1> QED
  BY <1>1, <1>2, <1>3, <1>4

\* What was known stays known.
LEMMA StaysKnown ==
  ASSUME IInv, [ReliableNext]_vars, OwnHead, NEW r \in RepoId, NEW x \in Text, Known(r, x)
  PROVE  Known(r, x)'
BY RemoteMonotone DEF Known, Text

\* The parts of Ordered: what is shown for r, and what comes for r as d.
ShownInOrder(r) ==
  /\ \A x \in entries[r].output : Known(r, x)
  /\ NotOlder(entries[r].output, entries[r].output)

ComesInOrder(r, d) ==
  /\ \A x \in d.output : Known(r, x)
  /\ NotOlder(d.output, d.output)
  /\ Exists(r) => NotOlder(entries[r].output, d.output)

\* They last while the output of r does, or r is empty.
LEMMA OrderLasts ==
  ASSUME IInv, [ReliableNext]_vars, OwnHead, NEW r \in RepoId,
         Exists(r)' => \/ Exists(r) /\ entries'[r].output = entries[r].output
                       \/ entries'[r].output = {}
  PROVE  /\ Exists(r)' /\ (Exists(r) => ShownInOrder(r)) => ShownInOrder(r)'
         /\ \A d \in Rendered : ComesInOrder(r, d) => ComesInOrder(r, d)'
<1>1. Exists(r) => entries[r].output \subseteq Text
  BY DEF IInv, CacheTypeOK, Entry, Output
<1>2. Exists(r)' /\ (Exists(r) => ShownInOrder(r)) => ShownInOrder(r)'
  BY <1>1, StaysKnown DEF ShownInOrder, NotOlder
<1>3. ASSUME NEW d \in Rendered, ComesInOrder(r, d)
      PROVE  ComesInOrder(r, d)'
  <2>1. d.output \subseteq Text
    BY DEF Rendered, Output
  <2>2. \A x \in d.output : Known(r, x)'
    BY <1>3, <2>1, StaysKnown DEF ComesInOrder
  <2>3. Exists(r)' => NotOlder(entries'[r].output, d.output)
    BY <1>3 DEF ComesInOrder, NotOlder
  <2> QED
    BY <1>3, <2>2, <2>3 DEF ComesInOrder, NotOlder
<1> QED
  BY <1>2, <1>3

\* Results come in order as long as there is one refresh at a time.
LEMMA NextOrdered ==
  ASSUME IInv, OwnHead, JobsHoldLocks, SingleFlight, Ordered, [ReliableNext]_vars
  PROVE  Ordered'
<1>1. \A r \in RepoId : Exists(r) => ShownInOrder(r)
  BY DEF Ordered, ShownInOrder
<1>2. \A j \in jobs : /\ j.origin \in RepoId /\ j.rendered \subseteq Rendered
                      /\ \A d \in j.rendered : ComesInOrder(j.origin, d)
  BY DEF Ordered, ComesInOrder, IInv, CacheTypeOK, Job
<1>3. ASSUME \A r \in RepoId : Exists(r)' => ShownInOrder(r)',
             \A j \in jobs' : \A d \in j.rendered : ComesInOrder(j.origin, d)'
      PROVE  Ordered'
  BY <1>3 DEF Ordered, ShownInOrder, ComesInOrder
<1>4. CASE \E j \in jobs : Update(j)
  <2>1. PICK j \in jobs : Update(j)
    BY <1>4
  <2>2. /\ j.origin \in RepoId /\ jobs' = jobs \ {j}
        /\ \A r \in RepoId : Exists(r)' <=> Exists(r)
        /\ \A r \in RepoId \ {j.origin} : entries'[r] = entries[r]
        /\ Exists(j.origin) => \E d \in j.rendered : entries'[j.origin].output = d.output
    BY <2>1, UpdateShape
  <2>3. ASSUME NEW r \in RepoId \ {j.origin}
        PROVE  /\ Exists(r)' => ShownInOrder(r)'
               /\ \A d \in Rendered : ComesInOrder(r, d) => ComesInOrder(r, d)'
    BY <1>1, <2>2, OrderLasts
  <2>4. Exists(j.origin)' => ShownInOrder(j.origin)'
    <3>1. ASSUME NEW d \in j.rendered, entries'[j.origin].output = d.output
          PROVE  ShownInOrder(j.origin)'
      <4>1. d.output \subseteq Text /\ ComesInOrder(j.origin, d)
        BY <1>2, <3>1 DEF Rendered, Output
      <4> QED
        BY <2>2, <3>1, <4>1, StaysKnown DEF ComesInOrder, ShownInOrder, NotOlder
    <3> QED
      BY <2>2, <3>1
  <2>5. \A i \in jobs' : i \in jobs /\ i.origin \in RepoId \ {j.origin}
    BY <1>2, <2>2 DEF SingleFlight
  <2>6. \A i \in jobs' : \A d \in i.rendered : ComesInOrder(i.origin, d)'
    BY <1>2, <2>3, <2>5
  <2> QED
    BY <1>3, <2>3, <2>4, <2>6
<1>5. ASSUME ~(\E j \in jobs : Update(j)),
             \A r \in RepoId : Exists(r)' => Exists(r) \/ entries'[r].output = {}
      PROVE  \A r \in RepoId : /\ Exists(r)' => ShownInOrder(r)'
                               /\ \A d \in Rendered : ComesInOrder(r, d) => ComesInOrder(r, d)'
  BY <1>1, <1>5, OrderLasts, SameOutput
<1>6. ASSUME NEW D \in SUBSET RepoId, Asks(D), ~(\E j \in jobs : Update(j))
      PROVE  Ordered'
  <2>1. \A r \in RepoId : Exists(r)' => Exists(r) \/ entries'[r].output = {}
    BY <1>6 DEF Asks, Starts, Stays
  <2>2. \A j \in jobs' : j \in jobs \/ j.rendered = {}
    BY <1>6 DEF Asks, SpawnRefreshEffect
  <2>3. \A j \in jobs' : \A d \in j.rendered : ComesInOrder(j.origin, d)'
    BY <1>2, <1>5, <1>6, <2>1, <2>2
  <2> QED
    BY <1>3, <1>5, <1>6, <2>1, <2>3
<1>7. ASSUME NEW j \in jobs, NEW k \in Job, Moves(j, k), Renders(j, k),
             ~(\E i \in jobs : Update(i))
      PROVE  Ordered'
  <2>1. \A r \in RepoId : Exists(r)' => Exists(r)
    BY <1>7 DEF Moves
  <2>2. \A d \in k.rendered : ComesInOrder(k.origin, d)
    BY <1>2, <1>7, RenderNewest DEF Moves, Renders, ComesInOrder
  <2>3. \A i \in jobs' : i \in jobs \/ i = k
    BY <1>7 DEF Moves
  <2>4. k.origin \in RepoId /\ k.rendered \subseteq Rendered
    BY DEF Job
  <2>5. \A i \in jobs' : \A d \in i.rendered : ComesInOrder(i.origin, d)'
    BY <1>2, <1>5, <1>7, <2>1, <2>2, <2>3, <2>4
  <2> QED
    BY <1>3, <1>5, <1>7, <2>1, <2>5
<1>8. CASE Advance /\ ~(\E j \in jobs : Update(j))
  <2>1. \A r \in RepoId : Exists(r)' => Exists(r)
    BY <1>8, AdvanceShape
  <2>2. \A k \in jobs' : \E j \in jobs : k.origin = j.origin /\ k.rendered = j.rendered
    BY <1>8, AdvanceJobs
  <2>3. \A k \in jobs' : \A d \in k.rendered : ComesInOrder(k.origin, d)'
    BY <1>2, <1>5, <1>8, <2>1, <2>2
  <2> QED
    BY <1>3, <1>5, <1>8, <2>1, <2>3
<1>9. CASE Idles /\ ~(\E j \in jobs : Update(j))
  <2>1. \A r \in RepoId : Exists(r)' => Exists(r)
    BY <1>9 DEF Idles
  <2>2. \A k \in jobs' : \A d \in k.rendered : ComesInOrder(k.origin, d)'
    BY <1>2, <1>5, <1>9, <2>1 DEF Idles
  <2> QED
    BY <1>3, <1>5, <1>9, <2>1, <2>2
<1> QED
  BY <1>4, <1>6, <1>7, <1>8, <1>9, StepShape

(***************************************************************************)
(* While there is one refresh at a time, what is shown is never replaced   *)
(* by something older: a result that was read first arrives first.  It is  *)
(* NoStaleOverwrite for refreshes shorter than the lock timeout.           *)
(***************************************************************************)
THEOREM ResultsInOrder ==
  ASSUME ShortRefreshes
  PROVE  ReliableSpec => NoStaleOverwrite
<1>1. Init => Ordered
  BY DEF Init, Ordered
<1>2. IInv /\ OwnHead /\ JobsHoldLocks /\ SingleFlight /\ Ordered /\ [ReliableNext]_vars
        => Ordered'
  BY NextOrdered
<1>3. ASSUME IInv, Ordered, Ordered', [ReliableNext]_vars, OwnHead,
             NEW r \in RepoId, Exists(r), Exists(r)',
             NEW old \in entries[r].output, NEW new \in entries'[r].output
      PROVE  new.src = r /\ new.ver >= old.ver
  <2>1. new.src = r
    BY <1>3 DEF Ordered, Known
  <2>2. CASE \E j \in jobs : Update(j)
    <3>1. PICK j \in jobs : Update(j)
      BY <2>2
    <3>2. /\ \A q \in RepoId \ {j.origin} : entries'[q] = entries[q]
          /\ Exists(j.origin) => \E d \in j.rendered : entries'[j.origin].output = d.output
      BY <1>3, <3>1, UpdateShape
    <3>3. CASE r = j.origin
      <4>1. PICK d \in j.rendered : entries'[r].output = d.output
        BY <1>3, <3>2, <3>3
      <4>2. NotOlder(entries[r].output, d.output)
        BY <1>3, <3>3 DEF Ordered
      <4> QED
        BY <1>3, <2>1, <4>1, <4>2 DEF NotOlder
    <3>4. CASE r # j.origin
      BY <1>3, <2>1, <3>2, <3>4 DEF Ordered, NotOlder
    <3> QED
      BY <3>3, <3>4
  <2>3. CASE ~(\E j \in jobs : Update(j))
    <3>1. entries'[r].output = entries[r].output
      BY <1>3, <2>3, SameOutput
    <3>2. NotOlder(entries[r].output, entries[r].output)
      BY <1>3 DEF Ordered
    <3> QED
      BY <1>3, <2>1, <3>1, <3>2 DEF NotOlder
  <2> QED
    BY <2>1, <2>2, <2>3
<1>4. IInv /\ OwnHead /\ Ordered /\ Ordered' /\ [ReliableNext]_vars =>
        [\A r \in RepoId : Exists(r) /\ Exists(r)' =>
           \A old \in entries[r].output, new \in entries'[r].output :
             new.src = r /\ new.ver >= old.ver]_vars
  BY <1>3
<1> QED
  BY <1>1, <1>2, <1>4, SingleFlightInvariance, PTL DEF ReliableSpec, NoStaleOverwrite
=============================================================================
