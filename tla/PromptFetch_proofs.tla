------------------------- MODULE PromptFetch_proofs -------------------------
(***************************************************************************)
(* What a refresh shows, for every list of pull requests and check runs    *)
(* GitHub may return and every order in which the comparisons answer.      *)
(***************************************************************************)
EXTENDS PromptFetch, SequenceFacts

------------------------------------------------------------------------------
(* The invariant. *)

DistinctNumbers(ns) == \A i, j \in DOMAIN ns : ns[i].number = ns[j].number => i = j

\* What is known of the comparison of n.
Answered(n) == IF Compares(n) THEN behind[n.number] ELSE not_compared(n)

Verdict(n) == evaluate_single_pr(n, Answered(n))

\* What the task of open_prs[idx] hands back.
Judged(idx) ==
  [idx |-> idx, pr |-> [id |-> open_prs[idx].number, state |-> Verdict(open_prs[idx])]]

Done == {indexed[i].idx : i \in DOMAIN indexed}

\* The tasks that have ended are tasks of open pull requests, ended once each,
\* and their results are verdicts on the answers the comparisons gave.
TasksInv ==
  /\ nodes \in Seq(GhPrNode) /\ DistinctNumbers(nodes)
  /\ open_prs = open_sorted(nodes)
  /\ indexed \in Seq([idx : Nat, pr : [id : Nat, state : State]])
  /\ \A i \in DOMAIN indexed :
       indexed[i].idx \in DOMAIN open_prs /\ indexed[i] = Judged(indexed[i].idx)
  /\ \A i, j \in DOMAIN indexed : indexed[i].idx = indexed[j].idx => i = j
  /\ DOMAIN behind = {open_prs[idx].number : idx \in {k \in Done : Compares(open_prs[k])}}
  /\ \A id \in DOMAIN behind : behind[id] \in BehindBy

\* What fetch_prompt returns without an open or closed pull request.
QuietPrompt ==
  [kind : {"NoRepository", "UnsupportedRepository", "DefaultBranch", "NoPullRequest"}]
    \cup [kind : {"Error"}, error : {"Unauthenticated", "RateLimited", "Unexpected"}]

StepInv ==
  /\ step \in {"Git", "GraphQl", "Tasks", "Rendered"}
  /\ branch \in Branch \cup {NoName}
  /\ step \in {"Git", "GraphQl"} => nodes = << >> /\ open_prs = << >> /\ indexed = << >>
  /\ step # "Rendered" => prompt = Pending /\ shown = NothingShown("Warm")
  /\ step = "Tasks" => nodes # << >>
  /\ step = "Rendered" =>
       /\ shown = render(prompt)
       /\ \/ prompt \in QuietPrompt /\ nodes = << >>
          \/ /\ prompt = [kind |-> "PullRequests", prs |-> by_index(indexed)]
             /\ nodes # << >> /\ Running = {}

Inv == TasksInv /\ StepInv

------------------------------------------------------------------------------
(* Sorting. *)

\* A greater key has a greater place.
LEMMA PlacesAscend ==
  ASSUME NEW S, IsFiniteSet(S), NEW key \in [S -> Nat], NEW x \in S, NEW y \in S,
         key[x] < key[y]
  PROVE  Place(key, x) < Place(key, y)
<1> DEFINE L(z) == {u \in S : key[u] <= key[z]}
<1>1. L(x) \in SUBSET L(y) /\ y \in L(y) /\ y \notin L(x)
  OBVIOUS
<1>2. L(y) \in SUBSET S
  OBVIOUS
<1>3. IsFiniteSet(L(y))
  <2> HIDE DEF L
  <2> QED
    BY <1>2, FS_Subset
<1>4. Cardinality(L(x)) <= Cardinality(L(y)) /\ Cardinality(L(x)) # Cardinality(L(y))
  <2> HIDE DEF L
  <2> QED
    BY <1>1, <1>3, FS_Subset
<1>5. Cardinality(L(x)) \in Nat /\ Cardinality(L(y)) \in Nat
  <2> HIDE DEF L
  <2> QED
    BY <1>1, <1>3, FS_Subset, FS_CardinalityType
<1>6. Cardinality(L(x)) < Cardinality(L(y))
  <2> HIDE DEF L
  <2> QED
    BY <1>4, <1>5
<1> QED
  BY <1>6 DEF Place

\* Sorting by distinct keys loses nothing, adds nothing and orders.
LEMMA AscendingFacts ==
  ASSUME NEW S, IsFiniteSet(S), NEW key \in [S -> Nat],
         \A x, y \in S : key[x] = key[y] => x = y
  PROVE  /\ Ascending(key) \in Seq(S)
         /\ Len(Ascending(key)) = Cardinality(S)
         /\ \A x \in S : \E k \in 1 .. Cardinality(S) : Ascending(key)[k] = x
         /\ \A i, j \in 1 .. Cardinality(S) :
              i < j => key[Ascending(key)[i]] < key[Ascending(key)[j]]
<1> DEFINE N == Cardinality(S)
           place == [x \in S |-> Place(key, x)]
<1>1. N \in Nat
  BY FS_CardinalityType
<1>2. \A x \in S : place[x] \in 1 .. N
  <2> SUFFICES ASSUME NEW x \in S PROVE Place(key, x) \in 1 .. N
    OBVIOUS
  <2> DEFINE L == {u \in S : key[u] <= key[x]}
  <2>1. L \in SUBSET S /\ x \in L
    OBVIOUS
  <2> HIDE DEF L
  <2>2. IsFiniteSet(L) /\ Cardinality(L) <= N /\ Cardinality(L) \in Nat
    BY <2>1, FS_Subset, FS_CardinalityType
  <2>3. Cardinality(L) # 0
    BY <2>1, <2>2, FS_EmptySet
  <2>4. Cardinality(L) \in 1 .. N
    BY <2>2, <2>3, <1>1
  <2> QED
    BY <2>4 DEF Place, L
<1>3. \A x, y \in S : key[x] < key[y] => place[x] < place[y]
  BY PlacesAscend
<1>4. \A x, y \in S : key[x] = key[y] \/ key[x] < key[y] \/ key[y] < key[x]
  OBVIOUS
<1>5. place \in [S -> 1 .. N]
  BY <1>2
<1> HIDE DEF place, N
<1>6. \A x, y \in S : place[x] \in Int /\ place[y] \in Int
  BY <1>2
<1>7. \A x, y \in S : place[x] = place[y] => x = y
  BY <1>3, <1>4, <1>6
<1>8. place \in Injection(S, 1 .. N)
  BY <1>5, <1>7 DEF Injection, IsInjective
<1>9. \A k \in 1 .. N : \E x \in S : place[x] = k
  <2>1. IsFiniteSet(1 .. N) /\ Cardinality(1 .. N) = N
    BY <1>1, FS_Interval
  <2>2. place \in Surjection(S, 1 .. N)
    BY <1>8, <2>1, FS_Injection DEF N
  <2> QED
    BY <2>2 DEF Surjection
<1> DEFINE a == Ascending(key)
<1>10. \A k \in 1 .. N : a[k] = CHOOSE x \in DOMAIN key : Place(key, x) = k
  BY DEF Ascending, N
<1>11. \A k \in 1 .. N : a[k] \in S /\ place[a[k]] = k
  <2>1. \A x \in S : place[x] = Place(key, x)
    BY DEF place
  <2>2. \A k \in 1 .. N : \E x \in DOMAIN key : Place(key, x) = k
    BY <1>9, <2>1
  <2>3. \A k \in 1 .. N : a[k] \in DOMAIN key /\ Place(key, a[k]) = k
    BY <1>10, <2>2, Zenon
  <2> QED
    BY <2>1, <2>3
<1>12. \A x \in S : a[place[x]] = x
  BY <1>2, <1>7, <1>11
<1>13. a \in [1 .. N -> S]
  BY <1>11 DEF Ascending, N
<1> HIDE DEF a
<1>14. a \in Seq(S) /\ Len(a) = N
  BY <1>1, <1>13
<1>15. ASSUME NEW i \in 1 .. N, NEW j \in 1 .. N, i < j PROVE key[a[i]] < key[a[j]]
  <2>1. a[i] \in S /\ a[j] \in S /\ place[a[i]] < place[a[j]]
    BY <1>11, <1>15
  <2>2. ~ (key[a[j]] < key[a[i]]) /\ a[i] # a[j]
    BY <2>1, <1>3, <1>6
  <2> QED
    BY <2>1, <2>2, <1>4
<1> QED
  BY <1>2, <1>12, <1>14, <1>15 DEF N, a

------------------------------------------------------------------------------
(* The newest runs of the checks. *)

\* L has what newest makes of every beginning of the list.
NewestOf(L, cs) ==
  /\ L[0] = << >>
  /\ \A i \in 1 .. Len(cs) : L[i] = newest(L[i - 1], cs[i])
  /\ latest_runs(cs) = L[Len(cs)]

\* ci_from_node folds newest over the list from the left.
LEMMA NewestFold ==
  ASSUME NEW C, NEW cs \in Seq(C)
  PROVE  \E L : NewestOf(L, cs)
<1> DEFINE n == Len(cs)
           Names == {c.name : c \in C}
           A == UNION {[D -> C] : D \in SUBSET Names}
           apply == [i \in 1 .. n |-> [f \in A |-> newest(f, cs[i])]]
           Solves(g) == g = [s \in SUBSET DOMAIN cs |->
                               IF s = {} THEN << >> ELSE newest(g[s \ {Max(s)}], cs[Max(s)])]
<1>1. n \in Nat /\ DOMAIN cs = 1 .. n /\ \A i \in 1 .. n : cs[i] \in C
  OBVIOUS
<1>2. << >> \in A
  <2>1. << >> \in [{} -> C] /\ {} \in SUBSET Names
    OBVIOUS
  <2> QED
    BY <2>1
<1>3. apply \in [1 .. n -> [A -> A]]
  <2> SUFFICES ASSUME NEW i \in 1 .. n, NEW f \in A PROVE newest(f, cs[i]) \in A
    OBVIOUS
  <2>1. PICK D \in SUBSET Names : f \in [D -> C]
    OBVIOUS
  <2>2. Put(f, cs[i].name, cs[i]) \in [D \cup {cs[i].name} -> C]
    BY <1>1, <2>1 DEF Put
  <2>3. D \cup {cs[i].name} \in SUBSET Names
    BY <1>1
  <2> QED
    BY <2>2, <2>3 DEF newest
<1>4. \E g : Solves(g)
  <2>1. PICK g \in [SUBSET (1 .. n) -> A] : SolvesFold(g, n, << >>, apply)
    <3> HIDE DEF A, apply
    <3>1. n \in Nat
      BY <1>1
    <3> HIDE DEF n
    <3> QED
      BY <3>1, <1>2, <1>3, FoldExists
  <2>2. \A s \in SUBSET (1 .. n) : s # {} =>
           apply[Max(s)][g[s \ {Max(s)}]] = newest(g[s \ {Max(s)}], cs[Max(s)])
    BY <1>1, PrefixFacts
  <2>3. g = [s \in SUBSET (1 .. n) |->
               IF s = {} THEN << >> ELSE newest(g[s \ {Max(s)}], cs[Max(s)])]
    BY <2>1, <2>2 DEF SolvesFold
  <2> QED
    BY <2>3, <1>1
<1> DEFINE G == CHOOSE g : Solves(g)
<1>5. Solves(G)
  <2> HIDE DEF Solves
  <2> QED
    BY <1>4
<1>6. latest_runs(cs) = G[DOMAIN cs]
  BY DEF latest_runs, FoldLeft, MapThenFoldSet
<1> HIDE DEF G
<1> DEFINE L == [i \in 0 .. n |-> G[1 .. i]]
<1>7. L[0] = << >>
  BY <1>1, <1>5, PrefixFacts
<1>8. ASSUME NEW i \in 1 .. n PROVE L[i] = newest(L[i - 1], cs[i])
  <2>1. L[i] = G[1 .. i] /\ L[i - 1] = G[1 .. (i - 1)]
    OBVIOUS
  <2>2. /\ 1 .. i \in SUBSET (1 .. n) /\ 1 .. i # {}
        /\ Max(1 .. i) = i /\ (1 .. i) \ {i} = 1 .. (i - 1)
    BY <1>1, PrefixFacts
  <2>3. G[1 .. i] = newest(G[(1 .. i) \ {Max(1 .. i)}], cs[Max(1 .. i)])
    BY <1>1, <1>5, <2>2
  <2> QED
    BY <2>1, <2>2, <2>3
<1>9. G[DOMAIN cs] = L[n]
  BY <1>1
<1> HIDE DEF L
<1> QED
  BY <1>6, <1>7, <1>8, <1>9 DEF NewestOf

\* The j-th of the first i runs is the current one of its check among them.
Current(cs, i, j) ==
  /\ j \in 1 .. i
  /\ \A k \in 1 .. i : cs[k].name = cs[j].name =>
       cs[k].at <= cs[j].at /\ (cs[k].at = cs[j].at => j <= k)

\* latest holds the current run of every check with a name.
IsLatest(latest, cs, i) ==
  /\ DOMAIN latest = {cs[j].name : j \in 1 .. i} \ {NoValue}
  /\ \A name \in DOMAIN latest :
       \E j \in 1 .. i : latest[name] = cs[j] /\ cs[j].name = name /\ Current(cs, i, j)

\* The fields of check runs.
LEMMA RunFields ==
  ASSUME NEW cs \in Seq(CheckContext)
  PROVE  \A j \in 1 .. Len(cs) : cs[j] \in CheckContext /\ cs[j].at \in Nat
<1>1. \A c \in CheckContext : c.at \in Nat
  BY DEF CheckContext
<1>2. \A j \in 1 .. Len(cs) : cs[j] \in CheckContext
  OBVIOUS
<1> QED
  BY <1>1, <1>2

\* One run more.
LEMMA NewestStep ==
  ASSUME NEW cs \in Seq(CheckContext), NEW i \in 1 .. Len(cs), NEW latest,
         IsLatest(latest, cs, i - 1)
  PROVE  IsLatest(newest(latest, cs[i]), cs, i)
<1> DEFINE c == cs[i]
<1>1. /\ \A j \in 1 .. i : cs[j] \in CheckContext /\ cs[j].at \in Nat
      /\ i \in 1 .. i /\ 1 .. i = (1 .. (i - 1)) \cup {i} /\ i \notin 1 .. (i - 1)
      /\ \A j \in 1 .. (i - 1) : j \in 1 .. i /\ j < i /\ j \in Int
  <2>1. \A j \in 1 .. i : j \in 1 .. Len(cs)
    OBVIOUS
  <2>2. 1 .. i = (1 .. (i - 1)) \cup {i}
    OBVIOUS
  <2> QED
    BY <2>1, <2>2, RunFields
<1>2. {cs[j].name : j \in 1 .. i} = {cs[j].name : j \in 1 .. (i - 1)} \cup {c.name}
  BY <1>1
<1>3. CASE c.name = NoValue
  <2>1. newest(latest, c) = latest
    BY <1>3 DEF newest
  <2>2. DOMAIN latest = {cs[j].name : j \in 1 .. i} \ {NoValue}
    BY <1>2, <1>3 DEF IsLatest
  <2>3. ASSUME NEW name \in DOMAIN latest
        PROVE  \E j \in 1 .. i : latest[name] = cs[j] /\ cs[j].name = name /\ Current(cs, i, j)
    <3>1. PICK j \in 1 .. (i - 1) :
            latest[name] = cs[j] /\ cs[j].name = name /\ Current(cs, i - 1, j)
      BY <2>3 DEF IsLatest
    <3>2. name # NoValue
      BY DEF IsLatest
    <3>3. Current(cs, i, j)
      BY <1>1, <1>3, <3>1, <3>2 DEF Current
    <3> QED
      BY <3>1, <3>3, <1>1
  <2> QED
    BY <2>1, <2>2, <2>3 DEF IsLatest
<1>4. CASE c.name # NoValue /\ c.name \in DOMAIN latest /\ latest[c.name].at >= c.at
  <2>1. newest(latest, c) = latest
    BY <1>4 DEF newest
  <2>2. DOMAIN latest = {cs[j].name : j \in 1 .. i} \ {NoValue}
    BY <1>2, <1>4 DEF IsLatest
  <2>3. ASSUME NEW name \in DOMAIN latest
        PROVE  \E j \in 1 .. i : latest[name] = cs[j] /\ cs[j].name = name /\ Current(cs, i, j)
    <3>1. PICK j \in 1 .. (i - 1) :
            latest[name] = cs[j] /\ cs[j].name = name /\ Current(cs, i - 1, j)
      BY <2>3 DEF IsLatest
    <3>2. c.name = name => cs[i].at <= cs[j].at
      BY <1>4, <3>1, <1>1
    <3>3. Current(cs, i, j)
      BY <1>1, <3>1, <3>2 DEF Current
    <3> QED
      BY <3>1, <3>3, <1>1
  <2> QED
    BY <2>1, <2>2, <2>3 DEF IsLatest
<1>5. CASE c.name # NoValue /\ ~ (c.name \in DOMAIN latest /\ latest[c.name].at >= c.at)
  <2> DEFINE new == Put(latest, c.name, c)
  <2>1. newest(latest, c) = new
    BY <1>5 DEF newest
  <2>2. DOMAIN new = {cs[j].name : j \in 1 .. i} \ {NoValue}
    BY <1>2, <1>5 DEF IsLatest, Put
  <2>3. ASSUME NEW name \in DOMAIN new
        PROVE  \E j \in 1 .. i : new[name] = cs[j] /\ cs[j].name = name /\ Current(cs, i, j)
    <3>1. CASE name = c.name
      <4>1. new[name] = cs[i]
        BY <2>3, <3>1 DEF Put
      <4>2. ASSUME NEW k \in 1 .. (i - 1), cs[k].name = c.name PROVE cs[k].at < c.at
        <5>1. c.name \in DOMAIN latest
          BY <1>5, <4>2 DEF IsLatest
        <5>2. PICK j \in 1 .. (i - 1) :
                latest[c.name] = cs[j] /\ cs[j].name = c.name /\ Current(cs, i - 1, j)
          BY <5>1 DEF IsLatest
        <5>3. ~ (cs[j].at >= c.at)
          BY <1>5, <5>1, <5>2
        <5>4. cs[k].at <= cs[j].at
          BY <4>2, <5>2 DEF Current
        <5> QED
          BY <5>3, <5>4, <1>1
      <4>3. Current(cs, i, i)
        BY <1>1, <4>2 DEF Current
      <4> QED
        BY <4>1, <4>3, <3>1, <1>1
    <3>2. CASE name # c.name
      <4>1. name \in DOMAIN latest /\ new[name] = latest[name]
        BY <2>3, <3>2 DEF Put
      <4>2. PICK j \in 1 .. (i - 1) :
              latest[name] = cs[j] /\ cs[j].name = name /\ Current(cs, i - 1, j)
        BY <4>1 DEF IsLatest
      <4>3. Current(cs, i, j)
        BY <1>1, <3>2, <4>2 DEF Current
      <4> QED
        BY <4>1, <4>2, <4>3, <1>1
    <3> QED
      BY <3>1, <3>2
  <2> HIDE DEF new
  <2> QED
    BY <2>1, <2>2, <2>3 DEF IsLatest
<1> QED
  BY <1>3, <1>4, <1>5

\* The fold computes the current runs.
LEMMA LatestRuns ==
  ASSUME NEW cs \in Seq(CheckContext)
  PROVE  IsLatest(latest_runs(cs), cs, Len(cs))
<1>1. PICK L : NewestOf(L, cs)
  BY NewestFold
<1> DEFINE S == {i \in 0 .. Len(cs) : IsLatest(L[i], cs, i)}
<1>2. 0 \in S
  <2>1. DOMAIN L[0] = {}
    BY <1>1 DEF NewestOf
  <2>2. {cs[j].name : j \in 1 .. 0} = {}
    OBVIOUS
  <2> QED
    BY <2>1, <2>2 DEF IsLatest
<1>3. ASSUME NEW i \in 1 .. Len(cs), i - 1 \in S PROVE i \in S
  <2>1. IsLatest(newest(L[i - 1], cs[i]), cs, i)
    BY <1>3, NewestStep
  <2> QED
    BY <1>1, <2>1 DEF NewestOf
<1>4. Len(cs) \in Nat
  OBVIOUS
<1>5. \A i \in 0 .. Len(cs) : i \in S
  <2> HIDE DEF S
  <2> QED
    BY <1>2, <1>3, <1>4, InductionTo
<1>6. Len(cs) \in 0 .. Len(cs)
  BY <1>4
<1> QED
  BY <1>1, <1>5, <1>6 DEF NewestOf

\* The blockers of the checks are those of their current runs.
LEMMA CiFromCurrentRuns ==
  ASSUME NEW n, n.contexts \in Seq(CheckContext)
  PROVE  ci_from_node(n) = aggregate_ci(CurrentBuckets(n))
<1> DEFINE cs == n.contexts
           m == Len(cs)
           latest == latest_runs(cs)
<1>0. cs \in Seq(CheckContext) /\ m \in Nat /\ DOMAIN cs = 1 .. m
  OBVIOUS
<1>1. IsLatest(latest, cs, m)
  BY <1>0, LatestRuns
<1> HIDE DEF latest
<1>2. DOMAIN latest = {c.name : c \in ToSet(cs)} \ {NoValue}
  BY <1>0, <1>1 DEF IsLatest, ToSet
<1>3. ASSUME NEW name \in DOMAIN latest PROVE latest[name] = CurrentRun(n, name)
  <2>1. PICK j \in 1 .. m : latest[name] = cs[j] /\ cs[j].name = name /\ Current(cs, m, j)
    BY <1>1 DEF IsLatest
  <2> DEFINE runs == {i \in DOMAIN n.contexts : n.contexts[i].name = name}
             newest_runs == {i \in runs : \A k \in runs : n.contexts[k].at <= n.contexts[i].at}
  <2>2. \A k \in 1 .. m : cs[k].at \in Nat
    BY <1>0, RunFields
  <2>3. j \in newest_runs
    BY <1>0, <2>1 DEF Current
  <2>4. \A k \in newest_runs : j <= k /\ k \in Int
    BY <1>0, <2>1, <2>2, <2>3 DEF Current
  <2>5. Min(newest_runs) = j
    <3> HIDE DEF newest_runs
    <3>1. j \in Int
      OBVIOUS
    <3>2. Min(newest_runs) \in newest_runs /\ \A k \in newest_runs : Min(newest_runs) <= k
      BY <2>3, <2>4 DEF Min
    <3> DEFINE x == Min(newest_runs)
    <3>3. x \in Int /\ x <= j /\ j <= x
      BY <2>3, <2>4, <3>2
    <3> HIDE DEF x
    <3>4. x = j
      BY <3>1, <3>3
    <3> QED
      BY <3>4 DEF x
  <2> QED
    BY <2>1, <2>5 DEF CurrentRun
<1>4. {context_to_bucket(latest[name]) : name \in DOMAIN latest} = CurrentBuckets(n)
  BY <1>2, <1>3 DEF CurrentBuckets
<1> QED
  BY <1>4 DEF ci_from_node, latest

------------------------------------------------------------------------------
(* The verdict on a pull request, and its items. *)

Syncs == {"Conflict", "UpdateBranch", "SyncUnknown"}
Cis == {"CiFail", "CiAction", "CiPending"}
Reviews == {"ChangesRequested", "ReviewRequired"}

\* None is no item and no number of commits.
LEMMA NoValueFacts ==
  /\ \A x \in Item : x # NoValue
  /\ NoValue # 0
BY NoValueAssumption

\* The list of one item or none.
LEMMA SomeFacts ==
  ASSUME NEW S, NEW x \in S \cup {NoValue}
  PROVE  Some(x) \in Seq(S) /\ ToSet(Some(x)) = {x} \ {NoValue}
<1>1. CASE x = NoValue
  BY <1>1 DEF Some, ToSet
<1>2. CASE x # NoValue
  <2>1. <<x>> \in Seq(S) /\ DOMAIN <<x>> = {1} /\ <<x>>[1] = x
    BY <1>2
  <2> QED
    BY <1>2, <2>1 DEF Some, ToSet
<1> QED
  BY <1>1, <1>2

\* Lists put together have the elements of both.
LEMMA ConcatElements ==
  ASSUME NEW S, NEW s \in Seq(S), NEW t \in Seq(S)
  PROVE  s \o t \in Seq(S) /\ ToSet(s \o t) = ToSet(s) \cup ToSet(t)
<1>1. /\ s \o t \in Seq(S) /\ DOMAIN (s \o t) = 1 .. (Len(s) + Len(t))
      /\ DOMAIN s = 1 .. Len(s) /\ DOMAIN t = 1 .. Len(t)
      /\ Len(s) \in Nat /\ Len(t) \in Nat
      /\ \A i \in 1 .. (Len(s) + Len(t)) :
           (s \o t)[i] = IF i <= Len(s) THEN s[i] ELSE t[i - Len(s)]
  OBVIOUS
<1>2. \A i \in 1 .. (Len(s) + Len(t)) :
        i \in 1 .. Len(s) \/ (i - Len(s) \in 1 .. Len(t) /\ ~ (i <= Len(s)))
  BY <1>1
<1>3. \A i \in 1 .. Len(t) :
        /\ i + Len(s) \in 1 .. (Len(s) + Len(t)) /\ ~ (i + Len(s) <= Len(s))
        /\ (i + Len(s)) - Len(s) = i
  BY <1>1
<1>4. \A i \in 1 .. Len(s) : i \in 1 .. (Len(s) + Len(t)) /\ i <= Len(s)
  BY <1>1
<1>5. \A i \in 1 .. Len(t) : (s \o t)[i + Len(s)] = t[i]
  BY <1>1, <1>3
<1>6. \A i \in 1 .. Len(s) : (s \o t)[i] = s[i]
  BY <1>1, <1>4
<1>7. ToSet(s \o t) \subseteq ToSet(s) \cup ToSet(t)
  BY <1>1, <1>2 DEF ToSet
<1>8. ToSet(s) \subseteq ToSet(s \o t)
  BY <1>1, <1>4, <1>6 DEF ToSet
<1>9. ToSet(t) \subseteq ToSet(s \o t)
  BY <1>1, <1>3, <1>5 DEF ToSet
<1> QED
  BY <1>1, <1>7, <1>8, <1>9

\* The items of a blocked pull request are its blockers.
LEMMA BlockedItems ==
  ASSUME NEW sync \in Syncs \cup {NoValue}, NEW ci \in Cis \cup {NoValue},
         NEW review \in Reviews \cup {NoValue}, NEW generic \in {NoValue, "BlockedUnknown"}
  PROVE  /\ Blocked(sync, ci, review, generic) \in State
         /\ from_state(Blocked(sync, ci, review, generic)) \in Seq(Item)
         /\ ToSet(from_state(Blocked(sync, ci, review, generic)))
              = {sync, ci, review, generic} \ {NoValue}
<1> DEFINE s == Blocked(sync, ci, review, generic)
<1>1. s \in State
  BY DEF Blocked, State, Syncs, Cis, Reviews
<1>2. from_state(s) = Some(sync) \o Some(ci) \o Some(review) \o Some(generic)
  <2>1. /\ s.tag = "Blocked" /\ s.branch_sync = sync /\ s.ci = ci
        /\ s.review = review /\ s.generic = generic
    BY DEF Blocked
  <2> HIDE DEF s
  <2>2. from_state(s) = Some(s.branch_sync) \o Some(s.ci) \o Some(s.review) \o Some(s.generic)
    BY <2>1 DEF from_state
  <2> QED
    BY <2>1, <2>2
<1>3. /\ sync \in Item \cup {NoValue} /\ ci \in Item \cup {NoValue}
      /\ review \in Item \cup {NoValue} /\ generic \in Item \cup {NoValue}
  <2>1. Syncs \subseteq Item /\ Cis \subseteq Item /\ Reviews \subseteq Item
        /\ "BlockedUnknown" \in Item
    BY DEF Item, Syncs, Cis, Reviews
  <2> QED
    BY <2>1
<1> DEFINE two == Some(sync) \o Some(ci)
           three == two \o Some(review)
           four == three \o Some(generic)
<1>4. two \in Seq(Item) /\ ToSet(two) = {sync, ci} \ {NoValue}
  BY <1>3, SomeFacts, ConcatElements
<1> HIDE DEF two
<1>5. three \in Seq(Item) /\ ToSet(three) = {sync, ci, review} \ {NoValue}
  BY <1>3, <1>4, SomeFacts, ConcatElements
<1> HIDE DEF three
<1>6. four \in Seq(Item) /\ ToSet(four) = {sync, ci, review, generic} \ {NoValue}
  BY <1>3, <1>5, SomeFacts, ConcatElements
<1> QED
  BY <1>1, <1>2, <1>6 DEF two, three

\* The other states have one item each.
LEMMA UnblockedItems ==
  ASSUME NEW tag \in {"MergeReady", "Draft", "Calculating"}
  PROVE  LET items == from_state([tag |-> tag])
         IN  /\ [tag |-> tag] \in State
             /\ items \in Seq(Item)
             /\ ToSet(items) = {IF tag = "Calculating" THEN "StatusCalculating" ELSE tag}
<1> DEFINE item == IF tag = "Calculating" THEN "StatusCalculating" ELSE tag
<1>1. from_state([tag |-> tag]) = <<item>>
  BY DEF from_state
<1>2. item \in Item
  BY DEF Item
<1>3. <<item>> \in Seq(Item) /\ ToSet(<<item>>) = {item}
  <2> HIDE DEF item
  <2>1. <<item>> \in Seq(Item) /\ DOMAIN <<item>> = {1} /\ <<item>>[1] = item
    BY <1>2
  <2> QED
    BY <2>1 DEF ToSet
<1> QED
  BY <1>1, <1>3 DEF State

\* What the answers are translated to.
LEMMA Translations ==
  ASSUME NEW n \in GhPrNode, NEW b \in BehindBy
  PROVE  /\ translate_sync(n.mergeable, b) \in Syncs \cup {NoValue}
         /\ aggregate_ci(CurrentBuckets(n)) \in Cis \cup {NoValue}
         /\ translate_review(n.review_decision) \in Reviews \cup {NoValue}
         /\ translate_unblocked(n.is_draft, n.merge_state_status)
              \in {"MergeReady", "Draft", NoValue}
<1>1. translate_sync(n.mergeable, b) \in Syncs \cup {NoValue}
  BY NoValueFacts DEF translate_sync, Syncs, BehindBy
<1>2. aggregate_ci(CurrentBuckets(n)) \in Cis \cup {NoValue}
  BY DEF aggregate_ci, Cis
<1>3. translate_review(n.review_decision) \in Reviews \cup {NoValue}
  BY DEF translate_review, Reviews
<1>4. n.is_draft \in BOOLEAN
  BY DEF GhPrNode
<1>5. translate_unblocked(n.is_draft, n.merge_state_status) \in {"MergeReady", "Draft", NoValue}
  BY <1>4 DEF translate_unblocked
<1> QED
  BY <1>1, <1>2, <1>3, <1>5

\* The items that the properties tell apart, for every answer to a comparison.
LEMMA VerdictFacts ==
  ASSUME NEW n \in GhPrNode, NEW b \in BehindBy
  PROVE  LET s == evaluate_single_pr(n, b)
             items == ToSet(from_state(s))
         IN  /\ s \in State /\ from_state(s) \in Seq(Item) /\ items # {}
             /\ "StatusCalculating" \in items <=> is_calculating(n)
             /\ "CiPending" \in items <=>
                  ~is_calculating(n) /\ aggregate_ci(CurrentBuckets(n)) = "CiPending"
             /\ "MergeReady" \in items =>
                  /\ translate_sync(n.mergeable, b) = NoValue
                  /\ aggregate_ci(CurrentBuckets(n)) = NoValue
                  /\ translate_review(n.review_decision) = NoValue
                  /\ translate_unblocked(n.is_draft, n.merge_state_status) = "MergeReady"
<1> DEFINE sync == translate_sync(n.mergeable, b)
           ci == aggregate_ci(CurrentBuckets(n))
           review == translate_review(n.review_decision)
           unblocked == translate_unblocked(n.is_draft, n.merge_state_status)
           s == evaluate_single_pr(n, b)
<1>1. ci_from_node(n) = ci
  <2>1. n.contexts \in Seq(CheckContext)
    BY DEF GhPrNode
  <2> QED
    BY <2>1, CiFromCurrentRuns
<1>2. /\ sync \in Syncs \cup {NoValue} /\ ci \in Cis \cup {NoValue}
      /\ review \in Reviews \cup {NoValue} /\ unblocked \in {"MergeReady", "Draft", NoValue}
  BY Translations
<1>3. s = IF is_calculating(n) THEN [tag |-> "Calculating"] ELSE evaluate(sync, ci, review, unblocked)
  BY <1>1 DEF evaluate_single_pr
<1> HIDE DEF sync, ci, review, unblocked, s
<1> DEFINE items == ToSet(from_state(s))
<1>g. SUFFICES
        /\ s \in State /\ from_state(s) \in Seq(Item) /\ items # {}
        /\ "StatusCalculating" \in items <=> is_calculating(n)
        /\ "CiPending" \in items <=> ~is_calculating(n) /\ ci = "CiPending"
        /\ "MergeReady" \in items =>
             sync = NoValue /\ ci = NoValue /\ review = NoValue /\ unblocked = "MergeReady"
  BY DEF sync, ci, review, unblocked, s
<1>4. CASE is_calculating(n)
  <2>1. s = [tag |-> "Calculating"]
    BY <1>3, <1>4
  <2>2. s \in State /\ from_state(s) \in Seq(Item) /\ items = {"StatusCalculating"}
    BY <2>1, UnblockedItems
  <2> HIDE DEF items
  <2> QED
    BY <1>4, <2>2
<1>5. CASE ~is_calculating(n) /\ {sync, ci, review} # {NoValue}
  <2>1. s = Blocked(sync, ci, review, NoValue)
    BY <1>3, <1>5 DEF evaluate
  <2>2. /\ s \in State /\ from_state(s) \in Seq(Item)
        /\ items = {sync, ci, review} \ {NoValue}
    <3>1. NoValue \in {NoValue, "BlockedUnknown"}
      OBVIOUS
    <3>2. {sync, ci, review, NoValue} \ {NoValue} = {sync, ci, review} \ {NoValue}
      OBVIOUS
    <3> QED
      BY <1>2, <2>1, <3>1, <3>2, BlockedItems
  <2>3. {sync, ci, review} \ {NoValue} # {}
    BY <1>5
  <2>4. "CiPending" # NoValue
    BY NoValueFacts DEF Item
  <2>5. /\ "StatusCalculating" \notin {sync, ci, review} \ {NoValue}
        /\ "MergeReady" \notin {sync, ci, review} \ {NoValue}
        /\ "CiPending" \in {sync, ci, review} \ {NoValue} <=> ci = "CiPending"
    BY <1>2, <2>4 DEF Syncs, Cis, Reviews
  <2> HIDE DEF items
  <2> QED
    BY <1>5, <2>2, <2>3, <2>5
<1>6. CASE ~is_calculating(n) /\ {sync, ci, review} = {NoValue} /\ unblocked # NoValue
  <2>1. s = [tag |-> unblocked] /\ unblocked \in {"MergeReady", "Draft"}
    BY <1>2, <1>3, <1>6 DEF evaluate
  <2>2. /\ s \in State /\ from_state(s) \in Seq(Item) /\ items = {unblocked}
    BY <2>1, UnblockedItems
  <2>3. sync = NoValue /\ ci = NoValue /\ review = NoValue /\ "CiPending" # NoValue
    BY <1>6, NoValueFacts DEF Item
  <2> HIDE DEF items
  <2> QED
    BY <1>6, <2>1, <2>2, <2>3
<1>7. CASE ~is_calculating(n) /\ {sync, ci, review} = {NoValue} /\ unblocked = NoValue
  <2>1. s = Blocked(NoValue, NoValue, NoValue, "BlockedUnknown")
    BY <1>3, <1>7 DEF evaluate
  <2>2. /\ s \in State /\ from_state(s) \in Seq(Item)
        /\ items = {NoValue, "BlockedUnknown"} \ {NoValue}
    <3>1. NoValue \in Syncs \cup {NoValue} /\ NoValue \in Cis \cup {NoValue}
          /\ NoValue \in Reviews \cup {NoValue}
      OBVIOUS
    <3>2. {NoValue, NoValue, NoValue, "BlockedUnknown"} = {NoValue, "BlockedUnknown"}
      OBVIOUS
    <3> QED
      BY <2>1, <3>1, <3>2, BlockedItems
  <2>3. ci = NoValue /\ "CiPending" # NoValue /\ "BlockedUnknown" # NoValue
    BY <1>7, NoValueFacts DEF Item
  <2> HIDE DEF items
  <2> QED
    BY <1>7, <2>2, <2>3
<1> QED
  BY <1>4, <1>5, <1>6, <1>7

------------------------------------------------------------------------------
(* The open pull requests. *)

\* A list has finitely many elements.
LEMMA FiniteElements ==
  ASSUME NEW S, NEW s \in Seq(S)
  PROVE  IsFiniteSet(ToSet(s)) /\ ToSet(s) \subseteq S
<1>1. Len(s) \in Nat /\ s \in [1 .. Len(s) -> S] /\ DOMAIN s = 1 .. Len(s)
  OBVIOUS
<1>2. s \in Surjection(1 .. Len(s), ToSet(s))
  BY <1>1 DEF Surjection, ToSet
<1>3. IsFiniteSet(1 .. Len(s))
  BY <1>1, FS_Interval
<1> QED
  BY <1>1, <1>2, <1>3, FS_Surjection DEF ToSet

OpenOf(ns) == {m \in ToSet(ns) : m.state = "OPEN"}

\* The open pull requests are all sorted, by their numbers.
LEMMA OpenFacts ==
  ASSUME NEW ns \in Seq(GhPrNode), DistinctNumbers(ns)
  PROVE  /\ IsFiniteSet(OpenOf(ns)) /\ OpenOf(ns) \subseteq GhPrNode
         /\ \A m, n \in OpenOf(ns) : m.number = n.number => m = n
         /\ open_sorted(ns) \in Seq(GhPrNode)
         /\ Len(open_sorted(ns)) = Cardinality(OpenOf(ns))
         /\ ToSet(open_sorted(ns)) = OpenOf(ns)
         /\ \A i, j \in DOMAIN open_sorted(ns) :
              i < j => open_sorted(ns)[i].number < open_sorted(ns)[j].number
<1> DEFINE O == OpenOf(ns)
           key == [n \in O |-> n.number]
           a == open_sorted(ns)
<1>1. IsFiniteSet(ToSet(ns)) /\ ToSet(ns) \subseteq GhPrNode
  BY FiniteElements
<1>2. O \in SUBSET ToSet(ns)
  BY DEF OpenOf
<1>3. IsFiniteSet(O) /\ O \subseteq GhPrNode
  BY <1>1, <1>2, FS_Subset
<1>4. ASSUME NEW m \in O, NEW n \in O, m.number = n.number PROVE m = n
  BY <1>2, <1>4 DEF ToSet, DistinctNumbers
<1>5. \A n \in GhPrNode : n.number \in Nat
  BY DEF GhPrNode
<1>6. key \in [O -> Nat] /\ \A n \in O : key[n] = n.number
  BY <1>3, <1>5
<1>d. \A x, y \in O : key[x] = key[y] => x = y
  BY <1>4, <1>6
<1>7. a = Ascending(key)
  BY DEF open_sorted, OpenOf
<1> HIDE DEF O, key, a
<1>8. /\ a \in Seq(O) /\ Len(a) = Cardinality(O)
      /\ \A x \in O : \E k \in 1 .. Cardinality(O) : a[k] = x
      /\ \A i, j \in 1 .. Cardinality(O) : i < j => key[a[i]] < key[a[j]]
  BY <1>3, <1>d, <1>6, <1>7, AscendingFacts
<1>9. a \in Seq(GhPrNode) /\ DOMAIN a = 1 .. Cardinality(O) /\ \A i \in DOMAIN a : a[i] \in O
  BY <1>3, <1>8
<1>10. ToSet(a) = O
  BY <1>8, <1>9 DEF ToSet
<1> QED
  BY <1>3, <1>4, <1>6, <1>8, <1>9, <1>10 DEF O, a

\* Nothing sorted is nothing.
LEMMA NothingToSort ==
  /\ open_sorted(<< >>) = << >>
  /\ by_index(<< >>) = << >>
<1>1. ASSUME NEW key, DOMAIN key = {} PROVE Ascending(key) = << >>
  <2>1. Cardinality(DOMAIN key) = 0
    BY <1>1, FS_EmptySet
  <2>2. 1 .. 0 = {}
    OBVIOUS
  <2> QED
    BY <2>1, <2>2 DEF Ascending
<1>2. ToSet(<< >>) = {}
  BY DEF ToSet
<1>3. open_sorted(<< >>) = << >>
  BY <1>1, <1>2 DEF open_sorted
<1>4. Ascending([r \in ToSet(<< >>) |-> r.idx]) = << >>
  BY <1>1, <1>2
<1>5. by_index(<< >>) = << >>
  BY <1>4 DEF by_index
<1> QED
  BY <1>3, <1>5

------------------------------------------------------------------------------
(* Every step keeps the invariant. *)

\* A task ends with the answer b, of a comparison or in place of one.
TaskEnds(idx, b) ==
  /\ idx \in Running
  /\ indexed' = Append(indexed, [idx |-> idx, pr |->
       [id |-> open_prs[idx].number, state |-> evaluate_single_pr(open_prs[idx], b)]])
  /\ UNCHANGED <<nodes, open_prs>>
  /\ b \in BehindBy
  /\ IF Compares(open_prs[idx]) THEN behind' = Put(behind, open_prs[idx].number, b)
     ELSE b = not_compared(open_prs[idx]) /\ UNCHANGED behind

LEMMA TaskEndsInv ==
  ASSUME TasksInv, NEW idx, NEW b, TaskEnds(idx, b)
  PROVE  TasksInv'
<1> DEFINE n == open_prs[idx]
           r == [idx |-> idx, pr |-> [id |-> n.number, state |-> evaluate_single_pr(n, b)]]
           Results == [idx : Nat, pr : [id : Nat, state : State]]
<1>1. /\ idx \in DOMAIN open_prs /\ idx \notin Done /\ b \in BehindBy
      /\ nodes' = nodes /\ open_prs' = open_prs /\ indexed' = Append(indexed, r)
  BY DEF TaskEnds, Running, Done
<1>2. /\ open_prs \in Seq(GhPrNode)
      /\ \A i, j \in DOMAIN open_prs : i < j => open_prs[i].number < open_prs[j].number
  BY OpenFacts DEF TasksInv
<1>3. /\ DOMAIN open_prs = 1 .. Len(open_prs) /\ Len(open_prs) \in Nat
      /\ \A i \in DOMAIN open_prs : i \in Nat /\ open_prs[i] \in GhPrNode
  BY <1>2
<1>4. \A i \in DOMAIN open_prs : open_prs[i].number \in Nat
  BY <1>3 DEF GhPrNode
<1>5. \A i, j \in DOMAIN open_prs : open_prs[i].number = open_prs[j].number => i = j
  BY <1>2, <1>3, <1>4
<1>6. r \in Results /\ r.idx = idx
  BY <1>1, <1>3, <1>4, VerdictFacts
<1>7. /\ indexed \in Seq(Results) /\ DOMAIN indexed = 1 .. Len(indexed) /\ Len(indexed) \in Nat
      /\ indexed' \in Seq(Results) /\ DOMAIN indexed' = 1 .. (Len(indexed) + 1)
      /\ \A i \in 1 .. Len(indexed) : indexed'[i] = indexed[i]
      /\ indexed'[Len(indexed) + 1] = r
  <2>1. indexed \in Seq(Results)
    BY DEF TasksInv
  <2> HIDE DEF r, Results
  <2> QED
    BY <2>1, <1>1, <1>6
<1>8. /\ \A i \in 1 .. (Len(indexed) + 1) : i \in 1 .. Len(indexed) \/ i = Len(indexed) + 1
      /\ \A i \in 1 .. Len(indexed) : i \in 1 .. (Len(indexed) + 1)
      /\ Len(indexed) + 1 \in 1 .. (Len(indexed) + 1)
  BY <1>7
<1> HIDE DEF r, Results
<1>9. Done' = Done \cup {idx}
  BY <1>6, <1>7, <1>8 DEF Done
<1>10. \A k \in Done : k \in DOMAIN open_prs /\ k # idx
  BY <1>1 DEF Done, TasksInv
<1>11. /\ DOMAIN behind' = {open_prs[k].number : k \in {j \in Done' : Compares(open_prs[j])}}
       /\ \A id \in DOMAIN behind' : behind'[id] \in BehindBy
  <2>1. CASE Compares(n)
    <3>1. behind' = Put(behind, n.number, b)
      BY <2>1 DEF TaskEnds
    <3>2. DOMAIN behind' = DOMAIN behind \cup {n.number}
      BY <3>1 DEF Put
    <3>3. \A id \in DOMAIN behind' : behind'[id] \in BehindBy
      BY <3>1, <3>2, <1>1 DEF Put, TasksInv
    <3> QED
      BY <2>1, <3>2, <3>3, <1>9 DEF TasksInv
  <2>2. CASE ~Compares(n)
    <3>1. behind' = behind
      BY <2>2 DEF TaskEnds
    <3> QED
      BY <2>2, <3>1, <1>9 DEF TasksInv
  <2> QED
    BY <2>1, <2>2
<1>12. ASSUME NEW k \in Done PROVE Answered(open_prs[k])' = Answered(open_prs[k])
  <2>1. CASE Compares(open_prs[k])
    <3>1. open_prs[k].number \in DOMAIN behind /\ open_prs[k].number # n.number
      BY <2>1, <1>1, <1>5, <1>10 DEF TasksInv
    <3>2. behind'[open_prs[k].number] = behind[open_prs[k].number]
      BY <3>1 DEF TaskEnds, Put
    <3> QED
      BY <2>1, <3>2, <1>1 DEF Answered
  <2>2. CASE ~Compares(open_prs[k])
    BY <2>2, <1>1 DEF Answered
  <2> QED
    BY <2>1, <2>2
<1>13. Answered(n)' = b
  <2>1. CASE Compares(n)
    <3>1. behind' = Put(behind, n.number, b)
      BY <2>1 DEF TaskEnds
    <3> QED
      BY <2>1, <3>1, <1>1 DEF Answered, Put
  <2>2. CASE ~Compares(n)
    BY <2>2, <1>1 DEF Answered, TaskEnds
  <2> QED
    BY <2>1, <2>2
<1>14. ASSUME NEW i \in DOMAIN indexed'
       PROVE  (indexed[i].idx \in DOMAIN open_prs /\ indexed[i] = Judged(indexed[i].idx))'
  <2>1. PICK k : k = indexed'[i].idx
    OBVIOUS
  <2> SUFFICES k \in DOMAIN open_prs /\ indexed'[i] = Judged(k)'
    BY <2>1, <1>1
  <2>2. CASE i \in 1 .. Len(indexed)
    <3>1. /\ indexed'[i] = indexed[i] /\ k \in DOMAIN open_prs
          /\ indexed[i] = Judged(k) /\ k \in Done
      BY <2>1, <2>2, <1>7 DEF TasksInv, Done
    <3>2. Judged(k)' = Judged(k)
      BY <3>1, <1>1, <1>12 DEF Judged, Verdict
    <3> QED
      BY <3>1, <3>2
  <2>3. CASE i = Len(indexed) + 1
    <3>1. indexed'[i] = r /\ k = idx
      BY <2>1, <2>3, <1>6, <1>7
    <3>2. r = Judged(idx)'
      BY <1>1, <1>13 DEF Judged, Verdict, r
    <3> QED
      BY <3>1, <3>2, <1>1
  <2> QED
    BY <2>2, <2>3, <1>7, <1>8
<1>15. ASSUME NEW i \in DOMAIN indexed', NEW j \in DOMAIN indexed',
              indexed'[i].idx = indexed'[j].idx
       PROVE  i = j
  <2>1. \A k \in 1 .. Len(indexed) : indexed'[k].idx \in Done
    BY <1>7 DEF Done
  <2>2. CASE i \in 1 .. Len(indexed) /\ j \in 1 .. Len(indexed)
    BY <2>2, <1>7, <1>15 DEF TasksInv
  <2>3. CASE i = Len(indexed) + 1 /\ j \in 1 .. Len(indexed)
    BY <2>1, <2>3, <1>6, <1>7, <1>10, <1>15
  <2>4. CASE i \in 1 .. Len(indexed) /\ j = Len(indexed) + 1
    BY <2>1, <2>4, <1>6, <1>7, <1>10, <1>15
  <2>5. CASE i = Len(indexed) + 1 /\ j = Len(indexed) + 1
    BY <2>5
  <2> QED
    BY <2>2, <2>3, <2>4, <2>5, <1>7, <1>8
<1>16. /\ nodes' \in Seq(GhPrNode) /\ DistinctNumbers(nodes')
       /\ open_prs' = open_sorted(nodes')
  BY <1>1 DEF TasksInv
<1> QED
  BY <1>1, <1>7, <1>11, <1>14, <1>15, <1>16 DEF TasksInv, Results

\* A failure is reported as one.
LEMMA FailedIsQuiet == \A e : Failed(e) \in QuietPrompt
BY DEF Failed, QuietPrompt, repository_error

\* Before the answer there is nothing, and after it the open pull requests.
LEMMA TasksStart ==
  ASSUME NEW ns, ns \in Seq(GhPrNode), DistinctNumbers(ns),
         nodes' = ns, open_prs' = open_sorted(ns), indexed' = << >>, DOMAIN behind' = {}
  PROVE  TasksInv'
<1>1. DOMAIN << >> = {} /\ << >> \in Seq([idx : Nat, pr : [id : Nat, state : State]])
  OBVIOUS
<1>2. Done' = {}
  BY <1>1 DEF Done
<1> QED
  BY <1>1, <1>2 DEF TasksInv

\* Initially nothing is known.
LEMMA InitInv == Init => Inv
<1> SUFFICES ASSUME Init PROVE Inv
  OBVIOUS
<1>1. StepInv
  BY DEF Init, StepInv
<1>2. << >> \in Seq(GhPrNode) /\ DistinctNumbers(<< >>)
  BY DEF DistinctNumbers
<1>3. DOMAIN << >> = {} /\ << >> \in Seq([idx : Nat, pr : [id : Nat, state : State]])
  OBVIOUS
<1>4. Done = {}
  BY <1>3 DEF Done, Init
<1>5. TasksInv
  BY <1>2, <1>3, <1>4, NothingToSort DEF TasksInv, Init
<1> QED
  BY <1>1, <1>5 DEF Inv

\* Before the answer of GitHub no comparison was made.
LEMMA NothingBehind ==
  ASSUME TasksInv, indexed = << >>
  PROVE  DOMAIN behind = {} /\ Done = {}
<1>1. DOMAIN indexed = {}
  OBVIOUS
<1> QED
  BY <1>1 DEF TasksInv, Done

\* Nothing the tasks know changes.
LEMMA TasksUnchanged ==
  ASSUME TasksInv, UNCHANGED <<nodes, open_prs, behind, indexed>>
  PROVE  TasksInv'
<1>1. Done' = Done
  BY DEF Done
<1>2. ASSUME NEW k PROVE Judged(k)' = Judged(k)
  BY DEF Judged, Verdict, Answered
<1>3. ASSUME NEW i \in DOMAIN indexed
      PROVE  (indexed[i].idx \in DOMAIN open_prs /\ indexed[i] = Judged(indexed[i].idx))'
  <2>1. PICK k : k = indexed[i].idx
    OBVIOUS
  <2>2. k \in DOMAIN open_prs /\ indexed[i] = Judged(k)
    BY <2>1, <1>3 DEF TasksInv
  <2> QED
    BY <2>1, <2>2, <1>2
<1> QED
  BY <1>1, <1>3 DEF TasksInv

\* fetch_prompt returns before the answer of GitHub.
LEMMA QuietReturn ==
  ASSUME Inv, step \in {"Git", "GraphQl"}, NEW p \in QuietPrompt, Return(p),
         UNCHANGED <<branch, nodes>>
  PROVE  Inv'
<1>1. TasksInv'
  BY TasksUnchanged DEF Inv, Return
<1>2. StepInv'
  BY DEF Inv, StepInv, Return
<1> QED
  BY <1>1, <1>2 DEF Inv

\* The answer of GitHub is taken.
LEMMA AnswersInv ==
  ASSUME Inv, NEW ns \in Answers, NEW default_branch, GraphQlAnswers(ns, default_branch)
  PROVE  Inv'
<1>1. /\ step = "GraphQl" /\ nodes = << >> /\ open_prs = << >> /\ indexed = << >>
      /\ prompt = Pending /\ shown = NothingShown("Warm")
      /\ branch \in Branch \cup {NoName} /\ nodes' = ns /\ branch' = branch
  BY DEF Inv, StepInv, GraphQlAnswers
<1>2. ns \in Seq(GhPrNode) /\ DistinctNumbers(ns)
  BY AnswersAssumption DEF DistinctNumbers
<1>3. DOMAIN behind = {}
  BY <1>1, NothingBehind DEF Inv
<1>4. CASE ns = << >> /\ Return(no_pull_requests(default_branch))
  <2>1. no_pull_requests(default_branch) \in QuietPrompt
    BY DEF no_pull_requests, QuietPrompt
  <2> QED
    BY <1>1, <1>4, <2>1, QuietReturn
<1>5. CASE ns # << >> /\ open_sorted(ns) = << >> /\ Return([kind |-> "PullRequests", prs |-> << >>])
  <2>1. /\ open_prs' = << >> /\ behind' = behind /\ indexed' = << >> /\ step' = "Rendered"
        /\ prompt' = [kind |-> "PullRequests", prs |-> << >>] /\ shown' = render(prompt')
    BY <1>1, <1>5 DEF Return
  <2>2. TasksInv'
    BY <1>1, <1>2, <1>3, <1>5, <2>1, TasksStart
  <2>3. Running' = {}
    BY <2>1 DEF Running
  <2>4. prompt' = [kind |-> "PullRequests", prs |-> by_index(indexed')]
    BY <2>1, NothingToSort
  <2>5. StepInv'
    BY <1>1, <1>5, <2>1, <2>3, <2>4 DEF StepInv
  <2> QED
    BY <2>2, <2>5 DEF Inv
<1>6. CASE /\ ns # << >> /\ open_sorted(ns) # << >>
           /\ step' = "Tasks" /\ open_prs' = open_sorted(ns)
           /\ UNCHANGED <<behind, indexed, prompt, shown>>
  <2>1. TasksInv'
    BY <1>1, <1>2, <1>3, <1>6, TasksStart
  <2>2. StepInv'
    BY <1>1, <1>6 DEF StepInv
  <2> QED
    BY <2>1, <2>2 DEF Inv
<1> QED
  BY <1>4, <1>5, <1>6 DEF GraphQlAnswers

\* A task ends, after a comparison or without one.
LEMMA TaskInv ==
  ASSUME Inv, NEW idx, EvaluatedAtOnce(idx) \/ CompareAnswers(idx)
  PROVE  Inv'
<1>1. \E b : TaskEnds(idx, b)
  <2>1. CASE EvaluatedAtOnce(idx)
    <3>1. not_compared(open_prs[idx]) \in BehindBy
      BY DEF not_compared, BehindBy
    <3>2. TaskEnds(idx, not_compared(open_prs[idx]))
      BY <2>1, <3>1 DEF EvaluatedAtOnce, Ends, TaskEnds
    <3> QED
      BY <3>2
  <2>2. CASE CompareAnswers(idx)
    <3>1. PICK b \in BehindBy : Ends(idx, b) /\ behind' = Put(behind, open_prs[idx].number, b)
      BY <2>2 DEF CompareAnswers
    <3>2. TaskEnds(idx, b)
      BY <2>2, <3>1 DEF CompareAnswers, Ends, TaskEnds
    <3> QED
      BY <3>2
  <2> QED
    BY <2>1, <2>2
<1>2. TasksInv'
  BY <1>1, TaskEndsInv DEF Inv
<1>3. step = "Tasks" /\ UNCHANGED <<step, branch, nodes, open_prs, prompt, shown>>
  BY DEF EvaluatedAtOnce, CompareAnswers, Ends
<1>4. StepInv'
  BY <1>3 DEF Inv, StepInv
<1> QED
  BY <1>2, <1>4 DEF Inv

LEMMA NextInv == Inv /\ [Next]_vars => Inv'
<1> SUFFICES ASSUME Inv, [Next]_vars PROVE Inv'
  OBVIOUS
<1>1. CASE NotARepository
  <2>1. [kind |-> "NoRepository"] \in QuietPrompt
    BY DEF QuietPrompt
  <2> QED
    BY <1>1, <2>1, QuietReturn DEF NotARepository
<1>2. CASE current_branch
  <2>1. TasksInv'
    BY <1>2, TasksUnchanged DEF Inv, current_branch
  <2>2. StepInv'
    BY <1>2 DEF Inv, StepInv, current_branch
  <2> QED
    BY <2>1, <2>2 DEF Inv
<1>3. CASE GraphQlFails
  <2>1. [kind |-> "UnsupportedRepository"] \in QuietPrompt
    BY DEF QuietPrompt
  <2>2. \E p \in QuietPrompt : Return(p)
    BY <1>3, <2>1, FailedIsQuiet DEF GraphQlFails
  <2>3. step = "GraphQl" /\ UNCHANGED <<branch, nodes>>
    BY <1>3 DEF GraphQlFails
  <2> QED
    BY <2>2, <2>3, QuietReturn
<1>4. CASE \E ns \in Answers, default_branch \in Branch \cup {NoName} :
             GraphQlAnswers(ns, default_branch)
  BY <1>4, AnswersInv
<1>5. CASE \E idx \in DOMAIN open_prs : EvaluatedAtOnce(idx) \/ CompareAnswers(idx)
  BY <1>5, TaskInv
<1>6. CASE AllJoined
  <2>1. TasksInv'
    BY <1>6, TasksUnchanged DEF Inv, AllJoined, Return
  <2>2. Running' = Running
    BY <1>6 DEF AllJoined, Return, Running
  <2>3. StepInv'
    BY <1>6, <2>2 DEF Inv, StepInv, AllJoined, Return
  <2> QED
    BY <2>1, <2>3 DEF Inv
<1>7. CASE UNCHANGED vars
  <2>1. TasksInv'
    BY <1>7, TasksUnchanged DEF Inv, vars
  <2>2. Running' = Running
    BY <1>7 DEF Running, vars
  <2>3. StepInv'
    BY <1>7, <2>2 DEF Inv, StepInv, vars
  <2> QED
    BY <2>1, <2>3 DEF Inv
<1> QED
  BY <1>1, <1>2, <1>3, <1>4, <1>5, <1>6, <1>7 DEF Next

LEMMA InvHolds == Spec => []Inv
BY InitInv, NextInv, PTL DEF Spec

------------------------------------------------------------------------------
(* What is shown in the end. *)

\* The entry of an open pull request in the list for watch.
Listed(n) == [pr_id |-> n.number, items |-> from_state(Verdict(n))]

\* The answer to the comparison of an open pull request is known in the end.
LEMMA AnsweredFacts ==
  ASSUME Inv, Evaluated
  PROVE  /\ OpenNodes = OpenOf(nodes)
         /\ \A n \in OpenNodes :
              /\ n \in GhPrNode /\ n.number \in Nat
              /\ Answered(n) \in BehindBy
              /\ n.number \in DOMAIN behind <=> Compares(n)
         /\ \A m, n \in OpenNodes : m.number = n.number => m = n
         /\ ToSet(open_prs) = OpenNodes
         /\ Done = DOMAIN open_prs
<1>1. OpenNodes = OpenOf(nodes)
  BY DEF OpenNodes, OpenOf
<1>2. /\ OpenNodes \subseteq GhPrNode
      /\ \A m, n \in OpenNodes : m.number = n.number => m = n
      /\ ToSet(open_prs) = OpenNodes
  BY <1>1, OpenFacts DEF Inv, TasksInv
<1>3. \A n \in GhPrNode : n.number \in Nat
  BY DEF GhPrNode
<1>4. Running = {}
  <2>1. \A p \in QuietPrompt : p.kind # "PullRequests"
    BY DEF QuietPrompt
  <2> QED
    BY <2>1 DEF Inv, StepInv, Evaluated
<1>5. Done = DOMAIN open_prs
  <2>1. Running = DOMAIN open_prs \ Done
    BY DEF Running, Done
  <2>2. Done \subseteq DOMAIN open_prs
    BY DEF Done, Inv, TasksInv
  <2> QED
    BY <1>4, <2>1, <2>2
<1>6. ASSUME NEW n \in OpenNodes
      PROVE  Answered(n) \in BehindBy /\ (n.number \in DOMAIN behind <=> Compares(n))
  <2>1. PICK k \in DOMAIN open_prs : open_prs[k] = n
    BY <1>2 DEF ToSet
  <2>2. \A j \in DOMAIN open_prs : open_prs[j] \in OpenNodes
    BY <1>2 DEF ToSet
  <2>3. CASE Compares(n)
    <3>1. n.number \in DOMAIN behind
      BY <1>5, <2>1, <2>3 DEF Inv, TasksInv
    <3>2. Answered(n) = behind[n.number]
      BY <2>3 DEF Answered
    <3> QED
      BY <2>3, <3>1, <3>2 DEF Inv, TasksInv
  <2>4. CASE ~Compares(n)
    <3>1. Answered(n) \in BehindBy
      BY <2>4 DEF Answered, not_compared, BehindBy
    <3>2. ASSUME n.number \in DOMAIN behind PROVE FALSE
      <4>1. PICK j \in Done : Compares(open_prs[j]) /\ open_prs[j].number = n.number
        BY <3>2 DEF Inv, TasksInv
      <4>2. open_prs[j] = n
        BY <4>1, <1>2, <1>5, <2>2
      <4> QED
        BY <4>1, <4>2, <2>4
    <3> QED
      BY <2>4, <3>1, <3>2
  <2> QED
    BY <2>3, <2>4
<1> QED
  BY <1>1, <1>2, <1>3, <1>5, <1>6

\* The results of the tasks, put back in the order of the pull requests, are
\* the verdicts on the open pull requests.
LEMMA ResultsFacts ==
  ASSUME Inv, Evaluated
  PROVE  /\ prompt = [kind |-> "PullRequests", prs |-> by_index(indexed)]
         /\ shown = render(prompt) /\ nodes # << >>
         /\ by_index(indexed) \in Seq([id : Nat, state : State])
         /\ ToSet(by_index(indexed)) = {[id |-> n.number, state |-> Verdict(n)] : n \in OpenNodes}
<1> DEFINE Results == [idx : Nat, pr : [id : Nat, state : State]]
           R == ToSet(indexed)
           key == [r \in R |-> r.idx]
           sorted == Ascending(key)
           prs == by_index(indexed)
<1>1. prompt = [kind |-> "PullRequests", prs |-> prs] /\ shown = render(prompt) /\ nodes # << >>
  <2>1. \A p \in QuietPrompt : p.kind # "PullRequests"
    BY DEF QuietPrompt
  <2> QED
    BY <2>1 DEF Inv, StepInv, Evaluated
<1>2. indexed \in Seq(Results)
  BY DEF Inv, TasksInv
<1>3. IsFiniteSet(R) /\ R \subseteq Results
  <2> HIDE DEF Results
  <2> QED
    BY <1>2, FiniteElements
<1>4. key \in [R -> Nat]
  BY <1>3
<1>5. \A r, q \in R : key[r] = key[q] => r = q
  BY DEF ToSet, Inv, TasksInv
<1>6. prs = [i \in DOMAIN sorted |-> sorted[i].pr]
  BY DEF by_index
<1> HIDE DEF R, key
<1>7. /\ sorted \in Seq(R) /\ Len(sorted) = Cardinality(R)
      /\ \A x \in R : \E k \in 1 .. Cardinality(R) : sorted[k] = x
  BY <1>3, <1>4, <1>5, AscendingFacts
<1> HIDE DEF sorted, prs
<1>8. DOMAIN sorted = 1 .. Cardinality(R) /\ \A i \in DOMAIN sorted : sorted[i] \in R
  BY <1>7
<1>9. Cardinality(R) \in Nat
  BY <1>3, FS_CardinalityType
<1>10. prs \in Seq([id : Nat, state : State])
  <2>1. \A r \in R : r.pr \in [id : Nat, state : State]
    BY <1>3
  <2> DEFINE P == [id : Nat, state : State]
  <2> HIDE DEF P
  <2>2. prs \in [1 .. Cardinality(R) -> P]
    BY <1>6, <1>8, <2>1 DEF P
  <2>3. prs \in Seq(P)
    BY <1>9, <2>2
  <2> QED
    BY <2>3 DEF P
<1>11. ToSet(prs) = {r.pr : r \in R}
  <2>1. ToSet(prs) \subseteq {r.pr : r \in R}
    BY <1>6, <1>8 DEF ToSet
  <2>2. {r.pr : r \in R} \subseteq ToSet(prs)
    BY <1>6, <1>7, <1>8 DEF ToSet
  <2> QED
    BY <2>1, <2>2
<1>12. R = {Judged(k) : k \in DOMAIN open_prs}
  <2>1. R = {Judged(k) : k \in Done}
    BY DEF R, ToSet, Done, Inv, TasksInv
  <2> QED
    BY <2>1, AnsweredFacts
<1>13. {r.pr : r \in R} = {Judged(k).pr : k \in DOMAIN open_prs}
  BY <1>12
<1>14. \A k \in DOMAIN open_prs :
         Judged(k).pr = [id |-> open_prs[k].number, state |-> Verdict(open_prs[k])]
  BY DEF Judged
<1>15. OpenNodes = {open_prs[k] : k \in DOMAIN open_prs}
  BY AnsweredFacts DEF ToSet
<1>16. {Judged(k).pr : k \in DOMAIN open_prs}
         = {[id |-> n.number, state |-> Verdict(n)] : n \in OpenNodes}
  BY <1>14, <1>15
<1> QED
  BY <1>1, <1>10, <1>11, <1>13, <1>16 DEF prs

\* The list for watch.
LEMMA ListedFacts ==
  ASSUME Inv, Evaluated
  PROVE  /\ shown.pr_outputs \in Seq([pr_id : Nat, items : Seq(Item)])
         /\ ToSet(shown.pr_outputs) = {Listed(n) : n \in OpenNodes}
         /\ Len(shown.pr_outputs) = Cardinality(OpenNodes)
         /\ \A i, j \in 1 .. Len(shown.pr_outputs) :
              i < j => shown.pr_outputs[i].pr_id < shown.pr_outputs[j].pr_id
         /\ IF OpenNodes = {} THEN shown = NothingShown("Terminal")
            ELSE shown = RenderPrs(shown.pr_outputs)
<1> DEFINE prs == by_index(indexed)
           L == {Listed(n) : n \in OpenNodes}
           key == [x \in L |-> x.pr_id]
<1>1. /\ prompt.kind = "PullRequests" /\ prompt.prs = prs /\ shown = render(prompt)
      /\ prs \in Seq([id : Nat, state : State])
      /\ ToSet(prs) = {[id |-> n.number, state |-> Verdict(n)] : n \in OpenNodes}
  BY ResultsFacts
<1> HIDE DEF prs
<1>2. prs = << >> <=> OpenNodes = {}
  <2>1. prs = << >> <=> DOMAIN prs = {}
    BY <1>1
  <2>2. ToSet(prs) = {} <=> DOMAIN prs = {}
    BY DEF ToSet
  <2> QED
    BY <1>1, <2>1, <2>2
<1>3. CASE OpenNodes = {}
  <2>1. shown = NothingShown("Terminal")
    BY <1>1, <1>2, <1>3 DEF render
  <2>2. shown.pr_outputs = << >>
    BY <2>1 DEF NothingShown
  <2>3. /\ << >> \in Seq([pr_id : Nat, items : Seq(Item)]) /\ ToSet(<< >>) = {}
        /\ Len(<< >>) = 0 /\ 1 .. 0 = {}
    BY DEF ToSet
  <2> QED
    BY <1>3, <2>1, <2>2, <2>3, FS_EmptySet
<1>4. CASE OpenNodes # {}
  <2> DEFINE outputs == to_display_items(prs)
  <2>1. shown = RenderPrs(outputs)
    BY <1>1, <1>2, <1>4 DEF render
  <2>2. shown.pr_outputs = outputs
    BY <2>1 DEF RenderPrs
  <2>3. {[pr_id |-> pr.id, items |-> from_state(pr.state)] : pr \in ToSet(prs)} = L
    <3> DEFINE item(pr) == [pr_id |-> pr.id, items |-> from_state(pr.state)]
               result(n) == [id |-> n.number, state |-> Verdict(n)]
    <3>1. \A n \in OpenNodes : item(result(n)) = Listed(n)
      BY DEF Listed
    <3>2. ToSet(prs) = {result(n) : n \in OpenNodes}
      BY <1>1
    <3> HIDE DEF item, result
    <3>3. {item(pr) : pr \in ToSet(prs)} = L
      BY <3>1, <3>2
    <3> QED
      BY <3>3 DEF item
  <2>4. outputs = Ascending(key)
    BY <2>3 DEF to_display_items
  <2>5. \A n \in OpenNodes : Listed(n) \in [pr_id : Nat, items : Seq(Item)]
    <3> SUFFICES ASSUME NEW n \in OpenNodes PROVE Listed(n) \in [pr_id : Nat, items : Seq(Item)]
      OBVIOUS
    <3>1. n \in GhPrNode /\ n.number \in Nat /\ Answered(n) \in BehindBy
      BY AnsweredFacts
    <3>2. from_state(Verdict(n)) \in Seq(Item)
      BY <3>1, VerdictFacts DEF Verdict
    <3> QED
      BY <3>1, <3>2 DEF Listed
  <2>6. IsFiniteSet(OpenNodes)
    BY OpenFacts, AnsweredFacts DEF Inv, TasksInv
  <2>7. IsFiniteSet(L) /\ Cardinality(L) = Cardinality(OpenNodes)
    <3> DEFINE f == [n \in OpenNodes |-> Listed(n)]
    <3>1. \A m, n \in OpenNodes : f[m] = f[n] => m = n
      BY AnsweredFacts DEF Listed
    <3>2. f \in Injection(OpenNodes, L)
      BY <3>1 DEF Injection, IsInjective
    <3>3. f \in Surjection(OpenNodes, L)
      BY DEF Surjection
    <3> HIDE DEF f, L
    <3> QED
      BY <2>6, <3>2, <3>3, FS_Surjection
  <2>8. \A x, y \in L : x.pr_id = y.pr_id => x = y
    BY AnsweredFacts DEF Listed
  <2>9. key \in [L -> Nat] /\ \A x, y \in L : key[x] = key[y] => x = y
    BY <2>5, <2>8
  <2>10. L \subseteq [pr_id : Nat, items : Seq(Item)] /\ \A x \in L : key[x] = x.pr_id
    BY <2>5
  <2> HIDE DEF L, key, outputs
  <2>k. IsFiniteSet(L) /\ key \in [L -> Nat]
    BY <2>7, <2>9
  <2>d. \A x, y \in L : key[x] = key[y] => x = y
    BY <2>9
  <2>11. /\ outputs \in Seq(L) /\ Len(outputs) = Cardinality(L)
         /\ \A x \in L : \E k \in 1 .. Cardinality(L) : outputs[k] = x
         /\ \A i, j \in 1 .. Cardinality(L) : i < j => key[outputs[i]] < key[outputs[j]]
    <3> DEFINE a == Ascending(key)
    <3>1. /\ a \in Seq(L) /\ Len(a) = Cardinality(L)
          /\ \A x \in L : \E k \in 1 .. Cardinality(L) : a[k] = x
      BY <2>k, <2>d, AscendingFacts
    <3>2. \A i, j \in 1 .. Cardinality(L) : i < j => key[a[i]] < key[a[j]]
      BY <2>k, <2>d, AscendingFacts
    <3> HIDE DEF a
    <3>3. outputs = a
      BY <2>4 DEF a
    <3> QED
      BY <3>1, <3>2, <3>3
  <2>12. DOMAIN outputs = 1 .. Cardinality(L) /\ \A i \in DOMAIN outputs : outputs[i] \in L
    BY <2>11
  <2>13. outputs \in Seq([pr_id : Nat, items : Seq(Item)]) /\ ToSet(outputs) = L
    <3>1. ToSet(outputs) = L
      BY <2>11, <2>12 DEF ToSet
    <3> DEFINE P == [pr_id : Nat, items : Seq(Item)]
    <3>2. L \subseteq P
      BY <2>10
    <3> HIDE DEF P
    <3>3. outputs \in Seq(P)
      BY <2>11, <3>2
    <3> QED
      BY <3>1, <3>3 DEF P
  <2>14. \A i, j \in 1 .. Cardinality(L) : i < j => outputs[i].pr_id < outputs[j].pr_id
    BY <2>10, <2>11, <2>12
  <2> QED
    BY <1>4, <2>1, <2>2, <2>7, <2>11, <2>13, <2>14 DEF L
<1> QED
  BY <1>3, <1>4

\* The items listed for an open pull request are those of its verdict.
LEMMA ItemsFacts ==
  ASSUME Inv, Evaluated, NEW n \in OpenNodes
  PROVE  ItemsOf(n.number) = ToSet(from_state(Verdict(n)))
<1>1. {y \in ToSet(shown.pr_outputs) : y.pr_id = n.number} = {Listed(n)}
  BY ListedFacts, AnsweredFacts DEF Listed
<1>2. Listed(n).items = from_state(Verdict(n))
  BY DEF Listed
<1> QED
  BY <1>1, <1>2 DEF ItemsOf

\* Where no pull request was evaluated, the prompt has no list and waits.
LEMMA QuietShown ==
  ASSUME NEW p \in QuietPrompt
  PROVE  render(p).refresh_mode = "Warm" /\ render(p).pr_outputs = << >>
<1>1. CASE p.kind \in {"NoRepository", "UnsupportedRepository", "DefaultBranch"}
  BY <1>1 DEF render, NothingShown
<1>2. CASE p.kind = "NoPullRequest"
  BY <1>2 DEF render, OneToken, NothingShown
<1>3. CASE p.kind = "Error"
  BY <1>3 DEF render, OneToken, NothingShown
<1> QED
  BY <1>1, <1>2, <1>3 DEF QuietPrompt

\* The types of the variables, whatever GitHub lists and gh answers: the
\* verdict on every pull request is a state of the enum, and its items are
\* items that render knows.
THEOREM FetchTypeOK == Spec => []TypeOK
<1>1. Inv => TypeOK
  <2> SUFFICES ASSUME Inv PROVE TypeOK
    OBVIOUS
  <2>1. /\ step \in {"Git", "GraphQl", "Tasks", "Rendered"} /\ branch \in Branch \cup {NoName}
        /\ nodes \in Seq(GhPrNode) /\ open_prs \in Seq(GhPrNode)
        /\ \A id \in DOMAIN behind : behind[id] \in BehindBy
        /\ indexed \in Seq([idx : Nat, pr : [id : Nat, state : State]])
    BY OpenFacts DEF Inv, TasksInv, StepInv
  <2> DEFINE Shown == /\ prompt \in Result
                      /\ shown.refresh_mode \in {"Hot", "Warm", "Terminal"}
                      /\ shown.pr_outputs \in Seq([pr_id : Nat, items : Seq(Item)])
  <2>s. SUFFICES Shown
    BY <2>1 DEF TypeOK
  <2>2. << >> \in Seq([pr_id : Nat, items : Seq(Item)])
    OBVIOUS
  <2>3. CASE step # "Rendered"
    <3>1. prompt = Pending /\ shown = NothingShown("Warm")
      BY <2>3 DEF Inv, StepInv
    <3> QED
      BY <2>2, <3>1 DEF Pending, NothingShown, Result
  <2>4. CASE step = "Rendered" /\ prompt \in QuietPrompt
    <3>1. shown.refresh_mode = "Warm" /\ shown.pr_outputs = << >>
      BY <2>4, QuietShown DEF Inv, StepInv
    <3>2. prompt \in Result
      BY <2>4 DEF QuietPrompt, Result
    <3> QED
      BY <2>2, <3>1, <3>2
  <2>5. CASE Evaluated
    <3>1. prompt = [kind |-> "PullRequests", prs |-> by_index(indexed)]
          /\ by_index(indexed) \in Seq([id : Nat, state : State])
      BY <2>5, ResultsFacts
    <3>2. prompt \in Result
      BY <3>1 DEF Result
    <3>3. /\ shown.pr_outputs \in Seq([pr_id : Nat, items : Seq(Item)])
          /\ \/ shown = NothingShown("Terminal")
             \/ shown = RenderPrs(shown.pr_outputs)
      BY <2>5, ListedFacts
    <3>4. shown.refresh_mode \in {"Hot", "Warm", "Terminal"}
      BY <3>3 DEF NothingShown, RenderPrs, refresh_mode
    <3> QED
      BY <3>2, <3>3, <3>4
  <2>6. step # "Rendered" \/ (step = "Rendered" /\ prompt \in QuietPrompt) \/ Evaluated
    BY DEF Inv, StepInv, Evaluated
  <2> QED
    BY <2>3, <2>4, <2>5, <2>6
<1> QED
  BY <1>1, InvHolds, PTL

\* A pull request is shown as ready for merge only if GitHub calls it clean,
\* the current run of each of its checks has passed, no review is missing and
\* the comparison with its base was answered with zero commits behind,
\* whatever else is listed and in whatever order the tasks end.
THEOREM ReadinessIsEarned == Spec => []ReadyIsEarned
<1>1. Inv => ReadyIsEarned
  <2> SUFFICES ASSUME Inv, Evaluated, NEW n \in OpenNodes, "MergeReady" \in ItemsOf(n.number)
               PROVE  /\ n.merge_state_status \in {"CLEAN", "HAS_HOOKS"} /\ ~n.is_draft
                      /\ n.mergeable # "CONFLICTING"
                      /\ CurrentBuckets(n) \subseteq {"Other"}
                      /\ n.review_decision \notin {"CHANGES_REQUESTED", "REVIEW_REQUIRED"}
                      /\ Compares(n) => n.number \in DOMAIN behind /\ behind[n.number] = 0
    BY DEF ReadyIsEarned
  <2>1. /\ n \in GhPrNode /\ Answered(n) \in BehindBy
        /\ n.number \in DOMAIN behind <=> Compares(n)
    BY AnsweredFacts
  <2>2. "MergeReady" \in ToSet(from_state(Verdict(n)))
    BY ItemsFacts
  <2>3. /\ translate_sync(n.mergeable, Answered(n)) = NoValue
        /\ aggregate_ci(CurrentBuckets(n)) = NoValue
        /\ translate_review(n.review_decision) = NoValue
        /\ translate_unblocked(n.is_draft, n.merge_state_status) = "MergeReady"
    BY <2>1, <2>2, VerdictFacts DEF Verdict
  <2>4. n.mergeable # "CONFLICTING" /\ Answered(n) = 0
    BY <2>3, NoValueFacts DEF translate_sync, Item
  <2>5. CurrentBuckets(n) \subseteq {"Other"}
    <3>1. CurrentBuckets(n) \cap {"Fail", "Cancel", "ActionRequired", "Pending"} = {}
      BY <2>3, NoValueFacts DEF aggregate_ci, Item
    <3>2. \A c : context_to_bucket(c)
                   \in {"Fail", "Cancel", "ActionRequired", "Pending", "Other"}
      BY DEF context_to_bucket
    <3>3. CurrentBuckets(n)
            \subseteq {"Fail", "Cancel", "ActionRequired", "Pending", "Other"}
      BY <3>2 DEF CurrentBuckets
    <3> QED
      BY <3>1, <3>3
  <2>6. n.review_decision \notin {"CHANGES_REQUESTED", "REVIEW_REQUIRED"}
    BY <2>3, NoValueFacts DEF translate_review, Item
  <2>7. n.merge_state_status \in {"CLEAN", "HAS_HOOKS"} /\ ~n.is_draft
    BY <2>1, <2>3, NoValueFacts DEF translate_unblocked, Item, GhPrNode
  <2>8. Compares(n) => n.number \in DOMAIN behind /\ behind[n.number] = 0
    BY <2>1, <2>4 DEF Answered
  <2> QED
    BY <2>4, <2>5, <2>6, <2>7, <2>8
<1> QED
  BY <1>1, InvHolds, PTL

\* Each open pull request is listed once with at least one item, and none that
\* is over is listed.
THEOREM OpenOnesShown == Spec => []OpenPrsShown
<1>1. Inv => OpenPrsShown
  <2> SUFFICES ASSUME Inv, Evaluated
               PROVE  /\ {x.pr_id : x \in ToSet(shown.pr_outputs)} = {n.number : n \in OpenNodes}
                      /\ Len(shown.pr_outputs) = Cardinality(OpenNodes)
                      /\ \A x \in ToSet(shown.pr_outputs) : x.items # << >>
    BY DEF OpenPrsShown
  <2>1. ToSet(shown.pr_outputs) = {Listed(n) : n \in OpenNodes}
        /\ Len(shown.pr_outputs) = Cardinality(OpenNodes)
    BY ListedFacts
  <2>2. \A n \in OpenNodes : Listed(n).pr_id = n.number
                             /\ Listed(n).items = from_state(Verdict(n))
    BY DEF Listed
  <2>3. {x.pr_id : x \in ToSet(shown.pr_outputs)} = {n.number : n \in OpenNodes}
    BY <2>1, <2>2
  <2>4. ASSUME NEW n \in OpenNodes PROVE from_state(Verdict(n)) # << >>
    <3>1. ToSet(from_state(Verdict(n))) # {}
      BY AnsweredFacts, VerdictFacts DEF Verdict
    <3>2. ToSet(<< >>) = {}
      BY DEF ToSet
    <3> QED
      BY <3>1, <3>2
  <2> QED
    BY <2>1, <2>2, <2>3, <2>4
<1> QED
  BY <1>1, InvHolds, PTL

\* A branch is polled fast exactly while GitHub works on something that can
\* change what is shown of an open pull request.
THEOREM HotExactlyWhileRunning == Spec => []HotWhileRunning
<1>1. Inv => HotWhileRunning
  <2> SUFFICES ASSUME Inv, Evaluated
               PROVE  shown.refresh_mode = "Hot" <=>
                        \E n \in OpenNodes :
                          \/ n.merge_state_status \in {"UNKNOWN", "MERGE_STATE_UNKNOWN"}
                          \/ /\ "Pending" \in CurrentBuckets(n)
                             /\ CurrentBuckets(n) \cap {"Fail", "Cancel", "ActionRequired"} = {}
    BY DEF HotWhileRunning
  <2> DEFINE prs == shown.pr_outputs
             Hot(items) == "CiPending" \in ToSet(items) \/ "StatusCalculating" \in ToSet(items)
             Runs(n) ==
               \/ n.merge_state_status \in {"UNKNOWN", "MERGE_STATE_UNKNOWN"}
               \/ /\ "Pending" \in CurrentBuckets(n)
                  /\ CurrentBuckets(n) \cap {"Fail", "Cancel", "ActionRequired"} = {}
  <2>1. /\ ToSet(prs) = {Listed(n) : n \in OpenNodes}
        /\ IF OpenNodes = {} THEN shown = NothingShown("Terminal") ELSE shown = RenderPrs(prs)
    BY ListedFacts
  <2>2. \A n \in OpenNodes : Listed(n).items = from_state(Verdict(n))
    BY DEF Listed
  <2>3. ASSUME NEW n \in OpenNodes PROVE Hot(from_state(Verdict(n))) <=> Runs(n)
    <3>1. /\ "StatusCalculating" \in ToSet(from_state(Verdict(n))) <=> is_calculating(n)
          /\ "CiPending" \in ToSet(from_state(Verdict(n))) <=>
               ~is_calculating(n) /\ aggregate_ci(CurrentBuckets(n)) = "CiPending"
      BY AnsweredFacts, VerdictFacts DEF Verdict
    <3>2. aggregate_ci(CurrentBuckets(n)) = "CiPending" <=>
            /\ "Pending" \in CurrentBuckets(n)
            /\ CurrentBuckets(n) \cap {"Fail", "Cancel", "ActionRequired"} = {}
      BY NoValueFacts DEF aggregate_ci, Item
    <3> QED
      BY <3>1, <3>2 DEF is_calculating
  <2>4. (\E x \in ToSet(prs) : Hot(x.items)) <=> \E n \in OpenNodes : Runs(n)
    <3> HIDE DEF Hot, Runs
    <3> QED
      BY <2>1, <2>2, <2>3
  <2>5. (\E i \in DOMAIN prs : Hot(prs[i].items)) <=> \E x \in ToSet(prs) : Hot(x.items)
    <3> HIDE DEF Hot
    <3> QED
      BY DEF ToSet
  <2>6. refresh_mode(prs) = "Hot" <=> \E i \in DOMAIN prs : Hot(prs[i].items)
    <3>1. \A i \in DOMAIN prs : prs[i].items \in Seq(Item)
      <4> DEFINE P == [pr_id : Nat, items : Seq(Item)]
      <4>1. prs \in Seq(P)
        BY ListedFacts
      <4> HIDE DEF P
      <4>2. \A i \in DOMAIN prs : prs[i] \in P
        BY <4>1
      <4> QED
        BY <4>2 DEF P
    <3>2. \A i \in DOMAIN prs : \A item :
            Contains(prs[i].items, item) <=> item \in ToSet(prs[i].items)
      BY <3>1 DEF Contains, ToSet
    <3> QED
      BY <3>2 DEF refresh_mode
  <2>7. CASE OpenNodes = {}
    BY <2>1, <2>7 DEF NothingShown
  <2>8. CASE OpenNodes # {}
    <3>1. shown.refresh_mode = refresh_mode(prs)
      BY <2>1, <2>8 DEF RenderPrs
    <3> HIDE DEF Hot
    <3> QED
      BY <2>4, <2>5, <2>6, <3>1
  <2> QED
    BY <2>7, <2>8
<1> QED
  BY <1>1, InvHolds, PTL

\* Where no comparison of two named branches was made, its answer would have
\* changed nothing.
THEOREM SavedComparesAreMoot == Spec => []SavedCompareIsMoot
<1>1. Inv => SavedCompareIsMoot
  <2> SUFFICES ASSUME Inv, Evaluated, NEW n \in OpenNodes, n.number \notin DOMAIN behind,
                      NoName \notin {n.base_ref_name, n.head_ref_name}, NEW b \in BehindBy
               PROVE  ItemsOf(n.number) = ToSet(from_state(evaluate_single_pr(n, b)))
    BY DEF SavedCompareIsMoot
  <2>1. ~Compares(n)
    BY AnsweredFacts
  <2>2. is_calculating(n) \/ n.mergeable = "CONFLICTING"
    BY <2>1 DEF Compares, needs_compare
  <2>3. evaluate_single_pr(n, b) = Verdict(n)
    <3>1. CASE is_calculating(n)
      BY <3>1 DEF evaluate_single_pr, Verdict
    <3>2. CASE n.mergeable = "CONFLICTING"
      <4>1. \A c : translate_sync(n.mergeable, c) = "Conflict"
        BY <3>2 DEF translate_sync
      <4> QED
        BY <4>1 DEF evaluate_single_pr, Verdict
    <3> QED
      BY <2>2, <3>1, <3>2
  <2> QED
    BY <2>3, ItemsFacts
<1> QED
  BY <1>1, InvHolds, PTL

\* Polling of a branch ends only when GitHub has listed pull requests for it and
\* all of them are over, and then nothing is shown.
THEOREM TerminalOnlyIfClosed == Spec => []TerminalMeansClosed
<1>1. Inv => TerminalMeansClosed
  <2> SUFFICES ASSUME Inv, step = "Rendered"
               PROVE  /\ shown.refresh_mode = "Terminal" <=> nodes # << >> /\ OpenNodes = {}
                      /\ shown.refresh_mode = "Terminal" => shown.output = << >>
    BY DEF TerminalMeansClosed
  <2>1. CASE prompt \in QuietPrompt /\ nodes = << >>
    <3>1. shown.refresh_mode = "Warm"
      BY <2>1, QuietShown DEF Inv, StepInv
    <3> QED
      BY <2>1, <3>1
  <2>2. CASE Evaluated
    <3>1. /\ nodes # << >>
          /\ IF OpenNodes = {} THEN shown = NothingShown("Terminal")
             ELSE shown = RenderPrs(shown.pr_outputs)
      BY <2>2, ResultsFacts, ListedFacts
    <3>2. RenderPrs(shown.pr_outputs).refresh_mode # "Terminal"
      BY DEF RenderPrs, refresh_mode
    <3>3. NothingShown("Terminal").refresh_mode = "Terminal" /\ NothingShown("Terminal").output = << >>
      BY DEF NothingShown
    <3> QED
      BY <3>1, <3>2, <3>3
  <2> QED
    BY <2>1, <2>2 DEF Inv, StepInv, Evaluated
<1> QED
  BY <1>1, InvHolds, PTL

------------------------------------------------------------------------------
(* The groups of the prompt's line. *)

Group == [item : Item, ids : Seq(Nat)]

\* A mark says that the pull request has the item.
Mark == [id : Nat, item : Item]

MarkedWith(item, M) == {m.id : m \in {x \in M : x.item = item}}

Rising(ids) == \A k, l \in DOMAIN ids : k < l => ids[k] < ids[l]

\* The group has the numbers of the pull requests marked with its item.
GroupOf(x, M) ==
  /\ x \in Group /\ x.ids # << >>
  /\ ToSet(x.ids) = MarkedWith(x.item, M)
  /\ Rising(x.ids)

\* The groups of the marks M, in the order of their first numbers.
GroupsOf(groups, M) ==
  /\ groups \in Seq(Group)
  /\ \A i \in DOMAIN groups : GroupOf(groups[i], M)
  /\ \A m \in M : \E i \in DOMAIN groups : groups[i].item = m.item
  /\ \A i, j \in DOMAIN groups :
       i < j => groups[i].item # groups[j].item /\ Head(groups[i].ids) <= Head(groups[j].ids)

\* A number above all of a rising list is put at its end.
LEMMA RisingAppend ==
  ASSUME NEW ids \in Seq(Nat), Rising(ids), NEW id \in Nat, \A x \in ToSet(ids) : x < id
  PROVE  LET more == Append(ids, id)
         IN  /\ more \in Seq(Nat) /\ more # << >> /\ Rising(more)
             /\ ToSet(more) = ToSet(ids) \cup {id}
             /\ ids # << >> => Head(more) = Head(ids)
<1> DEFINE more == Append(ids, id)
           n == Len(ids)
<1>1. /\ n \in Nat /\ DOMAIN ids = 1 .. n /\ more \in Seq(Nat) /\ Len(more) = n + 1
      /\ DOMAIN more = 1 .. n + 1 /\ more[n + 1] = id
      /\ \A k \in 1 .. n : more[k] = ids[k]
  OBVIOUS
<1> HIDE DEF more, n
<1>2. /\ \A k \in 1 .. n + 1 : k \in 1 .. n \/ k = n + 1
      /\ \A k \in 1 .. n : k \in 1 .. n + 1 /\ k < n + 1
      /\ n + 1 \in 1 .. n + 1
  BY <1>1
<1>3. \A k \in 1 .. n : ids[k] < id
  BY <1>1 DEF ToSet
<1>4. Rising(more)
  <2> SUFFICES ASSUME NEW k \in 1 .. n + 1, NEW l \in 1 .. n + 1, k < l
               PROVE  more[k] < more[l]
    BY <1>1 DEF Rising
  <2>1. k \in 1 .. n
    BY <1>1
  <2>2. CASE l \in 1 .. n
    BY <1>1, <2>1, <2>2 DEF Rising
  <2>3. CASE l = n + 1
    BY <1>1, <1>3, <2>1, <2>3
  <2> QED
    BY <1>2, <2>2, <2>3
<1>5. ToSet(more) = ToSet(ids) \cup {id}
  BY <1>1, <1>2 DEF ToSet
<1>6. ids # << >> => Head(more) = Head(ids)
  <2>1. ids # << >> => 1 \in 1 .. n
    BY DEF n
  <2>2. Len(more) # 0 /\ more # << >>
    BY <1>1
  <2>3. ids # << >> => Head(more) = more[1] /\ Head(ids) = ids[1]
    BY <1>1
  <2> QED
    BY <1>1, <2>1, <2>3
<1>7. more # << >>
  BY <1>1
<1> QED
  BY <1>1, <1>4, <1>5, <1>6, <1>7 DEF more

\* One mark more.
LEMMA MarkedMore ==
  ASSUME NEW M, NEW e, NEW item
  PROVE  MarkedWith(item, M \cup {e})
           = IF e.item = item THEN MarkedWith(item, M) \cup {e.id} ELSE MarkedWith(item, M)
BY DEF MarkedWith

\* One mark more, with a number that is new to its item.
LEMMA GroupGrows ==
  ASSUME NEW M \in SUBSET Mark, NEW id \in Nat, NEW x, GroupOf(x, M),
         \A m \in M : m.item = x.item => m.id < id
  PROVE  LET y == [x EXCEPT !.ids = Append(x.ids, id)]
         IN  /\ GroupOf(y, M \cup {[id |-> id, item |-> x.item]})
             /\ y.item = x.item /\ Head(y.ids) = Head(x.ids)
<1> DEFINE y == [x EXCEPT !.ids = Append(x.ids, id)]
           N == M \cup {[id |-> id, item |-> x.item]}
<1>1. x \in Group /\ x.item \in Item /\ x.ids \in Seq(Nat) /\ x.ids # << >> /\ Rising(x.ids)
  BY DEF GroupOf, Group
<1>2. y.ids = Append(x.ids, id) /\ y.item = x.item
  BY <1>1 DEF Group
<1>3. \A k \in ToSet(x.ids) : k < id
  BY DEF GroupOf, MarkedWith
<1>4. /\ y.ids \in Seq(Nat) /\ y.ids # << >> /\ Rising(y.ids)
      /\ ToSet(y.ids) = ToSet(x.ids) \cup {id} /\ Head(y.ids) = Head(x.ids)
  BY <1>1, <1>2, <1>3, RisingAppend
<1>5. y \in Group
  BY <1>1, <1>2, <1>4 DEF Group
<1>6. MarkedWith(x.item, N) = MarkedWith(x.item, M) \cup {id}
  <2> DEFINE e == [id |-> id, item |-> x.item]
  <2>1. e.id = id /\ e.item = x.item
    OBVIOUS
  <2> HIDE DEF e
  <2>2. MarkedWith(x.item, M \cup {e}) = MarkedWith(x.item, M) \cup {id}
    <3>1. MarkedWith(x.item, M \cup {e})
            = IF e.item = x.item THEN MarkedWith(x.item, M) \cup {e.id} ELSE MarkedWith(x.item, M)
      BY MarkedMore
    <3> QED
      BY <2>1, <3>1
  <2> QED
    BY <2>2 DEF e
<1> HIDE DEF y, N
<1>7. GroupOf(y, N)
  BY <1>2, <1>4, <1>5, <1>6 DEF GroupOf
<1> QED
  BY <1>2, <1>4, <1>7 DEF y, N

\* The other groups do not change.
LEMMA GroupStays ==
  ASSUME NEW M, NEW id, NEW item, NEW x, GroupOf(x, M), x.item # item
  PROVE  GroupOf(x, M \cup {[id |-> id, item |-> item]})
<1>1. [id |-> id, item |-> item].item # x.item
  OBVIOUS
<1>2. MarkedWith(x.item, M \cup {[id |-> id, item |-> item]}) = MarkedWith(x.item, M)
  BY <1>1, MarkedMore
<1> QED
  BY <1>2 DEF GroupOf

\* One pull request is added to one group.
LEMMA AddedToGroup ==
  ASSUME NEW M \in SUBSET Mark, NEW groups, GroupsOf(groups, M), NEW item \in Item, NEW id \in Nat,
         \A m \in M : m.id <= id /\ (m.item = item => m.id < id)
  PROVE  GroupsOf(add_to_group(groups, item, id), M \cup {[id |-> id, item |-> item]})
<1> DEFINE n == Len(groups)
           I == {i \in 1 .. n : groups[i].item = item}
           N == M \cup {[id |-> id, item |-> item]}
           new == add_to_group(groups, item, id)
<1>1. groups \in Seq(Group) /\ n \in Nat /\ DOMAIN groups = 1 .. n
  BY DEF GroupsOf
<1>2. /\ \A i \in 1 .. n : GroupOf(groups[i], M)
      /\ \A m \in M : \E i \in 1 .. n : groups[i].item = m.item
      /\ \A i, j \in 1 .. n :
           i < j => groups[i].item # groups[j].item /\ Head(groups[i].ids) <= Head(groups[j].ids)
  BY <1>1 DEF GroupsOf
<1>h. \A i \in 1 .. n : Head(groups[i].ids) \in Nat /\ Head(groups[i].ids) <= id
  <2> SUFFICES ASSUME NEW i \in 1 .. n
               PROVE  Head(groups[i].ids) \in Nat /\ Head(groups[i].ids) <= id
    OBVIOUS
  <2>1. groups[i].ids \in Seq(Nat) /\ groups[i].ids # << >>
    BY <1>2 DEF GroupOf, Group
  <2>2. Head(groups[i].ids) \in ToSet(groups[i].ids) /\ Head(groups[i].ids) \in Nat
    BY <2>1 DEF ToSet
  <2>3. ToSet(groups[i].ids) = MarkedWith(groups[i].item, M)
    BY <1>2 DEF GroupOf
  <2> QED
    BY <2>2, <2>3 DEF MarkedWith
<1>3. CASE I = {}
  <2> DEFINE x == [item |-> item, ids |-> <<id>>]
  <2>1. new = Append(groups, x)
    BY <1>3 DEF add_to_group, SelectInSeq
  <2>2. <<id>> \in Seq(Nat) /\ DOMAIN <<id>> = {1} /\ <<id>>[1] = id /\ <<id>> # << >>
        /\ Head(<<id>>) = id
    OBVIOUS
  <2>3. x \in Group
    BY <2>2 DEF Group
  <2>4. \A m \in M : m.item # item
    BY <1>2, <1>3
  <2>5. GroupOf(x, N)
    <3>1. MarkedWith(item, N) = {id}
      <4> DEFINE e == [id |-> id, item |-> item]
      <4>1. e.id = id /\ e.item = item
        OBVIOUS
      <4>2. MarkedWith(item, M) = {}
        BY <2>4 DEF MarkedWith
      <4> HIDE DEF e
      <4>3. MarkedWith(item, M \cup {e}) = {id}
        BY <4>1, <4>2, MarkedMore
      <4> QED
        BY <4>3 DEF e
    <3>2. ToSet(<<id>>) = {id} /\ Rising(<<id>>)
      BY <2>2 DEF ToSet, Rising
    <3> QED
      BY <2>2, <2>3, <3>1, <3>2 DEF GroupOf
  <2> HIDE DEF x, new
  <2>6. /\ new \in Seq(Group) /\ DOMAIN new = 1 .. n + 1 /\ new[n + 1] = x
        /\ \A i \in 1 .. n : new[i] = groups[i]
    BY <1>1, <2>1, <2>3
  <2>7. /\ \A i \in 1 .. n + 1 : i \in 1 .. n \/ i = n + 1
        /\ \A i \in 1 .. n : i \in 1 .. n + 1 /\ groups[i].item # item
        /\ n + 1 \in 1 .. n + 1
    BY <1>1, <1>3
  <2>8. \A i \in 1 .. n : GroupOf(groups[i], N)
    BY <1>2, <2>7, GroupStays
  <2>9. \A i \in 1 .. n + 1 : GroupOf(new[i], N)
    BY <2>5, <2>6, <2>7, <2>8
  <2>10. \A m \in N : \E i \in 1 .. n + 1 : new[i].item = m.item
    <3>1. x.item = item
      BY DEF x
    <3>2. ASSUME NEW m \in M PROVE \E i \in 1 .. n + 1 : new[i].item = m.item
      BY <1>2, <2>6, <2>7
    <3>3. \E i \in 1 .. n + 1 : new[i].item = item
      BY <2>6, <2>7, <3>1
    <3> QED
      BY <3>2, <3>3
  <2>11. ASSUME NEW i \in 1 .. n + 1, NEW j \in 1 .. n + 1, i < j
         PROVE  new[i].item # new[j].item /\ Head(new[i].ids) <= Head(new[j].ids)
    <3>1. i \in 1 .. n
      BY <1>1, <2>11
    <3>2. CASE j \in 1 .. n
      BY <1>2, <2>6, <2>11, <3>1, <3>2
    <3>3. CASE j = n + 1
      <4>1. new[j].item = item /\ Head(new[j].ids) = id
        BY <2>2, <2>6, <3>3 DEF x
      <4> QED
        BY <1>h, <2>6, <2>7, <3>1, <4>1
    <3> QED
      BY <2>7, <3>2, <3>3
  <2> HIDE DEF N
  <2> QED
    BY <2>6, <2>9, <2>10, <2>11 DEF GroupsOf, new, N
<1>4. CASE I # {}
  <2> DEFINE g == Min(I)
             y == [groups[g] EXCEPT !.ids = Append(groups[g].ids, id)]
  <2>1. \A i, j \in I : i = j
    <3>1. \A i, j \in 1 .. n : i < j \/ j < i \/ i = j
      BY <1>1
    <3> QED
      BY <3>1, <1>2
  <2>2. g \in I
    <3>1. \E i \in I : \A j \in I : i <= j
      BY <1>4, <2>1
    <3> QED
      BY <3>1 DEF Min
  <2>3. new = [groups EXCEPT ![g].ids = Append(@, id)]
    <3>1. g # 0
      BY <1>1, <2>2
    <3> HIDE DEF g
    <3> QED
      BY <1>4, <3>1 DEF add_to_group, SelectInSeq, g
  <2> HIDE DEF g
  <2>4. g \in 1 .. n /\ groups[g].item = item /\ \A i \in 1 .. n : i # g => groups[i].item # item
    BY <2>1, <2>2
  <2>5. DOMAIN new = 1 .. n /\ new[g] = y /\ \A i \in 1 .. n : i # g => new[i] = groups[i]
    BY <1>1, <2>3, <2>4
  <2>6. GroupOf(y, N) /\ y.item = item /\ Head(y.ids) = Head(groups[g].ids)
    <3>1. GroupOf(groups[g], M) /\ \A m \in M : m.item = groups[g].item => m.id < id
      BY <1>2, <2>4
    <3> DEFINE x == groups[g]
    <3>2. /\ GroupOf([x EXCEPT !.ids = Append(x.ids, id)], M \cup {[id |-> id, item |-> x.item]})
          /\ [x EXCEPT !.ids = Append(x.ids, id)].item = x.item
          /\ Head([x EXCEPT !.ids = Append(x.ids, id)].ids) = Head(x.ids)
      <4> HIDE DEF x
      <4>1. GroupOf(x, M) /\ \A m \in M : m.item = x.item => m.id < id
        BY <3>1 DEF x
      <4> QED
        BY <4>1, GroupGrows
    <3> QED
      BY <2>4, <3>2
  <2> HIDE DEF y, new
  <2>7. \A i \in 1 .. n : i # g => GroupOf(groups[i], N)
    BY <1>2, <2>4, GroupStays
  <2>8. \A i \in 1 .. n :
          /\ GroupOf(new[i], N) /\ new[i].item = groups[i].item
          /\ Head(new[i].ids) = Head(groups[i].ids)
    BY <2>4, <2>5, <2>6, <2>7
  <2>9. new \in Seq(Group)
    <3>1. \A i \in 1 .. n : new[i] \in Group
      BY <2>8 DEF GroupOf
    <3>2. \E f : new = f /\ f = [i \in 1 .. n |-> new[i]]
      <4>1. new = [groups EXCEPT ![g] = new[g]]
        BY <1>1, <2>3, <2>4 DEF new
      <4> QED
        BY <1>1, <4>1, <2>5
    <3> QED
      BY <1>1, <3>1, <3>2
  <2>10. \A m \in N : \E i \in 1 .. n : new[i].item = m.item
    <3>1. \A m \in M : \E i \in 1 .. n : new[i].item = m.item
      BY <1>2, <2>8
    <3>2. new[g].item = item /\ g \in 1 .. n
      BY <2>4, <2>8
    <3> QED
      BY <3>1, <3>2
  <2>11. \A i, j \in 1 .. n :
           i < j => new[i].item # new[j].item /\ Head(new[i].ids) <= Head(new[j].ids)
    BY <1>2, <2>8
  <2> HIDE DEF N
  <2> QED
    BY <2>5, <2>8, <2>9, <2>10, <2>11 DEF GroupsOf, new, N
<1> QED
  BY <1>3, <1>4

\* What add_to_group returns.
LEMMA AddedIsGroups ==
  ASSUME NEW groups \in Seq(Group), NEW item \in Item, NEW id \in Nat
  PROVE  add_to_group(groups, item, id) \in Seq(Group)
<1> DEFINE n == Len(groups)
           I == {i \in 1 .. n : groups[i].item = item}
           new == add_to_group(groups, item, id)
<1>1. n \in Nat /\ DOMAIN groups = 1 .. n /\ \A i \in 1 .. n : groups[i] \in Group
  OBVIOUS
<1>2. CASE I = {}
  <2> DEFINE x == [item |-> item, ids |-> <<id>>]
  <2>1. new = Append(groups, x)
    BY <1>2 DEF add_to_group, SelectInSeq
  <2>2. x \in Group
    <3>1. <<id>> \in Seq(Nat)
      OBVIOUS
    <3> QED
      BY <3>1 DEF Group
  <2> HIDE DEF x, new
  <2> QED
    BY <2>1, <2>2 DEF new
<1>3. CASE I # {}
  <2> DEFINE g == Min(I)
  <2>1. g \in I
    <3>1. \E i \in I : \A j \in I : i <= j
      <4> DEFINE T == {k \in 0 .. n : I \cap (1 .. k) # {} =>
                         \E i \in I : \A j \in I \cap (1 .. k) : i <= j}
      <4>1. 0 \in T
        BY <1>1
      <4>2. ASSUME NEW k \in 1 .. n, k - 1 \in T PROVE k \in T
        <5>1. CASE I \cap (1 .. (k - 1)) = {}
          <6>1. \A j \in I \cap (1 .. k) : j = k
            BY <5>1, <1>1
          <6> QED
            BY <6>1, <1>1
        <5>2. CASE I \cap (1 .. (k - 1)) # {}
          <6>1. PICK i \in I : \A j \in I \cap (1 .. (k - 1)) : i <= j
            BY <4>2, <5>2
          <6>2. i <= k
            BY <5>2, <6>1, <1>1
          <6>3. \A j \in I \cap (1 .. k) : i <= j
            BY <6>1, <6>2, <1>1
          <6> QED
            BY <6>3, <1>1
        <5> QED
          BY <5>1, <5>2
      <4>3. \A k \in 0 .. n : k \in T
        <5> HIDE DEF T
        <5> QED
          BY <1>1, <4>1, <4>2, InductionTo
      <4>4. n \in T /\ I \cap (1 .. n) = I
        <5>1. n \in 0 .. n /\ I \cap (1 .. n) = I
          BY <1>1
        <5> HIDE DEF T
        <5> QED
          BY <4>3, <5>1
      <4> QED
        BY <4>4, <1>3
    <3> QED
      BY <3>1 DEF Min
  <2>2. new = [groups EXCEPT ![g].ids = Append(@, id)]
    <3>1. g # 0
      BY <1>1, <2>1
    <3> HIDE DEF g
    <3> QED
      BY <1>3, <3>1 DEF add_to_group, SelectInSeq, g
  <2> HIDE DEF g
  <2>3. g \in 1 .. n
    BY <2>1
  <2> DEFINE y == [groups[g] EXCEPT !.ids = Append(groups[g].ids, id)]
  <2>4. y \in Group
    <3>1. groups[g].ids \in Seq(Nat) /\ groups[g].item \in Item
      BY <1>1, <2>3 DEF Group
    <3>2. Append(groups[g].ids, id) \in Seq(Nat)
      BY <3>1
    <3> QED
      BY <1>1, <2>3, <3>1, <3>2 DEF Group
  <2>5. new = [groups EXCEPT ![g] = y]
    BY <2>2
  <2> HIDE DEF y, new
  <2>6. new \in [1 .. n -> Group]
    BY <1>1, <2>4, <2>5
  <2> QED
    BY <1>1, <2>6 DEF new
<1> QED
  BY <1>2, <1>3

\* L has the groups after each of the items of the pull request.
ItemsAdded(L, groups, pr) ==
  /\ L[0] = groups
  /\ \A i \in 1 .. Len(pr.items) : L[i] = add_to_group(L[i - 1], pr.items[i], pr.pr_id)
  /\ add_pr(groups, pr) = L[Len(pr.items)]

Entry == [pr_id : Nat, items : Seq(Item)]

\* add_pr folds add_to_group over the items from the left.
LEMMA ItemsFold ==
  ASSUME NEW groups \in Seq(Group), NEW pr \in Entry
  PROVE  add_pr(groups, pr) \in Seq(Group) /\ \E L : ItemsAdded(L, groups, pr)
<1> DEFINE items == pr.items
           n == Len(items)
           A == Seq(Group)
           apply == [i \in 1 .. n |-> [gs \in A |-> add_to_group(gs, items[i], pr.pr_id)]]
           Solves(f) == f = [s \in SUBSET DOMAIN items |->
                               IF s = {} THEN groups
                               ELSE add_to_group(f[s \ {Max(s)}], items[Max(s)], pr.pr_id)]
<1>1. /\ n \in Nat /\ DOMAIN items = 1 .. n /\ \A i \in 1 .. n : items[i] \in Item
      /\ pr.pr_id \in Nat
  <2>1. items \in Seq(Item) /\ pr.pr_id \in Nat
    BY DEF Entry
  <2> QED
    BY <2>1
<1> HIDE DEF items, n
<1>2. apply \in [1 .. n -> [A -> A]]
  <2> SUFFICES ASSUME NEW i \in 1 .. n, NEW gs \in A
               PROVE  add_to_group(gs, items[i], pr.pr_id) \in A
    OBVIOUS
  <2> QED
    BY <1>1, AddedIsGroups
<1>3. PICK f \in [SUBSET (1 .. n) -> A] : SolvesFold(f, n, groups, apply)
  <2> HIDE DEF A, apply
  <2>1. groups \in A
    BY DEF A
  <2> QED
    BY <1>1, <1>2, <2>1, FoldExists
<1>4. Solves(f)
  <2>1. \A s \in SUBSET (1 .. n) : s # {} =>
          apply[Max(s)][f[s \ {Max(s)}]]
            = add_to_group(f[s \ {Max(s)}], items[Max(s)], pr.pr_id)
    <3>1. \A s \in SUBSET (1 .. n) : s # {} =>
            Max(s) \in 1 .. n /\ f[s \ {Max(s)}] \in A
      BY <1>1, PrefixFacts
    <3> QED
      BY <3>1
  <2> HIDE DEF apply
  <2>2. f = [s \in SUBSET (1 .. n) |->
               IF s = {} THEN groups
               ELSE add_to_group(f[s \ {Max(s)}], items[Max(s)], pr.pr_id)]
    BY <1>3, <2>1 DEF SolvesFold
  <2> QED
    BY <2>2, <1>1
<1> DEFINE F == CHOOSE g : Solves(g)
<1>5. Solves(F)
  <2> HIDE DEF Solves
  <2> QED
    BY <1>4
<1>6. add_pr(groups, pr) = F[DOMAIN items]
  BY DEF add_pr, FoldLeft, MapThenFoldSet, items
<1> HIDE DEF F
<1> DEFINE L == [i \in 0 .. n |-> F[1 .. i]]
<1>7. L[0] = groups
  BY <1>1, <1>5, PrefixFacts
<1>8. ASSUME NEW i \in 1 .. n PROVE L[i] = add_to_group(L[i - 1], items[i], pr.pr_id)
  <2>1. L[i] = F[1 .. i] /\ L[i - 1] = F[1 .. (i - 1)]
    BY <1>1
  <2>2. /\ 1 .. i \in SUBSET (1 .. n) /\ 1 .. i # {}
        /\ Max(1 .. i) = i /\ (1 .. i) \ {i} = 1 .. (i - 1)
    BY <1>1, PrefixFacts
  <2>3. F[1 .. i] = add_to_group(F[(1 .. i) \ {Max(1 .. i)}], items[Max(1 .. i)], pr.pr_id)
    BY <1>1, <1>5, <2>2
  <2> QED
    BY <2>1, <2>2, <2>3
<1>9. add_pr(groups, pr) = L[n]
  BY <1>1, <1>6
<1> HIDE DEF L
<1>10. ItemsAdded(L, groups, pr)
  BY <1>7, <1>8, <1>9 DEF ItemsAdded, items, n
<1>11. L[n] \in Seq(Group)
  <2> DEFINE T == {i \in 0 .. n : L[i] \in Seq(Group)}
  <2>1. 0 \in T
    BY <1>1, <1>7
  <2>2. ASSUME NEW i \in 1 .. n, i - 1 \in T PROVE i \in T
    <3>1. L[i - 1] \in Seq(Group) /\ items[i] \in Item /\ pr.pr_id \in Nat
      BY <1>1, <2>2
    <3>2. add_to_group(L[i - 1], items[i], pr.pr_id) \in Seq(Group)
      BY <3>1, AddedIsGroups
    <3>3. L[i] \in Seq(Group) /\ i \in 0 .. n
      BY <1>1, <1>8, <3>2
    <3> QED
      BY <3>3
  <2>3. \A i \in 0 .. n : i \in T
    <3> HIDE DEF T
    <3> QED
      BY <1>1, <2>1, <2>2, InductionTo
  <2> QED
    BY <1>1, <2>3
<1> QED
  BY <1>9, <1>10, <1>11

\* The marks of a pull request, and of the first p ones of a list.
MarksOf(pr) == {[id |-> pr.pr_id, item |-> item] : item \in ToSet(pr.items)}
MarksTo(prs, p) == UNION {MarksOf(prs[k]) : k \in 1 .. p}

\* A pull request is added whose number is above all those marked.
LEMMA PrAdded ==
  ASSUME NEW M \in SUBSET Mark, NEW groups, GroupsOf(groups, M), NEW pr \in Entry,
         \A i, j \in DOMAIN pr.items : pr.items[i] = pr.items[j] => i = j,
         \A m \in M : m.id < pr.pr_id
  PROVE  GroupsOf(add_pr(groups, pr), M \cup MarksOf(pr))
<1> DEFINE id == pr.pr_id
           items == pr.items
           n == Len(items)
           e(k) == [id |-> id, item |-> items[k]]
           N(i) == M \cup {e(k) : k \in 1 .. i}
<1>1. /\ n \in Nat /\ DOMAIN items = 1 .. n /\ \A i \in 1 .. n : items[i] \in Item
      /\ id \in Nat
  <2>1. items \in Seq(Item) /\ id \in Nat
    BY DEF Entry
  <2> QED
    BY <2>1
<1>2. \A i, j \in 1 .. n : items[i] = items[j] => i = j
  BY <1>1
<1>3. groups \in Seq(Group)
  BY DEF GroupsOf
<1>4. PICK L : ItemsAdded(L, groups, pr)
  BY <1>3, ItemsFold
<1>5. /\ L[0] = groups /\ add_pr(groups, pr) = L[n]
      /\ \A i \in 1 .. n : L[i] = add_to_group(L[i - 1], items[i], id)
  BY <1>4 DEF ItemsAdded
<1>6. \A k \in 1 .. n : e(k) \in Mark /\ e(k).id = id /\ e(k).item = items[k]
  BY <1>1 DEF Mark
<1> HIDE DEF items, n, id, e
<1> DEFINE T == {i \in 0 .. n : GroupsOf(L[i], N(i))}
<1>7. 0 \in T
  <2>1. N(0) = M
    OBVIOUS
  <2>2. 0 \in 0 .. n
    BY <1>1
  <2> HIDE DEF N
  <2>3. GroupsOf(L[0], N(0))
    BY <1>5, <2>1
  <2> QED
    BY <2>2, <2>3
<1>8. ASSUME NEW i \in 1 .. n, i - 1 \in T PROVE i \in T
  <2>1. \A k \in 1 .. (i - 1) : k \in 1 .. n /\ k # i
    BY <1>1
  <2>2. N(i - 1) \in SUBSET Mark
    BY <1>6, <2>1
  <2>3. \A m \in N(i - 1) : m.id <= id /\ (m.item = items[i] => m.id < id)
    <3>1. \A m \in M : m.id < id /\ m.id \in Nat
      BY DEF id, Mark
    <3>2. \A k \in 1 .. (i - 1) : e(k).id = id /\ e(k).item # items[i]
      BY <1>2, <1>6, <2>1
    <3> QED
      BY <1>1, <3>1, <3>2
  <2>4. N(i - 1) \cup {e(i)} = N(i)
    <3>1. 1 .. i = (1 .. (i - 1)) \cup {i}
      BY <1>1
    <3> QED
      BY <3>1
  <2>5. GroupsOf(L[i - 1], N(i - 1))
    BY <1>8
  <2> HIDE DEF N
  <2>6. GroupsOf(add_to_group(L[i - 1], items[i], id),
                 N(i - 1) \cup {[id |-> id, item |-> items[i]]})
    BY <1>1, <2>2, <2>3, <2>5, AddedToGroup
  <2>7. GroupsOf(L[i], N(i))
    BY <1>5, <2>4, <2>6 DEF e
  <2> QED
    BY <1>1, <2>7
<1>9. \A i \in 0 .. n : i \in T
  <2> HIDE DEF T
  <2> QED
    BY <1>1, <1>7, <1>8, InductionTo
<1>10. GroupsOf(L[n], N(n))
  <2>1. n \in 0 .. n
    BY <1>1
  <2>2. n \in T
    <3> HIDE DEF T
    <3> QED
      BY <1>9, <2>1
  <2> HIDE DEF N
  <2> QED
    BY <2>2
<1>11. N(n) = M \cup MarksOf(pr)
  BY <1>1 DEF MarksOf, ToSet, e, id, items
<1> HIDE DEF N
<1> QED
  BY <1>5, <1>10, <1>11

\* L has the groups after each of the pull requests.
PrsAdded(L, prs) ==
  /\ L[0] = << >>
  /\ \A i \in 1 .. Len(prs) : L[i] = add_pr(L[i - 1], prs[i])
  /\ group_by_display_item(prs) = L[Len(prs)]

\* group_by_display_item folds add_pr over the pull requests from the left.
LEMMA PrsFold ==
  ASSUME NEW prs \in Seq(Entry)
  PROVE  \E L : PrsAdded(L, prs)
<1> DEFINE n == Len(prs)
           A == Seq(Group)
           apply == [i \in 1 .. n |-> [gs \in A |-> add_pr(gs, prs[i])]]
           Solves(f) == f = [s \in SUBSET DOMAIN prs |->
                               IF s = {} THEN << >> ELSE add_pr(f[s \ {Max(s)}], prs[Max(s)])]
<1>1. n \in Nat /\ DOMAIN prs = 1 .. n /\ \A i \in 1 .. n : prs[i] \in Entry
  OBVIOUS
<1> HIDE DEF n
<1>2. apply \in [1 .. n -> [A -> A]]
  <2> SUFFICES ASSUME NEW i \in 1 .. n, NEW gs \in A PROVE add_pr(gs, prs[i]) \in A
    OBVIOUS
  <2> QED
    BY <1>1, ItemsFold
<1>3. PICK f \in [SUBSET (1 .. n) -> A] : SolvesFold(f, n, << >>, apply)
  <2>1. << >> \in A
    OBVIOUS
  <2> HIDE DEF A, apply
  <2> QED
    BY <1>1, <1>2, <2>1, FoldExists
<1>4. Solves(f)
  <2>1. \A s \in SUBSET (1 .. n) : s # {} =>
          apply[Max(s)][f[s \ {Max(s)}]] = add_pr(f[s \ {Max(s)}], prs[Max(s)])
    <3>1. \A s \in SUBSET (1 .. n) : s # {} =>
            Max(s) \in 1 .. n /\ f[s \ {Max(s)}] \in A
      BY <1>1, PrefixFacts
    <3> QED
      BY <3>1
  <2> HIDE DEF apply
  <2>2. f = [s \in SUBSET (1 .. n) |->
               IF s = {} THEN << >> ELSE add_pr(f[s \ {Max(s)}], prs[Max(s)])]
    BY <1>3, <2>1 DEF SolvesFold
  <2> QED
    BY <2>2, <1>1
<1> DEFINE F == CHOOSE g : Solves(g)
<1>5. Solves(F)
  <2> HIDE DEF Solves
  <2> QED
    BY <1>4
<1>6. group_by_display_item(prs) = F[DOMAIN prs]
  BY DEF group_by_display_item, FoldLeft, MapThenFoldSet
<1> HIDE DEF F
<1> DEFINE L == [i \in 0 .. n |-> F[1 .. i]]
<1>7. L[0] = << >>
  BY <1>1, <1>5, PrefixFacts
<1>8. ASSUME NEW i \in 1 .. n PROVE L[i] = add_pr(L[i - 1], prs[i])
  <2>1. L[i] = F[1 .. i] /\ L[i - 1] = F[1 .. (i - 1)]
    BY <1>1
  <2>2. /\ 1 .. i \in SUBSET (1 .. n) /\ 1 .. i # {}
        /\ Max(1 .. i) = i /\ (1 .. i) \ {i} = 1 .. (i - 1)
    BY <1>1, PrefixFacts
  <2>3. F[1 .. i] = add_pr(F[(1 .. i) \ {Max(1 .. i)}], prs[Max(1 .. i)])
    BY <1>1, <1>5, <2>2
  <2> QED
    BY <2>1, <2>2, <2>3
<1>9. group_by_display_item(prs) = L[n]
  BY <1>1, <1>6
<1> HIDE DEF L
<1> QED
  BY <1>7, <1>8, <1>9 DEF PrsAdded, n

\* The groups of a list in ascending order are the groups of its marks.
LEMMA Grouped ==
  ASSUME NEW prs \in Seq(Entry),
         \A i, j \in 1 .. Len(prs) : i < j => prs[i].pr_id < prs[j].pr_id,
         \A p \in 1 .. Len(prs) : \A i, j \in DOMAIN prs[p].items :
           prs[p].items[i] = prs[p].items[j] => i = j
  PROVE  GroupsOf(group_by_display_item(prs), MarksTo(prs, Len(prs)))
<1> DEFINE n == Len(prs)
<1>1. n \in Nat /\ \A i \in 1 .. n : prs[i] \in Entry
  OBVIOUS
<1>2. PICK L : PrsAdded(L, prs)
  BY PrsFold
<1>3. /\ L[0] = << >> /\ group_by_display_item(prs) = L[n]
      /\ \A i \in 1 .. n : L[i] = add_pr(L[i - 1], prs[i])
  BY <1>2 DEF PrsAdded
<1> HIDE DEF n
<1> DEFINE T == {i \in 0 .. n : GroupsOf(L[i], MarksTo(prs, i))}
<1>4. 0 \in T
  <2>1. MarksTo(prs, 0) = {}
    BY DEF MarksTo
  <2>2. << >> \in Seq(Group) /\ DOMAIN << >> = {}
    OBVIOUS
  <2>3. GroupsOf(<< >>, {})
    BY <2>2 DEF GroupsOf
  <2>4. GroupsOf(L[0], MarksTo(prs, 0))
    BY <1>3, <2>1, <2>3
  <2>5. 0 \in 0 .. n
    BY <1>1
  <2> QED
    BY <2>4, <2>5
<1>5. ASSUME NEW i \in 1 .. n, i - 1 \in T PROVE i \in T
  <2>1. 1 .. i = (1 .. (i - 1)) \cup {i} /\ \A k \in 1 .. (i - 1) : k \in 1 .. n /\ k < i
    BY <1>1
  <2>2. MarksTo(prs, i) = MarksTo(prs, i - 1) \cup MarksOf(prs[i])
    BY <2>1 DEF MarksTo
  <2>3. \A k \in 1 .. n : \A m \in MarksOf(prs[k]) : m \in Mark /\ m.id = prs[k].pr_id
    <3> SUFFICES ASSUME NEW k \in 1 .. n, NEW item \in ToSet(prs[k].items)
                 PROVE  [id |-> prs[k].pr_id, item |-> item] \in Mark
      BY DEF MarksOf
    <3>1. prs[k].pr_id \in Nat /\ prs[k].items \in Seq(Item)
      BY <1>1 DEF Entry
    <3>2. item \in Item
      BY <3>1, FiniteElements
    <3> QED
      BY <3>1, <3>2 DEF Mark
  <2>4. \A m \in MarksTo(prs, i - 1) : m \in Mark /\ m.id < prs[i].pr_id
    <3>1. \A k \in 1 .. (i - 1) : prs[k].pr_id < prs[i].pr_id
      BY <2>1 DEF n
    <3> QED
      BY <2>1, <2>3, <3>1 DEF MarksTo
  <2>5. \A k, l \in DOMAIN prs[i].items : prs[i].items[k] = prs[i].items[l] => k = l
    BY DEF n
  <2>6. GroupsOf(L[i - 1], MarksTo(prs, i - 1)) /\ MarksTo(prs, i - 1) \in SUBSET Mark
    BY <1>5, <2>4
  <2>7. GroupsOf(add_pr(L[i - 1], prs[i]), MarksTo(prs, i - 1) \cup MarksOf(prs[i]))
    BY <1>1, <2>4, <2>5, <2>6, PrAdded
  <2>8. GroupsOf(L[i], MarksTo(prs, i))
    BY <1>3, <2>2, <2>7
  <2> QED
    BY <1>1, <2>8
<1>6. \A i \in 0 .. n : i \in T
  <2> HIDE DEF T
  <2> QED
    BY <1>1, <1>4, <1>5, InductionTo
<1> QED
  BY <1>1, <1>3, <1>6 DEF n

\* A list without repetitions.
Distinct(s) == \A i, j \in DOMAIN s : s[i] = s[j] => i = j

\* Two lists without repetitions that share nothing.
LEMMA ConcatDistinct ==
  ASSUME NEW S, NEW s \in Seq(S), NEW t \in Seq(S), Distinct(s), Distinct(t),
         ToSet(s) \cap ToSet(t) = {}
  PROVE  Distinct(s \o t)
<1>1. /\ DOMAIN (s \o t) = 1 .. (Len(s) + Len(t))
      /\ DOMAIN s = 1 .. Len(s) /\ DOMAIN t = 1 .. Len(t)
      /\ Len(s) \in Nat /\ Len(t) \in Nat
      /\ \A i \in 1 .. (Len(s) + Len(t)) :
           (s \o t)[i] = IF i <= Len(s) THEN s[i] ELSE t[i - Len(s)]
  OBVIOUS
<1> SUFFICES ASSUME NEW i \in 1 .. (Len(s) + Len(t)), NEW j \in 1 .. (Len(s) + Len(t)),
                    (s \o t)[i] = (s \o t)[j]
             PROVE  i = j
  BY <1>1 DEF Distinct
<1>2. CASE i <= Len(s) /\ j <= Len(s)
  BY <1>1, <1>2 DEF Distinct
<1>3. CASE ~ (i <= Len(s)) /\ ~ (j <= Len(s))
  <2>1. i - Len(s) \in 1 .. Len(t) /\ j - Len(s) \in 1 .. Len(t)
    BY <1>1, <1>3
  <2>2. t[i - Len(s)] = t[j - Len(s)]
    BY <1>1, <1>3
  <2>3. i - Len(s) = j - Len(s)
    BY <1>1, <2>1, <2>2 DEF Distinct
  <2> QED
    BY <1>1, <2>3
<1>4. CASE i <= Len(s) /\ ~ (j <= Len(s))
  <2>1. i \in 1 .. Len(s) /\ j - Len(s) \in 1 .. Len(t) /\ s[i] = t[j - Len(s)]
    BY <1>1, <1>4
  <2> QED
    BY <1>1, <2>1 DEF ToSet
<1>5. CASE ~ (i <= Len(s)) /\ j <= Len(s)
  <2>1. j \in 1 .. Len(s) /\ i - Len(s) \in 1 .. Len(t) /\ s[j] = t[i - Len(s)]
    BY <1>1, <1>5
  <2> QED
    BY <1>1, <2>1 DEF ToSet
<1> QED
  BY <1>2, <1>3, <1>4, <1>5

\* No state has an item twice: each category has items of its own.
LEMMA ItemsDistinct ==
  ASSUME NEW s \in State
  PROVE  Distinct(from_state(s))
<1>1. ASSUME NEW x PROVE Distinct(Some(x)) /\ Distinct(<<x>>)
  BY DEF Some, Distinct
<1>2. CASE s.tag # "Blocked"
  BY <1>1, <1>2 DEF from_state
<1>3. CASE s.tag = "Blocked"
  <2>1. /\ s.branch_sync \in Syncs \cup {NoValue} /\ s.ci \in Cis \cup {NoValue}
        /\ s.review \in Reviews \cup {NoValue} /\ s.generic \in {"BlockedUnknown"} \cup {NoValue}
    BY <1>3 DEF State, Syncs, Cis, Reviews
  <2> DEFINE a == Some(s.branch_sync)
             b == Some(s.ci)
             c == Some(s.review)
             d == Some(s.generic)
             Lists == Seq(Syncs \cup Cis \cup Reviews \cup {"BlockedUnknown"})
  <2>2. /\ a \in Seq(Syncs) /\ ToSet(a) \subseteq Syncs
        /\ b \in Seq(Cis) /\ ToSet(b) \subseteq Cis
        /\ c \in Seq(Reviews) /\ ToSet(c) \subseteq Reviews
        /\ d \in Seq({"BlockedUnknown"}) /\ ToSet(d) \subseteq {"BlockedUnknown"}
    <3>1. ASSUME NEW S, NEW x \in S \cup {NoValue}
          PROVE  Some(x) \in Seq(S) /\ ToSet(Some(x)) \subseteq S
      BY SomeFacts
    <3>2. a \in Seq(Syncs) /\ ToSet(a) \subseteq Syncs
      BY <2>1, <3>1
    <3>3. b \in Seq(Cis) /\ ToSet(b) \subseteq Cis
      BY <2>1, <3>1
    <3>4. c \in Seq(Reviews) /\ ToSet(c) \subseteq Reviews
      BY <2>1, <3>1
    <3>5. d \in Seq({"BlockedUnknown"}) /\ ToSet(d) \subseteq {"BlockedUnknown"}
      BY <2>1, <3>1
    <3> QED
      BY <3>2, <3>3, <3>4, <3>5
  <2>3. Distinct(a) /\ Distinct(b) /\ Distinct(c) /\ Distinct(d)
    BY <1>1
  <2>4. a \in Lists /\ b \in Lists /\ c \in Lists /\ d \in Lists
    BY <2>2
  <2>5. from_state(s) = a \o b \o c \o d
    BY <1>3 DEF from_state
  <2> HIDE DEF a, b, c, d, Lists
  <2> DEFINE ab == a \o b
  <2>6. Distinct(ab) /\ ab \in Lists /\ ToSet(ab) \subseteq Syncs \cup Cis
    <3>1. ToSet(a) \cap ToSet(b) = {}
      BY <2>2 DEF Syncs, Cis
    <3> QED
      BY <2>2, <2>3, <2>4, <3>1, ConcatDistinct, ConcatElements DEF Lists
  <2> HIDE DEF ab
  <2> DEFINE abc == ab \o c
  <2>7. Distinct(abc) /\ abc \in Lists /\ ToSet(abc) \subseteq Syncs \cup Cis \cup Reviews
    <3>1. ToSet(ab) \cap ToSet(c) = {}
      BY <2>2, <2>6 DEF Syncs, Cis, Reviews
    <3> QED
      BY <2>2, <2>3, <2>4, <2>6, <3>1, ConcatDistinct, ConcatElements DEF Lists
  <2> HIDE DEF abc
  <2>8. Distinct(abc \o d)
    <3>1. ToSet(abc) \cap ToSet(d) = {}
      BY <2>2, <2>7 DEF Syncs, Cis, Reviews
    <3> QED
      BY <2>3, <2>4, <2>7, <3>1, ConcatDistinct DEF Lists
  <2> QED
    BY <2>5, <2>8 DEF ab, abc
<1> QED
  BY <1>2, <1>3

\* The groups shown are those of the items of the open pull requests.
LEMMA GroupsShown ==
  ASSUME Inv, Evaluated, Len(shown.pr_outputs) > 1
  PROVE  GroupsOf(shown.output, MarksTo(shown.pr_outputs, Len(shown.pr_outputs)))
<1> DEFINE prs == shown.pr_outputs
<1>1. /\ prs \in Seq(Entry) /\ ToSet(prs) = {Listed(n) : n \in OpenNodes}
      /\ \A i, j \in 1 .. Len(prs) : i < j => prs[i].pr_id < prs[j].pr_id
      /\ IF OpenNodes = {} THEN shown = NothingShown("Terminal") ELSE shown = RenderPrs(prs)
  BY ListedFacts DEF Entry
<1>2. shown = RenderPrs(prs)
  <2>1. OpenNodes = {} => Len(shown.pr_outputs) = 0
    BY <1>1 DEF NothingShown
  <2> QED
    BY <1>1, <2>1
<1>3. shown.output = group_by_display_item(prs)
  BY <1>2 DEF RenderPrs
<1>4. \A p \in 1 .. Len(prs) : Distinct(prs[p].items)
  <2> SUFFICES ASSUME NEW p \in 1 .. Len(prs) PROVE Distinct(prs[p].items)
    OBVIOUS
  <2>1. prs[p] \in ToSet(prs)
    BY <1>1 DEF ToSet
  <2>2. PICK n \in OpenNodes : prs[p] = Listed(n)
    BY <1>1, <2>1
  <2>3. prs[p].items = from_state(Verdict(n))
    BY <2>2 DEF Listed
  <2>4. Verdict(n) \in State
    BY AnsweredFacts, VerdictFacts DEF Verdict
  <2> QED
    BY <2>3, <2>4, ItemsDistinct
<1>5. \A p \in 1 .. Len(prs) : \A i, j \in DOMAIN prs[p].items :
        prs[p].items[i] = prs[p].items[j] => i = j
  BY <1>4 DEF Distinct
<1> HIDE DEF prs
<1> QED
  BY <1>1, <1>3, <1>5, Grouped DEF prs

\* The marks are the items of the open pull requests.
LEMMA MarksShown ==
  ASSUME Inv, Evaluated
  PROVE  LET M == MarksTo(shown.pr_outputs, Len(shown.pr_outputs))
         IN  /\ \A item : MarkedWith(item, M)
                   = {n.number : n \in {m \in OpenNodes : item \in ItemsOf(m.number)}}
             /\ {m.item : m \in M} = UNION {ToSet(x.items) : x \in ToSet(shown.pr_outputs)}
<1> DEFINE prs == shown.pr_outputs
           M == MarksTo(prs, Len(prs))
<1>1. prs \in Seq(Entry) /\ ToSet(prs) = {Listed(n) : n \in OpenNodes}
  BY ListedFacts DEF Entry
<1>2. DOMAIN prs = 1 .. Len(prs)
  BY <1>1
<1>3. M = UNION {MarksOf(x) : x \in ToSet(prs)}
  BY <1>2 DEF MarksTo, ToSet
<1> HIDE DEF prs, M
<1>4. ASSUME NEW x PROVE \A m \in MarksOf(x) : m.id = x.pr_id /\ m.item \in ToSet(x.items)
  BY DEF MarksOf
<1>5. ASSUME NEW x, NEW item \in ToSet(x.items)
      PROVE  \E m \in MarksOf(x) : m.id = x.pr_id /\ m.item = item
  <2>1. [id |-> x.pr_id, item |-> item] \in MarksOf(x)
    BY DEF MarksOf
  <2> QED
    BY <2>1
<1>6. \A n \in OpenNodes : /\ Listed(n) \in ToSet(prs) /\ Listed(n).pr_id = n.number
                           /\ ToSet(Listed(n).items) = ItemsOf(n.number)
  <2>1. \A n \in OpenNodes : Listed(n) \in ToSet(prs) /\ Listed(n).pr_id = n.number
    BY <1>1 DEF Listed
  <2>2. \A n \in OpenNodes : Listed(n).items = from_state(Verdict(n))
    BY DEF Listed
  <2> QED
    BY <2>1, <2>2, ItemsFacts
<1>7. {m.item : m \in M} = UNION {ToSet(x.items) : x \in ToSet(prs)}
  <2>1. \A m \in M : \E x \in ToSet(prs) : m.item \in ToSet(x.items)
    BY <1>3, <1>4
  <2>2. \A x \in ToSet(prs) : \A item \in ToSet(x.items) : \E m \in M : m.item = item
    BY <1>3, <1>5
  <2> QED
    BY <2>1, <2>2
<1>8. ASSUME NEW item
      PROVE  MarkedWith(item, M)
               = {n.number : n \in {m \in OpenNodes : item \in ItemsOf(m.number)}}
  <2>1. ASSUME NEW m \in M, m.item = item
        PROVE  \E n \in OpenNodes : item \in ItemsOf(n.number) /\ n.number = m.id
    <3>1. PICK x \in ToSet(prs) : m \in MarksOf(x)
      BY <1>3
    <3>2. PICK n \in OpenNodes : x = Listed(n)
      BY <1>1
    <3> QED
      BY <1>4, <1>6, <2>1, <3>1, <3>2
  <2>2. ASSUME NEW n \in OpenNodes, item \in ItemsOf(n.number)
        PROVE  \E m \in M : m.item = item /\ m.id = n.number
    <3>1. item \in ToSet(Listed(n).items)
      BY <1>6, <2>2
    <3>2. \E m \in MarksOf(Listed(n)) : m.id = Listed(n).pr_id /\ m.item = item
      BY <1>5, <3>1
    <3> QED
      BY <1>3, <1>6, <3>2
  <2> QED
    BY <2>1, <2>2 DEF MarkedWith
<1> QED
  BY <1>7, <1>8 DEF prs, M

\* With several pull requests, the prompt's line has a group for each item of
\* the table of watch, with the numbers of the pull requests that have it,
\* ascending, and the groups are in the order of their first numbers.
THEOREM LineMatchesTable == Spec => []GroupsMatchPrs
<1>1. Inv => GroupsMatchPrs
  <2> DEFINE groups == shown.output
             M == MarksTo(shown.pr_outputs, Len(shown.pr_outputs))
             All == {g.item : g \in ToSet(groups)}
                      = UNION {ToSet(x.items) : x \in ToSet(shown.pr_outputs)}
             Numbers(i) == ToSet(groups[i].ids)
                             = {n.number : n \in {m \in OpenNodes :
                                                    groups[i].item \in ItemsOf(m.number)}}
             Sorted(i) == \A k \in 1 .. Len(groups[i].ids) - 1 :
                            groups[i].ids[k] < groups[i].ids[k + 1]
             Order(i) == \A j \in DOMAIN groups : i < j =>
                           /\ groups[i].item # groups[j].item
                           /\ Head(groups[i].ids) <= Head(groups[j].ids)
  <2> SUFFICES ASSUME Inv, Evaluated, Len(shown.pr_outputs) > 1
               PROVE  All /\ \A i \in DOMAIN groups : Numbers(i) /\ Sorted(i) /\ Order(i)
    BY DEF GroupsMatchPrs
  <2>1. GroupsOf(groups, M)
    BY GroupsShown
  <2>2. /\ \A item : MarkedWith(item, M)
             = {n.number : n \in {m \in OpenNodes : item \in ItemsOf(m.number)}}
        /\ {m.item : m \in M} = UNION {ToSet(x.items) : x \in ToSet(shown.pr_outputs)}
    BY MarksShown
  <2> HIDE DEF M, groups
  <2>3. /\ \A i \in DOMAIN groups : GroupOf(groups[i], M)
        /\ \A m \in M : \E i \in DOMAIN groups : groups[i].item = m.item
    BY <2>1 DEF GroupsOf
  <2>4. ASSUME NEW i \in DOMAIN groups PROVE Order(i)
    BY <2>1 DEF GroupsOf
  <2>5. ASSUME NEW i \in DOMAIN groups PROVE Numbers(i)
    <3>1. ToSet(groups[i].ids) = MarkedWith(groups[i].item, M)
      BY <2>3 DEF GroupOf
    <3> QED
      BY <2>2, <3>1
  <2>6. ASSUME NEW i \in DOMAIN groups PROVE Sorted(i)
    <3>1. groups[i].ids \in Seq(Nat) /\ Rising(groups[i].ids)
      BY <2>3 DEF GroupOf, Group
    <3> DEFINE ids == groups[i].ids
    <3> HIDE DEF ids
    <3>2. \A k \in 1 .. Len(ids) - 1 : k \in DOMAIN ids /\ k + 1 \in DOMAIN ids /\ k < k + 1
      BY <3>1 DEF ids
    <3> QED
      BY <3>1, <3>2 DEF Rising, ids
  <2>7. All
    <3>1. ASSUME NEW i \in DOMAIN groups PROVE \E m \in M : m.item = groups[i].item
      <4>1. groups[i].ids \in Seq(Nat) /\ groups[i].ids # << >>
            /\ ToSet(groups[i].ids) = MarkedWith(groups[i].item, M)
        BY <2>3 DEF GroupOf, Group
      <4>2. ToSet(groups[i].ids) # {}
        <5> DEFINE ids == groups[i].ids
        <5>1. ids \in Seq(Nat) /\ ids # << >>
          BY <4>1
        <5> HIDE DEF ids
        <5>2. 1 \in DOMAIN ids
          BY <5>1
        <5>3. ToSet(ids) # {}
          BY <5>2 DEF ToSet
        <5> QED
          BY <5>3 DEF ids
      <4> QED
        BY <4>1, <4>2 DEF MarkedWith
    <3>2. {g.item : g \in ToSet(groups)} = {m.item : m \in M}
      BY <2>3, <3>1 DEF ToSet
    <3> QED
      BY <2>2, <3>2
  <2> HIDE DEF All, Numbers, Sorted, Order
  <2> QED
    BY <2>4, <2>5, <2>6, <2>7
<1> QED
  BY <1>1, InvHolds, PTL
=============================================================================
