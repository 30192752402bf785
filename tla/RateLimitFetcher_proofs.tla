---------------------- MODULE RateLimitFetcher_proofs ----------------------
(***************************************************************************)
(* The polls of the rate limit are spaced and the store's snapshot is      *)
(* recent, for every interval and every timeout of gh.                     *)
(***************************************************************************)
EXTENDS RateLimitFetcher, TLAPS

\* What is still to come before the ticker's next tick.
Remaining == IF due > 0 THEN due ELSE 0

\* What the failures since the last answer have cost at most.
Debt == failures * Slower

\* A poll that could start gh comes an interval after gh was started.
Spaced == idle # None => idle >= interval \/ idle + due >= interval

(***************************************************************************)
(* The age of the snapshot, by stage.  While the task waits, the age the   *)
(* snapshot will have at the next tick is bounded; while gh runs, the age  *)
(* it had when gh was started; an observed snapshot is the client's.       *)
(***************************************************************************)
AgeInv ==
  /\ stage # "observed" => latest = cache
  /\ stage = "waiting" /\ latest # None => latest + Remaining < 2 * interval + Debt
  /\ stage = "fetching" =>
       /\ due = interval - running
       /\ latest # None => latest < 2 * interval + Debt + running
  /\ stage = "observed" =>
       /\ cache # None /\ cache + Remaining < 2 * interval
       /\ latest # None => latest < 2 * interval + Debt + gh_timeout

Inv == TypeOK /\ Spaced /\ AgeInv

\* The longer of the two delays is a number, and at least each of them.
LEMMA SlowerBounds == Slower \in Nat /\ Slower >= interval /\ Slower >= gh_timeout
BY FetcherAssumption DEF Slower

\* The initial states satisfy the invariant.
LEMMA InitInv == Init => Inv
BY FetcherAssumption, SMT DEF Init, Inv, TypeOK, Age, Spaced, AgeInv, Remaining

\* Every step keeps the types; gh is stopped in time, so the ticker is never later than that.
LEMMA TypeStep == Inv /\ [Next]_vars => TypeOK'
<1> SUFFICES ASSUME Inv, [Next]_vars PROVE TypeOK'
  OBVIOUS
<1> USE FetcherAssumption DEF Inv, TypeOK, Age
<1>1. CASE Poll
  BY <1>1 DEF Poll, NextTick
<1>2. CASE GhFails
  BY <1>2 DEF GhFails
<1>3. CASE GhAnswers
  BY <1>3 DEF GhAnswers
<1>4. CASE Observe
  BY <1>4 DEF Observe
<1>5. CASE Pass
  <2>1. cache' \in Age /\ latest' \in Age /\ idle' \in Age
    BY <1>5 DEF Pass, Older
  <2>2. due' \in -gh_timeout .. interval /\ running' \in 0 .. gh_timeout
    BY <1>5 DEF Pass, AgeInv
  <2> QED
    BY <1>5, <2>1, <2>2 DEF Pass
<1>6. CASE UNCHANGED vars
  BY <1>6 DEF vars
<1> QED
  BY <1>1, <1>2, <1>3, <1>4, <1>5, <1>6 DEF Next

\* Every step keeps the polls spaced.
LEMMA SpacedStep == Inv /\ [Next]_vars => Spaced'
<1> SUFFICES ASSUME Inv, [Next]_vars PROVE Spaced'
  OBVIOUS
<1> USE FetcherAssumption DEF Inv, TypeOK, Age, Spaced
<1>1. CASE Poll
  BY <1>1 DEF Poll, NextTick
<1>2. CASE GhFails \/ GhAnswers \/ Observe
  BY <1>2 DEF GhFails, GhAnswers, Observe
<1>3. CASE Pass
  BY <1>3 DEF Pass, Older
<1>4. CASE UNCHANGED vars
  BY <1>4 DEF vars
<1> QED
  BY <1>1, <1>2, <1>3, <1>4 DEF Next

\* Every step keeps the bounds on the snapshot's age.
LEMMA AgeStep == Inv /\ [Next]_vars => AgeInv'
<1> SUFFICES ASSUME Inv, [Next]_vars PROVE AgeInv'
  OBVIOUS
<1>1. Debt \in Nat
  <2>1. failures \in Nat
    BY FetcherAssumption DEF Inv, TypeOK
  <2> QED
    BY <2>1, SlowerBounds DEF Debt
<1> USE FetcherAssumption, SlowerBounds, <1>1 DEF Inv, TypeOK, Age, AgeInv, Remaining
<1>2. CASE Poll
  <2>1. Debt' = Debt
    BY <1>2 DEF Poll, Debt, Slower
  <2>2. CASE cached_if_fresh
    BY <1>2, <2>1, <2>2 DEF Poll, NextTick, cached_if_fresh, ttl
  <2>3. CASE ~cached_if_fresh
    BY <1>2, <2>1, <2>3 DEF Poll, NextTick
  <2> QED
    BY <2>2, <2>3
<1>3. CASE GhFails
  <2>1. Debt' = Debt + Slower
    <3>1. failures \in Nat /\ failures' = failures + 1 /\ Slower' = Slower
      BY <1>3 DEF GhFails, Slower
    <3> QED
      BY <3>1 DEF Debt
  <2> QED
    BY <1>3, <2>1 DEF GhFails
<1>4. CASE GhAnswers
  <2>1. Debt' = Debt
    BY <1>4 DEF GhAnswers, Debt, Slower
  <2> QED
    BY <1>4, <2>1 DEF GhAnswers
<1>5. CASE Observe
  <2>1. Debt' = 0
    BY <1>5 DEF Observe, Debt, Slower
  <2> QED
    BY <1>5, <2>1 DEF Observe
<1>6. CASE Pass
  <2>1. Debt' = Debt
    BY <1>6 DEF Pass, Debt, Slower
  <2> QED
    BY <1>6, <2>1 DEF Pass, Older
<1>7. CASE UNCHANGED vars
  BY <1>7 DEF vars, Debt, Slower
<1> QED
  BY <1>2, <1>3, <1>4, <1>5, <1>6, <1>7 DEF Next

\* The invariant holds in every behaviour of the task.
THEOREM InvHolds == Spec => []Inv
<1>1. Inv /\ [Next]_vars => Inv'
  BY TypeStep, SpacedStep, AgeStep DEF Inv
<1> QED
  BY InitInv, <1>1, PTL DEF Spec

(***************************************************************************)
(* The store's snapshot is less than two intervals and one run of gh old,  *)
(* plus what failed polls cost, whatever the interval and the timeout.     *)
(***************************************************************************)
THEOREM LatestIsRecentHolds == Spec => []LatestIsRecent
<1>1. Inv => LatestIsRecent
  <2> SUFFICES ASSUME Inv, latest # None PROVE latest < 2 * interval + gh_timeout + Debt
    BY DEF LatestIsRecent, Debt
  <2>1. Debt \in Nat
    <3>1. failures \in Nat
      BY FetcherAssumption DEF Inv, TypeOK
    <3> QED
      BY <3>1, SlowerBounds DEF Debt
  <2> QED
    BY FetcherAssumption, <2>1 DEF Inv, TypeOK, Age, AgeInv, Remaining
<1> QED
  BY InvHolds, <1>1, PTL

(***************************************************************************)
(* gh is started at most once per interval, however slow it is and however *)
(* often it fails.                                                         *)
(***************************************************************************)
THEOREM GhIsSpacedHolds == Spec => GhIsSpaced
<1>1. Inv /\ [Next]_vars
        => [stage = "waiting" /\ stage' = "fetching" => idle = None \/ idle >= interval]_vars
  <2> SUFFICES ASSUME Inv, Next, stage = "waiting", stage' = "fetching"
               PROVE  idle = None \/ idle >= interval
    OBVIOUS
  <2>1. Poll
    BY DEF Next, GhFails, GhAnswers, Observe, Pass
  <2> QED
    BY <2>1, FetcherAssumption DEF Poll, Inv, TypeOK, Age, Spaced
<1> QED
  BY InvHolds, <1>1, PTL DEF Spec, GhIsSpaced
=============================================================================
