--------------------------- MODULE SequenceFacts ---------------------------
(***************************************************************************)
(* Facts about data that the proofs of other modules rest on: induction    *)
(* over the numbers, and what a fold over a sequence computes.  They are   *)
(* stated of sets and functions, not of operators, so that they can be     *)
(* cited.                                                                  *)
(***************************************************************************)
EXTENDS Integers, SequencesExt, FiniteSetTheorems, WellFoundedInduction, TLAPS

\* Induction: a set with 0 and the successors of its numbers has them all.
LEMMA InductionOnNat ==
  ASSUME NEW S, 0 \in S, \A n \in Nat : n \in S => n + 1 \in S
  PROVE  \A n \in Nat : n \in S
<1> DEFINE T == Nat \ S
<1> SUFFICES ASSUME T # {} PROVE FALSE
  OBVIOUS
<1>1. PICK x \in T : \A y \in T : ~ (<<y, x>> \in OpToRel(<, Nat))
  BY NatLessThanWellFounded, WFMin, Zenon
<1>2. \A y \in T : ~ (y < x)
  <2> SUFFICES ASSUME NEW y \in T, y < x PROVE FALSE
    OBVIOUS
  <2>1. <<y, x>> \in OpToRel(<, Nat)
    BY DEF OpToRel
  <2> QED
    BY <2>1, <1>1
<1>3. x # 0
  OBVIOUS
<1>4. x - 1 \in Nat /\ x - 1 < x
  BY <1>3
<1>5. x - 1 \in S
  BY <1>2, <1>4
<1> QED
  BY <1>4, <1>5

\* Induction up to a bound.
LEMMA InductionTo ==
  ASSUME NEW n \in Nat, NEW S, 0 \in S, \A i \in 1 .. n : i - 1 \in S => i \in S
  PROVE  \A i \in 0 .. n : i \in S
<1> DEFINE T == {i \in Nat : i <= n => i \in S}
<1>1. 0 \in T
  OBVIOUS
<1>2. ASSUME NEW i \in Nat, i \in T PROVE i + 1 \in T
  <2>1. i + 1 <= n => i + 1 \in 1 .. n /\ (i + 1) - 1 = i /\ i <= n
    OBVIOUS
  <2> QED
    BY <2>1, <1>2
<1>3. \A i \in Nat : i \in T
  <2> HIDE DEF T
  <2> QED
    BY <1>1, <1>2, InductionOnNat
<1> QED
  BY <1>3

\* The greatest of the first numbers.
LEMMA MaxOfPrefix ==
  ASSUME NEW n \in Nat, NEW s \in SUBSET (1 .. n + 1), n + 1 \in s
  PROVE  Max(s) = n + 1 /\ s \ {n + 1} \in SUBSET (1 .. n)
<1>1. \A x \in s : x \in Int /\ x <= n + 1
  OBVIOUS
<1>2. Max(s) \in s /\ \A y \in s : Max(s) >= y
  BY <1>1 DEF Max
<1>3. Max(s) = n + 1
  <2> DEFINE m == Max(s)
  <2>1. m \in Int /\ m <= n + 1 /\ m >= n + 1
    BY <1>1, <1>2
  <2> HIDE DEF m
  <2>2. m = n + 1
    BY <2>1
  <2> QED
    BY <2>2 DEF m
<1>4. ASSUME NEW x \in s \ {n + 1} PROVE x \in 1 .. n
  OBVIOUS
<1> QED
  BY <1>3, <1>4

\* f solves the recursion of a fold over 1 .. n, which takes the greatest
\* element away.
SolvesFold(f, n, base, apply) ==
  f = [s \in SUBSET (1 .. n) |->
         IF s = {} THEN base ELSE apply[Max(s)][f[s \ {Max(s)}]]]

\* The recursion of a fold has a solution.
LEMMA FoldExists ==
  ASSUME NEW n \in Nat, NEW A, NEW base \in A, NEW apply \in [1 .. n -> [A -> A]]
  PROVE  \E f \in [SUBSET (1 .. n) -> A] : SolvesFold(f, n, base, apply)
<1> DEFINE Solves(i, f) == SolvesFold(f, i, base, apply)
           S == {i \in 0 .. n : \E f \in [SUBSET (1 .. i) -> A] : Solves(i, f)}
<1>1. 0 \in S
  <2> DEFINE f == [s \in SUBSET (1 .. 0) |-> base]
  <2>1. \A s \in SUBSET (1 .. 0) : s = {}
    OBVIOUS
  <2>2. f = [s \in SUBSET (1 .. 0) |->
             IF s = {} THEN base ELSE apply[Max(s)][f[s \ {Max(s)}]]]
    BY <2>1
  <2>3. f \in [SUBSET (1 .. 0) -> A] /\ Solves(0, f)
    BY <2>2 DEF SolvesFold
  <2>4. 0 \in 0 .. n
    OBVIOUS
  <2> HIDE DEF f, Solves
  <2> QED
    BY <2>3, <2>4
<1>2. ASSUME NEW i \in 1 .. n, i - 1 \in S PROVE i \in S
  <2>1. PICK g \in [SUBSET (1 .. (i - 1)) -> A] : Solves(i - 1, g)
    BY <1>2
  <2> DEFINE f == [s \in SUBSET (1 .. i) |->
                     IF i \in s THEN apply[i][g[s \ {i}]] ELSE g[s]]
  <2>2. \A s \in SUBSET (1 .. i) : 
           IF i \in s THEN Max(s) = i /\ s \ {i} \in SUBSET (1 .. (i - 1))
           ELSE s \in SUBSET (1 .. (i - 1))
    <3> SUFFICES ASSUME NEW s \in SUBSET (1 .. i)
                 PROVE  IF i \in s THEN Max(s) = i /\ s \ {i} \in SUBSET (1 .. (i - 1))
                        ELSE s \in SUBSET (1 .. (i - 1))
      OBVIOUS
    <3>1. i - 1 \in Nat /\ (i - 1) + 1 = i
      OBVIOUS
    <3>2. CASE i \in s
      BY <3>1, <3>2, MaxOfPrefix
    <3>3. CASE i \notin s
      BY <3>3
    <3> QED
      BY <3>2, <3>3
  <2>3. f \in [SUBSET (1 .. i) -> A]
    BY <2>2
  <2>4. \A s \in SUBSET (1 .. (i - 1)) : s \in SUBSET (1 .. i) /\ i \notin s /\ f[s] = g[s]
    OBVIOUS
  <2>5. ASSUME NEW s \in SUBSET (1 .. i)
        PROVE  f[s] = IF s = {} THEN base ELSE apply[Max(s)][f[s \ {Max(s)}]]
    <3>1. CASE i \in s
      <4>1. f[s] = apply[i][g[s \ {i}]]
        BY <3>1
      <4>2. Max(s) = i /\ f[s \ {i}] = g[s \ {i}]
        BY <2>2, <2>4, <3>1
      <4> QED
        BY <4>1, <4>2, <3>1
    <3>2. CASE i \notin s
      <4>1. s \in SUBSET (1 .. (i - 1)) /\ f[s] = g[s]
        BY <2>2, <3>2
      <4>2. g[s] = IF s = {} THEN base ELSE apply[Max(s)][g[s \ {Max(s)}]]
        BY <4>1, <2>1 DEF SolvesFold
      <4>3. s \ {Max(s)} \in SUBSET (1 .. (i - 1))
        BY <4>1
      <4>4. f[s \ {Max(s)}] = g[s \ {Max(s)}]
        BY <4>3, <2>4
      <4> QED
        BY <4>1, <4>2, <4>4
    <3> QED
      BY <3>1, <3>2
  <2>6. Solves(i, f)
    <3> SUFFICES f = [s \in SUBSET (1 .. i) |->
                 IF s = {} THEN base ELSE apply[Max(s)][f[s \ {Max(s)}]]]
      BY DEF SolvesFold
    <3> HIDE DEF f
    <3> QED
      BY <2>3, <2>5
  <2> HIDE DEF f, Solves
  <2> QED
    BY <2>3, <2>6
<1>3. \A i \in 0 .. n : i \in S
  <2> HIDE DEF S
  <2> QED
    BY <1>1, <1>2, InductionTo
<1>4. n \in S
  <2>1. n \in 0 .. n
    OBVIOUS
  <2> HIDE DEF S
  <2> QED
    BY <1>3, <2>1
<1> QED
  BY <1>4

\* A set of numbers up to n has a greatest one.
LEMMA MaxInSet ==
  ASSUME NEW n \in Nat, NEW s \in SUBSET (1 .. n), s # {}
  PROVE  Max(s) \in s
<1> DEFINE T == {i \in 0 .. n : s \cap (1 .. i) # {} => \E x \in s : \A y \in s \cap (1 .. i) : x >= y}
<1>1. 0 \in T
  OBVIOUS
<1>2. ASSUME NEW i \in 1 .. n, i - 1 \in T PROVE i \in T
  <2>1. CASE i \in s
    BY <2>1
  <2>2. CASE i \notin s
    <3>1. s \cap (1 .. i) = s \cap (1 .. (i - 1))
      BY <2>2
    <3> QED
      BY <3>1, <1>2
  <2> QED
    BY <2>1, <2>2
<1>3. \A i \in 0 .. n : i \in T
  <2> HIDE DEF T
  <2> QED
    BY <1>1, <1>2, InductionTo
<1>4. n \in T /\ s \cap (1 .. n) = s
  <2>1. n \in 0 .. n
    OBVIOUS
  <2>2. s \cap (1 .. n) = s
    OBVIOUS
  <2> HIDE DEF T
  <2> QED
    BY <1>3, <2>1, <2>2
<1>5. \E x \in s : \A y \in s : x >= y
  BY <1>4
<1> QED
  BY <1>5 DEF Max

\* The prefixes of 1 .. n, as a fold from the left takes them.
LEMMA PrefixFacts ==
  ASSUME NEW n \in Nat
  PROVE  /\ {} \in SUBSET (1 .. n) /\ 1 .. 0 = {}
         /\ \A i \in 1 .. n :
              /\ 1 .. i \in SUBSET (1 .. n) /\ 1 .. i # {}
              /\ Max(1 .. i) = i /\ (1 .. i) \ {i} = 1 .. (i - 1)
         /\ \A s \in SUBSET (1 .. n) : s # {} =>
              Max(s) \in 1 .. n /\ s \ {Max(s)} \in SUBSET (1 .. n)
<1>1. ASSUME NEW i \in 1 .. n
      PROVE  /\ 1 .. i \in SUBSET (1 .. n) /\ 1 .. i # {}
             /\ Max(1 .. i) = i /\ (1 .. i) \ {i} = 1 .. (i - 1)
  <2>1. i - 1 \in Nat /\ (i - 1) + 1 = i /\ 1 .. i \in SUBSET (1 .. i) /\ i \in 1 .. i
    OBVIOUS
  <2>2. Max(1 .. i) = i
    BY <2>1, MaxOfPrefix
  <2> QED
    BY <2>1, <2>2
<1>2. \A s \in SUBSET (1 .. n) : s # {} =>
        Max(s) \in 1 .. n /\ s \ {Max(s)} \in SUBSET (1 .. n)
  BY MaxInSet
<1> QED
  BY <1>1, <1>2

\* g has what n steps make of the base, one after another.
Steps(g, n, base, apply) ==
  g[0] = base /\ \A i \in 1 .. n : g[i] = apply[i][g[i - 1]]

\* Steps within a set can be taken.
LEMMA StepsExist ==
  ASSUME NEW n \in Nat, NEW A, NEW base \in A, NEW apply \in [1 .. n -> [A -> A]]
  PROVE  \E g \in [0 .. n -> A] : Steps(g, n, base, apply)
<1>1. PICK f \in [SUBSET (1 .. n) -> A] : SolvesFold(f, n, base, apply)
  BY FoldExists
<1> DEFINE g == [i \in 0 .. n |-> f[1 .. i]]
<1>2. \A i \in 0 .. n : 1 .. i \in SUBSET (1 .. n)
  OBVIOUS
<1>3. g \in [0 .. n -> A]
  BY <1>2
<1>4. g[0] = base
  BY <1>1, PrefixFacts DEF SolvesFold
<1>5. ASSUME NEW i \in 1 .. n PROVE g[i] = apply[i][g[i - 1]]
  <2>1. g[i] = f[1 .. i] /\ g[i - 1] = f[1 .. (i - 1)]
    OBVIOUS
  <2>2. /\ 1 .. i \in SUBSET (1 .. n) /\ 1 .. i # {}
        /\ Max(1 .. i) = i /\ (1 .. i) \ {i} = 1 .. (i - 1)
    BY PrefixFacts
  <2>3. f[1 .. i] = apply[Max(1 .. i)][f[(1 .. i) \ {Max(1 .. i)}]]
    BY <1>1, <2>2 DEF SolvesFold
  <2> QED
    BY <2>1, <2>2, <2>3
<1> HIDE DEF g
<1> QED
  BY <1>3, <1>4, <1>5 DEF Steps

\* F has the beginnings of the lists put together.
Flattens(F, seqs, n) ==
  /\ F[0] = << >>
  /\ \A i \in 1 .. n : F[i] = F[i - 1] \o seqs[i]
  /\ FlattenSeq(seqs) = F[n]

\* FlattenSeq puts lists together from the left.
LEMMA FlattenFold ==
  ASSUME NEW A, NEW n \in Nat \ {0}, NEW seqs \in [1 .. n -> Seq(A)]
  PROVE  \E F \in [0 .. n -> Seq(A)] : Flattens(F, seqs, n)
<1> DEFINE apply == [i \in 1 .. n |-> [s \in Seq(A) |-> s \o seqs[i]]]
           Solves(f) == f = [i \in 1 .. Len(seqs) |->
                               IF i = 1 THEN seqs[i] ELSE f[i - 1] \o seqs[i]]
<1>1. Len(seqs) = n /\ n # 0 /\ 1 \in 1 .. n /\ \A i \in 1 .. n : seqs[i] \in Seq(A)
  OBVIOUS
<1> DEFINE B == Seq(A)
<1>2. apply \in [1 .. n -> [B -> B]] /\ << >> \in B
  <2>1. \A i \in 1 .. n, s \in Seq(A) : s \o seqs[i] \in Seq(A)
    BY <1>1
  <2> QED
    BY <2>1
<1>i. \A i \in 1 .. n : \A s \in B : apply[i][s] = s \o seqs[i]
  OBVIOUS
<1> HIDE DEF apply, B
<1>g. PICK g \in [0 .. n -> B] : Steps(g, n, << >>, apply)
  <2>1. n \in Nat
    OBVIOUS
  <2> QED
    BY <1>2, <2>1, StepsExist
<1>3. g[0] = << >> /\ \A i \in 1 .. n : g[i] = apply[i][g[i - 1]]
  BY <1>g DEF Steps
<1>4. \A i \in 1 .. n : g[i] = g[i - 1] \o seqs[i]
  <2>1. \A i \in 1 .. n : i - 1 \in 0 .. n
    OBVIOUS
  <2>2. \A i \in 1 .. n : g[i - 1] \in B
    BY <2>1
  <2> QED
    BY <1>i, <1>3, <2>2
<1>5. g[1] = seqs[1]
  <2>1. 1 - 1 = 0
    OBVIOUS
  <2>2. g[1] = << >> \o seqs[1]
    BY <1>1, <1>3, <1>4, <2>1
  <2>3. << >> \o seqs[1] = seqs[1]
    BY <1>1
  <2> QED
    BY <2>2, <2>3
<1> DEFINE f == [i \in 1 .. n |-> g[i]]
<1>6. Solves(f)
  <2>1. ASSUME NEW i \in 1 .. n
        PROVE  f[i] = IF i = 1 THEN seqs[i] ELSE f[i - 1] \o seqs[i]
    <3>1. CASE i = 1
      BY <1>5, <3>1
    <3>2. CASE i # 1
      <4>1. i - 1 \in 1 .. n
        BY <3>2
      <4>2. f[i] = g[i] /\ f[i - 1] = g[i - 1]
        BY <4>1
      <4> QED
        BY <1>4, <3>2, <4>2
    <3> QED
      BY <3>1, <3>2
  <2>2. f = [i \in 1 .. n |-> f[i]]
    OBVIOUS
  <2> HIDE DEF f
  <2>3. f = [i \in 1 .. n |-> IF i = 1 THEN seqs[i] ELSE f[i - 1] \o seqs[i]]
    BY <2>1, <2>2
  <2> QED
    BY <1>1, <2>3
<1> DEFINE H == CHOOSE h : Solves(h)
<1>7. Solves(H)
  <2> HIDE DEF Solves, f
  <2> QED
    BY <1>6
<1>8. FlattenSeq(seqs) = H[n]
  BY <1>1 DEF FlattenSeq
<1> HIDE DEF H, f
<1>9. \A i \in 1 .. n : H[i] = IF i = 1 THEN seqs[i] ELSE H[i - 1] \o seqs[i]
  BY <1>1, <1>7
<1> DEFINE T == {i \in 0 .. n : i # 0 => H[i] = g[i]}
<1>10. 0 \in T
  OBVIOUS
<1>11. ASSUME NEW i \in 1 .. n, i - 1 \in T PROVE i \in T
  <2>1. CASE i = 1
    BY <1>5, <1>9, <2>1
  <2>2. CASE i # 1
    <3>1. i - 1 \in 1 .. n /\ H[i - 1] = g[i - 1]
      BY <1>11, <2>2
    <3>2. H[i] = H[i - 1] \o seqs[i] /\ g[i] = g[i - 1] \o seqs[i]
      BY <1>4, <1>9, <2>2
    <3>3. H[i] = g[i]
      BY <3>1, <3>2
    <3> QED
      BY <3>3
  <2> QED
    BY <2>1, <2>2
<1>12. \A i \in 0 .. n : i \in T
  <2> HIDE DEF T
  <2> QED
    BY <1>10, <1>11, InductionTo
<1>13. H[n] = g[n]
  <2>1. n \in T
    <3> HIDE DEF T
    <3> QED
      BY <1>12
  <2> QED
    BY <2>1
<1> QED
  BY <1>g, <1>3, <1>4, <1>8, <1>13 DEF Flattens, B

\* A set of numbers has a least one.
LEMMA MinInSet ==
  ASSUME NEW T \in SUBSET Nat, T # {}
  PROVE  Min(T) \in T
<1>1. PICK x \in T : \A y \in T : ~ (<<y, x>> \in OpToRel(<, Nat))
  BY NatLessThanWellFounded, WFMin, Zenon
<1>2. \A y \in T : x =< y
  <2> SUFFICES ASSUME NEW y \in T, ~ (x =< y) PROVE FALSE
    OBVIOUS
  <2>1. x \in Nat /\ y \in Nat /\ y < x
    OBVIOUS
  <2>2. <<y, x>> \in OpToRel(<, Nat)
    BY <2>1 DEF OpToRel
  <2> QED
    BY <2>2, <1>1
<1> QED
  BY <1>2 DEF Min

\* FlattenSeq puts lists together from the left, if there are any.
LEMMA FlattenSteps ==
  ASSUME NEW A, NEW s \in Seq(Seq(A))
  PROVE  \E F \in [0 .. Len(s) -> Seq(A)] : Flattens(F, s, Len(s))
<1> DEFINE n == Len(s)
<1>1. CASE n = 0
  <2>1. s = << >> /\ FlattenSeq(s) = << >>
    BY <1>1 DEF FlattenSeq
  <2> DEFINE F == [i \in 0 .. n |-> << >>]
  <2>2. F \in [0 .. n -> Seq(A)] /\ F[0] = << >> /\ F[n] = << >> /\ 1 .. n = {}
    BY <1>1
  <2> HIDE DEF F
  <2>3. Flattens(F, s, n)
    BY <2>1, <2>2 DEF Flattens
  <2> QED
    BY <2>2, <2>3
<1>2. CASE n # 0
  <2>1. n \in Nat \ {0} /\ s \in [1 .. n -> Seq(A)]
    BY <1>2
  <2> HIDE DEF n
  <2>2. \E F \in [0 .. n -> Seq(A)] : Flattens(F, s, n)
    BY <2>1, FlattenFold
  <2> QED
    BY <2>2 DEF n
<1> QED
  BY <1>1, <1>2

\* Lists are put together in any order.
LEMMA ConcatAssoc ==
  ASSUME NEW A, NEW r \in Seq(A), NEW s \in Seq(A), NEW t \in Seq(A)
  PROVE  r \o (s \o t) = (r \o s) \o t
<1> DEFINE u == r \o (s \o t)
           v == (r \o s) \o t
<1>1. u \in Seq(A) /\ v \in Seq(A) /\ Len(u) = Len(v)
  OBVIOUS
<1>2. ASSUME NEW i \in 1 .. Len(u) PROVE u[i] = v[i]
  <2>1. CASE i <= Len(r)
    BY <2>1
  <2>2. CASE i > Len(r) /\ i <= Len(r) + Len(s)
    <3>1. i - Len(r) \in 1 .. Len(s) /\ s \o t \in Seq(A) /\ r \o s \in Seq(A)
      BY <2>2
    <3>2. (s \o t)[i - Len(r)] = s[i - Len(r)] /\ (r \o s)[i] = s[i - Len(r)]
      BY <3>1, <2>2
    <3>3. u[i] = (s \o t)[i - Len(r)] /\ v[i] = (r \o s)[i]
      BY <3>1, <2>2
    <3> QED
      BY <3>2, <3>3
  <2>3. CASE i > Len(r) + Len(s)
    <3> DEFINE j == i - (Len(r) + Len(s))
    <3>1. j \in 1 .. Len(t) /\ i - Len(r) = Len(s) + j /\ i = (Len(r) + Len(s)) + j
      BY <2>3
    <3>2. s \o t \in Seq(A) /\ r \o s \in Seq(A) /\ Len(r \o s) = Len(r) + Len(s)
      OBVIOUS
    <3>3. (s \o t)[Len(s) + j] = t[j] /\ v[i] = t[j]
      BY <3>1, <3>2
    <3>4. u[i] = (s \o t)[i - Len(r)]
      BY <3>2, <2>3
    <3> QED
      BY <3>1, <3>3, <3>4
  <2> QED
    BY <2>1, <2>2, <2>3
<1> QED
  BY <1>1, <1>2

\* Lists of lists may be flattened one after the other.
LEMMA FlattenConcat ==
  ASSUME NEW A, NEW s \in Seq(Seq(A)), NEW t \in Seq(Seq(A))
  PROVE  /\ FlattenSeq(s) \in Seq(A)
         /\ FlattenSeq(s \o t) = FlattenSeq(s) \o FlattenSeq(t)
<1> DEFINE n == Len(s)
           m == Len(t)
           u == s \o t
<1>1. /\ n \in Nat /\ m \in Nat /\ u \in Seq(Seq(A)) /\ Len(u) = n + m
      /\ \A i \in 1 .. n : u[i] = s[i]
      /\ \A j \in 1 .. m : u[n + j] = t[j] /\ t[j] \in Seq(A)
  OBVIOUS
<1>2. PICK F \in [0 .. n -> Seq(A)] : Flattens(F, s, n)
  BY FlattenSteps
<1>3. PICK G \in [0 .. m -> Seq(A)] : Flattens(G, t, m)
  BY FlattenSteps
<1>4. PICK H \in [0 .. n + m -> Seq(A)] : Flattens(H, u, n + m)
  <2> HIDE DEF u, n, m
  <2>1. \E H \in [0 .. Len(u) -> Seq(A)] : Flattens(H, u, Len(u))
    BY <1>1, FlattenSteps
  <2> QED
    BY <1>1, <2>1
<1> HIDE DEF n, m, u
<1> DEFINE S == {i \in 0 .. n : H[i] = F[i]}
           T == {j \in 0 .. m : H[n + j] = F[n] \o G[j]}
<1>5. \A i \in 0 .. n : H[i] = F[i]
  <2>1. 0 \in S
    BY <1>1, <1>2, <1>4 DEF Flattens
  <2>2. ASSUME NEW i \in 1 .. n, i - 1 \in S PROVE i \in S
    <3>1. i \in 1 .. n + m /\ i \in 0 .. n
      BY <1>1
    <3>2. H[i] = H[i - 1] \o u[i] /\ F[i] = F[i - 1] \o s[i]
      BY <3>1, <1>2, <1>4 DEF Flattens
    <3>3. u[i] = s[i] /\ H[i - 1] = F[i - 1]
      BY <1>1, <2>2
    <3> QED
      BY <3>1, <3>2, <3>3
  <2>3. \A i \in 0 .. n : i \in S
    <3> HIDE DEF S
    <3> QED
      BY <1>1, <2>1, <2>2, InductionTo
  <2> QED
    BY <2>3
<1>6. F[n] \in Seq(A) /\ \A j \in 0 .. m : G[j] \in Seq(A)
  BY <1>1
<1>7. \A j \in 0 .. m : H[n + j] = F[n] \o G[j]
  <2>1. 0 \in T
    <3>1. n + 0 = n /\ G[0] = << >> /\ n \in 0 .. n /\ 0 \in 0 .. m
      BY <1>1, <1>3 DEF Flattens
    <3>2. F[n] \o << >> = F[n]
      BY <1>6
    <3> QED
      BY <3>1, <3>2, <1>5
  <2>2. ASSUME NEW j \in 1 .. m, j - 1 \in T PROVE j \in T
    <3>1. n + j \in 1 .. n + m /\ j \in 0 .. m /\ j - 1 \in 0 .. m /\ (n + j) - 1 = n + (j - 1)
      BY <1>1
    <3>2. H[n + j] = H[n + (j - 1)] \o t[j] /\ G[j] = G[j - 1] \o t[j]
      BY <3>1, <1>1, <1>3, <1>4 DEF Flattens
    <3>3. H[n + (j - 1)] = F[n] \o G[j - 1]
      BY <2>2
    <3>4. F[n] \o (G[j - 1] \o t[j]) = (F[n] \o G[j - 1]) \o t[j]
      <4>1. F[n] \in Seq(A) /\ G[j - 1] \in Seq(A) /\ t[j] \in Seq(A)
        BY <3>1, <1>1, <1>6
      <4>2. \A x, y, z \in Seq(A) : x \o (y \o z) = (x \o y) \o z
        BY ConcatAssoc
      <4> QED
        BY <4>1, <4>2, Zenon
    <3> QED
      BY <3>1, <3>2, <3>3, <3>4
  <2>3. \A j \in 0 .. m : j \in T
    <3> HIDE DEF T
    <3> QED
      BY <1>1, <2>1, <2>2, InductionTo
  <2> QED
    BY <2>3
<1>8. m \in 0 .. m
  BY <1>1
<1> QED
  BY <1>2, <1>3, <1>4, <1>6, <1>7, <1>8 DEF Flattens, u

\* A list of one list is that list.
LEMMA FlattenOne ==
  ASSUME NEW A, NEW x \in Seq(A)
  PROVE  FlattenSeq(<< x >>) = x /\ FlattenSeq(<< >>) = << >>
<1>1. << x >> \in Seq(Seq(A)) /\ Len(<< x >>) = 1
  OBVIOUS
<1>2. PICK F \in [0 .. 1 -> Seq(A)] : Flattens(F, << x >>, 1)
  BY <1>1, FlattenSteps
<1>3. F[1] = F[0] \o x /\ F[0] = << >>
  <2>1. 1 \in 1 .. 1 /\ << x >>[1] = x /\ 1 - 1 = 0
    OBVIOUS
  <2> QED
    BY <1>2, <2>1 DEF Flattens
<1>4. FlattenSeq(<< >>) = << >>
  BY DEF FlattenSeq
<1> QED
  BY <1>2, <1>3, <1>4 DEF Flattens
------------------------------------------------------------------------------
(* Folds over finite sets. *)

\* The element that a fold over a set takes away first.
Chosen(s) == CHOOSE x \in s : TRUE

\* One call of such a fold, with f for the call it makes.
SetFoldBody(f, s, base, apply) ==
  IF s = {} THEN base ELSE apply[Chosen(s)][f[s \ {Chosen(s)}]]

\* f solves the recursion of a fold over S, which takes elements away in any order.
SolvesSetFold(f, S, base, apply) ==
  f = [s \in SUBSET S |-> SetFoldBody(f, s, base, apply)]

\* A set of at most n elements is folded as the recursion says.
FoldsSets(f, S, base, apply, n) ==
  \A s \in SUBSET S : Cardinality(s) < n => f[s] = SetFoldBody(f, s, base, apply)

\* What remains of a set is a smaller one.
LEMMA RestOfSet ==
  ASSUME NEW S, IsFiniteSet(S), NEW s \in SUBSET S, s # {}
  PROVE  /\ Chosen(s) \in S /\ s \ {Chosen(s)} \in SUBSET S
         /\ Cardinality(s) \in Nat \ {0}
         /\ Cardinality(s \ {Chosen(s)}) = Cardinality(s) - 1
<1>1. Chosen(s) \in s
  BY DEF Chosen
<1>2. IsFiniteSet(s)
  BY FS_Subset
<1>3. Cardinality(s) \in Nat /\ Cardinality(s) # 0
  BY <1>2, FS_CardinalityType, FS_EmptySet
<1> QED
  BY <1>1, <1>2, <1>3, FS_RemoveElement

\* A call of the fold returns something in A if the call it makes does.
LEMMA SetFoldBodyTyped ==
  ASSUME NEW S, IsFiniteSet(S), NEW A, NEW base \in A, NEW apply \in [S -> [A -> A]],
         NEW s \in SUBSET S, NEW f, s # {} => f[s \ {Chosen(s)}] \in A
  PROVE  SetFoldBody(f, s, base, apply) \in A
<1>1. CASE s = {}
  BY <1>1 DEF SetFoldBody
<1>2. CASE s # {}
  <2>1. Chosen(s) \in S /\ f[s \ {Chosen(s)}] \in A
    BY <1>2, RestOfSet
  <2>2. apply[Chosen(s)] \in [A -> A]
    BY <2>1
  <2>3. apply[Chosen(s)][f[s \ {Chosen(s)}]] \in A
    BY <2>1, <2>2
  <2> QED
    BY <1>2, <2>3 DEF SetFoldBody
<1> QED
  BY <1>1, <1>2

\* The recursion of a fold over a finite set has a solution.
LEMMA SetFoldExists ==
  ASSUME NEW S, IsFiniteSet(S), NEW A, NEW base \in A, NEW apply \in [S -> [A -> A]]
  PROVE  \E f \in [SUBSET S -> A] : SolvesSetFold(f, S, base, apply)
<1> DEFINE T == {n \in Nat : \E f \in [SUBSET S -> A] : FoldsSets(f, S, base, apply, n)}
<1>1. 0 \in T
  <2> DEFINE f == [s \in SUBSET S |-> base]
  <2>1. f \in [SUBSET S -> A]
    OBVIOUS
  <2>2. \A s \in SUBSET S : Cardinality(s) \in Nat
    BY FS_Subset, FS_CardinalityType
  <2>3. \A s \in SUBSET S : ~ (Cardinality(s) < 0)
    BY <2>2
  <2> HIDE DEF f
  <2>4. FoldsSets(f, S, base, apply, 0)
    BY <2>3 DEF FoldsSets
  <2> QED
    BY <2>1, <2>4
<1>2. ASSUME NEW n \in Nat, n \in T PROVE n + 1 \in T
  <2>1. PICK f \in [SUBSET S -> A] : FoldsSets(f, S, base, apply, n)
    BY <1>2
  <2> DEFINE g == [s \in SUBSET S |-> SetFoldBody(f, s, base, apply)]
  <2>2. ASSUME NEW s \in SUBSET S PROVE SetFoldBody(f, s, base, apply) \in A
    <3>1. s # {} => f[s \ {Chosen(s)}] \in A
      BY RestOfSet
    <3> QED
      BY <3>1, SetFoldBodyTyped
  <2>3. g \in [SUBSET S -> A] /\ \A s \in SUBSET S : g[s] = SetFoldBody(f, s, base, apply)
    BY <2>2
  <2> HIDE DEF g
  <2>4. ASSUME NEW s \in SUBSET S, Cardinality(s) < n + 1
        PROVE  g[s] = SetFoldBody(g, s, base, apply)
    <3>1. CASE s = {}
      BY <3>1, <2>3 DEF SetFoldBody
    <3>2. CASE s # {}
      <4> DEFINE t == s \ {Chosen(s)}
      <4>1. t \in SUBSET S /\ Cardinality(t) < n
        BY <3>2, <2>4, RestOfSet
      <4>2. f[t] = g[t]
        BY <4>1, <2>1, <2>3 DEF FoldsSets
      <4> HIDE DEF t
      <4>3. SetFoldBody(f, s, base, apply) = apply[Chosen(s)][f[t]]
        BY <3>2 DEF SetFoldBody, t
      <4>4. SetFoldBody(g, s, base, apply) = apply[Chosen(s)][g[t]]
        BY <3>2 DEF SetFoldBody, t
      <4> QED
        BY <4>2, <4>3, <4>4, <2>3
    <3> QED
      BY <3>1, <3>2
  <2>5. FoldsSets(g, S, base, apply, n + 1)
    BY <2>4 DEF FoldsSets
  <2> QED
    BY <2>3, <2>5
<1> HIDE DEF T
<1>3. \A n \in Nat : n \in T
  BY <1>1, <1>2, InductionOnNat
<1>4. Cardinality(S) + 1 \in Nat
  BY FS_CardinalityType
<1>5. PICK f \in [SUBSET S -> A] : FoldsSets(f, S, base, apply, Cardinality(S) + 1)
  BY <1>3, <1>4 DEF T
<1>6. ASSUME NEW s \in SUBSET S PROVE f[s] = SetFoldBody(f, s, base, apply)
  <2>1. IsFiniteSet(s) /\ Cardinality(s) <= Cardinality(S)
    BY FS_Subset
  <2>2. Cardinality(s) \in Nat /\ Cardinality(S) \in Nat
    BY <2>1, FS_CardinalityType
  <2>3. Cardinality(s) < Cardinality(S) + 1
    BY <2>1, <2>2
  <2> QED
    BY <2>3, <1>5 DEF FoldsSets
<1>7. SolvesSetFold(f, S, base, apply)
  BY <1>6 DEF SolvesSetFold
<1> QED
  BY <1>7

\* What a function has for the empty set, and for a set if it has it for the
\* rest of the set, it has for a finite set.
LEMMA SetFoldTyped ==
  ASSUME NEW S, IsFiniteSet(S), NEW A, NEW f, f[{}] \in A,
         \A s \in SUBSET S : s # {} /\ f[s \ {Chosen(s)}] \in A => f[s] \in A
  PROVE  f[S] \in A
<1> DEFINE T == {n \in Nat : \A s \in SUBSET S : Cardinality(s) = n => f[s] \in A}
<1>1. 0 \in T
  BY FS_Subset, FS_EmptySet
<1>2. ASSUME NEW n \in Nat, n \in T PROVE n + 1 \in T
  <2> SUFFICES ASSUME NEW s \in SUBSET S, Cardinality(s) = n + 1 PROVE f[s] \in A
    OBVIOUS
  <2>1. s # {}
    BY FS_EmptySet
  <2>2. s \ {Chosen(s)} \in SUBSET S /\ Cardinality(s \ {Chosen(s)}) = n
    BY <2>1, RestOfSet
  <2>3. f[s \ {Chosen(s)}] \in A
    BY <2>2, <1>2
  <2> QED
    BY <2>1, <2>3
<1> HIDE DEF T
<1>3. \A n \in Nat : n \in T
  BY <1>1, <1>2, InductionOnNat
<1>4. Cardinality(S) \in T
  BY <1>3, FS_CardinalityType
<1> QED
  BY <1>4 DEF T
=============================================================================
