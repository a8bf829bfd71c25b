----------------------------- MODULE FoldProofs ------------------------------
(***************************************************************************)
(* Folds, as the community modules define them, for proofs: the value of a *)
(* fold over a finite set, and of a loop over a sequence, exists and stays *)
(* where its steps keep it.  The lemmas speak of sets and functions only,  *)
(* as a lemma about an operator cannot be cited for another one.           *)
(***************************************************************************)
EXTENDS Naturals, SequencesExt, FiniteSetTheorems, WellFoundedInduction, TLAPS

LEMMA SmallestNat ==
    ASSUME NEW T \in SUBSET Nat, T # {}
    PROVE  \E n \in T : \A k \in T : n <= k
<1>1. PICK m \in T : \A k \in T : <<k, m>> \notin OpToRel(<, Nat)
  BY WFMin, NatLessThanWellFounded, Zenon
<1>2. \A k \in T : ~(k < m)
  BY <1>1, Zenon DEF OpToRel
<1> QED
  BY <1>2

(* Induction over the subsets of a finite set.                             *)
LEMMA SubsetInduction ==
    ASSUME NEW S, IsFiniteSet(S), NEW G,
           {} \in G,
           \A s \in SUBSET S : s # {} /\ (\A x \in s : s \ {x} \in G) => s \in G
    PROVE  \A s \in SUBSET S : s \in G
<1> SUFFICES ASSUME NEW s0 \in SUBSET S, s0 \notin G PROVE FALSE
  OBVIOUS
<1> DEFINE Bad == {s \in SUBSET S : s \notin G}
           Sizes == {Cardinality(s) : s \in Bad}
<1>1. \A s \in SUBSET S : IsFiniteSet(s) /\ Cardinality(s) \in Nat
  BY FS_Subset, FS_CardinalityType
<1>2. Sizes \in SUBSET Nat /\ Sizes # {}
  BY <1>1
<1>3. PICK n \in Sizes : \A k \in Sizes : n <= k
  BY <1>2, SmallestNat
<1>4. PICK s \in Bad : Cardinality(s) = n
  BY <1>3
<1>5. \A x \in s : s \ {x} \in G
  <2> SUFFICES ASSUME NEW x \in s, s \ {x} \notin G PROVE FALSE
    OBVIOUS
  <2>1. s \ {x} \in Bad
    OBVIOUS
  <2>2. Cardinality(s \ {x}) = Cardinality(s) - 1
    BY <1>1, FS_RemoveElement
  <2>3. Cardinality(s \ {x}) \in Sizes
    BY <2>1
  <2>4. Cardinality(s) \in Nat /\ n <= Cardinality(s \ {x})
    BY <1>1, <1>3, <2>3
  <2> HIDE DEF Bad, Sizes
  <2> QED
    BY <1>4, <2>2, <2>4
<1> QED
  BY <1>4, <1>5

(* A fold over a finite set S from `base`: `pick` chooses the element that *)
(* comes last of a set, `step` takes it and the value before it to the     *)
(* next.                                                                   *)
Steps(S, V, base, pick, step) ==
    /\ IsFiniteSet(S) /\ base \in V
    /\ \A s \in SUBSET S : s # {} => pick[s] \in s
    /\ \A x \in S, v \in V : step[<<x, v>>] \in V

IsFold(S, base, pick, step, g) ==
    \A s \in SUBSET S :
       g[s] = IF s = {} THEN base ELSE step[<<pick[s], g[s \ {pick[s]}]>>]

LEMMA FoldExists ==
    ASSUME NEW S, NEW V, NEW base, NEW pick, NEW step, Steps(S, V, base, pick, step)
    PROVE  \E g \in [SUBSET S -> V] : IsFold(S, base, pick, step, g)
<1> USE DEF Steps
<1> DEFINE Before(s) == s \ {pick[s]}
           Closed(R) == /\ <<{}, base>> \in R
                        /\ \A s \in SUBSET S : s # {} =>
                              \A v \in V : <<Before(s), v>> \in R => <<s, step[<<pick[s], v>>]>> \in R
           I == {c \in (SUBSET S) \X V : \A R : Closed(R) => c \in R}
           G == {s \in SUBSET S : \E v \in V : \A w \in V : <<s, w>> \in I <=> w = v}
<1>1. \A s \in SUBSET S : s # {} => pick[s] \in S /\ Before(s) \in SUBSET S
  OBVIOUS
<1>2. Closed(I)
  <2>1. <<{}, base>> \in I
    <3>1. <<{}, base>> \in (SUBSET S) \X V
      OBVIOUS
    <3>2. \A R : Closed(R) => <<{}, base>> \in R
      OBVIOUS
    <3> HIDE DEF Closed
    <3> QED
      BY <3>1, <3>2
  <2>2. ASSUME NEW s \in SUBSET S, s # {}, NEW v \in V, <<Before(s), v>> \in I
        PROVE  <<s, step[<<pick[s], v>>]>> \in I
    <3>1. step[<<pick[s], v>>] \in V
      BY <1>1, <2>2
    <3>2. ASSUME NEW R, Closed(R) PROVE <<s, step[<<pick[s], v>>]>> \in R
      BY <2>2, <3>2
    <3>3. <<s, step[<<pick[s], v>>]>> \in (SUBSET S) \X V
      BY <3>1
    <3> HIDE DEF Closed
    <3> QED
      BY <3>2, <3>3
  <2> HIDE DEF I
  <2> QED
    BY <2>1, <2>2
<1>3. {} \in G
  <2>1. <<{}, base>> \in I
    BY <1>2
  <2>2. ASSUME NEW w \in V, <<{}, w>> \in I, w # base PROVE FALSE
    <3>1. Closed(I \ {<<{}, w>>})
      <4> HIDE DEF I
      <4> QED
        BY <1>2, <2>2
    <3>2. <<{}, w>> \in I \ {<<{}, w>>}
      <4>1. \A R : Closed(R) => <<{}, w>> \in R
        BY <2>2
      <4> HIDE DEF I, Closed
      <4> QED
        BY <3>1, <4>1
    <3> QED
      BY <3>2
  <2> HIDE DEF I
  <2> QED
    BY <2>1, <2>2
<1>4. ASSUME NEW s \in SUBSET S, s # {}, \A x \in s : s \ {x} \in G
      PROVE  s \in G
  <2>1. pick[s] \in s /\ Before(s) \in G
    BY <1>4
  <2>2. PICK v \in V : \A w \in V : <<Before(s), w>> \in I <=> w = v
    BY <2>1
  <2> DEFINE u == step[<<pick[s], v>>]
  <2>3. u \in V
    BY <2>1
  <2>4. <<s, u>> \in I
    <3>1. <<Before(s), v>> \in I
      BY <2>2
    <3> HIDE DEF I
    <3> QED
      BY <1>2, <1>4, <3>1
  <2>5. ASSUME NEW w \in V, <<s, w>> \in I, w # u PROVE FALSE
    <3> DEFINE J == I \ {<<s, w>>}
    <3>1. Closed(J)
      <4>1. <<{}, base>> \in J
        <5> HIDE DEF I
        <5> QED
          BY <1>2, <1>4
      <4>2. ASSUME NEW r \in SUBSET S, r # {}, NEW x \in V, <<Before(r), x>> \in J
            PROVE  <<r, step[<<pick[r], x>>]>> \in J
        <5> HIDE DEF I
        <5>1. <<r, step[<<pick[r], x>>]>> \in I
          BY <1>2, <4>2
        <5>2. r = s => x = v
          BY <2>2, <4>2
        <5>3. r = s => step[<<pick[r], x>>] # w
          BY <2>5, <5>2
        <5> QED
          BY <5>1, <5>3
      <4> QED
        BY <4>1, <4>2
    <3>2. \A R : Closed(R) => <<s, w>> \in R
      BY <2>5
    <3> HIDE DEF I, Closed
    <3> QED
      BY <3>1, <3>2
  <2> HIDE DEF I, u
  <2> QED
    BY <2>3, <2>4, <2>5
<1>5. \A s \in SUBSET S : s \in G
  <2> HIDE DEF G
  <2> QED
    BY <1>3, <1>4, SubsetInduction
<1> DEFINE g == [s \in SUBSET S |-> CHOOSE v \in V : <<s, v>> \in I]
<1>6. \A s \in SUBSET S : g[s] \in V /\ \A w \in V : <<s, w>> \in I <=> w = g[s]
  <2> SUFFICES ASSUME NEW s \in SUBSET S PROVE g[s] \in V /\ \A w \in V : <<s, w>> \in I <=> w = g[s]
    OBVIOUS
  <2>1. PICK v \in V : \A w \in V : <<s, w>> \in I <=> w = v
    BY <1>5
  <2>2. g[s] = CHOOSE w \in V : <<s, w>> \in I
    OBVIOUS
  <2> HIDE DEF I, g
  <2> QED
    BY <2>1, <2>2
<1>7. g \in [SUBSET S -> V]
  <2> HIDE DEF I
  <2>1. \A s \in SUBSET S : (CHOOSE v \in V : <<s, v>> \in I) \in V
    BY <1>6
  <2> QED
    BY <2>1
<1>8. ASSUME NEW s \in SUBSET S
      PROVE  g[s] = IF s = {} THEN base ELSE step[<<pick[s], g[s \ {pick[s]}]>>]
  <2> HIDE DEF I, g
  <2>1. CASE s = {}
    BY <1>2, <1>6, <2>1
  <2>2. CASE s # {}
    <3>1. Before(s) \in SUBSET S /\ pick[s] \in S
      BY <2>2
    <3>2. <<Before(s), g[Before(s)]>> \in I /\ g[Before(s)] \in V
      BY <1>6, <3>1
    <3>3. step[<<pick[s], g[Before(s)]>>] \in V
      BY <3>1, <3>2
    <3>4. <<s, step[<<pick[s], g[Before(s)]>>]>> \in I
      BY <1>2, <2>2, <3>2
    <3> QED
      BY <1>6, <2>2, <3>3, <3>4
  <2> QED
    BY <2>1, <2>2
<1> QED
  <2> HIDE DEF g
  <2> QED
    BY <1>7, <1>8 DEF IsFold

(* A fold that takes these steps as long as its values are in V.           *)
IsFoldWithin(S, V, base, pick, step, fold) ==
    /\ fold[{}] = base
    /\ \A s \in SUBSET S :
          s # {} /\ fold[s \ {pick[s]}] \in V =>
             fold[s] = step[<<pick[s], fold[s \ {pick[s]}]>>]

(* What the steps of a fold keep to, its value keeps to.                   *)
LEMMA FoldStays ==
    ASSUME NEW S, NEW V, NEW base, NEW pick, NEW step, Steps(S, V, base, pick, step),
           NEW fold, IsFoldWithin(S, V, base, pick, step, fold)
    PROVE  \A s \in SUBSET S : fold[s] \in V
<1> USE DEF Steps, IsFoldWithin
<1> DEFINE G == {s \in SUBSET S : fold[s] \in V}
<1>1. {} \in G
  OBVIOUS
<1>2. ASSUME NEW s \in SUBSET S, s # {}, \A x \in s : s \ {x} \in G
      PROVE  s \in G
  <2>1. pick[s] \in s /\ fold[s \ {pick[s]}] \in V
    BY <1>2
  <2>2. step[<<pick[s], fold[s \ {pick[s]}]>>] \in V
    BY <2>1
  <2> QED
    BY <1>2, <2>1, <2>2
<1> HIDE DEF G
<1>3. \A s \in SUBSET S : s \in G
  BY <1>1, <1>2, SubsetInduction
<1> QED
  BY <1>3 DEF G

(* And where it is after each set of elements, when that depends on it.    *)
LEMMA FoldFollows ==
    ASSUME NEW S, NEW V, NEW base, NEW pick, NEW step, Steps(S, V, base, pick, step),
           NEW fold, IsFoldWithin(S, V, base, pick, step, fold),
           NEW F, base \in F[{}],
           \A s \in SUBSET S : s # {} =>
              \A v \in V : v \in F[s \ {pick[s]}] => step[<<pick[s], v>>] \in F[s]
    PROVE  fold[S] \in V /\ fold[S] \in F[S]
<1> DEFINE G == {s \in SUBSET S : fold[s] \in F[s]}
<1>1. \A s \in SUBSET S : fold[s] \in V
  BY FoldStays
<1>2. {} \in G
  BY DEF IsFoldWithin
<1>3. ASSUME NEW s \in SUBSET S, s # {}, \A x \in s : s \ {x} \in G
      PROVE  s \in G
  <2>1. pick[s] \in s /\ fold[s \ {pick[s]}] \in F[s \ {pick[s]}]
    BY <1>3 DEF Steps
  <2>2. fold[s] = step[<<pick[s], fold[s \ {pick[s]}]>>] /\ fold[s \ {pick[s]}] \in V
    BY <1>1, <1>3, <2>1 DEF IsFoldWithin
  <2> QED
    BY <1>3, <2>1, <2>2
<1>4. \A s \in SUBSET S : s \in G
  <2>1. IsFiniteSet(S)
    BY DEF Steps
  <2> HIDE DEF G
  <2> QED
    BY <1>2, <1>3, <2>1, SubsetInduction
<1> QED
  BY <1>1, <1>4

-----------------------------------------------------------------------------
(* Sums *)

(* The sum over the elements of a finite set, whichever comes first.       *)
IsSum(S, f, sum) ==
    /\ sum[{}] = 0
    /\ \A s \in SUBSET S : \A x \in s : sum[s] = sum[s \ {x}] + f[x]

(* Adding them up, an element picked after the other.                      *)
Picks(S, pick) == IsFiniteSet(S) /\ \A s \in SUBSET S : s # {} => pick[s] \in s

Adds(S, f, pick, g) ==
    g = [s \in SUBSET S |-> IF s = {} THEN 0 ELSE g[s \ {pick[s]}] + f[pick[s]]]

LEMMA SumExists ==
    ASSUME NEW S, NEW f \in [S -> Nat], NEW pick, Picks(S, pick)
    PROVE  \E g : Adds(S, f, pick, g)
<1> USE DEF Picks, Adds
<1> DEFINE step == [c \in S \X Nat |-> c[2] + f[c[1]]]
           Fold(g) == [s \in SUBSET S |-> IF s = {} THEN 0 ELSE g[s \ {pick[s]}] + f[pick[s]]]
<1>1. \A x \in S, v \in Nat : step[<<x, v>>] = v + f[x] /\ step[<<x, v>>] \in Nat
  OBVIOUS
<1> HIDE DEF step
<1>2. Steps(S, Nat, 0, pick, step)
  BY <1>1 DEF Steps
<1>3. PICK g \in [SUBSET S -> Nat] : IsFold(S, 0, pick, step, g)
  BY <1>2, FoldExists
<1>4. \A s \in SUBSET S : g[s] = Fold(g)[s]
  <2> TAKE s \in SUBSET S
  <2>1. CASE s = {}
    BY <1>3, <2>1 DEF IsFold
  <2>2. CASE s # {}
    <3>1. pick[s] \in S /\ g[s \ {pick[s]}] \in Nat
      BY <1>3, <2>2
    <3>2. g[s] = g[s \ {pick[s]}] + f[pick[s]]
      BY <1>1, <1>3, <2>2, <3>1 DEF IsFold
    <3> QED
      BY <2>2, <3>2
  <2> QED
    BY <2>1, <2>2
<1>5. g = Fold(g)
  BY <1>3, <1>4
<1> QED
  BY <1>3, <1>5

(* However the elements are picked, they add up to the same.               *)
LEMMA SumInAnyOrder ==
    ASSUME NEW S, NEW f \in [S -> Nat], NEW pick, Picks(S, pick),
           NEW fold, Adds(S, f, pick, fold)
    PROVE  fold \in [SUBSET S -> Nat] /\ IsSum(S, f, fold)
<1> USE DEF Picks, Adds
<1> DEFINE step == [c \in S \X Nat |-> c[2] + f[c[1]]]
<1>1. \A x \in S, v \in Nat : step[<<x, v>>] = v + f[x] /\ step[<<x, v>>] \in Nat
  OBVIOUS
<1> HIDE DEF step
<1>2. fold[{}] = 0 /\ \A s \in SUBSET S : s # {} => fold[s] = fold[s \ {pick[s]}] + f[pick[s]]
  OBVIOUS
<1>3. \A s \in SUBSET S : fold[s] \in Nat
  <2>1. Steps(S, Nat, 0, pick, step)
    BY <1>1 DEF Steps
  <2>2. \A s \in SUBSET S :
          s # {} /\ fold[s \ {pick[s]}] \in Nat => fold[s] = step[<<pick[s], fold[s \ {pick[s]}]>>]
    <3> TAKE s \in SUBSET S
    <3> SUFFICES ASSUME s # {}, fold[s \ {pick[s]}] \in Nat
                 PROVE  fold[s] = step[<<pick[s], fold[s \ {pick[s]}]>>]
      OBVIOUS
    <3>1. pick[s] \in S
      OBVIOUS
    <3> QED
      BY <1>1, <1>2, <3>1
  <2>3. IsFoldWithin(S, Nat, 0, pick, step, fold)
    BY <1>2, <2>2 DEF IsFoldWithin
  <2> QED
    BY <2>1, <2>3, FoldStays
<1> DEFINE G == {s \in SUBSET S : \A x \in s : fold[s] = fold[s \ {x}] + f[x]}
<1>4. ASSUME NEW s \in SUBSET S, s # {}, \A x \in s : s \ {x} \in G PROVE s \in G
  <2> DEFINE p == pick[s]
  <2>1. p \in s /\ fold[s] = fold[s \ {p}] + f[p]
    BY <1>2, <1>4
  <2> HIDE DEF p
  <2>2. ASSUME NEW x \in s, x # p PROVE fold[s] = fold[s \ {x}] + f[x]
    <3> DEFINE r == (s \ {p}) \ {x}
    <3>1. r = (s \ {x}) \ {p} /\ r \in SUBSET S /\ x \in s \ {p} /\ p \in s \ {x}
      BY <2>1, <2>2
    <3>2. fold[s \ {p}] = fold[r] + f[x] /\ fold[s \ {x}] = fold[r] + f[p]
      BY <1>4, <2>1, <3>1
    <3>3. fold[r] \in Nat /\ f[x] \in Nat /\ f[p] \in Nat
      BY <1>3, <2>1, <3>1
    <3> HIDE DEF r
    <3> QED
      BY <2>1, <3>2, <3>3
  <2> QED
    BY <2>1, <2>2
<1>5. \A s \in SUBSET S : s \in G
  <2>1. {} \in G
    OBVIOUS
  <2> HIDE DEF G
  <2> QED
    BY <1>4, <2>1, SubsetInduction
<1>6. fold \in [SUBSET S -> Nat]
  BY <1>3
<1>7. IsSum(S, f, fold)
  BY <1>2, <1>5 DEF IsSum
<1> QED
  BY <1>6, <1>7

-----------------------------------------------------------------------------
(* Loops over a sequence are folds in which the last index comes last.     *)

(* The elements of a finite set, one after the other.                      *)
LEMMA Enumerated ==
    ASSUME NEW T, IsFiniteSet(T)
    PROVE  LET sequence == SetToSeq(T)
           IN  /\ sequence \in Seq(T)
               /\ \A i, j \in 1..Len(sequence) : sequence[i] = sequence[j] => i = j
               /\ \A e \in T : \E i \in 1..Len(sequence) : sequence[i] = e
<1> DEFINE n == Cardinality(T)
           sequence == SetToSeq(T)
<1>1. n \in Nat /\ ExistsBijection(1..n, T)
  BY FS_CardinalityType
<1>2. PICK f \in [1..n -> T] : \A i, j \in 1..n : f[i] = f[j] => i = j
  BY <1>1 DEF ExistsBijection, Bijection, Injection, IsInjective
<1>3. IsInjective(f)
  BY <1>2 DEF IsInjective
<1>4. sequence \in [1..n -> T] /\ IsInjective(sequence)
  BY <1>3 DEF SetToSeq
<1> HIDE DEF sequence
<1>5. sequence \in Seq(T) /\ Len(sequence) = n
  BY <1>1, <1>4
<1>6. \A i, j \in 1..n : sequence[i] = sequence[j] => i = j
  BY <1>4 DEF IsInjective
<1>7. sequence \in Surjection(1..n, T)
  <2>1. sequence \in Injection(1..n, T)
    BY <1>4, <1>6 DEF Injection, IsInjective
  <2>2. IsFiniteSet(1..n) /\ Cardinality(1..n) = Cardinality(T)
    BY <1>1, FS_Interval
  <2> HIDE DEF n
  <2> QED
    BY <2>1, <2>2, FS_Injection
<1>8. \A e \in T : \E i \in 1..n : sequence[i] = e
  BY <1>7 DEF Surjection
<1> HIDE DEF n
<1>9. /\ sequence \in Seq(T)
      /\ \A i, j \in 1..Len(sequence) : sequence[i] = sequence[j] => i = j
      /\ \A e \in T : \E i \in 1..Len(sequence) : sequence[i] = e
  BY <1>5, <1>6, <1>8
<1> QED
  BY <1>9 DEF sequence

LEMMA LargestIndex ==
    ASSUME NEW n \in Nat, NEW s \in SUBSET (1..n), s # {}
    PROVE  \E x \in s : \A y \in s : x >= y
<1> DEFINE T == {n - x : x \in s}
<1>1. T \in SUBSET Nat /\ T # {}
  <2>1. \A x \in s : n - x \in Nat
    OBVIOUS
  <2> QED
    BY <2>1
<1>2. PICK m \in T : \A k \in T : m <= k
  BY <1>1, SmallestNat
<1>3. PICK x \in s : m = n - x
  BY <1>2
<1>4. \A y \in s : n - x <= n - y
  BY <1>2, <1>3
<1>5. \A y \in s : x >= y
  BY <1>4
<1> QED
  BY <1>5

LastOf(s) == CHOOSE x \in s : \A y \in s : x >= y

LEMMA LastIndex ==
    ASSUME NEW n \in Nat, NEW s \in SUBSET (1..n), s # {}
    PROVE  (CHOOSE x \in s : \A y \in s : x >= y) \in s
  BY LargestIndex

(* A loop over the indices S, up to n, that starts in V and stays there;   *)
(* its values after each set of them exist.                                *)
Loop(n, S, V, base, step) ==
    /\ n \in Nat /\ S = 1..n /\ base \in V
    /\ \A x \in S, v \in V : step[<<x, v>>] \in V

LoopValues(S, base, step, g) ==
    \A s \in SUBSET S : g[s] = IF s = {} THEN base ELSE step[<<LastOf(s), g[s \ {LastOf(s)}]>>]

LoopWithin(S, V, base, step, fold) ==
    /\ fold[{}] = base
    /\ \A s \in SUBSET S : s # {} /\ fold[s \ {LastOf(s)}] \in V =>
          fold[s] = step[<<LastOf(s), fold[s \ {LastOf(s)}]>>]

LEMMA LoopExists ==
    ASSUME NEW n, NEW S, NEW V, NEW base, NEW step, Loop(n, S, V, base, step)
    PROVE  \E g \in [SUBSET S -> V] : LoopValues(S, base, step, g)
<1> USE DEF Loop, LoopValues
<1> DEFINE pick == [s \in SUBSET S |-> LastOf(s)]
<1>1. \A s \in SUBSET S : pick[s] = LastOf(s) /\ (s # {} => LastOf(s) \in s)
  BY LastIndex DEF LastOf
<1>2. IsFiniteSet(S)
  BY FS_Interval
<1> HIDE DEF pick
<1>3. Steps(S, V, base, pick, step)
  BY <1>1, <1>2 DEF Steps
<1>4. PICK g \in [SUBSET S -> V] : IsFold(S, base, pick, step, g)
  BY <1>3, FoldExists
<1>5. \A s \in SUBSET S : g[s] = IF s = {} THEN base ELSE step[<<LastOf(s), g[s \ {LastOf(s)}]>>]
  BY <1>1, <1>4 DEF IsFold
<1> QED
  BY <1>5

LEMMA LoopStays ==
    ASSUME NEW n, NEW S, NEW V, NEW base, NEW step, Loop(n, S, V, base, step),
           NEW fold, LoopWithin(S, V, base, step, fold)
    PROVE  fold[S] \in V
<1> USE DEF Loop, LoopWithin
<1> DEFINE pick == [s \in SUBSET S |-> LastOf(s)]
<1>1. \A s \in SUBSET S : pick[s] = LastOf(s) /\ (s # {} => LastOf(s) \in s)
  BY LastIndex DEF LastOf
<1>2. IsFiniteSet(S)
  BY FS_Interval
<1> HIDE DEF pick
<1>3. Steps(S, V, base, pick, step)
  BY <1>1, <1>2 DEF Steps
<1>4. IsFoldWithin(S, V, base, pick, step, fold)
  BY <1>1 DEF IsFoldWithin
<1>5. \A s \in SUBSET S : fold[s] \in V
  BY <1>3, <1>4, FoldStays
<1> QED
  BY <1>5

(* And where it is after each set of indices, when that depends on it.     *)
LEMMA LoopFollows ==
    ASSUME NEW n, NEW S, NEW V, NEW base, NEW step, Loop(n, S, V, base, step),
           NEW fold, LoopWithin(S, V, base, step, fold),
           NEW F, base \in F[{}],
           \A s \in SUBSET S : s # {} =>
              \A v \in V : v \in F[s \ {LastOf(s)}] => step[<<LastOf(s), v>>] \in F[s]
    PROVE  fold[S] \in V /\ fold[S] \in F[S]
<1> DEFINE pick == [s \in SUBSET S |-> LastOf(s)]
<1>1. \A s \in SUBSET S : pick[s] = LastOf(s) /\ (s # {} => LastOf(s) \in s)
  BY LastIndex DEF LastOf, Loop
<1>2. IsFiniteSet(S)
  BY FS_Interval DEF Loop
<1> HIDE DEF pick
<1>3. Steps(S, V, base, pick, step)
  BY <1>1, <1>2 DEF Steps, Loop
<1>4. IsFoldWithin(S, V, base, pick, step, fold)
  BY <1>1 DEF IsFoldWithin, LoopWithin
<1>5. \A s \in SUBSET S : s # {} =>
         \A v \in V : v \in F[s \ {pick[s]}] => step[<<pick[s], v>>] \in F[s]
  BY <1>1
<1> QED
  BY <1>3, <1>4, <1>5, FoldFollows

(* Two loops over the same indices, in step with each other.               *)
LEMMA LoopsTogether ==
    ASSUME NEW n, NEW S, NEW V, NEW base1, NEW base2, NEW step1, NEW step2, NEW fold1, NEW fold2,
           Loop(n, S, V, base1, step1), LoopWithin(S, V, base1, step1, fold1),
           Loop(n, S, V, base2, step2), LoopWithin(S, V, base2, step2, fold2),
           NEW R \in SUBSET (V \X V), <<base1, base2>> \in R,
           \A x \in S, v, w \in V : <<v, w>> \in R => <<step1[<<x, v>>], step2[<<x, w>>]>> \in R
    PROVE  <<fold1[S], fold2[S]>> \in R
<1> DEFINE base == <<base1, base2>>
           step == [c \in S \X R |-> <<step1[<<c[1], c[2][1]>>], step2[<<c[1], c[2][2]>>]>>]
           fold == [s \in SUBSET S |-> <<fold1[s], fold2[s]>>]
<1>1. \A x \in S, v, w \in V : <<v, w>> \in R =>
         step[<<x, <<v, w>>>>] = <<step1[<<x, v>>], step2[<<x, w>>]>>
  OBVIOUS
<1>2. \A r \in R : \E v, w \in V : r = <<v, w>>
  OBVIOUS
<1>3. \A s \in SUBSET S : fold[s] = <<fold1[s], fold2[s]>>
  OBVIOUS
<1> HIDE DEF step, fold
<1>4. \A x \in S, r \in R : step[<<x, r>>] \in R
  <2> TAKE x \in S, r \in R
  <2>1. PICK v, w \in V : r = <<v, w>>
    BY <1>2
  <2>2. step[<<x, <<v, w>>>>] \in R
    <3>1. <<v, w>> \in R /\ <<step1[<<x, v>>], step2[<<x, w>>]>> \in R
      BY <2>1
    <3>2. step[<<x, <<v, w>>>>] = <<step1[<<x, v>>], step2[<<x, w>>]>>
      BY <1>1, <3>1
    <3> QED
      BY <3>1, <3>2
  <2> QED
    BY <2>1, <2>2
<1>5. Loop(n, S, R, base, step)
  BY <1>4 DEF Loop
<1>6. LoopWithin(S, R, base, step, fold)
  <2>1. fold[{}] = base
    BY <1>3 DEF LoopWithin
  <2>2. ASSUME NEW s \in SUBSET S, s # {}, fold[s \ {LastOf(s)}] \in R
        PROVE  fold[s] = step[<<LastOf(s), fold[s \ {LastOf(s)}]>>]
    <3> DEFINE r == s \ {LastOf(s)}
    <3>1. r \in SUBSET S /\ LastOf(s) \in S
      BY <2>2, LastIndex DEF Loop, LastOf
    <3>2. <<fold1[r], fold2[r]>> \in R /\ fold[r] = <<fold1[r], fold2[r]>>
      BY <1>3, <2>2, <3>1
    <3>3. fold1[r] \in V /\ fold2[r] \in V
      BY <3>2
    <3>4. fold1[s] = step1[<<LastOf(s), fold1[r]>>] /\ fold2[s] = step2[<<LastOf(s), fold2[r]>>]
      BY <2>2, <3>3 DEF LoopWithin
    <3>5. step[<<LastOf(s), <<fold1[r], fold2[r]>>>>]
             = <<step1[<<LastOf(s), fold1[r]>>], step2[<<LastOf(s), fold2[r]>>]>>
      BY <1>1, <3>1, <3>2, <3>3, ZenonT(60)
    <3> QED
      BY <1>3, <3>2, <3>4, <3>5
  <2> QED
    BY <2>1, <2>2 DEF LoopWithin
<1>7. fold[S] \in R
  BY <1>5, <1>6, LoopStays
<1> QED
  BY <1>3, <1>7
=============================================================================
