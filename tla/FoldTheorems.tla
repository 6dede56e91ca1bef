---------------------------- MODULE FoldTheorems ----------------------------
(***************************************************************************)
(* Lemmas about folds over finite sets, for the sums and the sequences that *)
(* MapThenSumSet and FoldLeft compute.  A fold is a recursive function that *)
(* takes one element after the other; the lemmas are about such functions,  *)
(* and show them right for the smallest set where they could be wrong.      *)
(* Likewise the order of a finite set that counting smaller elements gives. *)
(***************************************************************************)
EXTENDS Integers, FiniteSets, FiniteSetsExt, SequencesExt, FiniteSetTheorems, WellFoundedInduction, TLAPS

(* What holds of a subset when it holds of all smaller ones holds of all.   *)
LEMMA SubsetInduction ==
    ASSUME NEW S, IsFiniteSet(S), NEW P,
           \A s \in SUBSET S : (\A r \in SUBSET s : r # s => r \in P) => s \in P
    PROVE  \A s \in SUBSET S : s \in P
<1> DEFINE T == {s \in SUBSET S : s \notin P}
<1> SUFFICES ASSUME T # {} PROVE FALSE
  OBVIOUS
<1>1. T \subseteq FiniteSubsetsOf(S)
  BY FS_FiniteSubsetsOfFinite
<1>2. PICK s \in T : \A r \in T : <<r, s>> \notin StrictSubsetOrdering(S)
  <2> HIDE DEF T
  <2> QED
    BY <1>1, FS_StrictSubsetOrderingWellFounded, WFMin
<1>3. \A r \in SUBSET s : r # s => r \in P
  BY <1>2 DEF StrictSubsetOrdering
<1> QED
  BY <1>3

(* A set of natural numbers has a least one, a finite one its maximum.      *)
LEMMA LeastOf ==
    ASSUME NEW T, T \subseteq Nat, T # {}
    PROVE  \E n \in T : \A k \in T : n <= k
<1>1. PICK n \in T : \A k \in T : <<k, n>> \notin OpToRel(<, Nat)
  BY NatLessThanWellFounded, WFMin
<1>2. \A k \in T : k \in Nat /\ n \in Nat /\ ~(k < n)
  BY <1>1 DEF OpToRel
<1> QED
  BY <1>2

LEMMA MaxOf ==
    ASSUME NEW n \in Nat, NEW T, T \subseteq 0 .. n, T # {}
    PROVE  Max(T) \in T /\ \A k \in T : k <= Max(T)
<1> DEFINE U == {n - k : k \in T}
<1>1. U \subseteq Nat /\ U # {}
  <2>1. \A k \in T : n - k \in Nat
    OBVIOUS
  <2> QED
    BY <2>1
<1>2. PICK u \in U : \A k \in U : u <= k
  <2> HIDE DEF U
  <2> QED
    BY <1>1, LeastOf
<1>3. PICK x \in T : u = n - x
  OBVIOUS
<1>4. \A k \in T : x >= k
  BY <1>2, <1>3
<1> QED
  BY <1>4 DEF Max

----------------------------------------------------------------------------
(* fold folds the subsets of S: pick[s] is the element that is taken last,  *)
(* and step[<<x, r>>] what it makes of the result r for the others.         *)
Folding(base, step, pick, S, fold) ==
    fold = [s \in SUBSET S |->
              IF s = {} THEN base ELSE step[<<pick[s], fold[s \ {pick[s]}]>>]]

(* A fold stays in a set that no step leaves.                               *)
LEMMA FoldStays ==
    ASSUME NEW S, IsFiniteSet(S), NEW fold, NEW R, fold[{}] \in R,
           \A s \in SUBSET S : s # {} =>
              \E x \in s : fold[s \ {x}] \in R => fold[s] \in R
    PROVE  \A s \in SUBSET S : fold[s] \in R
<1> DEFINE P == {s \in SUBSET S : fold[s] \in R}
<1>1. \A s \in SUBSET S : (\A r \in SUBSET s : r # s => r \in P) => s \in P
  <2> SUFFICES ASSUME NEW s \in SUBSET S, \A r \in SUBSET s : r # s => r \in P, s # {}
               PROVE  fold[s] \in R
    OBVIOUS
  <2>1. PICK x \in s : fold[s \ {x}] \in R => fold[s] \in R
    OBVIOUS
  <2>2. s \ {x} \in P
    OBVIOUS
  <2> QED
    BY <2>1, <2>2
<1> HIDE DEF P
<1>2. \A s \in SUBSET S : s \in P
  BY <1>1, SubsetInduction
<1> QED
  BY <1>2 DEF P

(* The same for the subsets of n elements at most.                          *)
Small(S, n) == {s \in SUBSET S : Cardinality(s) <= n}
FoldingSmall(base, step, pick, S, n, fold) ==
    fold = [s \in Small(S, n) |->
              IF s = {} THEN base ELSE step[<<pick[s], fold[s \ {pick[s]}]>>]]

(* Every finite set can be folded.                                          *)
LEMMA SmallFolds ==
    ASSUME NEW S, IsFiniteSet(S), NEW base, NEW step, NEW pick,
           \A s \in SUBSET S : s # {} => pick[s] \in s
    PROVE  \A n \in Nat : \E fold : FoldingSmall(base, step, pick, S, n, fold)
<1> DEFINE T == {n \in Nat : ~\E fold : FoldingSmall(base, step, pick, S, n, fold)}
<1> SUFFICES ASSUME T # {} PROVE FALSE
  OBVIOUS
<1>1. PICK n \in T : \A k \in T : n <= k
  <2> HIDE DEF T
  <2>1. T \subseteq Nat
    BY DEF T
  <2> QED
    BY <2>1, LeastOf
<1>2. n \in Nat /\ ~\E fold : FoldingSmall(base, step, pick, S, n, fold)
  OBVIOUS
<1>3. \A s \in SUBSET S : /\ IsFiniteSet(s) /\ Cardinality(s) \in Nat
                          /\ Cardinality(s) = 0 <=> s = {}
  BY FS_Subset, FS_CardinalityType, FS_EmptySet
<1>4. CASE n = 0
  <2> DEFINE fold == [s \in Small(S, 0) |-> base]
  <2>1. \A s \in Small(S, 0) : s = {}
    BY <1>3 DEF Small
  <2>2. FoldingSmall(base, step, pick, S, 0, fold)
    BY <2>1 DEF FoldingSmall
  <2> QED
    BY <1>2, <1>4, <2>2
<1>5. CASE n # 0
  <2>1. n - 1 \in Nat /\ ~(n <= n - 1)
    BY <1>2, <1>5
  <2>2. PICK less : FoldingSmall(base, step, pick, S, n - 1, less)
    BY <1>1, <2>1
  <2> DEFINE fold == [s \in Small(S, n) |->
                        IF s = {} THEN base ELSE step[<<pick[s], less[s \ {pick[s]}]>>]]
  <2>3. \A s \in Small(S, n - 1) : s \in Small(S, n) /\ fold[s] = less[s]
    <3>1. Small(S, n - 1) \subseteq Small(S, n)
      BY <1>2, <1>3, <2>1 DEF Small
    <3>2. \A s \in Small(S, n - 1) :
             less[s] = IF s = {} THEN base ELSE step[<<pick[s], less[s \ {pick[s]}]>>]
      BY <2>2 DEF FoldingSmall
    <3> QED
      BY <3>1, <3>2
  <2>4. \A s \in Small(S, n) : s # {} => s \ {pick[s]} \in Small(S, n - 1)
    <3> SUFFICES ASSUME NEW s \in Small(S, n), s # {} PROVE s \ {pick[s]} \in Small(S, n - 1)
      OBVIOUS
    <3>1. s \in SUBSET S /\ Cardinality(s) <= n /\ pick[s] \in s
      BY DEF Small
    <3>2. IsFiniteSet(s) /\ Cardinality(s) \in Nat
      BY <1>3, <3>1
    <3>3. Cardinality(s \ {pick[s]}) = Cardinality(s) - 1
      BY <3>1, <3>2, FS_RemoveElement
    <3> QED
      BY <1>2, <3>1, <3>2, <3>3 DEF Small
  <2>5. FoldingSmall(base, step, pick, S, n, fold)
    <3> HIDE DEF fold
    <3>1. \A s \in Small(S, n) : s # {} => fold[s \ {pick[s]}] = less[s \ {pick[s]}]
      BY <2>3, <2>4
    <3> QED
      BY <3>1 DEF FoldingSmall, fold
  <2> QED
    BY <1>2, <2>5
<1> QED
  BY <1>4, <1>5

LEMMA FoldExists ==
    ASSUME NEW S, IsFiniteSet(S), NEW base, NEW step, NEW pick,
           \A s \in SUBSET S : s # {} => pick[s] \in s
    PROVE  \E fold : Folding(base, step, pick, S, fold)
<1>1. Cardinality(S) \in Nat
  BY FS_CardinalityType
<1>2. PICK fold : FoldingSmall(base, step, pick, S, Cardinality(S), fold)
  BY <1>1, SmallFolds
<1>3. Small(S, Cardinality(S)) = SUBSET S
  BY FS_Subset DEF Small
<1> QED
  BY <1>2, <1>3 DEF FoldingSmall, Folding

----------------------------------------------------------------------------
(* sum gives every subset of S the sum of h over it.                        *)
Some(s) == CHOOSE x \in s : TRUE
Summing(h, S, sum) ==
    sum = [s \in SUBSET S |-> IF s = {} THEN 0 ELSE h[Some(s)] + sum[s \ {Some(s)}]]

LEMMA SomeIn == \A s : s # {} => Some(s) \in s
  BY DEF Some

LEMMA SumsExist ==
    ASSUME NEW S, IsFiniteSet(S), NEW h \in [S -> Nat]
    PROVE  \E sum : Summing(h, S, sum)
<1> DEFINE step == [xr \in S \X Nat |-> h[xr[1]] + xr[2]]
           pick == [s \in SUBSET S |-> Some(s)]
<1>1. \A s \in SUBSET S : s # {} => pick[s] = Some(s) /\ pick[s] \in s
  BY SomeIn
<1>2. \A x \in S, r \in Nat : step[<<x, r>>] = h[x] + r /\ step[<<x, r>>] \in Nat
  OBVIOUS
<1> HIDE DEF step, pick
<1>3. PICK sum : Folding(0, step, pick, S, sum)
  BY <1>1, FoldExists
<1>4. /\ sum = [s \in SUBSET S |-> sum[s]]
      /\ \A s \in SUBSET S :
            sum[s] = IF s = {} THEN 0 ELSE step[<<pick[s], sum[s \ {pick[s]}]>>]
  BY <1>3 DEF Folding
<1>5. \A s \in SUBSET S : sum[s] \in Nat
  <2>1. sum[{}] \in Nat
    <3>1. sum[{}] = 0
      BY <1>4
    <3> QED
      BY <3>1
  <2>2. \A s \in SUBSET S : s # {} => \E x \in s : sum[s \ {x}] \in Nat => sum[s] \in Nat
    <3> SUFFICES ASSUME NEW s \in SUBSET S, s # {}, sum[s \ {pick[s]}] \in Nat
                 PROVE  sum[s] \in Nat
      BY <1>1
    <3>1. pick[s] \in S /\ sum[s] = step[<<pick[s], sum[s \ {pick[s]}]>>]
      BY <1>1, <1>4
    <3> QED
      BY <1>2, <3>1
  <2> QED
    BY <2>1, <2>2, FoldStays
<1>6. \A s \in SUBSET S :
         sum[s] = IF s = {} THEN 0 ELSE h[Some(s)] + sum[s \ {Some(s)}]
  <2> SUFFICES ASSUME NEW s \in SUBSET S, s # {} PROVE sum[s] = h[Some(s)] + sum[s \ {Some(s)}]
    BY <1>4
  <2>1. Some(s) \in S /\ s \ {Some(s)} \in SUBSET S /\ sum[s] = step[<<Some(s), sum[s \ {Some(s)}]>>]
    BY <1>1, <1>4
  <2>2. sum[s \ {Some(s)}] \in Nat
    BY <1>5, <2>1
  <2> QED
    BY <1>2, <2>1, <2>2
<1> QED
  BY <1>4, <1>6 DEF Summing

(* Any element can be taken first.                                          *)
LEMMA SumStep ==
    ASSUME NEW S, IsFiniteSet(S), NEW h \in [S -> Nat], NEW sum, Summing(h, S, sum)
    PROVE  \A s \in SUBSET S : /\ sum[s] \in Nat
                               /\ s = {} => sum[s] = 0
                               /\ \A x \in s : sum[s] = h[x] + sum[s \ {x}]
<1> DEFINE Right(s) == /\ sum[s] \in Nat
                       /\ s = {} => sum[s] = 0
                       /\ \A x \in s : sum[s] = h[x] + sum[s \ {x}]
           P == {s \in SUBSET S : Right(s)}
<1>1. ASSUME NEW s \in SUBSET S, \A r \in SUBSET s : r # s => r \in P
      PROVE  Right(s)
  <2>1. sum[s] = IF s = {} THEN 0 ELSE h[Some(s)] + sum[s \ {Some(s)}]
    BY DEF Summing
  <2>2. CASE s = {}
    BY <2>1, <2>2
  <2>3. CASE s # {}
    <3>1. PICK y \in s : y = Some(s)
      BY <2>3, SomeIn
    <3>2. Right(s \ {y})
      <4>1. s \ {y} \in P
        BY <1>1
      <4> QED
        BY <4>1
    <3>4. /\ sum[s] = h[y] + sum[s \ {y}] /\ sum[s] \in Nat
          /\ h[y] \in Nat /\ sum[s \ {y}] \in Nat
      BY <2>1, <2>3, <3>1, <3>2
    <3>3. ASSUME NEW x \in s, x # y
          PROVE  sum[s] = h[x] + sum[s \ {x}]
      <4>1. Right(s \ {x}) /\ Right((s \ {y}) \ {x})
        <5>1. s \ {x} \in P
          BY <1>1
        <5>2. (s \ {y}) \ {x} \in P
          BY <1>1
        <5> QED
          BY <5>1, <5>2
      <4>2. sum[s \ {y}] = h[x] + sum[(s \ {y}) \ {x}]
        BY <3>2, <3>3
      <4>3. sum[s \ {x}] = h[y] + sum[(s \ {x}) \ {y}]
        BY <3>3, <4>1
      <4>4. (s \ {y}) \ {x} = (s \ {x}) \ {y}
        OBVIOUS
      <4>5. h[x] \in Nat /\ sum[s \ {x}] \in Nat /\ sum[(s \ {y}) \ {x}] \in Nat
        BY <4>1
      <4> QED
        BY ONLY <3>4, <4>2, <4>3, <4>4, <4>5
    <3> QED
      BY <2>3, <3>3, <3>4
  <2> QED
    BY <2>2, <2>3
<1>2. \A s \in SUBSET S : s \in P
  <2>1. \A s \in SUBSET S : (\A r \in SUBSET s : r # s => r \in P) => s \in P
    <3> HIDE DEF Right
    <3> QED
      BY <1>1
  <2> HIDE DEF P
  <2> QED
    BY <2>1, SubsetInduction
<1> QED
  BY <1>2

(* A sum over the images of a set under an injection is the sum over the    *)
(* set.                                                                     *)
LEMMA SumReindexed ==
    ASSUME NEW S, IsFiniteSet(S), NEW h \in [S -> Nat], NEW sum, Summing(h, S, sum),
           NEW D, IsFiniteSet(D), NEW f \in [D -> S], \A a, b \in D : f[a] = f[b] => a = b,
           NEW g \in [D -> Nat], \A d \in D : g[d] = h[f[d]], NEW dsum, Summing(g, D, dsum)
    PROVE  \A e \in SUBSET D : dsum[e] = sum[{f[d] : d \in e}]
<1> DEFINE Image(e) == {f[d] : d \in e}
           P == {e \in SUBSET D : dsum[e] = sum[Image(e)]}
<1>1. \A c \in SUBSET D : /\ c = {} => dsum[c] = 0
                          /\ \A x \in c : dsum[c] = g[x] + dsum[c \ {x}]
  <2>1. \A c \in SUBSET D : /\ dsum[c] \in Nat
                            /\ c = {} => dsum[c] = 0
                            /\ \A x \in c : dsum[c] = g[x] + dsum[c \ {x}]
    BY ONLY IsFiniteSet(D), g \in [D -> Nat], Summing(g, D, dsum), SumStep
  <2> QED
    BY <2>1
<1>2. \A s \in SUBSET S : /\ s = {} => sum[s] = 0
                          /\ \A x \in s : sum[s] = h[x] + sum[s \ {x}]
  <2>1. \A s \in SUBSET S : /\ sum[s] \in Nat
                            /\ s = {} => sum[s] = 0
                            /\ \A x \in s : sum[s] = h[x] + sum[s \ {x}]
    BY SumStep
  <2> QED
    BY <2>1
<1>3. ASSUME NEW e \in SUBSET D, \A c \in SUBSET e : c # e => c \in P
      PROVE  dsum[e] = sum[Image(e)]
  <2>1. CASE e = {}
    BY <1>1, <1>2, <2>1
  <2>2. CASE e # {}
    <3>1. PICK d \in e : TRUE
      BY <2>2
    <3>2. Image(e) \in SUBSET S /\ f[d] \in Image(e) /\ Image(e \ {d}) = Image(e) \ {f[d]}
      OBVIOUS
    <3>3. dsum[e \ {d}] = sum[Image(e \ {d})]
      BY <1>3
    <3>4. dsum[e] = g[d] + dsum[e \ {d}]
      BY <1>1
    <3>5. sum[Image(e)] = h[f[d]] + sum[Image(e) \ {f[d]}]
      <4> HIDE DEF Image
      <4> QED
        BY <1>2, <3>2
    <3> QED
      BY <3>2, <3>3, <3>4, <3>5
  <2> QED
    BY <2>1, <2>2
<1>4. \A e \in SUBSET D : e \in P
  <2>1. \A e \in SUBSET D : (\A c \in SUBSET e : c # e => c \in P) => e \in P
    <3> HIDE DEF Image
    <3> QED
      BY <1>3
  <2> HIDE DEF P
  <2> QED
    BY <2>1, SubsetInduction
<1> QED
  BY <1>4

(* So it does not depend on the order.                                      *)
Permutes(f, S, h, g) ==
    /\ f \in [S -> S]
    /\ \A a, b \in S : f[a] = f[b] => a = b
    /\ \A y \in S : \E x \in S : f[x] = y
    /\ \A x \in S : g[x] = h[f[x]]

LEMMA SumPermuted ==
    ASSUME NEW S, IsFiniteSet(S), NEW h \in [S -> Nat], NEW sum, Summing(h, S, sum),
           NEW g \in [S -> Nat], NEW fsum, Summing(g, S, fsum),
           NEW f, Permutes(f, S, h, g)
    PROVE  fsum[S] = sum[S]
<1>0. /\ f \in [S -> S] /\ \A a, b \in S : f[a] = f[b] => a = b
      /\ \A y \in S : \E x \in S : f[x] = y
      /\ \A x \in S : g[x] = h[f[x]]
  BY DEF Permutes
<1>1. \A e \in SUBSET S : fsum[e] = sum[{f[x] : x \in e}]
  BY <1>0, SumReindexed
<1>2. {f[x] : x \in S} = S
  BY <1>0
<1> QED
  BY <1>1, <1>2

(* Nor does it depend on the set whose subset is summed.                    *)
LEMMA SumUnique ==
    ASSUME NEW S, IsFiniteSet(S), NEW h \in [S -> Nat], NEW sum, Summing(h, S, sum),
           NEW A \in SUBSET S, NEW g \in [A -> Nat], \A x \in A : g[x] = h[x],
           NEW asum, Summing(g, A, asum)
    PROVE  asum[A] = sum[A]
<1> DEFINE f == [x \in A |-> x]
<1>1. f \in [A -> S] /\ (\A a, b \in A : f[a] = f[b] => a = b) /\ \A d \in A : g[d] = h[f[d]]
  OBVIOUS
<1>2. IsFiniteSet(A)
  BY FS_Subset
<1>3. {f[d] : d \in A} = A
  OBVIOUS
<1> HIDE DEF f
<1>4. \A e \in SUBSET A : asum[e] = sum[{f[d] : d \in e}]
  BY <1>1, <1>2, SumReindexed
<1> QED
  BY <1>3, <1>4

----------------------------------------------------------------------------
(* What holds of 0 and goes up by one holds of all numbers up to n.         *)
LEMMA Upward ==
    ASSUME NEW n \in Nat, NEW P, 0 \in P, \A i \in 0 .. n - 1 : i \in P => i + 1 \in P
    PROVE  \A i \in 0 .. n : i \in P
<1> DEFINE T == {i \in 0 .. n : i \notin P}
<1> SUFFICES ASSUME T # {} PROVE FALSE
  OBVIOUS
<1>1. PICK i \in T : \A k \in T : i <= k
  <2>1. T \subseteq Nat
    OBVIOUS
  <2> HIDE DEF T
  <2> QED
    BY <2>1, LeastOf
<1>2. i # 0 /\ i - 1 \in 0 .. n - 1 /\ i - 1 \notin T
  BY <1>1
<1> QED
  BY <1>1, <1>2

(* step[<<i, r>>] makes of the result r for the first i - 1 the one for i.  *)
FoldingUp(base, step, n, fold) ==
    fold = [s \in SUBSET (1 .. n) |->
              IF s = {} THEN base ELSE step[<<Max(s), fold[s \ {Max(s)}]>>]]

LEMMA FoldInTurn ==
    ASSUME NEW n \in Nat, NEW A, NEW base \in A, NEW step \in [(1 .. n) \X A -> A]
    PROVE  \E fold : /\ FoldingUp(base, step, n, fold)
                     /\ \A s \in SUBSET (1 .. n) : fold[s] \in A
<1> DEFINE D == 1 .. n
           pick == [s \in SUBSET D |-> Max(s)]
<1>1. IsFiniteSet(D)
  BY FS_Interval
<1>2. \A s \in SUBSET D : s # {} => Max(s) \in s
  <2>1. D \subseteq 0 .. n
    OBVIOUS
  <2> HIDE DEF D
  <2> QED
    BY <2>1, MaxOf
<1>3. PICK fold : Folding(base, step, pick, D, fold)
  <2>1. \A s \in SUBSET D : s # {} => pick[s] \in s
    BY <1>2
  <2> HIDE DEF D, pick
  <2> QED
    BY <1>1, <2>1, FoldExists
<1>4. fold = [s \in SUBSET D |->
                 IF s = {} THEN base ELSE step[<<Max(s), fold[s \ {Max(s)}]>>]]
  <2>1. \A s \in SUBSET D : pick[s] = Max(s)
    OBVIOUS
  <2> HIDE DEF D, pick
  <2> QED
    BY <1>3, <2>1 DEF Folding
<1>5. \A s \in SUBSET D : fold[s] \in A
  <2> HIDE DEF D, pick
  <2>1. \A s \in SUBSET D : s # {} => \E x \in s : fold[s \ {x}] \in A => fold[s] \in A
    <3> SUFFICES ASSUME NEW s \in SUBSET D, s # {}, fold[s \ {Max(s)}] \in A
                 PROVE  fold[s] \in A
      BY <1>2
    <3>1. Max(s) \in D /\ s \ {Max(s)} \in SUBSET D
      BY <1>2
    <3>2. fold[s] = step[<<Max(s), fold[s \ {Max(s)}]>>]
      BY <1>4
    <3> QED
      BY <3>1, <3>2 DEF D
  <2>2. fold[{}] \in A
    BY <1>4
  <2> QED
    BY <1>1, <2>1, <2>2, FoldStays
<1> QED
  BY <1>4, <1>5 DEF FoldingUp

(* The same for a function of the numbers up to n.                          *)
Stepping(first, step, n, f) == f = [i \in 1 .. n |-> IF i = 1 THEN first ELSE step[<<f[i - 1], i>>]]

LEMMA StepsExist ==
    ASSUME NEW n \in Nat, NEW A, NEW first \in A, NEW step \in [A \X (1 .. n) -> A]
    PROVE  \E f \in [1 .. n -> A] : Stepping(first, step, n, f)
<1> DEFINE Right(f, m) == f = [i \in 1 .. m |-> IF i = 1 THEN first ELSE step[<<f[i - 1], i>>]]
           Fs(m) == {f \in [1 .. m -> A] : Right(f, m)}
           P == {m \in 0 .. n : Fs(m) # {}}
<1>1. 0 \in P
  <2>1. [i \in 1 .. 0 |-> first] \in Fs(0)
    OBVIOUS
  <2> HIDE DEF Fs
  <2> QED
    BY <2>1
<1>2. ASSUME NEW m \in 0 .. n - 1, m \in P PROVE m + 1 \in P
  <2>1. PICK f \in [1 .. m -> A] : Right(f, m)
    BY <1>2
  <2> DEFINE g == [i \in 1 .. m + 1 |->
                     IF i <= m THEN f[i] ELSE IF i = 1 THEN first ELSE step[<<f[i - 1], i>>]]
  <2>2. m + 1 \in 1 .. n /\ 1 .. m \subseteq 1 .. m + 1 /\ m \in Nat
    OBVIOUS
  <2>3. \A i \in 1 .. m : g[i] = f[i]
    BY <2>2
  <2>4. g[m + 1] = IF m = 0 THEN first ELSE step[<<f[m], m + 1>>]
    BY <2>2
  <2>5. g \in [1 .. m + 1 -> A]
    <3>1. g[m + 1] \in A
      BY <2>2, <2>4
    <3>2. \A i \in 1 .. m + 1 : i = m + 1 \/ i \in 1 .. m
      OBVIOUS
    <3>3. \A i \in 1 .. m + 1 : g[i] \in A
      <4> HIDE DEF g
      <4> QED
        BY <2>3, <3>1, <3>2
    <3> QED
      BY <3>3
  <2>6. \A i \in 1 .. m + 1 : g[i] = IF i = 1 THEN first ELSE step[<<g[i - 1], i>>]
    <3> SUFFICES ASSUME NEW i \in 1 .. m + 1
                 PROVE  g[i] = IF i = 1 THEN first ELSE step[<<g[i - 1], i>>]
      OBVIOUS
    <3>1. CASE i = m + 1
      <4>1. i # 1 => g[i - 1] = f[m]
        BY <2>2, <2>3, <3>1
      <4> QED
        BY <2>4, <3>1, <4>1
    <3>2. CASE i \in 1 .. m
      <4>1. f[i] = IF i = 1 THEN first ELSE step[<<f[i - 1], i>>]
        BY <2>1, <3>2
      <4>2. i # 1 => g[i - 1] = f[i - 1]
        BY <2>2, <2>3, <3>2
      <4> QED
        BY <2>3, <3>2, <4>1, <4>2
    <3> QED
      BY <3>1, <3>2
  <2>7. Right(g, m + 1)
    <3>1. g = [i \in 1 .. m + 1 |-> g[i]]
      OBVIOUS
    <3> HIDE DEF g
    <3> QED
      BY <2>6, <3>1
  <2>8. g \in Fs(m + 1)
    BY <2>5, <2>7
  <2> HIDE DEF Fs, g
  <2> QED
    BY <2>2, <2>8
<1>3. n \in P
  <2> HIDE DEF P
  <2> QED
    BY <1>1, <1>2, Upward
<1>4. PICK f \in [1 .. n -> A] : Right(f, n)
  BY <1>3
<1> QED
  BY <1>4 DEF Stepping

----------------------------------------------------------------------------
(* R orders S strictly and totally; an element has as many before it as its *)
(* place in the order says.                                                 *)
StrictOrder(R, S) ==
    /\ \A x \in S : <<x, x>> \notin R
    /\ \A x, y, z \in S : <<x, y>> \in R /\ <<y, z>> \in R => <<x, z>> \in R
    /\ \A x, y \in S : x # y => <<x, y>> \in R \/ <<y, x>> \in R
Below(R, S, x) == {y \in S : <<y, x>> \in R}

LEMMA Ranking ==
    ASSUME NEW S, IsFiniteSet(S), NEW R, StrictOrder(R, S)
    PROVE  /\ Cardinality(S) \in Nat
           /\ \A x \in S : Cardinality(Below(R, S, x)) \in 0 .. Cardinality(S) - 1
           /\ \A x, y \in S :
                 <<x, y>> \in R <=> Cardinality(Below(R, S, x)) < Cardinality(Below(R, S, y))
           /\ \A n \in 1 .. Cardinality(S) :
                 \E x \in S : Cardinality(Below(R, S, x)) = n - 1
<1> DEFINE N == Cardinality(S)
           B(x) == Below(R, S, x)
<1>1. N \in Nat /\ \A x \in S : IsFiniteSet(B(x)) /\ Cardinality(B(x)) \in Nat
  <2>1. \A x \in S : B(x) \in SUBSET S
    BY DEF Below
  <2> QED
    BY <2>1, FS_Subset, FS_CardinalityType
<1>2. \A x \in S : Cardinality(B(x)) \in 0 .. N - 1
  <2> TAKE x \in S
  <2>1. B(x) \in SUBSET (S \ {x})
    BY DEF Below, StrictOrder
  <2>2. IsFiniteSet(S \ {x}) /\ Cardinality(S \ {x}) = N - 1
    BY FS_RemoveElement
  <2>3. Cardinality(B(x)) <= N - 1
    BY <2>1, <2>2, FS_Subset
  <2> QED
    BY <1>1, <2>3
<1>3. ASSUME NEW x \in S, NEW y \in S, <<x, y>> \in R
      PROVE  Cardinality(B(x)) < Cardinality(B(y))
  <2>1. B(x) \in SUBSET B(y) /\ x \in B(y) /\ x \notin B(x)
    BY <1>3 DEF Below, StrictOrder
  <2>2. Cardinality(B(x)) <= Cardinality(B(y)) /\ Cardinality(B(x)) # Cardinality(B(y))
    <3> HIDE DEF B
    <3> QED
      BY <1>1, <2>1, FS_Subset
  <2> QED
    BY <1>1, <2>2
<1>4. \A x, y \in S : <<x, y>> \in R <=> Cardinality(B(x)) < Cardinality(B(y))
  <2> SUFFICES ASSUME NEW x \in S, NEW y \in S, <<x, y>> \notin R
               PROVE  ~(Cardinality(B(x)) < Cardinality(B(y)))
    BY <1>3
  <2>1. CASE x = y
    BY <1>1, <2>1
  <2>2. CASE x # y
    <3>1. <<y, x>> \in R
      BY <2>2 DEF StrictOrder
    <3>2. Cardinality(B(y)) < Cardinality(B(x))
      <4> HIDE DEF B
      <4> QED
        BY <1>3, <3>1
    <3> QED
      BY <1>1, <3>2
  <2> QED
    BY <2>1, <2>2
<1>5. \A n \in 1 .. N : \E x \in S : Cardinality(B(x)) = n - 1
  <2> DEFINE place == [x \in S |-> Cardinality(B(x)) + 1]
  <2>1. place \in [S -> 1 .. N]
    BY <1>1, <1>2
  <2>2. \A x, y \in S : place[x] = place[y] => x = y
    <3> SUFFICES ASSUME NEW x \in S, NEW y \in S, place[x] = place[y], x # y PROVE FALSE
      OBVIOUS
    <3>1. <<x, y>> \in R \/ <<y, x>> \in R
      BY DEF StrictOrder
    <3>2. Cardinality(B(x)) = Cardinality(B(y))
      BY <1>1
    <3> QED
      BY <1>1, <1>4, <3>1, <3>2
  <2> HIDE DEF place, N
  <2>3. place \in Injection(S, 1 .. N)
    BY <2>1, <2>2 DEF Injection, IsInjective
  <2>4. IsFiniteSet(1 .. N) /\ Cardinality(1 .. N) = N
    BY <1>1, FS_Interval
  <2>5. place \in Surjection(S, 1 .. N)
    BY <2>3, <2>4, FS_Injection DEF N
  <2>6. \A n \in 1 .. N : \E x \in S : place[x] = n
    BY <2>5 DEF Surjection
  <2>7. \A x \in S : place[x] = Cardinality(B(x)) + 1
    BY DEF place
  <2>8. \A x \in S : Cardinality(B(x)) = place[x] - 1
    <3> HIDE DEF B
    <3> QED
      BY <1>1, <2>7
  <2> HIDE DEF B
  <2> QED
    BY <2>6, <2>8
<1> QED
  BY <1>1, <1>2, <1>4, <1>5

(* So the elements can be put in their places.                              *)
Arranges(order, R, S) ==
    /\ order \in [1 .. Cardinality(S) -> S]
    /\ \A i, j \in 1 .. Cardinality(S) : order[i] = order[j] => i = j
    /\ \A i, j \in 1 .. Cardinality(S) : i < j <=> <<order[i], order[j]>> \in R
    /\ \A x \in S : \E n \in 1 .. Cardinality(S) : order[n] = x

LEMMA PutInOrder ==
    ASSUME NEW S, IsFiniteSet(S), NEW R, StrictOrder(R, S),
           NEW order \in [1 .. Cardinality(S) -> S],
           \A n \in 1 .. Cardinality(S) : Cardinality(Below(R, S, order[n])) = n - 1
    PROVE  Cardinality(S) \in Nat /\ Arranges(order, R, S)
<1> DEFINE N == Cardinality(S)
<1>1. /\ N \in Nat
      /\ \A x \in S : Cardinality(Below(R, S, x)) \in 0 .. N - 1
      /\ \A x, y \in S :
            <<x, y>> \in R <=> Cardinality(Below(R, S, x)) < Cardinality(Below(R, S, y))
  BY Ranking
<1>2. order \in [1 .. N -> S]
  OBVIOUS
<1>3. \A i, j \in 1 .. N : i < j <=> <<order[i], order[j]>> \in R
  BY <1>1
<1>4. \A i, j \in 1 .. N : order[i] = order[j] => i = j
  <2> SUFFICES ASSUME NEW i \in 1 .. N, NEW j \in 1 .. N, order[i] = order[j] PROVE i = j
    OBVIOUS
  <2>1. i - 1 = j - 1
    OBVIOUS
  <2> QED
    BY <1>1, <2>1
<1>5. \A x \in S : \E n \in 1 .. N : order[n] = x
  <2> SUFFICES ASSUME NEW x \in S PROVE \E n \in 1 .. N : order[n] = x
    OBVIOUS
  <2>1. PICK n \in 1 .. N : n - 1 = Cardinality(Below(R, S, x))
    <3>1. Cardinality(Below(R, S, x)) + 1 \in 1 .. N
      BY <1>1
    <3>2. (Cardinality(Below(R, S, x)) + 1) - 1 = Cardinality(Below(R, S, x))
      BY <1>1
    <3> QED
      BY <3>1, <3>2
  <2>2. order[n] \in S /\ Cardinality(Below(R, S, order[n])) = Cardinality(Below(R, S, x))
    BY <2>1
  <2>3. <<order[n], x>> \notin R /\ <<x, order[n]>> \notin R
    BY <1>1, <2>2
  <2> QED
    BY <2>2, <2>3 DEF StrictOrder
<1> QED
  BY <1>1, <1>2, <1>3, <1>4, <1>5 DEF Arranges

(* Every element of a flattened sequence is one of its parts'.              *)
LEMMA FlattenOf ==
    ASSUME NEW A, NEW seqs \in Seq(Seq(A))
    PROVE  /\ FlattenSeq(seqs) \in Seq(A)
           /\ \A g \in ToSet(FlattenSeq(seqs)) : \E i \in DOMAIN seqs : g \in ToSet(seqs[i])
<1>1. CASE Len(seqs) = 0
  <2>1. FlattenSeq(seqs) = <<>>
    BY <1>1 DEF FlattenSeq
  <2> QED
    BY <2>1 DEF ToSet
<1>2. CASE Len(seqs) # 0
  <2> DEFINE n == Len(seqs)
             B == {s \in Seq(A) : \A g \in ToSet(s) : \E i \in DOMAIN seqs : g \in ToSet(seqs[i])}
             step == [si \in B \X (1 .. n) |-> si[1] \o seqs[si[2]]]
             Right(f) == f = [i \in 1 .. n |-> IF i = 1 THEN seqs[i] ELSE f[i - 1] \o seqs[i]]
             flatten == CHOOSE f : Right(f)
  <2>1. n \in Nat /\ 1 \in 1 .. n /\ n \in 1 .. n
    BY <1>2
  <2>2. FlattenSeq(seqs) = flatten[n]
    BY <1>2 DEF FlattenSeq
  <2>3. \A i \in 1 .. n : seqs[i] \in B
    OBVIOUS
  <2>4. \A s \in B, i \in 1 .. n : s \o seqs[i] \in B
    <3> SUFFICES ASSUME NEW s \in B, NEW i \in 1 .. n PROVE s \o seqs[i] \in B
      OBVIOUS
    <3>1. s \in Seq(A) /\ seqs[i] \in Seq(A) /\ s \o seqs[i] \in Seq(A)
      OBVIOUS
    <3>2. \A g \in ToSet(s \o seqs[i]) : g \in ToSet(s) \/ g \in ToSet(seqs[i])
      BY <3>1 DEF ToSet
    <3> QED
      BY <3>1, <3>2
  <2>5. step \in [B \X (1 .. n) -> B] /\ \A s \in B, i \in 1 .. n : step[<<s, i>>] = s \o seqs[i]
    <3> HIDE DEF B
    <3> QED
      BY <2>4
  <2>6. PICK f \in [1 .. n -> B] : Stepping(seqs[1], step, n, f)
    <3> HIDE DEF B, step, n
    <3> QED
      BY ONLY <2>1, <2>3, <2>5, StepsExist
  <2> HIDE DEF step, B
  <2>7. Right(f)
    <3>0. f = [i \in 1 .. n |-> IF i = 1 THEN seqs[1] ELSE step[<<f[i - 1], i>>]]
      BY <2>6 DEF Stepping
    <3>1. \A i \in 1 .. n : i # 1 => f[i - 1] \in B
      <4>1. \A i \in 1 .. n : i # 1 => i - 1 \in 1 .. n
        BY <2>1
      <4> HIDE DEF n
      <4> QED
        BY <2>6, <4>1
    <3>2. \A i \in 1 .. n : f[i] = IF i = 1 THEN seqs[i] ELSE f[i - 1] \o seqs[i]
      BY <2>5, <3>0, <3>1
    <3> QED
      BY <3>0, <3>2
  <2>8. Right(flatten)
    <3> HIDE DEF Right
    <3> QED
      BY <2>7
  <2> HIDE DEF flatten
  <2>9. \A m \in 0 .. n : m \in {i \in 0 .. n : i = 0 \/ flatten[i] \in B}
    <3> DEFINE P == {i \in 0 .. n : i = 0 \/ flatten[i] \in B}
    <3>1. 0 \in P
      OBVIOUS
    <3>2. \A i \in 0 .. n - 1 : i \in P => i + 1 \in P
      <4> SUFFICES ASSUME NEW i \in 0 .. n - 1, i \in P PROVE flatten[i + 1] \in B
        OBVIOUS
      <4>1. flatten[i + 1] = IF i = 0 THEN seqs[1] ELSE flatten[i] \o seqs[i + 1]
        <5>1. i + 1 \in 1 .. n /\ (i + 1) - 1 = i /\ (i + 1 = 1 <=> i = 0)
          BY <2>1
        <5>2. \A j \in 1 .. n : flatten[j] = IF j = 1 THEN seqs[j] ELSE flatten[j - 1] \o seqs[j]
          BY <2>8
        <5> HIDE DEF n
        <5> QED
          BY <5>1, <5>2
      <4>2. i + 1 \in 1 .. n /\ (i # 0 => flatten[i] \in B)
        OBVIOUS
      <4> QED
        BY <2>1, <2>3, <2>4, <4>1, <4>2
    <3> HIDE DEF P, n
    <3>3. \A i \in 0 .. n : i \in P
      BY <2>1, <3>1, <3>2, Upward
    <3> QED
      BY <3>3 DEF P
  <2>10. flatten[n] \in B
    BY <2>1, <2>9
  <2> QED
    BY <2>2, <2>10 DEF B
<1> QED
  BY <1>1, <1>2
=============================================================================
