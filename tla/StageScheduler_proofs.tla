------------------------ MODULE StageScheduler_proofs ------------------------
(***************************************************************************)
(* Proofs about the rounds of the stage scheduler, for every machine and    *)
(* every well-formed schedule.                                              *)
(***************************************************************************)
EXTENDS StageSchedulerProperties, FoldTheorems

----------------------------------------------------------------------------
(* The elements of a list that are in a set.                                *)
LEMMA OnlyOf ==
    ASSUME NEW A, NEW list \in Seq(A), NEW T
    PROVE  /\ Only(list, T) \in Seq(A)
           /\ ToSet(Only(list, T)) = ToSet(list) \cap T
           /\ IsInjective(list) => IsInjective(Only(list, T))
<1> DEFINE D == {k \in DOMAIN list : list[k] \in T}
           R == {ij \in D \X D : ij[1] < ij[2]}
           place == Ranked(D, LAMBDA i, j : i < j)
<1>1. Len(list) \in Nat /\ D \subseteq 1 .. Len(list) /\ IsFiniteSet(D)
  BY FS_Interval, FS_Subset
<1>2. StrictOrder(R, D)
  BY <1>1 DEF StrictOrder
<1>3. \A n \in 1 .. Cardinality(D) :
         place[n] \in D /\ Cardinality(Below(R, D, place[n])) = n - 1
  <2>1. \A x \in D : {y \in D : y < x} = Below(R, D, x)
    BY DEF Below
  <2>2. \A n \in 1 .. Cardinality(D) : \E x \in D : Cardinality({y \in D : y < x}) = n - 1
    <3> HIDE DEF D, R
    <3>1. \A n \in 1 .. Cardinality(D) : \E x \in D : Cardinality(Below(R, D, x)) = n - 1
      BY ONLY <1>1, <1>2, Ranking
    <3> QED
      BY <2>1, <3>1
  <2>3. place = [n \in 1 .. Cardinality(D) |->
                   CHOOSE x \in D : Cardinality({y \in D : y < x}) = n - 1]
    BY DEF Ranked
  <2>4. \A n \in 1 .. Cardinality(D) :
           place[n] \in D /\ Cardinality({y \in D : y < place[n]}) = n - 1
    <3> HIDE DEF D, place
    <3> QED
      BY <2>2, <2>3
  <2> HIDE DEF D, R, place
  <2> QED
    BY <2>1, <2>4
<1>4. Cardinality(D) \in Nat /\ Arranges(place, R, D)
  <2>1. place \in [1 .. Cardinality(D) -> D]
    <3>1. place = [n \in 1 .. Cardinality(D) |->
                     CHOOSE x \in D : Cardinality({y \in D : y < x}) = n - 1]
      BY DEF Ranked
    <3> HIDE DEF D, place
    <3> QED
      BY <1>3, <3>1
  <2>2. IsFiniteSet(D) /\ \A n \in 1 .. Cardinality(D) : Cardinality(Below(R, D, place[n])) = n - 1
    BY <1>1, <1>3
  <2> HIDE DEF D, R, place
  <2> QED
    BY ONLY <1>2, <2>1, <2>2, PutInOrder
<1>5. Only(list, T) = [n \in 1 .. Cardinality(D) |-> list[place[n]]]
  <2>1. Only(list, T) = [n \in DOMAIN place |-> list[place[n]]]
    BY DEF Only
  <2>2. DOMAIN place = 1 .. Cardinality(D)
    <3> HIDE DEF D, place
    <3> QED
      BY <1>4 DEF Arranges
  <2> HIDE DEF D, place
  <2> QED
    BY <2>1, <2>2
<1>6. \A n \in 1 .. Cardinality(D) : /\ place[n] \in DOMAIN list /\ list[place[n]] \in T
                                    /\ list[place[n]] \in A
  <2> HIDE DEF place
  <2> QED
    BY <1>4 DEF Arranges
<1>7. \A k \in DOMAIN list : list[k] \in T => \E n \in 1 .. Cardinality(D) : place[n] = k
  <2> HIDE DEF place
  <2> QED
    BY <1>4 DEF Arranges
<1> HIDE DEF D, place
<1>8. Only(list, T) \in Seq(A) /\ DOMAIN Only(list, T) = 1 .. Cardinality(D)
  BY <1>4, <1>5, <1>6 DEF Arranges
<1>9. ToSet(Only(list, T)) = ToSet(list) \cap T
  BY SMTT(30), <1>5, <1>6, <1>7, <1>8 DEF ToSet
<1>10. ASSUME IsInjective(list) PROVE IsInjective(Only(list, T))
  BY <1>4, <1>5, <1>6, <1>8, <1>10 DEF IsInjective, Arranges
<1> QED
  BY <1>8, <1>9, <1>10

(* The order of tuples of keys.                                             *)
Keyed(D, key) == {ij \in D \X D : Before(key[ij[1]], key[ij[2]])}

LEMMA KeysOrder ==
    ASSUME NEW D, NEW n \in Nat, NEW key \in [D -> [1 .. n -> Int]],
           \A x, y \in D : key[x] = key[y] => x = y
    PROVE  StrictOrder(Keyed(D, key), D)
<1> DEFINE R == Keyed(D, key)
<1>1. \A x, y \in D : <<x, y>> \in R <=>
         \E k \in 1 .. n : key[x][k] > key[y][k] /\ \A h \in 1 .. k - 1 : key[x][h] = key[y][h]
  <2>1. \A x \in D : DOMAIN key[x] = 1 .. n
    OBVIOUS
  <2> QED
    BY <2>1 DEF Keyed, Before
<1>2. \A x \in D, k \in 1 .. n : key[x][k] \in Int
  OBVIOUS
<1> HIDE DEF R
<1>3. \A x \in D : <<x, x>> \notin R
  BY <1>1, <1>2
<1>4. ASSUME NEW x \in D, NEW y \in D, NEW z \in D, <<x, y>> \in R, <<y, z>> \in R
      PROVE  <<x, z>> \in R
  <2>1. PICK k \in 1 .. n : key[x][k] > key[y][k] /\ \A h \in 1 .. k - 1 : key[x][h] = key[y][h]
    BY <1>1, <1>4
  <2>2. PICK l \in 1 .. n : key[y][l] > key[z][l] /\ \A h \in 1 .. l - 1 : key[y][h] = key[z][h]
    BY <1>1, <1>4
  <2>3. CASE k <= l
    <3>1. key[x][k] > key[z][k]
      BY <1>2, <2>1, <2>2, <2>3
    <3>2. \A h \in 1 .. k - 1 : key[x][h] = key[z][h]
      BY <2>1, <2>2, <2>3
    <3> QED
      BY <1>1, <3>1, <3>2
  <2>4. CASE l < k
    <3>1. key[x][l] > key[z][l]
      BY <1>2, <2>1, <2>2, <2>4
    <3>2. \A h \in 1 .. l - 1 : key[x][h] = key[z][h]
      BY <2>1, <2>2, <2>4
    <3> QED
      BY <1>1, <3>1, <3>2
  <2> QED
    BY <2>3, <2>4
<1>5. ASSUME NEW x \in D, NEW y \in D, x # y PROVE <<x, y>> \in R \/ <<y, x>> \in R
  <2> DEFINE T == {k \in 1 .. n : key[x][k] # key[y][k]}
  <2>1. T # {}
    <3>1. key[x] # key[y] /\ key[x] \in [1 .. n -> Int] /\ key[y] \in [1 .. n -> Int]
      BY <1>5
    <3> QED
      BY <3>1
  <2>2. T \subseteq Nat
    OBVIOUS
  <2>3. PICK k \in T : \A h \in T : k <= h
    <3> HIDE DEF T
    <3> QED
      BY <2>1, <2>2, LeastOf
  <2>4. k \in 1 .. n /\ \A h \in 1 .. k - 1 : key[x][h] = key[y][h] /\ key[y][h] = key[x][h]
    <3> SUFFICES ASSUME NEW h \in 1 .. k - 1 PROVE key[x][h] = key[y][h]
      OBVIOUS
    <3>1. h \in 1 .. n /\ ~(k <= h)
      OBVIOUS
    <3> QED
      BY <2>3, <3>1
  <2>5. key[x][k] > key[y][k] \/ key[y][k] > key[x][k]
    BY <1>2, <2>3
  <2> QED
    BY <1>1, <2>4, <2>5
<1> QED
  BY <1>3, <1>4, <1>5 DEF StrictOrder, R

(* Sorting keeps the elements of a list.                                    *)
LEMMA SortedOf ==
    ASSUME NEW A, NEW list \in Seq(A), NEW n \in Nat, NEW key \in [DOMAIN list -> [1 .. n -> Int]]
    PROVE  /\ SortedBy(list, key) \in Seq(A)
           /\ Len(SortedBy(list, key)) = Len(list)
           /\ ToSet(SortedBy(list, key)) = ToSet(list)
           /\ IsInjective(list) => IsInjective(SortedBy(list, key))
<1> DEFINE D == DOMAIN list
           long == [k \in D |-> Append(key[k], -k)]
           R == Keyed(D, long)
           order == Ranked(D, LAMBDA i, j : Before(Append(key[i], -i), Append(key[j], -j)))
<1>1. D = 1 .. Len(list) /\ Len(list) \in Nat /\ IsFiniteSet(D) /\ Cardinality(D) = Len(list)
  BY FS_Interval
<1>2. long \in [D -> [1 .. n + 1 -> Int]] /\ \A k \in D : long[k][n + 1] = -k
  <2> SUFFICES ASSUME NEW k \in D
               PROVE  Append(key[k], -k) \in [1 .. n + 1 -> Int] /\ Append(key[k], -k)[n + 1] = -k
    OBVIOUS
  <2>1. key[k] \in Seq(Int) /\ Len(key[k]) = n /\ -k \in Int
    BY <1>1
  <2> DEFINE s == Append(key[k], -k)
  <2>2. s \in Seq(Int) /\ Len(s) = n + 1 /\ s[n + 1] = -k
    BY <2>1
  <2> HIDE DEF s
  <2>3. s \in [1 .. n + 1 -> Int]
    BY <2>2
  <2> QED
    BY <2>2, <2>3 DEF s
<1>3. \A x, y \in D : long[x] = long[y] => x = y
  <2> SUFFICES ASSUME NEW x \in D, NEW y \in D, long[x] = long[y] PROVE x = y
    OBVIOUS
  <2>1. -x = -y /\ x \in Int /\ y \in Int
    BY <1>1, <1>2
  <2> QED
    BY <2>1
<1>4. StrictOrder(R, D)
  <2>1. n + 1 \in Nat
    OBVIOUS
  <2> HIDE DEF D, long
  <2> QED
    BY <1>2, <1>3, <2>1, KeysOrder
<1>5. \A x \in D : {y \in D : Before(Append(key[y], -y), Append(key[x], -x))} = Below(R, D, x)
  BY DEF Below, Keyed
<1>6. \A m \in 1 .. Cardinality(D) : \E x \in D :
         Cardinality({y \in D : Before(Append(key[y], -y), Append(key[x], -x))}) = m - 1
  <2> HIDE DEF D, R
  <2>1. \A m \in 1 .. Cardinality(D) : \E x \in D : Cardinality(Below(R, D, x)) = m - 1
    BY ONLY <1>1, <1>4, Ranking
  <2> QED
    BY <1>5, <2>1
<1>7. order = [m \in 1 .. Cardinality(D) |-> CHOOSE x \in D :
                 Cardinality({y \in D : Before(Append(key[y], -y), Append(key[x], -x))}) = m - 1]
  BY DEF Ranked
<1>8. /\ order \in [1 .. Cardinality(D) -> D]
      /\ \A m \in 1 .. Cardinality(D) :
            Cardinality({y \in D : Before(Append(key[y], -y), Append(key[order[m]], -order[m]))}) = m - 1
  <2> HIDE DEF D, order
  <2> QED
    BY <1>6, <1>7
<1>9. Arranges(order, R, D)
  <2>1. IsFiniteSet(D) /\ \A m \in 1 .. Cardinality(D) : Cardinality(Below(R, D, order[m])) = m - 1
    <3> HIDE DEF D, R, order
    <3> QED
      BY <1>1, <1>5, <1>8
  <2> HIDE DEF D, R, order
  <2> QED
    BY ONLY <1>4, <1>8, <2>1, PutInOrder
<1>10. SortedBy(list, key) = [k \in 1 .. Len(list) |-> list[order[k]]]
  BY <1>1 DEF SortedBy
<1> HIDE DEF order, R, long
<1>11. /\ order \in [1 .. Len(list) -> 1 .. Len(list)]
       /\ \A i, j \in 1 .. Len(list) : order[i] = order[j] => i = j
       /\ \A x \in 1 .. Len(list) : \E m \in 1 .. Len(list) : order[m] = x
  <2> HIDE DEF D
  <2> QED
    BY <1>1, <1>9 DEF Arranges
<1>12. SortedBy(list, key) \in Seq(A) /\ Len(SortedBy(list, key)) = Len(list)
  BY <1>1, <1>10, <1>11
<1>13. ToSet(SortedBy(list, key)) = ToSet(list)
  <2>1. DOMAIN SortedBy(list, key) = 1 .. Len(list) /\ DOMAIN list = 1 .. Len(list)
    BY <1>1, <1>10
  <2>2. \A k \in 1 .. Len(list) : SortedBy(list, key)[k] = list[order[k]]
    BY <1>10
  <2>3. \A k \in DOMAIN SortedBy(list, key) : SortedBy(list, key)[k] \in ToSet(list)
    BY <1>11, <2>1, <2>2 DEF ToSet
  <2>4. \A k \in DOMAIN list : \E m \in DOMAIN SortedBy(list, key) : SortedBy(list, key)[m] = list[k]
    <3> TAKE k \in DOMAIN list
    <3>1. PICK m \in 1 .. Len(list) : order[m] = k
      BY <1>11, <2>1
    <3> QED
      BY <2>1, <2>2, <3>1
  <2> QED
    BY <2>3, <2>4 DEF ToSet
<1>14. ASSUME IsInjective(list) PROVE IsInjective(SortedBy(list, key))
  BY SMTT(30), <1>1, <1>10, <1>11, <1>14 DEF IsInjective
<1> QED
  BY <1>12, <1>13, <1>14

----------------------------------------------------------------------------
(* The GPUs of the first plans of a list.                                   *)
Shape == [model : Model, workers : 1 .. Unit, dp : 1 .. TotGpu]

LEMMA GpusType == \A p \in Shape : Gpus(p) \in Nat /\ Gpus(p) >= 1
<1> TAKE p \in Shape
<1>1. TotGpu \in Nat /\ Unit \in Nat
  BY MachineAssumption
<1>2. p.workers \in Nat /\ p.dp \in Nat /\ p.workers >= 1 /\ p.dp >= 1
  BY <1>1 DEF Shape
<1> QED
  BY <1>2 DEF Gpus

Counts(plans) == [k \in 1 .. Len(plans) |-> Gpus(plans[k])]

LEMMA PrefixSum ==
    ASSUME NEW plans \in Seq(Shape), NEW D, D = 1 .. Len(plans),
           NEW n \in 0 .. Len(plans), NEW A, A = 1 .. n,
           NEW h, h = Counts(plans), NEW sum, Summing(h, D, sum)
    PROVE  GpusOf(plans, n) = sum[A]
<1> DEFINE g == [k \in A |-> Gpus(plans[k])]
           Sums(f) == f = [s \in SUBSET A |->
                              IF s = {} THEN 0
                              ELSE Gpus(plans[CHOOSE x \in s : TRUE])
                                     + f[s \ {CHOOSE x \in s : TRUE}]]
           iter == CHOOSE f : Sums(f)
<1>1. GpusOf(plans, n) = iter[A]
  BY DEF GpusOf, MapThenSumSet, MapThenFoldSet
<1>2. Len(plans) \in Nat /\ A \in SUBSET D /\ IsFiniteSet(A) /\ IsFiniteSet(D)
  BY FS_Interval
<1>3. /\ h \in [D -> Nat] /\ g \in [A -> Nat]
      /\ \A k \in A : g[k] = Gpus(plans[k]) /\ g[k] = h[k]
  BY <1>2, GpusType DEF Counts
<1> HIDE DEF g
<1>4. PICK asum : Summing(g, A, asum)
  BY ONLY <1>2, <1>3, SumsExist
<1>5. Summing(g, A, iter)
  <2>1. \A s \in SUBSET A : s # {} => g[Some(s)] = Gpus(plans[Some(s)])
    BY <1>3, SomeIn
  <2>2. Sums(asum)
    BY ONLY <1>4, <2>1 DEF Summing, Some
  <2>3. Sums(iter)
    <3> HIDE DEF Sums
    <3> QED
      BY <2>2
  <2> HIDE DEF iter
  <2> QED
    BY ONLY <2>1, <2>3 DEF Summing, Some
<1> HIDE DEF iter
<1>6. iter[A] = sum[A]
  <2>1. Summing(h, D, sum)
    OBVIOUS
  <2>2. PICK fold, part : fold = iter /\ part = g
    OBVIOUS
  <2>3. part \in [A -> Nat] /\ (\A k \in A : part[k] = h[k]) /\ Summing(part, A, fold)
    BY <1>3, <1>5, <2>2
  <2>4. fold[A] = sum[A]
    BY ONLY SMTT(30), <1>2, <1>3, <2>1, <2>3, SumUnique
  <2> QED
    BY <2>2, <2>4
<1> QED
  BY <1>1, <1>6

LEMMA PrefixSums ==
    ASSUME NEW plans \in Seq(Shape)
    PROVE  /\ GpusOf(plans, 0) = 0
           /\ \A n \in 0 .. Len(plans) : GpusOf(plans, n) \in Nat
           /\ \A n \in 1 .. Len(plans) : GpusOf(plans, n) = GpusOf(plans, n - 1) + Gpus(plans[n])
<1>0. PICK D, h : D = 1 .. Len(plans) /\ h = Counts(plans)
  OBVIOUS
<1>1. Len(plans) \in Nat /\ IsFiniteSet(D)
  BY <1>0, FS_Interval
<1>2. h \in [D -> Nat] /\ \A k \in D : h[k] = Gpus(plans[k])
  BY <1>0, GpusType DEF Counts
<1>3. PICK sum : Summing(h, D, sum)
  BY ONLY <1>1, <1>2, SumsExist
<1>4. \A n \in 0 .. Len(plans) : GpusOf(plans, n) = sum[1 .. n]
  BY <1>0, <1>3, PrefixSum
<1>5. \A s \in SUBSET D : /\ sum[s] \in Nat
                          /\ s = {} => sum[s] = 0
                          /\ \A x \in s : sum[s] = h[x] + sum[s \ {x}]
  BY ONLY <1>1, <1>2, <1>3, SumStep
<1>6. \A n \in 1 .. Len(plans) : sum[1 .. n] = Gpus(plans[n]) + sum[1 .. n - 1]
  <2> TAKE n \in 1 .. Len(plans)
  <2>1. 1 .. n \in SUBSET D /\ n \in 1 .. n /\ (1 .. n) \ {n} = 1 .. n - 1
    BY <1>0, <1>1
  <2>2. sum[1 .. n] = h[n] + sum[(1 .. n) \ {n}]
    BY <1>5, <2>1
  <2> QED
    BY <1>0, <1>2, <2>1, <2>2
<1>7. \A n \in 0 .. Len(plans) : sum[1 .. n] \in Nat /\ (n = 0 => sum[1 .. n] = 0)
  BY <1>0, <1>1, <1>5
<1>8. \A n \in 1 .. Len(plans) : n \in 0 .. Len(plans) /\ n - 1 \in 0 .. Len(plans)
  BY <1>1
<1>9. 0 \in 0 .. Len(plans)
  BY <1>1
<1>10. \A n \in 1 .. Len(plans) : Gpus(plans[n]) \in Nat
  BY GpusType
<1>11. \A n \in 1 .. Len(plans) : GpusOf(plans, n) = GpusOf(plans, n - 1) + Gpus(plans[n])
  BY SMTT(30), <1>4, <1>6, <1>7, <1>8, <1>10
<1> QED
  BY <1>4, <1>7, <1>9, <1>11

LEMMA PermutedSum ==
    ASSUME NEW list, list \in Seq(Shape), NEW plans, plans \in Seq(Shape),
           Len(plans) = Len(list),
           NEW order, order \in [1 .. Len(list) -> 1 .. Len(list)],
           \A a, b \in 1 .. Len(list) : order[a] = order[b] => a = b,
           \A n \in 1 .. Len(list) : \E k \in 1 .. Len(list) : order[k] = n,
           \A k \in 1 .. Len(list) : plans[k] = list[order[k]]
    PROVE  GpusOf(plans, Len(plans)) = GpusOf(list, Len(list))
<1>1. PICK D, h, g : D = 1 .. Len(list) /\ h = Counts(list) /\ g = Counts(plans)
  OBVIOUS
<1>2. Len(list) \in Nat /\ Len(list) \in 0 .. Len(list) /\ IsFiniteSet(D)
  BY <1>1, FS_Interval
<1>3. /\ h \in [D -> Nat] /\ g \in [D -> Nat] /\ order \in [D -> D]
      /\ \A d \in D : g[d] = h[order[d]]
  <2>1. /\ h = [k \in D |-> Gpus(list[k])] /\ g = [k \in D |-> Gpus(plans[k])]
        /\ \A k \in D : order[k] \in D /\ plans[k] = list[order[k]]
    BY <1>1 DEF Counts
  <2>2. \A k \in D : Gpus(list[k]) \in Nat /\ Gpus(plans[k]) \in Nat
    <3>1. \A k \in D : list[k] \in Shape /\ plans[k] \in Shape
      BY <1>1
    <3> QED
      BY <3>1, GpusType
  <2>3. order \in [D -> D]
    BY <1>1
  <2> QED
    BY ONLY <2>1, <2>2, <2>3
<1>4. \A a, b \in D : order[a] = order[b] => a = b
  BY <1>1
<1>5. PICK sum : Summing(h, D, sum)
  BY ONLY <1>2, <1>3, SumsExist
<1>6. PICK dsum : Summing(g, D, dsum)
  BY ONLY <1>2, <1>3, SumsExist
<1>7. \A n \in D : \E k \in D : order[k] = n
  BY <1>1
<1>8. Permutes(order, D, h, g)
  BY <1>3, <1>4, <1>7 DEF Permutes
<1>9. dsum[D] = sum[D]
  <2>1. IsFiniteSet(D) /\ h \in [D -> Nat] /\ g \in [D -> Nat]
    BY <1>2, <1>3
  <2> QED
    BY ONLY <2>1, <1>5, <1>6, <1>8, SumPermuted
<1>10. GpusOf(list, Len(list)) = sum[D]
  BY <1>1, <1>2, <1>5, PrefixSum
<1>11. GpusOf(plans, Len(list)) = dsum[D]
  BY <1>1, <1>2, <1>6, PrefixSum
<1> QED
  BY <1>9, <1>10, <1>11

(* The plans of a stage fit the machine, so there are not too many.         *)
LEMMA StageFits ==
    ASSUME NEW sched \in Schedules, NEW i \in DOMAIN sched
    PROVE  /\ sched[i] \in Seq(Shape) /\ Len(sched[i]) \in Nat
           /\ GpusOf(sched[i], Len(sched[i])) <= TotGpu
           /\ Len(sched[i]) <= TotGpu
<1>1. WellFormed(sched, Inputs)
  BY ScheduleAssumption
<1>2. PICK list : list = sched[i]
  OBVIOUS
<1>3. list \in Seq(Shape) /\ Len(list) \in Nat /\ DOMAIN list = 1 .. Len(list)
  BY <1>1, <1>2 DEF WellFormed, Shape
<1>4. GpusOf(list, Len(list)) <= TotGpu
  <2>1. MapThenSumSet(LAMBDA j : Gpus(sched[i][j]), DOMAIN sched[i]) <= TotGpu
    BY <1>1 DEF WellFormed
  <2>2. MapThenSumSet(LAMBDA j : Gpus(list[j]), 1 .. Len(list)) <= TotGpu
    BY <1>2, <1>3, <2>1
  <2> QED
    BY <2>2 DEF GpusOf
<1>5. \A n \in 0 .. Len(list) : n \in {k \in 0 .. Len(list) : k <= GpusOf(list, k)}
  <2> DEFINE P == {k \in 0 .. Len(list) : k <= GpusOf(list, k)}
  <2>1. 0 \in P
    BY <1>3, PrefixSums
  <2>2. \A k \in 0 .. Len(list) - 1 : k \in P => k + 1 \in P
    <3> SUFFICES ASSUME NEW k \in 0 .. Len(list) - 1, k \in P PROVE k + 1 \in P
      OBVIOUS
    <3>1. k + 1 \in 1 .. Len(list) /\ k + 1 \in 0 .. Len(list) /\ (k + 1) - 1 = k /\ k \in 0 .. Len(list)
      BY <1>3
    <3>2. GpusOf(list, k + 1) = GpusOf(list, k) + Gpus(list[k + 1])
      BY <1>3, <3>1, PrefixSums
    <3>3. GpusOf(list, k) \in Nat
      BY <1>3, <3>1, PrefixSums
    <3>4. Gpus(list[k + 1]) \in Nat /\ Gpus(list[k + 1]) >= 1
      BY <1>3, <3>1, GpusType
    <3>5. k + 1 <= GpusOf(list, k + 1)
      BY <3>2, <3>3, <3>4
    <3> QED
      BY <3>1, <3>5
  <2> HIDE DEF P
  <2>3. \A k \in 0 .. Len(list) : k \in P
    BY ONLY <1>3, <2>1, <2>2, Upward
  <2> QED
    BY <2>3 DEF P
<1>6. Len(list) <= TotGpu
  <2>1. Len(list) \in 0 .. Len(list) /\ Len(list) <= GpusOf(list, Len(list))
    BY <1>3, <1>5
  <2>2. GpusOf(list, Len(list)) \in Nat /\ TotGpu \in Nat
    BY <1>3, <2>1, PrefixSums, MachineAssumption
  <2> QED
    BY <1>3, <1>4, <2>1, <2>2
<1> QED
  BY <1>2, <1>3, <1>4, <1>6

----------------------------------------------------------------------------
(* The plan states that stand for a plan, and those of a list.              *)
PlanStates == UNION {{<<i, j>> : j \in DOMAIN stages[i]} : i \in DOMAIN stages}

InLoops == pc \in {"keep", "adopt", "load", "reload"}

(* Types; a round begins with the return of a task, so the target stage is  *)
(* not far from the last one.                                               *)
Types ==
    /\ stages \in Schedules /\ setting \in Settings
    /\ returned \subseteq finished /\ finished \subseteq Model
    /\ pc \in Points /\ nextStage \in BOOLEAN
    /\ running \in Seq(PlanStates) /\ cands \in Seq(PlanStates)
    /\ launched \in Seq(PlanStates) /\ rest \in Seq(PlanStates) /\ keep \in Seq(PlanStates)
    /\ older \in Seq(PlanStates) /\ newer \in Seq(PlanStates) /\ left \in Seq(PlanStates)
    /\ gpus \in [States(stages) -> Seq(GPU)]
    /\ flagged \subseteq PlanStates
    /\ avail \in Seq(GPU)
    /\ toStop \subseteq Model /\ newLaunch \subseteq ToSet(running)
TargetInRange ==
    /\ target \in Nat /\ target >= 2
    /\ target <= Len(stages) + Cardinality(returned) + IF InLoops THEN 0 ELSE 1

(* Which stages the plan states of a list are of.                           *)
UpTo(list, n) == \A k \in DOMAIN list : list[k][1] <= n
Of(list, n) == \A k \in DOMAIN list : list[k][1] = n
InStages ==
    /\ UpTo(running, target) /\ Of(cands, target)
    /\ InLoops => UpTo(launched, target) /\ UpTo(keep, target) /\ UpTo(older, target - 1)
    /\ pc \in {"keep", "adopt"} => left = <<>>
    /\ pc = "keep" => UpTo(rest, target) /\ newer = <<>>
    /\ pc = "adopt" => Of(rest, target) /\ Of(newer, target)
    /\ pc = "load" => Of(rest, target) /\ Of(left, target)
    /\ pc = "reload" => UpTo(rest, target - 1) /\ Of(left, target)
    /\ pc = "place" => UpTo(keep, target)

(* A list has one plan of a model; two lists have none of the same model.   *)
Single(list) ==
    \A k, h \in DOMAIN list : k # h => ModelOf(list[k]) # ModelOf(list[h])
Apart(list, more) ==
    \A k \in DOMAIN list, h \in DOMAIN more : ModelOf(list[k]) # ModelOf(more[h])
Disjoint(list, more) == \A k \in DOMAIN list, h \in DOMAIN more : list[k] # more[h]
OneOfAModel ==
    /\ Single(running) /\ Single(cands)
    /\ pc \in {"wait", "start"} => Disjoint(cands, running)
    /\ InLoops => Single(launched) /\ Single(keep)
    /\ pc = "keep" => /\ Single(rest) /\ Apart(keep, rest)
                      /\ Disjoint(cands, rest) /\ Disjoint(cands, keep)
                      /\ \A k \in DOMAIN keep : Stays(keep[k])
    /\ pc = "adopt" => Single(rest) /\ Single(newer) /\ Apart(newer, rest) /\ Apart(keep, rest)
    /\ pc = "load" => Single(rest) /\ Single(left) /\ Apart(left, rest) /\ Disjoint(left, keep)
    /\ pc = "reload" => Single(left) /\ Disjoint(left, keep)
    /\ pc = "place" => Single(keep) /\ Disjoint(cands, keep)

(* A plan that runs has its GPUs, and keeps them until they are dealt out:  *)
(* it is flagged, and no candidate that is adopted is one that runs.        *)
Marked(list) == \A k \in DOMAIN list : list[k] \in flagged
HaveGpus ==
    /\ Marked(running)
    /\ InLoops => Marked(launched) /\ Marked(keep) /\ Marked(older)
    /\ pc \in {"keep", "reload"} => Marked(rest)
    /\ pc = "place" => Marked(keep)
    /\ pc \in {"keep", "adopt"} => launched = running \/ UpTo(running, target - 1)

Exclusive ==
    \A k, h \in DOMAIN running : k # h =>
        ToSet(gpus[running[k]]) \cap ToSet(gpus[running[h]]) = {}

Inv == Types /\ TargetInRange /\ InStages /\ OneOfAModel /\ HaveGpus /\ Exclusive

----------------------------------------------------------------------------
(* What a plan state stands for.                                            *)
LEMMA PlanOf ==
    ASSUME stages \in Schedules, NEW p \in PlanStates
    PROVE  /\ p = <<p[1], p[2]>> /\ p[1] \in DOMAIN stages /\ p[2] \in DOMAIN stages[p[1]]
           /\ p[1] \in Nat /\ p[1] >= 1
           /\ Plan(p) \in Shape /\ ModelOf(p) \in Model /\ Size(p) \in Nat
           /\ p \in States(stages)
           /\ p[1] <= LastStage(stages, ModelOf(p))
           /\ \A q \in PlanStates : q[1] = p[1] /\ ModelOf(q) = ModelOf(p) => q = p
<1>0. PICK i \in DOMAIN stages : \E j \in DOMAIN stages[i] : p = <<i, j>>
  BY DEF PlanStates
<1>1. PICK j \in DOMAIN stages[i] : p = <<i, j>>
  BY <1>0
<1>2. WellFormed(stages, Inputs)
  BY ScheduleAssumption
<1>3. /\ stages \in Seq(Seq(Shape)) /\ i \in Nat /\ i >= 1
      /\ stages[i] \in Seq(Shape) /\ DOMAIN stages[i] = 1 .. Len(stages[i])
      /\ Len(stages) \in Nat /\ DOMAIN stages = 1 .. Len(stages)
  BY <1>2 DEF WellFormed, Shape
<1>4. Plan(p) = stages[i][j] /\ Plan(p) \in Shape /\ ModelOf(p) \in Model
  <2>1. Plan(p) = stages[i][j]
    BY <1>1 DEF Plan
  <2>2. stages[i][j] \in Shape
    BY <1>3
  <2>3. \A s \in Shape : s.model \in Model
    BY DEF Shape
  <2> QED
    BY <2>1, <2>2, <2>3 DEF ModelOf
<1>5. Size(p) \in Nat
  BY <1>4, GpusType DEF Size
<1>6. p \in States(stages)
  <2>1. Len(stages[i]) \in Nat /\ Len(stages[i]) <= TotGpu
    BY StageFits
  <2>2. j \in 1 .. TotGpu
    BY <1>3, <2>1, MachineAssumption
  <2> QED
    BY <1>1, <2>2 DEF States
<1>7. i <= LastStage(stages, ModelOf(p))
  <2> DEFINE T == {k \in DOMAIN stages : Plans(stages, k, ModelOf(p)) # {}}
  <2>1. j \in Plans(stages, i, ModelOf(p))
    BY <1>4 DEF Plans, ModelOf
  <2>2. T \subseteq 0 .. Len(stages) /\ i \in T
    BY <1>3, <2>1
  <2>3. \A k \in T : k <= Max(T)
    <3> HIDE DEF T
    <3> QED
      BY <1>3, <2>2, MaxOf
  <2> QED
    BY <2>2, <2>3 DEF LastStage
<1>8. ASSUME NEW q \in PlanStates, q[1] = p[1], ModelOf(q) = ModelOf(p) PROVE q = p
  <2>1. PICK k \in DOMAIN stages[i] : q = <<i, k>>
    BY <1>1, <1>8 DEF PlanStates
  <2>2. j \in Plans(stages, i, ModelOf(p)) /\ k \in Plans(stages, i, ModelOf(p))
    BY <1>1, <1>8, <2>1 DEF Plans, ModelOf, Plan
  <2>3. /\ IsFiniteSet(Plans(stages, i, ModelOf(p)))
        /\ Cardinality(Plans(stages, i, ModelOf(p))) <= 1
    <3>1. Plans(stages, i, ModelOf(p)) \in SUBSET (1 .. Len(stages[i])) /\ Len(stages[i]) \in Nat
      BY <1>3 DEF Plans
    <3>2. IsFiniteSet(Plans(stages, i, ModelOf(p)))
      <4>1. IsFiniteSet(1 .. Len(stages[i]))
        BY <3>1, FS_Interval
      <4> QED
        BY <3>1, <4>1, FS_Subset
    <3> QED
      BY <1>2, <1>4, <3>2 DEF WellFormed
  <2>4. j = k
    <3>1. PICK C : C = Plans(stages, i, ModelOf(p))
      OBVIOUS
    <3>2. IsFiniteSet(C) /\ Cardinality(C) <= 1 /\ C # {}
      BY <2>2, <2>3, <3>1
    <3>3. Cardinality(C) \in Nat /\ Cardinality(C) # 0
      BY <3>2, FS_EmptySet, FS_CardinalityType
    <3>4. Cardinality(C) = 1
      BY <3>2, <3>3
    <3>5. \E x : C = {x}
      BY <3>2, <3>4, FS_Singleton
    <3> QED
      BY <2>2, <3>1, <3>5
  <2> QED
    BY <1>1, <2>1, <2>4
<1> QED
  BY <1>1, <1>3, <1>4, <1>5, <1>6, <1>7, <1>8

(* The plan states of a stage.                                              *)
LEMMA StagePlansOf ==
    ASSUME stages \in Schedules, NEW i \in DOMAIN stages
    PROVE  /\ StagePlans(i) \in Seq(PlanStates)
           /\ Of(StagePlans(i), i) /\ Single(StagePlans(i)) /\ IsInjective(StagePlans(i))
<1>1. stages[i] \in Seq(Shape) /\ Len(stages[i]) \in Nat /\ DOMAIN stages[i] = 1 .. Len(stages[i])
  BY StageFits
<1>2. \A j \in DOMAIN stages[i] : <<i, j>> \in PlanStates
  BY DEF PlanStates
<1>3. StagePlans(i) = [j \in 1 .. Len(stages[i]) |-> <<i, j>>]
  BY <1>1 DEF StagePlans
<1>4. StagePlans(i) \in Seq(PlanStates) /\ DOMAIN StagePlans(i) = 1 .. Len(stages[i])
  BY <1>1, <1>2, <1>3
<1>5. Of(StagePlans(i), i) /\ IsInjective(StagePlans(i))
  BY <1>3, <1>4 DEF Of, IsInjective
<1>6. Single(StagePlans(i))
  <2> SUFFICES ASSUME NEW k \in DOMAIN StagePlans(i), NEW h \in DOMAIN StagePlans(i), k # h,
                      ModelOf(StagePlans(i)[k]) = ModelOf(StagePlans(i)[h])
               PROVE  FALSE
    BY DEF Single
  <2>1. /\ StagePlans(i)[k] = <<i, k>> /\ StagePlans(i)[h] = <<i, h>>
        /\ <<i, k>> \in PlanStates /\ <<i, h>> \in PlanStates
    BY <1>1, <1>2, <1>3, <1>4
  <2>2. <<i, k>>[1] = <<i, h>>[1] /\ ModelOf(<<i, k>>) = ModelOf(<<i, h>>)
    BY <2>1
  <2>3. <<i, k>> = <<i, h>>
    BY <2>1, <2>2, PlanOf
  <2> QED
    BY <2>3
<1> QED
  BY <1>4, <1>5, <1>6

----------------------------------------------------------------------------
(* A list whose places are places of another one: its tail, or the rest     *)
(* when one element is taken out.                                           *)
Part(few, list) ==
    \E place \in [DOMAIN few -> DOMAIN list] :
        /\ \A k, h \in DOMAIN few : place[k] = place[h] => k = h
        /\ \A k \in DOMAIN few : few[k] = list[place[k]]

LEMMA TailPart ==
    ASSUME NEW S, NEW list \in Seq(S), list # <<>>
    PROVE  Head(list) = list[1] /\ 1 \in DOMAIN list /\ Tail(list) \in Seq(S)
           /\ Part(Tail(list), list)
           /\ \A k \in DOMAIN Tail(list) : k + 1 \in DOMAIN list /\ Tail(list)[k] = list[k + 1]
<1> DEFINE place == [k \in DOMAIN Tail(list) |-> k + 1]
<1>1. Len(list) \in Nat /\ Len(list) # 0 /\ DOMAIN list = 1 .. Len(list)
  OBVIOUS
<1>2. /\ Tail(list) \in Seq(S) /\ DOMAIN Tail(list) = 1 .. Len(list) - 1
      /\ \A k \in 1 .. Len(list) - 1 : Tail(list)[k] = list[k + 1]
  BY <1>1
<1>3. \A k \in DOMAIN Tail(list) : place[k] = k + 1 /\ k + 1 \in DOMAIN list /\ k \in Nat
  BY <1>1, <1>2
<1>4. /\ place \in [DOMAIN Tail(list) -> DOMAIN list]
      /\ \A k, h \in DOMAIN Tail(list) : place[k] = place[h] => k = h
  BY <1>1, <1>2
<1> HIDE DEF place
<1>5. \A k \in DOMAIN Tail(list) : Tail(list)[k] = list[place[k]]
  BY <1>2, <1>3
<1> QED
  BY <1>1, <1>2, <1>3, <1>4, <1>5 DEF Part

LEMMA RemoveAtPart ==
    ASSUME NEW S, NEW list \in Seq(S), NEW i \in DOMAIN list
    PROVE  RemoveAt(list, i) \in Seq(S) /\ Part(RemoveAt(list, i), list)
           /\ \A k \in DOMAIN RemoveAt(list, i) :
                 \E h \in DOMAIN list : h # i /\ RemoveAt(list, i)[k] = list[h]
<1> DEFINE few == RemoveAt(list, i)
           place == [k \in DOMAIN few |-> IF k < i THEN k ELSE k + 1]
<1>1. Len(list) \in Nat /\ DOMAIN list = 1 .. Len(list) /\ i \in 1 .. Len(list)
  OBVIOUS
<1>2. /\ few \in Seq(S) /\ DOMAIN few = 1 .. Len(list) - 1
      /\ \A k \in 1 .. Len(list) - 1 : few[k] = list[IF k < i THEN k ELSE k + 1]
  <2>1. few = SubSeq(list, 1, i - 1) \o SubSeq(list, i + 1, Len(list))
    BY DEF RemoveAt
  <2>2. SubSeq(list, 1, i - 1) \in Seq(S) /\ Len(SubSeq(list, 1, i - 1)) = i - 1
        /\ \A k \in 1 .. i - 1 : SubSeq(list, 1, i - 1)[k] = list[k]
    BY <1>1
  <2>3. SubSeq(list, i + 1, Len(list)) \in Seq(S) /\ Len(SubSeq(list, i + 1, Len(list))) = Len(list) - i
        /\ \A k \in 1 .. Len(list) - i : SubSeq(list, i + 1, Len(list))[k] = list[i + k]
    BY <1>1
  <2>4. /\ few \in Seq(S) /\ Len(few) = Len(list) - 1
        /\ \A k \in 1 .. i - 1 : few[k] = SubSeq(list, 1, i - 1)[k]
        /\ \A k \in i .. Len(list) - 1 : few[k] = SubSeq(list, i + 1, Len(list))[k - (i - 1)]
    <3> DEFINE u == SubSeq(list, 1, i - 1)
               v == SubSeq(list, i + 1, Len(list))
    <3>1. u \in Seq(S) /\ v \in Seq(S) /\ Len(u) = i - 1 /\ Len(v) = Len(list) - i /\ few = u \o v
      BY <2>1, <2>2, <2>3
    <3> HIDE DEF u, v, few
    <3>2. few \in Seq(S) /\ Len(few) = Len(list) - 1
      <4>1. few \in Seq(S)
        BY <3>1
      <4>2. Len(few) = Len(u) + Len(v)
        <5>1. \A a, b \in Seq(S) : Len(a \o b) = Len(a) + Len(b)
          OBVIOUS
        <5>2. u \in Seq(S) /\ v \in Seq(S) /\ few = u \o v
          BY <3>1
        <5> QED
          BY ONLY <5>1, <5>2
      <4>3. (i - 1) + (Len(list) - i) = Len(list) - 1
        BY <1>1
      <4> QED
        BY <3>1, <4>1, <4>2, <4>3
    <3>3. \A k \in 1 .. i - 1 : few[k] = u[k]
      BY <1>1, <3>1
    <3>4. \A k \in i .. Len(list) - 1 : few[k] = v[k - (i - 1)]
      BY <1>1, <3>1
    <3> QED
      BY <3>2, <3>3, <3>4 DEF u, v
  <2> HIDE DEF few
  <2>5. \A k \in i .. Len(list) - 1 : few[k] = list[k + 1]
    <3> SUFFICES ASSUME NEW k \in i .. Len(list) - 1 PROVE few[k] = list[k + 1]
      OBVIOUS
    <3>1. k - (i - 1) \in 1 .. Len(list) - i /\ i + (k - (i - 1)) = k + 1
      BY <1>1
    <3> QED
      BY <2>3, <2>4, <3>1
  <2>6. \A k \in 1 .. Len(list) - 1 : k \in 1 .. i - 1 \/ k \in i .. Len(list) - 1
    BY <1>1
  <2>7. \A k \in 1 .. Len(list) - 1 : few[k] = list[IF k < i THEN k ELSE k + 1]
    <3> SUFFICES ASSUME NEW k \in 1 .. Len(list) - 1
                 PROVE  few[k] = list[IF k < i THEN k ELSE k + 1]
      OBVIOUS
    <3>1. CASE k \in 1 .. i - 1
      <4>1. k < i
        BY <1>1, <3>1
      <4> QED
        BY <2>2, <2>4, <3>1, <4>1
    <3>2. CASE k \in i .. Len(list) - 1
      <4>1. ~(k < i)
        BY <1>1, <3>2
      <4> QED
        BY <2>5, <3>2, <4>1
    <3> QED
      BY <2>6, <3>1, <3>2
  <2> QED
    BY <2>4, <2>7
<1> HIDE DEF few
<1>3. \A k \in DOMAIN few : place[k] \in 1 .. Len(list) /\ place[k] # i /\ few[k] = list[place[k]]
  BY <1>1, <1>2
<1>4. \A k, h \in DOMAIN few : place[k] = place[h] => k = h
  BY <1>1, <1>2
<1>5. place \in [DOMAIN few -> DOMAIN list]
  BY <1>1, <1>3
<1> HIDE DEF place
<1>6. Part(few, list)
  BY <1>3, <1>4, <1>5 DEF Part
<1> QED
  BY <1>1, <1>2, <1>3, <1>6 DEF few

LEMMA PartKeeps ==
    ASSUME NEW few, NEW list, Part(few, list)
    PROVE  /\ \A k \in DOMAIN few : \E h \in DOMAIN list : few[k] = list[h]
           /\ Single(list) => Single(few)
           /\ \A n : UpTo(list, n) => UpTo(few, n)
           /\ \A n : Of(list, n) => Of(few, n)
           /\ Marked(list) => Marked(few)
           /\ \A more : Apart(more, list) => Apart(more, few)
           /\ \A more : Disjoint(more, list) => Disjoint(more, few)
<1>1. PICK place \in [DOMAIN few -> DOMAIN list] :
        /\ \A k, h \in DOMAIN few : place[k] = place[h] => k = h
        /\ \A k \in DOMAIN few : few[k] = list[place[k]]
  BY DEF Part
<1>2. \A k \in DOMAIN few : place[k] \in DOMAIN list
  BY <1>1
<1>3. Single(list) => Single(few)
  BY <1>1, <1>2 DEF Single
<1>4. \A n : UpTo(list, n) => UpTo(few, n)
  BY <1>1, <1>2 DEF UpTo
<1>5. \A n : Of(list, n) => Of(few, n)
  BY <1>1, <1>2 DEF Of
<1>6. Marked(list) => Marked(few)
  BY <1>1, <1>2 DEF Marked
<1>7. \A more : Apart(more, list) => Apart(more, few)
  BY <1>1, <1>2 DEF Apart
<1>8. \A more : Disjoint(more, list) => Disjoint(more, few)
  BY <1>1, <1>2 DEF Disjoint
<1> QED
  BY <1>1, <1>2, <1>3, <1>4, <1>5, <1>6, <1>7, <1>8

(* A list that grows by an element.                                         *)
LEMMA AppendKeeps ==
    ASSUME NEW S, NEW list \in Seq(S), NEW p \in S
    PROVE  /\ Append(list, p) \in Seq(S)
           /\ \A n : UpTo(list, n) /\ p[1] <= n => UpTo(Append(list, p), n)
           /\ \A n : Of(list, n) /\ p[1] = n => Of(Append(list, p), n)
           /\ Marked(list) /\ p \in flagged => Marked(Append(list, p))
           /\ Single(list) /\ (\A k \in DOMAIN list : ModelOf(list[k]) # ModelOf(p))
                 => Single(Append(list, p))
           /\ \A more : Apart(list, more) /\ (\A k \in DOMAIN more : ModelOf(more[k]) # ModelOf(p))
                 => Apart(Append(list, p), more)
           /\ \A more : Disjoint(list, more) /\ (\A k \in DOMAIN more : more[k] # p)
                 => Disjoint(Append(list, p), more)
           /\ \A more : Disjoint(more, list) /\ (\A k \in DOMAIN more : more[k] # p)
                 => Disjoint(more, Append(list, p))
<1> DEFINE long == Append(list, p)
<1>1. /\ long \in Seq(S) /\ Len(list) \in Nat
      /\ DOMAIN list = 1 .. Len(list) /\ DOMAIN long = 1 .. Len(list) + 1
      /\ long[Len(list) + 1] = p /\ \A k \in DOMAIN list : long[k] = list[k]
  OBVIOUS
<1>2. \A k \in DOMAIN long : k \in DOMAIN list \/ (k = Len(list) + 1 /\ long[k] = p)
  BY <1>1
<1> HIDE DEF long
<1>3. \A n : UpTo(list, n) /\ p[1] <= n => UpTo(long, n)
  BY <1>1, <1>2 DEF UpTo
<1>4. \A n : Of(list, n) /\ p[1] = n => Of(long, n)
  BY <1>1, <1>2 DEF Of
<1>5. Marked(list) /\ p \in flagged => Marked(long)
  BY <1>1, <1>2 DEF Marked
<1>6. Single(list) /\ (\A k \in DOMAIN list : ModelOf(list[k]) # ModelOf(p)) => Single(long)
  BY <1>1, <1>2 DEF Single
<1>7. \A more : Apart(list, more) /\ (\A k \in DOMAIN more : ModelOf(more[k]) # ModelOf(p))
        => Apart(long, more)
  BY <1>1, <1>2 DEF Apart
<1>8. \A more : Disjoint(list, more) /\ (\A k \in DOMAIN more : more[k] # p) => Disjoint(long, more)
  BY <1>1, <1>2 DEF Disjoint
<1>9. \A more : Disjoint(more, list) /\ (\A k \in DOMAIN more : more[k] # p) => Disjoint(more, long)
  BY <1>1, <1>2 DEF Disjoint
<1> QED
  BY <1>1, <1>3, <1>4, <1>5, <1>6, <1>7, <1>8, <1>9 DEF long

----------------------------------------------------------------------------
(* There is a plan to load next: the models do not need each other in a     *)
(* cycle, and no two places of the list have the same rank.                 *)
LEMMA PickOf ==
    ASSUME stages \in Schedules, setting \in Settings, rest \in Seq(PlanStates), rest # <<>>
    PROVE  Pick \in DOMAIN rest
<1>1. PICK depth \in [Model -> 1 .. Cardinality(Model)] :
         \A m \in Model : \A n \in Inputs[m] : depth[n] < depth[m]
  BY MachineAssumption
<1>2. Inputs \in [Model -> SUBSET Model] /\ Cardinality(Model) \in Nat
  BY MachineAssumption, FS_CardinalityType
<1>3. /\ Len(rest) \in Nat /\ DOMAIN rest = 1 .. Len(rest) /\ 1 \in DOMAIN rest
      /\ \A k \in DOMAIN rest : rest[k] \in PlanStates
  OBVIOUS
<1>4. \A k \in DOMAIN rest : ModelOf(rest[k]) \in Model /\ Plan(rest[k]) \in Shape /\ Size(rest[k]) \in Nat
  BY <1>3, PlanOf
<1>5. Roots # {}
  <2> DEFINE T == {depth[ModelOf(rest[k])] : k \in DOMAIN rest}
  <2>1. T \subseteq Nat /\ T # {}
    BY <1>2, <1>3, <1>4
  <2>2. PICK d \in T : \A e \in T : d <= e
    <3> HIDE DEF T
    <3> QED
      BY <2>1, LeastOf
  <2>3. PICK k \in DOMAIN rest : d = depth[ModelOf(rest[k])]
    OBVIOUS
  <2>4. ASSUME NEW n \in Inputs[ModelOf(rest[k])] \cap ModelsIn(rest) PROVE FALSE
    <3>1. PICK h \in DOMAIN rest : n = ModelOf(rest[h])
      BY DEF ModelsIn
    <3>2. depth[n] < d /\ depth[n] \in T
      BY <1>1, <1>4, <2>3, <3>1
    <3>3. d <= depth[n]
      BY <2>2, <3>2
    <3>4. d \in Nat /\ depth[n] \in Nat
      BY <2>1, <3>2
    <3> QED
      BY <3>2, <3>3, <3>4
  <2> QED
    BY <2>4 DEF Roots
<1>6. Roots \subseteq DOMAIN rest /\ IsFiniteSet(Roots)
  <2>1. Roots \in SUBSET (1 .. Len(rest))
    BY <1>3 DEF Roots
  <2>2. IsFiniteSet(1 .. Len(rest))
    BY <1>3, FS_Interval
  <2> QED
    BY <1>3, <2>1, <2>2, FS_Subset
<1> DEFINE key == [k \in Roots |-> Rank(k)]
           R == Keyed(Roots, key)
<1>7. \E n \in Nat : key \in [Roots -> [1 .. n -> Int]] /\ \A x, y \in Roots : key[x] = key[y] => x = y
  <2>1. \A k \in Roots : /\ -k \in Int /\ k \in Int /\ Size(rest[k]) \in Int
                         /\ Plan(rest[k]).workers \in Int
    <3> SUFFICES ASSUME NEW k \in Roots
                 PROVE  k \in Int /\ Size(rest[k]) \in Int /\ Plan(rest[k]).workers \in Int
      OBVIOUS
    <3>1. Plan(rest[k]) \in Shape /\ Size(rest[k]) \in Nat /\ k \in 1 .. Len(rest)
      BY <1>3, <1>4, <1>6
    <3>2. Unit \in Nat
      BY MachineAssumption
    <3> QED
      BY <3>1, <3>2 DEF Shape
  <2>2. CASE setting.light
    <3>1. \A k \in Roots : Rank(k) = <<-k>>
      BY <2>2 DEF Rank
    <3>2. \A k \in Roots : Rank(k) \in [1 .. 1 -> Int] /\ Rank(k)[1] = -k
      BY <2>1, <3>1
    <3>3. \A x, y \in Roots : -x = -y => x = y
      BY <2>1
    <3>4. key \in [Roots -> [1 .. 1 -> Int]]
      BY <3>2
    <3>5. \A x, y \in Roots : key[x] = key[y] => x = y
      BY <3>2, <3>3
    <3> QED
      BY <3>4, <3>5
  <2>3. CASE ~setting.light
    <3>1. \A k \in Roots : Rank(k) = <<Size(rest[k]), Plan(rest[k]).workers, -k>>
      BY <2>3 DEF Rank
    <3>2. \A k \in Roots : Rank(k) \in [1 .. 3 -> Int] /\ Rank(k)[3] = -k
      BY <2>1, <3>1
    <3>3. \A x, y \in Roots : -x = -y => x = y
      BY <2>1
    <3>4. key \in [Roots -> [1 .. 3 -> Int]]
      BY <3>2
    <3>5. \A x, y \in Roots : key[x] = key[y] => x = y
      BY <3>2, <3>3
    <3> QED
      BY <3>4, <3>5
  <2> QED
    BY <2>2, <2>3
<1>8. \A x, y \in Roots : <<x, y>> \in R <=> Before(Rank(x), Rank(y))
  BY DEF Keyed
<1> HIDE DEF key
<1>9. StrictOrder(R, Roots)
  BY <1>7, KeysOrder
<1> HIDE DEF R
<1>10. PICK x \in Roots : Cardinality(Below(R, Roots, x)) = 0
  <2>1. Cardinality(Roots) \in Nat /\ Cardinality(Roots) # 0
    BY <1>5, <1>6, FS_CardinalityType, FS_EmptySet
  <2>2. \A n \in 1 .. Cardinality(Roots) : \E x \in Roots : Cardinality(Below(R, Roots, x)) = n - 1
    BY ONLY <1>6, <1>9, Ranking
  <2>3. 1 \in 1 .. Cardinality(Roots) /\ 1 - 1 = 0
    BY <2>1
  <2> QED
    BY <2>2, <2>3
<1>11. Below(R, Roots, x) = {}
  <2>1. Below(R, Roots, x) \in SUBSET Roots
    BY DEF Below
  <2> QED
    BY <1>6, <1>10, <2>1, FS_Subset, FS_EmptySet
<1>12. \A h \in Roots \ {x} : Before(Rank(x), Rank(h))
  BY <1>8, <1>9, <1>11 DEF Below, StrictOrder
<1>13. Pick \in Roots
  BY <1>12 DEF Pick
<1> QED
  BY <1>6, <1>13

----------------------------------------------------------------------------
(* Lists of GPUs.                                                           *)
LEMMA ListsOfGpus ==
    ASSUME NEW free \in Seq(GPU)
    PROVE  /\ \A used : /\ Only(free, GPU \ used) \in Seq(GPU)
                        /\ ToSet(Only(free, GPU \ used)) = ToSet(free) \ used
           /\ \A n \in Nat : /\ FirstOf(free, n) \in Seq(GPU)
                             /\ ToSet(FirstOf(free, n)) \subseteq ToSet(free)
                             /\ SubSeq(free, n + 1, Len(free)) \in Seq(GPU)
<1>1. ToSet(free) \subseteq GPU
  BY DEF ToSet
<1>2. ASSUME NEW used
      PROVE  /\ Only(free, GPU \ used) \in Seq(GPU)
             /\ ToSet(Only(free, GPU \ used)) = ToSet(free) \ used
  <2>1. /\ Only(free, GPU \ used) \in Seq(GPU)
        /\ ToSet(Only(free, GPU \ used)) = ToSet(free) \cap (GPU \ used)
    BY OnlyOf
  <2> QED
    BY <1>1, <2>1
<1>3. ASSUME NEW n \in Nat
      PROVE  /\ FirstOf(free, n) \in Seq(GPU)
             /\ ToSet(FirstOf(free, n)) \subseteq ToSet(free)
             /\ SubSeq(free, n + 1, Len(free)) \in Seq(GPU)
  <2>1. Len(free) \in Nat
    OBVIOUS
  <2>2. PICK m \in Nat : m <= Len(free) /\ FirstOf(free, n) = SubSeq(free, 1, m)
    BY <2>1 DEF FirstOf
  <2>3. SubSeq(free, 1, m) \in Seq(GPU) /\ Len(SubSeq(free, 1, m)) = m
        /\ \A k \in 1 .. m : SubSeq(free, 1, m)[k] = free[k] /\ k \in DOMAIN free
    BY <2>1, <2>2
  <2>4. ToSet(SubSeq(free, 1, m)) \subseteq ToSet(free)
    <3> DEFINE s == SubSeq(free, 1, m)
    <3>1. DOMAIN s = 1 .. m
      BY <2>3
    <3> HIDE DEF s
    <3> QED
      BY <2>3, <3>1 DEF ToSet, s
  <2>5. SubSeq(free, n + 1, Len(free)) \in Seq(GPU)
    BY <2>1
  <2> QED
    BY <2>2, <2>3, <2>4, <2>5
<1> QED
  BY <1>2, <1>3

LEMMA ConcatOf ==
    ASSUME NEW S, NEW s \in Seq(S), NEW t \in Seq(S)
    PROVE  s \o t \in Seq(S) /\ ToSet(s \o t) = ToSet(s) \cup ToSet(t)
<1>1. /\ s \o t \in Seq(S) /\ Len(s) \in Nat /\ Len(t) \in Nat /\ Len(s \o t) = Len(s) + Len(t)
      /\ DOMAIN s = 1 .. Len(s) /\ DOMAIN t = 1 .. Len(t) /\ DOMAIN (s \o t) = 1 .. Len(s) + Len(t)
  OBVIOUS
<1>2. \A k \in 1 .. Len(s) : (s \o t)[k] = s[k]
  OBVIOUS
<1>3. \A k \in 1 .. Len(t) : (s \o t)[Len(s) + k] = t[k]
  OBVIOUS
<1>4. PICK c : c = s \o t
  OBVIOUS
<1>5. \A k \in DOMAIN c : (k \in DOMAIN s /\ c[k] = s[k]) \/ \E h \in DOMAIN t : c[k] = t[h]
  <2> SUFFICES ASSUME NEW k \in DOMAIN c, k \notin DOMAIN s PROVE \E h \in DOMAIN t : c[k] = t[h]
    BY <1>1, <1>2, <1>4
  <2>1. k - Len(s) \in 1 .. Len(t) /\ Len(s) + (k - Len(s)) = k
    BY <1>1, <1>4
  <2> QED
    BY <1>1, <1>3, <1>4, <2>1
<1>6. /\ \A k \in DOMAIN s : k \in DOMAIN c /\ c[k] = s[k]
      /\ \A k \in DOMAIN t : Len(s) + k \in DOMAIN c /\ c[Len(s) + k] = t[k]
  BY <1>1, <1>2, <1>3, <1>4
<1>7. ToSet(c) = ToSet(s) \cup ToSet(t)
  BY ONLY <1>5, <1>6 DEF ToSet
<1> QED
  BY <1>1, <1>4, <1>7

LEMMA DivUnique ==
    ASSUME NEW a \in Nat, NEW b \in Nat \ {0}, NEW r \in 0 .. b - 1
    PROVE  (a * b + r) \div b = a
  BY SMT

(* The GPUs of the running plans, and those that are dealt out.             *)
LEMMA OldOf ==
    ASSUME Types, NEW p \in Stay
    PROVE  \E k \in DOMAIN running : /\ Plan(running[k]) = Plan(p)
                                     /\ OldGpus(p) = gpus[running[k]]
                                     /\ OldGpus(p) \in Seq(GPU)
<1>1. \E k \in DOMAIN running : Plan(running[k]) = Plan(p)
  BY DEF Stay, Runs
<1>2. PICK k \in DOMAIN running : Plan(running[k]) = Plan(p) /\ OldGpus(p) = gpus[running[k]]
  BY <1>1 DEF OldGpus
<1>3. running[k] \in States(stages)
  <2>1. running[k] \in PlanStates /\ stages \in Schedules
    BY DEF Types
  <2> QED
    BY <2>1, PlanOf
<1> QED
  BY <1>2, <1>3 DEF Types

LEMMA UnitOf ==
    ASSUME Types, NEW u \in FreeUnits
    PROVE  /\ UnitGpus(u) \in Seq(GPU)
           /\ \A g \in ToSet(UnitGpus(u)) : \A p \in Fixed : g \notin ToSet(OldGpus(p))
<1> DEFINE busy == UNION {ToSet(OldGpus(p)) : p \in Stay}
           all == [k \in 1 .. Unit |-> u * Unit + k - 1]
<1>1. Unit \in Nat \ {0} /\ TotGpu \in Nat /\ u \in Nat
  <2>1. Unit \in Nat \ {0} /\ TotGpu \in Nat
    BY MachineAssumption
  <2> QED
    BY <2>1 DEF FreeUnits
<1>2. all \in Seq(Nat)
  BY <1>1
<1>3. busy \subseteq GPU
  <2>1. \A p \in Stay : ToSet(OldGpus(p)) \subseteq GPU
    <3> TAKE p \in Stay
    <3>1. OldGpus(p) \in Seq(GPU)
      BY OldOf
    <3> QED
      BY <3>1 DEF ToSet
  <2> QED
    BY <2>1
<1>4. \A g \in ToSet(all) : g \div Unit = u
  <2> SUFFICES ASSUME NEW k \in 1 .. Unit PROVE (u * Unit + k - 1) \div Unit = u
    BY DEF ToSet
  <2>1. k - 1 \in 0 .. Unit - 1
    BY <1>1
  <2>2. (u * Unit + (k - 1)) \div Unit = u
    BY <1>1, <2>1, DivUnique
  <2>3. u * Unit + k - 1 = u * Unit + (k - 1)
    BY <1>1
  <2> QED
    BY <2>2, <2>3
<1> HIDE DEF busy, all
<1>5. /\ Only(all, GPU \ busy) \in Seq(Nat) /\ ToSet(Only(all, GPU \ busy)) \subseteq ToSet(all) \cap GPU
      /\ Only(all, busy) \in Seq(Nat) /\ ToSet(Only(all, busy)) \subseteq ToSet(all) \cap GPU
  <2>1. /\ Only(all, GPU \ busy) \in Seq(Nat)
        /\ ToSet(Only(all, GPU \ busy)) = ToSet(all) \cap (GPU \ busy)
    BY <1>2, OnlyOf
  <2>2. Only(all, busy) \in Seq(Nat) /\ ToSet(Only(all, busy)) = ToSet(all) \cap busy
    BY <1>2, OnlyOf
  <2> QED
    BY <1>3, <2>1, <2>2
<1>6. \A s \in Seq(Nat) : ToSet(s) \subseteq GPU => s \in Seq(GPU)
  BY DEF ToSet
<1>7. UnitGpus(u) = Only(all, GPU \ busy) \o Only(all, busy)
  BY DEF UnitGpus, all, busy
<1>8. PICK s, t : s = Only(all, GPU \ busy) /\ t = Only(all, busy)
  OBVIOUS
<1>9. s \in Seq(GPU) /\ t \in Seq(GPU) /\ ToSet(s) \subseteq ToSet(all) /\ ToSet(t) \subseteq ToSet(all)
  BY <1>5, <1>6, <1>8
<1>10. s \o t \in Seq(GPU) /\ ToSet(s \o t) \subseteq ToSet(all)
  <2>1. s \o t \in Seq(GPU) /\ ToSet(s \o t) = ToSet(s) \cup ToSet(t)
    BY <1>9, ConcatOf
  <2> QED
    BY <1>9, <2>1
<1>11. ASSUME NEW g \in ToSet(UnitGpus(u)), NEW p \in Fixed PROVE g \notin ToSet(OldGpus(p))
  <2>1. g \in ToSet(all)
    BY <1>7, <1>8, <1>10
  <2>2. g \div Unit = u
    BY <1>4, <2>1
  <2>3. \A h \in ToSet(OldGpus(p)) : h \div Unit # u
    BY DEF FreeUnits
  <2> QED
    BY <2>2, <2>3
<1> QED
  BY <1>7, <1>8, <1>10, <1>11

(* The plans that get GPUs are those that do not keep theirs.               *)
LEMMA OrderOf ==
    ASSUME Types
    PROVE  Order \in Seq(PlanStates) /\ ToSet(Order) = ToSet(keep) \ Fixed
<1> DEFINE list == Only(keep, ToSet(keep) \ Fixed)
           key == [k \in DOMAIN list |-> <<-Plan(list[k]).workers>>]
           once == SortedBy(list, key)
           full == [k \in DOMAIN once |-> <<Plan(once[k]).workers, Bit(once[k] \in Stay),
                                            Bit(Size(once[k]) % Unit = 0), Size(once[k])>>]
<1>1. keep \in Seq(PlanStates) /\ stages \in Schedules
  BY DEF Types
<1>2. list \in Seq(PlanStates) /\ ToSet(list) = ToSet(keep) \ Fixed
  <2>1. list \in Seq(PlanStates) /\ ToSet(list) = ToSet(keep) \cap (ToSet(keep) \ Fixed)
    BY <1>1, OnlyOf
  <2> QED
    BY <2>1
<1> HIDE DEF list
<1>3. \A p \in PlanStates : Plan(p).workers \in Int /\ Size(p) \in Int
  <2> TAKE p \in PlanStates
  <2>1. Plan(p) \in Shape /\ Size(p) \in Nat /\ Unit \in Nat
    BY <1>1, PlanOf, MachineAssumption
  <2> QED
    BY <2>1 DEF Shape
<1>4. key \in [DOMAIN list -> [1 .. 1 -> Int]]
  <2>1. \A k \in DOMAIN list : list[k] \in PlanStates
    BY <1>2
  <2>2. \A k \in DOMAIN list : -Plan(list[k]).workers \in Int
    BY <1>3, <2>1
  <2> QED
    BY <2>2
<1> HIDE DEF key
<1>5. once \in Seq(PlanStates) /\ ToSet(once) = ToSet(list)
  <2>1. 1 \in Nat
    OBVIOUS
  <2> QED
    BY <1>2, <1>4, <2>1, SortedOf
<1> HIDE DEF once
<1>6. full \in [DOMAIN once -> [1 .. 4 -> Int]]
  <2>1. \A k \in DOMAIN once : once[k] \in PlanStates
    BY <1>5
  <2>2. \A k \in DOMAIN once : Plan(once[k]).workers \in Int /\ Size(once[k]) \in Int
    BY <1>3, <2>1
  <2>3. \A k \in DOMAIN once : Bit(once[k] \in Stay) \in Int /\ Bit(Size(once[k]) % Unit = 0) \in Int
    BY DEF Bit
  <2> QED
    BY <2>2, <2>3
<1>7. Order = SortedBy(once, full)
  BY DEF Order, Sorted, once, list, key
<1> HIDE DEF full
<1>8. Order \in Seq(PlanStates) /\ ToSet(Order) = ToSet(once)
  <2>1. 4 \in Nat
    OBVIOUS
  <2>2. SortedBy(once, full) \in Seq(PlanStates) /\ ToSet(SortedBy(once, full)) = ToSet(once)
    BY ONLY <1>5, <1>6, <2>1, SortedOf
  <2> QED
    BY <1>7, <2>2
<1> QED
  BY <1>2, <1>5, <1>8

----------------------------------------------------------------------------
(* Dealing out the GPUs, one plan after the other.                          *)
Hands == [free : Seq(GPU), gpus : [States(stages) -> Seq(GPU)], moved : SUBSET PlanStates]

LEMMA DealOf ==
    ASSUME Types, NEW a \in Hands, NEW p \in PlanStates
    PROVE  /\ Placed(a.free, p) \in Seq(GPU) /\ ToSet(Placed(a.free, p)) \subseteq ToSet(a.free)
           /\ Deal(a, p) \in Hands
           /\ ToSet(Deal(a, p).free) = ToSet(a.free) \ ToSet(Placed(a.free, p))
           /\ Deal(a, p).gpus[p] = Placed(a.free, p)
           /\ \A q \in States(stages) : q # p => Deal(a, p).gpus[q] = a.gpus[q]
           /\ Deal(a, p).moved \subseteq a.moved \cup ({p} \cap Stay)
           /\ a.moved \subseteq Deal(a, p).moved
           /\ p \in Stay \ Deal(a, p).moved => Placed(a.free, p) = OldGpus(p)
<1>0. /\ a.free \in Seq(GPU) /\ a.gpus \in [States(stages) -> Seq(GPU)] /\ a.moved \subseteq PlanStates
      /\ Size(p) \in Nat /\ p \in States(stages)
  <2>1. stages \in Schedules
    BY DEF Types
  <2>2. Size(p) \in Nat /\ p \in States(stages)
    BY <2>1, PlanOf
  <2> QED
    BY <2>2 DEF Hands
<1>1. Placed(a.free, p) \in Seq(GPU) /\ ToSet(Placed(a.free, p)) \subseteq ToSet(a.free)
  <2>1. CASE Keepable(p, a.free)
    <3>1. p \in Stay /\ ToSet(OldGpus(p)) \subseteq ToSet(a.free)
      BY <2>1 DEF Keepable
    <3>2. OldGpus(p) \in Seq(GPU)
      BY <3>1, OldOf
    <3> QED
      BY <2>1, <3>1, <3>2 DEF Placed
  <2>2. CASE ~Keepable(p, a.free)
    <3>1. FirstOf(a.free, Size(p)) \in Seq(GPU) /\ ToSet(FirstOf(a.free, Size(p))) \subseteq ToSet(a.free)
      BY <1>0, ListsOfGpus
    <3> QED
      BY <2>2, <3>1 DEF Placed
  <2> QED
    BY <2>1, <2>2
<1>2. PICK place : place = Placed(a.free, p)
  OBVIOUS
<1>3. /\ Without(a.free, ToSet(place)) \in Seq(GPU)
      /\ ToSet(Without(a.free, ToSet(place))) = ToSet(a.free) \ ToSet(place)
  BY <1>0, ListsOfGpus DEF Without
<1>4. PICK more : more = IF Moved(a.free, p) THEN a.moved \cup {p} ELSE a.moved
  OBVIOUS
<1>5. Deal(a, p) = [free |-> Without(a.free, ToSet(place)), gpus |-> [a.gpus EXCEPT ![p] = place],
                    moved |-> more]
  BY <1>2, <1>4 DEF Deal
<1>6. /\ more \subseteq PlanStates /\ more \subseteq a.moved \cup ({p} \cap Stay) /\ a.moved \subseteq more
      /\ p \in Stay \ more => Keepable(p, a.free)
  BY <1>0, <1>4 DEF Moved
<1>7. [a.gpus EXCEPT ![p] = place] \in [States(stages) -> Seq(GPU)]
  BY <1>0, <1>1, <1>2
<1>8. Deal(a, p) \in Hands
  BY <1>3, <1>5, <1>6, <1>7 DEF Hands
<1>9. p \in Stay \ more => place = OldGpus(p)
  BY <1>2, <1>6 DEF Placed
<1> QED
  BY <1>0, <1>1, <1>2, <1>3, <1>5, <1>6, <1>8, <1>9

Dealing(order, first, hand) ==
    /\ hand \in [0 .. Len(order) -> Hands]
    /\ hand[0] = first
    /\ \A i \in 1 .. Len(order) : hand[i] = Deal(hand[i - 1], order[i])

LEMMA DealInTurn ==
    ASSUME Types, NEW order \in Seq(PlanStates), NEW first \in Hands
    PROVE  \E hand : Dealing(order, first, hand) /\ FoldLeft(Deal, first, order) = hand[Len(order)]
<1> DEFINE n == Len(order)
           D == 1 .. n
           step == [ia \in D \X Hands |-> Deal(ia[2], order[ia[1]])]
           InTurn(f) == f = [s \in SUBSET D |->
                               IF s = {} THEN first ELSE Deal(f[s \ {Max(s)}], order[Max(s)])]
           iter == CHOOSE f : InTurn(f)
<1>1. n \in Nat /\ DOMAIN order = D /\ D \subseteq 0 .. n
  OBVIOUS
<1>2. FoldLeft(Deal, first, order) = iter[D]
  <2>1. FoldLeft(Deal, first, order) =
          LET it[s \in SUBSET (DOMAIN order)] ==
                 IF s = {} THEN first ELSE Deal(it[s \ {Max(s)}], order[Max(s)])
          IN  it[DOMAIN order]
    BY DEF FoldLeft, MapThenFoldSet
  <2> QED
    BY <1>1, <2>1
<1>3. \A i \in D, a \in Hands : Deal(a, order[i]) \in Hands
  <2> SUFFICES ASSUME NEW i \in D, NEW a \in Hands PROVE Deal(a, order[i]) \in Hands
    OBVIOUS
  <2>1. order[i] \in PlanStates
    OBVIOUS
  <2> QED
    BY <2>1, DealOf
<1>4. /\ step \in [D \X Hands -> Hands]
      /\ \A i \in D, a \in Hands : step[<<i, a>>] = Deal(a, order[i])
  <2> HIDE DEF D
  <2> QED
    BY <1>3
<1> HIDE DEF step
<1>5. PICK fold : FoldingUp(first, step, n, fold) /\ \A s \in SUBSET (1 .. n) : fold[s] \in Hands
  <2>1. step \in [(1 .. n) \X Hands -> Hands]
    BY <1>4
  <2> HIDE DEF n
  <2> QED
    BY ONLY first \in Hands, <1>1, <2>1, FoldInTurn
<1>6. \A s \in SUBSET D : s # {} => Max(s) \in s /\ Max(s) \in D
  <2> SUFFICES ASSUME NEW s \in SUBSET D, s # {} PROVE Max(s) \in s
    OBVIOUS
  <2>1. s \subseteq 0 .. n
    BY <1>1
  <2> QED
    BY <1>1, <2>1, MaxOf
<1>7. \A s \in SUBSET D : fold[s] \in Hands
  BY <1>5
<1>8. fold = [s \in SUBSET D |-> IF s = {} THEN first ELSE step[<<Max(s), fold[s \ {Max(s)}]>>]]
  BY <1>5 DEF FoldingUp
<1> HIDE DEF D
<1>9. \A s \in SUBSET D : s # {} =>
         step[<<Max(s), fold[s \ {Max(s)}]>>] = Deal(fold[s \ {Max(s)}], order[Max(s)])
  <2> SUFFICES ASSUME NEW s \in SUBSET D, s # {}
               PROVE  step[<<Max(s), fold[s \ {Max(s)}]>>] = Deal(fold[s \ {Max(s)}], order[Max(s)])
    OBVIOUS
  <2>1. Max(s) \in D /\ fold[s \ {Max(s)}] \in Hands
    BY <1>6, <1>7
  <2> QED
    BY <1>4, <2>1
<1>10. InTurn(fold)
  BY <1>8, <1>9
<1>11. InTurn(iter)
  <2> HIDE DEF InTurn
  <2> QED
    BY <1>10
<1> HIDE DEF iter
<1>12. DOMAIN iter = SUBSET D /\ iter[{}] = first
      /\ \A s \in SUBSET D : s # {} => iter[s] = Deal(iter[s \ {Max(s)}], order[Max(s)])
  <2>1. iter = [s \in SUBSET D |->
                   IF s = {} THEN first ELSE Deal(iter[s \ {Max(s)}], order[Max(s)])]
    BY <1>11
  <2> QED
    BY <2>1
<1> DEFINE hand == [i \in 0 .. n |-> iter[1 .. i]]
<1>13. hand[0] = first /\ hand[n] = iter[D]
  <2>1. 1 .. 0 = {} /\ 0 \in 0 .. n /\ n \in 0 .. n
    BY <1>1
  <2>2. hand[0] = iter[1 .. 0] /\ hand[n] = iter[1 .. n]
    BY <2>1
  <2> QED
    BY <1>12, <2>1, <2>2 DEF D
<1>14. \A i \in 1 .. n : hand[i] = Deal(hand[i - 1], order[i])
  <2> SUFFICES ASSUME NEW i \in 1 .. n PROVE hand[i] = Deal(hand[i - 1], order[i])
    OBVIOUS
  <2>1. i \in 0 .. n /\ i - 1 \in 0 .. n /\ 1 .. i \in SUBSET D /\ i \in 1 .. i /\ (1 .. i) \ {i} = 1 .. i - 1
    BY <1>1 DEF D
  <2>2. Max(1 .. i) = i
    <3>0. i \in Nat /\ i >= 1
      BY <1>1
    <3>1. 1 .. i \subseteq 0 .. i /\ 1 .. i # {}
      <4>1. 1 \in 1 .. i
        BY <3>0
      <4>2. \A j \in 1 .. i : j \in 0 .. i
        BY <3>0
      <4> QED
        BY <4>1, <4>2
    <3>2. Max(1 .. i) \in 1 .. i /\ i <= Max(1 .. i)
      BY <2>1, <3>0, <3>1, MaxOf
    <3> QED
      BY <3>0, <3>2
  <2>3. iter[1 .. i] = Deal(iter[(1 .. i) \ {Max(1 .. i)}], order[Max(1 .. i)])
    BY <1>12, <2>1
  <2>4. iter[1 .. i] = Deal(iter[1 .. i - 1], order[i])
    BY <2>1, <2>2, <2>3
  <2> QED
    BY <2>1, <2>4
<1> HIDE DEF hand
<1>15. \A i \in 0 .. n : hand[i] \in Hands
  <2> DEFINE P == {i \in 0 .. n : hand[i] \in Hands}
  <2>1. 0 \in P
    BY <1>1, <1>13
  <2>2. \A i \in 0 .. n - 1 : i \in P => i + 1 \in P
    <3> SUFFICES ASSUME NEW i \in 0 .. n - 1, i \in P PROVE i + 1 \in P
      OBVIOUS
    <3>1. i + 1 \in 1 .. n /\ (i + 1) - 1 = i /\ i + 1 \in 0 .. n /\ i + 1 \in D
      BY <1>1 DEF D
    <3>2. hand[i + 1] = Deal(hand[i], order[i + 1])
      BY <1>14, <3>1
    <3> QED
      BY <1>3, <3>1, <3>2
  <2> HIDE DEF P, n
  <2>3. \A i \in 0 .. n : i \in P
    BY ONLY <1>1, <2>1, <2>2, Upward
  <2> QED
    BY <2>3 DEF P
<1>16. Dealing(order, first, hand)
  <2>1. hand \in [0 .. n -> Hands]
    BY <1>15 DEF hand
  <2> QED
    BY <1>13, <1>14, <2>1 DEF Dealing
<1> QED
  BY <1>2, <1>13, <1>16

(* Two plans have no GPU in common, and one that is not moved has its own.  *)
LEMMA AssignmentOf ==
    ASSUME Types, Single(keep), Exclusive, Single(running), NEW units \in SetToSeqs(FreeUnits)
    PROVE  /\ Assignment(units).gpus \in [States(stages) -> Seq(GPU)]
           /\ Assignment(units).moved \subseteq Stay
           /\ \A p, q \in ToSet(keep) : p # q =>
                 ToSet(Assignment(units).gpus[p]) \cap ToSet(Assignment(units).gpus[q]) = {}
           /\ \A p \in Stay \ Assignment(units).moved : Assignment(units).gpus[p] = OldGpus(p)
<1> DEFINE parts == [i \in DOMAIN units |-> UnitGpus(units[i])]
           first == [free |-> FlattenSeq(parts),
                     gpus |-> [p \in DOMAIN gpus |-> IF p \in Fixed THEN OldGpus(p) ELSE gpus[p]],
                     moved |-> {}]
           F == ToSet(first.free)
           n == Len(Order)
<1>1. /\ keep \in Seq(PlanStates) /\ gpus \in [States(stages) -> Seq(GPU)] /\ stages \in Schedules
      /\ running \in Seq(PlanStates)
  BY DEF Types
<1>2. Order \in Seq(PlanStates) /\ ToSet(Order) = ToSet(keep) \ Fixed /\ n \in Nat
  BY OrderOf
<1>3. ToSet(keep) \subseteq PlanStates /\ PlanStates \subseteq States(stages)
      /\ Fixed \subseteq Stay /\ Stay \subseteq ToSet(keep)
  <2>1. ToSet(keep) \subseteq PlanStates
    BY <1>1 DEF ToSet
  <2>2. PlanStates \subseteq States(stages)
    BY <1>1, PlanOf
  <2> QED
    BY <2>1, <2>2 DEF Fixed, Stay
<1>4. parts \in Seq(Seq(GPU)) /\ \A i \in DOMAIN parts : \A g \in ToSet(parts[i]) :
         \A p \in Fixed : g \notin ToSet(OldGpus(p))
  <2>1. units \in [1 .. Cardinality(FreeUnits) -> FreeUnits] /\ Cardinality(FreeUnits) \in Nat
    <3>1. IsFiniteSet(FreeUnits)
      <4>1. FreeUnits \in SUBSET (0 .. TotGpu \div Unit - 1) /\ TotGpu \div Unit - 1 \in Int
        BY MachineAssumption DEF FreeUnits
      <4>2. IsFiniteSet(0 .. TotGpu \div Unit - 1)
        BY <4>1, FS_Interval
      <4> QED
        BY <4>1, <4>2, FS_Subset
    <3> QED
      BY <3>1, FS_CardinalityType DEF SetToSeqs
  <2>2. \A i \in DOMAIN units : units[i] \in FreeUnits
    BY <2>1
  <2>3. \A i \in DOMAIN units : /\ UnitGpus(units[i]) \in Seq(GPU)
                                /\ \A g \in ToSet(UnitGpus(units[i])) :
                                      \A p \in Fixed : g \notin ToSet(OldGpus(p))
    BY <2>2, UnitOf
  <2>4. DOMAIN parts = 1 .. Cardinality(FreeUnits) /\ DOMAIN units = DOMAIN parts
    BY <2>1
  <2>5. parts \in Seq(Seq(GPU))
    BY <2>1, <2>3, <2>4
  <2> QED
    BY <2>3, <2>4, <2>5
<1> HIDE DEF parts
<1>5. FlattenSeq(parts) \in Seq(GPU)
      /\ \A g \in ToSet(FlattenSeq(parts)) : \A p \in Fixed : g \notin ToSet(OldGpus(p))
  <2>1. FlattenSeq(parts) \in Seq(GPU)
        /\ \A g \in ToSet(FlattenSeq(parts)) : \E i \in DOMAIN parts : g \in ToSet(parts[i])
    BY <1>4, FlattenOf
  <2> QED
    BY <1>4, <2>1
<1>6. first \in Hands
  <2>1. \A p \in Fixed : OldGpus(p) \in Seq(GPU)
    BY <1>3, OldOf
  <2>2. [p \in DOMAIN gpus |-> IF p \in Fixed THEN OldGpus(p) ELSE gpus[p]]
           \in [States(stages) -> Seq(GPU)]
    BY <1>1, <2>1
  <2>3. {} \in SUBSET PlanStates
    OBVIOUS
  <2> QED
    BY <1>5, <2>2, <2>3 DEF Hands
<1>7. PICK hand : Dealing(Order, first, hand) /\ FoldLeft(Deal, first, Order) = hand[n]
  <2> HIDE DEF first
  <2> QED
    BY <1>2, <1>6, DealInTurn
<1>8. Assignment(units) = hand[n]
  BY <1>7 DEF Assignment, parts
<1>9. /\ first.moved = {}
      /\ \A p \in States(stages) : p \in Fixed => first.gpus[p] = OldGpus(p)
      /\ \A g \in F : \A p \in Fixed : g \notin ToSet(OldGpus(p))
  BY <1>1, <1>5
<1> HIDE DEF first, n, F
<1>10. /\ hand \in [0 .. n -> Hands] /\ hand[0] = first
       /\ \A i \in 1 .. n : hand[i] = Deal(hand[i - 1], Order[i])
  BY <1>7 DEF Dealing, n
<1> DEFINE Own(i, p) == ToSet(hand[i].gpus[p])
           Done(i) == {Order[j] : j \in 1 .. i}
           Good(i) ==
             /\ ToSet(hand[i].free) \subseteq F
             /\ hand[i].moved \subseteq Stay
             /\ \A p \in Fixed : hand[i].gpus[p] = OldGpus(p)
             /\ \A p \in Done(i) : Own(i, p) \subseteq F \ ToSet(hand[i].free)
             /\ \A p, q \in Done(i) : p # q => Own(i, p) \cap Own(i, q) = {}
             /\ \A p \in Done(i) : p \in Stay \ hand[i].moved => hand[i].gpus[p] = OldGpus(p)
           P == {i \in 0 .. n : Good(i)}
<1>11. 0 \in P
  <2>1. Done(0) = {} /\ 0 \in 0 .. n
    BY <1>2 DEF n
  <2>2. Good(0)
    <3>1. \A p \in Fixed : p \in States(stages)
      BY <1>3
    <3> HIDE DEF Done
    <3> QED
      BY <1>9, <1>10, <2>1, <3>1 DEF F
  <2> QED
    BY <2>1, <2>2
<1>12. ASSUME NEW i \in 0 .. n - 1, Good(i) PROVE i + 1 \in P
  <2>1. i + 1 \in 1 .. n /\ i + 1 \in 0 .. n /\ (i + 1) - 1 = i /\ i \in 0 .. n /\ i \in Nat
        /\ 1 .. n = DOMAIN Order
    BY <1>2 DEF n
  <2>2. PICK a, p, b : a = hand[i] /\ p = Order[i + 1] /\ b = hand[i + 1]
    OBVIOUS
  <2>3. a \in Hands /\ p \in PlanStates /\ p \in ToSet(keep) \ Fixed /\ b = Deal(a, p)
    <3>1. Order[i + 1] \in PlanStates /\ Order[i + 1] \in ToSet(Order)
      BY <1>2, <2>1 DEF ToSet
    <3>2. hand[i + 1] = Deal(hand[i], Order[i + 1])
      BY <1>10, <2>1
    <3> QED
      BY <1>2, <1>10, <2>1, <2>2, <3>1, <3>2
  <2>4. PICK place : place = Placed(a.free, p)
    OBVIOUS
  <2>5. /\ place \in Seq(GPU) /\ ToSet(place) \subseteq ToSet(a.free)
        /\ ToSet(b.free) = ToSet(a.free) \ ToSet(place)
        /\ b.gpus[p] = place
        /\ \A q \in States(stages) : q # p => b.gpus[q] = a.gpus[q]
        /\ b.moved \subseteq a.moved \cup ({p} \cap Stay)
        /\ a.moved \subseteq b.moved
        /\ p \in Stay \ b.moved => place = OldGpus(p)
    <3>1. Types /\ a \in Hands /\ p \in PlanStates
      BY <2>3
    <3>2. /\ Placed(a.free, p) \in Seq(GPU) /\ ToSet(Placed(a.free, p)) \subseteq ToSet(a.free)
          /\ ToSet(Deal(a, p).free) = ToSet(a.free) \ ToSet(Placed(a.free, p))
          /\ Deal(a, p).gpus[p] = Placed(a.free, p)
          /\ \A q \in States(stages) : q # p => Deal(a, p).gpus[q] = a.gpus[q]
          /\ Deal(a, p).moved \subseteq a.moved \cup ({p} \cap Stay)
          /\ a.moved \subseteq Deal(a, p).moved
          /\ p \in Stay \ Deal(a, p).moved => Placed(a.free, p) = OldGpus(p)
      BY ONLY <3>1, DealOf
    <3>3. b = Deal(a, p)
      BY <2>3
    <3> QED
      BY ONLY <2>4, <3>2, <3>3
  <2>6. \A q \in Done(i + 1) : q = p \/ (q \in Done(i) /\ q # p)
    <3> SUFFICES ASSUME NEW j \in 1 .. i + 1, Order[j] # p PROVE j \in 1 .. i
      BY <2>2
    <3>1. j # i + 1
      BY <2>2
    <3> QED
      BY <2>1, <3>1
  <2>7. \A q \in Done(i + 1) : q \in States(stages)
    <3> SUFFICES ASSUME NEW j \in 1 .. i + 1 PROVE Order[j] \in States(stages)
      OBVIOUS
    <3>1. j \in 1 .. n
      BY <1>2, <2>1 DEF n
    <3>2. j \in DOMAIN Order
      BY <2>1, <3>1
    <3> QED
      BY <1>2, <1>3, <3>2
  <2>8. /\ ToSet(a.free) \subseteq F
        /\ a.moved \subseteq Stay
        /\ \A q \in Fixed : a.gpus[q] = OldGpus(q)
        /\ \A q \in Done(i) : ToSet(a.gpus[q]) \subseteq F \ ToSet(a.free)
        /\ \A q, r \in Done(i) : q # r => ToSet(a.gpus[q]) \cap ToSet(a.gpus[r]) = {}
        /\ \A q \in Done(i) : q \in Stay \ a.moved => a.gpus[q] = OldGpus(q)
    BY <1>12, <2>2
  <2> HIDE DEF Done
  <2>9. /\ ToSet(b.free) \subseteq F
        /\ b.moved \subseteq Stay
        /\ \A q \in Fixed : b.gpus[q] = OldGpus(q)
    <3>1. \A q \in Fixed : q # p /\ q \in States(stages)
      BY <1>3, <2>3
    <3> QED
      BY <2>5, <2>8, <3>1
  <2>10. \A q \in Done(i + 1) : ToSet(b.gpus[q]) \subseteq F \ ToSet(b.free)
    BY <2>5, <2>6, <2>7, <2>8
  <2>11. \A q, r \in Done(i + 1) : q # r => ToSet(b.gpus[q]) \cap ToSet(b.gpus[r]) = {}
    BY <2>5, <2>6, <2>7, <2>8
  <2>12. \A q \in Done(i + 1) : q \in Stay \ b.moved => b.gpus[q] = OldGpus(q)
    BY <2>5, <2>6, <2>7, <2>8
  <2>13. Good(i + 1)
    BY <2>2, <2>9, <2>10, <2>11, <2>12
  <2> HIDE DEF Good
  <2> QED
    BY <2>1, <2>13
<1>13. \A i \in 0 .. n : Good(i)
  <2>1. n \in Nat
    BY <1>2 DEF n
  <2>2. \A i \in 0 .. n - 1 : i \in P => i + 1 \in P
    <3> HIDE DEF Good
    <3> QED
      BY <1>12
  <2>3. \A i \in 0 .. n : i \in P
    <3> HIDE DEF P
    <3> QED
      BY ONLY <1>11, <2>1, <2>2, Upward
  <2> QED
    BY <2>3
<1>14. n \in 0 .. n /\ Good(n)
  <2>1. n \in Nat
    BY <1>2 DEF n
  <2>2. n \in 0 .. n
    BY <2>1
  <2> HIDE DEF Good
  <2> QED
    BY <1>13, <2>2
<1>15. Done(n) = ToSet(keep) \ Fixed
  <2>1. DOMAIN Order = 1 .. n
    BY <1>2 DEF n
  <2> QED
    BY <1>2, <2>1 DEF ToSet
<1> HIDE DEF P, Done
<1>16. PICK result : result = hand[n]
  OBVIOUS
<1>17. /\ result.moved \subseteq Stay
       /\ \A p \in Fixed : result.gpus[p] = OldGpus(p)
       /\ \A p \in ToSet(keep) \ Fixed : ToSet(result.gpus[p]) \subseteq F
       /\ \A p, q \in ToSet(keep) \ Fixed : p # q => ToSet(result.gpus[p]) \cap ToSet(result.gpus[q]) = {}
       /\ \A p \in ToSet(keep) \ Fixed : p \in Stay \ result.moved => result.gpus[p] = OldGpus(p)
  BY <1>14, <1>15, <1>16
<1>18. result.gpus \in [States(stages) -> Seq(GPU)]
  BY <1>10, <1>14, <1>16 DEF Hands
<1>19. ASSUME NEW p \in Fixed, NEW q \in Fixed, p # q
       PROVE  ToSet(OldGpus(p)) \cap ToSet(OldGpus(q)) = {}
  <2>1. p \in Stay /\ q \in Stay
    BY <1>3
  <2>2. PICK k \in DOMAIN running : Plan(running[k]) = Plan(p) /\ OldGpus(p) = gpus[running[k]]
    BY <2>1, OldOf
  <2>3. PICK h \in DOMAIN running : Plan(running[h]) = Plan(q) /\ OldGpus(q) = gpus[running[h]]
    BY <2>1, OldOf
  <2>4. ModelOf(p) # ModelOf(q)
    <3>1. PICK i \in DOMAIN keep : keep[i] = p
      BY <1>3 DEF ToSet
    <3>2. PICK j \in DOMAIN keep : keep[j] = q
      BY <1>3 DEF ToSet
    <3> QED
      BY <1>19, <3>1, <3>2 DEF Single
  <2>5. k # h
    BY <2>2, <2>3, <2>4 DEF ModelOf
  <2> QED
    BY <2>2, <2>3, <2>5 DEF Exclusive
<1>20. ASSUME NEW p \in ToSet(keep), NEW q \in ToSet(keep), p # q
       PROVE  ToSet(result.gpus[p]) \cap ToSet(result.gpus[q]) = {}
  <2>1. CASE p \in Fixed /\ q \in Fixed
    BY <1>17, <1>19, <1>20, <2>1
  <2>2. CASE p \in Fixed /\ q \notin Fixed
    BY <1>9, <1>17, <2>2
  <2>3. CASE p \notin Fixed /\ q \in Fixed
    BY <1>9, <1>17, <2>3
  <2>4. CASE p \notin Fixed /\ q \notin Fixed
    BY <1>17, <1>20, <2>4
  <2> QED
    BY <2>1, <2>2, <2>3, <2>4
<1>21. \A p \in Stay \ result.moved : result.gpus[p] = OldGpus(p)
  BY <1>3, <1>17
<1> QED
  BY <1>8, <1>16, <1>17, <1>18, <1>20, <1>21

----------------------------------------------------------------------------
(* The plans of the first stage follow one another on the machine.          *)
LEMMA PrefixesGrow ==
    ASSUME NEW plans \in Seq(Shape)
    PROVE  \A b \in 0 .. Len(plans) : \A a \in 0 .. b : GpusOf(plans, a) <= GpusOf(plans, b)
<1> DEFINE n == Len(plans)
           P == {b \in 0 .. n : \A a \in 0 .. b : GpusOf(plans, a) <= GpusOf(plans, b)}
<1>1. n \in Nat
  OBVIOUS
<1>2. /\ \A k \in 0 .. n : GpusOf(plans, k) \in Nat
      /\ \A k \in 1 .. n : GpusOf(plans, k) = GpusOf(plans, k - 1) + Gpus(plans[k])
  BY PrefixSums
<1>3. \A k \in 1 .. n : Gpus(plans[k]) \in Nat
  BY GpusType
<1>4. 0 \in P
  <2>1. 0 \in 0 .. n /\ \A a \in 0 .. 0 : a = 0
    BY <1>1
  <2> QED
    BY <1>2, <2>1
<1>5. \A b \in 0 .. n - 1 : b \in P => b + 1 \in P
  <2> SUFFICES ASSUME NEW b \in 0 .. n - 1, b \in P, NEW a \in 0 .. b + 1
               PROVE  b + 1 \in 0 .. n /\ GpusOf(plans, a) <= GpusOf(plans, b + 1)
    OBVIOUS
  <2>1. b + 1 \in 0 .. n /\ b + 1 \in 1 .. n /\ (b + 1) - 1 = b /\ b \in 0 .. n
    BY <1>1
  <2>2. GpusOf(plans, b) <= GpusOf(plans, b + 1) /\ GpusOf(plans, b + 1) \in Nat
        /\ GpusOf(plans, b) \in Nat
    BY <1>2, <1>3, <2>1
  <2>3. CASE a = b + 1
    BY <2>1, <2>2, <2>3
  <2>4. CASE a # b + 1
    <3>1. a \in 0 .. b /\ a \in 0 .. n
      BY <1>1, <2>4
    <3>2. GpusOf(plans, a) <= GpusOf(plans, b) /\ GpusOf(plans, a) \in Nat
      BY <1>2, <3>1
    <3> QED
      BY <2>1, <2>2, <3>2
  <2> QED
    BY <2>3, <2>4
<1> HIDE DEF P, n
<1>6. \A b \in 0 .. n : b \in P
  BY ONLY <1>1, <1>4, <1>5, Upward
<1> QED
  BY <1>6 DEF P, n

LEMMA FirstPlacementOf ==
    ASSUME NEW sched \in Schedules
    PROVE  /\ 1 \in DOMAIN sched
           /\ FirstPlacement(sched) \in [States(sched) -> Seq(GPU)]
           /\ \A i, j \in DOMAIN sched[1] : i # j =>
                 ToSet(FirstPlacement(sched)[<<1, i>>]) \cap ToSet(FirstPlacement(sched)[<<1, j>>]) = {}
<1> DEFINE key(j) == LET p == sched[1][j]
                     IN  <<p.workers, Bit(Gpus(p) % Unit = 0), p.dp>>
           ids == [j \in DOMAIN sched[1] |-> j]
           keys == [k \in DOMAIN ids |-> key(ids[k])]
           order == SortedBy(ids, keys)
           plans == [k \in DOMAIN order |-> sched[1][order[k]]]
           Place1(p) == IF p[1] > 1 \/ p[2] \notin DOMAIN sched[1] THEN <<>>
                        ELSE LET k == CHOOSE k \in DOMAIN order : order[k] = p[2]
                             IN  [g \in 1 .. Gpus(plans[k]) |-> GpusOf(plans, k - 1) + g - 1]
<1>1. 1 \in DOMAIN sched /\ DOMAIN sched \subseteq Nat
  <2>1. sched \in Seq(Seq([model : Model, workers : 1 .. Unit, dp : 1 .. TotGpu])) /\ sched # <<>>
    BY ScheduleAssumption DEF WellFormed
  <2>2. Len(sched) \in Nat /\ Len(sched) # 0 /\ DOMAIN sched = 1 .. Len(sched)
    BY <2>1
  <2> QED
    BY <2>2
<1>2. PICK list : list = sched[1]
  OBVIOUS
<1>3. /\ list \in Seq(Shape) /\ Len(list) \in Nat /\ DOMAIN list = 1 .. Len(list)
      /\ GpusOf(list, Len(list)) <= TotGpu /\ Len(list) <= TotGpu
  BY <1>1, <1>2, StageFits
<1>4. ids \in Seq(1 .. Len(list)) /\ DOMAIN ids = 1 .. Len(list) /\ IsInjective(ids)
      /\ ToSet(ids) = 1 .. Len(list) /\ Len(ids) = Len(list)
  <2>1. ids = [j \in 1 .. Len(list) |-> j]
    BY <1>2, <1>3
  <2> HIDE DEF ids
  <2>2. DOMAIN ids = 1 .. Len(list) /\ \A j \in 1 .. Len(list) : ids[j] = j
    BY <2>1
  <2>3. ids \in Seq(1 .. Len(list)) /\ Len(ids) = Len(list)
    BY <1>3, <2>1
  <2>4. IsInjective(ids) /\ ToSet(ids) = 1 .. Len(list)
    BY <2>2 DEF IsInjective, ToSet
  <2> QED
    BY <2>2, <2>3, <2>4
<1>5. keys \in [DOMAIN ids -> [1 .. 3 -> Int]]
  <2>1. \A j \in 1 .. Len(list) : key(j) \in [1 .. 3 -> Int]
    <3> SUFFICES ASSUME NEW j \in 1 .. Len(list) PROVE key(j) \in [1 .. 3 -> Int]
      OBVIOUS
    <3>1. list[j] \in Shape /\ Unit \in Nat /\ TotGpu \in Nat
      BY <1>3, MachineAssumption
    <3>2. list[j].workers \in Int /\ list[j].dp \in Int
      BY <3>1 DEF Shape
    <3>3. Bit(Gpus(list[j]) % Unit = 0) \in Int
      BY DEF Bit
    <3> QED
      BY <1>2, <3>2, <3>3
  <2>2. \A k \in DOMAIN ids : ids[k] \in 1 .. Len(list)
    BY <1>4
  <2> HIDE DEF key, ids
  <2> QED
    BY <2>1, <2>2
<1>6. FirstPlacement(sched) = [p \in States(sched) |-> Place1(p)]
  BY DEF FirstPlacement, Sorted
<1> HIDE DEF keys, ids
<1>7. /\ order \in Seq(1 .. Len(list)) /\ Len(order) = Len(list)
      /\ ToSet(order) = 1 .. Len(list) /\ IsInjective(order)
  <2>1. 3 \in Nat
    OBVIOUS
  <2>2. ids \in Seq(1 .. Len(list))
    BY <1>4
  <2>3. /\ SortedBy(ids, keys) \in Seq(1 .. Len(list))
        /\ Len(SortedBy(ids, keys)) = Len(ids)
        /\ ToSet(SortedBy(ids, keys)) = ToSet(ids)
        /\ IsInjective(ids) => IsInjective(SortedBy(ids, keys))
    BY ONLY <1>5, <2>1, <2>2, SortedOf
  <2> QED
    BY <1>4, <2>3
<1> HIDE DEF order
<1>8. /\ DOMAIN order = 1 .. Len(list) /\ order \in [1 .. Len(list) -> 1 .. Len(list)]
      /\ \A a, b \in 1 .. Len(list) : order[a] = order[b] => a = b
      /\ \A n \in 1 .. Len(list) : \E k \in 1 .. Len(list) : order[k] = n
  <2>1. DOMAIN order = 1 .. Len(list) /\ order \in [1 .. Len(list) -> 1 .. Len(list)]
    BY <1>7
  <2> QED
    BY <1>7, <2>1 DEF IsInjective, ToSet
<1>9. /\ plans \in Seq(Shape) /\ Len(plans) = Len(list)
      /\ \A k \in 1 .. Len(list) : plans[k] = list[order[k]] /\ plans[k] \in Shape
  <2>1. plans = [k \in 1 .. Len(list) |-> list[order[k]]]
    BY <1>2, <1>8
  <2> HIDE DEF plans
  <2>2. \A k \in 1 .. Len(list) : list[order[k]] \in Shape
    BY SMTT(30), <1>3, <1>8
  <2>3. plans \in Seq(Shape) /\ Len(plans) = Len(list)
    BY <1>3, <2>1, <2>2
  <2> QED
    BY <2>1, <2>2, <2>3
<1> HIDE DEF plans
<1>10. PICK total : total = Len(list)
  OBVIOUS
<1>11. /\ GpusOf(plans, total) <= TotGpu
       /\ \A k \in 0 .. total : GpusOf(plans, k) \in Nat
       /\ \A k \in 1 .. total : GpusOf(plans, k) = GpusOf(plans, k - 1) + Gpus(plans[k])
       /\ \A b \in 0 .. total : \A a \in 0 .. b : GpusOf(plans, a) <= GpusOf(plans, b)
  <2>1. GpusOf(plans, Len(plans)) = GpusOf(list, Len(list))
    <3>1. /\ list \in Seq(Shape) /\ plans \in Seq(Shape) /\ Len(plans) = Len(list)
          /\ \A k \in 1 .. Len(list) : plans[k] = list[order[k]]
      BY <1>3, <1>9
    <3> QED
      BY ONLY <1>8, <3>1, PermutedSum
  <2>2. plans \in Seq(Shape) /\ Len(plans) = total
    BY <1>9, <1>10
  <2>3. \A b \in 0 .. Len(plans) : \A a \in 0 .. b : GpusOf(plans, a) <= GpusOf(plans, b)
    BY ONLY <2>2, PrefixesGrow
  <2> QED
    BY <1>3, <1>10, <2>1, <2>2, <2>3, PrefixSums
<1> DEFINE Spot(k) == [g \in 1 .. Gpus(plans[k]) |-> GpusOf(plans, k - 1) + g - 1]
<1>12. \A k \in 1 .. total :
          /\ Spot(k) \in Seq(GPU)
          /\ \A g \in ToSet(Spot(k)) : /\ g \in Int /\ GpusOf(plans, k - 1) <= g
                                       /\ g <= GpusOf(plans, k) - 1
  <2> SUFFICES ASSUME NEW k \in 1 .. total
               PROVE  /\ Spot(k) \in Seq(GPU)
                      /\ \A g \in ToSet(Spot(k)) : /\ g \in Int /\ GpusOf(plans, k - 1) <= g
                                                   /\ g <= GpusOf(plans, k) - 1
    OBVIOUS
  <2>1. total \in Nat /\ k \in 0 .. total /\ k - 1 \in 0 .. total /\ total \in 0 .. total /\ k \in 0 .. total
    BY <1>3, <1>10
  <2>2. PICK l, u, s : l = GpusOf(plans, k - 1) /\ u = GpusOf(plans, k) /\ s = Gpus(plans[k])
    OBVIOUS
  <2>3. l \in Nat /\ u \in Nat /\ u = l + s /\ u <= GpusOf(plans, total) /\ GpusOf(plans, total) \in Nat
    BY <1>11, <2>1, <2>2
  <2>4. s \in Nat /\ TotGpu \in Nat
    <3>1. plans[k] \in Shape
      BY <1>9, <1>10
    <3> QED
      BY <2>2, <3>1, GpusType, MachineAssumption
  <2>5. u <= TotGpu
    BY <1>11, <2>3, <2>4
  <2>6. \A g \in 1 .. s : l + g - 1 \in GPU /\ l <= l + g - 1 /\ l + g - 1 <= u - 1 /\ l + g - 1 \in Int
    BY <2>3, <2>4, <2>5 DEF GPU
  <2>7. Spot(k) = [g \in 1 .. s |-> l + g - 1]
    BY <2>2
  <2> HIDE DEF Spot
  <2>8. Spot(k) \in Seq(GPU) /\ \A g \in ToSet(Spot(k)) : g \in Int /\ l <= g /\ g <= u - 1
    BY <2>4, <2>6, <2>7 DEF ToSet
  <2> QED
    BY <2>2, <2>8
<1> HIDE DEF Spot
<1>13. \A j \in 1 .. total : \E k \in 1 .. total : order[k] = j /\ Place1(<<1, j>>) = Spot(k)
  <2> SUFFICES ASSUME NEW j \in 1 .. total
               PROVE  \E k \in 1 .. total : order[k] = j /\ Place1(<<1, j>>) = Spot(k)
    OBVIOUS
  <2> DEFINE k == CHOOSE k \in DOMAIN order : order[k] = j
  <2>1. k \in 1 .. total /\ order[k] = j
    BY <1>8, <1>10
  <2>2. Place1(<<1, j>>) = Spot(k)
    BY <1>2, <1>3, <1>10 DEF Spot
  <2> QED
    BY <2>1, <2>2
<1>14. \A p \in States(sched) : Place1(p) \in Seq(GPU)
  <2> SUFFICES ASSUME NEW p \in States(sched) PROVE Place1(p) \in Seq(GPU)
    OBVIOUS
  <2>1. CASE p[1] > 1 \/ p[2] \notin DOMAIN sched[1]
    BY <2>1
  <2>2. CASE ~(p[1] > 1) /\ p[2] \in DOMAIN sched[1]
    <3>1. p = <<1, p[2]>> /\ p[2] \in 1 .. total
      <4>1. PICK i \in DOMAIN sched, j \in 1 .. TotGpu : p = <<i, j>>
        BY DEF States
      <4>2. i \in Nat /\ i >= 1 /\ ~(i > 1)
        <5>1. sched \in Seq(Seq([model : Model, workers : 1 .. Unit, dp : 1 .. TotGpu]))
          BY ScheduleAssumption DEF WellFormed
        <5> QED
          BY <2>2, <4>1, <5>1
      <4> QED
        BY <1>2, <1>3, <1>10, <2>2, <4>1, <4>2
    <3>2. PICK k \in 1 .. total : Place1(<<1, p[2]>>) = Spot(k)
      BY <1>13, <3>1
    <3> HIDE DEF Place1
    <3> QED
      BY <1>12, <3>1, <3>2
  <2> QED
    BY <2>1, <2>2
<1>15. \A j \in 1 .. total : <<1, j>> \in States(sched)
  <2> SUFFICES ASSUME NEW j \in 1 .. total PROVE j \in 1 .. TotGpu
    BY <1>1 DEF States
  <2> QED
    BY <1>3, <1>10, MachineAssumption
<1> HIDE DEF Place1
<1>16. ASSUME NEW i \in 1 .. total, NEW j \in 1 .. total, i # j
       PROVE  ToSet(Place1(<<1, i>>)) \cap ToSet(Place1(<<1, j>>)) = {}
  <2>1. PICK k \in 1 .. total : order[k] = i /\ Place1(<<1, i>>) = Spot(k)
    BY <1>13
  <2>2. PICK h \in 1 .. total : order[h] = j /\ Place1(<<1, j>>) = Spot(h)
    BY <1>13
  <2>3. \A a, b \in 1 .. total : a < b => ToSet(Spot(a)) \cap ToSet(Spot(b)) = {}
    <3> SUFFICES ASSUME NEW a \in 1 .. total, NEW b \in 1 .. total, a < b,
                        NEW g \in ToSet(Spot(a)), g \in ToSet(Spot(b))
                 PROVE  FALSE
      OBVIOUS
    <3>1. total \in Nat /\ a \in 0 .. b - 1 /\ b - 1 \in 0 .. total /\ a \in 0 .. total
      BY <1>3, <1>10
    <3>2. PICK l, u : l = GpusOf(plans, b - 1) /\ u = GpusOf(plans, a)
      OBVIOUS
    <3>3. u <= l /\ u \in Nat /\ l \in Nat
      BY <1>11, <3>1, <3>2
    <3>4. g \in Int /\ g <= u - 1 /\ l <= g
      BY <1>12, <3>2
    <3> QED
      BY <3>3, <3>4
  <2>4. k # h /\ k \in Int /\ h \in Int
    BY <1>16, <2>1, <2>2
  <2>5. k < h \/ h < k
    BY <2>4
  <2> QED
    BY <2>1, <2>2, <2>3, <2>5
<1> QED
  BY <1>1, <1>2, <1>3, <1>6, <1>10, <1>14, <1>15, <1>16

----------------------------------------------------------------------------
(* The invariant, action by action.                                         *)
LEMMA FiniteModels ==
    ASSUME NEW S \in SUBSET Model
    PROVE  IsFiniteSet(S) /\ Cardinality(S) \in Nat /\ Cardinality(S) <= Cardinality(Model)
           /\ Cardinality(Model) \in Nat
  BY MachineAssumption, FS_Subset, FS_CardinalityType

LEMMA InitInv == Init => Inv
<1> SUFFICES ASSUME Init PROVE Inv
  OBVIOUS
<1>1. /\ stages \in Schedules /\ setting \in Settings
      /\ finished = {} /\ returned = {}
      /\ target = 2 /\ pc = "wait"
      /\ cands = IF Len(stages) > 1 THEN StagePlans(2) ELSE <<>>
      /\ gpus = FirstPlacement(stages) /\ flagged = ToSet(StagePlans(1))
      /\ rest = <<>> /\ launched = <<>> /\ keep = <<>> /\ older = <<>> /\ newer = <<>>
      /\ left = <<>> /\ avail = <<>> /\ nextStage = TRUE
      /\ toStop = {} /\ newLaunch = {}
  BY DEF Init
<1>2. Len(stages) \in Nat /\ 1 \in DOMAIN stages /\ Len(stages) >= 1 /\ DOMAIN stages = 1 .. Len(stages)
  <2>1. stages \in Seq(Seq([model : Model, workers : 1 .. Unit, dp : 1 .. TotGpu]))
    BY <1>1, ScheduleAssumption DEF WellFormed
  <2>2. 1 \in DOMAIN stages
    BY <1>1, FirstPlacementOf
  <2> QED
    BY <2>1, <2>2
<1>3. /\ StagePlans(1) \in Seq(PlanStates) /\ Of(StagePlans(1), 1) /\ IsInjective(StagePlans(1))
      /\ ToSet(StagePlans(1)) \subseteq PlanStates
  <2>1. /\ StagePlans(1) \in Seq(PlanStates) /\ Of(StagePlans(1), 1) /\ IsInjective(StagePlans(1))
    BY <1>1, <1>2, StagePlansOf
  <2> QED
    BY <2>1 DEF ToSet
<1>4. /\ running \in Seq(PlanStates) /\ ToSet(running) = ToSet(StagePlans(1)) /\ IsInjective(running)
  <2> DEFINE key == [k \in DOMAIN StagePlans(1) |->
                       LET p == StagePlans(1)[k]
                       IN  <<Plan(p).workers, Bit(Size(p) % Unit = 0), Plan(p).dp>>]
  <2>1. running = SortedBy(StagePlans(1), key)
    BY DEF Init, Sorted
  <2>2. key \in [DOMAIN StagePlans(1) -> [1 .. 3 -> Int]]
    <3> SUFFICES ASSUME NEW k \in DOMAIN StagePlans(1), NEW p, p = StagePlans(1)[k]
                 PROVE  <<Plan(p).workers, Bit(Size(p) % Unit = 0), Plan(p).dp>> \in [1 .. 3 -> Int]
      OBVIOUS
    <3>1. Plan(p) \in Shape /\ Unit \in Nat /\ TotGpu \in Nat
      <4>1. p \in PlanStates
        BY <1>3
      <4> QED
        BY <1>1, <4>1, PlanOf, MachineAssumption
    <3>2. Plan(p).workers \in Int /\ Plan(p).dp \in Int
      BY <3>1 DEF Shape
    <3>3. Bit(Size(p) % Unit = 0) \in Int
      BY DEF Bit
    <3> QED
      BY <3>2, <3>3
  <2> HIDE DEF key
  <2>3. 3 \in Nat
    OBVIOUS
  <2>4. /\ SortedBy(StagePlans(1), key) \in Seq(PlanStates)
        /\ ToSet(SortedBy(StagePlans(1), key)) = ToSet(StagePlans(1))
        /\ IsInjective(SortedBy(StagePlans(1), key))
    BY ONLY <1>3, <2>2, <2>3, SortedOf
  <2> QED
    BY <2>1, <2>4
<1>5. \A k \in DOMAIN running : \E i \in DOMAIN stages[1] :
         running[k] = <<1, i>> /\ running[k] \in PlanStates /\ running[k] \in flagged
  <2> SUFFICES ASSUME NEW k \in DOMAIN running
               PROVE  \E i \in DOMAIN stages[1] : running[k] = <<1, i>> /\ running[k] \in PlanStates
                                                  /\ running[k] \in flagged
    OBVIOUS
  <2>1. running[k] \in ToSet(StagePlans(1)) /\ running[k] \in PlanStates
    BY SMTT(30), <1>4 DEF ToSet
  <2> QED
    BY <1>1, <2>1 DEF ToSet, StagePlans
<1>6. cands \in Seq(PlanStates) /\ Of(cands, 2) /\ Single(cands)
  <2>1. CASE Len(stages) > 1
    <3>1. 2 \in DOMAIN stages
      BY <1>2, <2>1
    <3> QED
      BY <1>1, <2>1, <3>1, StagePlansOf
  <2>2. CASE ~(Len(stages) > 1)
    BY <1>1, <2>2 DEF Of, Single
  <2> QED
    BY <2>1, <2>2
<1>7. \A p \in PlanStates : p \in States(stages)
  BY <1>1, PlanOf
<1>8. Types
  BY <1>1, <1>3, <1>4, <1>6, FirstPlacementOf DEF Types, Points
<1>9. TargetInRange
  <2>1. Cardinality({}) = 0
    BY FS_EmptySet
  <2> QED
    BY <1>1, <1>2, <2>1 DEF TargetInRange, InLoops
<1>10. InStages
  BY <1>1, <1>5, <1>6 DEF InStages, InLoops, UpTo
<1>11. OneOfAModel
  <2>1. Single(running)
    <3> SUFFICES ASSUME NEW k \in DOMAIN running, NEW h \in DOMAIN running, k # h,
                        ModelOf(running[k]) = ModelOf(running[h])
                 PROVE  FALSE
      BY DEF Single
    <3>1. /\ running[k] \in PlanStates /\ running[h] \in PlanStates
          /\ running[k][1] = running[h][1]
      BY <1>5
    <3>2. running[k] = running[h]
      BY <1>1, <3>1, PlanOf
    <3> QED
      BY <1>4, <3>2 DEF IsInjective
  <2>2. Disjoint(cands, running)
    BY <1>5, <1>6 DEF Disjoint, Of
  <2> QED
    BY <1>1, <1>6, <2>1, <2>2 DEF OneOfAModel, InLoops
<1>12. HaveGpus
  BY <1>1, <1>5 DEF HaveGpus, InLoops, Marked
<1>13. Exclusive
  <2> SUFFICES ASSUME NEW k \in DOMAIN running, NEW h \in DOMAIN running, k # h
               PROVE  ToSet(gpus[running[k]]) \cap ToSet(gpus[running[h]]) = {}
    BY DEF Exclusive
  <2>1. PICK i \in DOMAIN stages[1] : running[k] = <<1, i>>
    BY <1>5
  <2>2. PICK j \in DOMAIN stages[1] : running[h] = <<1, j>>
    BY <1>5
  <2>3. i # j
    BY <1>4, <2>1, <2>2 DEF IsInjective
  <2> QED
    BY <1>1, <2>1, <2>2, <2>3, FirstPlacementOf
<1> QED
  BY <1>8, <1>9, <1>10, <1>11, <1>12, <1>13 DEF Inv

LEMMA FinishInv == ASSUME Inv, NEW m \in Model, Finish(m) PROVE Inv'
<1>1. /\ finished' = finished \cup {m}
      /\ UNCHANGED <<mainVars, cands, target, planVars, pc, rest, listVars, resultVars>>
  BY DEF Finish
<1>2. UNCHANGED <<stages, setting, returned, running, cands, target, gpus, flagged, pc, rest,
                  launched, keep, older, newer, left, avail, nextStage, toStop, newLaunch>>
  BY <1>1 DEF mainVars, planVars, listVars, resultVars
<1>3. Types'
  BY <1>1, <1>2 DEF Inv, Types, PlanStates
<1>4. TargetInRange' /\ InStages'
  BY <1>2 DEF Inv, TargetInRange, InStages, InLoops, UpTo, Of
<1>5. OneOfAModel'
  BY SMTT(30), <1>2 DEF Inv, OneOfAModel, InLoops, Single, Apart, Disjoint, Stays, LastPlan, ModelOf, Plan
<1>6. HaveGpus' /\ Exclusive'
  BY <1>2 DEF Inv, HaveGpus, InLoops, Marked, UpTo, Exclusive
<1> QED
  BY <1>3, <1>4, <1>5, <1>6 DEF Inv

LEMMA BeginInv == Inv /\ Begin => Inv'
<1> SUFFICES ASSUME Inv, Begin PROVE Inv'
  OBVIOUS
<1>1. /\ pc = "wait" /\ pc' = "keep" /\ launched' = running /\ rest' = running
      /\ keep' = <<>> /\ older' = <<>> /\ newer' = <<>> /\ left' = <<>>
      /\ UNCHANGED <<stages, setting, running, finished, cands, target, gpus, flagged,
                     avail, nextStage, toStop, newLaunch>>
  BY DEF Begin, Enter, planVars, resultVars
<1>2. PICK D \in SUBSET (finished \ returned) : D # {} /\ returned' = returned \cup D
  BY DEF Begin
<1>3. Types /\ TargetInRange /\ InStages /\ OneOfAModel /\ HaveGpus /\ Exclusive
  BY DEF Inv
<1>4. /\ returned' \subseteq finished' /\ finished' \subseteq Model
      /\ Cardinality(returned') \in Nat /\ Cardinality(returned) \in Nat
      /\ Cardinality(returned) + 1 <= Cardinality(returned')
  <2>1. returned \subseteq finished /\ finished \subseteq Model
    BY <1>3 DEF Types
  <2>2. returned' \subseteq finished' /\ finished' \subseteq Model
    BY <1>1, <1>2, <2>1
  <2>3. PICK d \in D : d \notin returned
    BY <1>2
  <2>4. returned \cup {d} \subseteq returned' /\ returned' \in SUBSET Model
        /\ returned \in SUBSET Model
    BY <1>1, <1>2, <2>1, <2>2
  <2>5. IsFiniteSet(returned) /\ Cardinality(returned) \in Nat
        /\ IsFiniteSet(returned') /\ Cardinality(returned') \in Nat
    BY <2>4, FiniteModels
  <2>6. Cardinality(returned \cup {d}) = Cardinality(returned) + 1
    BY <2>3, <2>5, FS_AddElement
  <2>7. Cardinality(returned \cup {d}) <= Cardinality(returned')
    BY <2>4, <2>5, FS_Subset
  <2> QED
    BY <2>2, <2>5, <2>6, <2>7
<1>5. Types'
  BY <1>1, <1>3, <1>4 DEF Types, PlanStates, Points
<1>6. TargetInRange'
  <2>1. target \in Nat /\ target >= 2 /\ target <= Len(stages) + Cardinality(returned) + 1
    BY <1>1, <1>3 DEF TargetInRange, InLoops
  <2>2. Len(stages) \in Nat
    <3>1. stages \in Schedules
      BY <1>3 DEF Types
    <3> QED
      BY <3>1, ScheduleAssumption DEF WellFormed
  <2>3. target <= Len(stages) + Cardinality(returned')
    BY <1>4, <2>1, <2>2
  <2>4. target' = target /\ stages' = stages /\ InLoops'
    BY <1>1 DEF InLoops
  <2> QED
    BY <1>4, <2>1, <2>2, <2>3, <2>4 DEF TargetInRange
<1>7. InStages'
  BY <1>1, <1>3 DEF InStages, InLoops, UpTo, Of
<1>8. OneOfAModel'
  BY <1>1, <1>3 DEF OneOfAModel, InLoops, Single, Apart, Disjoint, ModelOf, Plan
<1>9. HaveGpus' /\ Exclusive'
  BY SMTT(30), <1>1, <1>3 DEF HaveGpus, InLoops, Marked, Exclusive
<1> QED
  BY <1>5, <1>6, <1>7, <1>8, <1>9 DEF Inv

LEMMA KeepPlanInv == Inv /\ KeepPlan => Inv'
<1> SUFFICES ASSUME Inv, KeepPlan PROVE Inv'
  OBVIOUS
<1>0. PICK p : p = Head(rest)
  OBVIOUS
<1>1. /\ pc = "keep" /\ rest # <<>> /\ rest' = Tail(rest)
      /\ \/ keep' = keep /\ older' = older
         \/ Stays(p) /\ keep' = Append(keep, p) /\ older' = older
         \/ ~Stays(p) /\ older' = Append(older, p) /\ keep' = keep
      /\ UNCHANGED <<mainVars, finished, cands, target, planVars, pc, launched,
                     newer, left, avail, nextStage, resultVars>>
  BY <1>0 DEF KeepPlan
<1>2. UNCHANGED <<stages, setting, returned, running, finished, cands, target, gpus, flagged, pc,
                  launched, newer, left, avail, nextStage, toStop, newLaunch>>
  BY <1>1 DEF mainVars, planVars, resultVars
<1>3. Types /\ TargetInRange /\ InStages /\ OneOfAModel /\ HaveGpus /\ Exclusive
  BY DEF Inv
<1>4. /\ rest \in Seq(PlanStates) /\ keep \in Seq(PlanStates) /\ older \in Seq(PlanStates)
      /\ stages \in Schedules /\ target \in Nat
  BY <1>3 DEF Types, TargetInRange
<1>5. /\ Single(rest) /\ Apart(keep, rest) /\ Disjoint(cands, rest) /\ Disjoint(cands, keep)
      /\ Single(keep) /\ \A k \in DOMAIN keep : Stays(keep[k])
      /\ UpTo(rest, target) /\ UpTo(keep, target) /\ UpTo(older, target - 1)
      /\ Marked(rest) /\ Marked(keep) /\ Marked(older)
  BY <1>1, <1>3 DEF OneOfAModel, InStages, HaveGpus, InLoops
<1>6. /\ p = rest[1] /\ 1 \in DOMAIN rest /\ Tail(rest) \in Seq(PlanStates) /\ p \in PlanStates
      /\ \A k \in DOMAIN Tail(rest) : k + 1 \in DOMAIN rest /\ Tail(rest)[k] = rest[k + 1] /\ k + 1 # 1
      /\ Part(Tail(rest), rest)
  BY <1>0, <1>1, <1>4, TailPart
<1>7. /\ Single(Tail(rest)) /\ UpTo(Tail(rest), target) /\ Marked(Tail(rest))
      /\ Apart(keep, Tail(rest)) /\ Disjoint(cands, Tail(rest))
  BY <1>5, <1>6, PartKeeps
<1>8. /\ \A k \in DOMAIN Tail(rest) : ModelOf(Tail(rest)[k]) # ModelOf(p)
      /\ \A k \in DOMAIN keep : ModelOf(keep[k]) # ModelOf(p)
      /\ \A k \in DOMAIN cands : cands[k] # p
      /\ p[1] <= target /\ p \in flagged
  BY <1>5, <1>6 DEF Single, Apart, Disjoint, UpTo, Marked
<1>9. /\ keep' \in Seq(PlanStates) /\ UpTo(keep', target) /\ Single(keep')
      /\ Apart(keep', Tail(rest)) /\ Disjoint(cands, keep')
      /\ (\A k \in DOMAIN keep' : Stays(keep'[k]))
      /\ Marked(keep')
  <2>1. CASE keep' = keep
    BY <1>4, <1>5, <1>7, <2>1
  <2>2. CASE Stays(p) /\ keep' = Append(keep, p)
    <3>1. /\ Append(keep, p) \in Seq(PlanStates) /\ UpTo(Append(keep, p), target)
          /\ Single(Append(keep, p)) /\ Apart(Append(keep, p), Tail(rest))
          /\ Disjoint(cands, Append(keep, p)) /\ Marked(Append(keep, p))
      BY <1>4, <1>5, <1>6, <1>7, <1>8, AppendKeeps
    <3>2. \A k \in DOMAIN Append(keep, p) : Stays(Append(keep, p)[k])
      <4>1. \A k \in DOMAIN Append(keep, p) :
               (k \in DOMAIN keep /\ Append(keep, p)[k] = keep[k]) \/ Append(keep, p)[k] = p
        BY <1>4, <1>6
      <4> QED
        BY <1>5, <2>2, <4>1
    <3> QED
      BY <2>2, <3>1, <3>2
  <2> QED
    BY <1>1, <2>1, <2>2
<1>10. older' \in Seq(PlanStates) /\ UpTo(older', target - 1) /\ Marked(older')
  <2>1. CASE older' = older
    BY <1>4, <1>5, <2>1
  <2>2. CASE ~Stays(p) /\ older' = Append(older, p)
    <3>1. p[1] <= target - 1
      <4>1. p[1] \in Nat
        BY <1>4, <1>6, PlanOf
      <4> QED
        BY <1>4, <2>2, <4>1 DEF Stays
    <3>2. /\ Append(older, p) \in Seq(PlanStates) /\ UpTo(Append(older, p), target - 1)
          /\ Marked(Append(older, p))
      BY <1>4, <1>5, <1>6, <1>8, <3>1, AppendKeeps
    <3> QED
      BY <2>2, <3>2
  <2> QED
    BY <1>1, <2>1, <2>2
<1>11. Types'
  BY <1>1, <1>2, <1>3, <1>6, <1>9, <1>10 DEF Types, PlanStates
<1>12. TargetInRange' /\ InStages'
  BY <1>1, <1>2, <1>3, <1>7, <1>9, <1>10 DEF TargetInRange, InStages, InLoops, UpTo, Of
<1>13. OneOfAModel'
  <2>1. (\A k \in DOMAIN keep : Stays(keep[k]))'
    BY <1>2, <1>9 DEF Stays, LastPlan, ModelOf, Plan
  <2>2. Single(running)' /\ Single(cands)' /\ Single(launched)'
    BY <1>1, <1>2, <1>3 DEF OneOfAModel, InLoops, Single, ModelOf, Plan
  <2>3. Single(keep)' /\ Single(rest)' /\ Apart(keep, rest)'
    BY <1>1, <1>2, <1>7, <1>9 DEF Single, Apart, ModelOf, Plan
  <2>4. Disjoint(cands, rest)' /\ Disjoint(cands, keep)'
    BY <1>1, <1>2, <1>7, <1>9 DEF Disjoint
  <2>5. pc' = "keep"
    BY <1>1
  <2> QED
    BY <2>1, <2>2, <2>3, <2>4, <2>5 DEF OneOfAModel, InLoops
<1>14. HaveGpus' /\ Exclusive'
  BY <1>1, <1>2, <1>3, <1>7, <1>9, <1>10 DEF HaveGpus, InLoops, Marked, UpTo, Exclusive
<1> QED
  BY <1>11, <1>12, <1>13, <1>14 DEF Inv

LEMMA KeptInv == Inv /\ Kept => Inv'
<1> SUFFICES ASSUME Inv, Kept PROVE Inv'
  OBVIOUS
<1>1. /\ pc = "keep" /\ rest = <<>> /\ pc' = "adopt" /\ nextStage' \in BOOLEAN
      /\ \/ rest' = cands
         \/ keep = <<>> /\ target <= Len(stages) /\ rest' = StagePlans(target)
         \/ rest' = <<>>
      /\ UNCHANGED <<mainVars, finished, cands, target, planVars, launched, keep,
                     older, newer, left, avail, resultVars>>
  <2>1. MayAdvance \in BOOLEAN
    BY DEF MayAdvance
  <2>2. /\ pc = "keep" /\ rest = <<>> /\ pc' = "adopt" /\ nextStage' = MayAdvance
        /\ rest' = CASE ~setting.barrier -> cands
                     [] setting.barrier /\ MayAdvance /\ target <= Len(stages) -> StagePlans(target)
                     [] OTHER -> <<>>
        /\ UNCHANGED <<mainVars, finished, cands, target, planVars, launched, keep,
                       older, newer, left, avail, resultVars>>
    BY DEF Kept
  <2>3. CASE ~setting.barrier
    <3>1. rest' = cands
      BY <2>2, <2>3
    <3> QED
      BY <2>1, <2>2, <3>1
  <2>4. CASE setting.barrier /\ MayAdvance /\ target <= Len(stages)
    <3>1. rest' = StagePlans(target) /\ keep = <<>>
      BY <2>2, <2>4 DEF MayAdvance
    <3> QED
      BY <2>1, <2>2, <2>4, <3>1
  <2>5. CASE setting.barrier /\ ~(MayAdvance /\ target <= Len(stages))
    <3>1. rest' = <<>>
      BY <2>2, <2>5
    <3> QED
      BY <2>1, <2>2, <3>1
  <2> QED
    BY <2>3, <2>4, <2>5
<1>2. UNCHANGED <<stages, setting, returned, running, finished, cands, target, gpus, flagged,
                  launched, keep, older, newer, left, avail, toStop, newLaunch>>
  BY <1>1 DEF mainVars, planVars, resultVars
<1>3. Types /\ TargetInRange /\ InStages /\ OneOfAModel /\ HaveGpus /\ Exclusive
  BY DEF Inv
<1>4. /\ stages \in Schedules /\ target \in Nat /\ target >= 2 /\ keep \in Seq(PlanStates)
      /\ cands \in Seq(PlanStates) /\ Of(cands, target) /\ Single(cands) /\ Disjoint(cands, keep)
      /\ newer = <<>> /\ UpTo(keep, target) /\ \A k \in DOMAIN keep : Stays(keep[k])
  BY <1>1, <1>3 DEF Types, TargetInRange, OneOfAModel, InStages, InLoops
<1>5. Apart(keep, cands)
  <2> SUFFICES ASSUME NEW k \in DOMAIN keep, NEW h \in DOMAIN cands,
                      ModelOf(keep[k]) = ModelOf(cands[h])
               PROVE  FALSE
    BY DEF Apart
  <2>1. /\ keep[k] \in PlanStates /\ cands[h] \in PlanStates /\ cands[h][1] = target
        /\ keep[k] # cands[h] /\ keep[k][1] <= target
    BY <1>4 DEF Of, Disjoint, UpTo
  <2>2. keep[k][1] \in Nat /\ cands[h][1] <= LastStage(stages, ModelOf(cands[h]))
    BY <1>4, <2>1, PlanOf
  <2>3. CASE keep[k][1] >= target
    <3>1. keep[k][1] = cands[h][1]
      BY <1>4, <2>1, <2>2, <2>3
    <3> QED
      BY <1>4, <2>1, <3>1, PlanOf
  <2>4. CASE LastPlan(keep[k]) /\ ~(keep[k][1] >= target)
    <3>1. keep[k][1] = LastStage(stages, ModelOf(cands[h]))
      BY <2>4 DEF LastPlan
    <3> QED
      BY <1>4, <2>1, <2>2, <2>4, <3>1
  <2> QED
    BY <1>4, <2>3, <2>4 DEF Stays
<1>6. /\ rest' \in Seq(PlanStates) /\ Of(rest', target) /\ Single(rest') /\ Apart(keep, rest')
  <2>1. CASE rest' = cands
    BY <1>4, <1>5, <2>1
  <2>2. CASE keep = <<>> /\ target <= Len(stages) /\ rest' = StagePlans(target)
    <3>1. target \in DOMAIN stages
      BY <1>4, <2>2, ScheduleAssumption DEF WellFormed
    <3>2. /\ StagePlans(target) \in Seq(PlanStates) /\ Of(StagePlans(target), target)
          /\ Single(StagePlans(target))
      BY <1>4, <3>1, StagePlansOf
    <3> QED
      BY <2>2, <3>2 DEF Apart
  <2>3. CASE rest' = <<>>
    BY <2>3 DEF Of, Single, Apart
  <2> QED
    BY <1>1, <2>1, <2>2, <2>3
<1>7. Types'
  BY <1>1, <1>2, <1>3, <1>6 DEF Types, PlanStates, Points
<1>8. TargetInRange' /\ InStages'
  BY <1>1, <1>2, <1>3, <1>4, <1>6 DEF TargetInRange, InStages, InLoops, UpTo, Of
<1>9. OneOfAModel'
  BY <1>1, <1>2, <1>3, <1>4, <1>6 DEF OneOfAModel, InLoops, Single, Apart, Disjoint, ModelOf, Plan
<1>10. HaveGpus' /\ Exclusive'
  BY <1>1, <1>2, <1>3, <1>6 DEF HaveGpus, InLoops, Marked, UpTo, Exclusive
<1> QED
  BY <1>7, <1>8, <1>9, <1>10 DEF Inv

LEMMA AdoptPlanInv == Inv /\ AdoptPlan => Inv'
<1> SUFFICES ASSUME Inv, AdoptPlan PROVE Inv'
  OBVIOUS
<1>0. PICK p : p = Head(rest)
  OBVIOUS
<1>1. /\ pc = "adopt" /\ rest # <<>> /\ rest' = Tail(rest)
      /\ \/ /\ flagged' = flagged \cup {p}
            /\ UNCHANGED <<keep, newer, gpus>>
         \/ /\ Sames(p) # {}
            /\ flagged' = flagged \cup {p}
            /\ keep' = Append(keep, p)
            /\ gpus' = [gpus EXCEPT ![p] = gpus[launched[Max(Sames(p))]]]
            /\ newer' = newer
         \/ /\ newer' = Append(newer, p)
            /\ UNCHANGED <<keep, planVars>>
      /\ UNCHANGED <<mainVars, finished, cands, target, pc, launched, older, left,
                     avail, nextStage, resultVars>>
  BY <1>0 DEF AdoptPlan
<1>2. UNCHANGED <<stages, setting, returned, running, finished, cands, target, pc,
                  launched, older, left, avail, nextStage, toStop, newLaunch>>
  BY <1>1 DEF mainVars, resultVars
<1>3. Types /\ TargetInRange /\ InStages /\ OneOfAModel /\ HaveGpus /\ Exclusive
  BY DEF Inv
<1>4. /\ rest \in Seq(PlanStates) /\ keep \in Seq(PlanStates) /\ newer \in Seq(PlanStates)
      /\ launched \in Seq(PlanStates) /\ running \in Seq(PlanStates)
      /\ stages \in Schedules /\ target \in Nat /\ flagged \subseteq PlanStates
      /\ gpus \in [States(stages) -> Seq(GPU)]
  BY <1>3 DEF Types, TargetInRange
<1>5. /\ Single(rest) /\ Apart(keep, rest) /\ Apart(newer, rest) /\ Single(newer) /\ Single(keep)
      /\ Of(rest, target) /\ UpTo(keep, target) /\ Of(newer, target)
      /\ Marked(keep) /\ Marked(running) /\ Marked(launched) /\ Marked(older)
      /\ launched = running \/ UpTo(running, target - 1)
      /\ Single(running)
  BY <1>1, <1>3 DEF OneOfAModel, InStages, HaveGpus, InLoops
<1>6. /\ p = rest[1] /\ 1 \in DOMAIN rest /\ Tail(rest) \in Seq(PlanStates) /\ p \in PlanStates
      /\ \A k \in DOMAIN Tail(rest) : k + 1 \in DOMAIN rest /\ Tail(rest)[k] = rest[k + 1] /\ k + 1 # 1
      /\ Part(Tail(rest), rest)
  BY <1>0, <1>1, <1>4, TailPart
<1>7. /\ Single(Tail(rest)) /\ Of(Tail(rest), target)
      /\ Apart(keep, Tail(rest)) /\ Apart(newer, Tail(rest))
  BY <1>5, <1>6, PartKeeps
<1>8. /\ \A k \in DOMAIN Tail(rest) : ModelOf(Tail(rest)[k]) # ModelOf(p)
      /\ \A k \in DOMAIN keep : ModelOf(keep[k]) # ModelOf(p)
      /\ \A k \in DOMAIN newer : ModelOf(newer[k]) # ModelOf(p)
      /\ p[1] = target /\ p[1] <= target
  BY <1>4, <1>5, <1>6 DEF Single, Apart, Of
<1>9. /\ flagged' \subseteq PlanStates /\ flagged \subseteq flagged'
      /\ keep' # keep => p \in flagged'
  BY <1>1, <1>4, <1>6 DEF planVars
<1>10. /\ keep' \in Seq(PlanStates) /\ UpTo(keep', target) /\ Single(keep')
       /\ Apart(keep', Tail(rest)) /\ \A k \in DOMAIN keep' : keep'[k] \in flagged'
  <2>1. CASE keep' = keep
    BY <1>4, <1>5, <1>7, <1>9, <2>1 DEF Marked
  <2>2. CASE keep' # keep
    <3>1. keep' = Append(keep, p)
      BY <1>1, <2>2
    <3>2. /\ Append(keep, p) \in Seq(PlanStates) /\ UpTo(Append(keep, p), target)
          /\ Single(Append(keep, p)) /\ Apart(Append(keep, p), Tail(rest))
      BY <1>4, <1>5, <1>6, <1>7, <1>8, AppendKeeps
    <3>3. \A k \in DOMAIN Append(keep, p) : Append(keep, p)[k] \in flagged'
      <4>1. \A k \in DOMAIN Append(keep, p) :
               (k \in DOMAIN keep /\ Append(keep, p)[k] = keep[k]) \/ Append(keep, p)[k] = p
        BY <1>4, <1>6
      <4> QED
        BY <1>5, <1>9, <2>2, <4>1 DEF Marked
    <3> QED
      BY <3>1, <3>2, <3>3
  <2> QED
    BY <2>1, <2>2
<1>11. newer' \in Seq(PlanStates) /\ Of(newer', target) /\ Single(newer') /\ Apart(newer', Tail(rest))
  <2>1. CASE newer' = newer
    BY <1>4, <1>5, <1>7, <2>1
  <2>2. CASE newer' = Append(newer, p)
    <3>1. /\ Append(newer, p) \in Seq(PlanStates) /\ Of(Append(newer, p), target)
          /\ Single(Append(newer, p)) /\ Apart(Append(newer, p), Tail(rest))
      BY <1>4, <1>5, <1>6, <1>7, <1>8, AppendKeeps
    <3> QED
      BY <2>2, <3>1
  <2> QED
    BY <1>1, <2>1, <2>2
<1>12. /\ gpus' \in [States(stages) -> Seq(GPU)]
       /\ \A k \in DOMAIN running : gpus'[running[k]] = gpus[running[k]]
  <2>1. CASE gpus' = gpus
    BY <1>4, <2>1
  <2>2. CASE Sames(p) # {} /\ gpus' = [gpus EXCEPT ![p] = gpus[launched[Max(Sames(p))]]]
    <3>1. PICK m : m = Max(Sames(p))
      OBVIOUS
    <3>2. m \in DOMAIN launched /\ Plan(launched[m]) = Plan(p)
      <4>1. Len(launched) \in Nat /\ Sames(p) \subseteq 0 .. Len(launched)
        BY <1>4 DEF Sames
      <4>2. m \in Sames(p)
        BY <2>2, <3>1, <4>1, MaxOf
      <4> QED
        BY <4>2 DEF Sames
    <3>3. p \in States(stages) /\ launched[m] \in States(stages)
      <4>1. launched[m] \in PlanStates
        BY <1>4, <3>2
      <4> QED
        BY <1>4, <1>6, <4>1, PlanOf
    <3>4. /\ gpus' \in [States(stages) -> Seq(GPU)] /\ gpus'[p] = gpus[launched[m]]
          /\ \A q \in States(stages) : q # p => gpus'[q] = gpus[q]
      BY <1>4, <2>2, <3>1, <3>3
    <3>5. ASSUME NEW k \in DOMAIN running PROVE gpus'[running[k]] = gpus[running[k]]
      <4>1. running[k] \in States(stages)
        <5>1. running[k] \in PlanStates
          BY <1>4
        <5> QED
          BY <1>4, <5>1, PlanOf
      <4>2. CASE running[k] # p
        BY <3>4, <4>1, <4>2
      <4>3. CASE running[k] = p
        <5>1. ~UpTo(running, target - 1)
          BY <1>4, <1>8, <4>3 DEF UpTo
        <5>2. launched = running
          BY <1>5, <5>1
        <5>3. m = k
          BY <1>5, <3>2, <4>3, <5>2 DEF Single, ModelOf
        <5> QED
          BY <3>4, <4>3, <5>2, <5>3
      <4> QED
        BY <4>2, <4>3
    <3> QED
      BY <3>4, <3>5
  <2> QED
    BY <1>1, <2>1, <2>2 DEF planVars
<1>13. Types'
  BY SMTT(30), <1>1, <1>2, <1>3, <1>6, <1>9, <1>10, <1>11, <1>12 DEF Types, PlanStates
<1>14. TargetInRange' /\ InStages'
  BY <1>1, <1>2, <1>3, <1>7, <1>10, <1>11 DEF TargetInRange, InStages, InLoops, UpTo, Of
<1>15. OneOfAModel'
  <2>1. (Single(running) /\ Single(cands) /\ Single(launched))' /\ pc' = "adopt"
    BY <1>1, <1>2, <1>3 DEF OneOfAModel, InLoops, Single, ModelOf, Plan
  <2>2. (Single(keep) /\ Single(rest) /\ Single(newer))'
    BY <1>1, <1>2, <1>7, <1>10, <1>11 DEF Single, ModelOf, Plan
  <2>3. (Apart(keep, rest) /\ Apart(newer, rest))'
    BY <1>1, <1>2, <1>10, <1>11 DEF Apart, ModelOf, Plan
  <2> QED
    BY <2>1, <2>2, <2>3 DEF OneOfAModel, InLoops
<1>16. HaveGpus'
  BY <1>1, <1>2, <1>3, <1>5, <1>9, <1>10 DEF HaveGpus, InLoops, Marked, UpTo
<1>17. Exclusive'
  BY <1>2, <1>3, <1>12 DEF Exclusive
<1> QED
  BY <1>13, <1>14, <1>15, <1>16, <1>17 DEF Inv

LEMMA AdoptedInv == Inv /\ Adopted => Inv'
<1> SUFFICES ASSUME Inv, Adopted PROVE Inv'
  OBVIOUS
<1>1. /\ pc = "adopt" /\ pc' = "load" /\ rest' = newer
      /\ avail' = Only([g \in 1 .. TotGpu |-> g - 1], GPU \ GpusIn(keep))
      /\ UNCHANGED <<mainVars, finished, cands, target, planVars, launched, keep,
                     older, newer, left, nextStage, resultVars>>
  BY DEF Adopted
<1>2. UNCHANGED <<stages, setting, returned, running, finished, cands, target, gpus, flagged,
                  launched, keep, older, newer, left, nextStage, toStop, newLaunch>>
  BY <1>1 DEF mainVars, planVars, resultVars
<1>3. Types /\ TargetInRange /\ InStages /\ OneOfAModel /\ HaveGpus /\ Exclusive
  BY DEF Inv
<1>4. avail' \in Seq(GPU)
  <2>1. [g \in 1 .. TotGpu |-> g - 1] \in Seq(GPU)
    <3>1. TotGpu \in Nat
      BY MachineAssumption
    <3> QED
      BY <3>1 DEF GPU
  <2> QED
    BY <1>1, <2>1, ListsOfGpus
<1>5. Types'
  BY <1>1, <1>2, <1>3, <1>4 DEF Types, PlanStates, Points
<1>6. TargetInRange' /\ InStages'
  BY <1>1, <1>2, <1>3 DEF TargetInRange, InStages, InLoops, UpTo, Of
<1>7. OneOfAModel'
  <2>1. (Single(running) /\ Single(cands) /\ Single(launched) /\ Single(keep))' /\ pc' = "load"
    BY <1>1, <1>2, <1>3 DEF OneOfAModel, InLoops, Single, ModelOf, Plan
  <2>2. (Single(rest))' /\ left' = <<>>
    BY <1>1, <1>2, <1>3 DEF OneOfAModel, InStages, Single, ModelOf, Plan
  <2>3. (Single(left) /\ Apart(left, rest) /\ Disjoint(left, keep))'
    BY <2>2 DEF Single, Apart, Disjoint
  <2> QED
    BY <2>1, <2>2, <2>3 DEF OneOfAModel, InLoops
<1>8. HaveGpus' /\ Exclusive'
  BY <1>1, <1>2, <1>3 DEF HaveGpus, InLoops, Marked, Exclusive
<1> QED
  BY <1>5, <1>6, <1>7, <1>8 DEF Inv

LEMMA LoadPlanInv == Inv /\ LoadPlan => Inv'
<1> SUFFICES ASSUME Inv, LoadPlan PROVE Inv'
  OBVIOUS
<1>0. PICK i, p : i = Pick /\ p = rest[i]
  OBVIOUS
<1>1. /\ pc \in {"load", "reload"} /\ rest # <<>> /\ rest' = RemoveAt(rest, i)
      /\ \/ UNCHANGED <<keep, avail, left, planVars>>
         \/ /\ ~Taken(p) /\ p \in flagged
            /\ keep' = Append(keep, p)
            /\ avail' = Only(avail, GPU \ ToSet(gpus[p]))
            /\ UNCHANGED <<left, planVars>>
         \/ /\ ~Taken(p) /\ p \notin flagged
            /\ keep' = Append(keep, p)
            /\ flagged' = flagged \cup {p}
            /\ gpus' = [gpus EXCEPT ![p] = FirstOf(avail, Size(p))]
            /\ avail' = SubSeq(avail, Size(p) + 1, Len(avail))
            /\ left' = left
         \/ /\ ~Taken(p)
            /\ left' = IF p \in flagged THEN left ELSE Append(left, p)
            /\ UNCHANGED <<keep, avail, planVars>>
      /\ UNCHANGED <<mainVars, finished, cands, target, pc, launched, older, newer,
                     nextStage, resultVars>>
  BY <1>0 DEF LoadPlan
<1>2. UNCHANGED <<stages, setting, returned, running, finished, cands, target, pc,
                  launched, older, newer, nextStage, toStop, newLaunch>>
  BY <1>1 DEF mainVars, resultVars
<1>3. Types /\ TargetInRange /\ InStages /\ OneOfAModel /\ HaveGpus /\ Exclusive
  BY DEF Inv
<1>4. /\ rest \in Seq(PlanStates) /\ keep \in Seq(PlanStates) /\ left \in Seq(PlanStates)
      /\ running \in Seq(PlanStates) /\ avail \in Seq(GPU) /\ setting \in Settings
      /\ stages \in Schedules /\ target \in Nat /\ flagged \subseteq PlanStates
      /\ gpus \in [States(stages) -> Seq(GPU)]
  BY <1>3 DEF Types, TargetInRange
<1>5. /\ Single(keep) /\ UpTo(keep, target) /\ Marked(keep) /\ Marked(running)
      /\ Single(left) /\ Of(left, target) /\ Disjoint(left, keep)
      /\ pc = "load" => Of(rest, target) /\ Single(rest) /\ Apart(left, rest)
      /\ pc = "reload" => UpTo(rest, target - 1) /\ Marked(rest)
  BY <1>1, <1>3 DEF OneOfAModel, InStages, HaveGpus, InLoops
<1>6. /\ i \in DOMAIN rest /\ p \in PlanStates /\ RemoveAt(rest, i) \in Seq(PlanStates)
      /\ Part(RemoveAt(rest, i), rest)
      /\ \A k \in DOMAIN RemoveAt(rest, i) : \E h \in DOMAIN rest : h # i /\ RemoveAt(rest, i)[k] = rest[h]
  <2>1. i \in DOMAIN rest
    BY <1>0, <1>1, <1>4, PickOf
  <2> QED
    BY <1>0, <1>4, <2>1, RemoveAtPart
<1>7. /\ pc = "load" => /\ Of(rest', target) /\ Single(rest') /\ Apart(left, rest')
                        /\ \A k \in DOMAIN rest' : ModelOf(rest'[k]) # ModelOf(p)
      /\ pc = "reload" => UpTo(rest', target - 1) /\ Marked(rest')
  <2>1. CASE pc = "load"
    <3>1. Of(rest, target) /\ Single(rest) /\ Apart(left, rest)
      BY <1>5, <2>1
    <3>2. /\ Of(RemoveAt(rest, i), target) /\ Single(RemoveAt(rest, i))
          /\ Apart(left, RemoveAt(rest, i))
      BY <1>6, <3>1, PartKeeps
    <3>3. \A k \in DOMAIN RemoveAt(rest, i) : ModelOf(RemoveAt(rest, i)[k]) # ModelOf(p)
      BY <1>0, <1>6, <3>1 DEF Single
    <3> QED
      BY <1>1, <2>1, <3>2, <3>3
  <2>2. CASE pc = "reload"
    <3>1. UpTo(RemoveAt(rest, i), target - 1) /\ Marked(RemoveAt(rest, i))
      BY <1>5, <1>6, <2>2, PartKeeps
    <3> QED
      BY <1>1, <2>2, <3>1
  <2> QED
    BY <1>1, <2>1, <2>2
<1>8. /\ p[1] \in Nat /\ p[1] <= target /\ Size(p) \in Nat /\ p \in States(stages)
      /\ pc = "load" => p[1] = target /\ \A k \in DOMAIN left : ModelOf(left[k]) # ModelOf(p)
      /\ pc = "reload" => p[1] <= target - 1 /\ p \in flagged
      /\ \A k \in DOMAIN left : left[k] # p
  <2>1. p[1] \in Nat /\ Size(p) \in Nat /\ p \in States(stages)
    BY <1>4, <1>6, PlanOf
  <2>2. pc = "load" => p[1] = target /\ \A k \in DOMAIN left : ModelOf(left[k]) # ModelOf(p)
    BY <1>0, <1>5, <1>6 DEF Of, Apart
  <2>3. pc = "reload" => p[1] <= target - 1 /\ p \in flagged
    BY <1>0, <1>5, <1>6 DEF UpTo, Marked
  <2>4. pc = "reload" => \A k \in DOMAIN left : left[k] # p
    BY <1>4, <1>5, <2>1, <2>3 DEF Of
  <2> QED
    BY <1>1, <1>4, <2>1, <2>2, <2>3, <2>4
<1>9. ~Taken(p) => \A k \in DOMAIN keep : ModelOf(keep[k]) # ModelOf(p) /\ keep[k] # p
  BY DEF Taken, ModelsIn
<1>10. /\ flagged' \subseteq PlanStates /\ flagged \subseteq flagged'
       /\ gpus' \in [States(stages) -> Seq(GPU)]
       /\ avail' \in Seq(GPU)
       /\ \A k \in DOMAIN running : gpus'[running[k]] = gpus[running[k]]
  <2>1. /\ Only(avail, GPU \ ToSet(gpus[p])) \in Seq(GPU)
        /\ FirstOf(avail, Size(p)) \in Seq(GPU)
        /\ SubSeq(avail, Size(p) + 1, Len(avail)) \in Seq(GPU)
    BY <1>4, <1>8, ListsOfGpus
  <2>2. CASE UNCHANGED planVars
    BY <1>1, <1>4, <2>1, <2>2 DEF planVars
  <2>3. CASE /\ p \notin flagged /\ flagged' = flagged \cup {p}
             /\ gpus' = [gpus EXCEPT ![p] = FirstOf(avail, Size(p))]
             /\ avail' = SubSeq(avail, Size(p) + 1, Len(avail))
    <3>1. \A k \in DOMAIN running : running[k] # p /\ running[k] \in States(stages)
      <4>1. \A k \in DOMAIN running : running[k] \in PlanStates /\ running[k] \in flagged
        BY <1>4, <1>5 DEF Marked
      <4> QED
        BY <1>4, <2>3, <4>1, PlanOf
    <3> QED
      BY <1>4, <1>6, <1>8, <2>1, <2>3, <3>1
  <2> QED
    BY <1>1, <2>2, <2>3
<1>11. /\ keep' \in Seq(PlanStates) /\ UpTo(keep', target) /\ Single(keep')
       /\ Disjoint(left, keep') /\ \A k \in DOMAIN keep' : keep'[k] \in flagged'
  <2>1. CASE keep' = keep
    BY <1>4, <1>5, <1>10, <2>1 DEF Marked
  <2>2. CASE keep' # keep
    <3>1. keep' = Append(keep, p) /\ ~Taken(p) /\ p \in flagged'
      BY <1>1, <2>2 DEF planVars
    <3>2. /\ Append(keep, p) \in Seq(PlanStates) /\ UpTo(Append(keep, p), target)
          /\ Single(Append(keep, p)) /\ Disjoint(left, Append(keep, p))
      BY <1>4, <1>5, <1>6, <1>8, <1>9, <3>1, AppendKeeps
    <3>3. \A k \in DOMAIN Append(keep, p) : Append(keep, p)[k] \in flagged'
      <4>1. \A k \in DOMAIN Append(keep, p) :
               (k \in DOMAIN keep /\ Append(keep, p)[k] = keep[k]) \/ Append(keep, p)[k] = p
        BY <1>4, <1>6
      <4> QED
        BY <1>5, <1>10, <3>1, <4>1 DEF Marked
    <3> QED
      BY <3>1, <3>2, <3>3
  <2> QED
    BY <2>1, <2>2
<1>12. /\ left' \in Seq(PlanStates) /\ Of(left', target) /\ Single(left') /\ Disjoint(left', keep')
       /\ pc = "load" => Apart(left', rest')
  <2>1. CASE left' = left
    BY <1>4, <1>5, <1>7, <1>11, <2>1
  <2>2. CASE left' # left
    <3>1. left' = Append(left, p) /\ ~Taken(p) /\ p \notin flagged /\ keep' = keep
      BY <1>1, <2>2
    <3>2. pc = "load"
      BY <1>1, <1>8, <3>1
    <3>3. /\ Append(left, p) \in Seq(PlanStates) /\ Of(Append(left, p), target)
          /\ Single(Append(left, p)) /\ Disjoint(Append(left, p), keep)
          /\ Apart(Append(left, p), rest')
      <4>1. p[1] = target /\ \A k \in DOMAIN left : ModelOf(left[k]) # ModelOf(p)
        BY <1>8, <3>2
      <4>2. \A k \in DOMAIN keep : keep[k] # p
        BY <1>9, <3>1
      <4>3. Apart(left, rest') /\ \A k \in DOMAIN rest' : ModelOf(rest'[k]) # ModelOf(p)
        BY <1>7, <3>2
      <4>4. /\ left \in Seq(PlanStates) /\ p \in PlanStates
            /\ Of(left, target) /\ Single(left) /\ Disjoint(left, keep)
        BY <1>4, <1>5, <1>6
      <4> QED
        BY ONLY <4>1, <4>2, <4>3, <4>4, AppendKeeps
    <3> QED
      BY <3>1, <3>3
  <2> QED
    BY <2>1, <2>2
<1>13. Types'
  BY <1>1, <1>2, <1>3, <1>6, <1>10, <1>11, <1>12 DEF Types, PlanStates
<1>14. TargetInRange' /\ InStages'
  BY <1>1, <1>2, <1>3, <1>7, <1>11, <1>12 DEF TargetInRange, InStages, InLoops, UpTo, Of
<1>15. OneOfAModel'
  <2>1. (Single(running) /\ Single(cands) /\ Single(launched))' /\ pc' = pc /\ pc \in {"load", "reload"}
    BY <1>1, <1>2, <1>3 DEF OneOfAModel, InLoops, Single, ModelOf, Plan
  <2>2. (Single(keep) /\ Single(left))'
    BY <1>1, <1>2, <1>11, <1>12 DEF Single, ModelOf, Plan
  <2>3. (Disjoint(left, keep))'
    BY <1>12 DEF Disjoint
  <2>4. pc = "load" => (Single(rest) /\ Apart(left, rest))'
    BY <1>1, <1>2, <1>7, <1>12 DEF Single, Apart, ModelOf, Plan
  <2> QED
    BY <2>1, <2>2, <2>3, <2>4 DEF OneOfAModel, InLoops
<1>16. HaveGpus'
  BY <1>1, <1>2, <1>3, <1>5, <1>7, <1>10, <1>11 DEF HaveGpus, InLoops, Marked, UpTo
<1>17. Exclusive'
  BY <1>2, <1>3, <1>10 DEF Exclusive
<1> QED
  BY <1>13, <1>14, <1>15, <1>16, <1>17 DEF Inv

LEMMA ReloadInv == Inv /\ (Reload \/ Reloaded) => Inv'
<1> SUFFICES ASSUME Inv, Reload \/ Reloaded PROVE Inv'
  OBVIOUS
<1>1. Types /\ TargetInRange /\ InStages /\ OneOfAModel /\ HaveGpus /\ Exclusive
  BY DEF Inv
<1>2. CASE Reload
  <2>1. /\ pc = "load" /\ pc' = "reload" /\ rest' = older
        /\ UNCHANGED <<stages, setting, returned, running, finished, cands, target, gpus, flagged,
                       launched, keep, older, newer, left, avail, nextStage, toStop, newLaunch>>
    BY <1>2 DEF Reload, mainVars, planVars, listVars, resultVars
  <2>2. Types'
    BY <1>1, <2>1 DEF Types, PlanStates, Points
  <2>3. TargetInRange' /\ InStages'
    BY <1>1, <2>1 DEF TargetInRange, InStages, InLoops, UpTo, Of
  <2>4. OneOfAModel'
    BY <1>1, <2>1 DEF OneOfAModel, InLoops, Single, Apart, Disjoint, ModelOf, Plan
  <2>5. HaveGpus' /\ Exclusive'
    BY <1>1, <2>1 DEF HaveGpus, InLoops, Marked, Exclusive
  <2> QED
    BY <2>2, <2>3, <2>4, <2>5 DEF Inv
<1>3. CASE Reloaded
  <2>1. /\ pc = "reload" /\ pc' = "place" /\ cands' = left
        /\ UNCHANGED <<stages, setting, returned, running, finished, target, gpus, flagged, rest,
                       launched, keep, older, newer, left, avail, nextStage, toStop, newLaunch>>
    BY <1>3 DEF Reloaded, mainVars, planVars, listVars, resultVars
  <2>2. Types'
    BY <1>1, <2>1 DEF Types, PlanStates, Points
  <2>3. InStages'
    BY <1>1, <2>1 DEF InStages, InLoops, UpTo, Of
  <2>4. TargetInRange'
    <3>1. target \in Nat /\ target <= Len(stages) + Cardinality(returned) + 0 /\ target >= 2
      BY <1>1, <2>1 DEF TargetInRange, InLoops
    <3>2. stages \in Schedules /\ returned \in SUBSET Model
      BY <1>1 DEF Types
    <3>3. Len(stages) \in Nat /\ Cardinality(returned) \in Nat
      BY <3>2, FiniteModels, ScheduleAssumption DEF WellFormed
    <3> QED
      BY <2>1, <3>1, <3>3 DEF TargetInRange, InLoops
  <2>5. OneOfAModel'
    BY <1>1, <2>1 DEF OneOfAModel, InLoops, Single, Apart, Disjoint, ModelOf, Plan
  <2>6. HaveGpus' /\ Exclusive'
    BY <1>1, <2>1 DEF HaveGpus, InLoops, Marked, Exclusive
  <2> QED
    BY <2>2, <2>3, <2>4, <2>5, <2>6 DEF Inv
<1> QED
  BY <1>2, <1>3

LEMMA AdvanceInv == Inv /\ Advance => Inv'
<1> SUFFICES ASSUME Inv, Advance PROVE Inv'
  OBVIOUS
<1>1. /\ pc = "load" /\ rest = <<>> /\ target' = target + 1
      /\ cands' = IF target < Len(stages) THEN StagePlans(target + 1) ELSE <<>>
      /\ \/ /\ target < Len(stages) /\ launched' = keep /\ rest' = keep
            /\ keep' = <<>> /\ older' = <<>> /\ newer' = <<>> /\ left' = <<>>
            /\ pc' = "keep" /\ UNCHANGED <<avail, nextStage>>
         \/ pc' = "place" /\ UNCHANGED <<rest, listVars>>
      /\ UNCHANGED <<mainVars, finished, planVars, resultVars>>
  BY DEF Advance, Enter
<1>2. UNCHANGED <<stages, setting, returned, running, finished, gpus, flagged, avail, nextStage,
                  toStop, newLaunch>>
  BY <1>1 DEF mainVars, planVars, listVars, resultVars
<1>3. Types /\ TargetInRange /\ InStages /\ OneOfAModel /\ HaveGpus /\ Exclusive
  BY DEF Inv
<1>4. /\ keep \in Seq(PlanStates) /\ stages \in Schedules /\ target \in Nat /\ target >= 2
      /\ Single(keep) /\ UpTo(keep, target) /\ Marked(keep) /\ UpTo(running, target)
      /\ returned \in SUBSET Model /\ target <= Len(stages) + Cardinality(returned) + 0
  BY <1>1, <1>3 DEF Types, TargetInRange, OneOfAModel, InStages, HaveGpus, InLoops
<1>5. Len(stages) \in Nat /\ Cardinality(returned) \in Nat /\ DOMAIN stages = 1 .. Len(stages)
  BY <1>4, FiniteModels, ScheduleAssumption DEF WellFormed
<1>6. /\ cands' \in Seq(PlanStates) /\ Of(cands', target + 1) /\ Single(cands')
  <2>1. CASE target < Len(stages)
    <3>1. target + 1 \in DOMAIN stages
      BY <1>4, <1>5, <2>1
    <3>2. /\ StagePlans(target + 1) \in Seq(PlanStates) /\ Of(StagePlans(target + 1), target + 1)
          /\ Single(StagePlans(target + 1))
      BY <1>4, <3>1, StagePlansOf
    <3> QED
      BY <1>1, <2>1, <3>2
  <2>2. CASE ~(target < Len(stages))
    BY <1>1, <2>2 DEF Of, Single
  <2> QED
    BY <2>1, <2>2
<1>7. /\ UpTo(keep, target + 1) /\ UpTo(running, target + 1) /\ (target + 1) - 1 = target
      /\ Disjoint(cands', keep) /\ Disjoint(cands', running)
  <2>1. \A q \in PlanStates : q[1] \in Nat
    BY <1>4, PlanOf
  <2>2. running \in Seq(PlanStates)
    BY <1>3 DEF Types
  <2>3. \A k \in DOMAIN keep : keep[k][1] \in Nat /\ keep[k][1] <= target
    BY <1>4, <2>1 DEF UpTo
  <2>4. \A k \in DOMAIN running : running[k][1] \in Nat /\ running[k][1] <= target
    BY <1>4, <2>1, <2>2 DEF UpTo
  <2>5. \A k \in DOMAIN cands' : cands'[k][1] = target + 1
    BY <1>6 DEF Of
  <2> QED
    BY <1>4, <2>3, <2>4, <2>5 DEF UpTo, Disjoint
<1>8. CASE pc' = "keep"
  <2>1. /\ target < Len(stages) /\ launched' = keep /\ rest' = keep
        /\ keep' = <<>> /\ older' = <<>> /\ newer' = <<>> /\ left' = <<>>
    BY <1>1, <1>8
  <2>2. Types'
    BY <1>2, <1>3, <1>4, <1>6, <1>8, <2>1 DEF Types, PlanStates, Points
  <2>3. TargetInRange'
    BY <1>1, <1>2, <1>4, <1>5, <1>8, <2>1 DEF TargetInRange, InLoops
  <2>4. InStages'
    BY <1>1, <1>2, <1>6, <1>7, <1>8, <2>1 DEF InStages, InLoops, UpTo, Of
  <2>5. OneOfAModel'
    BY <1>2, <1>3, <1>4, <1>6, <1>7, <1>8, <2>1
       DEF OneOfAModel, InLoops, Single, Apart, Disjoint, ModelOf, Plan
  <2>6. HaveGpus'
    <3>1. Marked(running) /\ \A k \in DOMAIN running : running[k][1] <= target' - 1
      BY <1>1, <1>3, <1>4, <1>7 DEF HaveGpus, UpTo
    <3> QED
      BY <1>2, <1>4, <1>8, <2>1, <3>1 DEF HaveGpus, InLoops, Marked, UpTo
  <2>7. Exclusive'
    BY <1>2, <1>3 DEF Exclusive
  <2> QED
    BY <2>2, <2>3, <2>4, <2>5, <2>6, <2>7 DEF Inv
<1>9. CASE pc' = "place"
  <2>1. UNCHANGED <<rest, launched, keep, older, newer, left>>
    BY <1>1, <1>9 DEF listVars
  <2>2. Types'
    BY <1>2, <1>3, <1>6, <1>9, <2>1 DEF Types, PlanStates, Points
  <2>3. TargetInRange'
    BY <1>1, <1>2, <1>4, <1>5, <1>9 DEF TargetInRange, InLoops
  <2>4. InStages'
    BY <1>1, <1>2, <1>6, <1>7, <1>9, <2>1 DEF InStages, InLoops, UpTo, Of
  <2>5. OneOfAModel'
    BY <1>2, <1>3, <1>4, <1>6, <1>7, <1>9, <2>1
       DEF OneOfAModel, InLoops, Single, Apart, Disjoint, ModelOf, Plan
  <2>6. HaveGpus' /\ Exclusive'
    BY <1>2, <1>3, <1>4, <1>9, <2>1 DEF HaveGpus, InLoops, Marked, Exclusive
  <2> QED
    BY <2>2, <2>3, <2>4, <2>5, <2>6 DEF Inv
<1> QED
  BY <1>1, <1>8, <1>9

LEMMA PlaceInv == Inv /\ Place => Inv'
<1> SUFFICES ASSUME Inv, Place PROVE Inv'
  OBVIOUS
<1>1. /\ pc = "place" /\ pc' = "start" /\ running' = keep
      /\ UNCHANGED <<stages, setting, returned, finished, cands, target, flagged, rest, listVars>>
  BY DEF Place
<1>2. UNCHANGED <<launched, keep, older, newer, left, avail, nextStage>>
  BY <1>1 DEF listVars
<1>3. PICK units \in SetToSeqs(FreeUnits) :
         /\ gpus' = Assignment(units).gpus
         /\ newLaunch' = (ToSet(keep) \ Stay) \cup Assignment(units).moved
         /\ toStop' = Dropped \cup {ModelOf(p) : p \in Assignment(units).moved}
  BY DEF Place
<1>4. Types /\ TargetInRange /\ InStages /\ OneOfAModel /\ HaveGpus /\ Exclusive
  BY DEF Inv
<1>5. /\ Single(keep) /\ Single(running) /\ UpTo(keep, target) /\ Marked(keep) /\ Disjoint(cands, keep)
      /\ keep \in Seq(PlanStates) /\ running \in Seq(PlanStates) /\ stages \in Schedules
  BY <1>1, <1>4 DEF OneOfAModel, InStages, HaveGpus, Types
<1>6. /\ gpus' \in [States(stages) -> Seq(GPU)]
      /\ Assignment(units).moved \subseteq Stay
      /\ \A p, q \in ToSet(keep) : p # q => ToSet(gpus'[p]) \cap ToSet(gpus'[q]) = {}
  BY <1>3, <1>4, <1>5, AssignmentOf
<1>7. newLaunch' \subseteq ToSet(keep) /\ toStop' \subseteq Model
  <2>1. \A p \in Stay : p \in ToSet(keep) /\ p \in PlanStates
    BY <1>5 DEF Stay, ToSet
  <2>2. \A k \in DOMAIN running : running[k] \in PlanStates
    BY <1>5
  <2>3. \A p \in PlanStates : ModelOf(p) \in Model
    BY <1>5, PlanOf
  <2>4. Dropped \subseteq Model
    BY <2>2, <2>3 DEF Dropped
  <2> QED
    BY <1>3, <1>6, <2>1, <2>3, <2>4
<1>8. Types'
  BY <1>1, <1>2, <1>4, <1>6, <1>7 DEF Types, PlanStates, Points
<1>9. TargetInRange' /\ InStages'
  BY <1>1, <1>2, <1>4, <1>5 DEF TargetInRange, InStages, InLoops, UpTo, Of
<1>10. OneOfAModel'
  BY <1>1, <1>2, <1>4, <1>5 DEF OneOfAModel, InLoops, Single, Apart, Disjoint, ModelOf, Plan
<1>11. HaveGpus'
  BY <1>1, <1>2, <1>5 DEF HaveGpus, InLoops, Marked
<1>12. Exclusive'
  <2> SUFFICES ASSUME NEW k \in DOMAIN keep, NEW h \in DOMAIN keep, k # h
               PROVE  ToSet(gpus'[keep[k]]) \cap ToSet(gpus'[keep[h]]) = {}
    BY <1>1 DEF Exclusive
  <2>1. keep[k] # keep[h]
    BY <1>5 DEF Single
  <2>2. keep[k] \in ToSet(keep) /\ keep[h] \in ToSet(keep)
    BY DEF ToSet
  <2> QED
    BY <1>6, <2>1, <2>2
<1> QED
  BY <1>8, <1>9, <1>10, <1>11, <1>12 DEF Inv

LEMMA StartInv == Inv /\ (NoUnitFree \/ Start \/ UNCHANGED vars) => Inv'
<1> SUFFICES ASSUME Inv, NoUnitFree \/ Start \/ UNCHANGED vars PROVE Inv'
  OBVIOUS
<1>1. /\ \/ pc = "place" /\ pc' = "noUnit"
         \/ pc = "start" /\ pc' \in {"failed", "end", "wait"}
         \/ pc' = pc
      /\ UNCHANGED <<stages, setting, returned, running, finished, cands, target, gpus, flagged, rest,
                     launched, keep, older, newer, left, avail, nextStage, toStop, newLaunch>>
  <2>1. CASE NoUnitFree
    BY <2>1 DEF NoUnitFree, mainVars, planVars, listVars, resultVars
  <2>2. CASE Start
    <3>1. pc' \in {"failed", "end", "wait"}
      BY <2>2, Zenon DEF Start
    <3> QED
      BY <2>2, <3>1 DEF Start, mainVars, planVars, listVars, resultVars
  <2>3. CASE UNCHANGED vars
    BY <2>3 DEF vars, mainVars, planVars, listVars, resultVars
  <2> QED
    BY <2>1, <2>2, <2>3
<1>2. Types /\ TargetInRange /\ InStages /\ OneOfAModel /\ HaveGpus /\ Exclusive
  BY DEF Inv
<1>3. Types'
  BY <1>1, <1>2 DEF Types, PlanStates, Points
<1>4. TargetInRange' /\ InStages'
  BY <1>1, <1>2 DEF TargetInRange, InStages, InLoops, UpTo, Of
<1>5. OneOfAModel'
  BY SMTT(30), <1>1, <1>2 DEF OneOfAModel, InLoops, Single, Apart, Disjoint, Stays, LastPlan, ModelOf, Plan
<1>6. HaveGpus' /\ Exclusive'
  BY <1>1, <1>2 DEF HaveGpus, InLoops, Marked, UpTo, Exclusive
<1> QED
  BY <1>3, <1>4, <1>5, <1>6 DEF Inv

----------------------------------------------------------------------------
LEMMA Inductive == Spec => []Inv
<1>1. Inv /\ [Next]_vars => Inv'
  <2> SUFFICES ASSUME Inv, [Next]_vars PROVE Inv'
    OBVIOUS
  <2>1. CASE \E m \in Model : Finish(m)
    BY <2>1, FinishInv
  <2>2. CASE Begin
    BY <2>2, BeginInv
  <2>3. CASE KeepPlan
    BY <2>3, KeepPlanInv
  <2>4. CASE Kept
    BY <2>4, KeptInv
  <2>5. CASE AdoptPlan
    BY <2>5, AdoptPlanInv
  <2>6. CASE Adopted
    BY <2>6, AdoptedInv
  <2>7. CASE LoadPlan
    BY <2>7, LoadPlanInv
  <2>8. CASE Reload \/ Reloaded
    BY <2>8, ReloadInv
  <2>9. CASE Advance
    BY <2>9, AdvanceInv
  <2>10. CASE Place
    BY <2>10, PlaceInv
  <2>11. CASE NoUnitFree \/ Start \/ UNCHANGED vars
    BY <2>11, StartInv
  <2>12. CASE Terminated
    BY <2>12, StartInv DEF Terminated
  <2> QED
    BY <2>1, <2>2, <2>3, <2>4, <2>5, <2>6, <2>7, <2>8, <2>9, <2>10, <2>11, <2>12 DEF Next, Round
<1> QED
  BY InitInv, <1>1, PTL DEF Spec

(* The lists of a round are lists of planned plan states, the target stage  *)
(* stays within a stage of the last one for every model that returned, and  *)
(* no list of GPUs names one the machine does not have.                     *)
THEOREM TypeCorrect == Spec => []TypeOK
<1>1. Inv => TypeOK
  <2> SUFFICES ASSUME Inv PROVE TypeOK
    OBVIOUS
  <2>1. Types /\ TargetInRange
    BY DEF Inv
  <2>2. stages \in Schedules /\ returned \in SUBSET Model /\ flagged \subseteq PlanStates
    BY <2>1 DEF Types
  <2>3. Len(stages) \in Nat
    BY <2>2, ScheduleAssumption DEF WellFormed
  <2>4. target \in 2 .. Len(stages) + Cardinality(Model) + 1
    <3>1. /\ Cardinality(returned) \in Nat /\ Cardinality(Model) \in Nat
          /\ Cardinality(returned) <= Cardinality(Model)
      BY <2>2, FiniteModels
    <3>2. target \in Nat /\ target >= 2 /\ target <= Len(stages) + Cardinality(returned) + 1
      <4>1. CASE InLoops
        BY <2>1, <2>3, <3>1, <4>1 DEF TargetInRange
      <4>2. CASE ~InLoops
        BY <2>1, <4>2 DEF TargetInRange
      <4> QED
        BY <4>1, <4>2
    <3> QED
      BY <2>3, <3>1, <3>2
  <2>5. flagged \subseteq States(stages)
    BY <2>2, PlanOf
  <2> QED
    BY <2>1, <2>4, <2>5 DEF TypeOK, Types, PlanStates
<1> QED
  BY Inductive, <1>1, PTL

(* When the models run, each has one plan, and no GPU is given to two of    *)
(* them, whatever finished while the round was computed and in whatever     *)
(* order the units were dealt out.                                          *)
THEOREM Exclusion == Spec => []GpusAreExclusive
<1>1. Inv => GpusAreExclusive
  BY DEF Inv, OneOfAModel, Exclusive, Single, GpusAreExclusive
<1> QED
  BY Inductive, <1>1, PTL

(* A round does not move a model that it does not stop.                     *)
THEOREM Untouched == Spec => UnstoppedIsUntouched
<1> DEFINE Moves ==
             pc = "place" /\ pc' = "start" =>
                \A k \in DOMAIN running : ModelOf(running[k]) \notin toStop' =>
                    \E h \in DOMAIN running' :
                        /\ Plan(running'[h]) = Plan(running[k])
                        /\ gpus'[running'[h]] = gpus[running[k]]
                        /\ running'[h] \notin newLaunch'
<1>1. Inv /\ [Next]_vars => [Moves]_vars
  <2> SUFFICES ASSUME Inv, Next, pc = "place", pc' = "start",
                      NEW k \in DOMAIN running, ModelOf(running[k]) \notin toStop'
               PROVE  \E h \in DOMAIN running' :
                        /\ Plan(running'[h]) = Plan(running[k])
                        /\ gpus'[running'[h]] = gpus[running[k]]
                        /\ running'[h] \notin newLaunch'
    OBVIOUS
  <2>1. Place
    BY DEF Next, Round, Begin, KeepPlan, Kept, AdoptPlan, Adopted, LoadPlan, Reload, Reloaded,
           Advance, NoUnitFree, Start, Finish, Terminated, vars
  <2>2. PICK units \in SetToSeqs(FreeUnits) :
           /\ gpus' = Assignment(units).gpus
           /\ newLaunch' = (ToSet(keep) \ Stay) \cup Assignment(units).moved
           /\ toStop' = Dropped \cup {ModelOf(p) : p \in Assignment(units).moved}
    BY <2>1 DEF Place
  <2>3. running' = keep
    BY <2>1 DEF Place
  <2>4. Types /\ Single(keep) /\ Single(running) /\ Exclusive
    BY DEF Inv, OneOfAModel
  <2>5. PICK h \in DOMAIN keep : Plan(keep[h]) = Plan(running[k])
    <3>1. ModelOf(running[k]) \notin Dropped
      BY <2>2
    <3>2. \E p \in ToSet(keep) : Plan(p) = Plan(running[k])
      BY <3>1 DEF Dropped
    <3> QED
      BY <3>2 DEF ToSet
  <2>6. PICK p : p = keep[h]
    OBVIOUS
  <2>7. p \in Stay /\ p \notin Assignment(units).moved
    <3>1. p \in Stay
      BY <2>5, <2>6 DEF Stay, Runs, ToSet
    <3>2. ModelOf(p) = ModelOf(running[k])
      BY <2>5, <2>6 DEF ModelOf
    <3> QED
      BY <2>2, <3>1, <3>2
  <2>8. gpus'[p] = OldGpus(p)
    BY <2>2, <2>4, <2>7, AssignmentOf
  <2>9. OldGpus(p) = gpus[running[k]]
    <3>1. PICK j \in DOMAIN running : Plan(running[j]) = Plan(p) /\ OldGpus(p) = gpus[running[j]]
      BY <2>4, <2>7, OldOf
    <3>2. j = k
      BY <2>4, <2>5, <2>6, <3>1 DEF Single, ModelOf
    <3> QED
      BY <3>1, <3>2
  <2>10. p \notin newLaunch'
    BY <2>2, <2>7
  <2> QED
    BY <2>3, <2>5, <2>6, <2>8, <2>9, <2>10
<1> QED
  BY Inductive, <1>1, PTL DEF Spec, UnstoppedIsUntouched
=============================================================================
