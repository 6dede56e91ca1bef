---------------------------- MODULE Queue_proofs ----------------------------
(***************************************************************************)
(* The queues of complete inputs, for every number of workers and every     *)
(* history of fetches, rebalancings and launches: what waits in a queue is  *)
(* what is at or behind the workers' positions, and the steps of get_seqs   *)
(* and run_vllm neither lose nor duplicate any of it.                       *)
(***************************************************************************)
EXTENDS Delivery, Communicator_proofs

USE DEF Node, Free, Model, DpId

----------------------------------------------------------------------------
(* Positions in a queue dealt out in strides.                               *)

(* The positions not read yet when worker d of n stands at st[d].           *)
Left(q, st, n) == {p \in 0 .. Len(q) - 1 : st[p % n] <= p}
Items(q, st, n) == {[pos |-> p, id |-> q[p + 1]] : p \in Left(q, st, n)}

(* The workers stand at positions congruent to them, and one of them moves  *)
(* past its slice.                                                          *)
Strides(st, n) == \A d \in 0 .. n - 1 : st[d] \in Nat /\ st[d] % n = d
Moved(q, st, new, n, d) ==
    /\ \A e \in (0 .. n - 1) \ {d} : new[e] = st[e]
    /\ new[d] = Advance(st[d], Len(Stride(q, st[d], n)), n)

(* Two positions of one residue are a whole number of rounds apart.         *)
LEMMA RoundsApart ==
    ASSUME NEW n \in Nat \ {0}, NEW a \in Nat, NEW b \in Nat, a <= b, a % n = b % n
    PROVE  \E k \in Nat : b = a + k * n
<1> DEFINE r == a % n
           i == a \div n
           j == b \div n
<1>1. i \in Nat /\ j \in Nat /\ r \in 0 .. n - 1
  BY DivBounds
<1>2. a = i * n + r /\ b = j * n + r
  OBVIOUS
<1> HIDE DEF r, i, j
<1>3. i <= j
  <2> SUFFICES ASSUME j < i PROVE FALSE
    BY <1>1
  <2>1. j * n <= i * n /\ (j + 1) * n <= i * n
    BY <1>1, Monotone
  <2>2. (j + 1) * n = j * n + n /\ j * n \in Nat /\ i * n \in Nat
    BY <1>1
  <2> QED
    BY <1>1, <1>2, <2>1, <2>2
<1>4. j - i \in Nat /\ j * n = i * n + (j - i) * n
  BY <1>1, <1>3
<1>5. i * n \in Nat /\ (j - i) * n \in Nat
  BY <1>1, <1>4
<1>6. b = a + (j - i) * n
  BY <1>1, <1>2, <1>4, <1>5
<1> QED
  BY <1>4, <1>6

(* Adding whole rounds keeps the residue.                                   *)
LEMMA SameResidue ==
    ASSUME NEW n \in Nat \ {0}, NEW a \in Nat, NEW k \in Nat
    PROVE  (a + k * n) % n = a % n
BY ModAdvance DEF Advance

(* seq[start::step] ends less than a step behind the end of seq.            *)
LEMMA StrideEnd ==
    ASSUME NEW q, q \in Seq(Id), NEW start \in Nat, NEW n \in Nat \ {0}
    PROVE  /\ StrideLen(q, start, n) \in Nat
           /\ start + StrideLen(q, start, n) * n >= Len(q)
           /\ start < Len(q) + n => start + StrideLen(q, start, n) * n < Len(q) + n
<1> DEFINE len == StrideLen(q, start, n)
           a == Len(q) - start + n - 1
<1>1. len \in Nat /\ Len(q) \in Nat
  BY StrideBounds
<1>2. CASE start >= Len(q)
  BY <1>1, <1>2 DEF StrideLen
<1>3. CASE start < Len(q)
  <2>1. a \in Nat /\ len = a \div n
    BY <1>1, <1>3 DEF StrideLen
  <2>2. len * n <= a /\ a < len * n + n
    <3> HIDE DEF a, len
    <3>1. a = (a \div n) * n + (a % n) /\ a % n \in 0 .. n - 1
      BY <2>1
    <3>2. (a \div n) * n \in Nat
      BY <2>1, DivBounds
    <3> QED
      BY <2>1, <3>1, <3>2
  <2>3. PICK x \in Nat : x = len * n
    BY <1>1
  <2>4. x <= a /\ a < x + n
    BY <2>2, <2>3
  <2>5. start + x >= Len(q) /\ (start < Len(q) + n => start + x < Len(q) + n)
    BY <1>1, <1>3, <2>4
  <2> QED
    BY <1>1, <2>3, <2>5
<1> QED
  BY <1>1, <1>2, <1>3

(* seq[start::step] has the positions from start on that are congruent.     *)
LEMMA StrideResidue ==
    ASSUME NEW q, q \in Seq(Id), NEW start \in Nat, NEW n \in Nat \ {0}
    PROVE  StridePositions(q, start, n)
             = {p \in 0 .. Len(q) - 1 : start <= p /\ p % n = start % n}
<1> DEFINE len == StrideLen(q, start, n)
           R == {p \in 0 .. Len(q) - 1 : start <= p /\ p % n = start % n}
<1>1. len \in Nat /\ Len(q) \in Nat
  BY StrideBounds
<1>2. ASSUME NEW k \in 0 .. len - 1 PROVE start + k * n \in R
  <2>1. k \in Nat /\ k * n \in Nat
    BY <1>1, <1>2
  <2>2. start + k * n \in 0 .. Len(q) - 1
    BY <1>2, StrideBounds
  <2>3. (start + k * n) % n = start % n
    BY <2>1, SameResidue
  <2> QED
    BY <2>1, <2>2, <2>3
<1>3. ASSUME NEW p \in R PROVE p \in StridePositions(q, start, n)
  <2>1. p \in Nat /\ p < Len(q) /\ start <= p /\ start % n = p % n
    BY <1>1
  <2>2. PICK k \in Nat : p = start + k * n
    BY <2>1, RoundsApart
  <2>3. k < len
    <3> SUFFICES ASSUME len <= k PROVE FALSE
      BY <1>1
    <3> HIDE DEF len
    <3>1. len * n <= k * n /\ len * n \in Nat /\ k * n \in Nat
      BY <1>1, Monotone
    <3>2. start + len * n >= Len(q)
      BY StrideEnd DEF len
    <3> QED
      BY <1>1, <2>1, <2>2, <3>1, <3>2
  <2>4. k \in 0 .. len - 1
    BY <1>1, <2>3
  <2> QED
    BY <2>2, <2>4 DEF StridePositions
<1> QED
  BY <1>2, <1>3 DEF StridePositions

(* What the strides of all workers leave is what lies past their positions. *)
LEMMA RemainingItems ==
    ASSUME NEW q, q \in Seq(Id), NEW n \in Nat \ {0},
           NEW st, Strides(st, n)
    PROVE  UNION {{[pos |-> p, id |-> q[p + 1]] : p \in StridePositions(q, st[d], n)} :
                  d \in 0 .. n - 1} = Items(q, st, n)
<1> DEFINE P(d) == StridePositions(q, st[d], n)
<1>1. \A d \in 0 .. n - 1 :
         P(d) = {p \in 0 .. Len(q) - 1 : st[d] <= p /\ p % n = d}
  BY StrideResidue DEF Strides
<1>2. \A p \in 0 .. Len(q) - 1 : p % n \in 0 .. n - 1
  OBVIOUS
<1> HIDE DEF P
<1>3. \A p : p \in Left(q, st, n) <=> \E d \in 0 .. n - 1 : p \in P(d)
  BY <1>1, <1>2 DEF Left
<1>4. UNION {{[pos |-> p, id |-> q[p + 1]] : p \in P(d)} : d \in 0 .. n - 1} = Items(q, st, n)
  <2> DEFINE U == UNION {{[pos |-> p, id |-> q[p + 1]] : p \in P(d)} : d \in 0 .. n - 1}
  <2>1. \A x : x \in U <=> \E d \in 0 .. n - 1 : \E p \in P(d) : x = [pos |-> p, id |-> q[p + 1]]
    OBVIOUS
  <2>2. \A x : x \in Items(q, st, n) <=> \E p \in Left(q, st, n) : x = [pos |-> p, id |-> q[p + 1]]
    BY Zenon DEF Items
  <2> HIDE DEF U
  <2>3. \A x : x \in U <=> x \in Items(q, st, n)
    BY <1>3, <2>1, <2>2, Zenon
  <2>4. U = Items(q, st, n)
    BY <2>3
  <2> QED
    BY <2>4 DEF U
<1> QED
  BY <1>4 DEF P

(* After the positions of _reset_state_for_model, everything is left.       *)
LEMMA FreshLeft ==
    ASSUME NEW q, q \in Seq(Id), NEW n \in 1 .. MaxDP
    PROVE  Left(q, FreshStarts, n) = 0 .. Len(q) - 1
<1>1. n \in Nat \ {0} /\ Len(q) \in Nat
  BY BoundAssumption
<1>2. \A p \in 0 .. Len(q) - 1 : p % n \in 0 .. n - 1 /\ p % n <= p
  BY <1>1
<1>3. \A d \in 0 .. n - 1 : FreshStarts[d] = d
  BY BoundAssumption DEF FreshStarts
<1> QED
  BY <1>2, <1>3 DEF Left

(* The slice of worker d takes exactly the positions congruent to d.        *)
LEMMA SliceLeft ==
    ASSUME NEW q, q \in Seq(Id), NEW n \in Nat \ {0}, NEW d \in 0 .. n - 1,
           NEW st, Strides(st, n), NEW new, Moved(q, st, new, n, d)
    PROVE  /\ Left(q, new, n) \subseteq Left(q, st, n)
           /\ Range(Stride(q, st[d], n))
                = {q[p + 1] : p \in Left(q, st, n) \ Left(q, new, n)}
<1> DEFINE s == st[d]
           len == StrideLen(q, s, n)
<1> USE DEF Strides, Moved
<1>0. s \in Nat /\ len \in Nat /\ Len(q) \in Nat
  <2>1. PICK a \in Nat : a = st[d]
    OBVIOUS
  <2>2. StrideLen(q, a, n) \in Nat
    BY StrideEnd
  <2> QED
    BY <2>1, <2>2
<1>1. StridePositions(q, s, n) = {p \in 0 .. Len(q) - 1 : s <= p /\ p % n = d}
  BY StrideResidue
<1>2. StridePositions(q, s, n) = {p \in Left(q, st, n) : p % n = d}
  BY <1>1 DEF Left
<1>3. DOMAIN Stride(q, s, n) = 1 .. len /\ Len(Stride(q, s, n)) = len
  <2> HIDE DEF len
  <2>1. DOMAIN [k \in 1 .. len |-> q[s + (k - 1) * n + 1]] = 1 .. len
    OBVIOUS
  <2>2. Len([k \in 1 .. len |-> q[s + (k - 1) * n + 1]]) = len
    BY <1>0
  <2> QED
    BY <2>1, <2>2 DEF Stride, len
<1>4. Range(Stride(q, s, n)) = {q[p + 1] : p \in StridePositions(q, s, n)}
  <2> HIDE DEF s
  <2>1. ASSUME NEW k \in 1 .. len
        PROVE  /\ k - 1 \in 0 .. len - 1
               /\ Stride(q, s, n)[k] = q[(s + (k - 1) * n) + 1]
    BY <1>0, <2>1 DEF Stride
  <2>2. ASSUME NEW k \in 0 .. len - 1
        PROVE  /\ k + 1 \in 1 .. len
               /\ Stride(q, s, n)[k + 1] = q[(s + k * n) + 1]
    <3>1. k + 1 \in 1 .. len /\ (k + 1) - 1 = k
      BY <1>0, <2>2
    <3> QED
      BY <2>1, <3>1
  <2> HIDE DEF len
  <2>3. Range(Stride(q, s, n)) = {Stride(q, s, n)[k] : k \in 1 .. len}
    BY <1>3 DEF Range
  <2>4. StridePositions(q, s, n) = {s + k * n : k \in 0 .. len - 1}
    BY DEF StridePositions, len
  <2>5. \A x : (\E k \in 1 .. len : x = Stride(q, s, n)[k])
                 <=> \E p \in StridePositions(q, s, n) : x = q[p + 1]
    BY <2>1, <2>2, <2>4, ZenonT(60)
  <2> QED
    BY <2>3, <2>5, Zenon
<1>5. ASSUME NEW p \in 0 .. Len(q) - 1
      PROVE  new[p % n] <= p <=> st[p % n] <= p /\ p % n # d
  <2>1. p % n \in 0 .. n - 1 /\ p \in Nat /\ p < Len(q)
    BY <1>0
  <2>2. CASE p % n # d
    BY <2>1, <2>2
  <2>3. CASE p % n = d
    <3>1. new[d] = s + len * n
      BY <1>3 DEF Advance
    <3>2. PICK x \in Nat : x = len * n
      BY <1>0
    <3>3. s + x >= Len(q)
      BY <1>0, <3>2, StrideEnd
    <3>4. st[d] = s
      OBVIOUS
    <3> HIDE DEF s, len
    <3>5. new[p % n] = s + x /\ st[p % n] = s
      BY <2>3, <3>1, <3>2, <3>4
    <3>6. p < s + x
      BY <1>0, <2>1, <3>2, <3>3
    <3> QED
      BY <1>0, <2>1, <2>3, <3>2, <3>5, <3>6
  <2> QED
    BY <2>2, <2>3
<1>6. Left(q, new, n) = {p \in Left(q, st, n) : p % n # d}
  BY <1>5 DEF Left
<1>7. StridePositions(q, s, n) = Left(q, st, n) \ Left(q, new, n)
  BY <1>2, <1>6
<1> QED
  BY <1>4, <1>6, <1>7

----------------------------------------------------------------------------
(* Sets of queued requests and the queues made of them.                     *)

Distinct(S) == \A x, y \in S : x.id = y.id => x = y
IdsOf(S) == {x.id : x \in S}

(* A listing of a finite set has every element once.                        *)
LEMMA ListingAll ==
    ASSUME NEW S, IsFiniteSet(S), NEW f, f \in Listings(S)
    PROVE  /\ Cardinality(S) \in Nat
           /\ f \in [1 .. Cardinality(S) -> S]
           /\ \A j, k \in 1 .. Cardinality(S) : f[j] = f[k] => j = k
           /\ \A x \in S : \E k \in 1 .. Cardinality(S) : f[k] = x
<1> DEFINE n == Cardinality(S)
<1>1. n \in Nat
  BY FS_CardinalityType
<1>2. f \in Injection(1 .. n, S)
  BY DEF Listings
<1>3. Cardinality(1 .. n) = n
  BY <1>1, FS_Interval
<1>4. f \in Surjection(1 .. n, S)
  BY <1>2, <1>3, FS_Injection
<1> QED
  BY <1>1, <1>2, <1>4 DEF Injection, Surjection, IsInjective

(* The ids of a listing are the ids of the set, once each if they differ.   *)
LEMMA ListingIds ==
    ASSUME NEW S, IsFiniteSet(S), \A x \in S : x.id \in Id, NEW f, f \in Listings(S)
    PROVE  /\ Ids(f) \in Seq(Id)
           /\ Len(Ids(f)) = Cardinality(S)
           /\ Range(Ids(f)) = IdsOf(S)
           /\ Distinct(S) => IsInjective(Ids(f))
<1> DEFINE n == Cardinality(S)
<1>1. /\ n \in Nat
      /\ f \in [1 .. n -> S]
      /\ \A j, k \in 1 .. n : f[j] = f[k] => j = k
      /\ \A x \in S : \E k \in 1 .. n : f[k] = x
  BY ListingAll
<1>2. Ids(f) = [k \in 1 .. n |-> f[k].id]
  BY <1>1 DEF Ids
<1> HIDE DEF n
<1>3. Ids(f) \in Seq(Id) /\ Len(Ids(f)) = n /\ DOMAIN Ids(f) = 1 .. n
  BY <1>1, <1>2
<1>4. Range(Ids(f)) = IdsOf(S)
  BY <1>1, <1>2 DEF Range, IdsOf
<1>5. Distinct(S) => IsInjective(Ids(f))
  BY <1>1, <1>2 DEF Distinct, IsInjective
<1> QED
  BY <1>3, <1>4, <1>5 DEF n

(* What waits in a queue is a finite set of requests.                       *)
LEMMA ItemsType ==
    ASSUME NEW q, q \in Seq(Id), NEW st, NEW n
    PROVE  /\ IsFiniteSet(Items(q, st, n))
           /\ \A x \in Items(q, st, n) : x.id \in Id
<1> DEFINE L == Left(q, st, n)
           f == [p \in L |-> [pos |-> p, id |-> q[p + 1]]]
<1>1. Len(q) \in Nat /\ L \subseteq 0 .. Len(q) - 1
  BY DEF Left
<1>2. IsFiniteSet(L)
  <2>1. IsFiniteSet(0 .. Len(q) - 1)
    BY <1>1, FS_Interval
  <2> HIDE DEF L
  <2> QED
    BY <1>1, <2>1, FS_Subset
<1>3. f \in Surjection(L, Items(q, st, n))
  BY DEF Surjection, Items
<1>4. IsFiniteSet(Items(q, st, n))
  BY <1>2, <1>3, FS_Surjection
<1>5. \A x \in Items(q, st, n) : x.id \in Id
  BY <1>1 DEF Items
<1> QED
  BY <1>4, <1>5

(* The requests waiting in a queue, by their positions.                     *)
LEMMA ItemsIds ==
    ASSUME NEW q, NEW st, NEW n
    PROVE  /\ IdsOf(Items(q, st, n)) = {q[p + 1] : p \in Left(q, st, n)}
           /\ Distinct(Items(q, st, n)) <=>
                 \A p, r \in Left(q, st, n) : q[p + 1] = q[r + 1] => p = r
<1> DEFINE item(p) == [pos |-> p, id |-> q[p + 1]]
<1>1. \A p : item(p).id = q[p + 1] /\ item(p).pos = p
  OBVIOUS
<1>2. \A p, r : item(p) = item(r) => p = r
  BY <1>1
<1> HIDE DEF item
<1>3. \A L : {x.id : x \in {item(p) : p \in L}} = {q[p + 1] : p \in L}
  BY <1>1
<1>4. \A L : (\A x, y \in {item(p) : p \in L} : x.id = y.id => x = y)
              <=> \A p, r \in L : q[p + 1] = q[r + 1] => p = r
  BY <1>1, <1>2
<1>5. Items(q, st, n) = {item(p) : p \in Left(q, st, n)}
  BY DEF Items, item
<1> QED
  BY <1>3, <1>4, <1>5 DEF IdsOf, Distinct

(* The slice of worker d takes its requests out of those waiting.           *)
LEMMA SliceItems ==
    ASSUME NEW q, q \in Seq(Id), NEW n \in Nat \ {0}, NEW d \in 0 .. n - 1,
           NEW st, Strides(st, n), NEW new, Moved(q, st, new, n, d)
    PROVE  Distinct(Items(q, st, n)) =>
              /\ Range(Stride(q, st[d], n)) \subseteq IdsOf(Items(q, st, n))
              /\ IdsOf(Items(q, new, n))
                   = IdsOf(Items(q, st, n)) \ Range(Stride(q, st[d], n))
              /\ Distinct(Items(q, new, n))
<1>0. Left(q, new, n) \subseteq Left(q, st, n)
  BY SliceLeft
<1>1. Range(Stride(q, st[d], n)) = {q[p + 1] : p \in Left(q, st, n) \ Left(q, new, n)}
  BY SliceLeft
<1> HAVE Distinct(Items(q, st, n))
<1>2. /\ \A p, r \in Left(q, st, n) : q[p + 1] = q[r + 1] => p = r
      /\ IdsOf(Items(q, st, n)) = {q[p + 1] : p \in Left(q, st, n)}
  BY ItemsIds
<1>3. \A p, r \in Left(q, new, n) : q[p + 1] = q[r + 1] => p = r
  BY <1>0, <1>2
<1>4. /\ IdsOf(Items(q, new, n)) = {q[p + 1] : p \in Left(q, new, n)}
      /\ Distinct(Items(q, new, n))
  BY <1>3, ItemsIds
<1> QED
  BY <1>0, <1>1, <1>2, <1>4

(* In a fresh queue everything waits.                                       *)
LEMMA FreshItems ==
    ASSUME NEW q, q \in Seq(Id), IsInjective(q), NEW n \in 1 .. MaxDP
    PROVE  /\ IdsOf(Items(q, FreshStarts, n)) = Range(q)
           /\ Distinct(Items(q, FreshStarts, n))
<1>1. Left(q, FreshStarts, n) = 0 .. Len(q) - 1 /\ Len(q) \in Nat /\ DOMAIN q = 1 .. Len(q)
  BY FreshLeft
<1>2. Items(q, FreshStarts, n) = {[pos |-> p, id |-> q[p + 1]] : p \in 0 .. Len(q) - 1}
  BY <1>1 DEF Items
<1>3. \A p \in 0 .. Len(q) - 1 : p + 1 \in DOMAIN q
  BY <1>1
<1>4. \A k \in DOMAIN q : k - 1 \in 0 .. Len(q) - 1 /\ (k - 1) + 1 = k
  BY <1>1
<1>5. IdsOf(Items(q, FreshStarts, n)) = Range(q)
  <2>1. IdsOf(Items(q, FreshStarts, n)) = {q[p + 1] : p \in 0 .. Len(q) - 1}
    BY <1>1, ItemsIds
  <2> QED
    BY <1>1, <1>3, <1>4, <2>1 DEF Range
<1>6. Distinct(Items(q, FreshStarts, n))
  BY <1>1, <1>2, <1>3 DEF Distinct, IsInjective
<1> QED
  BY <1>5, <1>6

----------------------------------------------------------------------------
(* The queue of a base model, seen through the positions of its workers.    *)

QueueView ==
    \A m \in Base :
        /\ dp[OwnerOf(m)] \in 0 .. MaxDP
        /\ queue[m] \in Seq(Id)
        /\ IsFiniteSet(Waiting(m)) /\ \A x \in Waiting(m) : x.id \in Id
        /\ dp[OwnerOf(m)] = 0 => Waiting(m) = {}
        /\ dp[OwnerOf(m)] # 0 => /\ dp[OwnerOf(m)] \in Nat \ {0}
                                 /\ dp[OwnerOf(m)] \in 1 .. MaxDP
                                 /\ Strides(starts[m], dp[OwnerOf(m)])
                                 /\ Waiting(m) = Items(queue[m], starts[m], dp[OwnerOf(m)])

(* The aligned positions say what is waiting.                               *)
LEMMA QueueViewed == IInv /\ StrideInv => QueueView
<1> SUFFICES ASSUME IInv, StrideInv, NEW m \in Base, NEW n, n = dp[OwnerOf(m)]
             PROVE  /\ n \in 0 .. MaxDP
                    /\ queue[m] \in Seq(Id)
                    /\ IsFiniteSet(Waiting(m)) /\ \A x \in Waiting(m) : x.id \in Id
                    /\ n = 0 => Waiting(m) = {}
                    /\ n # 0 => /\ n \in Nat \ {0}
                                /\ n \in 1 .. MaxDP
                                /\ Strides(starts[m], n)
                                /\ Waiting(m) = Items(queue[m], starts[m], n)
  BY DEF QueueView
<1>1. n \in 0 .. MaxDP /\ queue[m] \in Seq(Id) /\ starts[m] \in [0 .. MaxDP - 1 -> Nat]
  BY OwnerType DEF IInv, TypeOK
<1>2. CASE n = 0
  <2>1. Waiting(m) = {}
    BY <1>2 DEF Waiting, Remaining
  <2> QED
    BY <1>1, <1>2, <2>1, FS_EmptySet
<1>3. CASE n # 0
  <2>1. n \in Nat \ {0} /\ n \in 1 .. MaxDP /\ \A d \in 0 .. n - 1 : d \in 0 .. MaxDP - 1
    BY <1>1, <1>3, BoundAssumption
  <2>2. Strides(starts[m], n)
    BY <1>1, <2>1 DEF Strides, StrideInv
  <2>3. Waiting(m) = Items(queue[m], starts[m], n)
    BY <1>1, <2>1, <2>2, RemainingItems DEF Waiting, Remaining
  <2>4. IsFiniteSet(Waiting(m)) /\ \A x \in Waiting(m) : x.id \in Id
    BY <1>1, <2>3, ItemsType
  <2> QED
    BY <1>1, <1>3, <2>1, <2>2, <2>3, <2>4
<1> QED
  BY <1>2, <1>3

(* A fresh queue has the requests that were waiting, each once.             *)
LEMMA RequeuedAll ==
    ASSUME QueueView, NEW m \in Base, Distinct(Waiting(m)),
           NEW q \in Requeued(m, dp[OwnerOf(m)])
    PROVE  q \in Seq(Id) /\ IsInjective(q) /\ Range(q) = IdsOf(Waiting(m))
<1>1. PICK f \in SortedListings(Waiting(m)) : q = Ids(f)
  BY DEF Requeued, Waiting
<1>2. f \in Listings(Waiting(m))
  BY DEF SortedListings
<1>3. IsFiniteSet(Waiting(m)) /\ \A x \in Waiting(m) : x.id \in Id
  BY DEF QueueView
<1> QED
  BY <1>1, <1>2, <1>3, ListingIds

(* What is waiting when a model's queue is q and read from the start.       *)
LEMMA FreshWaiting ==
    ASSUME QueueView', NEW m \in Base, dp'[OwnerOf(m)] # 0,
           NEW q, q \in Seq(Id), IsInjective(q),
           queue'[m] = q, starts'[m] = FreshStarts
    PROVE  IdsOf(Waiting(m)') = Range(q) /\ Distinct(Waiting(m)')
<1>1. /\ dp'[OwnerOf(m)] \in 1 .. MaxDP
      /\ Waiting(m)' = Items(q, FreshStarts, dp'[OwnerOf(m)])
  BY DEF QueueView, OwnerOf
<1> QED
  BY <1>1, FreshItems

(* A queue whose state does not change keeps what is waiting in it.         *)
LEMMA SameWaiting ==
    ASSUME NEW m \in Base, queue'[m] = queue[m], starts'[m] = starts[m],
           dp'[OwnerOf(m)] = dp[OwnerOf(m)]
    PROVE  Waiting(m)' = Waiting(m)
BY DEF Waiting, Remaining, OwnerOf

----------------------------------------------------------------------------
(* What get_seqs_base_model takes out of the queue.                         *)

TightAt(q, st, n) == \A d \in 0 .. n - 1 : st[d] < Len(q) + n

(* The start positions are aligned and within the first round.              *)
LEMMA FreshTight ==
    ASSUME NEW q, q \in Seq(Id), NEW n \in 1 .. MaxDP
    PROVE  Strides(FreshStarts, n) /\ TightAt(q, FreshStarts, n)
<1>1. n \in Nat \ {0} /\ n \in 0 .. MaxDP /\ Len(q) \in Nat
  BY BoundAssumption
<1>2. \A d \in 0 .. n - 1 : d \in Nat /\ FreshStarts[d] = d /\ FreshStarts[d] % n = d
  <2>1. \A d \in 0 .. n - 1 : d \in Nat /\ d \in 0 .. MaxDP - 1
    BY <1>1, BoundAssumption
  <2>2. \A d \in 0 .. n - 1 : FreshStarts[d] = d
    BY <2>1 DEF FreshStarts
  <2>3. \A d \in 0 .. n - 1 : FreshStarts[d] % n = d
    BY <1>1, FreshStride
  <2> QED
    BY <2>1, <2>2, <2>3
<1> QED
  BY <1>1, <1>2 DEF Strides, TightAt

(* A worker that takes its slice stays within a round of the end.           *)
LEMMA MovedTight ==
    ASSUME NEW q, q \in Seq(Id), NEW n \in Nat \ {0}, NEW d \in 0 .. n - 1,
           NEW st, Strides(st, n), NEW new, Moved(q, st, new, n, d),
           TightAt(q, st, n)
    PROVE  TightAt(q, new, n)
<1> SUFFICES ASSUME NEW e \in 0 .. n - 1 PROVE new[e] < Len(q) + n
  BY DEF TightAt
<1>1. st[e] < Len(q) + n /\ st[e] \in Nat
  BY DEF TightAt, Strides
<1>2. CASE e # d
  BY <1>1, <1>2 DEF Moved
<1>3. CASE e = d
  <2>1. PICK a \in Nat : a = st[d] /\ a < Len(q) + n
    BY <1>1, <1>3
  <2>2. a + StrideLen(q, a, n) * n < Len(q) + n /\ StrideLen(q, a, n) \in Nat
    BY <2>1, StrideEnd
  <2>3. Len(Stride(q, a, n)) = StrideLen(q, a, n)
    BY <2>2 DEF Stride
  <2> QED
    BY <1>3, <2>1, <2>2, <2>3 DEF Moved, Advance
<1> QED
  BY <1>2, <1>3

(* What an action that returns from get_seqs_base_model for m does to the   *)
(* queue of m: it hands out T, which no longer waits.                       *)
Hands(m, T) ==
    /\ T \in SUBSET Id
    /\ T \subseteq IdsOf(Waiting(m))
    /\ IdsOf(Waiting(m)') = IdsOf(Waiting(m)) \ T
    /\ Distinct(Waiting(m)')
    /\ TightAt(queue'[m], starts'[m], dp[OwnerOf(m)])

(* The slice read before is still the worker's slice.                       *)
LEMMA TakeSliceHands ==
    ASSUME QueueView, QueueView', CallState, NEW w \in Worker, TakeSlice(w),
           NEW m \in Base, m = Current(w), OwnerOf(m) = Model(w), TypeOK,
           NEW n \in Nat \ {0}, n = dp[OwnerOf(m)], dp' = dp,
           NEW d \in 0 .. n - 1, d = DpId(w), d \in 0 .. MaxDP - 1,
           Distinct(Waiting(m)), TightAt(queue[m], starts[m], n)
    PROVE  Hands(m, Range(slice[w])) /\ Range(slice[w]) # {}
<1> DEFINE q == queue[m]
           st == starts[m]
           new == starts'[m]
<1>1. /\ pc[w] = "assign" /\ Len(slice[w]) > 0 /\ queue' = queue
      /\ starts' = [starts EXCEPT ![m] =
                      [starts[m] EXCEPT ![d] = Advance(starts[m][d], Len(slice[w]), n)]]
  BY DEF TakeSlice
<1>2. slice[w] = Stride(q, st[d], n) /\ slice[w] \in Seq(Id)
  BY <1>1 DEF CallState, CallOk, TypeOK
<1>3. /\ q \in Seq(Id) /\ Strides(st, n)
      /\ Waiting(m) = Items(q, st, n)
      /\ Waiting(m)' = Items(q, new, n)
  BY <1>1 DEF QueueView, OwnerOf
<1>4. Moved(q, st, new, n, d)
  <2>1. st \in [0 .. MaxDP - 1 -> Nat] /\ starts \in [Base -> [0 .. MaxDP - 1 -> Nat]]
    BY DEF TypeOK
  <2>2. new = [st EXCEPT ![d] = Advance(st[d], Len(Stride(q, st[d], n)), n)]
    BY <1>1, <1>2, <2>1
  <2> HIDE DEF q, st, new
  <2> QED
    BY <2>1, <2>2 DEF Moved, st
<1> HIDE DEF q, st, new
<1>5. /\ Range(Stride(q, st[d], n)) \subseteq IdsOf(Items(q, st, n))
      /\ IdsOf(Items(q, new, n))
           = IdsOf(Items(q, st, n)) \ Range(Stride(q, st[d], n))
      /\ Distinct(Items(q, new, n))
  BY <1>3, <1>4, SliceItems
<1>6. TightAt(q, new, n)
  <2>1. TightAt(q, st, n)
    BY DEF q, st
  <2> QED
    BY <1>3, <1>4, <2>1, MovedTight
<1>7. Range(slice[w]) \in SUBSET Id /\ Range(slice[w]) # {}
  <2>1. PICK f \in Seq(Id) : f = slice[w] /\ Len(f) > 0
    BY <1>1, <1>2
  <2>2. 1 \in DOMAIN f /\ \A k \in DOMAIN f : f[k] \in Id
    BY <2>1
  <2> QED
    BY <2>1, <2>2 DEF Range
<1>8. queue'[m] = q /\ starts'[m] = new
  BY <1>1 DEF q, new
<1> QED
  BY <1>2, <1>3, <1>5, <1>6, <1>7, <1>8 DEF Hands

(* The worker's share of the fresh queue is of what was waiting.            *)
LEMMA TakeRebalancedHands ==
    ASSUME QueueView, QueueView', NEW w \in Worker, TypeOK,
           NEW m \in Base, m = Current(w), OwnerOf(m) = Model(w),
           NEW n \in Nat \ {0}, n = dp[OwnerOf(m)], dp' = dp,
           NEW d \in 0 .. n - 1, d = DpId(w), d \in 0 .. MaxDP - 1,
           Distinct(Waiting(m)), TakeRebalanced(w)
    PROVE  \E T : Hands(m, T) /\ T # {} /\ Give(w, T)
<1> DEFINE new == starts'[m]
<1>1. PICK q \in Requeued(m, n) :
          /\ d < Len(q)
          /\ queue' = [queue EXCEPT ![m] = q]
          /\ starts' = [starts EXCEPT ![m] =
                          [FreshStarts EXCEPT ![d] = Advance(d, Len(Stride(q, d, n)), n)]]
          /\ Give(w, Range(Stride(q, d, n)))
  BY DEF TakeRebalanced
<1>2. q \in Seq(Id) /\ IsInjective(q) /\ Range(q) = IdsOf(Waiting(m))
  BY <1>1, RequeuedAll
<1>3. n \in 1 .. MaxDP /\ FreshStarts[d] = d
  BY DEF QueueView, FreshStarts
<1>4. queue'[m] = q /\ new = [FreshStarts EXCEPT ![d] = Advance(d, Len(Stride(q, d, n)), n)]
  BY <1>1 DEF TypeOK
<1>5. Moved(q, FreshStarts, new, n, d)
  <2>1. \A e \in 0 .. n - 1 : e \in 0 .. MaxDP - 1
    BY <1>3, BoundAssumption
  <2> HIDE DEF new
  <2> QED
    BY <1>3, <1>4, <2>1, FreshStartsType DEF Moved
<1>6. Waiting(m)' = Items(q, new, n)
  BY <1>4 DEF QueueView, OwnerOf
<1>7. Strides(FreshStarts, n) /\ TightAt(q, FreshStarts, n)
  BY <1>2, <1>3, FreshTight
<1>8. /\ IdsOf(Items(q, FreshStarts, n)) = IdsOf(Waiting(m))
      /\ Distinct(Items(q, FreshStarts, n))
  BY <1>2, <1>3, FreshItems
<1> HIDE DEF new
<1>9. /\ Range(Stride(q, d, n)) \subseteq IdsOf(Waiting(m))
      /\ IdsOf(Items(q, new, n)) = IdsOf(Waiting(m)) \ Range(Stride(q, d, n))
      /\ Distinct(Items(q, new, n))
  BY <1>2, <1>3, <1>5, <1>7, <1>8, SliceItems
<1>10. TightAt(q, new, n)
  BY <1>2, <1>5, <1>7, MovedTight
<1>11. Range(Stride(q, d, n)) # {} /\ Range(Stride(q, d, n)) \in SUBSET Id
  <2>1. Stride(q, d, n) \in Seq(Id)
    BY <1>2, StrideType
  <2>2. StrideLen(q, d, n) \in Nat /\ d + StrideLen(q, d, n) * n >= Len(q)
    <3>1. d \in Nat
      OBVIOUS
    <3> QED
      BY <1>2, <3>1, StrideEnd
  <2>3. StrideLen(q, d, n) # 0
    <3> SUFFICES ASSUME StrideLen(q, d, n) = 0 PROVE FALSE
      OBVIOUS
    <3>1. 0 * n = 0
      OBVIOUS
    <3> QED
      BY <1>1, <1>2, <2>2, <3>1
  <2>4. 1 \in DOMAIN Stride(q, d, n)
    BY <2>2, <2>3 DEF Stride
  <2>5. PICK f \in Seq(Id) : f = Stride(q, d, n)
    BY <2>1
  <2>6. \A k \in DOMAIN f : f[k] \in Id
    OBVIOUS
  <2> QED
    BY <2>4, <2>5, <2>6 DEF Range
<1>12. Hands(m, Range(Stride(q, d, n)))
  BY <1>4, <1>6, <1>9, <1>10, <1>11 DEF Hands, new
<1> QED
  BY <1>1, <1>11, <1>12

(* So is the first request of a queue shorter than the worker's index.      *)
LEMMA TakeFirstHands ==
    ASSUME QueueView, QueueView', NEW w \in Worker, TypeOK,
           NEW m \in Base, m = Current(w), OwnerOf(m) = Model(w),
           NEW n \in Nat \ {0}, n = dp[OwnerOf(m)], dp' = dp,
           Distinct(Waiting(m)), TakeFirst(w)
    PROVE  \E T : Hands(m, T) /\ T # {} /\ Give(w, T)
<1>1. PICK q \in Requeued(m, n) :
          /\ q # <<>>
          /\ queue' = [queue EXCEPT ![m] = Tail(q)]
          /\ starts' = [starts EXCEPT ![m] = FreshStarts]
          /\ Give(w, {q[1]})
  BY DEF TakeFirst
<1>2. q \in Seq(Id) /\ IsInjective(q) /\ Range(q) = IdsOf(Waiting(m))
  BY <1>1, RequeuedAll
<1>3. queue'[m] = Tail(q) /\ starts'[m] = FreshStarts
  BY <1>1 DEF TypeOK
<1>4. /\ Tail(q) \in Seq(Id) /\ Len(q) \in Nat /\ Len(q) >= 1
      /\ Len(Tail(q)) = Len(q) - 1 /\ DOMAIN Tail(q) = 1 .. Len(q) - 1
      /\ DOMAIN q = 1 .. Len(q)
      /\ \A k \in DOMAIN Tail(q) : k + 1 \in DOMAIN q /\ Tail(q)[k] = q[k + 1]
  BY <1>1, <1>2
<1>5. IsInjective(Tail(q))
  BY <1>2, <1>4 DEF IsInjective
<1>6. Range(Tail(q)) = Range(q) \ {q[1]}
  <2>1. ASSUME NEW k \in DOMAIN q, k # 1
        PROVE  k - 1 \in DOMAIN Tail(q) /\ Tail(q)[k - 1] = q[k]
    BY <1>4, <2>1
  <2>2. ASSUME NEW k \in DOMAIN Tail(q)
        PROVE  k + 1 \in DOMAIN q /\ Tail(q)[k] = q[k + 1] /\ q[k + 1] # q[1]
    <3>1. k + 1 \in DOMAIN q /\ 1 \in DOMAIN q /\ k + 1 # 1 /\ Tail(q)[k] = q[k + 1]
      BY <1>4
    <3> QED
      BY <1>2, <3>1 DEF IsInjective
  <2>3. \A x \in Range(Tail(q)) : x \in Range(q) \ {q[1]}
    BY <2>2 DEF Range
  <2>4. ASSUME NEW x \in Range(q) \ {q[1]} PROVE x \in Range(Tail(q))
    <3>1. PICK k \in DOMAIN q : x = q[k] /\ k # 1
      BY DEF Range
    <3>2. k - 1 \in DOMAIN Tail(q) /\ Tail(q)[k - 1] = x
      BY <2>1, <3>1
    <3> QED
      BY <3>2 DEF Range
  <2> QED
    BY <2>3, <2>4
<1>7. IdsOf(Waiting(m)') = Range(Tail(q)) /\ Distinct(Waiting(m)')
  BY <1>3, <1>4, <1>5, FreshWaiting
<1>8. TightAt(Tail(q), FreshStarts, n)
  BY <1>4, FreshTight DEF QueueView
<1>9. q[1] \in Range(q) /\ q[1] \in Id
  BY <1>2, <1>4 DEF Range
<1>10. Hands(m, {q[1]})
  BY <1>2, <1>3, <1>6, <1>7, <1>8, <1>9 DEF Hands
<1> QED
  BY <1>1, <1>10

(* A worker comes back with nothing only if nothing waits.                  *)
LEMMA TakeNothingHands ==
    ASSUME QueueView, QueueView', NEW w \in Worker, TypeOK,
           NEW m \in Base, m = Current(w), OwnerOf(m) = Model(w),
           NEW n \in Nat \ {0}, n = dp[OwnerOf(m)], dp' = dp,
           Distinct(Waiting(m)), TakeNothing(w)
    PROVE  Hands(m, {}) /\ Waiting(m) = {} /\ Waiting(m)' = {}
<1>1. /\ <<>> \in Requeued(m, n)
      /\ queue' = [queue EXCEPT ![m] = <<>>]
      /\ starts' = [starts EXCEPT ![m] = FreshStarts]
  BY DEF TakeNothing, Rebalance
<1>2. /\ <<>> \in Seq(Id) /\ Range(<<>>) = {} /\ IsInjective(<<>>)
      /\ Range(<<>>) = IdsOf(Waiting(m))
  BY <1>1, RequeuedAll DEF Range, IsInjective
<1>3. queue'[m] = <<>> /\ starts'[m] = FreshStarts
  BY <1>1 DEF TypeOK
<1>4. IdsOf(Waiting(m)') = Range(<<>>) /\ Distinct(Waiting(m)')
  BY <1>2, <1>3, FreshWaiting
<1>5. TightAt(<<>>, FreshStarts, n)
  BY <1>2, FreshTight DEF QueueView
<1>6. \A S : IdsOf(S) = {} => S = {}
  BY DEF IdsOf
<1> QED
  BY <1>2, <1>3, <1>4, <1>5, <1>6 DEF Hands

Take(w) == TakeSlice(w) \/ TakeRebalanced(w) \/ TakeFirst(w) \/ TakeNothing(w)

(* A worker that has its lock takes requests out of the queue of its base   *)
(* model, or learns that nothing waits there; no other queue changes.       *)
TakesFrom(w, m, T) ==
    /\ m \in Base /\ m = Current(w) /\ OwnerOf(m) = Model(w)
    /\ pc[w] = "assign" /\ EndFetch(w)
    /\ Hands(m, T)
    /\ \A b \in Base \ {m} : /\ Waiting(b)' = Waiting(b)
                              /\ queue'[b] = queue[b] /\ starts'[b] = starts[b]
    /\ \/ T # {} /\ Give(w, T)
       \/ /\ T = {} /\ UNCHANGED <<held, route>>
          /\ possible' = [possible EXCEPT ![w] = @ \/ StillDue(m)]
          /\ Waiting(m) = {} /\ Waiting(m)' = {}

(* Taking gives the worker requests that waited, at positions that only it  *)
(* reads, and they wait no longer.                                          *)
LEMMA TakeEffect ==
    ASSUME IInv, StrideInv, CallState, Tight, Exclusive, NEW w \in Worker, Take(w)
    PROVE  \E m, T : TakesFrom(w, m, T)
<1>m. PICK m \in Base : m = Current(w) /\ OwnerOf(m) = Model(w)
  BY CurrentOwner
<1>1. pc[w] = "assign" /\ EndFetch(w) /\ dp' = dp
  BY DEF Take, TakeSlice, TakeRebalanced, TakeFirst, TakeNothing, Rebalance, EndFetch
<1>2. IInv' /\ StrideInv'
  BY TakeStride, TakeSliceInv, TakeRebalancedInv, TakeFirstInv, TakeNothingInv DEF Take
<1>3. QueueView /\ QueueView'
  <2>1. IInv' /\ StrideInv' => QueueView'
    BY QueueViewed, PTL
  <2> QED
    BY <1>2, <2>1, QueueViewed
<1>4. PICK n \in Nat \ {0} : n = dp[OwnerOf(m)]
  BY <1>m, <1>1, StepType
<1>5. PICK d \in 0 .. n - 1 : d = DpId(w) /\ d \in 0 .. MaxDP - 1
  BY <1>m, <1>1, <1>4, WorkerType DEF IInv, CallInv
<1>6. Distinct(Waiting(m)) /\ TightAt(queue[m], starts[m], n) /\ TypeOK
  BY <1>4 DEF Exclusive, Distinct, Tight, TightAt, IInv
<1>7. ASSUME NEW b \in Base \ {m}
      PROVE  Waiting(b)' = Waiting(b) /\ queue'[b] = queue[b] /\ starts'[b] = starts[b]
  <2>1. queue'[b] = queue[b] /\ starts'[b] = starts[b]
    BY <1>m DEF Take, TakeSlice, TakeRebalanced, TakeFirst, TakeNothing, IInv, TypeOK
  <2> QED
    BY <1>1, <2>1, SameWaiting
<1>8. \E T : /\ Hands(m, T)
             /\ \/ T # {} /\ Give(w, T)
                \/ /\ T = {} /\ UNCHANGED <<held, route>>
                   /\ possible' = [possible EXCEPT ![w] = @ \/ StillDue(m)]
                   /\ Waiting(m) = {} /\ Waiting(m)' = {}
  <2>1. CASE TakeSlice(w)
    <3>1. Hands(m, Range(slice[w])) /\ Range(slice[w]) # {}
      BY <1>m, <1>1, <1>3, <1>4, <1>5, <1>6, <2>1, TakeSliceHands
    <3>2. Give(w, Range(slice[w]))
      BY <2>1 DEF TakeSlice
    <3> QED
      BY <3>1, <3>2
  <2>2. CASE TakeRebalanced(w)
    <3>1. \E T : Hands(m, T) /\ T # {} /\ Give(w, T)
      BY <1>m, <1>1, <1>3, <1>4, <1>5, <1>6, <2>2, TakeRebalancedHands
    <3> QED
      BY <3>1
  <2>3. CASE TakeFirst(w)
    <3>1. \E T : Hands(m, T) /\ T # {} /\ Give(w, T)
      BY <1>m, <1>1, <1>3, <1>4, <1>6, <2>3, TakeFirstHands
    <3> QED
      BY <3>1
  <2>4. CASE TakeNothing(w)
    <3>1. Hands(m, {}) /\ Waiting(m) = {} /\ Waiting(m)' = {}
      BY <1>m, <1>1, <1>3, <1>4, <1>6, <2>4, TakeNothingHands
    <3>2. UNCHANGED <<held, route>> /\ possible' = [possible EXCEPT ![w] = @ \/ StillDue(m)]
      BY <1>m, <2>4 DEF TakeNothing
    <3> QED
      BY <3>1, <3>2
  <2> QED
    BY <2>1, <2>2, <2>3, <2>4 DEF Take
<1> QED
  BY <1>m, <1>1, <1>7, <1>8 DEF TakesFrom

----------------------------------------------------------------------------
(* What Fuse and Launch do to the queues.                                   *)

(* What is appended to a queue waits in it.                                 *)
LEMMA AppendedLeft ==
    ASSUME NEW q, q \in Seq(Id), NEW r, r \in Seq(Id), NEW n \in Nat \ {0},
           NEW st, Strides(st, n), TightAt(q, st, n)
    PROVE  Left(q \o r, st, n) = Left(q, st, n) \cup (Len(q) .. Len(q) + Len(r) - 1)
<1>1. Len(q) \in Nat /\ Len(r) \in Nat /\ Len(q \o r) = Len(q) + Len(r)
  OBVIOUS
<1>2. ASSUME NEW p \in Len(q) .. Len(q) + Len(r) - 1
      PROVE  st[p % n] <= p
  <2>1. p \in Nat /\ p >= Len(q) /\ p % n \in 0 .. n - 1
    BY <1>1
  <2>2. PICK a \in Nat : a = st[p % n] /\ a % n = p % n /\ a < Len(q) + n
    BY <2>1 DEF Strides, TightAt
  <2>3. a <= p
    <3> SUFFICES ASSUME p < a PROVE FALSE
      BY <2>1
    <3>0. p <= a /\ p % n = a % n
      BY <2>1, <2>2
    <3>1. PICK k \in Nat : a = p + k * n
      BY <2>1, <3>0, RoundsApart
    <3>2. k # 0
      <4>1. 0 * n = 0
        OBVIOUS
      <4> QED
        BY <2>1, <3>1, <4>1
    <3>3. 1 * n <= k * n /\ k * n \in Nat
      BY <3>2, Monotone
    <3> QED
      BY <1>1, <2>1, <2>2, <3>1, <3>3
  <2> QED
    BY <2>2, <2>3
<1>3. /\ 0 .. Len(q) + Len(r) - 1 = (0 .. Len(q) - 1) \cup (Len(q) .. Len(q) + Len(r) - 1)
      /\ Left(q \o r, st, n) = {p \in 0 .. Len(q) + Len(r) - 1 : st[p % n] <= p}
  BY <1>1 DEF Left
<1> QED
  BY <1>2, <1>3 DEF Left

(* What is appended to a queue is waiting, once, beside what waited before. *)
LEMMA AppendedItems ==
    ASSUME NEW q, q \in Seq(Id), NEW r, r \in Seq(Id), NEW n \in Nat \ {0},
           NEW st, Strides(st, n), TightAt(q, st, n)
    PROVE  /\ TightAt(q \o r, st, n)
           /\ IdsOf(Items(q \o r, st, n)) = IdsOf(Items(q, st, n)) \cup Range(r)
           /\ Distinct(Items(q, st, n)) /\ IsInjective(r)
                 /\ IdsOf(Items(q, st, n)) \cap Range(r) = {}
              => Distinct(Items(q \o r, st, n))
<1> DEFINE l == Len(q)
           all == q \o r
           L == Left(q, st, n)
           M == l .. l + Len(r) - 1
<1>1. /\ l \in Nat /\ Len(r) \in Nat /\ Len(all) = l + Len(r) /\ DOMAIN r = 1 .. Len(r)
      /\ \A p \in 0 .. l - 1 : all[p + 1] = q[p + 1]
      /\ \A p \in M : (p - l) + 1 \in 1 .. Len(r) /\ all[p + 1] = r[(p - l) + 1]
      /\ \A k \in 1 .. Len(r) : (l + k) - 1 \in M /\ all[((l + k) - 1) + 1] = r[k]
  OBVIOUS
<1>2. Left(all, st, n) = L \cup M
  BY AppendedLeft
<1>3. L \subseteq 0 .. l - 1
  BY DEF Left
<1>4. /\ IdsOf(Items(q, st, n)) = {q[p + 1] : p \in L}
      /\ IdsOf(Items(all, st, n)) = {all[p + 1] : p \in L \cup M}
      /\ Distinct(Items(q, st, n)) <=> \A p, s \in L : q[p + 1] = q[s + 1] => p = s
      /\ Distinct(Items(all, st, n))
            <=> \A p, s \in L \cup M : all[p + 1] = all[s + 1] => p = s
  <2> HIDE DEF all, L, M
  <2>1. /\ IdsOf(Items(q, st, n)) = {q[p + 1] : p \in L}
        /\ Distinct(Items(q, st, n)) <=> \A p, s \in L : q[p + 1] = q[s + 1] => p = s
    BY ItemsIds DEF L
  <2>2. /\ IdsOf(Items(all, st, n)) = {all[p + 1] : p \in Left(all, st, n)}
        /\ Distinct(Items(all, st, n)) <=>
              \A p, s \in Left(all, st, n) : all[p + 1] = all[s + 1] => p = s
    BY ItemsIds
  <2> QED
    BY <1>2, <2>1, <2>2
<1>5. TightAt(all, st, n)
  <2> SUFFICES ASSUME NEW d \in 0 .. n - 1 PROVE st[d] < Len(all) + n
    BY DEF TightAt
  <2>1. st[d] \in Nat /\ st[d] < l + n
    BY DEF Strides, TightAt
  <2> HIDE DEF all, l
  <2> QED
    BY <1>1, <2>1
<1> HIDE DEF all, L
<1>6. \A p \in L : all[p + 1] = q[p + 1]
  BY <1>1, <1>3
<1>7. Range(r) = {all[p + 1] : p \in M}
  <2> HIDE DEF l, M
  <2>1. \A p \in M : \E k \in DOMAIN r : all[p + 1] = r[k]
    BY <1>1
  <2>2. \A k \in DOMAIN r : \E p \in M : all[p + 1] = r[k]
    BY <1>1
  <2> QED
    BY <2>1, <2>2 DEF Range
<1>8. {all[p + 1] : p \in L \cup M} = {q[p + 1] : p \in L} \cup Range(r)
  BY <1>6, <1>7
<1>9. ASSUME IsInjective(r), NEW p \in M, NEW s \in M, all[p + 1] = all[s + 1]
      PROVE  p = s
  <2>0. PICK j \in DOMAIN r, k \in DOMAIN r : j = (p - l) + 1 /\ k = (s - l) + 1
    BY <1>1
  <2>1. r[j] = r[k]
    BY <1>1, <1>9, <2>0
  <2>a. j = k
    BY <1>9, <2>1 DEF IsInjective
  <2>2. p \in Nat /\ s \in Nat
    BY <1>1
  <2> QED
    BY <1>1, <2>0, <2>a, <2>2
<1>10. ASSUME IdsOf(Items(q, st, n)) \cap Range(r) = {}, NEW p \in L, NEW s \in M
       PROVE  all[p + 1] # all[s + 1]
  BY <1>4, <1>6, <1>7, <1>10
<1> QED
  BY <1>4, <1>5, <1>6, <1>8, <1>9, <1>10 DEF all

(* Fuse queues what the call found.                                         *)
LEMMA FuseEffect ==
    ASSUME IInv, StrideInv, Tight, Exclusive, FoundNew, NEW w \in Worker, Fuse(w),
           NEW m \in Base, m = Current(w)
    PROVE  /\ IdsOf(Waiting(m)') = IdsOf(Waiting(m)) \cup IdsOf(got[w])
           /\ Distinct(Waiting(m)')
           /\ TightAt(queue'[m], starts'[m], dp[OwnerOf(m)])
           /\ \A b \in Base \ {m} : Waiting(b)' = Waiting(b) /\ queue'[b] = queue[b]
<1>1. /\ pc[w] = "fuse" /\ OwnerOf(m) = Model(w)
      /\ UNCHANGED <<starts, dp>>
  BY CurrentOwner DEF Fuse, modelVars
<1>2. IInv' /\ StrideInv'
  BY <1>1, FuseInv DEF StrideInv, OwnerOf
<1>3. QueueView /\ QueueView'
  <2>1. IInv' /\ StrideInv' => QueueView'
    BY QueueViewed, PTL
  <2> QED
    BY <1>2, <2>1, QueueViewed
<1>4. PICK n \in Nat \ {0} : n = dp[OwnerOf(m)]
  BY <1>1, StepType
<1>5. PICK f \in SortedListings(got[w]) : queue' = [queue EXCEPT ![m] = @ \o Ids(f)]
  BY DEF Fuse
<1>6. IsFiniteSet(got[w]) /\ \A x \in got[w] : x.id \in Id
  BY DEF IInv, CallInv, TypeOK
<1>7. Distinct(got[w])
  BY DEF FoundNew, Distinct
<1>8. Ids(f) \in Seq(Id) /\ Range(Ids(f)) = IdsOf(got[w]) /\ IsInjective(Ids(f))
  <2>1. f \in Listings(got[w])
    BY DEF SortedListings
  <2> QED
    BY <1>6, <1>7, <2>1, ListingIds
<1> DEFINE q == queue[m]
           st == starts[m]
<1>9. /\ q \in Seq(Id) /\ Strides(st, n) /\ TightAt(q, st, n)
      /\ Waiting(m) = Items(q, st, n) /\ Distinct(Waiting(m))
      /\ queue'[m] = q \o Ids(f) /\ starts'[m] = st
      /\ Waiting(m)' = Items(q \o Ids(f), st, n)
  <2>1. q \in Seq(Id) /\ Strides(st, n) /\ Waiting(m) = Items(q, st, n)
    BY <1>3, <1>4 DEF QueueView
  <2>2. TightAt(q, st, n) /\ Distinct(Waiting(m))
    BY <1>4 DEF Tight, TightAt, Exclusive, Distinct
  <2>3. queue'[m] = q \o Ids(f) /\ starts'[m] = st
    BY <1>1, <1>5 DEF IInv, TypeOK
  <2>4. Waiting(m)' = Items(queue'[m], starts'[m], n)
    BY <1>1, <1>3, <1>4 DEF QueueView, OwnerOf
  <2> QED
    BY <2>1, <2>2, <2>3, <2>4
<1>10. IdsOf(Waiting(m)) \cap IdsOf(got[w]) = {}
  <2> SUFFICES ASSUME NEW x \in Waiting(m), NEW y \in got[w], x.id = y.id PROVE FALSE
    BY DEF IdsOf
  <2>1. Queued(m, y.id) /\ Found(m, y.id) /\ y.id \in Id
    BY <1>6 DEF Queued, Found
  <2> QED
    BY <2>1 DEF FoundNew, Released
<1> HIDE DEF q, st
<1>11. /\ TightAt(q \o Ids(f), st, n)
       /\ IdsOf(Items(q \o Ids(f), st, n)) = IdsOf(Items(q, st, n)) \cup Range(Ids(f))
       /\ Distinct(Items(q \o Ids(f), st, n))
  BY <1>8, <1>9, <1>10, AppendedItems
<1>12. \A b \in Base \ {m} : Waiting(b)' = Waiting(b) /\ queue'[b] = queue[b]
  <2> SUFFICES ASSUME NEW b \in Base \ {m}
               PROVE  Waiting(b)' = Waiting(b) /\ queue'[b] = queue[b]
    OBVIOUS
  <2>1. queue'[b] = queue[b]
    BY <1>5 DEF IInv, TypeOK
  <2> QED
    BY <1>1, <2>1, SameWaiting
<1> QED
  BY <1>4, <1>8, <1>9, <1>11, <1>12

(* A launch puts what waits into fresh queues.                              *)
LEMMA LaunchQueues ==
    ASSUME IInv, StrideInv, Tight, Exclusive,
           NEW s \in Shared, NEW d \in Plans[s], Launch(s, d), NEW m \in Base
    PROVE  /\ IdsOf(Waiting(m)') = IdsOf(Waiting(m))
           /\ Distinct(Waiting(m)')
           /\ TightAt(queue'[m], starts'[m], dp'[OwnerOf(m)])
<1>1. IInv' /\ StrideInv'
  BY LaunchInv, LaunchStride
<1>2. QueueView /\ QueueView'
  <2>1. IInv' /\ StrideInv' => QueueView'
    BY QueueViewed, PTL
  <2> QED
    BY <1>1, <2>1, QueueViewed
<1> DEFINE bases == Range(BaseOf[s])
<1>3. /\ \E q \in [bases -> UNION {Requeued(b, dp[s]) : b \in bases}] :
            /\ \A b \in bases : q[b] \in Requeued(b, dp[s])
            /\ queue' = [b \in Base |-> IF b \in bases THEN q[b] ELSE queue[b]]
      /\ starts' = [b \in Base |-> IF b \in bases THEN FreshStarts ELSE starts[b]]
      /\ dp' = [dp EXCEPT ![s] = d] /\ dp'[s] = d
  BY DEF Launch, IInv, TypeOK
<1>4. Distinct(Waiting(m)) /\ TightAt(queue[m], starts[m], dp[OwnerOf(m)])
  BY DEF Exclusive, Distinct, Tight, TightAt
<1>5. CASE m \in bases
  <2>1. OwnerOf(m) = s /\ d \in 1 .. MaxDP /\ d # 0
    BY <1>5, OwnerType, BoundAssumption
  <2>2. PICK q \in Requeued(m, dp[OwnerOf(m)]) : queue'[m] = q /\ starts'[m] = FreshStarts
    BY <1>3, <1>5, <2>1
  <2>3. q \in Seq(Id) /\ IsInjective(q) /\ Range(q) = IdsOf(Waiting(m))
    BY <1>2, <1>4, RequeuedAll
  <2>4. IdsOf(Waiting(m)') = Range(q) /\ Distinct(Waiting(m)')
    BY <1>2, <1>3, <2>1, <2>2, <2>3, FreshWaiting
  <2>5. TightAt(q, FreshStarts, d)
    BY <2>1, <2>3, FreshTight
  <2> QED
    BY <1>3, <2>1, <2>2, <2>3, <2>4, <2>5
<1>6. CASE m \notin bases
  <2>1. OwnerOf(m) # s /\ OwnerOf(m) \in Shared
    BY <1>6, OwnerType
  <2>2. queue'[m] = queue[m] /\ starts'[m] = starts[m] /\ dp'[OwnerOf(m)] = dp[OwnerOf(m)]
    BY <1>3, <1>6, <2>1 DEF IInv, TypeOK
  <2>3. Waiting(m)' = Waiting(m)
    BY <2>2, SameWaiting
  <2> QED
    BY <1>4, <2>2, <2>3
<1> QED
  BY <1>5, <1>6

(* A launch deals the requests of the model's workers out, each to one of   *)
(* the new workers.                                                         *)
LEMMA LaunchDeals ==
    ASSUME IInv, NEW s \in Shared, NEW d \in Plans[s], Launch(s, d)
    PROVE  /\ \A w \in Worker : Model(w) # s => held'[w] = held[w]
           /\ \A w \in WorkersOf(s) : DpId(w) >= d => held'[w] = {}
           /\ \A v, w \in WorkersOf(s) : \A r : r \in held'[v] /\ r \in held'[w] => v = w
           /\ \A r : (\E w \in WorkersOf(s) : r \in held'[w])
                        <=> (\E w \in WorkersOf(s) : r \in held[w])
<1> DEFINE unfinished == UNION {held[w] : w \in WorkersOf(s)}
           N == Cardinality(unfinished)
<1>1. PICK f \in SortedListings(unfinished) :
          held' = [w \in Worker |-> IF Model(w) # s THEN held[w] ELSE Dealt(f, DpId(w), d)]
  BY DEF Launch
<1>2. IsFiniteSet(unfinished)
  <2>1. unfinished \subseteq [base : Base, id : Id]
    BY DEF IInv, TypeOK, WorkersOf
  <2> QED
    BY <2>1, RequestsFinite, FS_Subset
<1>3. /\ N \in Nat
      /\ f \in [1 .. N -> unfinished]
      /\ \A j, k \in 1 .. N : f[j] = f[k] => j = k
      /\ \A x \in unfinished : \E k \in 1 .. N : f[k] = x
  <2>1. f \in Listings(unfinished)
    BY DEF SortedListings
  <2> HIDE DEF unfinished
  <2> QED
    BY <1>2, <2>1, ListingAll
<1>4. d \in Nat \ {0} /\ d \in 1 .. MaxDP
  BY BoundAssumption
<1>5. \A r : r \in unfinished <=> \E w \in WorkersOf(s) : r \in held[w]
  OBVIOUS
<1> HIDE DEF unfinished, N
<1>6. \A w \in WorkersOf(s) :
         held'[w] = {f[k] : k \in {k \in 1 .. N : DpId(w) < d /\ (k - 1) % d = DpId(w)}}
  BY <1>1, <1>3 DEF Dealt, WorkersOf
<1>7. \A w \in WorkersOf(s) : DpId(w) \in Nat /\ w = <<s, DpId(w)>>
  BY WorkerType DEF WorkersOf, Worker
<1>8. \A w \in WorkersOf(s) : DpId(w) >= d => held'[w] = {}
  BY <1>4, <1>6, <1>7
<1>9. ASSUME NEW v \in WorkersOf(s), NEW w \in WorkersOf(s), NEW r,
             r \in held'[v], r \in held'[w]
      PROVE  v = w
  <2>1. PICK j \in 1 .. N : r = f[j] /\ (j - 1) % d = DpId(v)
    BY <1>6, <1>9
  <2>2. PICK k \in 1 .. N : r = f[k] /\ (k - 1) % d = DpId(w)
    BY <1>6, <1>9
  <2>3. j = k
    BY <1>3, <2>1, <2>2
  <2> QED
    BY <1>7, <2>1, <2>2, <2>3
<1>10. ASSUME NEW r
       PROVE  (\E w \in WorkersOf(s) : r \in held'[w]) <=> r \in unfinished
  <2>1. ASSUME NEW w \in WorkersOf(s), r \in held'[w] PROVE r \in unfinished
    BY <1>3, <1>6, <2>1
  <2>2. ASSUME r \in unfinished PROVE \E w \in WorkersOf(s) : r \in held'[w]
    <3>1. PICK k \in 1 .. N : f[k] = r
      BY <1>3, <2>2
    <3>2. PICK e \in 0 .. d - 1 : e = (k - 1) % d
      <4>1. PICK a \in Nat : a = k - 1
        BY <1>3
      <4>2. a % d \in 0 .. d - 1
        BY <1>4
      <4> QED
        BY <4>1, <4>2
    <3>3. <<s, e>> \in WorkersOf(s) /\ DpId(<<s, e>>) = e /\ e < d
      BY <1>4, BoundAssumption DEF WorkersOf, Worker
    <3>4. r \in held'[<<s, e>>]
      BY <1>6, <3>1, <3>2, <3>3
    <3> QED
      BY <3>3, <3>4
  <2> QED
    BY <2>1, <2>2
<1>11. \A w \in Worker : Model(w) # s => held'[w] = held[w]
  BY <1>1
<1> QED
  BY <1>5, <1>8, <1>9, <1>10, <1>11
=============================================================================
