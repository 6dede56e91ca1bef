------------------------ MODULE Communicator_proofs ------------------------
(***************************************************************************)
(* For every system of models, data-parallel sizes and requests: the type   *)
(* invariant of the communicator, the exclusion its locks give, and the     *)
(* exactness of its counters of missing outputs.                            *)
(***************************************************************************)
EXTENDS CommunicatorProperties, TLAPS, FiniteSetTheorems

USE DEF Node, Free, Model, DpId, Request

----------------------------------------------------------------------------
(* Workers and the models they belong to.                                   *)

(* A worker is a running model and one of its dp indices.                   *)
LEMMA WorkerType ==
    \A w \in Worker :
        /\ Model(w) \in Shared
        /\ DpId(w) \in 0 .. MaxDP - 1
        /\ DpId(w) \in Nat
        /\ w # Free
        /\ BaseOf[Model(w)] \in Seq(Base)
        /\ Len(BaseOf[Model(w)]) \in Nat \ {0}
<1> SUFFICES ASSUME NEW w \in Worker
             PROVE  /\ Model(w) \in Shared
                    /\ DpId(w) \in 0 .. MaxDP - 1
                    /\ DpId(w) \in Nat
                    /\ w # Free
                    /\ BaseOf[Model(w)] \in Seq(Base)
                    /\ Len(BaseOf[Model(w)]) \in Nat \ {0}
  OBVIOUS
<1>1. w \in Shared \X (0 .. MaxDP - 1)
  BY DEF Worker
<1>2. Model(w) \in Shared /\ DpId(w) \in 0 .. MaxDP - 1 /\ w # Free
  <2>1. PICK s \in Shared, d \in 0 .. MaxDP - 1 : w = <<s, d>>
    BY <1>1
  <2>2. w # <<>>
    BY <2>1
  <2> QED
    BY <2>1, <2>2
<1>3. DpId(w) \in Nat
  BY <1>2, BoundAssumption
<1>4. BaseOf[Model(w)] \in Seq(Base) /\ Len(BaseOf[Model(w)]) > 0
  BY <1>2, GraphAssumption
<1> QED
  BY <1>2, <1>3, <1>4

(* The sources of a base model are nodes of the dataflow graph.             *)
LEMMA SourceType ==
    \A m \in Base : /\ Srcs[m] \in Seq(Node)
                    /\ Len(Srcs[m]) \in Nat \ {0}
                    /\ m \in Node
BY GraphAssumption

(* The base model a call serves is one of the worker's own model.           *)
LEMMA CurrentType ==
    ASSUME NEW w \in Worker, CallInv
    PROVE  Current(w) \in Base /\ Current(w) \in Range(BaseOf[Model(w)])
BY WorkerType DEF CallInv, Current, Range

----------------------------------------------------------------------------
(* What the slices of Python yield.                                         *)

(* Division with rest, as the length of a slice uses it.                    *)
LEMMA DivBounds ==
    ASSUME NEW a \in Nat, NEW b \in Nat \ {0}
    PROVE  a \div b \in Nat /\ (a \div b) * b <= a
OBVIOUS

(* Multiplication by dp_size keeps the order of two positions.              *)
LEMMA Monotone ==
    ASSUME NEW a \in Nat, NEW b \in Nat, NEW c \in Nat, a <= b
    PROVE  a * c <= b * c /\ a * c \in Nat /\ b * c \in Nat
OBVIOUS

(* _get_seqs advances a position to a position.                             *)
LEMMA AdvanceType ==
    ASSUME NEW start \in Nat, NEW n \in Nat, NEW step \in Nat
    PROVE  Advance(start, n, step) \in Nat
<1>1. n * step \in Nat
  OBVIOUS
<1> QED
  BY <1>1 DEF Advance

(* The elements of seq[start::step] are elements of seq.                    *)
LEMMA StrideBounds ==
    ASSUME NEW q, q \in Seq(Id), NEW start \in Nat, NEW step \in Nat \ {0}
    PROVE  /\ StrideLen(q, start, step) \in Nat
           /\ \A k \in 0 .. StrideLen(q, start, step) - 1 :
                 start + k * step \in 0 .. Len(q) - 1
<1> DEFINE n == StrideLen(q, start, step)
<1>0. Len(q) \in Nat
  OBVIOUS
<1>1. CASE start >= Len(q)
  BY <1>0, <1>1 DEF StrideLen
<1>2. CASE start < Len(q)
  <2> DEFINE a == Len(q) - start + step - 1
  <2>1. a \in Nat /\ n = a \div step
    BY <1>0, <1>2 DEF StrideLen
  <2>2. n \in Nat /\ n * step <= a
    BY <2>1, DivBounds
  <2>3. ASSUME NEW k \in 0 .. n - 1
        PROVE  start + k * step \in 0 .. Len(q) - 1
    <3>1. k \in Nat /\ k + 1 \in Nat /\ k + 1 <= n
      BY <2>2, <2>3
    <3> HIDE DEF n, a
    <3>2. (k + 1) * step <= n * step /\ k * step \in Nat
      BY <2>2, <3>1, Monotone
    <3>3. (k + 1) * step = k * step + step
      BY <3>1
    <3>4. k * step + step <= a
      BY <2>1, <2>2, <3>1, <3>2, <3>3
    <3> QED
      BY <1>0, <2>1, <3>2, <3>4 DEF a
  <2> QED
    BY <2>2, <2>3
<1> QED
  BY <1>0, <1>1, <1>2

(* seq[start::step] is a sequence of elements of seq.                       *)
LEMMA StrideType ==
    ASSUME NEW q, q \in Seq(Id), NEW start \in Nat, NEW step \in Nat \ {0}
    PROVE  /\ Stride(q, start, step) \in Seq(Id)
           /\ Len(Stride(q, start, step)) \in Nat
           /\ StridePositions(q, start, step) \subseteq 0 .. Len(q) - 1
<1> DEFINE n == StrideLen(q, start, step)
<1>1. n \in Nat /\ \A k \in 0 .. n - 1 : start + k * step \in 0 .. Len(q) - 1
  BY StrideBounds
<1>2. ASSUME NEW k \in 1 .. n PROVE q[start + (k - 1) * step + 1] \in Id
  <2>1. k - 1 \in 0 .. n - 1
    BY <1>1, <1>2
  <2>2. start + (k - 1) * step \in 0 .. Len(q) - 1
    BY <1>1, <2>1
  <2> QED
    BY <2>2
<1> HIDE DEF n
<1>3. [k \in 1 .. n |-> q[start + (k - 1) * step + 1]] \in Seq(Id)
  BY <1>1, <1>2
<1> QED
  BY <1>1, <1>3 DEF Stride, StridePositions, n

(* sorted() of a finite set of records gives a sequence of their ids.       *)
LEMMA ListingType ==
    ASSUME NEW S, IsFiniteSet(S), \A x \in S : x.id \in Id, NEW f \in Listings(S)
    PROVE  /\ Ids(f) \in Seq(Id)
           /\ Len(Ids(f)) = Cardinality(S)
           /\ \A k \in DOMAIN f : f[k] \in S
<1>1. Cardinality(S) \in Nat
  BY FS_CardinalityType
<1>2. f \in [1 .. Cardinality(S) -> S]
  BY DEF Listings, Injection
<1> QED
  BY <1>1, <1>2 DEF Ids

(* A worker holds finitely many requests, so that run_vllm can sort them.   *)
LEMMA RequestsFinite ==
    /\ IsFiniteSet([base : Base, id : Id])
    /\ IsFiniteSet([id : Id])
<1>1. IsFiniteSet(Base \X Id)
  BY FS_Product, GraphAssumption
<1>2. IsFiniteSet([base : Base, id : Id])
  <2> DEFINE S == Base \X Id
             T == [base : Base, id : Id]
             f == [x \in S |-> [base |-> x[1], id |-> x[2]]]
  <2>1. f \in [S -> T]
    OBVIOUS
  <2>2. ASSUME NEW t \in T PROVE \E x \in S : f[x] = t
    <3>1. <<t.base, t.id>> \in S /\ f[<<t.base, t.id>>] = t
      OBVIOUS
    <3> QED
      BY <3>1
  <2> HIDE DEF f, T
  <2>3. f \in Surjection(S, T)
    BY <2>1, <2>2 DEF Surjection
  <2> QED
    BY <1>1, <2>3, FS_Surjection DEF T
<1>3. IsFiniteSet([id : Id])
  <2> DEFINE T == [id : Id]
             f == [i \in Id |-> [id |-> i]]
  <2>1. f \in [Id -> T] /\ \A t \in T : t.id \in Id /\ f[t.id] = t
    OBVIOUS
  <2> HIDE DEF f, T
  <2>2. f \in Surjection(Id, T)
    BY <2>1 DEF Surjection
  <2>3. IsFiniteSet(Id)
    BY GraphAssumption
  <2>4. IsFiniteSet(T)
    BY <2>2, <2>3, FS_Surjection
  <2> QED
    BY <2>4 DEF T
<1> QED
  BY <1>2, <1>3

(* What is left in a queue is a finite set of requests, and so the fresh    *)
(* queue is a sequence.                                                     *)
LEMMA RequeuedType ==
    ASSUME NEW m \in Base, NEW n \in 0 .. MaxDP,
           queue[m] \in Seq(Id), starts[m] \in [0 .. MaxDP - 1 -> Nat]
    PROVE  \A q \in Requeued(m, n) : q \in Seq(Id) /\ Len(q) \in Nat
<1> DEFINE q == queue[m]
           S == 0 .. Len(q) - 1
           T == {[pos |-> p, id |-> q[p + 1]] : p \in S}
           f == [p \in S |-> [pos |-> p, id |-> q[p + 1]]]
<1>0. Len(q) \in Nat /\ MaxDP \in Nat /\ n \in Nat
  BY BoundAssumption
<1>1. IsFiniteSet(S)
  BY <1>0, FS_Interval
<1>2. f \in Surjection(S, T)
  BY DEF Surjection
<1>3. IsFiniteSet(T)
  BY <1>1, <1>2, FS_Surjection
<1>4. \A x \in T : x.id \in Id
  BY <1>0
<1>5. Remaining(m, n) \subseteq T
  <2> SUFFICES ASSUME NEW d \in 0 .. n - 1,
                      NEW p \in StridePositions(q, starts[m][d], n)
               PROVE  p \in S
    BY DEF Remaining
  <2>1. n \in Nat \ {0} /\ starts[m][d] \in Nat
    BY <1>0
  <2> QED
    BY <2>1, StrideType
<1> HIDE DEF T
<1>6. IsFiniteSet(Remaining(m, n)) /\ \A x \in Remaining(m, n) : x.id \in Id
  BY <1>3, <1>4, <1>5, FS_Subset
<1> SUFFICES ASSUME NEW g \in SortedListings(Remaining(m, n))
             PROVE  Ids(g) \in Seq(Id) /\ Len(Ids(g)) \in Nat
  BY DEF Requeued
<1>7. g \in Listings(Remaining(m, n))
  BY DEF SortedListings
<1> QED
  BY <1>6, <1>7, ListingType

(* The start positions of a fresh queue are positions.                      *)
LEMMA FreshStartsType == FreshStarts \in [0 .. MaxDP - 1 -> Nat]
BY BoundAssumption DEF FreshStarts

----------------------------------------------------------------------------
(* Every step of a call preserves IInv.                                     *)

(* A poll that begins, the first action of get_seqs, keeps the invariant.   *)
LEMMA GetSeqsInv ==
    ASSUME IInv, NEW w \in Worker, GetSeqs(w)
    PROVE  IInv'
<1> USE DEF IInv, GetSeqs, commVars
<1>1. TypeOK'
  BY DEF TypeOK, CallPoints
<1>2. CallInv'
  BY DEF CallInv, Current, TypeOK
<1>3. RouteInv'
  BY DEF RouteInv
<1>4. LocksHeld'
  BY DEF LocksHeld, Fetching, Counting, Current, TypeOK
<1> QED
  BY <1>1, <1>2, <1>3, <1>4

(* A worker that leaves _run_engine keeps the invariant.                    *)
LEMMA LeaveInv ==
    ASSUME IInv, NEW w \in Worker, Leave(w)
    PROVE  IInv'
<1> USE DEF IInv, Leave, commVars, modelVars
<1>1. TypeOK'
  BY DEF TypeOK, CallPoints
<1>2. CallInv'
  BY DEF CallInv, Current, TypeOK
<1>3. RouteInv'
  BY DEF RouteInv
<1>4. LocksHeld'
  BY DEF LocksHeld, Fetching, Counting, Current, TypeOK
<1> QED
  BY <1>1, <1>2, <1>3, <1>4

(* Entering get_seqs_base_model takes a lock that nobody holds.             *)
LEMMA AcquireFetchInv ==
    ASSUME IInv, NEW w \in Worker, AcquireFetch(w)
    PROVE  IInv'
<1> USE DEF IInv, AcquireFetch, modelVars
<1>0. Current(w) \in Base
  BY CurrentType
<1>1. TypeOK'
  BY <1>0 DEF TypeOK, CallPoints
<1>2. CallInv'
  BY <1>0, SourceType DEF CallInv, Current, TypeOK
<1>3. RouteInv'
  BY DEF RouteInv
<1>4. LocksHeld'
  <2> SUFFICES ASSUME NEW m \in Base, NEW v \in Worker
               PROVE  /\ fetchLock'[m] = v <=> Fetching(v, m)'
                      /\ addLock'[m] = v <=> Counting(v, m)'
    BY DEF LocksHeld
  <2>1. Current(v)' = Current(v)
    BY DEF Current
  <2>2. fetchLock'[m] = v <=> Fetching(v, m)'
    BY <1>0, <2>1, WorkerType DEF LocksHeld, Fetching, TypeOK, FetchFree
  <2>3. Counting(v, m)' <=> Counting(v, m)
    BY <2>1 DEF Counting, TypeOK
  <2> QED
    BY <2>2, <2>3 DEF LocksHeld
<1> QED
  BY <1>1, <1>2, <1>3, <1>4

(* The outputs selected for a base model name finitely many inputs.         *)
LEMMA SelectedType ==
    ASSUME TypeOK, NEW from \in Node, NEW m \in Base
    PROVE  /\ IsFiniteSet(Selected(from, m))
           /\ Selected(from, m) \subseteq [from : Node, pos : Nat, id : Id]
<1> DEFINE S == Unread(from, m) \X Id
           T == [from : {from}, pos : Unread(from, m), id : Id]
           f == [x \in S |-> [from |-> from, pos |-> x[1], id |-> x[2]]]
<1>1. pool[from] \in Seq(Id) /\ readNum[<<from, m>>] \in Nat
  BY DEF TypeOK
<1>2. IsFiniteSet(Unread(from, m)) /\ Unread(from, m) \subseteq Nat
  <2>1. readNum[<<from, m>>] + 1 \in Nat /\ Len(pool[from]) \in Nat
    BY <1>1
  <2>2. IsFiniteSet(readNum[<<from, m>>] + 1 .. Len(pool[from]))
    BY <2>1, FS_Interval
  <2> QED
    BY <2>1, <2>2 DEF Unread
<1>3. IsFiniteSet(S)
  BY <1>2, FS_Product, GraphAssumption
<1>4. f \in [S -> T]
  OBVIOUS
<1>5. ASSUME NEW t \in T PROVE \E x \in S : f[x] = t
  <2>1. <<t.pos, t.id>> \in S /\ f[<<t.pos, t.id>>] = t
    OBVIOUS
  <2> QED
    BY <2>1
<1>6. Selected(from, m) \subseteq T /\ T \subseteq [from : Node, pos : Nat, id : Id]
  BY <1>2 DEF Selected
<1> HIDE DEF f, T
<1>7. f \in Surjection(S, T)
  BY <1>4, <1>5 DEF Surjection
<1>8. IsFiniteSet(T)
  BY <1>3, <1>7, FS_Surjection
<1> QED
  BY <1>6, <1>8, FS_Subset

(* Reading one source in _get_fused_inp_queues keeps the invariant.         *)
LEMMA ReadSourceInv ==
    ASSUME IInv, NEW w \in Worker, ReadSource(w)
    PROVE  IInv'
<1> DEFINE m == Current(w)
           from == Srcs[m][si[w]]
           new == Selected(from, m)
<1> USE DEF IInv
<1>0. m \in Base /\ pc[w] = "read" /\ si[w] \in DOMAIN Srcs[m]
  BY CurrentType DEF CallInv, ReadSource
<1>1. from \in Node
  BY <1>0, SourceType
<1>2. IsFiniteSet(new) /\ new \subseteq [from : Node, pos : Nat, id : Id]
  BY <1>0, <1>1, SelectedType
<1>3. readNum' \in [Node \X Base -> Nat]
  <2>1. Len(pool[from]) \in Nat
    BY <1>1 DEF TypeOK
  <2>2. <<from, m>> \in Node \X Base
    BY <1>0, <1>1
  <2> QED
    BY <2>1, <2>2 DEF ReadSource, TypeOK
<1>4. \E G \in SUBSET new : got' = [got EXCEPT ![w] = @ \cup G]
  <2>1. CASE SingleSource(m)
    BY <2>1 DEF ReadSource
  <2>2. CASE ~SingleSource(m)
    <3> DEFINE G == {x \in new : Completes(m, CountAt(m, new, x))}
    <3>1. G \in SUBSET new /\ got' = [got EXCEPT ![w] = @ \cup G]
      BY <2>2 DEF ReadSource
    <3> QED
      BY <3>1
  <2> QED
    BY <2>1, <2>2
<1>5. /\ got' \in [Worker -> SUBSET [from : Node, pos : Nat, id : Id]]
      /\ \A v \in Worker : IsFiniteSet(got'[v])
  <2>1. PICK G \in SUBSET new : got' = [got EXCEPT ![w] = @ \cup G]
    BY <1>4
  <2>2. IsFiniteSet(G) /\ IsFiniteSet(got[w])
    BY <1>2, FS_Subset DEF CallInv
  <2>3. IsFiniteSet(got[w] \cup G)
    BY <2>2, FS_Union
  <2> QED
    BY <1>2, <2>1, <2>3 DEF TypeOK, CallInv
<1>6. avail' \in [Base -> [Id -> [n : Nat, slots : SUBSET Nat]]]
  <2>1. CASE SingleSource(m)
    BY <2>1 DEF ReadSource, TypeOK
  <2>2. CASE ~SingleSource(m)
    <3> DEFINE mine(i) == {x \in new : x.id = i}
    <3>1. ASSUME NEW i \in Id
          PROVE  [n |-> avail[m][i].n + Cardinality(mine(i)),
                  slots |-> avail[m][i].slots \cup {k \in {si[w]} : mine(i) # {}}]
                    \in [n : Nat, slots : SUBSET Nat]
      <4>1. Cardinality(mine(i)) \in Nat
        BY <1>2, FS_Subset, FS_CardinalityType
      <4>2. avail[m][i] \in [n : Nat, slots : SUBSET Nat] /\ si[w] \in Nat
        BY <1>0, <3>1 DEF TypeOK
      <4> HIDE DEF mine
      <4> QED
        BY <4>1, <4>2
    <3> DEFINE row == [i \in Id |->
                        [n |-> avail[m][i].n + Cardinality(mine(i)),
                         slots |-> avail[m][i].slots \cup {k \in {si[w]} : mine(i) # {}}]]
    <3>2. avail' = [avail EXCEPT ![m] = row]
      BY <2>2 DEF ReadSource
    <3>3. row \in [Id -> [n : Nat, slots : SUBSET Nat]]
      BY <3>1
    <3> HIDE DEF row
    <3> QED
      BY <1>0, <3>2, <3>3 DEF TypeOK
  <2> QED
    BY <2>1, <2>2
<1>7. /\ si' = [si EXCEPT ![w] = @ + 1]
      /\ pc' = [pc EXCEPT ![w] = IF si[w] = Len(Srcs[m]) THEN "fuse" ELSE "read"]
      /\ UNCHANGED <<pool, queue, starts, unavailable, ungened, partNum, route,
                     outlen, fetchLock, addLock, bi, slice, out, adding, modelVars>>
  BY DEF ReadSource
<1> HIDE DEF new, from
<1> USE DEF modelVars
<1>8. TypeOK'
  <2>1. pc' \in [Worker -> CallPoints] /\ si' \in [Worker -> Nat \ {0}]
    BY <1>7 DEF TypeOK, CallPoints
  <2> QED
    BY <1>3, <1>5, <1>6, <1>7, <2>1 DEF TypeOK
<1>9. \A v \in Worker : Current(v)' = Current(v)
  BY <1>7 DEF Current
<1>10. CallInv'
  <2>1. si'[w] \in DOMAIN Srcs[m] \/ pc'[w] = "fuse"
    BY <1>0, <1>7, SourceType DEF TypeOK
  <2> QED
    BY <1>0, <1>5, <1>7, <1>9, <2>1 DEF CallInv, TypeOK
<1>11. RouteInv'
  BY <1>7 DEF RouteInv
<1>12. LocksHeld'
  BY <1>0, <1>7, <1>9 DEF LocksHeld, Fetching, Counting, TypeOK
<1> QED
  BY <1>8, <1>10, <1>11, <1>12

(* Queueing the new complete inputs keeps the invariant.                    *)
LEMMA FuseInv ==
    ASSUME IInv, NEW w \in Worker, Fuse(w)
    PROVE  IInv'
<1> DEFINE m == Current(w)
<1> USE DEF IInv
<1>0. m \in Base /\ pc[w] = "fuse"
  BY CurrentType DEF Fuse
<1>1. IsFiniteSet(got[w]) /\ got[w] \in SUBSET [from : Node, pos : Nat, id : Id]
  BY DEF CallInv, TypeOK
<1>2. queue' \in [Base -> Seq(Id)]
  <2>1. PICK f \in SortedListings(got[w]) : queue' = [queue EXCEPT ![m] = @ \o Ids(f)]
    BY DEF Fuse
  <2>2. f \in Listings(got[w]) /\ \A x \in got[w] : x.id \in Id
    BY <1>1 DEF SortedListings
  <2>3. Ids(f) \in Seq(Id)
    BY <1>1, <2>2, ListingType
  <2> QED
    BY <1>0, <2>1, <2>3 DEF TypeOK
<1>3. unavailable' \in [Base -> Int]
  BY <1>0, <1>1, FS_CardinalityType DEF Fuse, TypeOK
<1>4. /\ got' = [got EXCEPT ![w] = {}]
      /\ pc' = [pc EXCEPT ![w] = "slice"]
      /\ UNCHANGED <<pool, readNum, avail, starts, ungened, partNum, route, outlen,
                     fetchLock, addLock, bi, si, slice, out, adding, modelVars>>
  BY DEF Fuse
<1> USE DEF modelVars
<1>5. TypeOK'
  BY <1>2, <1>3, <1>4 DEF TypeOK, CallPoints
<1>6. \A v \in Worker : Current(v)' = Current(v)
  BY <1>4 DEF Current
<1>7. CallInv'
  BY <1>0, <1>4, <1>6, FS_EmptySet DEF CallInv, TypeOK
<1>8. RouteInv'
  BY <1>4 DEF RouteInv
<1>9. LocksHeld'
  BY <1>0, <1>4, <1>6 DEF LocksHeld, Fetching, Counting, TypeOK
<1> QED
  BY <1>5, <1>7, <1>8, <1>9

(* A worker in a call is one of the dp_size workers launched.               *)
LEMMA StepType ==
    ASSUME IInv, NEW w \in Worker, pc[w] # "off"
    PROVE  /\ Current(w) \in Base
           /\ dp[Model(w)] \in 0 .. MaxDP
           /\ dp[Model(w)] \in Nat \ {0}
           /\ queue[Current(w)] \in Seq(Id)
           /\ starts[Current(w)] \in [0 .. MaxDP - 1 -> Nat]
           /\ starts[Current(w)][DpId(w)] \in Nat
<1>1. Current(w) \in Base
  BY CurrentType DEF IInv
<1>2. dp[Model(w)] \in 0 .. MaxDP /\ DpId(w) < dp[Model(w)] /\ DpId(w) \in Nat
  BY WorkerType DEF IInv, TypeOK, CallInv
<1>3. dp[Model(w)] \in Nat \ {0}
  BY <1>2, BoundAssumption
<1>4. queue[Current(w)] \in Seq(Id) /\ starts[Current(w)] \in [0 .. MaxDP - 1 -> Nat]
  BY <1>1 DEF IInv, TypeOK
<1> QED
  BY <1>1, <1>2, <1>3, <1>4, WorkerType

(* Reading the worker's slice of the queue keeps the invariant.             *)
LEMMA ReadSliceInv ==
    ASSUME IInv, NEW w \in Worker, ReadSlice(w)
    PROVE  IInv'
<1> USE DEF IInv
<1>0. Current(w) \in Base /\ pc[w] = "slice"
  BY CurrentType DEF ReadSlice
<1>1. slice' \in [Worker -> Seq(Id)]
  <2>1. Stride(queue[Current(w)], starts[Current(w)][DpId(w)], dp[Model(w)]) \in Seq(Id)
    BY <1>0, StepType, StrideType
  <2> QED
    BY <2>1 DEF ReadSlice, TypeOK
<1>2. /\ pc' = [pc EXCEPT ![w] = "assign"]
      /\ UNCHANGED <<commVars, bi, si, got, out, adding, modelVars>>
  BY DEF ReadSlice
<1> USE DEF modelVars, commVars
<1>3. TypeOK'
  BY <1>1, <1>2 DEF TypeOK, CallPoints
<1>4. \A v \in Worker : Current(v)' = Current(v)
  BY <1>2 DEF Current
<1>5. CallInv'
  BY <1>0, <1>2, <1>4 DEF CallInv, TypeOK
<1>6. RouteInv'
  BY <1>2 DEF RouteInv
<1>7. LocksHeld'
  BY <1>0, <1>2, <1>4 DEF LocksHeld, Fetching, Counting, TypeOK
<1> QED
  BY <1>3, <1>5, <1>6, <1>7

(* The requests given to a worker are requests of the model's base models,  *)
(* and a fused model remembers them.                                        *)
LEMMA GiveType ==
    ASSUME IInv, NEW w \in Worker, pc[w] # "off",
           NEW ids \in SUBSET Id, Give(w, ids), out' = out
    PROVE  /\ held' \in [Worker -> SUBSET [base : Base, id : Id]]
           /\ possible' \in [Worker -> BOOLEAN]
           /\ DOMAIN route' = Shared
           /\ RouteInv'
<1> DEFINE m == Current(w)
           s == Model(w)
           new == {Request(m, i) : i \in ids}
<1> USE DEF IInv
<1>0. m \in Base /\ m \in Range(BaseOf[s]) /\ s \in Shared
  BY CurrentType, WorkerType
<1>1. held' = [held EXCEPT ![w] = @ \cup new] /\ new \subseteq [base : Base, id : Id]
  BY <1>0 DEF Give
<1>2. \A r \in new : r.id \in ids
  OBVIOUS
<1> HIDE DEF new
<1>3. held' \in [Worker -> SUBSET [base : Base, id : Id]]
  BY <1>1 DEF TypeOK
<1>4. possible' \in [Worker -> BOOLEAN] /\ DOMAIN route' = Shared
  BY DEF Give, TypeOK
<1>5. \A t \in Shared : /\ route'[t] \in [DOMAIN route'[t] -> Range(BaseOf[t])]
                         /\ DOMAIN route[t] \subseteq DOMAIN route'[t]
  BY <1>0 DEF Give, Remember, RouteInv, TypeOK
<1>6. Fused(s) => ids \subseteq DOMAIN route'[s]
  BY <1>0 DEF Give, Remember, TypeOK
<1>7. ASSUME NEW v \in Worker, NEW r \in held'[v], Fused(Model(v))
      PROVE  r.id \in DOMAIN route'[Model(v)]
  <2>1. CASE r \in held[v]
    BY <1>5, <1>7, <2>1, WorkerType DEF RouteInv
  <2>2. CASE r \notin held[v]
    <3>1. v = w /\ r \in new
      BY <1>1, <1>7, <2>2 DEF TypeOK
    <3> QED
      BY <1>2, <1>6, <1>7, <3>1
  <2> QED
    BY <2>1, <2>2
<1>8. RouteInv'
  BY <1>5, <1>7 DEF RouteInv, Fused
<1> QED
  BY <1>3, <1>4, <1>8

(* Whatever is given to it, a worker that leaves the call leaves its lock.  *)
LEMMA EndFetchInv ==
    ASSUME IInv, NEW w \in Worker, pc[w] = "assign", EndFetch(w),
           queue' \in [Base -> Seq(Id)],
           starts' \in [Base -> [0 .. MaxDP - 1 -> Nat]],
           held' \in [Worker -> SUBSET [base : Base, id : Id]],
           possible' \in [Worker -> BOOLEAN],
           DOMAIN route' = Shared,
           RouteInv'
    PROVE  IInv'
<1> USE DEF IInv
<1>0. Current(w) \in Base /\ Fetching(w, Current(w))
  BY CurrentType DEF Fetching
<1>1. bi[w] \in Nat \ {0} /\ bi[w] \in DOMAIN BaseOf[Model(w)]
  BY DEF CallInv, TypeOK
<1>2. /\ fetchLock' = [fetchLock EXCEPT ![Current(w)] = Free]
      /\ si' = [si EXCEPT ![w] = 1]
      /\ slice' = [slice EXCEPT ![w] = <<>>]
      /\ UNCHANGED <<pool, readNum, avail, unavailable, ungened, partNum, outlen,
                     addLock, got, out, adding, dp, rounds, stopping>>
  BY DEF EndFetch
<1>3. \E p \in {"get", "idle"} : pc' = [pc EXCEPT ![w] = p]
  BY DEF EndFetch
<1>4. \E i \in DOMAIN BaseOf[Model(w)] : bi' = [bi EXCEPT ![w] = i]
  <2>1. /\ Len(BaseOf[Model(w)]) \in Nat \ {0}
        /\ DOMAIN BaseOf[Model(w)] = 1 .. Len(BaseOf[Model(w)])
    BY WorkerType
  <2>2. CASE bi[w] < Len(BaseOf[Model(w)])
    <3>1. bi[w] + 1 \in DOMAIN BaseOf[Model(w)] /\ bi' = [bi EXCEPT ![w] = bi[w] + 1]
      BY <1>1, <2>1, <2>2 DEF EndFetch
    <3> QED
      BY <3>1
  <2>3. CASE ~(bi[w] < Len(BaseOf[Model(w)]))
    <3>1. 1 \in DOMAIN BaseOf[Model(w)] /\ bi' = [bi EXCEPT ![w] = 1]
      BY <2>1, <2>3 DEF EndFetch
    <3> QED
      BY <3>1
  <2> QED
    BY <2>2, <2>3
<1>5. PICK p \in {"get", "idle"} : pc' = [pc EXCEPT ![w] = p]
  BY <1>3
<1>6. PICK i \in DOMAIN BaseOf[Model(w)] : bi' = [bi EXCEPT ![w] = i]
  BY <1>4
<1>7. i \in Nat \ {0}
  BY WorkerType
<1>8. TypeOK'
  <2>1. fetchLock' \in [Base -> Worker \cup {Free}]
    BY <1>2 DEF TypeOK
  <2>2. si' \in [Worker -> Nat \ {0}]
    BY <1>2 DEF TypeOK
  <2>3. bi' \in [Worker -> Nat \ {0}]
    BY <1>6, <1>7 DEF TypeOK
  <2>4. <<>> \in Seq(Id)
    OBVIOUS
  <2>5. slice' \in [Worker -> Seq(Id)]
    BY <1>2, <2>4 DEF TypeOK
  <2>6. pc' \in [Worker -> CallPoints]
    BY <1>5 DEF TypeOK, CallPoints
  <2> QED
    BY <1>2, <2>1, <2>2, <2>3, <2>5, <2>6 DEF TypeOK
<1>9. \A v \in Worker \ {w} : Current(v)' = Current(v) /\ pc'[v] = pc[v]
  BY <1>5, <1>6 DEF Current, TypeOK
<1>10. pc'[w] = p /\ bi'[w] = i /\ si'[w] = 1
  BY <1>2, <1>5, <1>6 DEF TypeOK
<1>11. CallInv'
  <2> SUFFICES ASSUME NEW v \in Worker
               PROVE  /\ pc'[v] # "off" => DpId(v) < dp'[Model(v)]
                      /\ bi'[v] \in DOMAIN BaseOf[Model(v)]
                      /\ IF pc'[v] = "read" THEN si'[v] \in DOMAIN Srcs[Current(v)']
                         ELSE pc'[v] \in {"fuse", "slice", "assign"} \/ si'[v] = 1
                      /\ IsFiniteSet(got'[v])
    BY DEF CallInv, Current
  <2>1. CASE v = w
    BY <1>2, <1>10, <2>1 DEF CallInv
  <2>2. CASE v # w
    BY <1>2, <1>6, <1>9, <2>2 DEF CallInv, TypeOK
  <2> QED
    BY <2>1, <2>2
<1>12. LocksHeld'
  <2> SUFFICES ASSUME NEW m \in Base, NEW v \in Worker
               PROVE  /\ fetchLock'[m] = v <=> Fetching(v, m)'
                      /\ addLock'[m] = v <=> Counting(v, m)'
    BY DEF LocksHeld
  <2>1. CASE v = w
    <3>1. fetchLock'[m] # w
      <4>1. CASE m = Current(w)
        BY <1>0, <1>2, <4>1, WorkerType DEF TypeOK
      <4>2. CASE m # Current(w)
        BY <1>0, <1>2, <4>2 DEF LocksHeld, Fetching, TypeOK
      <4> QED
        BY <4>1, <4>2
    <3>2. addLock'[m] # w
      BY <1>2 DEF LocksHeld, Counting
    <3> QED
      BY <1>10, <2>1, <3>1, <3>2 DEF Fetching, Counting
  <2>2. CASE v # w
    <3>1. (Fetching(v, m)' <=> Fetching(v, m)) /\ (Counting(v, m)' <=> Counting(v, m))
      BY <1>9, <2>2 DEF Fetching, Counting
    <3>2. fetchLock'[m] = v <=> fetchLock[m] = v
      <4>1. CASE m = Current(w)
        <5>1. fetchLock[m] = w /\ fetchLock'[m] = Free
          BY <1>0, <1>2, <4>1 DEF LocksHeld, TypeOK
        <5> QED
          BY <2>2, <5>1, WorkerType
      <4>2. CASE m # Current(w)
        BY <1>2, <4>2 DEF TypeOK
      <4> QED
        BY <4>1, <4>2
    <3> QED
      BY <1>2, <3>1, <3>2 DEF LocksHeld
  <2> QED
    BY <2>1, <2>2
<1> QED
  BY <1>8, <1>11, <1>12

(* Taking the slice and returning keeps the invariant.                      *)
LEMMA TakeSliceInv ==
    ASSUME IInv, NEW w \in Worker, TakeSlice(w)
    PROVE  IInv'
<1> DEFINE m == Current(w)
           ids == Range(slice[w])
<1>0. pc[w] = "assign" /\ m \in Base
  BY StepType DEF TakeSlice
<1>1. slice[w] \in Seq(Id) /\ Len(slice[w]) \in Nat
  BY DEF IInv, TypeOK
<1>2. ids \in SUBSET Id /\ Give(w, ids) /\ EndFetch(w) /\ out' = out
  BY <1>1 DEF TakeSlice, EndFetch, Range
<1>3. starts' \in [Base -> [0 .. MaxDP - 1 -> Nat]]
  <2>1. Advance(starts[m][DpId(w)], Len(slice[w]), dp[Model(w)]) \in Nat
    BY <1>0, <1>1, StepType, AdvanceType
  <2> QED
    BY <1>0, <2>1, WorkerType DEF TakeSlice, IInv, TypeOK
<1>4. queue' \in [Base -> Seq(Id)]
  BY DEF TakeSlice, IInv, TypeOK
<1> HIDE DEF ids, m
<1> QED
  BY <1>0, <1>2, <1>3, <1>4, GiveType, EndFetchInv

(* Taking a share of the fresh queue keeps the invariant.                   *)
LEMMA TakeRebalancedInv ==
    ASSUME IInv, NEW w \in Worker, TakeRebalanced(w)
    PROVE  IInv'
<1> DEFINE m == Current(w)
           d == DpId(w)
           n == dp[Model(w)]
<1>0. pc[w] = "assign" /\ EndFetch(w) /\ out' = out
  BY DEF TakeRebalanced, Rebalance, EndFetch
<1>1. PICK q \in Requeued(m, n) :
          /\ queue' = [queue EXCEPT ![m] = q]
          /\ starts' = [starts EXCEPT ![m] =
                          [FreshStarts EXCEPT ![d] = Advance(d, Len(Stride(q, d, n)), n)]]
          /\ Give(w, Range(Stride(q, d, n)))
  BY DEF TakeRebalanced
<1>2. /\ m \in Base /\ n \in Nat \ {0} /\ d \in Nat /\ d \in 0 .. MaxDP - 1
      /\ q \in Seq(Id)
  BY <1>0, StepType, WorkerType, RequeuedType
<1>3. Stride(q, d, n) \in Seq(Id) /\ Len(Stride(q, d, n)) \in Nat
  BY <1>2, StrideType
<1>4. Range(Stride(q, d, n)) \in SUBSET Id
  BY <1>3 DEF Range
<1>5. starts' \in [Base -> [0 .. MaxDP - 1 -> Nat]]
  <2>1. Advance(d, Len(Stride(q, d, n)), n) \in Nat
    BY <1>2, <1>3, AdvanceType
  <2> QED
    BY <1>1, <1>2, <2>1, FreshStartsType DEF IInv, TypeOK
<1>6. queue' \in [Base -> Seq(Id)]
  BY <1>1, <1>2 DEF IInv, TypeOK
<1> HIDE DEF m, n, d
<1> QED
  BY <1>0, <1>1, <1>4, <1>5, <1>6, GiveType, EndFetchInv

(* Taking the first request of a short queue keeps the invariant.           *)
LEMMA TakeFirstInv ==
    ASSUME IInv, NEW w \in Worker, TakeFirst(w)
    PROVE  IInv'
<1> DEFINE m == Current(w)
<1>0. pc[w] = "assign" /\ EndFetch(w) /\ out' = out
  BY DEF TakeFirst, Rebalance, EndFetch
<1>1. PICK q \in Requeued(m, dp[Model(w)]) :
          /\ q # <<>>
          /\ queue' = [queue EXCEPT ![m] = Tail(q)]
          /\ starts' = [starts EXCEPT ![m] = FreshStarts]
          /\ Give(w, {q[1]})
  BY DEF TakeFirst
<1>2. m \in Base /\ q \in Seq(Id)
  BY <1>0, StepType, RequeuedType
<1>3. {q[1]} \in SUBSET Id /\ Tail(q) \in Seq(Id)
  BY <1>1, <1>2
<1>4. starts' \in [Base -> [0 .. MaxDP - 1 -> Nat]]
  BY <1>1, <1>2, FreshStartsType DEF IInv, TypeOK
<1>5. queue' \in [Base -> Seq(Id)]
  BY <1>1, <1>2, <1>3 DEF IInv, TypeOK
<1> HIDE DEF m
<1> QED
  BY <1>0, <1>1, <1>3, <1>4, <1>5, GiveType, EndFetchInv

(* Returning without a request keeps the invariant.                         *)
LEMMA TakeNothingInv ==
    ASSUME IInv, NEW w \in Worker, TakeNothing(w)
    PROVE  IInv'
<1> DEFINE m == Current(w)
<1>0. /\ pc[w] = "assign" /\ EndFetch(w) /\ out' = out
      /\ UNCHANGED <<held, route>>
      /\ queue' = [queue EXCEPT ![m] = <<>>]
      /\ starts' = [starts EXCEPT ![m] = FreshStarts]
      /\ possible' = [possible EXCEPT ![w] = @ \/ StillDue(m)]
  BY DEF TakeNothing, Rebalance, EndFetch
<1>1. m \in Base /\ <<>> \in Seq(Id)
  BY <1>0, StepType
<1>2. starts' \in [Base -> [0 .. MaxDP - 1 -> Nat]]
  BY <1>0, <1>1, FreshStartsType DEF IInv, TypeOK
<1>3. queue' \in [Base -> Seq(Id)]
  BY <1>0, <1>1 DEF IInv, TypeOK
<1>4. possible' \in [Worker -> BOOLEAN]
  BY <1>0 DEF IInv, TypeOK, StillDue
<1>5. /\ held' \in [Worker -> SUBSET [base : Base, id : Id]]
      /\ DOMAIN route' = Shared
  BY <1>0 DEF IInv, TypeOK
<1>6. RouteInv'
  BY <1>0 DEF IInv, RouteInv
<1> QED
  BY <1>0, <1>2, <1>3, <1>4, <1>5, <1>6, EndFetchInv

(* Stopping a model changes nothing in the communicator.                    *)
LEMMA RequestStopInv ==
    ASSUME IInv, NEW s \in Shared, RequestStop(s)
    PROVE  IInv'
<1> USE DEF IInv, RequestStop, commVars, callVars
<1>1. TypeOK'
  BY DEF TypeOK
<1>2. CallInv'
  BY DEF CallInv, Current
<1>3. RouteInv'
  BY DEF RouteInv
<1>4. LocksHeld'
  BY DEF LocksHeld, Fetching, Counting, Current
<1> QED
  BY <1>1, <1>2, <1>3, <1>4

(* A call of add_seqs files its outputs under the model's base models.      *)
LEMMA AddSeqsInv ==
    ASSUME IInv, NEW w \in Worker, AddSeqs(w)
    PROVE  IInv'
<1> DEFINE s == Model(w)
           filed(S) == {Request(RoutedBase(s, r), r.id) : r \in S}
<1> USE DEF IInv
<1>1. PICK S \in SUBSET held[w] \ {{}} :
          held' = [held EXCEPT ![w] = @ \ S] /\ out' = [out EXCEPT ![w] = filed(S)]
  BY DEF AddSeqs
<1>2. /\ pc[w] = "idle" /\ pc' = [pc EXCEPT ![w] = "add"]
      /\ UNCHANGED <<commVars, bi, si, got, slice, adding, possible, dp, rounds, stopping>>
  BY DEF AddSeqs
<1> USE DEF commVars
<1>3. ASSUME NEW r \in S
      PROVE  RoutedBase(s, r) \in Range(BaseOf[s]) /\ RoutedBase(s, r) \in Base /\ r.id \in Id
  <2>1. r \in held[w] /\ s \in Shared /\ BaseOf[s] \in Seq(Base) /\ Len(BaseOf[s]) \in Nat \ {0}
    BY <1>1, WorkerType
  <2>2. r.id \in Id
    BY <2>1 DEF TypeOK
  <2>3. CASE Fused(s)
    BY <2>1, <2>2, <2>3 DEF RoutedBase, RouteInv, Range
  <2>4. CASE ~Fused(s)
    BY <2>1, <2>2, <2>4 DEF RoutedBase, Range
  <2> QED
    BY <2>3, <2>4
<1>4. filed(S) \subseteq [base : Base, id : Id] /\ \A x \in filed(S) : x.base \in Range(BaseOf[s])
  BY <1>3
<1> HIDE DEF filed
<1>5. TypeOK'
  <2>1. /\ held' \in [Worker -> SUBSET [base : Base, id : Id]]
        /\ out' \in [Worker -> SUBSET [base : Base, id : Id]]
        /\ pc' \in [Worker -> CallPoints]
    BY <1>1, <1>2, <1>4 DEF TypeOK, CallPoints
  <2> QED
    BY <1>2, <2>1 DEF TypeOK
<1>6. \A v \in Worker : Current(v)' = Current(v)
  BY <1>2 DEF Current
<1>7. CallInv'
  BY <1>2, <1>6 DEF CallInv, TypeOK
<1>8. RouteInv'
  BY <1>1, <1>2, <1>4 DEF RouteInv, TypeOK, Fused
<1>9. LocksHeld'
  BY <1>2, <1>6 DEF LocksHeld, Fetching, Counting, TypeOK
<1> QED
  BY <1>5, <1>7, <1>8, <1>9

(* The outputs that a batch of answered requests adds to the pool.          *)
LEMMA ToAddType ==
    ASSUME TypeOK, NEW w \in Worker, NEW m \in Base,
           NEW batch, batch \subseteq out[w]
    PROVE  /\ IsFiniteSet(batch)
           /\ batch \subseteq [base : Base, id : Id]
           /\ m \in Parts => /\ IsFiniteSet(Glued(m, batch))
                             /\ Glued(m, batch) \subseteq [id : Id]
<1>1. batch \subseteq [base : Base, id : Id]
  BY DEF TypeOK
<1>2. IsFiniteSet(batch)
  BY <1>1, RequestsFinite, FS_Subset
<1>3. ASSUME m \in Parts PROVE Glued(m, batch) \subseteq [id : Id]
  <2>1. \A r \in batch : GroupOf[m][r.id] \in Id
    BY <1>1, <1>3, RequestAssumption
  <2> QED
    BY <2>1 DEF Glued
<1> QED
  BY <1>1, <1>2, <1>3, RequestsFinite, FS_Subset

(* Appending to a pool takes an add lock that nobody holds.                 *)
LEMMA AppendOutputsInv ==
    ASSUME IInv, NEW w \in Worker, NEW m \in Base, AppendOutputs(w, m)
    PROVE  /\ IInv'
           /\ \E n \in Nat :
                 /\ adding'[w].left = ungened[m] - n
                 /\ pool' = [pool EXCEPT ![m] = pool'[m]]
                 /\ Len(pool'[m]) = Len(pool[m]) + n
<1> DEFINE batch == {r \in out[w] : r.base = m}
           toAdd == IF m \in Parts THEN Glued(m, batch) ELSE batch
           bases == BaseOf[Model(w)]
           n == Cardinality(toAdd)
<1> USE DEF IInv
<1>1. /\ pc[w] = "add" /\ batch # {} /\ addLock[m] = Free
      /\ addLock' = [addLock EXCEPT ![m] = w]
      /\ partNum' = IF m \in Parts
                    THEN [partNum EXCEPT ![m] = [g \in Id |-> @[g] + PartsIn(m, batch, g)]]
                    ELSE partNum
      /\ \E f \in Listings(toAdd) : pool' = [pool EXCEPT ![m] = @ \o Ids(f)]
      /\ adding' = [adding EXCEPT ![w] = [batch |-> batch, left |-> ungened[m] - n]]
      /\ bi' = [bi EXCEPT ![w] = CHOOSE i \in DOMAIN bases : bases[i] = m]
      /\ pc' = [pc EXCEPT ![w] = "count"]
      /\ UNCHANGED <<readNum, avail, queue, starts, unavailable, ungened, route,
                     outlen, fetchLock, si, got, slice, out, modelVars>>
  BY DEF AppendOutputs, AddFree
<1>2. IsFiniteSet(batch) /\ batch \subseteq [base : Base, id : Id]
  BY ToAddType
<1>3. IsFiniteSet(toAdd) /\ \A x \in toAdd : x.id \in Id
  <2>1. CASE m \in Parts
    BY <2>1, ToAddType
  <2>2. CASE m \notin Parts
    BY <1>2, <2>2
  <2> QED
    BY <2>1, <2>2
<1>4. n \in Nat
  BY <1>3, FS_CardinalityType
<1>5. bi'[w] \in DOMAIN bases /\ Current(w)' = m
  <2>1. \E i \in DOMAIN bases : bases[i] = m
    BY <1>1 DEF RouteInv, Range
  <2> QED
    BY <1>1, <2>1 DEF Current, TypeOK
<1>6. /\ pool' \in [Node -> Seq(Id)]
      /\ pool' = [pool EXCEPT ![m] = pool'[m]]
      /\ Len(pool'[m]) = Len(pool[m]) + n
  <2>1. PICK f \in Listings(toAdd) : pool' = [pool EXCEPT ![m] = @ \o Ids(f)]
    BY <1>1
  <2> HIDE DEF toAdd
  <2>2. Ids(f) \in Seq(Id) /\ Len(Ids(f)) = n
    BY <1>3, ListingType
  <2>3. m \in Node /\ pool[m] \in Seq(Id)
    BY DEF TypeOK
  <2>4. pool[m] \o Ids(f) \in Seq(Id) /\ Len(pool[m] \o Ids(f)) = Len(pool[m]) + n
    BY <2>2, <2>3
  <2>5. pool'[m] = pool[m] \o Ids(f)
    BY <2>1, <2>3 DEF TypeOK
  <2> QED
    BY <2>1, <2>3, <2>4, <2>5 DEF TypeOK
<1>7. partNum' \in [Parts -> [Id -> Nat]]
  <2>1. \A g \in Id : PartsIn(m, batch, g) \in Nat
    BY <1>2, FS_Subset, FS_CardinalityType DEF PartsIn
  <2> HIDE DEF batch
  <2>2. CASE m \in Parts
    <3> DEFINE row == [g \in Id |-> partNum[m][g] + PartsIn(m, batch, g)]
    <3>1. partNum[m] \in [Id -> Nat]
      BY <2>2 DEF TypeOK
    <3>2. row \in [Id -> Nat]
      BY <2>1, <3>1
    <3>3. partNum' = [partNum EXCEPT ![m] = row]
      BY <1>1, <2>2
    <3> HIDE DEF row
    <3> QED
      BY <3>2, <3>3 DEF TypeOK
  <2>3. CASE m \notin Parts
    BY <1>1, <2>3 DEF TypeOK
  <2> QED
    BY <2>2, <2>3
<1> HIDE DEF batch, toAdd, n, bases
<1>8. /\ adding' \in [Worker -> [batch : SUBSET [base : Base, id : Id], left : Int]]
      /\ adding'[w].left = ungened[m] - n
  <2>1. [batch |-> batch, left |-> ungened[m] - n]
           \in [batch : SUBSET [base : Base, id : Id], left : Int]
    BY <1>2, <1>4 DEF TypeOK
  <2> QED
    BY <1>1, <2>1 DEF TypeOK
<1>9. TypeOK'
  <2>1. /\ addLock' \in [Base -> Worker \cup {Free}]
        /\ pc' \in [Worker -> CallPoints]
    BY <1>1 DEF TypeOK, CallPoints
  <2>2. bi' \in [Worker -> Nat \ {0}]
    <3>1. bi'[w] \in Nat \ {0}
      BY <1>5, WorkerType DEF bases
    <3> QED
      BY <1>1, <3>1 DEF TypeOK
  <2> QED
    BY <1>1, <1>6, <1>7, <1>8, <2>1, <2>2 DEF TypeOK, modelVars
<1>10. \A v \in Worker \ {w} : Current(v)' = Current(v) /\ pc'[v] = pc[v]
  BY <1>1 DEF Current, TypeOK
<1>11. pc'[w] = "count"
  BY <1>1 DEF TypeOK
<1>12. CallInv'
  <2> SUFFICES ASSUME NEW v \in Worker
               PROVE  /\ pc'[v] # "off" => DpId(v) < dp'[Model(v)]
                      /\ bi'[v] \in DOMAIN BaseOf[Model(v)]
                      /\ IF pc'[v] = "read" THEN si'[v] \in DOMAIN Srcs[Current(v)']
                         ELSE pc'[v] \in {"fuse", "slice", "assign"} \/ si'[v] = 1
                      /\ IsFiniteSet(got'[v])
    BY DEF CallInv, Current
  <2>1. CASE v = w
    BY <1>1, <1>5, <1>11, <2>1 DEF CallInv, modelVars, bases
  <2>2. CASE v # w
    BY <1>1, <1>10, <2>2 DEF CallInv, modelVars, TypeOK
  <2> QED
    BY <2>1, <2>2
<1>13. RouteInv'
  BY <1>1 DEF RouteInv, modelVars
<1>14. LocksHeld'
  <2> SUFFICES ASSUME NEW b \in Base, NEW v \in Worker
               PROVE  /\ fetchLock'[b] = v <=> Fetching(v, b)'
                      /\ addLock'[b] = v <=> Counting(v, b)'
    BY DEF LocksHeld
  <2>1. CASE v = w
    <3>1. ~Fetching(w, b) /\ ~Counting(w, b)
      BY <1>1 DEF Fetching, Counting
    <3>2. fetchLock'[b] # w /\ (addLock'[b] = w <=> b = m)
      BY <1>1, <3>1 DEF LocksHeld, TypeOK
    <3> QED
      BY <1>5, <1>11, <2>1, <3>2 DEF Fetching, Counting
  <2>2. CASE v # w
    <3>1. (Fetching(v, b)' <=> Fetching(v, b)) /\ (Counting(v, b)' <=> Counting(v, b))
      BY <1>10, <2>2 DEF Fetching, Counting
    <3>2. addLock'[b] = v <=> addLock[b] = v
      BY <1>1, <2>2, WorkerType DEF TypeOK
    <3> QED
      BY <1>1, <3>1, <3>2 DEF LocksHeld
  <2> QED
    BY <2>1, <2>2
<1> QED
  BY <1>4, <1>6, <1>8, <1>9, <1>12, <1>13, <1>14

(* Storing the counter gives up the add lock, and only that one.            *)
LEMMA CountOutputsInv ==
    ASSUME IInv, NEW w \in Worker, CountOutputs(w)
    PROVE  IInv'
<1> DEFINE m == Current(w)
<1> USE DEF IInv
<1>0. m \in Base /\ pc[w] = "count" /\ Counting(w, m)
  BY CurrentType DEF CountOutputs, Counting
<1>1. /\ ungened' = [ungened EXCEPT ![m] = adding[w].left]
      /\ outlen' = [outlen EXCEPT ![m] = @ \cup {r.id : r \in adding[w].batch}]
      /\ addLock' = [addLock EXCEPT ![m] = Free]
      /\ out' = [out EXCEPT ![w] = out[w] \ adding[w].batch]
      /\ adding' = [adding EXCEPT ![w] = [batch |-> {}, left |-> 0]]
      /\ bi' = [bi EXCEPT ![w] = 1]
      /\ UNCHANGED <<pool, readNum, avail, queue, starts, unavailable, partNum,
                     route, fetchLock, si, got, slice, modelVars>>
  BY DEF CountOutputs
<1>2. PICK p \in {"idle", "add"} : pc' = [pc EXCEPT ![w] = p]
  BY DEF CountOutputs
<1>3. adding[w] \in [batch : SUBSET [base : Base, id : Id], left : Int]
  BY DEF TypeOK
<1> USE DEF modelVars
<1>4. TypeOK'
  <2>1. ungened' \in [Node -> Int]
    BY <1>1, <1>3 DEF TypeOK
  <2>2. outlen' \in [Base -> SUBSET Id]
    <3>1. {r.id : r \in adding[w].batch} \subseteq Id
      BY <1>3
    <3> QED
      BY <1>1, <3>1 DEF TypeOK
  <2>3. addLock' \in [Base -> Worker \cup {Free}]
    BY <1>1 DEF TypeOK
  <2>4. out' \in [Worker -> SUBSET [base : Base, id : Id]]
    BY <1>1 DEF TypeOK
  <2>5. adding' \in [Worker -> [batch : SUBSET [base : Base, id : Id], left : Int]]
    BY <1>1 DEF TypeOK
  <2>6. bi' \in [Worker -> Nat \ {0}] /\ pc' \in [Worker -> CallPoints]
    BY <1>1, <1>2 DEF TypeOK, CallPoints
  <2> QED
    BY <1>1, <2>1, <2>2, <2>3, <2>4, <2>5, <2>6 DEF TypeOK
<1>5. \A v \in Worker \ {w} : Current(v)' = Current(v) /\ pc'[v] = pc[v]
  BY <1>1, <1>2 DEF Current, TypeOK
<1>6. pc'[w] = p /\ bi'[w] = 1
  BY <1>1, <1>2 DEF TypeOK
<1>7. CallInv'
  <2> SUFFICES ASSUME NEW v \in Worker
               PROVE  /\ pc'[v] # "off" => DpId(v) < dp'[Model(v)]
                      /\ bi'[v] \in DOMAIN BaseOf[Model(v)]
                      /\ IF pc'[v] = "read" THEN si'[v] \in DOMAIN Srcs[Current(v)']
                         ELSE pc'[v] \in {"fuse", "slice", "assign"} \/ si'[v] = 1
                      /\ IsFiniteSet(got'[v])
    BY DEF CallInv, Current
  <2>1. CASE v = w
    BY <1>0, <1>1, <1>6, <2>1, WorkerType DEF CallInv
  <2>2. CASE v # w
    BY <1>1, <1>5, <2>2 DEF CallInv, TypeOK
  <2> QED
    BY <2>1, <2>2
<1>8. RouteInv'
  BY <1>1 DEF RouteInv, Fused, TypeOK
<1>9. LocksHeld'
  <2> SUFFICES ASSUME NEW b \in Base, NEW v \in Worker
               PROVE  /\ fetchLock'[b] = v <=> Fetching(v, b)'
                      /\ addLock'[b] = v <=> Counting(v, b)'
    BY DEF LocksHeld
  <2>1. CASE v = w
    <3>1. fetchLock'[b] # w
      BY <1>0, <1>1 DEF LocksHeld, Fetching
    <3>2. addLock'[b] # w
      <4>1. CASE b = m
        BY <1>0, <1>1, <4>1, WorkerType DEF TypeOK
      <4>2. CASE b # m
        BY <1>0, <1>1, <4>2 DEF LocksHeld, Counting, TypeOK
      <4> QED
        BY <4>1, <4>2
    <3> QED
      BY <1>6, <2>1, <3>1, <3>2 DEF Fetching, Counting
  <2>2. CASE v # w
    <3>1. (Fetching(v, b)' <=> Fetching(v, b)) /\ (Counting(v, b)' <=> Counting(v, b))
      BY <1>5, <2>2 DEF Fetching, Counting
    <3>2. addLock'[b] = v <=> addLock[b] = v
      <4>1. CASE b = m
        <5>1. addLock[b] = w /\ addLock'[b] = Free
          BY <1>0, <1>1, <4>1 DEF LocksHeld, TypeOK
        <5> QED
          BY <2>2, <5>1, WorkerType
      <4>2. CASE b # m
        BY <1>1, <4>2 DEF TypeOK
      <4> QED
        BY <4>1, <4>2
    <3> QED
      BY <1>1, <3>1, <3>2 DEF LocksHeld
  <2> QED
    BY <2>1, <2>2
<1> QED
  BY <1>4, <1>7, <1>8, <1>9

(* A launch by run_vllm starts its workers outside every call.              *)
LEMMA LaunchInv ==
    ASSUME IInv, NEW s \in Shared, NEW d \in Plans[s], Launch(s, d)
    PROVE  IInv'
<1> DEFINE bases == Range(BaseOf[s])
           unfinished == UNION {held[w] : w \in WorkersOf(s)}
<1> USE DEF IInv
<1>1. /\ \A w \in WorkersOf(s) : pc[w] = "off"
      /\ \E q \in [bases -> UNION {Requeued(m, dp[s]) : m \in bases}] :
            /\ \A m \in bases : q[m] \in Requeued(m, dp[s])
            /\ queue' = [m \in Base |-> IF m \in bases THEN q[m] ELSE queue[m]]
      /\ starts' = [m \in Base |-> IF m \in bases THEN FreshStarts ELSE starts[m]]
      /\ \E f \in SortedListings(unfinished) :
            held' = [w \in Worker |-> IF Model(w) # s THEN held[w]
                                      ELSE Dealt(f, DpId(w), d)]
      /\ pc' = [w \in Worker |-> IF Model(w) = s /\ DpId(w) < d THEN "idle" ELSE pc[w]]
      /\ possible' = [w \in Worker |-> IF Model(w) = s THEN TRUE ELSE possible[w]]
      /\ dp' = [dp EXCEPT ![s] = d]
      /\ rounds' = [rounds EXCEPT ![s] = @ + 1]
      /\ stopping' = [stopping EXCEPT ![s] = FALSE]
      /\ UNCHANGED <<pool, readNum, avail, unavailable, ungened, partNum, route,
                     outlen, fetchLock, addLock, bi, si, got, slice, out, adding>>
  BY DEF Launch
<1>2. d \in 1 .. MaxDP /\ dp[s] \in 0 .. MaxDP
  BY BoundAssumption DEF TypeOK
<1>3. queue' \in [Base -> Seq(Id)]
  <2>1. PICK q \in [bases -> UNION {Requeued(m, dp[s]) : m \in bases}] :
            /\ \A m \in bases : q[m] \in Requeued(m, dp[s])
            /\ queue' = [m \in Base |-> IF m \in bases THEN q[m] ELSE queue[m]]
    BY <1>1
  <2>2. ASSUME NEW m \in Base, m \in bases PROVE q[m] \in Seq(Id)
    <3>1. queue[m] \in Seq(Id) /\ starts[m] \in [0 .. MaxDP - 1 -> Nat]
      BY DEF TypeOK
    <3> QED
      BY <1>2, <2>1, <2>2, <3>1, RequeuedType
  <2> QED
    BY <2>1, <2>2 DEF TypeOK
<1>4. starts' \in [Base -> [0 .. MaxDP - 1 -> Nat]]
  BY <1>1, FreshStartsType DEF TypeOK
<1>5. \A w \in Worker :
         IF Model(w) # s THEN held'[w] = held[w]
         ELSE \A r \in held'[w] : \E v \in WorkersOf(s) : r \in held[v]
  <2>1. PICK f \in SortedListings(unfinished) :
            held' = [w \in Worker |-> IF Model(w) # s THEN held[w]
                                      ELSE Dealt(f, DpId(w), d)]
    BY <1>1
  <2>2. \A k \in DOMAIN f : f[k] \in unfinished
    BY DEF SortedListings, Listings, Injection
  <2> HIDE DEF unfinished
  <2>3. \A w \in Worker : Dealt(f, DpId(w), d) \subseteq unfinished
    BY <2>2 DEF Dealt
  <2> QED
    BY <2>1, <2>3 DEF unfinished
<1>6. held' \in [Worker -> SUBSET [base : Base, id : Id]]
  <2>1. \A w \in Worker : held'[w] \subseteq [base : Base, id : Id]
    BY <1>5 DEF TypeOK, WorkersOf
  <2> QED
    BY <1>1, <2>1
<1> HIDE DEF bases, unfinished
<1>7. TypeOK'
  <2>1. /\ pc' \in [Worker -> CallPoints]
        /\ possible' \in [Worker -> BOOLEAN]
    BY <1>1 DEF TypeOK, CallPoints
  <2>2. /\ dp' \in [Shared -> 0 .. MaxDP]
        /\ rounds' \in [Shared -> Nat]
        /\ stopping' \in [Shared -> BOOLEAN]
    BY <1>1, <1>2 DEF TypeOK
  <2> QED
    BY <1>1, <1>3, <1>4, <1>6, <2>1, <2>2 DEF TypeOK
<1>8. \A w \in Worker :
         /\ Current(w)' = Current(w)
         /\ pc'[w] = pc[w] \/ (pc[w] = "off" /\ pc'[w] = "idle")
         /\ pc'[w] # "off" => DpId(w) < dp'[Model(w)]
  <2> SUFFICES ASSUME NEW w \in Worker
               PROVE  /\ Current(w)' = Current(w)
                      /\ pc'[w] = pc[w] \/ (pc[w] = "off" /\ pc'[w] = "idle")
                      /\ pc'[w] # "off" => DpId(w) < dp'[Model(w)]
    OBVIOUS
  <2>1. Current(w)' = Current(w)
    BY <1>1 DEF Current
  <2>2. CASE Model(w) = s
    BY <1>1, <2>1, <2>2 DEF TypeOK, WorkersOf
  <2>3. CASE Model(w) # s
    BY <1>1, <2>1, <2>3, WorkerType DEF TypeOK, CallInv
  <2> QED
    BY <2>2, <2>3
<1>9. CallInv'
  BY <1>1, <1>8 DEF CallInv
<1>10. RouteInv'
  <2>1. ASSUME NEW w \in Worker, NEW r \in held'[w], Fused(Model(w))
        PROVE  r.id \in DOMAIN route[Model(w)]
    BY <1>5, <2>1 DEF RouteInv, WorkersOf
  <2> QED
    BY <1>1, <2>1 DEF RouteInv, Fused
<1>11. LocksHeld'
  BY <1>1, <1>8 DEF LocksHeld, Fetching, Counting
<1> QED
  BY <1>7, <1>9, <1>10, <1>11

(* The invariant holds of a new communicator.                               *)
LEMMA InitInv == Init => IInv
<1> SUFFICES ASSUME Init PROVE IInv
  OBVIOUS
<1> USE DEF Init
<1>1. TypeOK
  <2>1. pool \in [Node -> Seq(Id)]
    BY RequestAssumption
  <2>2. starts \in [Base -> [0 .. MaxDP - 1 -> Nat]]
    BY FreshStartsType
  <2>3. \A m \in Base : Cardinality(InpIds[m]) \in Nat
    BY RequestAssumption, GraphAssumption, FS_Subset, FS_CardinalityType
  <2>4. unavailable \in [Base -> Int] /\ ungened \in [Node -> Int]
    BY <2>3 DEF InitialUngened
  <2>5. dp \in [Shared -> 0 .. MaxDP]
    BY BoundAssumption
  <2> QED
    BY <2>1, <2>2, <2>4, <2>5 DEF TypeOK, CallPoints
<1>2. CallInv
  BY WorkerType, FS_EmptySet DEF CallInv
<1>3. RouteInv
  BY DEF RouteInv
<1>4. LocksHeld
  BY WorkerType DEF LocksHeld, Fetching, Counting
<1> QED
  BY <1>1, <1>2, <1>3, <1>4 DEF IInv

(* A step that changes nothing keeps the invariant.                         *)
LEMMA StutterInv ==
    ASSUME IInv, UNCHANGED vars
    PROVE  IInv'
<1> USE DEF IInv, vars, commVars, callVars, modelVars
<1>1. TypeOK'
  BY DEF TypeOK
<1>2. CallInv'
  BY DEF CallInv, Current
<1>3. RouteInv'
  BY DEF RouteInv
<1>4. LocksHeld'
  BY DEF LocksHeld, Fetching, Counting, Current
<1> QED
  BY <1>1, <1>2, <1>3, <1>4

(* Every step keeps the invariant: one case per action.                     *)
LEMMA NextInv ==
    ASSUME IInv, [Next]_vars
    PROVE  IInv'
<1>1. ASSUME NEW s \in Shared, RequestStop(s) PROVE IInv'
  BY <1>1, RequestStopInv
<1>2. ASSUME NEW s \in Shared, NEW d \in Plans[s], Launch(s, d) PROVE IInv'
  BY <1>2, LaunchInv
<1>3. ASSUME NEW w \in Worker, GetSeqs(w) \/ AddSeqs(w) \/ Leave(w) PROVE IInv'
  BY <1>3, GetSeqsInv, AddSeqsInv, LeaveInv
<1>4. ASSUME NEW w \in Worker, Call(w) PROVE IInv'
  <2>1. CASE AcquireFetch(w) \/ ReadSource(w) \/ Fuse(w) \/ ReadSlice(w)
    BY <2>1, AcquireFetchInv, ReadSourceInv, FuseInv, ReadSliceInv
  <2>2. CASE TakeSlice(w) \/ TakeRebalanced(w) \/ TakeFirst(w) \/ TakeNothing(w)
    BY <2>2, TakeSliceInv, TakeRebalancedInv, TakeFirstInv, TakeNothingInv
  <2>3. CASE \E m \in Base : AppendOutputs(w, m)
    BY <2>3, AppendOutputsInv
  <2>4. CASE CountOutputs(w)
    BY <2>4, CountOutputsInv
  <2> QED
    BY <1>4, <2>1, <2>2, <2>3, <2>4 DEF Call
<1>5. CASE UNCHANGED vars
  BY <1>5, StutterInv
<1> QED
  BY <1>1, <1>2, <1>3, <1>4, <1>5 DEF Next, Done

(* The type invariant and the locks together are inductive: what get_seqs   *)
(* and add_seqs do under the locks keeps the state of the communicator in   *)
(* its types, and the types make the calls serve models that exist.         *)
THEOREM Invariance == Spec => []IInv
<1>1. Init => IInv
  BY InitInv
<1>2. IInv /\ [Next]_vars => IInv'
  BY NextInv
<1> QED
  BY <1>1, <1>2, PTL DEF Spec

(* Type correctness of the communicator, the calls and the engines.         *)
THEOREM TypeCorrectness == Spec => []TypeOK
<1>1. IInv => TypeOK
  BY DEF IInv
<1> QED
  BY <1>1, Invariance, PTL

(* The locks of _fetch_req_locks and _add_req_locks are held by exactly the *)
(* calls inside get_seqs_base_model and add_seqs_base_model.                *)
THEOREM Locking == Spec => []LocksHeld
<1>1. IInv => LocksHeld
  BY DEF IInv
<1> QED
  BY <1>1, Invariance, PTL

(* No two calls of get_seqs are inside get_seqs_base_model for one model:   *)
(* nothing comes between reading a queue and advancing the position in it.  *)
THEOREM FetchExclusion ==
    Spec => [](\A m \in Base : \A v, w \in Worker :
                  Fetching(v, m) /\ Fetching(w, m) => v = w)
<1>1. IInv => \A m \in Base : \A v, w \in Worker :
                 Fetching(v, m) /\ Fetching(w, m) => v = w
  <2> SUFFICES ASSUME IInv, NEW m \in Base, NEW v \in Worker, NEW w \in Worker,
                      Fetching(v, m), Fetching(w, m)
               PROVE  v = w
    OBVIOUS
  <2>1. fetchLock[m] = v /\ fetchLock[m] = w
    BY DEF IInv, LocksHeld
  <2> QED
    BY <2>1
<1> QED
  BY <1>1, Invariance, PTL

----------------------------------------------------------------------------
(* The counters of missing outputs.                                         *)

(* Counters, pools and locks change in add_seqs only, and there together.   *)
LEMMA CountersKept ==
    ASSUME IInv, IInv', UngenedExact, LeftExact,
           UNCHANGED <<pool, ungened, addLock, adding>>
    PROVE  UngenedExact' /\ LeftExact'
<1>1. UngenedExact'
  BY DEF UngenedExact
<1>2. \A m \in Base : \A w \in Worker : Counting(w, m)' => Counting(w, m)
  BY DEF IInv, LocksHeld
<1>3. LeftExact'
  BY <1>2 DEF LeftExact
<1> QED
  BY <1>1, <1>3

(* A call that appends outputs is about to store what is then left.         *)
LEMMA AppendExact ==
    ASSUME IInv, UngenedExact, LeftExact,
           NEW w \in Worker, NEW m \in Base, AppendOutputs(w, m)
    PROVE  UngenedExact' /\ LeftExact'
<1>1. PICK n \in Nat : /\ adding'[w].left = ungened[m] - n
                       /\ pool' = [pool EXCEPT ![m] = pool'[m]]
                       /\ Len(pool'[m]) = Len(pool[m]) + n
  BY AppendOutputsInv
<1>2. /\ addLock[m] = Free
      /\ addLock' = [addLock EXCEPT ![m] = w]
      /\ adding' = [adding EXCEPT ![w] = adding'[w]]
      /\ ungened' = ungened
  BY DEF AppendOutputs, AddFree, IInv, TypeOK
<1>3. /\ ungened[m] = Cardinality(InpIds[m]) - Len(pool[m])
      /\ ungened[m] \in Int /\ Len(pool[m]) \in Nat
  BY <1>2 DEF UngenedExact, IInv, TypeOK
<1>4. Cardinality(InpIds[m]) \in Nat
  BY RequestAssumption, GraphAssumption, FS_Subset, FS_CardinalityType
<1>5. adding'[w].left = Cardinality(InpIds[m]) - Len(pool'[m])
  BY <1>1, <1>3, <1>4
<1>6. \A b \in Base \ {m} : pool'[b] = pool[b] /\ addLock'[b] = addLock[b]
  BY <1>1, <1>2 DEF IInv, TypeOK
<1>7. addLock'[m] = w
  BY <1>2 DEF IInv, TypeOK
<1>8. UngenedExact'
  BY <1>2, <1>6, <1>7, WorkerType DEF UngenedExact
<1>9. LeftExact'
  <2> SUFFICES ASSUME NEW b \in Base, NEW v \in Worker, Counting(v, b)'
               PROVE  adding'[v].left = Cardinality(InpIds[b]) - Len(pool'[b])
    BY DEF LeftExact
  <2>1. addLock'[b] = v
    BY AppendOutputsInv DEF IInv, LocksHeld
  <2>2. CASE b = m
    BY <1>5, <1>7, <2>1, <2>2
  <2>3. CASE b # m
    <3>1. addLock[b] = v /\ pool'[b] = pool[b]
      BY <1>6, <2>1, <2>3
    <3>2. Counting(v, b) /\ v # w
      BY <3>1 DEF IInv, LocksHeld, Counting, AppendOutputs
    <3>3. adding'[v] = adding[v]
      BY <1>2, <3>2 DEF IInv, TypeOK
    <3> QED
      BY <3>1, <3>2, <3>3 DEF LeftExact
  <2> QED
    BY <2>2, <2>3
<1> QED
  BY <1>8, <1>9

(* Storing what is left makes the counter exact.                            *)
LEMMA CountExact ==
    ASSUME IInv, UngenedExact, LeftExact, NEW w \in Worker, CountOutputs(w)
    PROVE  UngenedExact' /\ LeftExact'
<1> DEFINE m == Current(w)
<1>1. m \in Base /\ Counting(w, m)
  BY CurrentType DEF IInv, CountOutputs, Counting
<1>2. /\ ungened' = [ungened EXCEPT ![m] = adding[w].left]
      /\ addLock' = [addLock EXCEPT ![m] = Free]
      /\ adding' = [adding EXCEPT ![w] = [batch |-> {}, left |-> 0]]
      /\ pool' = pool
  BY DEF CountOutputs
<1>3. adding[w].left = Cardinality(InpIds[m]) - Len(pool[m])
  BY <1>1 DEF LeftExact
<1> HIDE DEF m
<1>4. UngenedExact'
  <2> SUFFICES ASSUME NEW b \in Base, addLock'[b] = Free
               PROVE  ungened'[b] = Cardinality(InpIds[b]) - Len(pool[b])
    BY <1>2 DEF UngenedExact
  <2>1. CASE b = m
    BY <1>2, <1>3, <2>1 DEF IInv, TypeOK
  <2>2. CASE b # m
    BY <1>1, <1>2, <2>2 DEF UngenedExact, IInv, TypeOK
  <2> QED
    BY <2>1, <2>2
<1>5. LeftExact'
  <2> SUFFICES ASSUME NEW b \in Base, NEW v \in Worker, Counting(v, b)'
               PROVE  adding'[v].left = Cardinality(InpIds[b]) - Len(pool[b])
    BY <1>2 DEF LeftExact
  <2>1. addLock'[b] = v
    BY CountOutputsInv DEF IInv, LocksHeld
  <2>2. b # m /\ addLock[b] = v
    BY <1>1, <1>2, <2>1, WorkerType DEF IInv, TypeOK
  <2>3. Counting(v, b) /\ v # w
    BY <1>1, <2>2 DEF IInv, LocksHeld, Counting
  <2> QED
    BY <1>2, <2>3 DEF LeftExact, IInv, TypeOK
<1> QED
  BY <1>4, <1>5

(* Every step keeps the counters exact.                                     *)
LEMMA NextExact ==
    ASSUME IInv, UngenedExact, LeftExact, [Next]_vars
    PROVE  UngenedExact' /\ LeftExact'
<1>1. IInv'
  BY NextInv
<1>2. CASE UNCHANGED <<pool, ungened, addLock, adding>>
  BY <1>1, <1>2, CountersKept
<1>3. CASE \E w \in Worker : CountOutputs(w) \/ \E m \in Base : AppendOutputs(w, m)
  BY <1>3, AppendExact, CountExact
<1>4. ASSUME NEW s \in Shared, RequestStop(s) \/ \E d \in Plans[s] : Launch(s, d)
      PROVE  UNCHANGED <<pool, ungened, addLock, adding>>
  BY <1>4 DEF RequestStop, Launch, commVars, callVars
<1>5. ASSUME NEW w \in Worker, GetSeqs(w) \/ AddSeqs(w) \/ Leave(w)
      PROVE  UNCHANGED <<pool, ungened, addLock, adding>>
  BY <1>5 DEF GetSeqs, AddSeqs, Leave, commVars
<1>6. ASSUME NEW w \in Worker,
             AcquireFetch(w) \/ ReadSource(w) \/ Fuse(w) \/ ReadSlice(w)
      PROVE  UNCHANGED <<pool, ungened, addLock, adding>>
  BY <1>6 DEF AcquireFetch, ReadSource, Fuse, ReadSlice, commVars
<1>7. ASSUME NEW w \in Worker,
             TakeSlice(w) \/ TakeRebalanced(w) \/ TakeFirst(w) \/ TakeNothing(w)
      PROVE  UNCHANGED <<pool, ungened, addLock, adding>>
  BY <1>7 DEF TakeSlice, TakeRebalanced, TakeFirst, TakeNothing, EndFetch
<1>8. CASE UNCHANGED vars
  BY <1>2, <1>8 DEF vars, commVars, callVars
<1> QED
  BY <1>2, <1>3, <1>4, <1>5, <1>6, <1>7, <1>8 DEF Next, Call, Done

(* The counters start at the number of requests, the pools empty.           *)
LEMMA InitExact == Init => UngenedExact /\ LeftExact
<1> SUFFICES ASSUME Init PROVE UngenedExact /\ LeftExact
  OBVIOUS
<1>1. LeftExact
  BY DEF Init, LeftExact, Counting
<1>2. ASSUME NEW m \in Base
      PROVE  ungened[m] = Cardinality(InpIds[m]) - Len(pool[m])
  <2>1. Cardinality(InpIds[m]) \in Nat
    BY RequestAssumption, GraphAssumption, FS_Subset, FS_CardinalityType
  <2>2. ungened[m] = Cardinality(InpIds[m]) /\ pool[m] = <<>>
    BY GraphAssumption DEF Init, InitialUngened
  <2> QED
    BY <2>1, <2>2
<1> QED
  BY <1>1, <1>2 DEF UngenedExact

(* The number of outputs a model still has to produce, from which           *)
(* _get_correct_lock concludes that its pool may be read without a lock, is *)
(* exact whenever the model's lock is free.                                 *)
THEOREM CountersExact == Spec => []UngenedExact
<1>1. Init => UngenedExact /\ LeftExact
  BY InitExact
<1>2. IInv /\ UngenedExact /\ LeftExact /\ [Next]_vars => UngenedExact' /\ LeftExact'
  BY NextExact
<1> QED
  BY <1>1, <1>2, Invariance, PTL DEF Spec

----------------------------------------------------------------------------
(* The positions of the workers in the queues.                              *)

(* Every base model belongs to the one running model OwnerOf names.         *)
LEMMA OwnerType ==
    /\ \A m \in Base : OwnerOf(m) \in Shared /\ m \in Range(BaseOf[OwnerOf(m)])
    /\ \A m \in Base, s \in Shared : m \in Range(BaseOf[s]) => s = OwnerOf(m)
<1>1. ASSUME NEW m \in Base
      PROVE  /\ OwnerOf(m) \in Shared
             /\ \E i \in DOMAIN BaseOf[OwnerOf(m)] : BaseOf[OwnerOf(m)][i] = m
  <2>1. \E s \in Shared : \E i \in DOMAIN BaseOf[s] : BaseOf[s][i] = m
    BY GraphAssumption DEF Range
  <2> QED
    BY <2>1 DEF OwnerOf
<1>2. ASSUME NEW m \in Base, NEW s \in Shared, m \in Range(BaseOf[s])
      PROVE  s = OwnerOf(m)
  <2>1. PICK i \in DOMAIN BaseOf[s] : BaseOf[s][i] = m
    BY <1>2 DEF Range
  <2>2. PICK j \in DOMAIN BaseOf[OwnerOf(m)] : BaseOf[OwnerOf(m)][j] = m
    BY <1>1
  <2> QED
    BY <1>1, <2>1, <2>2, GraphAssumption
<1> QED
  BY <1>1, <1>2 DEF Range

(* A call serves base models of the worker's own model.                     *)
LEMMA CurrentOwner ==
    ASSUME IInv, NEW w \in Worker
    PROVE  Current(w) \in Base /\ OwnerOf(Current(w)) = Model(w)
BY CurrentType, OwnerType, WorkerType DEF IInv

(* A position advanced by multiples of n stays congruent modulo n.          *)
LEMMA ModAdvance ==
    ASSUME NEW a \in Nat, NEW n \in Nat, NEW s \in Nat \ {0}
    PROVE  Advance(a, n, s) % s = a % s
<1> DEFINE q == a \div s
           r == a % s
<1>1. q \in Nat /\ r \in 0 .. s - 1
  BY DivBounds
<1>2. r = a - q * s
  OBVIOUS
<1> HIDE DEF q, r
<1>3. q * s \in Nat /\ n * s \in Nat /\ q + n \in Nat
  BY <1>1
<1>4. (q + n) * s = q * s + n * s /\ (q + n) * s = s * (q + n)
  BY <1>1
<1>5. a + n * s = s * (q + n) + r
  BY <1>1, <1>2, <1>3, <1>4
<1>6. (s * (q + n) + r) % s = r
  BY <1>1, <1>3
<1> QED
  BY <1>5, <1>6 DEF Advance, r

(* The fresh start position of worker d is congruent to d.                  *)
LEMMA FreshStride ==
    ASSUME NEW n \in 0 .. MaxDP, NEW d \in 0 .. n - 1
    PROVE  FreshStarts[d] % n = d
<1>1. n \in Nat /\ d \in Nat /\ d < n /\ d \in 0 .. MaxDP - 1
  BY BoundAssumption
<1>2. d % n = d
  BY <1>1
<1> QED
  BY <1>1, <1>2 DEF FreshStarts

(* The positions of the workers of m in its queue stay congruent to the     *)
(* workers: they are kept, or reset, or one of them advances by a multiple  *)
(* of the number of workers.                                                *)
Aligned(m) ==
    \A d \in 0 .. dp[OwnerOf(m)] - 1 : starts[m][d] % dp[OwnerOf(m)] = d

(* A step that keeps dp_size and the positions keeps them aligned.          *)
LEMMA KeptAligned ==
    ASSUME NEW m \in Base, Aligned(m),
           starts'[m] = starts[m], dp'[OwnerOf(m)] = dp[OwnerOf(m)]
    PROVE  Aligned(m)'
BY DEF Aligned, OwnerOf

(* The positions of _reset_state_for_model are aligned.                     *)
LEMMA ResetAligned ==
    ASSUME NEW m \in Base, starts'[m] = FreshStarts, dp'[OwnerOf(m)] \in 0 .. MaxDP
    PROVE  Aligned(m)'
BY FreshStride DEF Aligned, OwnerOf

(* The positions stay aligned when one worker advances its own.             *)
LEMMA AdvancedAligned ==
    ASSUME NEW m \in Base, NEW size \in Nat \ {0},
           dp[OwnerOf(m)] = size, dp' = dp,
           NEW f \in [0 .. MaxDP - 1 -> Nat], \A e \in 0 .. size - 1 : f[e] % size = e,
           NEW d \in 0 .. MaxDP - 1, NEW n \in Nat,
           starts'[m] = [f EXCEPT ![d] = Advance(f[d], n, size)]
    PROVE  Aligned(m)'
<1> SUFFICES ASSUME NEW e \in 0 .. size - 1
             PROVE  starts'[m][e] % size = e
  BY DEF Aligned, OwnerOf
<1>1. f[e] % size = e
  OBVIOUS
<1>2. CASE e = d
  <2>1. f[e] \in Nat
    BY <1>2
  <2>2. Advance(f[e], n, size) % size = f[e] % size
    BY <2>1, ModAdvance
  <2>3. starts'[m][e] = Advance(f[e], n, size)
    BY <1>2
  <2> QED
    BY <1>1, <2>2, <2>3
<1>3. CASE e # d
  BY <1>1, <1>3
<1> QED
  BY <1>2, <1>3

(* They are aligned if they are for the one base model that changed.        *)
LEMMA AlignedRest ==
    ASSUME IInv, StrideInv, dp' = dp, NEW m \in Base, Aligned(m)',
           starts' = [starts EXCEPT ![m] = starts'[m]]
    PROVE  StrideInv'
<1> SUFFICES ASSUME NEW b \in Base PROVE Aligned(b)'
  BY DEF StrideInv, Aligned
<1>1. CASE b = m
  BY <1>1
<1>2. CASE b # m
  <2>1. starts'[b] = starts[b] /\ Aligned(b)
    BY <1>2 DEF IInv, TypeOK, StrideInv, Aligned
  <2> QED
    BY <2>1, KeptAligned
<1> QED
  BY <1>1, <1>2

(* The four ways in which get_seqs_base_model returns keep them aligned.    *)
LEMMA TakeStride ==
    ASSUME IInv, StrideInv, NEW w \in Worker,
           TakeSlice(w) \/ TakeRebalanced(w) \/ TakeFirst(w) \/ TakeNothing(w)
    PROVE  StrideInv'
<1> DEFINE d == DpId(w)
<1>m. PICK m \in Base : m = Current(w)
  BY CurrentOwner
<1>n. PICK n \in 0 .. MaxDP : n = dp[Model(w)]
  BY WorkerType DEF IInv, TypeOK
<1>0. /\ OwnerOf(m) = Model(w)
      /\ pc[w] = "assign" /\ dp' = dp
      /\ d \in 0 .. MaxDP - 1 /\ d \in Nat
  BY <1>m, CurrentOwner, WorkerType
     DEF TakeSlice, TakeRebalanced, TakeFirst, TakeNothing, Rebalance, EndFetch
<1>1. /\ n \in Nat \ {0}
      /\ starts[m] \in [0 .. MaxDP - 1 -> Nat]
      /\ starts \in [Base -> [0 .. MaxDP - 1 -> Nat]]
  BY <1>m, <1>n, <1>0, StepType DEF IInv, TypeOK
<1> HIDE DEF d
<1>2. CASE TakeSlice(w)
  <2>1. Len(slice[w]) \in Nat
    BY DEF IInv, TypeOK
  <2>2. starts' = [starts EXCEPT ![m] =
                     [starts[m] EXCEPT ![d] = Advance(starts[m][d], Len(slice[w]), n)]]
    BY <1>m, <1>n, <1>2 DEF TakeSlice, d
  <2>3. starts'[m] = [starts[m] EXCEPT ![d] = Advance(starts[m][d], Len(slice[w]), n)]
    BY <1>0, <1>1, <2>2
  <2>4. \A e \in 0 .. n - 1 : starts[m][e] % n = e
    BY <1>n, <1>0 DEF StrideInv
  <2>5. Aligned(m)'
    <3>1. PICK f \in [0 .. MaxDP - 1 -> Nat], k \in Nat, e \in 0 .. MaxDP - 1 :
            f = starts[m] /\ k = Len(slice[w]) /\ e = d
      BY <1>0, <1>1, <2>1
    <3>2. starts'[m] = [f EXCEPT ![e] = Advance(f[e], k, n)]
      BY <2>3, <3>1
    <3>3. \A i \in 0 .. n - 1 : f[i] % n = i
      BY <2>4, <3>1
    <3>4. n \in Nat \ {0} /\ dp[OwnerOf(m)] = n /\ dp' = dp
      BY <1>n, <1>0, <1>1
    <3> QED
      BY <3>2, <3>3, <3>4, AdvancedAligned, Zenon
  <2>6. starts' = [starts EXCEPT ![m] = starts'[m]]
    BY <2>2, <2>3
  <2> QED
    BY <1>0, <2>5, <2>6, AlignedRest
<1>3. CASE TakeRebalanced(w)
  <2>1. PICK q \in Requeued(m, n) :
          starts' = [starts EXCEPT ![m] =
                      [FreshStarts EXCEPT ![d] = Advance(d, Len(Stride(q, d, n)), n)]]
    BY <1>m, <1>n, <1>3 DEF TakeRebalanced, d
  <2>2. q \in Seq(Id)
    BY <1>m, <1>0, <1>1, StepType, RequeuedType
  <2>3. Len(Stride(q, d, n)) \in Nat
    BY <1>0, <1>1, <2>2, StrideType
  <2>4. FreshStarts[d] = d /\ \A e \in 0 .. n - 1 : FreshStarts[e] % n = e
    BY <1>0, <1>1, FreshStride DEF FreshStarts
  <2>5. starts'[m] = [FreshStarts EXCEPT ![d] = Advance(FreshStarts[d], Len(Stride(q, d, n)), n)]
    BY <1>0, <1>1, <2>1, <2>4
  <2>6. Aligned(m)'
    <3>1. PICK f \in [0 .. MaxDP - 1 -> Nat], k \in Nat, e \in 0 .. MaxDP - 1 :
            f = FreshStarts /\ k = Len(Stride(q, d, n)) /\ e = d
      BY <1>0, <2>3, FreshStartsType
    <3>2. starts'[m] = [f EXCEPT ![e] = Advance(f[e], k, n)]
      BY <2>5, <3>1
    <3>3. \A i \in 0 .. n - 1 : f[i] % n = i
      BY <2>4, <3>1
    <3>4. n \in Nat \ {0} /\ dp[OwnerOf(m)] = n /\ dp' = dp
      BY <1>n, <1>0, <1>1
    <3> QED
      BY <3>2, <3>3, <3>4, AdvancedAligned, Zenon
  <2>7. starts' = [starts EXCEPT ![m] = starts'[m]]
    BY <1>0, <1>1, <2>1
  <2> QED
    BY <1>0, <2>6, <2>7, AlignedRest
<1>4. CASE TakeFirst(w) \/ TakeNothing(w)
  <2>1. starts' = [starts EXCEPT ![m] = FreshStarts]
    BY <1>m, <1>4 DEF TakeFirst, TakeNothing
  <2>2. starts'[m] = FreshStarts
    BY <1>0, <1>1, <2>1
  <2>3. Aligned(m)'
    BY <1>n, <1>0, <1>1, <2>2, ResetAligned
  <2> QED
    BY <1>0, <2>1, <2>2, <2>3, AlignedRest
<1> QED
  BY <1>2, <1>3, <1>4

(* A launch aligns the positions to the new dp_size.                        *)
LEMMA LaunchStride ==
    ASSUME IInv, StrideInv, NEW s \in Shared, NEW d \in Plans[s], Launch(s, d)
    PROVE  StrideInv'
<1>0. IInv'
  BY LaunchInv
<1>1. /\ starts' = [m \in Base |-> IF m \in Range(BaseOf[s]) THEN FreshStarts ELSE starts[m]]
      /\ dp' = [dp EXCEPT ![s] = d]
  BY DEF Launch
<1> SUFFICES ASSUME NEW m \in Base PROVE Aligned(m)'
  BY DEF StrideInv, Aligned
<1>2. CASE m \in Range(BaseOf[s])
  <2>1. OwnerOf(m) \in Shared /\ starts'[m] = FreshStarts
    BY <1>1, <1>2, OwnerType
  <2>2. dp'[OwnerOf(m)] \in 0 .. MaxDP
    BY <1>0, <2>1 DEF IInv, TypeOK
  <2> QED
    BY <2>1, <2>2, ResetAligned
<1>3. CASE m \notin Range(BaseOf[s])
  <2>1. OwnerOf(m) # s /\ OwnerOf(m) \in Shared
    BY <1>3, OwnerType
  <2>2. starts'[m] = starts[m] /\ dp'[OwnerOf(m)] = dp[OwnerOf(m)]
    BY <1>1, <1>3, <2>1 DEF IInv, TypeOK
  <2>3. Aligned(m)
    BY DEF StrideInv, Aligned
  <2> QED
    BY <2>2, <2>3, KeptAligned
<1> QED
  BY <1>2, <1>3

(* Every step keeps the positions aligned.                                  *)
LEMMA NextStride ==
    ASSUME IInv, StrideInv, [Next]_vars
    PROVE  StrideInv'
<1>1. CASE UNCHANGED <<starts, dp>>
  BY <1>1 DEF StrideInv, OwnerOf
<1>2. ASSUME NEW s \in Shared, NEW d \in Plans[s], Launch(s, d) PROVE StrideInv'
  BY <1>2, LaunchStride
<1>3. ASSUME NEW w \in Worker,
             TakeSlice(w) \/ TakeRebalanced(w) \/ TakeFirst(w) \/ TakeNothing(w)
      PROVE  StrideInv'
  BY <1>3, TakeStride
<1>4. ASSUME NEW s \in Shared, RequestStop(s) PROVE UNCHANGED <<starts, dp>>
  BY <1>4 DEF RequestStop, commVars
<1>5. ASSUME NEW w \in Worker, GetSeqs(w) \/ AddSeqs(w) \/ Leave(w)
      PROVE  UNCHANGED <<starts, dp>>
  BY <1>5 DEF GetSeqs, AddSeqs, Leave, commVars, modelVars
<1>6. ASSUME NEW w \in Worker,
             AcquireFetch(w) \/ ReadSource(w) \/ Fuse(w) \/ ReadSlice(w)
      PROVE  UNCHANGED <<starts, dp>>
  BY <1>6 DEF AcquireFetch, ReadSource, Fuse, ReadSlice, commVars, modelVars
<1>7. ASSUME NEW w \in Worker,
             CountOutputs(w) \/ \E m \in Base : AppendOutputs(w, m)
      PROVE  UNCHANGED <<starts, dp>>
  BY <1>7 DEF CountOutputs, AppendOutputs, modelVars
<1>8. CASE UNCHANGED vars
  BY <1>1, <1>8 DEF vars, commVars, modelVars
<1> QED
  BY <1>1, <1>2, <1>3, <1>4, <1>5, <1>6, <1>7, <1>8 DEF Next, Call, Done

(* No worker has a position before the first launch.                        *)
LEMMA InitStride == Init => StrideInv
<1> SUFFICES ASSUME Init, NEW m \in Base, NEW d \in 0 .. dp[OwnerOf(m)] - 1
             PROVE  starts[m][d] % dp[OwnerOf(m)] = d
  BY DEF StrideInv
<1>1. dp[OwnerOf(m)] = 0
  BY OwnerType DEF Init
<1> QED
  BY <1>1

(* Worker d of dp_size workers only ever stands at positions congruent to   *)
(* d: no two workers read the same position of a queue.                     *)
THEOREM StridesDisjoint == Spec => []StrideInv
<1>1. Init => StrideInv
  BY InitStride
<1>2. IInv /\ StrideInv /\ [Next]_vars => StrideInv'
  BY NextStride
<1> QED
  BY <1>1, <1>2, Invariance, PTL DEF Spec
============================================================================
