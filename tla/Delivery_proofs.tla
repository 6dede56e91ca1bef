-------------------------- MODULE Delivery_proofs --------------------------
(***************************************************************************)
(* For every system of models, data-parallel sizes and requests: a request  *)
(* is released once, after its sources, to the base model it is filed       *)
(* under, is never left behind, and outputs are glued when they are whole.  *)
(* The first part shows that every action keeps the invariant of Delivery,  *)
(* the second what follows from it, the refinement of Dispatch included.    *)
(***************************************************************************)
EXTENDS Queue_proofs

USE DEF Node, Free, Model, DpId

----------------------------------------------------------------------------
(* The steps of one worker leave the calls of the others alone.             *)

Untouched(v) ==
    /\ pc'[v] = pc[v] /\ bi'[v] = bi[v] /\ got'[v] = got[v] /\ slice'[v] = slice[v]
    /\ out'[v] = out[v] /\ adding'[v] = adding[v] /\ held'[v] = held[v]

Serves(w) == \/ GetSeqs(w) \/ AddSeqs(w) \/ Leave(w)
             \/ AcquireFetch(w) \/ ReadSource(w) \/ Fuse(w) \/ ReadSlice(w)
             \/ Take(w) \/ CountOutputs(w) \/ \E m \in Base : AppendOutputs(w, m)

(* A step of one worker leaves the requests and the place of the call of    *)
(* every other worker alone.                                                *)
LEMMA OthersUntouched ==
    ASSUME TypeOK, NEW w \in Worker, Serves(w), NEW v \in Worker, v # w
    PROVE  Untouched(v) /\ dp' = dp
<1> USE DEF Untouched, TypeOK
<1>1. CASE GetSeqs(w) \/ AddSeqs(w) \/ Leave(w)
  <2>1. CASE GetSeqs(w)
    BY <2>1 DEF GetSeqs, commVars, modelVars
  <2>2. CASE AddSeqs(w)
    BY <2>2 DEF AddSeqs, commVars, modelVars
  <2>3. CASE Leave(w)
    BY <2>3 DEF Leave, commVars, modelVars
  <2> QED
    BY <1>1, <2>1, <2>2, <2>3
<1>2. CASE AcquireFetch(w) \/ ReadSource(w) \/ Fuse(w) \/ ReadSlice(w)
  <2>1. CASE AcquireFetch(w)
    BY <2>1 DEF AcquireFetch, commVars, modelVars
  <2>2. CASE ReadSource(w)
    BY <2>2 DEF ReadSource, commVars, modelVars
  <2>3. CASE Fuse(w)
    BY <2>3 DEF Fuse, commVars, modelVars
  <2>4. CASE ReadSlice(w)
    BY <2>4 DEF ReadSlice, commVars, modelVars
  <2> QED
    BY <1>2, <2>1, <2>2, <2>3, <2>4
<1>3. CASE Take(w)
  <2>1. EndFetch(w) /\ (held' = held \/ \E ids : Give(w, ids))
    BY <1>3 DEF Take, TakeSlice, TakeRebalanced, TakeFirst, TakeNothing
  <2>2. held'[v] = held[v]
    BY <2>1 DEF Give
  <2> QED
    BY <2>1, <2>2 DEF EndFetch
<1>4. CASE CountOutputs(w) \/ \E m \in Base : AppendOutputs(w, m)
  <2>1. CASE CountOutputs(w)
    BY <2>1 DEF CountOutputs, modelVars
  <2>2. ASSUME NEW m \in Base, AppendOutputs(w, m) PROVE Untouched(v) /\ dp' = dp
    BY <2>2 DEF AppendOutputs, modelVars
  <2> QED
    BY <1>4, <2>1, <2>2
<1> QED
  BY <1>1, <1>2, <1>3, <1>4 DEF Serves

(* A step of the specification is one of these.                             *)
LEMMA StepCases ==
    ASSUME [Next]_vars
    PROVE  \/ \E s \in Shared : RequestStop(s) \/ \E d \in Plans[s] : Launch(s, d)
           \/ \E w \in Worker : Serves(w)
           \/ UNCHANGED vars
BY DEF Next, Call, Done, Serves, Take

(* A worker that another one leaves alone is at the same point of its call, *)
(* and if it has read its slice, the slice is still its.                    *)
LEMMA OthersOk ==
    ASSUME CallState, NEW v \in Worker, Untouched(v), dp'[Model(v)] = dp[Model(v)],
           pc[v] = "assign" => /\ queue'[Current(v)] = queue[Current(v)]
                               /\ starts'[Current(v)] = starts[Current(v)]
    PROVE  CallOk(v)'
<1>1. CallOk(v) /\ Current(v)' = Current(v)
  BY DEF CallState, Untouched, Current
<1> QED
  BY <1>1 DEF CallOk, Untouched

(* Every step of a worker keeps its call in order.                          *)
LEMMA ServesCallState ==
    ASSUME IInv, StrideInv, CallState, Tight, Exclusive, FoundNew,
           NEW w \in Worker, Serves(w)
    PROVE  CallState'
<1>0. TypeOK /\ CallOk(w)
  BY DEF IInv, CallState
<1>1. ASSUME NEW v \in Worker, v # w PROVE CallOk(v)'
  <2>1. Untouched(v) /\ dp' = dp
    BY <1>0, <1>1, OthersUntouched
  <2>2. ASSUME pc[v] = "assign"
        PROVE  queue'[Current(v)] = queue[Current(v)] /\ starts'[Current(v)] = starts[Current(v)]
    <3> DEFINE b == Current(v)
    <3>1. b \in Base /\ Current(w) \in Base
      BY CurrentType DEF IInv
    <3>2. CASE Take(w)
      <4>1. PICK m, T : TakesFrom(w, m, T)
        BY <3>2, TakeEffect
      <4>2. m = Current(w) /\ pc[w] = "assign"
        BY <4>1 DEF TakesFrom
      <4>3. b # m
        BY <1>1, <2>2, <3>1, <4>2 DEF IInv, LocksHeld, Fetching
      <4> QED
        BY <3>1, <4>1, <4>3 DEF TakesFrom
    <3>3. CASE Fuse(w)
      <4>1. pc[w] = "fuse" /\ starts' = starts
        BY <3>3 DEF Fuse
      <4>2. b # Current(w)
        BY <1>1, <2>2, <3>1, <4>1 DEF IInv, LocksHeld, Fetching
      <4> QED
        BY <3>1, <3>3, <4>1, <4>2 DEF Fuse, IInv, TypeOK
    <3>4. CASE ~Take(w) /\ ~Fuse(w)
      BY <3>4 DEF Serves, GetSeqs, AddSeqs, Leave, AcquireFetch, ReadSource, ReadSlice,
                  CountOutputs, AppendOutputs, commVars
    <3> QED
      BY <3>2, <3>3, <3>4
  <2> QED
    BY <2>1, <2>2, OthersOk
<1>2. CallOk(w)'
  <2>1. CASE GetSeqs(w) \/ AddSeqs(w) \/ Leave(w)
    BY <1>0, <2>1 DEF CallOk, TypeOK, GetSeqs, AddSeqs, Leave, commVars, modelVars, IInv, CallInv
  <2>2. CASE AcquireFetch(w) \/ ReadSource(w) \/ Fuse(w) \/ ReadSlice(w)
    <3>1. /\ pc'[w] \in {"read", "fuse", "slice", "assign"}
          /\ pc[w] \in {"get", "read", "fuse", "slice"}
          /\ bi' = bi /\ held' = held /\ out' = out /\ adding' = adding /\ dp' = dp
      BY <1>0, <2>2 DEF TypeOK, AcquireFetch, ReadSource, Fuse, ReadSlice, commVars, modelVars
    <3>2. pc'[w] \in {"slice", "assign"} => got'[w] = {}
      BY <1>0, <2>2 DEF TypeOK, CallOk, AcquireFetch, ReadSource, Fuse, ReadSlice
    <3>3. pc'[w] = "assign" => ReadSlice(w)
      BY <1>0, <2>2 DEF TypeOK, AcquireFetch, ReadSource, Fuse
    <3>4. pc'[w] = "assign" =>
             slice'[w] = Stride(queue'[Current(w)'], starts'[Current(w)'][DpId(w)], dp'[Model(w)])
      BY <1>0, <3>1, <3>3 DEF TypeOK, ReadSlice, commVars, Current
    <3> QED
      BY <1>0, <3>1, <3>2, <3>4 DEF CallOk
  <2>3. CASE Take(w)
    <3>1. PICK m, T : TakesFrom(w, m, T)
      BY <2>3, TakeEffect
    <3>2. /\ pc[w] = "assign" /\ EndFetch(w)
          /\ pc'[w] \in {"get", "idle"} /\ (pc'[w] = "idle" => bi'[w] = 1)
          /\ got' = got /\ out' = out /\ adding' = adding /\ dp' = dp
      BY <1>0, <3>1 DEF TakesFrom, EndFetch, TypeOK
    <3>3. DpId(w) < dp[Model(w)] /\ DpId(w) \in Nat /\ dp[Model(w)] \in Nat
      BY <3>2, WorkerType, StepType DEF IInv, CallInv
    <3> QED
      BY <1>0, <3>2, <3>3 DEF CallOk
  <2>4. CASE CountOutputs(w)
    <3>1. /\ pc[w] = "count" /\ pc'[w] \in {"idle", "add"} /\ bi'[w] = 1
          /\ got' = got /\ held' = held /\ dp' = dp
          /\ adding'[w].batch = {} /\ (pc'[w] = "idle" => out'[w] = {})
      BY <1>0, <2>4 DEF TypeOK, CountOutputs, modelVars
    <3> QED
      BY <1>0, <3>1 DEF CallOk
  <2>5. ASSUME NEW m \in Base, AppendOutputs(w, m) PROVE CallOk(w)'
    <3>1. /\ pc[w] = "add" /\ pc'[w] = "count"
          /\ got' = got /\ held' = held /\ dp' = dp /\ out' = out
          /\ adding'[w].batch = {r \in out[w] : r.base = m} /\ {r \in out[w] : r.base = m} # {}
      BY <1>0, <2>5 DEF TypeOK, AppendOutputs, modelVars
    <3>2. IInv' /\ addLock'[m] = w
      BY <1>0, <2>5, AppendOutputsInv DEF AppendOutputs, TypeOK
    <3>3. Current(w)' = m
      BY <3>2 DEF IInv, LocksHeld, Counting
    <3> QED
      BY <1>0, <3>1, <3>3 DEF CallOk
  <2> QED
    BY <2>1, <2>2, <2>3, <2>4, <2>5 DEF Serves
<1> QED
  BY <1>1, <1>2 DEF CallState

----------------------------------------------------------------------------
(* Where a request is, before and after a step.                             *)

OneOwner(m, i) ==
    /\ \A v, w \in Worker : Has(v, m, i) /\ Has(w, m, i) => v = w
    /\ \A w \in Worker :
          /\ Request(m, i) \notin held[w] \cap out[w]
          /\ Has(w, m, i) => ~Queued(m, i) /\ i \notin outlen[m]
    /\ ~(Queued(m, i) /\ i \in outlen[m])

SameReleased == \A m \in Base, i \in Id : Released(m, i)' <=> Released(m, i)
SameFound == \A m \in Base, i \in Id : Found(m, i)' <=> Found(m, i)
SameCollected == \A m \in Base, i \in Id : Collected(m, i)' <=> Collected(m, i)
SameAdded == \A m \in Base, i \in Id : Added(m, i)' <=> Added(m, i)
Grown == \A m \in Base, i \in Id : Added(m, i) => Added(m, i)'

(* Exclusive, request by request.                                           *)
LEMMA ExclusiveParts ==
    Exclusive <=> \A m \in Base : Distinct(Waiting(m)) /\ \A i \in Id : OneOwner(m, i)
BY DEF Exclusive, OneOwner, Distinct

(* A request is queued when its id is waiting.                              *)
LEMMA QueuedIds ==
    ASSUME NEW m, NEW i
    PROVE  /\ Queued(m, i) <=> i \in IdsOf(Waiting(m))
           /\ Queued(m, i)' <=> i \in IdsOf(Waiting(m)')
BY DEF Queued, IdsOf

(* When no request is released, Due stays.                                  *)
LEMMA DueKept ==
    ASSUME Due, SameReleased, unavailable' = unavailable
    PROVE  Due'
<1> SUFFICES ASSUME NEW m \in Base
             PROVE  /\ \A i \in Id : Released(m, i)' => i \in InpIds[m]
                    /\ unavailable[m] = Cardinality({i \in InpIds[m] : ~Released(m, i)'})
  BY DEF Due
<1>1. {i \in InpIds[m] : ~Released(m, i)'} = {i \in InpIds[m] : ~Released(m, i)}
  BY RequestAssumption DEF SameReleased
<1> QED
  BY <1>1 DEF Due, SameReleased

(* When no request is found or released, what was found is still new.       *)
LEMMA FoundNewKept ==
    ASSUME FoundNew, SameReleased, SameFound, got' = got
    PROVE  FoundNew'
BY DEF FoundNew, SameReleased, SameFound

(* When nothing is appended, the pools still are what was added.            *)
LEMMA PooledKept ==
    ASSUME Pooled, SameAdded, pool' = pool, partNum' = partNum
    PROVE  Pooled'
<1> SUFFICES ASSUME NEW m \in Base, m \in Parts, NEW g \in Id
             PROVE  /\ partNum[m][g] = Cardinality({i \in PartsOf(m, g) : Added(m, i)'})
                    /\ g \in Range(pool[m]) <=>
                          PartsOf(m, g) # {} /\ \A i \in PartsOf(m, g) : Added(m, i)'
  BY DEF Pooled, SameAdded
<1>1. PartsOf(m, g) \subseteq Id
  BY RequestAssumption DEF PartsOf
<1>2. {i \in PartsOf(m, g) : Added(m, i)'} = {i \in PartsOf(m, g) : Added(m, i)}
  BY <1>1 DEF SameAdded
<1> QED
  BY <1>1, <1>2 DEF Pooled, SameAdded

(* When get_seqs reads nothing, what was read stays read: the pools only    *)
(* grow, and so do the requests answered.                                   *)
Extended ==
    \A n \in Node : /\ pool[n] \in Seq(Id) /\ pool'[n] \in Seq(Id)
                    /\ Len(pool[n]) <= Len(pool'[n])
                    /\ \A p \in 1 .. Len(pool[n]) : pool'[n][p] = pool[n][p]
Answering == \A m \in Base : outlen[m] \subseteq outlen'[m]

(* Pools only grow at their end, so what was read of one stays what was     *)
(* read.                                                                    *)
LEMMA ReadForKept ==
    ASSUME TypeOK, ReadAnswered, Extended, readNum' = readNum,
           NEW m \in Base, NEW from \in Node, NEW i
    PROVE  ReadFor(from, m, i)' <=> ReadFor(from, m, i)
<1>1. /\ readNum[<<from, m>>] \in Nat /\ Len(pool[from]) \in Nat
      /\ readNum[<<from, m>>] <= Len(pool[from])
  BY DEF TypeOK, ReadAnswered
<1>2. \A p \in 1 .. readNum[<<from, m>>] : pool'[from][p] = pool[from][p]
  BY <1>1 DEF Extended
<1> QED
  BY <1>2 DEF ReadFor

(* What was read stays answered while outputs are only added.               *)
LEMMA ReadAnsweredKept ==
    ASSUME TypeOK, ReadAnswered, Extended, Answering, readNum' = readNum
    PROVE  ReadAnswered'
<1> SUFFICES ASSUME NEW m \in Base, NEW from \in Node
             PROVE  /\ readNum[<<from, m>>] <= Len(pool'[from])
                    /\ from \in Base => \A p \in 1 .. readNum[<<from, m>>] :
                          IF from \in Parts THEN PartsOf(from, pool'[from][p]) \subseteq outlen'[from]
                                            ELSE pool'[from][p] \in outlen'[from]
  BY DEF ReadAnswered, PartsOf
<1>1. /\ readNum[<<from, m>>] \in Nat
      /\ Len(pool[from]) \in Nat /\ Len(pool'[from]) \in Nat
      /\ readNum[<<from, m>>] <= Len(pool[from]) /\ Len(pool[from]) <= Len(pool'[from])
  BY DEF TypeOK, ReadAnswered, Extended
<1>2. \A p \in 1 .. readNum[<<from, m>>] : pool'[from][p] = pool[from][p]
  BY <1>1 DEF Extended
<1> QED
  BY <1>1, <1>2 DEF ReadAnswered, Answering

(* The account of collected requests holds on while no source is read and   *)
(* no request collected.                                                    *)
LEMMA ReadExactKept ==
    ASSUME TypeOK, ReadAnswered, ReadExact, Extended, SameCollected,
           readNum' = readNum, avail' = avail
    PROVE  ReadExact'
<1> SUFFICES ASSUME NEW m \in Base, NEW i \in Id
             PROVE  /\ Collected(m, i)' <=> AllRead(m, i)'
                    /\ ~SingleSource(m) =>
                          /\ avail[m][i].slots = {k \in DOMAIN Srcs[m] : ReadFor(Srcs[m][k], m, i)'}
                          /\ avail[m][i].n = Cardinality(avail[m][i].slots)
  BY DEF ReadExact, SingleSource
<1>1. \A from \in Node : ReadFor(from, m, i)' <=> ReadFor(from, m, i)
  BY ReadForKept
<1>2. \A k \in DOMAIN Srcs[m] : Srcs[m][k] \in Node
  BY SourceType
<1>3. Range(Srcs[m]) \subseteq Node
  BY <1>2 DEF Range
<1>4. AllRead(m, i)' <=> AllRead(m, i)
  BY <1>1, <1>3 DEF AllRead, SingleSource
<1>5. Collected(m, i)' <=> Collected(m, i)
  BY DEF SameCollected
<1>6. {k \in DOMAIN Srcs[m] : ReadFor(Srcs[m][k], m, i)'} = {k \in DOMAIN Srcs[m] : ReadFor(Srcs[m][k], m, i)}
  BY <1>1, <1>2
<1> QED
  BY <1>4, <1>5, <1>6 DEF ReadExact

(* The order of the base models of a fused model holds on while no request  *)
(* is collected.                                                            *)
LEMMA ChainedKept ==
    ASSUME Chained, SameCollected, Grown
    PROVE  Chained'
<1>1. \A s \in Shared : \A a \in DOMAIN BaseOf[s] : BaseOf[s][a] \in Base
  BY GraphAssumption
<1>2. \A m \in Base : InpIds[m] \subseteq Id
  BY RequestAssumption
<1> SUFFICES ASSUME NEW s \in Shared, NEW a \in DOMAIN BaseOf[s], NEW b \in DOMAIN BaseOf[s],
                    a < b, NEW i \in InpIds[BaseOf[s][a]] \cap InpIds[BaseOf[s][b]],
                    Collected(BaseOf[s][b], i)'
             PROVE  Added(BaseOf[s][a], i)'
  BY DEF Chained
<1>3. Collected(BaseOf[s][b], i)
  BY <1>1, <1>2 DEF SameCollected
<1> QED
  BY <1>1, <1>2, <1>3 DEF Chained, Grown

(* When nothing is found, SameReleased is SameCollected.                    *)
LEMMA CollectedKept ==
    ASSUME SameReleased, SameFound
    PROVE  SameCollected
BY DEF SameReleased, SameFound, SameCollected, Collected

(* What calls have found stays the same when a call moves to its next base  *)
(* model with nothing found.                                                *)
LEMMA FoundKept ==
    ASSUME got' = got, \A v \in Worker : got[v] = {} \/ bi'[v] = bi[v]
    PROVE  SameFound
<1> SUFFICES ASSUME NEW m \in Base, NEW i \in Id PROVE Found(m, i)' <=> Found(m, i)
  BY DEF SameFound
<1>1. \A v \in Worker : (Current(v)' = m /\ \E x \in got[v] : x.id = i)
                            <=> (Current(v) = m /\ \E x \in got[v] : x.id = i)
  BY DEF Current
<1> QED
  BY <1>1 DEF Found

(* A step that appends nothing and reads nothing keeps what the pools and   *)
(* _available_srcs say.                                                     *)
Flow == Pooled /\ ReadAnswered /\ ReadExact /\ Chained

(* A step that reads no source, collects nothing and adds nothing keeps the *)
(* flow of outputs exact.                                                   *)
LEMMA FlowKept ==
    ASSUME TypeOK, Flow, SameAdded, SameCollected, Answering,
           pool' = pool, partNum' = partNum, readNum' = readNum, avail' = avail
    PROVE  Flow'
<1>1. Extended
  BY DEF Extended, TypeOK
<1>2. Grown
  BY DEF Grown, SameAdded
<1> QED
  BY <1>1, <1>2, PooledKept, ReadAnsweredKept, ReadExactKept, ChainedKept DEF Flow

(* Nobody starts to count, and the counter of who counts is left alone.     *)
LEMMA CountingKept ==
    ASSUME LocksHeld, LocksHeld', CountingPositive,
           \A m \in Base : addLock'[m] # Free => addLock'[m] = addLock[m] /\ ungened'[m] = ungened[m]
    PROVE  CountingPositive'
<1> SUFFICES ASSUME NEW m \in Base, NEW w \in Worker, Counting(w, m)'
             PROVE  ungened'[m] > 0
  BY DEF CountingPositive
<1>1. addLock'[m] = w /\ w # Free
  BY WorkerType DEF LocksHeld
<1>2. Counting(w, m)
  BY <1>1 DEF LocksHeld
<1> QED
  BY <1>1, <1>2 DEF CountingPositive

(* Steps that leave the queues, the engines and the outputs alone.          *)
Quiet == UNCHANGED <<pool, readNum, avail, queue, starts, unavailable, ungened, partNum,
                     route, outlen, addLock, bi, got, out, adding, held, dp>>
Placed == Tight /\ Exclusive /\ Due /\ FoundNew /\ HeldRouted

(* A step that leaves the queues and the workers' requests alone leaves     *)
(* every request in its place.                                              *)
LEMMA PlacedUnchanged ==
    ASSUME Placed, UNCHANGED <<queue, starts, unavailable, route, outlen, out, held, dp>>
    PROVE  /\ Tight' /\ Exclusive' /\ Due' /\ HeldRouted' /\ SameReleased
           /\ \A m \in Base : Waiting(m)' = Waiting(m)
<1>1. \A m \in Base : Waiting(m)' = Waiting(m)
  BY SameWaiting
<1>2. \A m \in Base, i \in Id : Queued(m, i)' <=> Queued(m, i)
  BY <1>1 DEF Queued
<1>3. \A w \in Worker, m \in Base, i \in Id : Has(w, m, i)' <=> Has(w, m, i)
  BY DEF Has
<1>4. SameReleased
  BY <1>2, <1>3 DEF SameReleased, Released
<1>5. Exclusive'
  BY <1>1, <1>2, <1>3 DEF Exclusive, Placed
<1>6. Due'
  BY <1>4, DueKept DEF Placed
<1>7. Tight'
  BY DEF Tight, Placed, OwnerOf
<1>8. HeldRouted'
  BY DEF HeldRouted, Placed
<1> QED
  BY <1>1, <1>4, <1>5, <1>6, <1>7, <1>8

(* A step that moves no request and no output keeps the invariant.          *)
LEMMA QuietKept ==
    ASSUME TypeOK, LocksHeld, LocksHeld', Placed, Flow, CountingPositive, Quiet
    PROVE  Placed' /\ Flow' /\ CountingPositive'
<1> USE DEF Quiet
<1>1. Tight' /\ Exclusive' /\ Due' /\ HeldRouted' /\ SameReleased
  BY PlacedUnchanged
<1>2. SameFound /\ SameAdded
  BY FoundKept DEF SameAdded, Added
<1>3. FoundNew'
  BY <1>1, <1>2, FoundNewKept DEF Placed
<1>4. Flow'
  BY <1>1, <1>2, CollectedKept, FlowKept DEF Answering
<1>5. CountingPositive'
  BY CountingKept
<1> QED
  BY <1>1, <1>3, <1>4, <1>5 DEF Placed

----------------------------------------------------------------------------
(* What the pools hold, and what that says of the requests.                 *)

(* A request that was added was released.                                   *)
LEMMA AddedReleased ==
    ASSUME CallState, NEW m \in Base, NEW i \in Id, Added(m, i)
    PROVE  Released(m, i)
<1>1. CASE i \in outlen[m]
  BY <1>1 DEF Released
<1>2. ASSUME NEW w \in Worker, Request(m, i) \in adding[w].batch
      PROVE  Released(m, i)
  <2>1. CallOk(w)
    BY DEF CallState
  <2>2. Request(m, i) \in out[w]
    BY <1>2, <2>1 DEF CallOk
  <2> QED
    BY <2>2 DEF Released, Has
<1> QED
  BY <1>1, <1>2 DEF Added

(* Every output in a pool is one of the outputs of the node.                *)
LEMMA PoolIds ==
    ASSUME TypeOK, CallState, Due, Pooled, NEW from \in Node, NEW p \in 1 .. Len(pool[from])
    PROVE  pool[from][p] \in OutputIds(from) /\ pool[from][p] \in Id
<1>1. pool[from] \in Seq(Id) /\ pool[from][p] \in Id
  BY DEF TypeOK
<1>2. pool[from][p] \in Range(pool[from])
  BY <1>1 DEF Range
<1>3. CASE from \in Dummy
  BY <1>1, <1>2, <1>3 DEF Pooled, OutputIds
<1>4. CASE from \in Base /\ from \notin Parts
  <2>1. Added(from, pool[from][p])
    BY <1>1, <1>2, <1>4 DEF Pooled
  <2>2. pool[from][p] \in InpIds[from]
    BY <1>1, <1>4, <2>1, AddedReleased DEF Due
  <2> QED
    BY <1>1, <1>4, <2>2, GraphAssumption DEF OutputIds
<1>5. CASE from \in Parts
  <2>1. from \in Base /\ from \notin Dummy
    BY <1>5, RequestAssumption, GraphAssumption
  <2>2. PartsOf(from, pool[from][p]) # {}
    BY <1>1, <1>2, <1>5, <2>1 DEF Pooled
  <2> QED
    BY <1>1, <1>5, <2>1, <2>2 DEF PartsOf, OutputIds
<1> QED
  BY <1>3, <1>4, <1>5

(* What is read of a source makes the request.                              *)
LEMMA ReadMakes ==
    ASSUME TypeOK, CallState, Due, Pooled, ReadAnswered,
           NEW m \in Base, NEW from \in Node, NEW i \in Id, ReadFor(from, m, i)
    PROVE  \E g \in Id : Makes(from, g, m, i)
<1>1. PICK p \in 1 .. readNum[<<from, m>>] : i \in Feeds[<<m, from, pool[from][p]>>]
  BY DEF ReadFor
<1>2. /\ readNum[<<from, m>>] \in Nat /\ Len(pool[from]) \in Nat
      /\ readNum[<<from, m>>] <= Len(pool[from])
  BY DEF TypeOK, ReadAnswered
<1>3. p \in 1 .. Len(pool[from])
  BY <1>2
<1> QED
  BY <1>1, <1>3, PoolIds DEF Makes

(* Whatever was collected is a request the application counts.              *)
LEMMA AllReadDue ==
    ASSUME TypeOK, CallState, Due, Pooled, ReadAnswered,
           NEW m \in Base, NEW i \in Id, AllRead(m, i)
    PROVE  i \in InpIds[m]
<1>1. Range(Srcs[m]) \subseteq Node
  BY SourceType DEF Range
<1>2. \A from \in Range(Srcs[m]) : ReadFor(from, m, i) => \E g \in Id : Makes(from, g, m, i)
  BY <1>1, ReadMakes
<1>3. CASE SingleSource(m)
  <2>1. \E from \in Range(Srcs[m]) : \E g \in Id : Makes(from, g, m, i)
    BY <1>2, <1>3 DEF AllRead
  <2> QED
    BY <1>3, <2>1, FeedsAssumption
<1>4. CASE ~SingleSource(m)
  <2>1. \A from \in Range(Srcs[m]) : \E g \in Id : Makes(from, g, m, i)
    BY <1>2, <1>4 DEF AllRead
  <2> QED
    BY <1>4, <2>1, FeedsAssumption
<1> QED
  BY <1>3, <1>4

----------------------------------------------------------------------------
(* Fuse: what a call has found is queued.                                   *)

(* The call that has the fetch lock is the only one that has found          *)
(* something for its base model.                                            *)
LEMMA FoundAlone ==
    ASSUME IInv, CallState, NEW w \in Worker, pc[w] \in {"read", "fuse"},
           NEW v \in Worker, Current(v) = Current(w), got[v] # {}
    PROVE  v = w
<1>1. Current(w) \in Base
  BY CurrentType DEF IInv
<1>2. pc[v] \in {"read", "fuse"}
  BY DEF CallState, CallOk
<1> QED
  BY <1>1, <1>2 DEF IInv, LocksHeld, Fetching

(* While a worker is in get_seqs_base_model, what is found for the base     *)
(* model is what that worker found.                                         *)
LEMMA FoundBy ==
    ASSUME IInv, CallState, NEW w \in Worker, pc[w] \in {"read", "fuse"},
           NEW m, m = Current(w), NEW i
    PROVE  Found(m, i) <=> i \in IdsOf(got[w])
BY FoundAlone DEF Found, IdsOf

(* Taking a part of a finite set away takes its number away.                *)
LEMMA SubsetDifference ==
    ASSUME NEW S, IsFiniteSet(S), NEW T, T \subseteq S
    PROVE  /\ IsFiniteSet(T) /\ IsFiniteSet(S \ T)
           /\ Cardinality(T) \in Nat /\ Cardinality(S) \in Nat /\ Cardinality(S \ T) \in Nat
           /\ Cardinality(S \ T) = Cardinality(S) - Cardinality(T)
<1>1. IsFiniteSet(T) /\ IsFiniteSet(S \ T)
  BY FS_Subset
<1>2. T \cup (S \ T) = S /\ T \cap (S \ T) = {}
  OBVIOUS
<1>3. Cardinality(T \cup (S \ T))
        = Cardinality(T) + Cardinality(S \ T) - Cardinality(T \cap (S \ T))
  BY <1>1, FS_Union
<1>4. Cardinality(S) = Cardinality(T) + Cardinality(S \ T) - Cardinality({})
  BY <1>2, <1>3
<1>5. Cardinality(T) \in Nat /\ Cardinality(S) \in Nat /\ Cardinality(S \ T) \in Nat
  BY <1>1, FS_CardinalityType
<1>6. Cardinality(S \ T) = Cardinality(S) - Cardinality(T)
  BY <1>4, <1>5, FS_EmptySet
<1> QED
  BY <1>1, <1>5, <1>6

(* Requests found once count as often as their ids.                         *)
LEMMA DistinctCardinality ==
    ASSUME NEW S, IsFiniteSet(S), Distinct(S)
    PROVE  IsFiniteSet(IdsOf(S)) /\ Cardinality(IdsOf(S)) = Cardinality(S)
<1> DEFINE f == [x \in S |-> x.id]
<1>1. f \in Bijection(S, IdsOf(S))
  BY DEF Bijection, Injection, Surjection, Distinct, IdsOf, IsInjective
<1> QED
  BY <1>1, FS_Bijection DEF ExistsBijection

(* Queueing the new complete inputs moves each of them from the call to the *)
(* queue, once.                                                             *)
LEMMA FuseKept ==
    ASSUME DInv, IInv', StrideInv', NEW w \in Worker, Fuse(w)
    PROVE  Placed' /\ Flow' /\ CountingPositive'
<1>a. PICK m, new : m = Current(w) /\ new = IdsOf(got[w])
  OBVIOUS
<1>0. /\ TypeOK /\ IInv /\ CallInv /\ StrideInv /\ CallState /\ Tight /\ Exclusive /\ Due /\ FoundNew
      /\ Flow /\ HeldRouted /\ CountingPositive /\ LocksHeld /\ LocksHeld' /\ ReadExact
  BY DEF DInv, Delivered, IInv, Flow
<1>1. /\ m \in Base /\ pc[w] = "fuse"
      /\ got' = [got EXCEPT ![w] = {}] /\ got'[w] = {}
      /\ unavailable' = [unavailable EXCEPT ![m] = @ - Cardinality(got[w])]
      /\ UNCHANGED <<pool, readNum, avail, starts, ungened, partNum, route, outlen,
                     addLock, bi, out, adding, held, dp>>
  BY <1>0, <1>a, CurrentType DEF Fuse, modelVars, TypeOK
<1>2. /\ IdsOf(Waiting(m)') = IdsOf(Waiting(m)) \cup new
      /\ Distinct(Waiting(m)')
      /\ TightAt(queue'[m], starts'[m], dp[OwnerOf(m)])
      /\ \A b \in Base \ {m} : Waiting(b)' = Waiting(b) /\ queue'[b] = queue[b]
  BY <1>0, <1>1, <1>a, FuseEffect
<1>3. \A v \in Worker, b \in Base, i \in Id : Has(v, b, i)' <=> Has(v, b, i)
  BY <1>1 DEF Has
<1>4. \A i \in Id : Found(m, i) <=> i \in new
  BY <1>0, <1>1, <1>a, FoundBy
<1>5. \A i \in Id : Queued(m, i)' <=> Queued(m, i) \/ i \in new
  BY <1>2, QueuedIds
<1>6. \A b \in Base \ {m}, i \in Id : Queued(b, i)' <=> Queued(b, i)
  BY <1>2, QueuedIds
<1>7. /\ \A i \in Id : Released(m, i)' <=> Released(m, i) \/ i \in new
      /\ \A b \in Base \ {m}, i \in Id : Released(b, i)' <=> Released(b, i)
  BY <1>1, <1>3, <1>5, <1>6 DEF Released
<1>8. \A i \in Id : ~Found(m, i)'
  <2> SUFFICES ASSUME NEW i \in Id, NEW v \in Worker, Current(v)' = m,
                      \E x \in got'[v] : x.id = i
               PROVE  FALSE
    BY DEF Found
  <2>1. v # w /\ got[v] # {} /\ Current(v) = m
    BY <1>0, <1>1, <1>a DEF TypeOK, Current
  <2> QED
    BY <1>0, <1>1, <1>a, <2>1, FoundAlone
<1>9. \A b \in Base \ {m}, i \in Id : Found(b, i)' <=> Found(b, i)
  <2> SUFFICES ASSUME NEW b \in Base \ {m}, NEW i \in Id, NEW v \in Worker
               PROVE  (Current(v)' = b /\ \E x \in got'[v] : x.id = i)
                         <=> (Current(v) = b /\ \E x \in got[v] : x.id = i)
    BY DEF Found
  <2>1. Current(v)' = Current(v)
    BY <1>1 DEF Current
  <2> QED
    BY <1>0, <1>1, <1>a, <2>1 DEF TypeOK
<1>10. SameCollected
  BY <1>1, <1>4, <1>7, <1>8, <1>9 DEF SameCollected, Collected
<1>11. Exclusive'
  <2>1. ASSUME NEW b \in Base, NEW i \in Id PROVE OneOwner(b, i)'
    <3>1. OneOwner(b, i)
      BY <1>0, ExclusiveParts
    <3>2. CASE b = m /\ i \in new
      BY <1>0, <1>1, <1>3, <1>4, <3>1, <3>2 DEF OneOwner, FoundNew, Released
    <3>3. CASE ~(b = m /\ i \in new)
      <4>1. Queued(b, i)' <=> Queued(b, i)
        BY <1>5, <1>6, <3>3
      <4> QED
        BY <1>1, <1>3, <3>1, <4>1 DEF OneOwner
    <3> QED
      BY <3>2, <3>3
  <2>2. ASSUME NEW b \in Base PROVE Distinct(Waiting(b)')
    BY <1>0, <1>2, ExclusiveParts
  <2> QED
    BY <2>1, <2>2 DEF Exclusive, OneOwner, Distinct
<1>12. Due'
  <2> SUFFICES ASSUME NEW b \in Base
               PROVE  /\ \A i \in Id : Released(b, i)' => i \in InpIds[b]
                      /\ unavailable'[b] = Cardinality({i \in InpIds[b] : ~Released(b, i)'})
    BY DEF Due
  <2>0. InpIds[b] \subseteq Id /\ IsFiniteSet(InpIds[b])
    BY RequestAssumption, GraphAssumption, FS_Subset
  <2>1. CASE b # m
    <3>1. {i \in InpIds[b] : ~Released(b, i)'} = {i \in InpIds[b] : ~Released(b, i)}
      BY <1>7, <2>0, <2>1
    <3> QED
      BY <1>0, <1>1, <1>7, <2>1, <3>1 DEF Due, TypeOK
  <2>2. CASE b = m
    <3> DEFINE due == {i \in InpIds[m] : ~Released(m, i)}
    <3>1. \A i \in Id : i \in new => i \in InpIds[m] /\ ~Released(m, i)
      BY <1>0, <1>1, <1>4, AllReadDue DEF ReadExact, Collected, FoundNew, Flow
    <3>2. new \subseteq Id
      BY <1>0, <1>a DEF TypeOK, IdsOf
    <3>3. new \subseteq due /\ IsFiniteSet(due)
      BY <2>0, <2>2, <3>1, <3>2, FS_Subset
    <3>4. IsFiniteSet(new) /\ Cardinality(new) = Cardinality(got[w])
      BY <1>0, <1>a, DistinctCardinality DEF CallInv, FoundNew, Distinct
    <3>5. {i \in InpIds[m] : ~Released(m, i)'} = due \ new
      BY <1>7, <2>0, <2>2
    <3>6. Cardinality(due \ new) = Cardinality(due) - Cardinality(new)
      BY <3>3, <3>4, SubsetDifference
    <3>7. unavailable[m] = Cardinality(due)
      BY <1>0, <1>1 DEF Due
    <3> HIDE DEF due
    <3>8. unavailable'[m] = Cardinality(due) - Cardinality(new)
      BY <1>0, <1>1, <3>4, <3>7 DEF TypeOK
    <3> QED
      BY <1>0, <1>1, <1>7, <2>2, <3>1, <3>5, <3>6, <3>8 DEF Due
  <2> QED
    BY <2>1, <2>2
<1>13. FoundNew'
  <2>1. \A b \in Base, i \in Id : ~(Released(b, i)' /\ Found(b, i)')
    BY <1>0, <1>7, <1>8, <1>9 DEF FoundNew
  <2>2. \A v \in Worker : \A x, y \in got'[v] : x.id = y.id => x = y
    BY <1>0, <1>1 DEF FoundNew, TypeOK
  <2> QED
    BY <2>1, <2>2 DEF FoundNew
<1>14. Tight'
  <2> SUFFICES ASSUME NEW b \in Base, NEW d \in 0 .. dp[OwnerOf(b)] - 1
               PROVE  starts'[b][d] < Len(queue'[b]) + dp[OwnerOf(b)]
    BY <1>1 DEF Tight, OwnerOf
  <2> QED
    BY <1>0, <1>1, <1>2 DEF Tight, TightAt
<1>15. HeldRouted'
  BY <1>0, <1>1 DEF HeldRouted
<1>16. Flow'
  BY <1>0, <1>1, <1>10, FlowKept DEF SameAdded, Added, Answering
<1>17. CountingPositive'
  BY <1>0, <1>1, CountingKept
<1> QED
  BY <1>11, <1>12, <1>13, <1>14, <1>15, <1>16, <1>17 DEF Placed

----------------------------------------------------------------------------
(* Taking, filing and counting: a request moves, and stays released.        *)

(* A request is determined by its base model and its id.                    *)
LEMMA RequestIs ==
    ASSUME NEW m, NEW i
    PROVE  /\ Request(m, i).base = m /\ Request(m, i).id = i
           /\ \A b, j : Request(b, j) = Request(m, i) <=> b = m /\ j = i
BY DEF Request

(* A request of one base model of a fused model is not with a worker while  *)
(* the request of another with the same id is queued.                       *)
LEMMA ChainOnce ==
    ASSUME CallState, Exclusive, Due, Chained, NEW s \in Shared,
           NEW b \in Range(BaseOf[s]), NEW m \in Range(BaseOf[s]), b # m,
           NEW i \in Id, NEW v \in Worker, Request(b, i) \in held[v], Queued(m, i)
    PROVE  FALSE
<1>1. PICK x \in DOMAIN BaseOf[s], y \in DOMAIN BaseOf[s] : b = BaseOf[s][x] /\ m = BaseOf[s][y]
  BY DEF Range
<1>2. b \in Base /\ m \in Base /\ x \in Nat /\ y \in Nat /\ x # y
  BY <1>1, GraphAssumption
<1>3. Has(v, b, i) /\ Released(b, i) /\ Released(m, i)
  BY DEF Has, Released
<1>4. OneOwner(b, i) /\ OneOwner(m, i) /\ i \in InpIds[b] \cap InpIds[m]
  BY <1>2, <1>3, ExclusiveParts DEF Due
<1>5. ASSUME Added(b, i) PROVE FALSE
  <2>1. i \notin outlen[b]
    BY <1>3, <1>4 DEF OneOwner
  <2>2. PICK u \in Worker : Request(b, i) \in adding[u].batch
    BY <1>5, <2>1 DEF Added
  <2>3. Request(b, i) \in out[u]
    BY <2>2 DEF CallState, CallOk
  <2>4. u = v
    BY <1>3, <1>4, <2>3 DEF OneOwner, Has
  <2> QED
    BY <1>4, <2>3, <2>4 DEF OneOwner
<1>6. ASSUME Added(m, i) PROVE FALSE
  <2>1. i \notin outlen[m]
    BY <1>4 DEF OneOwner
  <2>2. PICK u \in Worker : Request(m, i) \in adding[u].batch
    BY <1>6, <2>1 DEF Added
  <2>3. Has(u, m, i)
    BY <2>2 DEF CallState, CallOk, Has
  <2> QED
    BY <1>4, <2>3 DEF OneOwner
<1>7. CASE x < y
  BY <1>1, <1>3, <1>4, <1>5, <1>7 DEF Chained, Collected
<1>8. CASE y < x
  BY <1>1, <1>3, <1>4, <1>6, <1>8 DEF Chained, Collected
<1> QED
  BY <1>2, <1>7, <1>8

(* Taking moves the requests of the slice from the queue to the worker, and *)
(* from no one else.                                                        *)
LEMMA TakeKept ==
    ASSUME DInv, IInv', StrideInv', NEW w \in Worker, Take(w)
    PROVE  Placed' /\ Flow' /\ CountingPositive'
<1>0. /\ TypeOK /\ IInv /\ CallInv /\ StrideInv /\ CallState /\ Tight /\ Exclusive /\ Due /\ FoundNew
      /\ Flow /\ HeldRouted /\ CountingPositive /\ LocksHeld /\ LocksHeld' /\ Chained /\ CallOk(w)
  BY DEF DInv, Delivered, IInv, Flow, CallState
<1>1. PICK m, T : TakesFrom(w, m, T)
  BY <1>0, TakeEffect
<1>2. /\ m \in Base /\ m = Current(w) /\ pc[w] = "assign" /\ OwnerOf(m) = Model(w)
      /\ UNCHANGED <<pool, readNum, avail, unavailable, ungened, partNum, outlen,
                     addLock, got, out, adding, dp>>
      /\ \A v \in Worker : v # w => bi'[v] = bi[v]
      /\ got[w] = {} /\ out[w] = {}
      /\ m \in Range(BaseOf[Model(w)])
  BY <1>0, <1>1, CurrentType DEF TakesFrom, EndFetch, TypeOK, CallOk
<1>3. /\ T \subseteq Id
      /\ \A i \in Id : i \in T => Queued(m, i)
      /\ \A i \in Id : Queued(m, i)' <=> Queued(m, i) /\ i \notin T
      /\ Distinct(Waiting(m)')
      /\ \A b \in Base \ {m} : /\ Waiting(b)' = Waiting(b)
                                /\ queue'[b] = queue[b] /\ starts'[b] = starts[b]
      /\ TightAt(queue'[m], starts'[m], dp[OwnerOf(m)])
  BY <1>1, QueuedIds DEF TakesFrom, Hands
<1>4. \A v \in Worker : held'[v] = IF v = w THEN held[w] \cup {Request(m, i) : i \in T} ELSE held[v]
  <2>1. CASE T = {}
    <3>1. held' = held /\ {Request(m, i) : i \in T} = {}
      BY <1>1, <2>1 DEF TakesFrom, Give, TypeOK
    <3> QED
      BY <3>1
  <2>2. CASE T # {}
    <3>1. held' = [held EXCEPT ![w] = @ \cup {Request(Current(w), i) : i \in T}]
      BY <1>1, <2>2 DEF TakesFrom, Give
    <3> QED
      BY <1>0, <1>2, <3>1 DEF TypeOK
  <2> QED
    BY <2>1, <2>2
<1>5. \A v \in Worker, b \in Base, i \in Id :
         Request(b, i) \in held'[v] <=> Request(b, i) \in held[v] \/ (v = w /\ b = m /\ i \in T)
  <2> SUFFICES ASSUME NEW v \in Worker, NEW b \in Base, NEW i \in Id
               PROVE  Request(b, i) \in held'[v]
                         <=> Request(b, i) \in held[v] \/ (v = w /\ b = m /\ i \in T)
    OBVIOUS
  <2>1. Request(b, i) \in {Request(m, j) : j \in T} <=> b = m /\ i \in T
    BY RequestIs
  <2> QED
    BY <1>4, <2>1
<1>5a. \A v \in Worker, b \in Base, i \in Id :
         Has(v, b, i)' <=> Has(v, b, i) \/ (v = w /\ b = m /\ i \in T)
  <2>1. \A v \in Worker, b \in Base, i \in Id :
          /\ Has(v, b, i)' <=> Request(b, i) \in held'[v] \/ Request(b, i) \in out'[v]
          /\ Has(v, b, i) <=> Request(b, i) \in held[v] \/ Request(b, i) \in out[v]
    BY DEF Has, Request
  <2> QED
    BY <1>2, <1>5, <2>1
<1>6. \A b \in Base, i \in Id : Queued(b, i)' <=> Queued(b, i) /\ ~(b = m /\ i \in T)
  <2> SUFFICES ASSUME NEW b \in Base \ {m}, NEW i \in Id PROVE Queued(b, i)' <=> Queued(b, i)
    BY <1>3
  <2> QED
    BY <1>3, QueuedIds
<1>7. SameReleased
  BY <1>2, <1>3, <1>5a, <1>6 DEF SameReleased, Released
<1>8. SameFound /\ SameAdded
  BY <1>2, FoundKept DEF SameAdded, Added
<1>9. Exclusive'
  <2>1. ASSUME NEW b \in Base, NEW i \in Id PROVE OneOwner(b, i)'
    <3>1. OneOwner(b, i)
      BY <1>0, ExclusiveParts
    <3>2. CASE b = m /\ i \in T
      <4>1. Queued(b, i) /\ ~Queued(b, i)' /\ i \notin outlen[b]
        BY <1>3, <1>6, <3>1, <3>2 DEF OneOwner
      <4>2. \A v \in Worker : ~Has(v, b, i)
        BY <3>1, <4>1 DEF OneOwner
      <4>3. \A v \in Worker : Has(v, b, i)' <=> v = w
        BY <1>5a, <3>2, <4>2
      <4>4. \A v \in Worker : Request(b, i) \notin out'[v]
        BY <1>2, <4>2 DEF Has
      <4> QED
        BY <1>2, <4>1, <4>3, <4>4 DEF OneOwner
    <3>3. CASE ~(b = m /\ i \in T)
      <4>1. (Queued(b, i)' <=> Queued(b, i)) /\ \A v \in Worker : Has(v, b, i)' <=> Has(v, b, i)
        BY <1>5a, <1>6, <3>3
      <4>2. \A v \in Worker : Request(b, i) \in held'[v] <=> Request(b, i) \in held[v]
        BY <1>5, <3>3
      <4> QED
        BY <1>2, <3>1, <4>1, <4>2 DEF OneOwner
    <3> QED
      BY <3>2, <3>3
  <2>2. ASSUME NEW b \in Base PROVE Distinct(Waiting(b)')
    BY <1>0, <1>3, ExclusiveParts
  <2> QED
    BY <2>1, <2>2 DEF Exclusive, OneOwner, Distinct
<1>10. Tight'
  <2> SUFFICES ASSUME NEW b \in Base, NEW d \in 0 .. dp[OwnerOf(b)] - 1
               PROVE  starts'[b][d] < Len(queue'[b]) + dp[OwnerOf(b)]
    BY <1>2 DEF Tight, OwnerOf
  <2> QED
    BY <1>0, <1>3 DEF Tight, TightAt
<1>11. Due' /\ FoundNew'
  BY <1>0, <1>2, <1>7, <1>8, DueKept, FoundNewKept
<1>12. Flow'
  BY <1>0, <1>2, <1>7, <1>8, CollectedKept, FlowKept DEF Answering
<1>13. CountingPositive'
  BY <1>0, <1>2, CountingKept
<1>a. /\ T # {} /\ Fused(Model(w)) => route'[Model(w)] = Remember(Model(w), m, T)
      /\ \A s \in Shared : T = {} \/ s # Model(w) => route'[s] = route[s]
  <2>1. Model(w) \in Shared /\ DOMAIN route = Shared
    BY <1>0, WorkerType DEF TypeOK
  <2>2. T = {} => route' = route
    BY <1>1 DEF TakesFrom, Give
  <2>3. T # {} => route' = IF Fused(Model(w))
                           THEN [route EXCEPT ![Model(w)] = Remember(Model(w), m, T)] ELSE route
    BY <1>1, <1>2 DEF TakesFrom, Give
  <2>4. PICK new : new = Remember(Model(w), m, T)
    OBVIOUS
  <2> QED
    BY <2>1, <2>2, <2>3, <2>4
<1>14. HeldRouted'
  <2> SUFFICES ASSUME NEW v \in Worker, NEW r \in held'[v]
               PROVE  /\ r.base \in Range(BaseOf[Model(v)])
                      /\ Fused(Model(v)) => route'[Model(v)][r.id] = r.base
    BY DEF HeldRouted, Fused
  <2>1. CASE r \in held[v]
    <3>1. /\ r.base \in Range(BaseOf[Model(v)]) /\ Model(v) \in Shared
          /\ r.id \in Id /\ r.base \in Base /\ r = Request(r.base, r.id)
      BY <1>0, <2>1, WorkerType DEF HeldRouted, TypeOK, Request
    <3> SUFFICES ASSUME Fused(Model(v)) PROVE route'[Model(v)][r.id] = r.base
      BY <3>1
    <3>2. route[Model(v)][r.id] = r.base /\ r.id \in DOMAIN route[Model(v)]
      BY <1>0, <2>1 DEF HeldRouted, IInv, RouteInv
    <3>3. CASE T = {} \/ Model(v) # Model(w)
      BY <1>a, <3>1, <3>2, <3>3
    <3>4. CASE T # {} /\ Model(v) = Model(w)
      <4>1. route'[Model(v)] = Remember(Model(v), m, T)
        BY <1>a, <3>4
      <4>2. r.id \in T => r.base = m
        BY <1>0, <1>2, <1>3, <2>1, <3>1, <3>4, ChainOnce
      <4> QED
        BY <3>2, <4>1, <4>2 DEF Remember
    <3> QED
      BY <3>3, <3>4
  <2>2. CASE r \notin held[v]
    <3>1. v = w /\ T # {} /\ \E i \in T : r = Request(m, i)
      BY <1>4, <2>2
    <3>2. r.base = m /\ r.id \in T
      BY <3>1, RequestIs
    <3>3. Fused(Model(w)) => route'[Model(w)] = Remember(Model(w), m, T)
      BY <1>a, <3>1
    <3> QED
      BY <1>2, <3>1, <3>2, <3>3 DEF Remember
  <2> QED
    BY <2>1, <2>2
<1> QED
  BY <1>9, <1>10, <1>11, <1>12, <1>13, <1>14 DEF Placed

(* A worker's requests are filed under their base model.                    *)
LEMMA RoutedRight ==
    ASSUME HeldRouted
    PROVE  RoutedToItsBase
<1> SUFFICES ASSUME NEW w \in Worker, NEW r \in held[w]
             PROVE  RoutedBase(Model(w), r) = r.base
  BY DEF RoutedToItsBase
<1>1. r.base \in Range(BaseOf[Model(w)]) /\ (Fused(Model(w)) => route[Model(w)][r.id] = r.base)
  BY DEF HeldRouted
<1>2. /\ BaseOf[Model(w)] \in Seq(Base) /\ Len(BaseOf[Model(w)]) > 0
      /\ Len(BaseOf[Model(w)]) \in Nat
  BY WorkerType, GraphAssumption
<1>3. CASE Fused(Model(w))
  BY <1>1, <1>3 DEF RoutedBase
<1>4. CASE ~Fused(Model(w))
  <2> DEFINE n == Len(BaseOf[Model(w)])
  <2>a. n \in Nat /\ n > 0 /\ ~(n > 1)
    BY <1>2, <1>4 DEF Fused
  <2> HIDE DEF n
  <2>b. n = 1
    BY <2>a
  <2>1. Len(BaseOf[Model(w)]) = 1
    BY <2>b DEF n
  <2>2. r.base = BaseOf[Model(w)][1]
    BY <1>1, <1>2, <2>1 DEF Range
  <2> QED
    BY <1>4, <2>2 DEF RoutedBase
<1> QED
  BY <1>3, <1>4

(* What is filed is what was held.                                          *)
LEMMA AddSeqsMoves ==
    ASSUME TypeOK, HeldRouted, NEW w \in Worker, AddSeqs(w)
    PROVE  \E S \in SUBSET held[w] : /\ held' = [held EXCEPT ![w] = @ \ S]
                                     /\ out' = [out EXCEPT ![w] = S]
<1>1. PICK S \in SUBSET held[w] \ {{}} :
         /\ held' = [held EXCEPT ![w] = @ \ S]
         /\ out' = [out EXCEPT ![w] = {Request(RoutedBase(Model(w), r), r.id) : r \in S}]
  BY DEF AddSeqs
<1>2. \A r \in S : Request(RoutedBase(Model(w), r), r.id) = r
  BY RoutedRight DEF RoutedToItsBase, TypeOK, Request
<1>3. {Request(RoutedBase(Model(w), r), r.id) : r \in S} = S
  BY <1>2
<1> QED
  BY <1>1, <1>3

(* When the requests only move inside workers, each stays with its owner.   *)
LEMMA OwnersKept ==
    ASSUME Exclusive, \A m \in Base : Waiting(m)' = Waiting(m),
           outlen' = outlen,
           \A w \in Worker : held'[w] \cup out'[w] = held[w] \cup out[w],
           \A w \in Worker : held'[w] \cap out'[w] \subseteq held[w] \cap out[w]
    PROVE  Exclusive' /\ SameReleased
<1>1. \A m \in Base, i \in Id : Queued(m, i)' <=> Queued(m, i)
  BY DEF Queued
<1>2. \A w \in Worker, m \in Base, i \in Id : Has(w, m, i)' <=> Has(w, m, i)
  BY DEF Has, Request
<1>3. \A w \in Worker, m \in Base, i \in Id :
         Request(m, i) \notin held[w] \cap out[w] => Request(m, i) \notin held'[w] \cap out'[w]
  BY DEF Request
<1>4. SameReleased
  BY <1>1, <1>2 DEF SameReleased, Released
<1>5. ASSUME NEW m \in Base, NEW i \in Id PROVE OneOwner(m, i)'
  <2>1. OneOwner(m, i)
    BY ExclusiveParts
  <2> QED
    BY <1>1, <1>2, <1>3, <2>1 DEF OneOwner, Request
<1>6. ASSUME NEW m \in Base PROVE Distinct(Waiting(m)')
  BY ExclusiveParts
<1> QED
  BY <1>4, <1>5, <1>6 DEF Exclusive, OneOwner, Distinct

(* Filing outputs keeps every request with its worker.                      *)
LEMMA AddSeqsKept ==
    ASSUME DInv, IInv', StrideInv', NEW w \in Worker, AddSeqs(w)
    PROVE  Placed' /\ Flow' /\ CountingPositive'
<1>0. /\ TypeOK /\ IInv /\ CallState /\ Tight /\ Exclusive /\ Due /\ FoundNew
      /\ Flow /\ HeldRouted /\ CountingPositive /\ LocksHeld /\ LocksHeld' /\ CallOk(w)
  BY DEF DInv, Delivered, IInv, Flow, CallState
<1>1. PICK S \in SUBSET held[w] : /\ held' = [held EXCEPT ![w] = @ \ S]
                                  /\ out' = [out EXCEPT ![w] = S]
  BY <1>0, AddSeqsMoves
<1>2. /\ UNCHANGED <<pool, readNum, avail, queue, starts, unavailable, ungened, partNum,
                     route, outlen, addLock, bi, got, adding, dp>>
      /\ out[w] = {}
  BY <1>0 DEF AddSeqs, CallOk, commVars
<1>3. \A v \in Worker : /\ held'[v] \cup out'[v] = held[v] \cup out[v]
                        /\ held'[v] \cap out'[v] \subseteq held[v] \cap out[v]
  BY <1>0, <1>1, <1>2 DEF TypeOK
<1>4. \A m \in Base : Waiting(m)' = Waiting(m)
  BY <1>2, SameWaiting
<1>5. Exclusive' /\ SameReleased
  BY <1>0, <1>2, <1>3, <1>4, OwnersKept
<1>6. SameFound /\ SameAdded
  BY <1>2, FoundKept DEF SameAdded, Added
<1>7. Tight'
  BY <1>0, <1>2 DEF Tight, OwnerOf
<1>8. Due' /\ FoundNew'
  BY <1>0, <1>2, <1>5, <1>6, DueKept, FoundNewKept
<1>9. HeldRouted'
  <2>1. \A v \in Worker : held'[v] \subseteq held[v]
    BY <1>0, <1>1 DEF TypeOK
  <2> QED
    BY <1>0, <1>2, <2>1 DEF HeldRouted
<1>10. Flow'
  BY <1>0, <1>2, <1>5, <1>6, CollectedKept, FlowKept DEF Answering
<1>11. CountingPositive'
  BY <1>0, <1>2, CountingKept
<1> QED
  BY <1>5, <1>7, <1>8, <1>9, <1>10, <1>11 DEF Placed

(* The batch leaves out and is answered.                                    *)
LEMMA CountKept ==
    ASSUME DInv, IInv', StrideInv', NEW w \in Worker, CountOutputs(w)
    PROVE  Placed' /\ Flow' /\ CountingPositive'
<1>0. /\ TypeOK /\ IInv /\ CallState /\ Tight /\ Exclusive /\ Due /\ FoundNew
      /\ Flow /\ HeldRouted /\ CountingPositive /\ LocksHeld /\ LocksHeld' /\ CallOk(w)
  BY DEF DInv, Delivered, IInv, Flow, CallState
<1>1. PICK m : m = Current(w)
  OBVIOUS
<1>2. PICK S : S = adding[w].batch
  OBVIOUS
<1>3. /\ m \in Base /\ pc[w] = "count"
      /\ UNCHANGED <<pool, readNum, avail, queue, starts, unavailable, partNum,
                     route, got, held, dp>>
      /\ ungened' = [ungened EXCEPT ![m] = adding[w].left]
      /\ outlen' = [outlen EXCEPT ![m] = @ \cup {r.id : r \in S}]
      /\ addLock' = [addLock EXCEPT ![m] = Free]
      /\ out' = [out EXCEPT ![w] = @ \ S]
      /\ adding' = [adding EXCEPT ![w] = [batch |-> {}, left |-> 0]]
      /\ \A v \in Worker : v # w => bi'[v] = bi[v]
      /\ got[w] = {} /\ S = {r \in out[w] : r.base = m}
  BY <1>0, <1>1, <1>2, CurrentType DEF IInv, CountOutputs, CallOk, modelVars, TypeOK
<1>4. \A b \in Base : Waiting(b)' = Waiting(b)
  BY <1>3, SameWaiting
<1>5. \A b \in Base, i \in Id : Queued(b, i)' <=> Queued(b, i)
  BY <1>4 DEF Queued
<1>6. \A b \in Base, i \in Id : Request(b, i) \in S <=> Request(b, i) \in out[w] /\ b = m
  BY <1>3, RequestIs
<1>7. \A b \in Base, i \in Id : i \in outlen'[b] <=> i \in outlen[b] \/ Request(b, i) \in S
  <2> SUFFICES ASSUME NEW b \in Base, NEW i \in Id
               PROVE  i \in outlen'[b] <=> i \in outlen[b] \/ Request(b, i) \in S
    OBVIOUS
  <2>1. CASE b # m
    BY <1>0, <1>3, <1>6, <2>1 DEF TypeOK
  <2>2. CASE b = m
    <3>1. i \in {r.id : r \in S} <=> Request(m, i) \in S
      BY <1>0, <1>3 DEF TypeOK, Request
    <3> QED
      BY <1>0, <1>3, <2>2, <3>1 DEF TypeOK
  <2> QED
    BY <2>1, <2>2
<1>8. \A v \in Worker, b \in Base, i \in Id :
         Request(b, i) \in out'[v] <=> Request(b, i) \in out[v] /\ ~(v = w /\ Request(b, i) \in S)
  BY <1>0, <1>3 DEF TypeOK
<1>9. ASSUME NEW b \in Base, NEW i \in Id
      PROVE  /\ OneOwner(b, i)' /\ (Released(b, i)' <=> Released(b, i))
             /\ (Added(b, i)' <=> Added(b, i))
  <2>1. OneOwner(b, i)
    BY <1>0, ExclusiveParts
  <2>2. \A v \in Worker : /\ Has(v, b, i) <=> Request(b, i) \in held[v] \/ Request(b, i) \in out[v]
                          /\ Has(v, b, i)' <=> Request(b, i) \in held[v] \/ Request(b, i) \in out'[v]
    BY <1>3 DEF Has, Request
  <2>3. \A v \in Worker : Request(b, i) \in adding'[v].batch
                             <=> v # w /\ Request(b, i) \in adding[v].batch
    BY <1>0, <1>3 DEF TypeOK
  <2>4. \A v \in Worker : Request(b, i) \notin held[v] \cap out'[v]
    BY <1>8, <2>1 DEF OneOwner
  <2>5. CASE Request(b, i) \in S
    <3>1. Has(w, b, i) /\ Request(b, i) \in out[w] /\ Request(b, i) \notin held[w]
      BY <1>6, <2>1, <2>2, <2>5 DEF OneOwner
    <3>2. \A v \in Worker : ~Has(v, b, i)'
      BY <1>8, <2>1, <2>2, <2>5, <3>1 DEF OneOwner
    <3>3. ~Queued(b, i)' /\ i \in outlen'[b]
      BY <1>5, <1>7, <2>1, <2>5, <3>1 DEF OneOwner
    <3> QED
      BY <1>2, <1>3, <2>4, <2>5, <3>1, <3>2, <3>3 DEF OneOwner, Released, Added, Request
  <2>6. CASE Request(b, i) \notin S
    <3>1. \A v \in Worker : Has(v, b, i)' <=> Has(v, b, i)
      BY <1>8, <2>2, <2>6
    <3>2. i \in outlen'[b] <=> i \in outlen[b]
      BY <1>7, <2>6
    <3>3. \A v \in Worker : Request(b, i) \in adding'[v].batch <=> Request(b, i) \in adding[v].batch
      BY <1>2, <2>3, <2>6
    <3> QED
      BY <1>3, <1>5, <2>1, <2>4, <3>1, <3>2, <3>3 DEF OneOwner, Released, Added, Request
  <2> QED
    BY <2>5, <2>6
<1>10. Exclusive'
  <2>1. ASSUME NEW b \in Base PROVE Distinct(Waiting(b)')
    BY <1>0, <1>4, ExclusiveParts
  <2> QED
    BY <1>9, <2>1 DEF Exclusive, OneOwner, Distinct
<1>11. SameReleased /\ SameAdded
  BY <1>9 DEF SameReleased, SameAdded
<1>12. SameFound
  BY <1>3, FoundKept
<1>13. Tight' /\ HeldRouted'
  BY <1>0, <1>3 DEF Tight, OwnerOf, HeldRouted
<1>14. Due' /\ FoundNew'
  BY <1>0, <1>3, <1>11, <1>12, DueKept, FoundNewKept
<1>15. Answering
  BY <1>0, <1>3 DEF Answering, TypeOK
<1>16. Flow'
  BY <1>0, <1>3, <1>11, <1>12, <1>15, CollectedKept, FlowKept
<1>17. \A b \in Base : addLock'[b] # Free => addLock'[b] = addLock[b] /\ ungened'[b] = ungened[b]
  BY <1>0, <1>3, GraphAssumption DEF TypeOK
<1>18. CountingPositive'
  BY <1>0, <1>17, CountingKept
<1> QED
  BY <1>10, <1>13, <1>14, <1>16, <1>18 DEF Placed

----------------------------------------------------------------------------
(* Launch: what waits and what is held stays with the model.                *)

(* The workers of the model start, the others stay where they were.         *)
LEMMA LaunchCallState ==
    ASSUME IInv, CallState, NEW s \in Shared, NEW d \in Plans[s], Launch(s, d)
    PROVE  CallState'
<1>0. /\ \A w \in WorkersOf(s) : pc[w] = "off"
      /\ pc' = [w \in Worker |-> IF Model(w) = s /\ DpId(w) < d THEN "idle" ELSE pc[w]]
      /\ dp' = [dp EXCEPT ![s] = d]
      /\ UNCHANGED <<bi, got, slice, out, adding>>
  BY DEF Launch
<1>1. SUFFICES ASSUME NEW w \in Worker PROVE CallOk(w)'
  BY DEF CallState
<1>2. Model(w) \in Shared /\ TypeOK /\ CallOk(w)
  BY WorkerType DEF IInv, CallState
<1>3. CASE Model(w) = s
  <2>1. w \in WorkersOf(s) /\ pc[w] = "off" /\ pc'[w] \in {"idle", "off"}
    BY <1>0, <1>3 DEF WorkersOf
  <2>2. dp'[Model(w)] = d
    BY <1>0, <1>2, <1>3 DEF TypeOK
  <2>3. DpId(w) >= d => held'[w] = {}
    BY <2>1, LaunchDeals
  <2> QED
    BY <1>0, <1>2, <2>1, <2>2, <2>3 DEF CallOk
<1>4. CASE Model(w) # s
  <2>1. held'[w] = held[w]
    BY <1>4, LaunchDeals
  <2>2. Untouched(w) /\ dp'[Model(w)] = dp[Model(w)]
    BY <1>0, <1>2, <1>4, <2>1 DEF Untouched, TypeOK
  <2>3. Current(w) \in Base /\ Current(w) \notin Range(BaseOf[s])
    BY <1>2, <1>4, CurrentType, GraphAssumption DEF IInv, Range
  <2>4. queue'[Current(w)] = queue[Current(w)] /\ starts'[Current(w)] = starts[Current(w)]
    BY <2>3 DEF Launch
  <2> QED
    BY <2>2, <2>4, OthersOk
<1> QED
  BY <1>3, <1>4

(* A launch requeues what waited and deals what the old workers held: no    *)
(* request is lost or doubled by it.                                        *)
LEMMA LaunchKept ==
    ASSUME DInv, IInv', StrideInv', NEW s \in Shared, NEW d \in Plans[s], Launch(s, d)
    PROVE  Placed' /\ Flow' /\ CountingPositive'
<1>0. /\ TypeOK /\ IInv /\ StrideInv /\ CallState /\ Tight /\ Exclusive /\ Due /\ FoundNew
      /\ Flow /\ HeldRouted /\ CountingPositive /\ LocksHeld /\ LocksHeld'
  BY DEF DInv, Delivered, IInv, Flow
<1>1. /\ \A w \in WorkersOf(s) : pc[w] = "off"
      /\ UNCHANGED <<pool, readNum, avail, unavailable, ungened, partNum, route,
                     outlen, addLock, bi, got, out, adding>>
  BY DEF Launch
<1>2. \A w \in WorkersOf(s) : out[w] = {}
  BY <1>0, <1>1 DEF CallState, CallOk, WorkersOf
<1>3. \A m \in Base : /\ IdsOf(Waiting(m)') = IdsOf(Waiting(m))
                      /\ Distinct(Waiting(m)')
                      /\ TightAt(queue'[m], starts'[m], dp'[OwnerOf(m)])
  BY <1>0, LaunchQueues
<1>4. \A m \in Base, i \in Id : Queued(m, i)' <=> Queued(m, i)
  BY <1>3, QueuedIds
<1>5. ASSUME NEW m \in Base, NEW i \in Id
      PROVE  OneOwner(m, i)' /\ (Released(m, i)' <=> Released(m, i))
  <2>1. OneOwner(m, i)
    BY <1>0, ExclusiveParts
  <2>2. \A v \in Worker : /\ Has(v, m, i) <=> Request(m, i) \in held[v] \/ Request(m, i) \in out[v]
                          /\ Has(v, m, i)' <=> Request(m, i) \in held'[v] \/ Request(m, i) \in out[v]
    BY <1>1 DEF Has, Request
  <2>3. \A v \in Worker \ WorkersOf(s) : /\ Has(v, m, i)' <=> Has(v, m, i)
                                         /\ held'[v] = held[v]
    BY <1>0, <2>2, LaunchDeals DEF WorkersOf
  <2>4. \A v \in WorkersOf(s) : /\ v \in Worker
                                /\ Has(v, m, i) <=> Request(m, i) \in held[v]
                                /\ Has(v, m, i)' <=> Request(m, i) \in held'[v]
    BY <1>2, <2>2 DEF WorkersOf
  <2>5. (\E v \in WorkersOf(s) : Has(v, m, i)') <=> (\E v \in WorkersOf(s) : Has(v, m, i))
    BY <1>0, <2>4, LaunchDeals
  <2>6. \A v, w \in WorkersOf(s) : Has(v, m, i)' /\ Has(w, m, i)' => v = w
    BY <1>0, <2>4, LaunchDeals
  <2>7. (\E v \in Worker : Has(v, m, i)') <=> (\E v \in Worker : Has(v, m, i))
    BY <2>3, <2>4, <2>5
  <2>8. \A v, w \in Worker : Has(v, m, i)' /\ Has(w, m, i)' => v = w
    BY <2>1, <2>3, <2>4, <2>5, <2>6 DEF OneOwner
  <2>9. \A v \in Worker : Request(m, i) \notin held'[v] \cap out[v]
    BY <1>2, <2>1, <2>3 DEF OneOwner
  <2>10. Released(m, i)' <=> Released(m, i)
    BY <1>1, <1>4, <2>7 DEF Released
  <2>11. \A v \in Worker : Has(v, m, i)' => ~Queued(m, i)' /\ i \notin outlen[m]
    BY <1>4, <2>1, <2>7 DEF OneOwner
  <2> QED
    BY <1>1, <1>4, <2>1, <2>8, <2>9, <2>10, <2>11 DEF OneOwner, Request
<1>6. Exclusive'
  BY <1>3, <1>5 DEF Exclusive, OneOwner, Distinct
<1>7. SameReleased
  BY <1>5 DEF SameReleased
<1>8. SameFound /\ SameAdded
  BY <1>1, FoundKept DEF SameAdded, Added
<1>9. Tight'
  BY <1>3 DEF Tight, TightAt, OwnerOf
<1>10. Due' /\ FoundNew'
  BY <1>0, <1>1, <1>7, <1>8, DueKept, FoundNewKept
<1>11. HeldRouted'
  <2> SUFFICES ASSUME NEW v \in Worker, NEW r \in held'[v]
               PROVE  /\ r.base \in Range(BaseOf[Model(v)])
                      /\ Fused(Model(v)) => route[Model(v)][r.id] = r.base
    BY <1>1 DEF HeldRouted, Fused
  <2>1. \E u \in Worker : Model(u) = Model(v) /\ r \in held[u]
    BY <1>0, LaunchDeals DEF WorkersOf
  <2> QED
    BY <1>0, <2>1 DEF HeldRouted
<1>12. Flow'
  BY <1>0, <1>1, <1>7, <1>8, CollectedKept, FlowKept DEF Answering
<1>13. CountingPositive'
  BY <1>0, <1>1, CountingKept
<1> QED
  BY <1>6, <1>9, <1>10, <1>11, <1>12, <1>13 DEF Placed

----------------------------------------------------------------------------
(* AppendOutputs: the pool gets what the batch adds, once.                  *)

(* Appending new elements to a sequence without duplicates.                 *)
LEMMA Concatenated ==
    ASSUME NEW q, q \in Seq(Id), NEW r, r \in Seq(Id)
    PROVE  /\ q \o r \in Seq(Id) /\ Len(q \o r) = Len(q) + Len(r)
           /\ \A p \in 1 .. Len(q) : (q \o r)[p] = q[p]
           /\ Range(q \o r) = Range(q) \cup Range(r)
           /\ IsInjective(q) /\ IsInjective(r) /\ Range(q) \cap Range(r) = {}
                 => IsInjective(q \o r)
<1>1. /\ q \o r \in Seq(Id) /\ Len(q \o r) = Len(q) + Len(r)
      /\ Len(q) \in Nat /\ Len(r) \in Nat
      /\ \A p \in 1 .. Len(q) : (q \o r)[p] = q[p]
      /\ \A p \in 1 .. Len(r) : (q \o r)[p + Len(q)] = r[p]
      /\ DOMAIN q = 1 .. Len(q) /\ DOMAIN r = 1 .. Len(r)
      /\ DOMAIN (q \o r) = 1 .. Len(q) + Len(r)
  OBVIOUS
<1>2. \A p \in 1 .. Len(q) + Len(r) : p \notin 1 .. Len(q) =>
         p - Len(q) \in 1 .. Len(r) /\ (q \o r)[p] = r[p - Len(q)]
  <2> SUFFICES ASSUME NEW p \in 1 .. Len(q) + Len(r), p \notin 1 .. Len(q)
               PROVE  p - Len(q) \in 1 .. Len(r) /\ (q \o r)[p] = r[p - Len(q)]
    OBVIOUS
  <2>1. p - Len(q) \in 1 .. Len(r) /\ (p - Len(q)) + Len(q) = p
    BY <1>1
  <2> QED
    BY <1>1, <2>1
<1>3. Range(q \o r) = Range(q) \cup Range(r)
  <2>1. ASSUME NEW x \in Range(q \o r) PROVE x \in Range(q) \cup Range(r)
    BY <1>1, <1>2, <2>1 DEF Range
  <2>2. ASSUME NEW x \in Range(q) PROVE x \in Range(q \o r)
    <3>1. PICK p \in 1 .. Len(q) : x = q[p]
      BY <1>1, <2>2 DEF Range
    <3>2. p \in 1 .. Len(q) + Len(r) /\ (q \o r)[p] = x
      BY <1>1, <3>1
    <3> QED
      BY <1>1, <3>2 DEF Range
  <2>3. ASSUME NEW x \in Range(r) PROVE x \in Range(q \o r)
    <3>1. PICK p \in 1 .. Len(r) : x = r[p]
      BY <1>1, <2>3 DEF Range
    <3>2. p + Len(q) \in 1 .. Len(q) + Len(r) /\ (q \o r)[p + Len(q)] = x
      BY <1>1, <3>1
    <3> QED
      BY <1>1, <3>2 DEF Range
  <2> QED
    BY <2>1, <2>2, <2>3
<1>4. ASSUME IsInjective(q), IsInjective(r), Range(q) \cap Range(r) = {}
      PROVE  IsInjective(q \o r)
  <2> SUFFICES ASSUME NEW a \in 1 .. Len(q) + Len(r), NEW b \in 1 .. Len(q) + Len(r),
                      (q \o r)[a] = (q \o r)[b]
               PROVE  a = b
    BY <1>1 DEF IsInjective
  <2>1. /\ \A p \in 1 .. Len(q) : q[p] \in Range(q)
        /\ \A p \in 1 .. Len(r) : r[p] \in Range(r)
    BY <1>1 DEF Range
  <2>2. CASE a \in 1 .. Len(q) /\ b \in 1 .. Len(q)
    BY <1>1, <1>4, <2>2 DEF IsInjective
  <2>3. CASE a \notin 1 .. Len(q) /\ b \notin 1 .. Len(q)
    <3>1. a - Len(q) = b - Len(q)
      BY <1>1, <1>2, <1>4, <2>3 DEF IsInjective
    <3> QED
      BY <1>1, <3>1
  <2>4. CASE a \in 1 .. Len(q) /\ b \notin 1 .. Len(q)
    BY <1>1, <1>2, <1>4, <2>1, <2>4
  <2>5. CASE a \notin 1 .. Len(q) /\ b \in 1 .. Len(q)
    BY <1>1, <1>2, <1>4, <2>1, <2>5
  <2> QED
    BY <2>2, <2>3, <2>4, <2>5
<1> QED
  BY <1>1, <1>3, <1>4

(* What a call is about to add was released and not added before; the       *)
(* parts of a glued output are requests of the model.                       *)
Fresh(w, m, S) ==
    /\ \A i \in Id : Request(m, i) \in S <=> Request(m, i) \in out[w]
    /\ S \subseteq {Request(m, i) : i \in InpIds[m]}
    /\ \A i \in Id : Request(m, i) \in S => ~Added(m, i) /\ i \in InpIds[m]
    /\ \A b \in Base, i \in Id : Added(b, i)' <=> Added(b, i) \/ (b = m /\ Request(m, i) \in S)
    /\ IsFiniteSet(S) /\ S # {}

(* The outputs a worker appends are of requests that nobody has added.      *)
LEMMA BatchFresh ==
    ASSUME DInv, NEW w \in Worker, NEW m \in Base, AppendOutputs(w, m),
           NEW S, S = {r \in out[w] : r.base = m}
    PROVE  Fresh(w, m, S)
<1>0. TypeOK /\ CallState /\ Exclusive /\ Due /\ CallOk(w)
  BY DEF DInv, Delivered, IInv, CallState
<1>1. /\ pc[w] = "add" /\ S # {} /\ adding[w].batch = {}
      /\ outlen' = outlen
      /\ \A v \in Worker : adding'[v].batch = IF v = w THEN S ELSE adding[v].batch
  BY <1>0 DEF AppendOutputs, CallOk, TypeOK
<1>2. \A b \in Base, i \in Id : Request(b, i) \in S <=> Request(b, i) \in out[w] /\ b = m
  BY RequestIs
<1>3. \A r \in S : r.id \in Id /\ r = Request(m, r.id)
  BY <1>0 DEF TypeOK, Request
<1>4. ASSUME NEW i \in Id, Request(m, i) \in S
      PROVE  ~Added(m, i) /\ i \in InpIds[m]
  <2>1. OneOwner(m, i) /\ Has(w, m, i)
    BY <1>0, <1>2, <1>4, ExclusiveParts DEF Has
  <2>2. i \in InpIds[m]
    BY <1>0, <2>1 DEF Due, Released
  <2>3. ASSUME NEW u \in Worker, Request(m, i) \in adding[u].batch PROVE FALSE
    <3>1. pc[u] = "count" /\ Request(m, i) \in out[u]
      BY <1>0, <2>3 DEF CallState, CallOk
    <3>2. u = w
      BY <2>1, <3>1 DEF OneOwner, Has
    <3> QED
      BY <1>1, <3>1, <3>2
  <2> QED
    BY <2>1, <2>2, <2>3 DEF Added, OneOwner
<1>5. S \subseteq {Request(m, i) : i \in InpIds[m]}
  BY <1>3, <1>4
<1>6. \A b \in Base, i \in Id : Added(b, i)' <=> Added(b, i) \/ (b = m /\ Request(m, i) \in S)
  <2> SUFFICES ASSUME NEW b \in Base, NEW i \in Id
               PROVE  Added(b, i)' <=> Added(b, i) \/ (b = m /\ Request(m, i) \in S)
    OBVIOUS
  <2>1. Added(b, i)' <=> i \in outlen[b] \/ \E v \in Worker : Request(b, i) \in adding'[v].batch
    BY <1>1 DEF Added, Request
  <2>2. \A v \in Worker : Request(b, i) \in adding'[v].batch
                             <=> Request(b, i) \in adding[v].batch \/ (v = w /\ Request(b, i) \in S)
    BY <1>1
  <2> QED
    BY <1>2, <2>1, <2>2 DEF Added
<1>7. IsFiniteSet(S)
  <2>1. S \in SUBSET [base : Base, id : Id]
    BY <1>0 DEF TypeOK
  <2> QED
    BY <2>1, RequestsFinite, FS_Subset
<1> QED
  BY <1>1, <1>2, <1>4, <1>5, <1>6, <1>7 DEF Fresh

(* The parts of a glued output that are in the batch, counted as the code   *)
(* counts them.                                                             *)
LEMMA PartsCounted ==
    ASSUME NEW w \in Worker, NEW m \in Base, m \in Parts, NEW S, Fresh(w, m, S), NEW g \in Id
    PROVE  LET before == {i \in PartsOf(m, g) : Added(m, i)}
               after == {i \in PartsOf(m, g) : Added(m, i)'}
           IN  /\ IsFiniteSet(PartsOf(m, g))
               /\ PartsIn(m, S, g) \in Nat
               /\ Cardinality(after) = Cardinality(before) + PartsIn(m, S, g)
<1> DEFINE before == {i \in PartsOf(m, g) : Added(m, i)}
           after == {i \in PartsOf(m, g) : Added(m, i)'}
           mine == {r \in S : GroupOf[m][r.id] = g}
<1>1. InpIds[m] \subseteq Id /\ PartsOf(m, g) \subseteq Id /\ IsFiniteSet(PartsOf(m, g))
  <2>1. PartsOf(m, g) \subseteq Id /\ InpIds[m] \subseteq Id
    BY RequestAssumption DEF PartsOf
  <2> QED
    BY <2>1, GraphAssumption, FS_Subset
<1>2. \A r \in S : r.id \in InpIds[m] /\ r = Request(m, r.id)
  BY RequestIs DEF Fresh
<1>3. \A i \in Id : Request(m, i) \in mine <=> Request(m, i) \in S /\ GroupOf[m][i] = g
  BY RequestIs
<1>4. IdsOf(mine) = {i \in PartsOf(m, g) : Request(m, i) \in S}
  <2>1. ASSUME NEW i \in IdsOf(mine) PROVE i \in {j \in PartsOf(m, g) : Request(m, j) \in S}
    BY <1>2, <2>1 DEF IdsOf, PartsOf
  <2>2. ASSUME NEW i \in PartsOf(m, g), Request(m, i) \in S PROVE i \in IdsOf(mine)
    <3>1. Request(m, i) \in mine
      BY <1>1, <1>3, <2>2 DEF PartsOf
    <3> QED
      BY <3>1, RequestIs DEF IdsOf
  <2> QED
    BY <2>1, <2>2
<1>5. IsFiniteSet(mine) /\ Distinct(mine)
  <2>1. IsFiniteSet(mine)
    BY FS_Subset DEF Fresh
  <2> QED
    BY <1>2, <2>1 DEF Distinct
<1>6. Cardinality(IdsOf(mine)) = PartsIn(m, S, g)
  BY <1>5, DistinctCardinality DEF PartsIn
<1>7. before \cup IdsOf(mine) = after
  BY <1>1, <1>4 DEF Fresh
<1>8. IdsOf(mine) = after \ before
  BY <1>1, <1>4 DEF Fresh
<1>9. IsFiniteSet(after) /\ before \subseteq after
  BY <1>1, <1>7, FS_Subset
<1>10. /\ Cardinality(after \ before) = Cardinality(after) - Cardinality(before)
       /\ Cardinality(after) \in Nat /\ Cardinality(before) \in Nat
       /\ Cardinality(after \ before) \in Nat
  BY <1>9, SubsetDifference
<1> HIDE DEF before, after, mine
<1>11. Cardinality(after) = Cardinality(before) + PartsIn(m, S, g) /\ PartsIn(m, S, g) \in Nat
  BY <1>6, <1>8, <1>10
<1> QED
  BY <1>1, <1>11 DEF before, after

(* The ids of the records made of a set are that set.                       *)
LEMMA TokenIds ==
    ASSUME NEW G
    PROVE  IdsOf({[id |-> h] : h \in G}) = G
<1>1. \A h : [id |-> h].id = h
  OBVIOUS
<1> QED
  BY <1>1 DEF IdsOf

(* The outputs glued now are those whose last part is in the batch.         *)
LEMMA GluedNow ==
    ASSUME NEW w \in Worker, NEW m \in Base, m \in Parts, NEW S, Fresh(w, m, S),
           \A g \in Id : partNum[m][g] = Cardinality({i \in PartsOf(m, g) : Added(m, i)}),
           NEW g \in Id
    PROVE  g \in IdsOf(Glued(m, S))
              <=> /\ \E i \in PartsOf(m, g) : Request(m, i) \in S
                  /\ \A i \in PartsOf(m, g) : Added(m, i)'
<1> DEFINE after == {i \in PartsOf(m, g) : Added(m, i)'}
           before == {i \in PartsOf(m, g) : Added(m, i)}
<1>1. g \in IdsOf(Glued(m, S))
        <=> /\ \E r \in S : GroupOf[m][r.id] = g
            /\ partNum[m][g] + PartsIn(m, S, g) = Cardinality(PartsOf(m, g))
  <2>1. PICK G : G = {h \in {GroupOf[m][r.id] : r \in S} :
                          partNum[m][h] + PartsIn(m, S, h) = Cardinality(PartsOf(m, h))}
    OBVIOUS
  <2>2. Glued(m, S) = {[id |-> h] : h \in G}
    BY <2>1 DEF Glued, Whole
  <2>3. IdsOf(Glued(m, S)) = G
    BY <2>2, TokenIds
  <2> QED
    BY <2>1, <2>3
<1>2. (\E r \in S : GroupOf[m][r.id] = g) <=> \E i \in PartsOf(m, g) : Request(m, i) \in S
  <2>1. ASSUME NEW r \in S, GroupOf[m][r.id] = g
        PROVE  \E i \in PartsOf(m, g) : Request(m, i) \in S
    <3>1. r.id \in PartsOf(m, g) /\ Request(m, r.id) = r
      BY <2>1, RequestIs DEF Fresh, PartsOf
    <3> QED
      BY <3>1
  <2>2. ASSUME NEW i \in PartsOf(m, g), Request(m, i) \in S
        PROVE  \E r \in S : GroupOf[m][r.id] = g
    <3>1. GroupOf[m][Request(m, i).id] = g
      BY RequestIs DEF PartsOf
    <3> QED
      BY <2>2, <3>1
  <2> QED
    BY <2>1, <2>2
<1>3. /\ IsFiniteSet(PartsOf(m, g))
      /\ Cardinality(after) = Cardinality(before) + PartsIn(m, S, g)
  BY PartsCounted
<1>4. partNum[m][g] = Cardinality(before)
  OBVIOUS
<1>5. after \subseteq PartsOf(m, g)
  OBVIOUS
<1>6. Cardinality(after) = Cardinality(PartsOf(m, g)) <=> after = PartsOf(m, g)
  BY <1>3, <1>5, FS_Subset
<1>7. after = PartsOf(m, g) <=> \A i \in PartsOf(m, g) : Added(m, i)'
  OBVIOUS
<1> HIDE DEF after, before
<1>8. partNum[m][g] + PartsIn(m, S, g) = Cardinality(after)
  BY <1>3, <1>4
<1> QED
  BY <1>1, <1>2, <1>6, <1>7, <1>8

(* The pool after the outputs f were appended.                              *)
LEMMA AppendedPool ==
    ASSUME TypeOK, NEW m \in Base, IsInjective(pool[m]),
           NEW S, IsFiniteSet(S), Distinct(S), \A x \in S : x.id \in Id,
           IdsOf(S) \cap Range(pool[m]) = {},
           NEW f \in Listings(S), pool' = [pool EXCEPT ![m] = @ \o Ids(f)]
    PROVE  /\ IsInjective(pool'[m])
           /\ Range(pool'[m]) = Range(pool[m]) \cup IdsOf(S)
           /\ Extended
<1>1. /\ Ids(f) \in Seq(Id) /\ Range(Ids(f)) = IdsOf(S) /\ IsInjective(Ids(f))
  BY ListingIds
<1>2. /\ pool[m] \in Seq(Id) /\ m \in Node /\ pool'[m] = pool[m] \o Ids(f)
      /\ \A n \in Node : n # m => pool'[n] = pool[n]
      /\ \A n \in Node : pool[n] \in Seq(Id)
  BY DEF TypeOK
<1>3. /\ pool[m] \o Ids(f) \in Seq(Id)
      /\ Len(pool[m] \o Ids(f)) = Len(pool[m]) + Len(Ids(f))
      /\ \A p \in 1 .. Len(pool[m]) : (pool[m] \o Ids(f))[p] = pool[m][p]
      /\ Range(pool[m] \o Ids(f)) = Range(pool[m]) \cup IdsOf(S)
      /\ IsInjective(pool[m] \o Ids(f))
  BY <1>1, <1>2, Concatenated
<1>4. Len(pool[m]) \in Nat /\ Len(Ids(f)) \in Nat
  BY <1>1, <1>2
<1>5. ASSUME NEW n \in Node
      PROVE  /\ pool[n] \in Seq(Id) /\ pool'[n] \in Seq(Id)
             /\ Len(pool[n]) <= Len(pool'[n])
             /\ \A p \in 1 .. Len(pool[n]) : pool'[n][p] = pool[n][p]
  <2>1. CASE n = m
    <3>1. PICK r : r = pool[m] \o Ids(f)
      OBVIOUS
    <3>2. /\ r \in Seq(Id) /\ Len(r) = Len(pool[m]) + Len(Ids(f))
          /\ \A p \in 1 .. Len(pool[m]) : r[p] = pool[m][p]
      BY <1>3, <3>1
    <3>3. pool'[m] = r
      BY <1>2, <3>1
    <3>4. Len(pool[m]) <= Len(r)
      BY <1>4, <3>2
    <3>5. pool[n] = pool[m] /\ pool'[n] = r /\ pool[m] \in Seq(Id)
      BY <1>2, <2>1, <3>3
    <3>6. pool[n] \in Seq(Id) /\ pool'[n] \in Seq(Id)
      BY <3>2, <3>5
    <3>7. Len(pool[n]) <= Len(pool'[n])
      BY <3>4, <3>5
    <3>8. \A p \in 1 .. Len(pool[n]) : pool'[n][p] = pool[n][p]
      BY <3>2, <3>5
    <3> QED
      BY <3>6, <3>7, <3>8
  <2>2. CASE n # m
    <3>1. pool'[n] = pool[n] /\ pool[n] \in Seq(Id) /\ Len(pool[n]) \in Nat
      BY <1>2, <2>2
    <3>2. PICK k \in Nat : k = Len(pool[n])
      BY <3>1
    <3>3. Len(pool'[n]) = k
      BY <3>1, <3>2
    <3>4. Len(pool[n]) <= Len(pool'[n])
      BY <3>2, <3>3
    <3>5. \A p \in 1 .. Len(pool[n]) : pool'[n][p] = pool[n][p]
      BY <3>1
    <3>6. pool'[n] \in Seq(Id)
      BY <3>1
    <3> QED
      BY <3>1, <3>4, <3>5, <3>6
  <2> QED
    BY <2>1, <2>2
<1> QED
  BY <1>2, <1>3, <1>5 DEF Extended

(* The pools of the other nodes are left alone.                             *)
LEMMA PooledElsewhere ==
    ASSUME Pooled, NEW m \in Base,
           \A n \in Node : n # m => pool'[n] = pool[n],
           \A b \in Parts : b # m => partNum'[b] = partNum[b],
           \A b \in Base, i \in Id : b # m => (Added(b, i)' <=> Added(b, i)),
           IsInjective(pool'[m]),
           m \notin Parts => \A i \in Id : i \in Range(pool'[m]) <=> Added(m, i)',
           m \in Parts => \A g \in Id :
                /\ partNum'[m][g] = Cardinality({i \in PartsOf(m, g) : Added(m, i)'})
                /\ g \in Range(pool'[m]) <=>
                      PartsOf(m, g) # {} /\ \A i \in PartsOf(m, g) : Added(m, i)'
    PROVE  Pooled'
<1>1. \A n \in Dummy : pool'[n] = DummyIds[n]
  BY GraphAssumption DEF Pooled
<1>2. ASSUME NEW b \in Base, b # m
      PROVE  /\ IsInjective(pool'[b])
             /\ b \notin Parts => \A i \in Id : i \in Range(pool'[b]) <=> Added(b, i)'
             /\ b \in Parts => \A g \in Id :
                  /\ partNum'[b][g] = Cardinality({i \in PartsOf(b, g) : Added(b, i)'})
                  /\ g \in Range(pool'[b]) <=>
                        PartsOf(b, g) # {} /\ \A i \in PartsOf(b, g) : Added(b, i)'
  <2>1. pool'[b] = pool[b]
    BY <1>2
  <2>2. ASSUME b \in Parts, NEW g \in Id
        PROVE  {i \in PartsOf(b, g) : Added(b, i)'} = {i \in PartsOf(b, g) : Added(b, i)}
               /\ PartsOf(b, g) \subseteq Id
    <3>1. PartsOf(b, g) \subseteq Id
      BY RequestAssumption DEF PartsOf
    <3> QED
      BY <1>2, <3>1
  <2> QED
    BY <1>2, <2>1, <2>2 DEF Pooled
<1>3. \A b \in Base :
        /\ IsInjective(pool'[b])
        /\ b \notin Parts => \A i \in Id : i \in Range(pool'[b]) <=> Added(b, i)'
        /\ b \in Parts => \A g \in Id :
             /\ partNum'[b][g] = Cardinality({i \in PartsOf(b, g) : Added(b, i)'})
             /\ g \in Range(pool'[b]) <=>
                   PartsOf(b, g) # {} /\ \A i \in PartsOf(b, g) : Added(b, i)'
  <2> SUFFICES ASSUME NEW b \in Base, b = m \/ b # m
               PROVE  /\ IsInjective(pool'[b])
                      /\ b \notin Parts => \A i \in Id : i \in Range(pool'[b]) <=> Added(b, i)'
                      /\ b \in Parts => \A g \in Id :
                           /\ partNum'[b][g] = Cardinality({i \in PartsOf(b, g) : Added(b, i)'})
                           /\ g \in Range(pool'[b]) <=>
                                 PartsOf(b, g) # {} /\ \A i \in PartsOf(b, g) : Added(b, i)'
    OBVIOUS
  <2>1. CASE b = m
    BY <2>1
  <2>2. CASE b # m
    BY <1>2, <2>2
  <2> QED
    BY <2>1, <2>2
<1>4. \A b, g : PartsOf(b, g)' = PartsOf(b, g)
  BY DEF PartsOf
<1> QED
  BY <1>1, <1>3, <1>4, Zenon DEF Pooled

(* Appending a batch puts each output in the pool once, and glues what the  *)
(* batch completes.                                                         *)
LEMMA AppendPooled ==
    ASSUME DInv, NEW w \in Worker, NEW m \in Base, AppendOutputs(w, m),
           NEW S, S = {r \in out[w] : r.base = m}, Fresh(w, m, S)
    PROVE  Pooled' /\ Extended
<1>0. /\ TypeOK /\ Pooled
      /\ \A i \in Id : Request(m, i) \in S => ~Added(m, i) /\ i \in InpIds[m]
      /\ \A b \in Base, i \in Id : Added(b, i)' <=> Added(b, i) \/ (b = m /\ Request(m, i) \in S)
      /\ IsFiniteSet(S)
  BY DEF DInv, Delivered, IInv, Fresh
<1>1. /\ \A r \in S : r.id \in InpIds[m] /\ r.id \in Id /\ r = Request(m, r.id)
      /\ Distinct(S)
  <2>1. \A r \in S : r.id \in InpIds[m] /\ r.id \in Id /\ r = Request(m, r.id)
    BY RequestIs, RequestAssumption DEF Fresh
  <2> QED
    BY <2>1 DEF Distinct
<1>2. \A i \in Id : i \in IdsOf(S) <=> Request(m, i) \in S
  BY <1>1, RequestIs DEF IdsOf
<1>3. CASE m \notin Parts
  <2>1. PICK f \in Listings(S) : pool' = [pool EXCEPT ![m] = @ \o Ids(f)]
    BY <1>3 DEF AppendOutputs
  <2>2. partNum' = partNum
    BY <1>3 DEF AppendOutputs
  <2>3. IsInjective(pool[m]) /\ \A i \in Id : i \in Range(pool[m]) <=> Added(m, i)
    BY <1>0, <1>3 DEF Pooled
  <2>4. IdsOf(S) \cap Range(pool[m]) = {}
    BY <1>0, <1>1, <1>2, <2>3 DEF IdsOf
  <2>5. /\ IsInjective(pool'[m])
        /\ Range(pool'[m]) = Range(pool[m]) \cup IdsOf(S)
        /\ Extended
    BY <1>0, <1>1, <2>1, <2>3, <2>4, AppendedPool
  <2>6. \A i \in Id : i \in Range(pool'[m]) <=> Added(m, i)'
    BY <1>0, <1>2, <2>3, <2>5
  <2>7. \A n \in Node : n # m => pool'[n] = pool[n]
    BY <1>0, <2>1 DEF TypeOK
  <2> QED
    BY <1>0, <1>3, <2>2, <2>5, <2>6, <2>7, PooledElsewhere
<1>4. CASE m \in Parts
  <2>1. PICK f \in Listings(Glued(m, S)) : pool' = [pool EXCEPT ![m] = @ \o Ids(f)]
    BY <1>4 DEF AppendOutputs
  <2>2. partNum' = [partNum EXCEPT ![m] = [g \in Id |-> @[g] + PartsIn(m, S, g)]]
    BY <1>4 DEF AppendOutputs
  <2>3. /\ IsInjective(pool[m])
        /\ \A g \in Id : /\ partNum[m][g] = Cardinality({i \in PartsOf(m, g) : Added(m, i)})
                         /\ g \in Range(pool[m]) <=>
                               PartsOf(m, g) # {} /\ \A i \in PartsOf(m, g) : Added(m, i)
    BY <1>0, <1>4 DEF Pooled
  <2>4. \A g \in Id : g \in IdsOf(Glued(m, S))
                         <=> /\ \E i \in PartsOf(m, g) : Request(m, i) \in S
                             /\ \A i \in PartsOf(m, g) : Added(m, i)'
    BY <1>4, <2>3, GluedNow
  <2>5. \A g \in Id : PartsOf(m, g) \subseteq Id
    BY RequestAssumption DEF PartsOf
  <2>6. /\ IsFiniteSet(Glued(m, S)) /\ \A x \in Glued(m, S) : x.id \in Id
        /\ Distinct(Glued(m, S)) /\ IdsOf(Glued(m, S)) \subseteq Id
    <3>1. S \subseteq out[w]
      OBVIOUS
    <3>2. IsFiniteSet(Glued(m, S)) /\ Glued(m, S) \subseteq [id : Id]
      BY <1>0, <1>4, <3>1, ToAddType
    <3> QED
      BY <3>2 DEF Distinct, IdsOf
  <2>7. IdsOf(Glued(m, S)) \cap Range(pool[m]) = {}
    <3> SUFFICES ASSUME NEW g \in Id, g \in IdsOf(Glued(m, S)), g \in Range(pool[m])
                 PROVE  FALSE
      BY <2>6
    <3> QED
      BY <1>0, <2>3, <2>4, <2>5
  <2>8. /\ IsInjective(pool'[m])
        /\ Range(pool'[m]) = Range(pool[m]) \cup IdsOf(Glued(m, S))
        /\ Extended
    BY <1>0, <2>1, <2>3, <2>6, <2>7, AppendedPool
  <2>9. ASSUME NEW g \in Id
        PROVE  /\ partNum'[m][g] = Cardinality({i \in PartsOf(m, g) : Added(m, i)'})
               /\ g \in Range(pool'[m]) <=>
                     PartsOf(m, g) # {} /\ \A i \in PartsOf(m, g) : Added(m, i)'
    <3>1. partNum'[m][g] = partNum[m][g] + PartsIn(m, S, g)
      BY <1>0, <1>4, <2>2 DEF TypeOK
    <3>2. Cardinality({i \in PartsOf(m, g) : Added(m, i)'})
            = Cardinality({i \in PartsOf(m, g) : Added(m, i)}) + PartsIn(m, S, g)
      BY <1>4, PartsCounted
    <3>3. partNum[m][g] = Cardinality({i \in PartsOf(m, g) : Added(m, i)})
      BY <2>3
    <3>4. g \in Range(pool'[m]) <=>
             PartsOf(m, g) # {} /\ \A i \in PartsOf(m, g) : Added(m, i)'
      BY <1>0, <2>3, <2>4, <2>5, <2>8
    <3> QED
      BY <3>1, <3>2, <3>3, <3>4
  <2>10. \A n \in Node : n # m => pool'[n] = pool[n]
    BY <1>0, <2>1 DEF TypeOK
  <2>11. \A b \in Parts : b # m => partNum'[b] = partNum[b]
    BY <1>0, <2>2 DEF TypeOK
  <2> QED
    BY <1>0, <1>4, <2>8, <2>9, <2>10, <2>11, PooledElsewhere
<1> QED
  BY <1>3, <1>4

(* A pool that lacks an output of the base model is shorter than the base   *)
(* model has inputs.                                                        *)
LEMMA PoolShorter ==
    ASSUME NEW m \in Base, IsFiniteSet(InpIds[m]), NEW j \in InpIds[m],
           NEW n \in Nat, NEW f \in [1 .. n -> InpIds[m] \ {j}],
           \A a, b \in 1 .. n : f[a] = f[b] => a = b
    PROVE  n < Cardinality(InpIds[m])
<1>1. f \in Injection(1 .. n, InpIds[m] \ {j})
  BY DEF Injection, IsInjective
<1>2. /\ IsFiniteSet(InpIds[m] \ {j})
      /\ Cardinality(InpIds[m] \ {j}) = Cardinality(InpIds[m]) - 1
      /\ Cardinality(InpIds[m]) \in Nat
  BY FS_RemoveElement, FS_CardinalityType
<1>3. Cardinality(1 .. n) <= Cardinality(InpIds[m] \ {j})
  BY <1>1, <1>2, FS_Injection
<1>4. Cardinality(1 .. n) = n
  BY FS_Interval
<1> QED
  BY <1>2, <1>3, <1>4

(* A model with a request left to add has fewer outputs in its pool than    *)
(* requests.                                                                *)
LEMMA PoolShort ==
    ASSUME TypeOK, CallState, Due, Pooled, NEW m \in Base,
           NEW j \in InpIds[m], ~Added(m, j)
    PROVE  Len(pool[m]) < Cardinality(InpIds[m])
<1> DEFINE D == 1 .. Len(pool[m])
           T == InpIds[m] \ {j}
           one(g) == IF m \in Parts THEN CHOOSE i \in PartsOf(m, g) : TRUE ELSE g
           f == [p \in D |-> one(pool[m][p])]
<1>1. /\ pool[m] \in Seq(Id) /\ Len(pool[m]) \in Nat
      /\ InpIds[m] \subseteq Id /\ IsFiniteSet(InpIds[m])
      /\ \A p \in D : pool[m][p] \in Id /\ pool[m][p] \in Range(pool[m])
  <2>1. pool[m] \in Seq(Id)
    BY DEF TypeOK
  <2>2. InpIds[m] \subseteq Id /\ IsFiniteSet(InpIds[m])
    BY RequestAssumption, GraphAssumption, FS_Subset
  <2> QED
    BY <2>1, <2>2 DEF Range
<1>2. \A i \in Id : Added(m, i) => i \in InpIds[m]
  BY AddedReleased DEF Due
<1>3. \A a, b \in D : pool[m][a] = pool[m][b] => a = b
  BY <1>1 DEF Pooled, IsInjective
<1>4. CASE m \notin Parts
  <2>1. \A p \in D : Added(m, pool[m][p]) /\ one(pool[m][p]) = pool[m][p]
    BY <1>1, <1>4 DEF Pooled
  <2>2. \A p \in D : one(pool[m][p]) \in T
    BY <1>1, <1>2, <2>1
  <2> HIDE DEF one
  <2>3. f \in [D -> T] /\ \A p \in D : f[p] = pool[m][p]
    BY <2>1, <2>2
  <2> HIDE DEF f
  <2>4. \A a, b \in D : f[a] = f[b] => a = b
    BY <1>3, <2>3
  <2> QED
    BY <1>1, <2>3, <2>4, PoolShorter
<1>5. CASE m \in Parts
  <2>1. ASSUME NEW p \in D
        PROVE  /\ one(pool[m][p]) \in PartsOf(m, pool[m][p])
               /\ \A i \in PartsOf(m, pool[m][p]) : i \in InpIds[m] /\ Added(m, i) /\ GroupOf[m][i] = pool[m][p]
    <3>1. /\ PartsOf(m, pool[m][p]) # {}
          /\ \A i \in PartsOf(m, pool[m][p]) : Added(m, i)
      BY <1>1, <1>5 DEF Pooled
    <3> QED
      BY <1>5, <3>1 DEF PartsOf
  <2>2. \A p \in D : one(pool[m][p]) \in T /\ GroupOf[m][one(pool[m][p])] = pool[m][p]
    BY <2>1
  <2> HIDE DEF one
  <2>3. f \in [D -> T]
    BY <2>2
  <2>4. \A p \in D : GroupOf[m][f[p]] = pool[m][p]
    BY <2>2
  <2> HIDE DEF f
  <2>5. \A a, b \in D : f[a] = f[b] => a = b
    BY <1>3, <2>4
  <2> QED
    BY <1>1, <2>3, <2>5, PoolShorter
<1> QED
  BY <1>4, <1>5

(* Appending to a pool keeps the invariant, and the counter had something   *)
(* left to count.                                                           *)
LEMMA AppendKept ==
    ASSUME DInv, IInv', StrideInv', NEW w \in Worker, NEW m \in Base, AppendOutputs(w, m)
    PROVE  Placed' /\ Flow' /\ CountingPositive' /\ ungened[m] > 0
<1>0. /\ TypeOK /\ IInv /\ CallState /\ Due /\ FoundNew /\ Placed /\ UngenedExact
      /\ Flow /\ CountingPositive /\ LocksHeld /\ LocksHeld' /\ CallOk(w) /\ ReadAnswered /\ ReadExact
      /\ Chained /\ Pooled
  BY DEF DInv, Delivered, IInv, Flow, Placed, CallState
<1>1. PICK S : S = {r \in out[w] : r.base = m}
  OBVIOUS
<1>2. Fresh(w, m, S)
  BY <1>1, BatchFresh
<1>3. /\ pc[w] = "add" /\ addLock[m] = Free /\ got[w] = {}
      /\ UNCHANGED <<readNum, avail, queue, starts, unavailable, ungened, route,
                     outlen, got, out, held, dp>>
      /\ \A v \in Worker : v # w => bi'[v] = bi[v]
      /\ \A b \in Base : b # m => addLock'[b] = addLock[b]
  BY <1>0 DEF AppendOutputs, AddFree, CallOk, TypeOK, modelVars
<1>4. Tight' /\ Exclusive' /\ Due' /\ HeldRouted' /\ SameReleased
  BY <1>0, <1>3, PlacedUnchanged
<1>5. SameFound
  BY <1>3, FoundKept
<1>6. FoundNew' /\ SameCollected
  BY <1>0, <1>3, <1>4, <1>5, FoundNewKept, CollectedKept
<1>7. Pooled' /\ Extended
  BY <1>1, <1>2, AppendPooled
<1>8. Grown /\ Answering
  BY <1>2, <1>3 DEF Grown, Answering, Fresh
<1>9. Flow'
  BY <1>0, <1>3, <1>6, <1>7, <1>8, ReadAnsweredKept, ReadExactKept, ChainedKept DEF Flow
<1>10. ungened[m] > 0
  <2>1. PICK j \in InpIds[m] : ~Added(m, j)
    BY <1>2, RequestAssumption DEF Fresh
  <2>2. Len(pool[m]) < Cardinality(InpIds[m])
    BY <1>0, <2>1, PoolShort
  <2>3. ungened[m] = Cardinality(InpIds[m]) - Len(pool[m])
    BY <1>0, <1>3 DEF UngenedExact
  <2>4. Len(pool[m]) \in Nat /\ Cardinality(InpIds[m]) \in Nat
    <3>1. IsFiniteSet(InpIds[m])
      BY RequestAssumption, GraphAssumption, FS_Subset
    <3>2. pool[m] \in Seq(Id)
      BY <1>0 DEF TypeOK
    <3> QED
      BY <3>1, <3>2, FS_CardinalityType
  <2> QED
    BY <2>2, <2>3, <2>4
<1>11. CountingPositive'
  <2> SUFFICES ASSUME NEW b \in Base, NEW v \in Worker, Counting(v, b)'
               PROVE  ungened'[b] > 0
    BY DEF CountingPositive
  <2>1. CASE b = m
    BY <1>3, <1>10, <2>1
  <2>2. CASE b # m
    <3>1. Counting(v, b)
      BY <1>0, <1>3, <2>2 DEF LocksHeld
    <3> QED
      BY <1>0, <1>3, <3>1 DEF CountingPositive
  <2> QED
    BY <2>1, <2>2
<1> QED
  BY <1>4, <1>6, <1>9, <1>10, <1>11 DEF Placed

----------------------------------------------------------------------------
(* ReadSource: an input is found when the last output it needs is read.     *)

(* One output of a source makes a given input, and it is in the pool once.  *)
LEMMA FedOnce ==
    ASSUME TypeOK, CallState, Due, Pooled, NEW m \in Base, NEW from \in Range(Srcs[m]),
           NEW p \in 1 .. Len(pool[from]), NEW q \in 1 .. Len(pool[from]), NEW i \in Id,
           i \in Feeds[<<m, from, pool[from][p]>>], i \in Feeds[<<m, from, pool[from][q]>>]
    PROVE  p = q
<1>1. from \in Node
  BY SourceType DEF Range
<1>2. Makes(from, pool[from][p], m, i) /\ Makes(from, pool[from][q], m, i)
  BY <1>1, PoolIds DEF Makes
<1>3. pool[from][p] = pool[from][q]
  BY <1>1, <1>2, PoolIds, FeedsAssumption
<1>4. IsInjective(pool[from]) /\ pool[from] \in Seq(Id)
  BY <1>1, FeedsAssumption DEF Pooled, TypeOK
<1> QED
  BY <1>3, <1>4 DEF IsInjective

(* What get_seqs selects of a source is new, is named once, and is fed by   *)
(* an output not read before.                                               *)
LEMMA SelectedNew ==
    ASSUME TypeOK, CallState, Due, Pooled, ReadAnswered,
           NEW m \in Base, NEW from \in Range(Srcs[m])
    PROVE  /\ Distinct(Selected(from, m))
           /\ \A i \in Id : i \in IdsOf(Selected(from, m)) =>
                 /\ ~ReadFor(from, m, i)
                 /\ \E g \in Id : Makes(from, g, m, i)
           /\ \A i \in Id : i \in IdsOf(Selected(from, m)) <=>
                 \E p \in Unread(from, m) : i \in Feeds[<<m, from, pool[from][p]>>]
<1>1. from \in Node
  BY SourceType DEF Range
<1>2. /\ readNum[<<from, m>>] \in Nat /\ Len(pool[from]) \in Nat
      /\ readNum[<<from, m>>] <= Len(pool[from])
  BY <1>1 DEF TypeOK, ReadAnswered
<1>3. \A p \in Unread(from, m) : p \in 1 .. Len(pool[from]) /\ p > readNum[<<from, m>>]
  BY <1>2 DEF Unread
<1>4. \A x \in Selected(from, m) :
         /\ x.pos \in Unread(from, m) /\ x.id \in Id /\ x.from = from
         /\ x.id \in Feeds[<<m, from, pool[from][x.pos]>>]
         /\ x = [from |-> x.from, pos |-> x.pos, id |-> x.id]
  BY DEF Selected
<1>5. Distinct(Selected(from, m))
  <2> SUFFICES ASSUME NEW x \in Selected(from, m), NEW y \in Selected(from, m), x.id = y.id
               PROVE  x = y
    BY DEF Distinct
  <2>1. x.pos = y.pos
    BY <1>3, <1>4, FedOnce
  <2> QED
    BY <1>4, <2>1
<1>6. \A i \in Id : i \in IdsOf(Selected(from, m)) <=>
                 \E p \in Unread(from, m) : i \in Feeds[<<m, from, pool[from][p]>>]
  <2>1. ASSUME NEW i \in Id, NEW p \in Unread(from, m), i \in Feeds[<<m, from, pool[from][p]>>]
        PROVE  i \in IdsOf(Selected(from, m))
    <3> DEFINE x == [from |-> from, pos |-> p, id |-> i]
    <3>1. x \in Selected(from, m)
      BY <2>1 DEF Selected
    <3> QED
      BY <3>1 DEF IdsOf
  <2>2. ASSUME NEW i \in Id, i \in IdsOf(Selected(from, m))
        PROVE  \E p \in Unread(from, m) : i \in Feeds[<<m, from, pool[from][p]>>]
    BY <1>4, <2>2 DEF IdsOf
  <2> QED
    BY <2>1, <2>2
<1>7. ASSUME NEW i \in Id, i \in IdsOf(Selected(from, m))
      PROVE  ~ReadFor(from, m, i) /\ \E g \in Id : Makes(from, g, m, i)
  <2>1. PICK p \in Unread(from, m) : i \in Feeds[<<m, from, pool[from][p]>>]
    BY <1>6, <1>7
  <2>2. p \in 1 .. Len(pool[from]) /\ p > readNum[<<from, m>>]
    BY <1>3
  <2>3. ASSUME NEW q \in 1 .. readNum[<<from, m>>], i \in Feeds[<<m, from, pool[from][q]>>]
        PROVE  FALSE
    <3>1. q \in 1 .. Len(pool[from]) /\ q # p
      BY <1>2, <2>2
    <3> QED
      BY <2>1, <2>2, <2>3, <3>1, FedOnce
  <2>4. \E g \in Id : Makes(from, g, m, i)
    BY <1>1, <2>1, <2>2, PoolIds DEF Makes
  <2> QED
    BY <2>3, <2>4 DEF ReadFor
<1> QED
  BY <1>5, <1>6, <1>7

(* After the read everything in the pool is read for m.                     *)
Reads(from, m) ==
    pool' = pool /\ readNum' = [readNum EXCEPT ![<<from, m>>] = Len(pool[from])]

(* Reading a source adds the inputs selected of it to what was read, and    *)
(* nothing else.                                                            *)
LEMMA ReadForAfter ==
    ASSUME TypeOK, CallState, Due, Pooled, ReadAnswered,
           NEW m \in Base, NEW from \in Range(Srcs[m]), Reads(from, m)
    PROVE  /\ \A i \in Id : ReadFor(from, m, i)'
                               <=> ReadFor(from, m, i) \/ i \in IdsOf(Selected(from, m))
           /\ \A b \in Base, n \in Node, i \in Id :
                 <<n, b>> # <<from, m>> => (ReadFor(n, b, i)' <=> ReadFor(n, b, i))
<1>1. from \in Node
  BY SourceType DEF Range
<1>2. /\ readNum[<<from, m>>] \in Nat /\ Len(pool[from]) \in Nat
      /\ readNum[<<from, m>>] <= Len(pool[from])
      /\ readNum'[<<from, m>>] = Len(pool[from])
  BY <1>1 DEF TypeOK, ReadAnswered, Reads
<1>3. \A p : p \in 1 .. Len(pool[from])
                <=> p \in 1 .. readNum[<<from, m>>] \/ p \in Unread(from, m)
  BY <1>2 DEF Unread
<1>4. \A i \in Id : ReadFor(from, m, i)'
                       <=> ReadFor(from, m, i) \/ i \in IdsOf(Selected(from, m))
  <2> SUFFICES ASSUME NEW i \in Id
               PROVE  ReadFor(from, m, i)'
                         <=> ReadFor(from, m, i) \/ i \in IdsOf(Selected(from, m))
    OBVIOUS
  <2>1. i \in IdsOf(Selected(from, m)) <=>
           \E p \in Unread(from, m) : i \in Feeds[<<m, from, pool[from][p]>>]
    BY SelectedNew
  <2>2. ReadFor(from, m, i)' <=> \E p \in 1 .. Len(pool[from]) : i \in Feeds[<<m, from, pool[from][p]>>]
    BY <1>2 DEF ReadFor, Reads
  <2> QED
    BY <1>3, <2>1, <2>2 DEF ReadFor
<1>5. \A b \in Base, n \in Node, i \in Id :
         <<n, b>> # <<from, m>> => (ReadFor(n, b, i)' <=> ReadFor(n, b, i))
  <2> SUFFICES ASSUME NEW b \in Base, NEW n \in Node, NEW i \in Id, <<n, b>> # <<from, m>>
               PROVE  ReadFor(n, b, i)' <=> ReadFor(n, b, i)
    OBVIOUS
  <2>1. readNum'[<<n, b>>] = readNum[<<n, b>>]
    BY DEF TypeOK, Reads
  <2> QED
    BY <2>1 DEF ReadFor, Reads
<1> QED
  BY <1>4, <1>5

(* A source that may be read has answered whatever its pool has.            *)
LEMMA ReadableAnswered ==
    ASSUME IInv, CallState, Pooled, CountingPositive, NEW from \in Base, MayRead(from),
           NEW p \in 1 .. Len(pool[from])
    PROVE  IF from \in Parts THEN PartsOf(from, pool[from][p]) \subseteq outlen[from]
                             ELSE pool[from][p] \in outlen[from]
<1>1. \A v \in Worker : ~Counting(v, from)
  <2> SUFFICES ASSUME NEW v \in Worker, Counting(v, from) PROVE FALSE
    OBVIOUS
  <2>1. ungened[from] > 0 /\ ungened[from] \in Int
    BY GraphAssumption DEF CountingPositive, IInv, TypeOK
  <2>2. addLock[from] = v /\ v # Free
    BY WorkerType DEF IInv, LocksHeld
  <2> QED
    BY <2>1, <2>2 DEF MayRead
<1>2. ASSUME NEW i \in Id, Added(from, i) PROVE i \in outlen[from]
  <2> SUFFICES ASSUME NEW v \in Worker, Request(from, i) \in adding[v].batch PROVE FALSE
    BY <1>2 DEF Added
  <2>1. pc[v] = "count" /\ Request(from, i).base = Current(v)
    BY DEF CallState, CallOk
  <2> QED
    BY <1>1, <2>1, RequestIs DEF Counting
<1>3. pool[from][p] \in Id /\ pool[from][p] \in Range(pool[from])
  <2>1. pool[from] \in Seq(Id)
    BY DEF IInv, TypeOK
  <2> QED
    BY <2>1 DEF Range
<1>4. CASE from \in Parts
  <2>1. \A i \in PartsOf(from, pool[from][p]) : Added(from, i)
    BY <1>3, <1>4 DEF Pooled
  <2>2. PartsOf(from, pool[from][p]) \subseteq Id
    BY RequestAssumption DEF PartsOf
  <2> QED
    BY <1>2, <1>4, <2>1, <2>2
<1>5. CASE from \notin Parts
  BY <1>2, <1>3, <1>5 DEF Pooled
<1> QED
  BY <1>4, <1>5

(* Which slots are filled after the read: those that were, and the one of   *)
(* the source read.                                                         *)
LEMMA SlotsAfter ==
    ASSUME TypeOK, CallState, Due, Pooled, ReadAnswered,
           NEW m \in Base, NEW k \in DOMAIN Srcs[m], NEW from, from = Srcs[m][k], Reads(from, m),
           NEW i \in Id
    PROVE  \A j \in DOMAIN Srcs[m] :
              ReadFor(Srcs[m][j], m, i)'
                 <=> ReadFor(Srcs[m][j], m, i) \/ (j = k /\ i \in IdsOf(Selected(from, m)))
<1>1. from \in Range(Srcs[m]) /\ \A j \in DOMAIN Srcs[m] : Srcs[m][j] \in Node
  BY SourceType DEF Range
<1>2. \A j \in DOMAIN Srcs[m] : Srcs[m][j] = from <=> j = k
  BY FeedsAssumption DEF IsInjective
<1>3. ReadFor(from, m, i)' <=> ReadFor(from, m, i) \/ i \in IdsOf(Selected(from, m))
  BY <1>1, ReadForAfter
<1>4. \A j \in DOMAIN Srcs[m] : j # k => (ReadFor(Srcs[m][j], m, i)' <=> ReadFor(Srcs[m][j], m, i))
  <2> SUFFICES ASSUME NEW j \in DOMAIN Srcs[m], j # k
               PROVE  ReadFor(Srcs[m][j], m, i)' <=> ReadFor(Srcs[m][j], m, i)
    OBVIOUS
  <2>1. <<Srcs[m][j], m>> # <<from, m>>
    BY <1>2
  <2> QED
    BY <1>1, <2>1, ReadForAfter
<1> QED
  BY <1>2, <1>3, <1>4

(* An input of several sources completes when all of them are read: the     *)
(* count of _available_srcs is the number of slots filled.                  *)
LEMMA CompletesWhenRead ==
    ASSUME TypeOK, CallState, Due, Pooled, ReadAnswered, ReadExact,
           NEW m \in Base, ~SingleSource(m),
           NEW k \in DOMAIN Srcs[m], NEW from, from = Srcs[m][k], Reads(from, m),
           NEW x \in Selected(from, m)
    PROVE  Completes(m, CountAt(m, Selected(from, m), x)) <=> AllRead(m, x.id)'
<1> DEFINE i == x.id
           read == {j \in DOMAIN Srcs[m] : ReadFor(Srcs[m][j], m, i)}
<1>1. from \in Range(Srcs[m]) /\ from \in Node
  BY SourceType DEF Range
<1>2. /\ x.id \in Id /\ x.pos \in Nat
      /\ i \in IdsOf(Selected(from, m)) /\ Distinct(Selected(from, m))
      /\ ~ReadFor(from, m, i)
  <2>1. x.id \in Id /\ x.pos \in Unread(from, m)
    BY DEF Selected
  <2>2. x.pos \in Nat
    BY <1>1, <2>1 DEF Unread, TypeOK
  <2> QED
    BY <1>1, <2>1, <2>2, SelectedNew DEF IdsOf
<1>3. {y \in Selected(from, m) : y.id = x.id /\ y.pos <= x.pos} = {x}
  BY <1>2 DEF Distinct
<1>4. avail[m][i].slots = read /\ avail[m][i].n = Cardinality(read)
  BY <1>2 DEF ReadExact
<1>5. CountAt(m, Selected(from, m), x) = Cardinality(read) + 1
  BY <1>3, <1>4, FS_Singleton DEF CountAt
<1>6. /\ DOMAIN Srcs[m] = 1 .. Len(Srcs[m]) /\ Len(Srcs[m]) \in Nat
      /\ IsFiniteSet(DOMAIN Srcs[m]) /\ Cardinality(DOMAIN Srcs[m]) = Len(Srcs[m])
  <2>1. Srcs[m] \in Seq(Node)
    BY SourceType
  <2>2. DOMAIN Srcs[m] = 1 .. Len(Srcs[m]) /\ Len(Srcs[m]) \in Nat
    BY <2>1
  <2>3. IsFiniteSet(1 .. Len(Srcs[m])) /\ Cardinality(1 .. Len(Srcs[m])) = Len(Srcs[m])
    BY <2>2, FS_Interval
  <2> QED
    BY <2>2, <2>3
<1>7. k \notin read /\ read \subseteq DOMAIN Srcs[m] /\ read \cup {k} \subseteq DOMAIN Srcs[m]
  BY <1>2
<1>8. IsFiniteSet(read) /\ Cardinality(read \cup {k}) = Cardinality(read) + 1
  <2>1. IsFiniteSet(read)
    BY <1>6, <1>7, FS_Subset
  <2> QED
    BY <1>7, <2>1, FS_AddElement
<1>9. Cardinality(read) + 1 = Len(Srcs[m]) <=> read \cup {k} = DOMAIN Srcs[m]
  BY <1>6, <1>7, <1>8, FS_Subset
<1>10. {j \in DOMAIN Srcs[m] : ReadFor(Srcs[m][j], m, i)'} = read \cup {k}
  <2>1. {j \in DOMAIN Srcs[m] : ReadFor(Srcs[m][j], m, i)'}
          = read \cup {j \in {k} : i \in IdsOf(Selected(from, m))}
    <3>1. \A j \in DOMAIN Srcs[m] :
              ReadFor(Srcs[m][j], m, i)'
                 <=> ReadFor(Srcs[m][j], m, i) \/ (j = k /\ i \in IdsOf(Selected(from, m)))
      BY <1>2, SlotsAfter
    <3> QED
      BY <3>1
  <2>2. {j \in {k} : i \in IdsOf(Selected(from, m))} = {k}
    BY <1>2
  <2> QED
    BY <2>1, <2>2
<1>11. AllRead(m, i)' <=> \A j \in DOMAIN Srcs[m] : ReadFor(Srcs[m][j], m, i)'
  BY DEF AllRead, SingleSource, Range
<1> QED
  BY <1>5, <1>9, <1>10, <1>11 DEF Completes

(* What a call finds by reading a source: the inputs that become complete.  *)
LEMMA ReadFinds ==
    ASSUME DInv, NEW w \in Worker, ReadSource(w),
           NEW m, m = Current(w), NEW from, from = Srcs[m][si[w]]
    PROVE  \E S : /\ got' = [got EXCEPT ![w] = @ \cup S]
                  /\ Distinct(S)
                  /\ \A i \in Id : i \in IdsOf(S) <=> AllRead(m, i)' /\ ~AllRead(m, i)
                  /\ \A i \in Id : AllRead(m, i) => AllRead(m, i)'
                  /\ \A i \in Id : AllRead(m, i)' /\ ~AllRead(m, i) => i \in IdsOf(Selected(from, m))
<1>0. /\ TypeOK /\ CallInv /\ CallState /\ Due /\ Pooled /\ ReadAnswered /\ ReadExact
      /\ m \in Base /\ si[w] \in DOMAIN Srcs[m] /\ Reads(from, m)
  BY CurrentType DEF Reads, DInv, IInv, Delivered, CallInv, ReadSource
<1>1. from \in Range(Srcs[m]) /\ Range(Srcs[m]) \subseteq Node
  BY <1>0, SourceType DEF Range
<1>2. PICK new : new = Selected(from, m)
  OBVIOUS
<1>3. /\ Distinct(new)
      /\ \A i \in Id : i \in IdsOf(new) => ~ReadFor(from, m, i) /\ \E g \in Id : Makes(from, g, m, i)
  BY <1>0, <1>1, <1>2, SelectedNew
<1>4. \A i \in Id : ReadFor(from, m, i)' <=> ReadFor(from, m, i) \/ i \in IdsOf(new)
  BY <1>0, <1>1, <1>2, ReadForAfter
<1>5. \A n \in Range(Srcs[m]), i \in Id : n # from => (ReadFor(n, m, i)' <=> ReadFor(n, m, i))
  <2> SUFFICES ASSUME NEW n \in Range(Srcs[m]), NEW i \in Id, n # from
               PROVE  ReadFor(n, m, i)' <=> ReadFor(n, m, i)
    OBVIOUS
  <2>1. n \in Node /\ <<n, m>> # <<from, m>>
    BY <1>1
  <2> QED
    BY <1>0, <1>1, <2>1, ReadForAfter
<1>6. \A i \in Id : /\ AllRead(m, i) => AllRead(m, i)'
                    /\ AllRead(m, i)' /\ ~AllRead(m, i) => i \in IdsOf(new)
  BY <1>1, <1>4, <1>5 DEF AllRead, SingleSource
<1>7. CASE SingleSource(m)
  <2>1. got' = [got EXCEPT ![w] = @ \cup new]
    BY <1>2, <1>7 DEF ReadSource
  <2>2. ASSUME NEW i \in Id, i \in IdsOf(new) PROVE AllRead(m, i)' /\ ~AllRead(m, i)
    <3>1. AllRead(m, i)'
      BY <1>1, <1>4, <1>7, <2>2 DEF AllRead, SingleSource
    <3>2. ASSUME NEW n \in Range(Srcs[m]), ReadFor(n, m, i) PROVE FALSE
      <4>1. n \in Node /\ n # from
        BY <1>1, <1>3, <2>2, <3>2
      <4>2. \E g \in Id : Makes(n, g, m, i)
        BY <1>0, <3>2, <4>1, ReadMakes
      <4>3. \E g \in Id : Makes(from, g, m, i)
        BY <1>3, <2>2
      <4> QED
        BY <1>0, <1>1, <1>7, <4>1, <4>2, <4>3, FeedsAssumption
    <3> QED
      BY <1>7, <3>1, <3>2 DEF AllRead
  <2> QED
    BY <1>2, <1>3, <1>6, <2>1, <2>2
<1>8. CASE ~SingleSource(m)
  <2>1. PICK S : S = {x \in new : Completes(m, CountAt(m, new, x))}
    OBVIOUS
  <2>2. got' = [got EXCEPT ![w] = @ \cup S]
    BY <1>2, <1>8, <2>1 DEF ReadSource
  <2>3. \A x \in new : x \in S <=> AllRead(m, x.id)'
    BY <1>0, <1>2, <1>8, <2>1, CompletesWhenRead
  <2>4. Distinct(S)
    BY <1>3, <2>1 DEF Distinct
  <2>5. \A i \in Id : i \in IdsOf(new) => ~AllRead(m, i)
    BY <1>1, <1>3, <1>8 DEF AllRead
  <2>6. \A i \in Id : i \in IdsOf(S) <=> AllRead(m, i)' /\ ~AllRead(m, i)
    <3>1. ASSUME NEW i \in Id, i \in IdsOf(S) PROVE AllRead(m, i)' /\ ~AllRead(m, i)
      <4>1. PICK x \in S : x.id = i
        BY <3>1 DEF IdsOf
      <4>2. x \in new /\ i \in IdsOf(new)
        BY <2>1, <4>1 DEF IdsOf
      <4> QED
        BY <2>3, <2>5, <4>1, <4>2
    <3>2. ASSUME NEW i \in Id, AllRead(m, i)', ~AllRead(m, i) PROVE i \in IdsOf(S)
      <4>1. PICK x \in new : x.id = i
        BY <1>6, <3>2 DEF IdsOf
      <4> QED
        BY <2>3, <3>2, <4>1 DEF IdsOf
    <3> QED
      BY <3>1, <3>2
  <2> QED
    BY <1>2, <1>6, <2>2, <2>4, <2>6
<1> QED
  BY <1>7, <1>8

(* Requests that two base models of a fused model have, once more: what the *)
(* later one has read all of was added by the earlier one.                  *)
LEMMA ChainRead ==
    ASSUME TypeOK, CallState, Due, Pooled, Chained, IInv,
           NEW s \in Shared, NEW a \in DOMAIN BaseOf[s], NEW b \in DOMAIN BaseOf[s], a < b,
           NEW i \in InpIds[BaseOf[s][a]] \cap InpIds[BaseOf[s][b]],
           \A from \in Node : ReadFor(from, BaseOf[s][b], i)' =>
              \E p \in 1 .. Len(pool[from]) : i \in Feeds[<<BaseOf[s][b], from, pool[from][p]>>],
           AllRead(BaseOf[s][b], i)'
    PROVE  Added(BaseOf[s][a], i)
<1>1. PICK n : n = BaseOf[s][b]
  OBVIOUS
<1>2. /\ BaseOf[s] \in Seq(Base) /\ a \in Nat \ {0} /\ b \in Nat \ {0}
      /\ b - 1 \in DOMAIN BaseOf[s] /\ n \in Base /\ BaseOf[s][a] \in Base
  <2>1. BaseOf[s] \in Seq(Base)
    BY GraphAssumption
  <2>2. DOMAIN BaseOf[s] = 1 .. Len(BaseOf[s]) /\ Len(BaseOf[s]) \in Nat
    BY <2>1
  <2>3. a \in Nat \ {0} /\ b \in Nat \ {0} /\ b - 1 \in DOMAIN BaseOf[s]
    BY <2>2
  <2> QED
    BY <1>1, <2>1, <2>3
<1>3. PICK m : m = BaseOf[s][b - 1]
  OBVIOUS
<1>4. m \in Base /\ i \in Id
  BY <1>2, <1>3, RequestAssumption
<1>5. /\ m \notin Parts
      /\ ~SingleSource(n) => m \in Range(Srcs[n])
      /\ \A from \in Range(Srcs[n]) : \A g \in Id :
            Makes(from, g, n, i) /\ (SingleSource(n) \/ from = m) => from = m /\ g = i
  BY <1>1, <1>3, FusedAssumption
<1>6. \E from \in Range(Srcs[n]) : ReadFor(from, n, i)' /\ (SingleSource(n) \/ from = m)
  BY <1>1, <1>5 DEF AllRead, SingleSource
<1>7. PICK from \in Range(Srcs[n]) : ReadFor(from, n, i)' /\ (SingleSource(n) \/ from = m)
  BY <1>6
<1>8. from \in Node
  BY <1>2, SourceType DEF Range
<1>9. PICK p \in 1 .. Len(pool[from]) : i \in Feeds[<<n, from, pool[from][p]>>]
  BY <1>1, <1>7, <1>8
<1>10. Makes(from, pool[from][p], n, i) /\ pool[from][p] \in Id
  BY <1>8, <1>9, PoolIds DEF Makes
<1>11. from = m /\ pool[from][p] = i
  BY <1>5, <1>7, <1>10
<1>12. i \in Range(pool[m])
  <2>1. pool[m] \in Seq(Id)
    BY <1>4 DEF TypeOK
  <2> QED
    BY <1>9, <1>11, <2>1 DEF Range
<1>13. Added(m, i)
  BY <1>4, <1>5, <1>12 DEF Pooled
<1>14. CASE a = b - 1
  BY <1>3, <1>13, <1>14
<1>15. CASE a # b - 1
  <2>1. a < b - 1
    BY <1>2, <1>15
  <2>2. Released(m, i) /\ i \in InpIds[m]
    BY <1>4, <1>13, AddedReleased DEF Due
  <2> QED
    BY <1>2, <1>3, <2>1, <2>2 DEF Chained, Collected
<1> QED
  BY <1>14, <1>15

(* Reading a source collects the inputs it completes, each for the first    *)
(* time.                                                                    *)
LEMMA ReadKept ==
    ASSUME DInv, IInv', StrideInv', NEW w \in Worker, ReadSource(w)
    PROVE  Placed' /\ Flow' /\ CountingPositive'
<1>0. /\ TypeOK /\ IInv /\ CallInv /\ CallState /\ Due /\ FoundNew /\ Placed
      /\ Flow /\ CountingPositive /\ LocksHeld /\ LocksHeld' /\ CallOk(w) /\ ReadAnswered /\ ReadExact
      /\ Chained /\ Pooled
  BY DEF DInv, Delivered, IInv, Flow, Placed, CallState
<1>1. PICK m, from, new : m = Current(w) /\ from = Srcs[m][si[w]] /\ new = Selected(from, m)
  OBVIOUS
<1>2. /\ m \in Base /\ si[w] \in DOMAIN Srcs[m] /\ pc[w] = "read" /\ MayRead(from)
      /\ from \in Range(Srcs[m]) /\ from \in Node
      /\ readNum' = [readNum EXCEPT ![<<from, m>>] = Len(pool[from])]
      /\ UNCHANGED <<pool, queue, starts, unavailable, ungened, partNum, route,
                     outlen, addLock, bi, out, adding, held, dp>>
  <2>1. m \in Base
    BY <1>0, <1>1, CurrentType
  <2>2. pc[w] = "read" /\ si[w] \in DOMAIN Srcs[m]
    BY <1>0, <1>1 DEF ReadSource, CallInv
  <2>3. from \in Range(Srcs[m]) /\ from \in Node
    BY <1>1, <2>1, <2>2, SourceType DEF Range
  <2> QED
    BY <1>1, <2>1, <2>2, <2>3 DEF ReadSource, modelVars
<1>3. PICK S : /\ got' = [got EXCEPT ![w] = @ \cup S]
               /\ Distinct(S)
               /\ \A i \in Id : i \in IdsOf(S) <=> AllRead(m, i)' /\ ~AllRead(m, i)
               /\ \A i \in Id : AllRead(m, i) => AllRead(m, i)'
               /\ \A i \in Id : AllRead(m, i)' /\ ~AllRead(m, i) => i \in IdsOf(Selected(from, m))
  BY <1>1, ReadFinds
<1>4. Tight' /\ Exclusive' /\ Due' /\ HeldRouted' /\ SameReleased
  BY <1>0, <1>2, PlacedUnchanged
<1>5. SameAdded
  BY <1>2 DEF SameAdded, Added
<1>6. Pooled'
  BY <1>0, <1>2, <1>5, PooledKept
<1>7. CountingPositive'
  BY <1>0, <1>2, CountingKept
<1>8. \A i \in Id : Found(m, i)' <=> Found(m, i) \/ i \in IdsOf(S)
  <2> SUFFICES ASSUME NEW i \in Id PROVE Found(m, i)' <=> Found(m, i) \/ i \in IdsOf(S)
    OBVIOUS
  <2>1. /\ got'[w] = got[w] \cup S /\ Current(w)' = m
        /\ \A v \in Worker : v # w => got'[v] = got[v] /\ Current(v)' = Current(v)
    BY <1>0, <1>1, <1>2, <1>3 DEF TypeOK, Current
  <2> QED
    BY <1>1, <2>1 DEF Found, IdsOf
<1>9. \A b \in Base, i \in Id : b # m => (Found(b, i)' <=> Found(b, i))
  <2> SUFFICES ASSUME NEW b \in Base, NEW i \in Id, b # m PROVE Found(b, i)' <=> Found(b, i)
    OBVIOUS
  <2>1. /\ Current(w)' = m
        /\ \A v \in Worker : v # w => got'[v] = got[v] /\ Current(v)' = Current(v)
    BY <1>0, <1>1, <1>2, <1>3 DEF TypeOK, Current
  <2> QED
    BY <1>1, <2>1 DEF Found
<1>10. \A b \in Base, n \in Node, i \in Id :
          <<n, b>> # <<from, m>> => (ReadFor(n, b, i)' <=> ReadFor(n, b, i))
  <2>1. Reads(from, m)
    BY <1>2 DEF Reads
  <2> QED
    BY <1>0, <1>2, <2>1, ReadForAfter
<1>11. \A b \in Base, i \in Id : b # m => (AllRead(b, i)' <=> AllRead(b, i))
  <2> SUFFICES ASSUME NEW b \in Base, NEW i \in Id, b # m PROVE AllRead(b, i)' <=> AllRead(b, i)
    OBVIOUS
  <2>1. Range(Srcs[b]) \subseteq Node
    BY SourceType DEF Range
  <2>2. \A n \in Range(Srcs[b]) : ReadFor(n, b, i)' <=> ReadFor(n, b, i)
    BY <1>10, <2>1
  <2> QED
    BY <2>2 DEF AllRead, SingleSource
<1>12. \A b \in Base, i \in Id : Collected(b, i)' <=> AllRead(b, i)'
  BY <1>0, <1>3, <1>4, <1>8, <1>9, <1>11 DEF SameReleased, Collected, ReadExact
<1>13. FoundNew'
  <2>1. \A i \in Id : i \in IdsOf(S) => ~Released(m, i) /\ ~Found(m, i)
    BY <1>0, <1>2, <1>3 DEF ReadExact, Collected
  <2>2. \A b \in Base, i \in Id : ~(Released(b, i)' /\ Found(b, i)')
    BY <1>0, <1>4, <1>8, <1>9, <2>1 DEF SameReleased, FoundNew
  <2>3. Distinct(got[w] \cup S)
    <3>1. \A x \in got[w] : x.id \in Id /\ Found(m, x.id)
      BY <1>0, <1>1 DEF TypeOK, Found
    <3>2. \A x \in got[w], y \in S : x.id # y.id
      BY <2>1, <3>1 DEF IdsOf
    <3> QED
      BY <1>0, <1>3, <3>2 DEF Distinct, FoundNew
  <2>4. \A v \in Worker : Distinct(got'[v])
    BY <1>0, <1>3, <2>3 DEF TypeOK, FoundNew, Distinct
  <2> QED
    BY <2>2, <2>4 DEF FoundNew, Distinct
<1>14. ReadAnswered'
  <2> SUFFICES ASSUME NEW b \in Base, NEW n \in Node
               PROVE  /\ readNum'[<<n, b>>] <= Len(pool[n])
                      /\ n \in Base => \A p \in 1 .. readNum'[<<n, b>>] :
                            IF n \in Parts THEN PartsOf(n, pool[n][p]) \subseteq outlen[n]
                                           ELSE pool[n][p] \in outlen[n]
    BY <1>2 DEF ReadAnswered, PartsOf
  <2>1. CASE <<n, b>> = <<from, m>>
    <3>1. n = from /\ readNum'[<<n, b>>] = Len(pool[n]) /\ Len(pool[n]) \in Nat
      BY <1>0, <1>2, <2>1 DEF TypeOK
    <3>2. Len(pool[n]) <= Len(pool[n])
      BY <3>1
    <3>3. n \in Base => \A p \in 1 .. Len(pool[n]) :
             IF n \in Parts THEN PartsOf(n, pool[n][p]) \subseteq outlen[n]
                            ELSE pool[n][p] \in outlen[n]
      BY <1>0, <1>2, <3>1, ReadableAnswered
    <3> QED
      BY <3>1, <3>2, <3>3
  <2>2. CASE <<n, b>> # <<from, m>>
    <3>1. readNum'[<<n, b>>] = readNum[<<n, b>>]
      BY <1>0, <1>2, <2>2 DEF TypeOK
    <3> QED
      BY <1>0, <3>1 DEF ReadAnswered
  <2> QED
    BY <2>1, <2>2
<1>15. ReadExact'
  <2> SUFFICES ASSUME NEW b \in Base, NEW i \in Id, ~SingleSource(b)
               PROVE  /\ avail'[b][i].slots = {k \in DOMAIN Srcs[b] : ReadFor(Srcs[b][k], b, i)'}
                      /\ avail'[b][i].n = Cardinality(avail'[b][i].slots)
    BY <1>12 DEF ReadExact, SingleSource
  <2>1. CASE b # m
    <3>1. avail'[b] = avail[b]
      BY <1>0, <1>1, <1>2, <2>1 DEF ReadSource, TypeOK
    <3>2. \A k \in DOMAIN Srcs[b] : ReadFor(Srcs[b][k], b, i)' <=> ReadFor(Srcs[b][k], b, i)
      BY <1>10, <2>1, SourceType
    <3>3. {k \in DOMAIN Srcs[b] : ReadFor(Srcs[b][k], b, i)'} = {k \in DOMAIN Srcs[b] : ReadFor(Srcs[b][k], b, i)}
      BY <3>2
    <3> QED
      BY <1>0, <3>1, <3>3 DEF ReadExact
  <2>2. CASE b = m
    <3>1. PICK mine : mine = {x \in new : x.id = i}
      OBVIOUS
    <3>2. PICK old : old = {k \in DOMAIN Srcs[m] : ReadFor(Srcs[m][k], m, i)}
      OBVIOUS
    <3>3. avail[m][i].slots = old /\ avail[m][i].n = Cardinality(old)
      BY <1>0, <1>2, <2>2, <3>2 DEF ReadExact
    <3>4. /\ avail'[m][i].slots = old \cup {k \in {si[w]} : mine # {}}
          /\ avail'[m][i].n = Cardinality(old) + Cardinality(mine)
      <4>1. avail' = [avail EXCEPT ![m] = [j \in Id |->
                       [n |-> avail[m][j].n + Cardinality({x \in new : x.id = j}),
                        slots |-> avail[m][j].slots \cup
                                    {k \in {si[w]} : {x \in new : x.id = j} # {}}]]]
        BY <1>1, <2>2 DEF ReadSource
      <4>2. avail'[m][i] = [n |-> avail[m][i].n + Cardinality(mine),
                            slots |-> avail[m][i].slots \cup {k \in {si[w]} : mine # {}}]
        BY <1>0, <1>2, <3>1, <4>1 DEF TypeOK
      <4> QED
        BY <3>3, <4>2
    <3>5. mine # {} <=> i \in IdsOf(new)
      BY <3>1 DEF IdsOf
    <3>6. {k \in DOMAIN Srcs[m] : ReadFor(Srcs[m][k], m, i)'} = old \cup {k \in {si[w]} : mine # {}}
      <4>1. \A j \in DOMAIN Srcs[m] :
              ReadFor(Srcs[m][j], m, i)'
                 <=> ReadFor(Srcs[m][j], m, i) \/ (j = si[w] /\ i \in IdsOf(Selected(from, m)))
        <5>1. PICK h \in DOMAIN Srcs[m] : h = si[w] /\ from = Srcs[m][h]
          BY <1>1, <1>2
        <5>2. Reads(from, m)
          BY <1>2 DEF Reads
        <5>3. \A j \in DOMAIN Srcs[m] :
                 ReadFor(Srcs[m][j], m, i)'
                    <=> ReadFor(Srcs[m][j], m, i) \/ (j = h /\ i \in IdsOf(Selected(from, m)))
          BY <1>0, <1>2, <5>1, <5>2, SlotsAfter
        <5> QED
          BY <5>1, <5>3
      <4> QED
        BY <1>1, <1>2, <3>2, <3>5, <4>1
    <3>7. Cardinality(old \cup {k \in {si[w]} : mine # {}}) = Cardinality(old) + Cardinality(mine)
      <4>1. IsFiniteSet(old) /\ Cardinality(old) \in Nat
        <5>1. DOMAIN Srcs[m] = 1 .. Len(Srcs[m]) /\ Len(Srcs[m]) \in Nat
          BY <1>2, SourceType
        <5>2. IsFiniteSet(DOMAIN Srcs[m])
          <6>1. PICK n \in Nat : n = Len(Srcs[m])
            BY <5>1
          <6>2. IsFiniteSet(1 .. n)
            BY FS_Interval
          <6> QED
            BY <5>1, <6>1, <6>2
        <5>3. IsFiniteSet(old)
          BY <3>2, <5>2, FS_Subset
        <5> QED
          BY <5>3, FS_CardinalityType
      <4>2. CASE mine = {}
        <5>1. PICK T : T = old \cup {k \in {si[w]} : mine # {}}
          OBVIOUS
        <5>2. T = old
          BY <4>2, <5>1
        <5>3. Cardinality(mine) = 0
          BY <4>2, FS_EmptySet
        <5>4. Cardinality(T) = Cardinality(old) + Cardinality(mine)
          BY <4>1, <5>2, <5>3
        <5> QED
          BY <5>1, <5>4
      <4>3. CASE mine # {}
        <5>1. PICK x \in mine : TRUE
          BY <4>3
        <5>2. mine = {x}
          BY <1>0, <1>1, <1>2, <3>1, <5>1, SelectedNew DEF Distinct
        <5>3. Cardinality(mine) = 1
          BY <5>2, FS_Singleton
        <5>4. si[w] \notin old
          BY <1>0, <1>1, <1>2, <3>2, <3>5, <4>3, SelectedNew
        <5>5. old \cup {k \in {si[w]} : mine # {}} = old \cup {si[w]}
          BY <4>3
        <5>6. Cardinality(old \cup {si[w]}) = Cardinality(old) + 1
          BY <4>1, <5>4, FS_AddElement
        <5> QED
          BY <5>3, <5>5, <5>6
      <4> QED
        BY <4>2, <4>3
    <3> QED
      BY <2>2, <3>4, <3>6, <3>7
  <2> QED
    BY <2>1, <2>2
<1>16. Chained'
  <2> SUFFICES ASSUME NEW s \in Shared, NEW a \in DOMAIN BaseOf[s], NEW b \in DOMAIN BaseOf[s],
                      a < b, NEW i \in InpIds[BaseOf[s][a]] \cap InpIds[BaseOf[s][b]],
                      Collected(BaseOf[s][b], i)'
               PROVE  Added(BaseOf[s][a], i)'
    BY DEF Chained
  <2>1. BaseOf[s][a] \in Base /\ BaseOf[s][b] \in Base /\ i \in Id
    BY GraphAssumption, RequestAssumption
  <2>2. AllRead(BaseOf[s][b], i)'
    BY <1>12, <2>1
  <2>3. \A n \in Node : ReadFor(n, BaseOf[s][b], i)' =>
           \E p \in 1 .. Len(pool[n]) : i \in Feeds[<<BaseOf[s][b], n, pool[n][p]>>]
    <3> SUFFICES ASSUME NEW n \in Node, ReadFor(n, BaseOf[s][b], i)'
                 PROVE  \E p \in 1 .. Len(pool[n]) : i \in Feeds[<<BaseOf[s][b], n, pool[n][p]>>]
      OBVIOUS
    <3>1. PICK p \in 1 .. readNum'[<<n, BaseOf[s][b]>>] : i \in Feeds[<<BaseOf[s][b], n, pool[n][p]>>]
      BY <1>2 DEF ReadFor
    <3>2. /\ readNum'[<<n, BaseOf[s][b]>>] <= Len(pool[n])
          /\ readNum'[<<n, BaseOf[s][b]>>] \in Nat /\ Len(pool[n]) \in Nat
      <4>1. readNum'[<<n, BaseOf[s][b]>>] <= Len(pool[n])
        BY <1>2, <1>14, <2>1 DEF ReadAnswered
      <4>2. readNum'[<<n, BaseOf[s][b]>>] \in Nat
        BY <2>1 DEF IInv, TypeOK
      <4>3. Len(pool[n]) \in Nat
        BY <1>0 DEF TypeOK
      <4> QED
        BY <4>1, <4>2, <4>3
    <3> QED
      BY <3>1, <3>2
  <2>4. Added(BaseOf[s][a], i)
    BY <1>0, <2>2, <2>3, ChainRead
  <2> QED
    BY <1>5, <2>1, <2>4 DEF SameAdded
<1> QED
  BY <1>4, <1>6, <1>7, <1>13, <1>14, <1>15, <1>16 DEF Placed, Flow

----------------------------------------------------------------------------
(* The invariant.                                                           *)

(* Nothing is anywhere at first but what is loaded into the dummy inputs.   *)
LEMMA InitDelivered ==
    ASSUME Init, IInv, StrideInv
    PROVE  Delivered
<1>1. TypeOK /\ QueueView
  BY QueueViewed DEF IInv
<1>2. \A s \in Shared : dp[s] = 0
  BY DEF Init
<1>3. ASSUME NEW m \in Base PROVE Waiting(m) = {} /\ dp[OwnerOf(m)] = 0
  <2>1. OwnerOf(m) \in Shared
    BY OwnerType
  <2> QED
    BY <1>1, <1>2, <2>1 DEF QueueView
<1>4. \A m \in Base : \A i : ~Queued(m, i)
  BY <1>3 DEF Queued
<1>5. \A w \in Worker, m \in Base : \A i : ~Has(w, m, i)
  BY DEF Has, Init
<1>6. \A m \in Base : \A i : ~Released(m, i) /\ ~Added(m, i) /\ ~Found(m, i)
  <2>1. \A m \in Base : \A i : ~Added(m, i)
    BY DEF Added, Init
  <2>2. \A m \in Base : \A i : ~Found(m, i)
    BY DEF Found, Init
  <2>3. \A m \in Base : \A i : ~Released(m, i)
    BY <1>4, <1>5 DEF Released, Init
  <2> QED
    BY <2>1, <2>2, <2>3
<1>r. \A n \in Node, m \in Base : readNum[<<n, m>>] = 0
  BY DEF Init
<1>7. ASSUME NEW n \in Node, NEW m \in Base, NEW i PROVE ~ReadFor(n, m, i)
  <2>1. readNum[<<n, m>>] = 0 /\ 1 .. 0 = {}
    BY <1>r
  <2> QED
    BY <2>1 DEF ReadFor
<1>8. CallState
  <2> SUFFICES ASSUME NEW w \in Worker PROVE CallOk(w)
    BY DEF CallState
  <2> QED
    BY DEF CallOk, Init
<1>9. Tight
  BY <1>3 DEF Tight
<1>10. Exclusive
  BY <1>3, <1>4, <1>5 DEF Exclusive, Init
<1>11. Due
  <2> SUFFICES ASSUME NEW m \in Base
               PROVE  unavailable[m] = Cardinality({i \in InpIds[m] : ~Released(m, i)})
    BY <1>6 DEF Due
  <2>1. {i \in InpIds[m] : ~Released(m, i)} = InpIds[m]
    BY <1>6
  <2> QED
    BY <2>1 DEF Init
<1>12. Pooled
  <2>1. \A n \in Dummy : pool[n] = DummyIds[n]
    BY DEF Init
  <2>2. ASSUME NEW m \in Base
        PROVE  pool[m] = <<>> /\ IsInjective(pool[m]) /\ Range(pool[m]) = {}
    <3>1. pool[m] = <<>>
      BY GraphAssumption DEF Init
    <3> QED
      BY <3>1 DEF IsInjective, Range
  <2>3. ASSUME NEW m \in Base, m \in Parts, NEW g \in Id
        PROVE  /\ partNum[m][g] = Cardinality({i \in PartsOf(m, g) : Added(m, i)})
               /\ ~(PartsOf(m, g) # {} /\ \A i \in PartsOf(m, g) : Added(m, i))
    <3>1. {i \in PartsOf(m, g) : Added(m, i)} = {}
      BY <1>6
    <3>2. partNum[m][g] = 0
      BY <2>3 DEF Init
    <3> QED
      BY <1>6, <3>1, <3>2, FS_EmptySet
  <2> QED
    BY <1>6, <2>1, <2>2, <2>3 DEF Pooled
<1>13. CountingPositive
  BY DEF CountingPositive, Counting, Init
<1>14. ReadAnswered
  <2> SUFFICES ASSUME NEW m \in Base, NEW n \in Node
               PROVE  /\ readNum[<<n, m>>] <= Len(pool[n])
                      /\ \A p : p \notin 1 .. readNum[<<n, m>>]
    BY DEF ReadAnswered
  <2>1. Len(pool[n]) \in Nat
    BY <1>1 DEF TypeOK
  <2>2. readNum[<<n, m>>] = 0 /\ \A p : p \notin 1 .. 0
    BY <1>r
  <2> QED
    BY <2>1, <2>2
<1>15. ReadExact
  <2> SUFFICES ASSUME NEW m \in Base, NEW i \in Id
               PROVE  /\ ~AllRead(m, i)
                      /\ avail[m][i].slots = {k \in DOMAIN Srcs[m] : ReadFor(Srcs[m][k], m, i)}
                      /\ avail[m][i].n = Cardinality(avail[m][i].slots)
    BY <1>6 DEF ReadExact, Collected
  <2>1. Srcs[m][1] \in Range(Srcs[m]) /\ Range(Srcs[m]) \subseteq Node
    BY SourceType DEF Range
  <2>2. ~AllRead(m, i)
    BY <1>7, <2>1 DEF AllRead
  <2>3. {k \in DOMAIN Srcs[m] : ReadFor(Srcs[m][k], m, i)} = {}
    BY <1>7, SourceType
  <2>4. avail[m][i] = [n |-> 0, slots |-> {}]
    BY DEF Init
  <2> QED
    BY <2>2, <2>3, <2>4, FS_EmptySet
<1>16. FoundNew
  BY <1>6 DEF FoundNew, Init
<1>17. Chained
  BY <1>6, GraphAssumption DEF Chained, Collected
<1>18. HeldRouted
  BY DEF HeldRouted, Init
<1> QED
  BY <1>8, <1>9, <1>10, <1>11, <1>12, <1>13, <1>14, <1>15, <1>16, <1>17, <1>18 DEF Delivered

(* No step breaks it.                                                       *)
LEMMA NextDelivered ==
    ASSUME DInv, [Next]_vars
    PROVE  DInv'
<1>1. IInv' /\ UngenedExact' /\ LeftExact' /\ StrideInv'
  BY NextInv, NextExact, NextStride DEF DInv
<1>2. /\ IInv /\ TypeOK /\ StrideInv /\ CallState /\ Tight /\ Exclusive /\ FoundNew
      /\ LocksHeld /\ LocksHeld' /\ Placed /\ Flow /\ CountingPositive
  BY <1>1 DEF DInv, IInv, Delivered, Placed, Flow
<1>3. CASE UNCHANGED vars \/ \E s \in Shared : RequestStop(s)
  <2>1. Quiet /\ pc' = pc /\ slice' = slice
    BY <1>3 DEF RequestStop, vars, commVars, callVars, modelVars, Quiet
  <2>2. CallState'
    <3> SUFFICES ASSUME NEW v \in Worker PROVE CallOk(v)'
      BY DEF CallState
    <3>1. /\ Untouched(v) /\ dp'[Model(v)] = dp[Model(v)]
          /\ queue'[Current(v)] = queue[Current(v)] /\ starts'[Current(v)] = starts[Current(v)]
      BY <2>1 DEF Quiet, Untouched
    <3> QED
      BY <1>2, <3>1, OthersOk
  <2>3. Placed' /\ Flow' /\ CountingPositive'
    BY <1>2, <2>1, QuietKept
  <2> QED
    BY <1>1, <2>2, <2>3 DEF DInv, Delivered, Placed, Flow
<1>4. CASE \E s \in Shared : \E d \in Plans[s] : Launch(s, d)
  <2>a. PICK s \in Shared : \E d \in Plans[s] : Launch(s, d)
    BY <1>4
  <2>1. PICK d \in Plans[s] : Launch(s, d)
    BY <2>a
  <2>2. CallState'
    BY <1>2, <2>1, LaunchCallState
  <2>3. Placed' /\ Flow' /\ CountingPositive'
    BY <1>1, <2>1, LaunchKept
  <2> QED
    BY <1>1, <2>2, <2>3 DEF DInv, Delivered, Placed, Flow
<1>5. ASSUME NEW w \in Worker, Serves(w) PROVE DInv'
  <2>1. CallState'
    BY <1>2, <1>5, ServesCallState
  <2>2. CASE GetSeqs(w) \/ Leave(w) \/ AcquireFetch(w) \/ ReadSlice(w)
    <3>1. Quiet
      BY <2>2 DEF GetSeqs, Leave, AcquireFetch, ReadSlice, commVars, modelVars, Quiet
    <3>2. Placed' /\ Flow' /\ CountingPositive'
      BY <1>2, <3>1, QuietKept
    <3> QED
      BY <1>1, <2>1, <3>2 DEF DInv, Delivered, Placed, Flow
  <2>3. CASE ~(GetSeqs(w) \/ Leave(w) \/ AcquireFetch(w) \/ ReadSlice(w))
    <3>1. Placed' /\ Flow' /\ CountingPositive'
      BY <1>1, <1>5, <2>3, AddSeqsKept, ReadKept, FuseKept, TakeKept, CountKept, AppendKept
         DEF Serves
    <3> QED
      BY <1>1, <2>1, <3>1 DEF DInv, Delivered, Placed, Flow
  <2> QED
    BY <2>2, <2>3
<1> QED
  BY <1>3, <1>4, <1>5, StepCases


(* The invariant, in every reachable state: whatever the graph of models,   *)
(* the plans, the interleaving of the polls and the launches.               *)
THEOREM Delivering == Spec => []DInv
<1>1. Init => DInv
  <2> SUFFICES ASSUME Init PROVE DInv
    OBVIOUS
  <2>1. IInv
    BY InitInv
  <2>2. StrideInv
    BY InitStride
  <2>3. UngenedExact /\ LeftExact
    BY InitExact
  <2> QED
    BY <2>1, <2>2, <2>3, InitDelivered DEF DInv
<1>2. DInv /\ [Next]_vars => DInv'
  BY NextDelivered
<1> QED
  BY <1>1, <1>2, PTL DEF Spec

----------------------------------------------------------------------------
(* A request is in one place, or in none and still counted.                 *)

(* A set without two different elements.                                    *)
LEMMA AtMostOne ==
    ASSUME NEW S, \A x, y \in S : x = y
    PROVE  Cardinality(S) = IF S = {} THEN 0 ELSE 1
<1>1. CASE S = {}
  BY <1>1, FS_EmptySet
<1>2. CASE S # {}
  <2>1. PICK x : S = {x}
    BY <1>2
  <2> QED
    BY <1>2, <2>1, FS_Singleton
<1> QED
  BY <1>1, <1>2

(* A request has one copy when it is released and none before.              *)
LEMMA CopiesAre ==
    ASSUME DInv, NEW m \in Base, NEW i \in Id
    PROVE  Copies(m, i) = IF Released(m, i) THEN 1 ELSE 0
<1> DEFINE Q == {p \in Waiting(m) : p.id = i}
           H == {w \in Worker : Request(m, i) \in held[w]}
           O == {w \in Worker : Request(m, i) \in out[w]}
           A == outlen[m] \cap {i}
<1>1. /\ \A x, y \in Waiting(m) : x.id = y.id => x = y
      /\ \A v, w \in Worker : Has(v, m, i) /\ Has(w, m, i) => v = w
      /\ \A w \in Worker : /\ ~(Request(m, i) \in held[w] /\ Request(m, i) \in out[w])
                           /\ Has(w, m, i) => ~Queued(m, i) /\ i \notin outlen[m]
      /\ ~(Queued(m, i) /\ i \in outlen[m])
  BY DEF DInv, Delivered, Exclusive
<1>2. /\ \A x, y \in Q : x = y
      /\ \A x, y \in H : x = y
      /\ \A x, y \in O : x = y
      /\ \A x, y \in A : x = y
  BY <1>1 DEF Has
<1>3. /\ Q # {} <=> Queued(m, i)
      /\ A # {} <=> i \in outlen[m]
      /\ (H # {} \/ O # {}) <=> \E w \in Worker : Has(w, m, i)
  BY DEF Has, Queued
<1>4. ~(H # {} /\ O # {})
  BY <1>1 DEF Has
<1>5. Copies(m, i) = Cardinality(Q) + Cardinality(H) + Cardinality(O) + Cardinality(A)
  BY DEF Copies
<1> HIDE DEF Q, H, O, A
<1>6. /\ Cardinality(Q) = IF Q = {} THEN 0 ELSE 1
      /\ Cardinality(H) = IF H = {} THEN 0 ELSE 1
      /\ Cardinality(O) = IF O = {} THEN 0 ELSE 1
      /\ Cardinality(A) = IF A = {} THEN 0 ELSE 1
  BY <1>2, AtMostOne
<1>7. Released(m, i) <=> Q # {} \/ H # {} \/ O # {} \/ A # {}
  BY <1>3 DEF Released
<1>8. /\ ~(Q # {} /\ H # {}) /\ ~(Q # {} /\ O # {}) /\ ~(Q # {} /\ A # {})
      /\ ~(A # {} /\ H # {}) /\ ~(A # {} /\ O # {})
  BY <1>1, <1>3
<1> QED
  BY <1>4, <1>5, <1>6, <1>7, <1>8

(* Every request is handed to one worker: it is never in two places, and    *)
(* _unavailable_req_nums counts exactly those that are in none.             *)
THEOREM HandedOutOnce == Spec => []EachRequestOnce
<1>1. DInv => EachRequestOnce
  <2> SUFFICES ASSUME DInv, NEW m \in Base
               PROVE  /\ \A i \in Id : Copies(m, i) <= (IF i \in InpIds[m] THEN 1 ELSE 0)
                      /\ unavailable[m] = Cardinality({i \in InpIds[m] : Copies(m, i) = 0})
    BY DEF EachRequestOnce
  <2>1. /\ \A i \in Id : Released(m, i) => i \in InpIds[m]
        /\ unavailable[m] = Cardinality({i \in InpIds[m] : ~Released(m, i)})
    BY DEF DInv, Delivered, Due
  <2>2. \A i \in Id : Copies(m, i) = IF Released(m, i) THEN 1 ELSE 0
    BY CopiesAre
  <2>3. {i \in InpIds[m] : ~Released(m, i)} = {i \in InpIds[m] : Copies(m, i) = 0}
    BY <2>2, RequestAssumption
  <2> QED
    BY <2>1, <2>2, <2>3
<1> QED
  BY <1>1, Delivering, PTL

----------------------------------------------------------------------------
(* A request comes after its sources.                                       *)

(* What was read of a node for a request is in its pool.                    *)
LEMMA ReadIsFed ==
    ASSUME DInv, NEW m \in Base, NEW from \in Node, NEW i, ReadFor(from, m, i)
    PROVE  \E k \in DOMAIN pool[from] : i \in Feeds[m, from, pool[from][k]]
<1>1. PICK p \in 1 .. readNum[<<from, m>>] : i \in Feeds[<<m, from, pool[from][p]>>]
  BY DEF ReadFor
<1>2. /\ pool[from] \in Seq(Id) /\ readNum[<<from, m>>] \in Nat
      /\ readNum[<<from, m>>] <= Len(pool[from])
  BY DEF DInv, Delivered, ReadAnswered, IInv, TypeOK
<1>3. p \in DOMAIN pool[from]
  BY <1>2
<1> QED
  BY <1>1, <1>3

(* A request reaches a queue only after every output it is made of was      *)
(* produced, and, fused from several sources, with the text of each.        *)
THEOREM SourcesComeFirst == Spec => []SourcesFirst
<1>1. DInv => SourcesFirst
  <2> SUFFICES ASSUME DInv, NEW m \in Base, NEW i \in Id, Copies(m, i) > 0
               PROVE  IF SingleSource(m)
                      THEN \E from \in Range(Srcs[m]) :
                              \E k \in DOMAIN pool[from] : i \in Feeds[m, from, pool[from][k]]
                      ELSE /\ \A from \in Range(Srcs[m]) :
                              \E k \in DOMAIN pool[from] : i \in Feeds[m, from, pool[from][k]]
                           /\ avail[m][i].slots = DOMAIN Srcs[m]
    BY DEF SourcesFirst
  <2>1. Released(m, i)
    BY CopiesAre
  <2>2. /\ AllRead(m, i)
        /\ ~SingleSource(m) =>
              avail[m][i].slots = {k \in DOMAIN Srcs[m] : ReadFor(Srcs[m][k], m, i)}
    BY <2>1 DEF DInv, Delivered, ReadExact, Collected
  <2>3. Range(Srcs[m]) \subseteq Node /\ \A k \in DOMAIN Srcs[m] : Srcs[m][k] \in Range(Srcs[m])
    BY SourceType DEF Range
  <2>4. CASE SingleSource(m)
    BY <2>2, <2>3, <2>4, ReadIsFed DEF AllRead
  <2>5. CASE ~SingleSource(m)
    <3>1. \A from \in Range(Srcs[m]) : ReadFor(from, m, i)
      BY <2>2, <2>5 DEF AllRead
    <3>2. avail[m][i].slots = DOMAIN Srcs[m]
      BY <2>2, <2>3, <2>5, <3>1
    <3> QED
      BY <2>3, <2>5, <3>1, <3>2, ReadIsFed
  <2> QED
    BY <2>4, <2>5
<1> QED
  BY <1>1, Delivering, PTL

----------------------------------------------------------------------------
(* Where an output goes.                                                    *)

(* The output of a fused model is filed under the base model its request    *)
(* was fetched for.                                                         *)
THEOREM FiledRight == Spec => []RoutedToItsBase
<1>1. DInv => RoutedToItsBase
  BY RoutedRight DEF DInv, Delivered
<1> QED
  BY <1>1, Delivering, PTL

(* A glued output is in the pool once, exactly when all its parts were      *)
(* added.                                                                   *)
THEOREM GluedOnce == Spec => []GluedWhenWhole
<1>1. DInv => GluedWhenWhole
  <2> SUFFICES ASSUME DInv, NEW m \in Parts, NEW g \in Id, NEW added,
                      added = outlen[m] \cup UNION {{r.id : r \in adding[w].batch} :
                                w \in {w \in Worker : pc[w] = "count" /\ Current(w) = m}}
               PROVE  Cardinality({k \in DOMAIN pool[m] : pool[m][k] = g})
                        = IF PartsOf(m, g) # {} /\ PartsOf(m, g) \subseteq added THEN 1 ELSE 0
    BY DEF GluedWhenWhole
  <2>1. m \in Base /\ TypeOK
    BY RequestAssumption DEF DInv, IInv
  <2>2. \A i \in Id : i \in added <=> Added(m, i)
    <3>1. ASSUME NEW i \in Id, NEW w \in Worker, pc[w] = "count", Current(w) = m,
                 NEW r \in adding[w].batch, r.id = i
          PROVE  Added(m, i)
      <4>1. r \in out[w] /\ r.base = m
        BY <3>1 DEF DInv, Delivered, CallState, CallOk
      <4>2. r = Request(m, i)
        <5>1. r \in [base : Base, id : Id]
          BY <2>1, <4>1 DEF TypeOK
        <5> QED
          BY <3>1, <4>1, <5>1 DEF Request
      <4> QED
        BY <3>1, <4>2 DEF Added
    <3>2. ASSUME NEW i \in Id, NEW w \in Worker, Request(m, i) \in adding[w].batch
          PROVE  i \in added
      <4>1. /\ pc[w] = "count"
            /\ adding[w].batch = {r \in out[w] : r.base = Current(w)}
        BY <3>2 DEF DInv, Delivered, CallState, CallOk
      <4>2. Request(m, i).base = m /\ Request(m, i).id = i
        BY DEF Request
      <4>3. Current(w) = m
        BY <3>2, <4>1, <4>2
      <4> QED
        BY <3>2, <4>1, <4>2, <4>3
    <3> QED
      BY <3>1, <3>2 DEF Added
  <2>3. PartsOf(m, g) \subseteq Id
    BY <2>1, RequestAssumption DEF PartsOf
  <2>4. /\ IsInjective(pool[m])
        /\ g \in Range(pool[m]) <=> PartsOf(m, g) # {} /\ \A i \in PartsOf(m, g) : Added(m, i)
    BY <2>1 DEF DInv, Delivered, Pooled
  <2>5. \A j, k \in {k \in DOMAIN pool[m] : pool[m][k] = g} : j = k
    BY <2>4 DEF IsInjective
  <2>6. {k \in DOMAIN pool[m] : pool[m][k] = g} # {} <=> g \in Range(pool[m])
    BY DEF Range
  <2>7. PartsOf(m, g) \subseteq added <=> \A i \in PartsOf(m, g) : Added(m, i)
    BY <2>2, <2>3
  <2> QED
    BY <2>4, <2>5, <2>6, <2>7, AtMostOne
<1> QED
  BY <1>1, Delivering, PTL

(* A model whose counter of missing outputs is zero appends nothing more:   *)
(* its pool may be read without its lock.                                   *)
THEOREM ReadWithoutLock == Spec => UnlockedPoolIsFinal
<1>1. DInv /\ [Next]_vars =>
        [\A m \in Base : ungened[m] = 0 => pool'[m] = pool[m]]_vars
  <2> SUFFICES ASSUME DInv, [Next]_vars, NEW m \in Base, pool'[m] # pool[m]
               PROVE  ungened[m] # 0
    OBVIOUS
  <2>1. IInv' /\ StrideInv' /\ TypeOK
    BY NextInv, NextStride DEF DInv, IInv
  <2>2. PICK w \in Worker : Serves(w)
    BY StepCases DEF RequestStop, Launch, vars, commVars
  <2>3. PICK b \in Base : AppendOutputs(w, b)
    BY <2>2 DEF Serves, GetSeqs, AddSeqs, Leave, AcquireFetch, ReadSource, Fuse, ReadSlice,
       Take, TakeSlice, TakeRebalanced, TakeFirst, TakeNothing, EndFetch, CountOutputs, commVars
  <2>4. b = m
    BY <2>1, <2>3 DEF AppendOutputs, TypeOK
  <2>5. ungened[m] > 0
    BY <2>1, <2>3, <2>4, AppendKept
  <2>6. ungened[m] \in Int
    BY <2>1 DEF TypeOK
  <2> QED
    BY <2>5, <2>6
<1> QED
  BY <1>1, Delivering, PTL DEF Spec, UnlockedPoolIsFinal


----------------------------------------------------------------------------
(* Nothing is left behind.                                                  *)

(* The steps of one worker leave alone what the others were told.           *)
LEMMA OthersTold ==
    ASSUME TypeOK, NEW w \in Worker, Serves(w)
    PROVE  /\ \A v \in Worker : v # w => possible'[v] = possible[v]
           /\ UNCHANGED <<dp, stopping>>
<1> USE DEF TypeOK
<1>1. CASE GetSeqs(w) \/ AddSeqs(w) \/ Leave(w)
  BY <1>1 DEF GetSeqs, AddSeqs, Leave, commVars, modelVars
<1>2. CASE AcquireFetch(w) \/ ReadSource(w) \/ Fuse(w) \/ ReadSlice(w)
  BY <1>2 DEF AcquireFetch, ReadSource, Fuse, ReadSlice, commVars, modelVars
<1>3. CASE Take(w)
  BY <1>3 DEF Take, TakeSlice, TakeRebalanced, TakeFirst, TakeNothing, Give, EndFetch
<1>4. CASE CountOutputs(w) \/ \E m \in Base : AppendOutputs(w, m)
  BY <1>4 DEF CountOutputs, AppendOutputs, modelVars
<1> QED
  BY <1>1, <1>2, <1>3, <1>4 DEF Serves

(* When no input is due, none is found: a call finds only requests that are *)
(* due and not released.                                                    *)
LEMMA NoneDueNoneFound ==
    ASSUME DInv, NEW w \in Worker, NEW m \in Base, m = Current(w), unavailable[m] = 0
    PROVE  got[w] = {}
<1> SUFFICES ASSUME NEW x \in got[w] PROVE FALSE
  OBVIOUS
<1>0. TypeOK
  BY DEF DInv, IInv
<1>1. x.id \in Id /\ TypeOK
  <2>1. got[w] \in SUBSET [from : Node, pos : Nat, id : Id]
    BY <1>0 DEF TypeOK
  <2> QED
    BY <1>0, <2>1
<1>2. Found(m, x.id) /\ ~Released(m, x.id)
  BY <1>1 DEF Found, DInv, Delivered, FoundNew
<1>3. AllRead(m, x.id)
  BY <1>1, <1>2 DEF DInv, Delivered, ReadExact, Collected
<1>4. x.id \in InpIds[m]
  BY <1>1, <1>3, AllReadDue DEF DInv, Delivered
<1>5. Cardinality({i \in InpIds[m] : ~Released(m, i)}) = 0
  BY DEF DInv, Delivered, Due
<1>6. IsFiniteSet({i \in InpIds[m] : ~Released(m, i)})
  BY RequestAssumption, GraphAssumption, FS_Subset
<1>7. {i \in InpIds[m] : ~Released(m, i)} = {}
  BY <1>5, <1>6, FS_EmptySet
<1> QED
  BY <1>2, <1>4, <1>7

(* A base model without a waiting or a due input will never have one.       *)
LEMMA ExhaustedStays ==
    ASSUME DInv, [Next]_vars, NEW m \in Base, Exhausted(m)
    PROVE  Exhausted(m)'
<1>0. IInv /\ StrideInv /\ TypeOK /\ CallState /\ Tight /\ Exclusive /\ FoundNew
  BY DEF DInv, Delivered, IInv
<1>1. ASSUME unavailable' = unavailable, queue' = queue, starts' = starts, dp' = dp
      PROVE  Exhausted(m)'
  BY <1>1, SameWaiting DEF Exhausted
<1>2. CASE UNCHANGED vars \/ \E s \in Shared : RequestStop(s)
  BY <1>1, <1>2 DEF RequestStop, vars, commVars, modelVars
<1>3. ASSUME NEW s \in Shared, NEW d \in Plans[s], Launch(s, d) PROVE Exhausted(m)'
  <2>1. IdsOf(Waiting(m)') = IdsOf(Waiting(m)) /\ unavailable' = unavailable
    BY <1>0, <1>3, LaunchQueues DEF Launch
  <2> QED
    BY <2>1 DEF Exhausted, IdsOf
<1>4. ASSUME NEW w \in Worker, Serves(w) PROVE Exhausted(m)'
  <2>1. CASE Take(w)
    <3>1. PICK b, T : TakesFrom(w, b, T)
      BY <1>0, <2>1, TakeEffect
    <3>2. IdsOf(Waiting(m)') \subseteq IdsOf(Waiting(m))
      BY <3>1 DEF TakesFrom, Hands
    <3>3. unavailable' = unavailable
      BY <3>1 DEF TakesFrom, EndFetch
    <3> QED
      BY <3>2, <3>3 DEF Exhausted, IdsOf
  <2>2. CASE Fuse(w)
    <3>1. PICK b \in Base : b = Current(w)
      BY <1>0, CurrentOwner
    <3>2. /\ IdsOf(Waiting(b)') = IdsOf(Waiting(b)) \cup IdsOf(got[w])
          /\ \A c \in Base \ {b} : Waiting(c)' = Waiting(c)
      BY <1>0, <2>2, <3>1, FuseEffect
    <3>3. unavailable' = [unavailable EXCEPT ![b] = @ - Cardinality(got[w])]
      BY <2>2, <3>1 DEF Fuse
    <3>4. CASE m = b
      <4>1. got[w] = {}
        BY <3>1, <3>4, NoneDueNoneFound DEF Exhausted
      <4>2. unavailable'[m] = 0
        BY <1>0, <3>3, <3>4, <4>1, FS_EmptySet DEF TypeOK, Exhausted
      <4> QED
        BY <3>2, <3>4, <4>1, <4>2 DEF Exhausted, IdsOf
    <3>5. CASE m # b
      BY <1>0, <3>2, <3>3, <3>5 DEF TypeOK, Exhausted
    <3> QED
      BY <3>4, <3>5
  <2>3. CASE \/ GetSeqs(w) \/ AddSeqs(w) \/ Leave(w)
             \/ AcquireFetch(w) \/ ReadSource(w) \/ ReadSlice(w)
             \/ CountOutputs(w) \/ \E b \in Base : AppendOutputs(w, b)
    BY <1>1, <2>3 DEF GetSeqs, AddSeqs, Leave, AcquireFetch, ReadSource, ReadSlice,
       CountOutputs, AppendOutputs, commVars, modelVars
  <2> QED
    BY <1>4, <2>1, <2>2, <2>3 DEF Serves
<1> QED
  BY <1>2, <1>3, <1>4, StepCases

(* What a worker's poll has learnt, as a predicate of one worker.           *)
PolledBy(w) ==
    ~possible[w] => \A k \in DOMAIN BaseOf[Model(w)] :
        pc[w] \in {"off", "idle", "add", "count"} \/ k < bi[w] => Exhausted(BaseOf[Model(w)][k])

(* What was learnt stays true while the call is where it was.               *)
LEMMA PolledKept ==
    ASSUME DInv, [Next]_vars, NEW w \in Worker, PolledBy(w),
           possible'[w] = possible[w], bi'[w] = bi[w],
           pc'[w] \in {"off", "idle", "add", "count"} => pc[w] \in {"off", "idle", "add", "count"}
    PROVE  PolledBy(w)'
<1>1. \A k \in DOMAIN BaseOf[Model(w)] : BaseOf[Model(w)][k] \in Base
  BY WorkerType
<1>2. \A k \in DOMAIN BaseOf[Model(w)] :
          Exhausted(BaseOf[Model(w)][k]) => Exhausted(BaseOf[Model(w)][k])'
  BY <1>1, ExhaustedStays
<1> QED
  BY <1>2 DEF PolledBy

(* A worker that gets nothing for a base model has seen that nothing waits  *)
(* there and, if it may not hope any more, that nothing is due.             *)
LEMMA TakePolled ==
    ASSUME DInv, [Next]_vars, NEW w \in Worker, Take(w), PolledBy(w)
    PROVE  PolledBy(w)'
<1>0. IInv /\ StrideInv /\ TypeOK /\ CallState /\ Tight /\ Exclusive /\ CallInv
  BY DEF DInv, Delivered, IInv
<1> SUFFICES ASSUME ~possible'[w], NEW k \in DOMAIN BaseOf[Model(w)],
                    pc'[w] \in {"off", "idle", "add", "count"} \/ k < bi'[w]
             PROVE  Exhausted(BaseOf[Model(w)][k])'
  BY DEF PolledBy
<1>1. PICK m, T : TakesFrom(w, m, T)
  BY <1>0, TakeEffect
<1>2. /\ m \in Base /\ m = BaseOf[Model(w)][bi[w]] /\ pc[w] = "assign" /\ EndFetch(w)
      /\ bi[w] \in DOMAIN BaseOf[Model(w)]
  BY <1>0, <1>1 DEF TakesFrom, Current, CallInv
<1>3. ~(T # {} /\ Give(w, T))
  BY <1>0 DEF Give, TypeOK
<1>4. /\ possible' = [possible EXCEPT ![w] = @ \/ StillDue(m)]
      /\ Waiting(m) = {}
  BY <1>1, <1>3 DEF TakesFrom
<1>5. ~possible[w] /\ ~StillDue(m)
  BY <1>0, <1>4 DEF TypeOK
<1>6. Exhausted(m)
  BY <1>4, <1>5 DEF StillDue, Exhausted
<1>7. PICK n \in Nat : n = Len(BaseOf[Model(w)]) /\ DOMAIN BaseOf[Model(w)] = 1 .. n
  BY WorkerType
<1>8. k < bi[w] \/ k = bi[w]
  <2>1. CASE bi[w] < n
    <3>1. bi'[w] = bi[w] + 1 /\ pc'[w] = "get"
      BY <1>0, <1>2, <1>7, <2>1 DEF EndFetch, TypeOK
    <3>2. k < bi[w] + 1 /\ k \in Nat /\ bi[w] \in Nat
      BY <1>2, <1>7, <3>1
    <3> QED
      BY <3>2
  <2>2. CASE ~(bi[w] < n)
    BY <1>2, <1>7, <2>2
  <2> QED
    BY <2>1, <2>2
<1>9. Exhausted(BaseOf[Model(w)][k])
  BY <1>2, <1>5, <1>6, <1>8 DEF PolledBy
<1>10. BaseOf[Model(w)][k] \in Base
  BY WorkerType
<1> QED
  BY <1>9, <1>10, ExhaustedStays


(* No step makes a worker believe too early that no request will come.      *)
LEMMA NextPolled ==
    ASSUME DInv, Polled, [Next]_vars
    PROVE  Polled'
<1>0. TypeOK /\ CallState /\ \A v \in Worker : PolledBy(v)
  BY DEF DInv, Delivered, IInv, Polled, PolledBy
<1> SUFFICES ASSUME NEW v \in Worker PROVE PolledBy(v)'
  BY DEF Polled, PolledBy
<1>1. CASE UNCHANGED vars \/ \E s \in Shared : RequestStop(s)
  <2>1. possible' = possible /\ bi' = bi /\ pc' = pc
    BY <1>1 DEF RequestStop, vars, callVars, modelVars
  <2> QED
    BY <1>0, <2>1, PolledKept
<1>2. ASSUME NEW s \in Shared, NEW d \in Plans[s], Launch(s, d) PROVE PolledBy(v)'
  <2>1. /\ possible' = [w \in Worker |-> IF Model(w) = s THEN TRUE ELSE possible[w]]
        /\ pc' = [w \in Worker |-> IF Model(w) = s /\ DpId(w) < d THEN "idle" ELSE pc[w]]
        /\ bi' = bi
    BY <1>2 DEF Launch
  <2>2. CASE Model(v) = s
    BY <2>1, <2>2 DEF PolledBy
  <2>3. CASE Model(v) # s
    <3>1. possible'[v] = possible[v] /\ pc'[v] = pc[v] /\ bi'[v] = bi[v]
      BY <2>1, <2>3
    <3> QED
      BY <1>0, <3>1, PolledKept
  <2> QED
    BY <2>2, <2>3
<1>3. ASSUME NEW w \in Worker, Serves(w) PROVE PolledBy(v)'
  <2>1. CASE v # w
    <3>1. possible'[v] = possible[v] /\ pc'[v] = pc[v] /\ bi'[v] = bi[v]
      BY <1>0, <1>3, <2>1, OthersTold, OthersUntouched DEF Untouched
    <3> QED
      BY <1>0, <3>1, PolledKept
  <2>2. CASE v = w
    <3>1. CASE Take(w)
      BY <1>0, <2>2, <3>1, TakePolled
    <3>2. CASE GetSeqs(w)
      <4>1. bi'[w] = 1 /\ pc'[w] = "get"
        BY <1>0, <3>2 DEF GetSeqs, CallState, CallOk, TypeOK
      <4>2. \A k \in DOMAIN BaseOf[Model(w)] : ~(k < 1)
        BY WorkerType
      <4> QED
        BY <2>2, <4>1, <4>2 DEF PolledBy
    <3>3. CASE AcquireFetch(w) \/ ReadSource(w) \/ Fuse(w) \/ ReadSlice(w) \/ AddSeqs(w) \/ Leave(w)
      <4>1. /\ possible'[w] = possible[w] /\ bi'[w] = bi[w]
            /\ pc'[w] \in {"off", "idle", "add", "count"} => pc[w] \in {"off", "idle", "add", "count"}
        BY <1>0, <3>3 DEF AcquireFetch, ReadSource, Fuse, ReadSlice, AddSeqs, Leave,
           modelVars, TypeOK
      <4> QED
        BY <1>0, <2>2, <4>1, PolledKept
    <3>4. CASE CountOutputs(w) \/ \E m \in Base : AppendOutputs(w, m)
      <4>1. possible'[w] = possible[w] /\ pc[w] \in {"add", "count"}
        BY <3>4 DEF CountOutputs, AppendOutputs, modelVars
      <4>2. ASSUME ~possible[w], NEW k \in DOMAIN BaseOf[Model(w)]
            PROVE  Exhausted(BaseOf[Model(w)][k])'
        <5>1. Exhausted(BaseOf[Model(w)][k])
          BY <1>0, <4>1, <4>2 DEF PolledBy
        <5>2. BaseOf[Model(w)][k] \in Base
          BY WorkerType
        <5> QED
          BY <5>1, <5>2, ExhaustedStays
      <4> QED
        BY <2>2, <4>1, <4>2 DEF PolledBy
    <3> QED
      BY <1>3, <3>1, <3>2, <3>3, <3>4 DEF Serves
  <2> QED
    BY <2>1, <2>2
<1> QED
  BY <1>1, <1>2, <1>3, StepCases

(* A worker leaves without being told to only when it has nothing to do.    *)
LEMMA NextLeftIdle ==
    ASSUME DInv, LeftIdle, [Next]_vars
    PROVE  LeftIdle'
<1>0. TypeOK
  BY DEF DInv, IInv
<1> SUFFICES ASSUME NEW v \in Worker, pc'[v] = "off", ~stopping'[Model(v)],
                    DpId(v) < dp'[Model(v)]
             PROVE  ~possible'[v] /\ held'[v] = {}
  BY DEF LeftIdle
<1>v. Model(v) \in Shared
  BY WorkerType
<1>1. CASE UNCHANGED vars \/ \E s \in Shared : RequestStop(s)
  <2>1. /\ possible' = possible /\ pc' = pc /\ held' = held /\ dp' = dp
        /\ stopping[Model(v)] => stopping'[Model(v)]
    BY <1>0, <1>1, <1>v DEF RequestStop, vars, callVars, modelVars, TypeOK
  <2> QED
    BY <2>1 DEF LeftIdle
<1>2. ASSUME NEW s \in Shared, NEW d \in Plans[s], Launch(s, d)
      PROVE  ~possible'[v] /\ held'[v] = {}
  <2>1. /\ possible' = [w \in Worker |-> IF Model(w) = s THEN TRUE ELSE possible[w]]
        /\ pc' = [w \in Worker |-> IF Model(w) = s /\ DpId(w) < d THEN "idle" ELSE pc[w]]
        /\ dp' = [dp EXCEPT ![s] = d]
        /\ stopping' = [stopping EXCEPT ![s] = FALSE]
    BY <1>2 DEF Launch
  <2>2. Model(v) # s
    BY <1>0, <2>1 DEF TypeOK
  <2>3. held'[v] = held[v]
    BY <1>0, <1>2, <2>2, LaunchDeals DEF DInv
  <2>4. /\ pc[v] = "off" /\ ~stopping[Model(v)] /\ DpId(v) < dp[Model(v)]
        /\ possible'[v] = possible[v]
    BY <1>0, <1>v, <2>1, <2>2 DEF TypeOK
  <2> QED
    BY <2>3, <2>4 DEF LeftIdle
<1>3. ASSUME NEW w \in Worker, Serves(w)
      PROVE  ~possible'[v] /\ held'[v] = {}
  <2>1. UNCHANGED <<dp, stopping>>
    BY <1>0, <1>3, OthersTold
  <2>2. CASE v # w
    <3>1. possible'[v] = possible[v] /\ pc'[v] = pc[v] /\ held'[v] = held[v]
      BY <1>0, <1>3, <2>2, OthersTold, OthersUntouched DEF Untouched
    <3> QED
      BY <2>1, <3>1 DEF LeftIdle
  <2>3. CASE v = w
    <3>1. Leave(w)
      <4>1. ~(GetSeqs(w) \/ AddSeqs(w) \/ AcquireFetch(w) \/ ReadSource(w) \/ Fuse(w) \/ ReadSlice(w))
        BY <1>0, <2>3 DEF GetSeqs, AddSeqs, AcquireFetch, ReadSource, Fuse, ReadSlice, TypeOK
      <4>2. ~(CountOutputs(w) \/ \E m \in Base : AppendOutputs(w, m))
        BY <1>0, <2>3 DEF CountOutputs, AppendOutputs, TypeOK
      <4>3. ~EndFetch(w) \/ pc[w] # "assign"
        BY <1>0, <2>3 DEF EndFetch, TypeOK
      <4>4. ~Take(w)
        BY <4>3 DEF Take, TakeSlice, TakeRebalanced, TakeFirst, TakeNothing, Rebalance
      <4> QED
        BY <1>3, <4>1, <4>2, <4>4 DEF Serves
    <3>2. MayLeave(w) /\ ~stopping[Model(w)] /\ UNCHANGED <<possible, held>>
      BY <2>1, <2>3, <3>1 DEF Leave, modelVars
    <3> QED
      BY <2>3, <3>2 DEF MayLeave
  <2> QED
    BY <2>2, <2>3
<1> QED
  BY <1>1, <1>2, <1>3, StepCases

(* What the workers were told, in every reachable state.                    *)
THEOREM Polling == Spec => []FinalInv
<1>1. Init => FinalInv
  <2> SUFFICES ASSUME Init PROVE FinalInv
    OBVIOUS
  <2>1. Planned
    BY DEF Init, Planned
  <2>2. Polled
    BY DEF Init, Polled
  <2>3. LeftIdle
    <3> SUFFICES ASSUME NEW w \in Worker PROVE ~(DpId(w) < dp[Model(w)])
      BY DEF LeftIdle
    <3>1. DpId(w) \in Nat /\ dp[Model(w)] = 0
      BY WorkerType DEF Init
    <3> QED
      BY <3>1
  <2> QED
    BY <2>1, <2>2, <2>3 DEF FinalInv
<1>2. DInv /\ FinalInv /\ [Next]_vars => FinalInv'
  <2> SUFFICES ASSUME DInv, FinalInv, [Next]_vars PROVE FinalInv'
    OBVIOUS
  <2>1. Planned'
    <3>0. TypeOK
      BY DEF DInv, IInv
    <3>1. ASSUME NEW s \in Shared, NEW d \in Plans[s], Launch(s, d) PROVE Planned'
      BY <3>0, <3>1 DEF Launch, FinalInv, Planned, TypeOK
    <3>2. ASSUME dp' = dp PROVE Planned'
      BY <3>2 DEF FinalInv, Planned
    <3>3. CASE UNCHANGED vars \/ \E s \in Shared : RequestStop(s)
      BY <3>2, <3>3 DEF RequestStop, vars, modelVars
    <3>4. ASSUME NEW w \in Worker, Serves(w) PROVE Planned'
      BY <3>0, <3>2, <3>4, OthersTold
    <3> QED
      BY <3>1, <3>3, <3>4, StepCases
  <2> QED
    BY <2>1, NextPolled, NextLeftIdle DEF FinalInv
<1> QED
  BY <1>1, <1>2, Delivering, PTL DEF Spec

(* When a worker is told that no request will come, none waits or is due;   *)
(* and when all workers of a model have left on their own, every request of *)
(* the model has been answered.                                             *)
THEOREM NobodyLeavesEarly == Spec => []NothingLeftBehind
<1>1. DInv /\ FinalInv => NoFutureIsFinal
  BY DEF FinalInv, Polled, NoFutureIsFinal, Exhausted, Range
<1>2. DInv /\ FinalInv => NoEarlyExit
  <2> SUFFICES ASSUME DInv, FinalInv, NEW s \in Shared, dp[s] > 0, ~stopping[s],
                      \A w \in WorkersOf(s) : pc[w] = "off",
                      NEW k \in DOMAIN BaseOf[s], NEW m, m = BaseOf[s][k]
               PROVE  outlen[m] = InpIds[m]
    BY DEF NoEarlyExit, Finished
  <2>0. /\ TypeOK /\ CallState /\ RouteInv
        /\ m \in Base /\ m \in Range(BaseOf[s]) /\ BaseOf[s] \in Seq(Base)
    BY GraphAssumption DEF DInv, IInv, Delivered, Range
  <2>1. Exhausted(m)
    <3>1. PICK d \in Plans[s] : d = dp[s] /\ d \in Nat \ {0}
      BY BoundAssumption DEF FinalInv, Planned
    <3>2. PICK w \in Worker : w = <<s, 0>>
      <4>1. 0 \in 0 .. MaxDP - 1 /\ 0 < d /\ d \in Plans[s]
        BY <3>1, BoundAssumption
      <4>2. <<s, 0>> \in Shared \X (0 .. MaxDP - 1)
        BY <4>1
      <4>3. <<s, 0>>[1] = s /\ <<s, 0>>[2] = 0
        OBVIOUS
      <4>4. <<s, 0>> \in Worker
        BY <4>1, <4>2, <4>3 DEF Worker
      <4> QED
        BY <4>4
    <3>3. Model(w) = s /\ DpId(w) = 0 /\ pc[w] = "off"
      BY <3>2 DEF WorkersOf
    <3>4. ~possible[w]
      BY <3>1, <3>3 DEF FinalInv, LeftIdle
    <3> QED
      BY <3>3, <3>4 DEF FinalInv, Polled
  <2>2. ASSUME NEW i \in InpIds[m] PROVE Released(m, i)
    <3>1. Cardinality({j \in InpIds[m] : ~Released(m, j)}) = 0
      BY <2>0, <2>1 DEF DInv, Delivered, Due, Exhausted
    <3>2. IsFiniteSet({j \in InpIds[m] : ~Released(m, j)})
      BY <2>0, RequestAssumption, GraphAssumption, FS_Subset
    <3>3. {j \in InpIds[m] : ~Released(m, j)} = {}
      BY <3>1, <3>2, FS_EmptySet
    <3> QED
      BY <3>3
  <2>3. ASSUME NEW i \in InpIds[m], NEW w \in Worker PROVE ~Has(w, m, i)
    <3>1. ASSUME Request(m, i) \in held[w] PROVE FALSE
      <4>1. m \in Range(BaseOf[Model(w)])
        BY <2>0, <3>1, RequestIs DEF DInv, Delivered, HeldRouted
      <4>2. Model(w) = s
        BY <2>0, <4>1, OwnerType, WorkerType
      <4>3. pc[w] = "off" /\ ~stopping[Model(w)]
        BY <4>2 DEF WorkersOf
      <4>4. DpId(w) < dp[Model(w)] \/ DpId(w) >= dp[Model(w)]
        <5>1. dp[s] \in 0 .. MaxDP /\ MaxDP \in Nat
          BY <2>0, BoundAssumption DEF TypeOK
        <5>2. dp[Model(w)] \in Nat /\ DpId(w) \in Nat
          BY <4>2, <5>1, WorkerType
        <5> QED
          BY <5>2
      <4>5. held[w] = {}
        BY <2>0, <4>3, <4>4 DEF CallState, CallOk, FinalInv, LeftIdle
      <4> QED
        BY <3>1, <4>5
    <3>2. ASSUME Request(m, i) \in out[w] PROVE FALSE
      <4>1. m \in Range(BaseOf[Model(w)])
        BY <2>0, <3>2, RequestIs DEF RouteInv
      <4>2. Model(w) = s
        BY <2>0, <4>1, OwnerType, WorkerType
      <4>3. out[w] = {}
        BY <2>0, <4>2 DEF WorkersOf, CallState, CallOk
      <4> QED
        BY <3>2, <4>3
    <3> QED
      BY <3>1, <3>2 DEF Has
  <2>4. ASSUME NEW i \in InpIds[m] PROVE i \in outlen[m]
    <3>1. ~Queued(m, i)
      BY <2>1 DEF Exhausted, Queued
    <3> QED
      BY <2>2, <2>3, <3>1 DEF Released
  <2>5. ASSUME NEW i \in outlen[m] PROVE i \in InpIds[m]
    <3>1. i \in Id /\ Released(m, i)
      BY <2>0 DEF TypeOK, Released
    <3> QED
      BY <2>0, <3>1 DEF DInv, Delivered, Due
  <2> QED
    BY <2>4, <2>5
<1> QED
  BY <1>1, <1>2, Delivering, Polling, PTL DEF NothingLeftBehind


----------------------------------------------------------------------------
(* The communicator implements Dispatch.                                    *)

(* The abstract state: whom a request is with, or that it was answered.     *)
JobOf(m, i) == IF i \in outlen[m] THEN {Free} ELSE {w \in Worker : Has(w, m, i)}
Job == [m \in Base |-> [i \in Id |-> JobOf(m, i)]]

(* The value the refinement mapping gives job is Job.                       *)
LEMMA Mapped ==
    Job = [m \in Base |-> [i \in Id |->
             IF i \in outlen[m] THEN {Free}
             ELSE {w \in Worker : Request(m, i) \in held[w] \cup out[w]}]]
BY DEF Job, JobOf, Has

(* Redeal of Dispatch, as a relation of two abstract states.                *)
Redealt(old, new, for, M) ==
    /\ new \in [Base -> [Id -> {{}, {Free}} \cup {{w} : w \in Worker}]]
    /\ \A m \in Base : \A i \in Id :
          \/ new[m][i] = old[m][i]
          \/ /\ m \in M /\ old[m][i] \notin {{}, {Free}}
             /\ \E w \in for[m] : new[m][i] = {w}

(* A request is with one worker at most.                                    *)
LEMMA JobCases ==
    ASSUME Exclusive, NEW m \in Base, NEW i \in Id
    PROVE  /\ i \in outlen[m] => JobOf(m, i) = {Free}
           /\ \A w \in Worker : Has(w, m, i) => JobOf(m, i) = {w}
           /\ i \notin outlen[m] /\ (\A w \in Worker : ~Has(w, m, i)) => JobOf(m, i) = {}
BY DEF JobOf, Exclusive

(* A step that gives some requests of one base model the state x.           *)
LEMMA JobSet ==
    ASSUME NEW m \in Base, NEW S \in SUBSET Id, NEW x,
           \A i \in S : JobOf(m, i)' = x,
           \A b \in Base, i \in Id : ~(b = m /\ i \in S) => JobOf(b, i)' = JobOf(b, i)
    PROVE  Job' = [Job EXCEPT ![m] = [i \in Id |-> IF i \in S THEN x ELSE @[i]]]
BY DEF Job

(* Whose requests and answers are the same keeps the abstract state.        *)
LEMMA JobKept ==
    ASSUME outlen' = outlen,
           \A w \in Worker : held'[w] \cup out'[w] = held[w] \cup out[w]
    PROVE  Job' = Job
BY DEF Job, JobOf, Has, Request

(* An output that was read was produced: its requests are answered.         *)
LEMMA ReadIsProduced ==
    ASSUME DInv, NEW m \in Base, NEW from \in Node, NEW i \in Id, ReadFor(from, m, i)
    PROVE  Dispatching!Fed(m, from, i)
<1>0. TypeOK /\ CallState /\ Due /\ Pooled /\ ReadAnswered
  BY DEF DInv, Delivered, IInv
<1>1. PICK p \in 1 .. readNum[<<from, m>>] : i \in Feeds[<<m, from, pool[from][p]>>]
  BY DEF ReadFor
<1>2. p \in 1 .. Len(pool[from])
  BY <1>0, <1>1 DEF ReadAnswered, TypeOK
<1>3. PICK g \in Id : g = pool[from][p]
  BY <1>0, <1>2, PoolIds
<1>4. CASE from \in Dummy
  <2>1. pool[from] = DummyIds[from] /\ p \in DOMAIN DummyIds[from]
    BY <1>0, <1>2, <1>4, RequestAssumption DEF Pooled
  <2>2. Dispatching!Produced(from, g)
    BY <1>3, <1>4, <2>1 DEF Dispatching!Produced
  <2> QED
    BY <1>1, <1>3, <2>2 DEF Dispatching!Fed
<1>5. CASE from \notin Dummy
  <2>1. from \in Base
    BY <1>5
  <2>2. g \in Range(pool[from])
    BY <1>0, <1>2, <1>3 DEF Range, TypeOK
  <2>3. InpIds[from] \subseteq Id
    BY <2>1, RequestAssumption
  <2> DEFINE output(j) == IF from \in Parts THEN GroupOf[from][j] ELSE j
  <2>4. \E j \in InpIds[from] : output(j) = g
    <3>1. CASE from \in Parts
      <4>1. PartsOf(from, g) # {}
        BY <1>0, <2>1, <2>2, <3>1 DEF Pooled
      <4> QED
        BY <3>1, <4>1 DEF PartsOf
    <3>2. CASE from \notin Parts
      <4>1. Added(from, g)
        BY <1>0, <2>1, <2>2, <3>2 DEF Pooled
      <4>2. g \in InpIds[from]
        BY <1>0, <2>1, <4>1, AddedReleased DEF Due
      <4> QED
        BY <3>2, <4>2
    <3> QED
      BY <3>1, <3>2
  <2>5. \A j \in InpIds[from] : output(j) = g => j \in outlen[from]
    BY <1>0, <1>1, <1>3, <2>1 DEF ReadAnswered, PartsOf
  <2>6. \A j \in InpIds[from] : output(j) = g => Job[from][j] = {Free}
    BY <2>1, <2>3, <2>5 DEF Job, JobOf
  <2>7. Dispatching!Produced(from, g)
    BY <1>5, <2>1, <2>3, <2>4, <2>6 DEF Dispatching!Produced, Dispatching!Answered, Job, JobOf, Has
  <2> QED
    BY <1>1, <1>3, <2>7 DEF Dispatching!Fed
<1> QED
  BY <1>4, <1>5

(* A released request is ready.                                             *)
LEMMA ReleasedIsReady ==
    ASSUME DInv, NEW m \in Base, NEW i \in Id, Released(m, i)
    PROVE  Dispatching!Ready(m, i)
<1>1. AllRead(m, i)
  BY DEF DInv, Delivered, ReadExact, Collected
<1>2. \A from \in Range(Srcs[m]) : from \in Node /\ (ReadFor(from, m, i) => Dispatching!Fed(m, from, i))
  BY ReadIsProduced, SourceType DEF Range
<1>3. Range(Srcs[m]) = {Srcs[m][k] : k \in DOMAIN Srcs[m]}
  BY DEF Range
<1>4. IF SingleSource(m)
      THEN \E from \in {Srcs[m][k] : k \in DOMAIN Srcs[m]} : Dispatching!Fed(m, from, i)
      ELSE \A from \in {Srcs[m][k] : k \in DOMAIN Srcs[m]} : Dispatching!Fed(m, from, i)
  BY <1>1, <1>2, <1>3 DEF AllRead
<1> QED
  BY <1>4 DEF Dispatching!Ready


(* What was with no worker and unanswered is given to a worker: Take.       *)
LEMMA TakeIsTake ==
    ASSUME DInv, DInv', NEW w \in Worker, Take(w)
    PROVE  \/ Job' = Job
           \/ \E m \in Base, v \in Worker, S \in SUBSET Id : Dispatching!Take(m, v, S)
<1>0. /\ TypeOK /\ IInv /\ CallInv /\ StrideInv /\ CallState /\ Tight /\ Exclusive /\ Due /\ CallOk(w)
      /\ Exclusive'
  BY DEF DInv, Delivered, IInv, CallState
<1>1. PICK m, T : TakesFrom(w, m, T)
  BY <1>0, TakeEffect
<1>2. m \in Base /\ OwnerOf(m) = Model(w) /\ UNCHANGED <<outlen, out>> /\ m = Current(w)
  BY <1>1 DEF TakesFrom, EndFetch
<1>3. CASE T = {}
  BY <1>1, <1>2, <1>3, JobKept DEF TakesFrom, Give
<1>4. CASE T # {} /\ Give(w, T)
  <2>1. /\ T \in SUBSET Id
        /\ \A i \in T : Queued(m, i)
    BY <1>1, QueuedIds DEF TakesFrom, Hands
  <2>2. held' = [held EXCEPT ![w] = @ \cup {Request(m, i) : i \in T}]
    BY <1>2, <1>4 DEF Give
  <2>3. \A v \in Worker, b \in Base, i \in Id :
           Has(v, b, i)' <=> Has(v, b, i) \/ (v = w /\ b = m /\ i \in T)
    <3>1. ASSUME NEW v \in Worker, NEW b \in Base, NEW i \in Id
          PROVE  /\ Has(v, b, i)' <=> Request(b, i) \in held'[v] \/ Request(b, i) \in out[v]
                 /\ Has(v, b, i) <=> Request(b, i) \in held[v] \/ Request(b, i) \in out[v]
                 /\ Request(b, i) \in {Request(m, j) : j \in T} <=> b = m /\ i \in T
      BY <1>2, RequestIs DEF Has, Request
    <3>2. \A v \in Worker : held'[v] = IF v = w THEN held[w] \cup {Request(m, i) : i \in T} ELSE held[v]
      BY <1>0, <2>2 DEF TypeOK
    <3> QED
      BY <3>1, <3>2
  <2>4. ASSUME NEW i \in T
        PROVE  /\ i \in InpIds[m] /\ JobOf(m, i) = {} /\ Dispatching!Ready(m, i)
               /\ JobOf(m, i)' = {w}
    <3>1. i \in Id /\ Queued(m, i) /\ Released(m, i)
      BY <2>1 DEF Released
    <3>2. i \notin outlen[m] /\ \A v \in Worker : ~Has(v, m, i)
      BY <1>0, <1>2, <3>1 DEF Exclusive
    <3>3. Has(w, m, i)'
      BY <1>2, <2>3, <3>1
    <3>4. JobOf(m, i)' = {w}
      BY <1>0, <1>2, <2>3, <3>1, <3>2 DEF JobOf
    <3> QED
      BY <1>0, <1>2, <3>1, <3>2, <3>4, JobCases, ReleasedIsReady DEF Due
  <2>5. \A b \in Base, i \in Id : ~(b = m /\ i \in T) => JobOf(b, i)' = JobOf(b, i)
    BY <1>2, <2>3 DEF JobOf
  <2>6. Job' = [Job EXCEPT ![m] = [i \in Id |-> IF i \in T THEN {w} ELSE @[i]]]
    <3>1. PICK x : x = {w}
      OBVIOUS
    <3>2. \A i \in T : JobOf(m, i)' = x
      BY <2>4, <3>1
    <3>3. m \in Base /\ T \in SUBSET Id
      BY <1>2, <2>1
    <3>4. Job' = [Job EXCEPT ![m] = [i \in Id |-> IF i \in T THEN x ELSE @[i]]]
      BY <2>5, <3>2, <3>3, JobSet
    <3> QED
      BY <3>1, <3>4
  <2>7. w \in WorkersOf(OwnerOf(m))
    BY <1>2 DEF WorkersOf
  <2>8. \A i \in T : i \in InpIds[m] /\ Job[m][i] = {} /\ Dispatching!Ready(m, i)
    BY <1>2, <2>1, <2>4 DEF Job
  <2>9. Dispatching!Take(m, w, T)
    BY <1>2, <1>4, <2>6, <2>7, <2>8, Mapped DEF Dispatching!Take, Dispatching!Untaken, Job, JobOf, Has
  <2> QED
    BY <1>2, <2>1, <2>9
<1> QED
  BY <1>1, <1>3, <1>4 DEF TakesFrom

(* What a worker had is answered: Answer.                                   *)
LEMMA CountIsAnswer ==
    ASSUME DInv, DInv', NEW w \in Worker, CountOutputs(w)
    PROVE  \E m \in Base, v \in Worker, S \in SUBSET Id : Dispatching!Answer(m, v, S)
<1>0. TypeOK /\ IInv /\ CallOk(w) /\ Exclusive /\ Exclusive'
  BY DEF DInv, Delivered, IInv, CallState
<1>1. PICK m \in Base : m = Current(w)
  BY <1>0, CurrentType DEF IInv
<1>2. PICK S : S = adding[w].batch
  OBVIOUS
<1>3. /\ outlen' = [outlen EXCEPT ![m] = @ \cup {r.id : r \in S}]
      /\ out' = [out EXCEPT ![w] = @ \ S]
      /\ held' = held
      /\ S = {r \in out[w] : r.base = m} /\ S # {}
  BY <1>0, <1>1, <1>2 DEF CountOutputs, CallOk, modelVars
<1>4. PICK T : T = {r.id : r \in S}
  OBVIOUS
<1>5. T \in SUBSET Id /\ T # {} /\ \A i \in Id : i \in T <=> Request(m, i) \in out[w]
  <2>1. \A r \in out[w] : r \in [base : Base, id : Id]
    BY <1>0 DEF TypeOK
  <2>2. \A i \in Id : Request(m, i) \in out[w] => Request(m, i) \in S /\ Request(m, i).id = i
    BY <1>3, RequestIs
  <2>3. \A r \in S : r = Request(m, r.id) /\ r.id \in Id
    BY <1>3, <2>1 DEF Request
  <2> QED
    BY <1>3, <1>4, <2>2, <2>3
<1>6. \A b \in Base, i \in Id : i \in outlen'[b] <=> i \in outlen[b] \/ (b = m /\ i \in T)
  BY <1>0, <1>3, <1>4 DEF TypeOK
<1>7. \A v \in Worker, b \in Base, i \in Id :
         ~(b = m /\ i \in T) => (Has(v, b, i)' <=> Has(v, b, i))
  <2> SUFFICES ASSUME NEW v \in Worker, NEW b \in Base, NEW i \in Id, ~(b = m /\ i \in T)
               PROVE  Has(v, b, i)' <=> Has(v, b, i)
    OBVIOUS
  <2>1. Request(b, i) \notin S
    BY <1>3, <1>5, RequestIs
  <2>2. out'[v] = IF v = w THEN out[w] \ S ELSE out[v]
    BY <1>0, <1>3 DEF TypeOK
  <2> QED
    BY <1>3, <2>1, <2>2 DEF Has, Request
<1>8. \A i \in T : JobOf(m, i)' = {Free}
  BY <1>5, <1>6 DEF JobOf
<1>9. \A b \in Base, i \in Id : ~(b = m /\ i \in T) => JobOf(b, i)' = JobOf(b, i)
  BY <1>6, <1>7 DEF JobOf
<1>10. Job' = [Job EXCEPT ![m] = [i \in Id |-> IF i \in T THEN {Free} ELSE @[i]]]
  <2>1. PICK x : x = {Free}
    OBVIOUS
  <2>2. \A i \in T : JobOf(m, i)' = x
    BY <1>8, <2>1
  <2>3. Job' = [Job EXCEPT ![m] = [i \in Id |-> IF i \in T THEN x ELSE @[i]]]
    BY <1>5, <1>9, <2>2, JobSet
  <2> QED
    BY <2>1, <2>3
<1>11. \A i \in T : Job[m][i] = {w}
  BY <1>0, <1>5, JobCases DEF Has, Job
<1>12. Dispatching!Answer(m, w, T)
  BY <1>5, <1>10, <1>11 DEF Dispatching!Answer, Dispatching!Answered, Job, JobOf, Has
<1> QED
  BY <1>5, <1>12

(* What the workers of a model had stays with workers of that model: Redeal.*)
LEMMA LaunchIsRedeal ==
    ASSUME DInv, DInv', NEW s \in Shared, NEW d \in Plans[s], Launch(s, d)
    PROVE  \E M \in SUBSET Base : Dispatching!Redeal(M)
<1>0. TypeOK /\ IInv /\ CallState /\ HeldRouted /\ Exclusive /\ Exclusive'
  BY DEF DInv, Delivered, IInv
<1>1. UNCHANGED <<outlen, out>> /\ \A w \in WorkersOf(s) : pc[w] = "off"
  BY DEF Launch
<1>2. \A w \in WorkersOf(s) : w \in Worker /\ out[w] = {}
  BY <1>0, <1>1 DEF CallState, CallOk, WorkersOf
<1>3. /\ \A w \in Worker : Model(w) # s => held'[w] = held[w]
      /\ \A r : (\E w \in WorkersOf(s) : r \in held'[w])
                   <=> (\E w \in WorkersOf(s) : r \in held[w])
  BY <1>0, LaunchDeals
<1>4. ASSUME NEW m \in Base, NEW i \in Id
      PROVE  \/ JobOf(m, i)' = JobOf(m, i)
             \/ /\ m \in Range(BaseOf[s]) /\ JobOf(m, i) \notin {{}, {Free}}
                /\ \E w \in WorkersOf(OwnerOf(m)) : JobOf(m, i)' = {w}
  <2>1. CASE \E v \in WorkersOf(s) : Request(m, i) \in held[v]
    <3>1. PICK v \in WorkersOf(s) : Request(m, i) \in held[v]
      BY <2>1
    <3>2. PICK u \in WorkersOf(s) : Request(m, i) \in held'[u]
      BY <1>3, <3>1
    <3>3. u \in Worker /\ v \in Worker /\ Model(v) = s /\ Has(v, m, i) /\ Has(u, m, i)'
      BY <3>1, <3>2 DEF WorkersOf, Has, Request
    <3>4. JobOf(m, i) = {v} /\ v # Free
      BY <1>0, <3>3, JobCases, WorkerType
    <3>5. Exclusive' => JobOf(m, i)' = {u}
      BY <3>3, JobCases DEF JobOf, Exclusive
    <3>6. m \in Range(BaseOf[s]) /\ OwnerOf(m) = s
      BY <1>0, <3>1, <3>3, RequestIs, OwnerType DEF HeldRouted
    <3> QED
      BY <1>0, <3>2, <3>4, <3>5, <3>6
  <2>2. CASE ~\E v \in WorkersOf(s) : Request(m, i) \in held[v]
    <3>1. ~\E v \in WorkersOf(s) : Request(m, i) \in held'[v]
      BY <1>3, <2>2
    <3>2. \A w \in Worker : Request(m, i) \in held'[w] <=> Request(m, i) \in held[w]
      BY <1>3, <2>2, <3>1 DEF WorkersOf
    <3>3. \A w \in Worker : Has(w, m, i)' <=> Has(w, m, i)
      BY <1>1, <3>2 DEF Has, Request
    <3> QED
      BY <1>1, <3>3 DEF JobOf
  <2> QED
    BY <2>1, <2>2
<1>5. ASSUME NEW m \in Base, NEW i \in Id
      PROVE  JobOf(m, i)' \in {{}, {Free}} \cup {{w} : w \in Worker}
  BY <1>0 DEF JobOf, Exclusive
<1>6. PICK M \in SUBSET Base : M = Range(BaseOf[s])
  <2>1. BaseOf[s] \in Seq(Base)
    BY GraphAssumption
  <2>2. Range(BaseOf[s]) \subseteq Base
    BY <2>1 DEF Range
  <2> QED
    BY <2>2
<1>7. /\ Job' \in [Base -> [Id -> {{}, {Free}} \cup {{w} : w \in Worker}]]
      /\ \A m \in Base : \A i \in Id :
            \/ Job'[m][i] = Job[m][i]
            \/ /\ m \in M /\ Job[m][i] \notin {{}, {Free}}
               /\ \E w \in WorkersOf(OwnerOf(m)) : Job'[m][i] = {w}
  BY <1>4, <1>5, <1>6 DEF Job
<1>8. Dispatching!Redeal(M)
  <2>1. PICK for : for = [m \in Base |-> WorkersOf(OwnerOf(m))]
    OBVIOUS
  <2>2. \A m \in Base : for[m] = WorkersOf(OwnerOf(m))
    BY <2>1
  <2>3. Redealt(Job, Job', for, M)
    BY <1>7, <2>2 DEF Redealt
  <2>4. Redealt([m \in Base |-> [i \in Id |->
                   IF i \in outlen[m] THEN {Free}
                   ELSE {w \in Worker : Request(m, i) \in held[w] \cup out[w]}]],
                [m \in Base |-> [i \in Id |->
                   IF i \in outlen[m] THEN {Free}
                   ELSE {w \in Worker : Request(m, i) \in held[w] \cup out[w]}]]',
                [m \in Base |-> WorkersOf(OwnerOf(m))], M)
    <3>1. Job' = [m \in Base |-> [i \in Id |->
                   IF i \in outlen[m] THEN {Free}
                   ELSE {w \in Worker : Request(m, i) \in held[w] \cup out[w]}]]'
      BY DEF Job, JobOf, Has
    <3> QED
      BY <2>1, <2>3, <3>1, Mapped, Zenon
  <2> QED
    BY <2>4, Zenon DEF Redealt, Dispatching!Redeal, Dispatching!Untaken, Dispatching!Answered
<1> QED
  BY <1>8

(* The communicator implements Dispatch: each request is taken by one       *)
(* worker after its sources were produced, and answered once.               *)
THEOREM Implements == Spec => ImplementsDispatch
<1>1. Init => Dispatching!Init
  BY DEF Init, Dispatching!Init, Dispatching!Untaken
<1>2. DInv /\ DInv' /\ [Next]_vars =>
        [Dispatching!Next]_[m \in Base |-> [i \in Id |->
              IF i \in outlen[m] THEN {Free}
              ELSE {w \in Worker : Request(m, i) \in held[w] \cup out[w]}]]
  <2> SUFFICES ASSUME DInv, DInv', [Next]_vars
               PROVE  Dispatching!Next \/ Job' = Job
    BY Mapped DEF Job, JobOf, Has
  <2>1. CASE UNCHANGED vars \/ \E s \in Shared : RequestStop(s)
    BY <2>1, JobKept DEF RequestStop, vars, commVars, callVars, modelVars
  <2>2. ASSUME NEW s \in Shared, NEW d \in Plans[s], Launch(s, d) PROVE Dispatching!Next
    BY <2>2, LaunchIsRedeal DEF Dispatching!Next
  <2>3. ASSUME NEW w \in Worker, Serves(w) PROVE Dispatching!Next \/ Job' = Job
    <3>1. CASE Take(w)
      BY <3>1, TakeIsTake DEF Dispatching!Next
    <3>2. CASE CountOutputs(w)
      BY <3>2, CountIsAnswer DEF Dispatching!Next
    <3>3. CASE AddSeqs(w)
      <4>1. TypeOK /\ HeldRouted /\ CallOk(w) /\ outlen' = outlen /\ pc[w] = "idle"
        BY <3>3 DEF DInv, Delivered, IInv, CallState, AddSeqs, commVars
      <4>2. PICK S \in SUBSET held[w] : /\ held' = [held EXCEPT ![w] = @ \ S]
                                        /\ out' = [out EXCEPT ![w] = S]
        BY <3>3, <4>1, AddSeqsMoves
      <4>3. out[w] = {}
        BY <4>1 DEF CallOk
      <4>4. \A v \in Worker : held'[v] \cup out'[v] = held[v] \cup out[v]
        BY <4>1, <4>2, <4>3 DEF TypeOK
      <4> QED
        BY <4>1, <4>4, JobKept
    <3>4. CASE \/ GetSeqs(w) \/ Leave(w) \/ AcquireFetch(w) \/ ReadSource(w) \/ Fuse(w) \/ ReadSlice(w)
               \/ \E m \in Base : AppendOutputs(w, m)
      <4>1. UNCHANGED <<outlen, held, out>>
        BY <3>4 DEF GetSeqs, Leave, AcquireFetch, ReadSource, Fuse, ReadSlice, AppendOutputs,
           commVars, modelVars
      <4> QED
        BY <4>1, JobKept
    <3> QED
      BY <2>3, <3>1, <3>2, <3>3, <3>4 DEF Serves
  <2> QED
    BY <2>1, <2>2, <2>3, StepCases
<1> QED
  BY <1>1, <1>2, Delivering, PTL DEF Spec, ImplementsDispatch, Dispatching!Spec
=============================================================================
