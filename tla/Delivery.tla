------------------------------ MODULE Delivery ------------------------------
(***************************************************************************)
(* Why the communicator delivers every request once: the invariant behind   *)
(* EachRequestOnce, SourcesFirst, GluedWhenWhole, RoutedToItsBase,          *)
(* NothingLeftBehind and ImplementsDispatch.  None of them is inductive     *)
(* alone: that a request is queued once rests on the outputs being in the   *)
(* pool once, that on the requests being with one worker, and that on the   *)
(* queues; so the parts below are an invariant together.                    *)
(***************************************************************************)
EXTENDS CommunicatorProperties

----------------------------------------------------------------------------
(* Where request i of base model m is.                                      *)

Queued(m, i) == \E x \in Waiting(m) : x.id = i
Has(w, m, i) == Request(m, i) \in held[w] \cup out[w]
Released(m, i) == Queued(m, i) \/ (\E w \in Worker : Has(w, m, i)) \/ i \in outlen[m]

(* Found by a get_seqs call that has not queued it yet.                     *)
Found(m, i) == \E w \in Worker : Current(w) = m /\ \E x \in got[w] : x.id = i
Collected(m, i) == Released(m, i) \/ Found(m, i)

(* In the output pool, or a part of what will be.                           *)
Added(m, i) == i \in outlen[m] \/ \E w \in Worker : Request(m, i) \in adding[w].batch

(* Read by get_seqs calls for m: outputs of the node from that feed i.      *)
ReadFor(from, m, i) ==
    \E p \in 1 .. readNum[<<from, m>>] : i \in Feeds[<<m, from, pool[from][p]>>]
AllRead(m, i) ==
    IF SingleSource(m) THEN \E from \in Range(Srcs[m]) : ReadFor(from, m, i)
                       ELSE \A from \in Range(Srcs[m]) : ReadFor(from, m, i)

----------------------------------------------------------------------------
(* What the local variables of a call are at each of its points.            *)
CallOk(w) ==
    /\ pc[w] \in {"off", "idle", "add"} => bi[w] = 1
    /\ pc[w] \notin {"read", "fuse"} => got[w] = {}
    /\ pc[w] = "assign" =>
          slice[w] = Stride(queue[Current(w)], starts[Current(w)][DpId(w)], dp[Model(w)])
    /\ pc[w] \notin {"add", "count"} => out[w] = {}
    /\ pc[w] # "count" => adding[w].batch = {}
    /\ pc[w] = "count" => /\ adding[w].batch = {r \in out[w] : r.base = Current(w)}
                          /\ adding[w].batch # {}
    /\ DpId(w) >= dp[Model(w)] => held[w] = {}
CallState == \A w \in Worker : CallOk(w)

(* No worker's position is a whole round of the workers past the end of the *)
(* queue: what is appended next is waiting.                                 *)
Tight ==
    \A m \in Base : \A d \in 0 .. dp[OwnerOf(m)] - 1 :
        starts[m][d] < Len(queue[m]) + dp[OwnerOf(m)]

(* A request is at one position, with one worker, or answered.              *)
Exclusive ==
    \A m \in Base :
        /\ \A x, y \in Waiting(m) : x.id = y.id => x = y
        /\ \A i \in Id :
              /\ \A v, w \in Worker : Has(v, m, i) /\ Has(w, m, i) => v = w
              /\ \A w \in Worker :
                    /\ Request(m, i) \notin held[w] \cap out[w]
                    /\ Has(w, m, i) => ~Queued(m, i) /\ i \notin outlen[m]
              /\ ~(Queued(m, i) /\ i \in outlen[m])

(* What is released was due, and _unavailable_req_nums counts the rest.     *)
Due ==
    \A m \in Base :
        /\ \A i \in Id : Released(m, i) => i \in InpIds[m]
        /\ unavailable[m] = Cardinality({i \in InpIds[m] : ~Released(m, i)})

(* The outputs in the pools are those of the requests added, each once.     *)
Pooled ==
    /\ \A n \in Dummy : pool[n] = DummyIds[n]
    /\ \A m \in Base :
          /\ IsInjective(pool[m])
          /\ m \notin Parts => \A i \in Id : i \in Range(pool[m]) <=> Added(m, i)
          /\ m \in Parts => \A g \in Id :
                /\ partNum[m][g] = Cardinality({i \in PartsOf(m, g) : Added(m, i)})
                /\ g \in Range(pool[m]) <=>
                      PartsOf(m, g) # {} /\ \A i \in PartsOf(m, g) : Added(m, i)

(* A model that still counts outputs has some left to produce.              *)
CountingPositive ==
    \A m \in Base : \A w \in Worker : Counting(w, m) => ungened[m] > 0

(* What was read of a pool is there, and answered.                          *)
ReadAnswered ==
    \A m \in Base : \A from \in Node :
        /\ readNum[<<from, m>>] <= Len(pool[from])
        /\ from \in Base => \A p \in 1 .. readNum[<<from, m>>] :
              IF from \in Parts THEN PartsOf(from, pool[from][p]) \subseteq outlen[from]
                                ELSE pool[from][p] \in outlen[from]

(* A request is collected when the outputs that make it are read, and       *)
(* _available_srcs has a slot for each source read.                         *)
ReadExact ==
    \A m \in Base : \A i \in Id :
        /\ Collected(m, i) <=> AllRead(m, i)
        /\ ~SingleSource(m) =>
              /\ avail[m][i].slots = {k \in DOMAIN Srcs[m] : ReadFor(Srcs[m][k], m, i)}
              /\ avail[m][i].n = Cardinality(avail[m][i].slots)

(* What a call finds is new, and it finds it once.                          *)
FoundNew ==
    /\ \A m \in Base : \A i \in Id : ~(Released(m, i) /\ Found(m, i))
    /\ \A w \in Worker : \A x, y \in got[w] : x.id = y.id => x = y

(* A later base model of a fused model gets a request that an earlier one   *)
(* has too only after the earlier one has added it.                         *)
Chained ==
    \A s \in Shared : \A a, b \in DOMAIN BaseOf[s] : a < b =>
        \A i \in InpIds[BaseOf[s][a]] \cap InpIds[BaseOf[s][b]] :
            Collected(BaseOf[s][b], i) => Added(BaseOf[s][a], i)

(* A worker's requests are for its model, and the model knows for which of  *)
(* its base models.                                                         *)
HeldRouted ==
    \A w \in Worker : \A r \in held[w] :
        /\ r.base \in Range(BaseOf[Model(w)])
        /\ Fused(Model(w)) => route[Model(w)][r.id] = r.base

Delivered == /\ CallState /\ Tight /\ Exclusive /\ Due /\ Pooled /\ CountingPositive
             /\ ReadAnswered /\ ReadExact /\ FoundNew /\ Chained /\ HeldRouted
DInv == IInv /\ UngenedExact /\ LeftExact /\ StrideInv /\ Delivered

----------------------------------------------------------------------------
(* No input waits or is due.                                                *)
Exhausted(m) == unavailable[m] = 0 /\ Waiting(m) = {}

(* The plans a model was launched with.                                     *)
Planned == \A s \in Shared : dp[s] = 0 \/ dp[s] \in Plans[s]

(* A call that is about to say that no request will come has seen that of   *)
(* every base model it is done with.                                        *)
Polled ==
    \A w \in Worker : ~possible[w] => \A k \in DOMAIN BaseOf[Model(w)] :
        pc[w] \in {"off", "idle", "add", "count"} \/ k < bi[w] => Exhausted(BaseOf[Model(w)][k])

(* A worker that left on its own had nothing to do any more.                *)
LeftIdle ==
    \A w \in Worker : pc[w] = "off" /\ ~stopping[Model(w)] /\ DpId(w) < dp[Model(w)] =>
        ~possible[w] /\ held[w] = {}

FinalInv == Planned /\ Polled /\ LeftIdle
=============================================================================
