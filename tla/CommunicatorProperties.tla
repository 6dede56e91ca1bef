----------------------- MODULE CommunicatorProperties -----------------------
(***************************************************************************)
(* What the LLM_COMMUNICATOR promises to the workers that call it.          *)
(***************************************************************************)
EXTENDS Communicator

CallPoints == {"off", "idle", "get", "read", "fuse", "slice", "assign", "add", "count"}

(* Type invariant of the communicator object, the calls and the engines.    *)
TypeOK ==
    /\ pool \in [Node -> Seq(Id)]
    /\ readNum \in [Node \X Base -> Nat]
    /\ avail \in [Base -> [Id -> [n : Nat, slots : SUBSET Nat]]]
    /\ queue \in [Base -> Seq(Id)]
    /\ starts \in [Base -> [0 .. MaxDP - 1 -> Nat]]
    /\ unavailable \in [Base -> Int]
    /\ ungened \in [Node -> Int]
    /\ partNum \in [Parts -> [Id -> Nat]]
    /\ DOMAIN route = Shared
    /\ outlen \in [Base -> SUBSET Id]
    /\ fetchLock \in [Base -> Worker \cup {Free}]
    /\ addLock \in [Base -> Worker \cup {Free}]
    /\ pc \in [Worker -> CallPoints]
    /\ bi \in [Worker -> Nat \ {0}]
    /\ si \in [Worker -> Nat \ {0}]
    /\ got \in [Worker -> SUBSET [from : Node, pos : Nat, id : Id]]
    /\ slice \in [Worker -> Seq(Id)]
    /\ out \in [Worker -> SUBSET [base : Base, id : Id]]
    /\ adding \in [Worker -> [batch : SUBSET [base : Base, id : Id], left : Int]]
    /\ held \in [Worker -> SUBSET [base : Base, id : Id]]
    /\ possible \in [Worker -> BOOLEAN]
    /\ dp \in [Shared -> 0 .. MaxDP]
    /\ rounds \in [Shared -> Nat]
    /\ stopping \in [Shared -> BOOLEAN]

----------------------------------------------------------------------------
(* What makes TypeOK and the properties of the locks inductive.             *)

(* A call serves a base model and a source that exist; the worker in it is  *)
(* one of the dp_size workers launched.                                     *)
CallInv ==
    \A w \in Worker :
        /\ pc[w] # "off" => DpId(w) < dp[Model(w)]
        /\ bi[w] \in DOMAIN BaseOf[Model(w)]
        /\ IF pc[w] = "read" THEN si[w] \in DOMAIN Srcs[Current(w)]
           ELSE pc[w] \in {"fuse", "slice", "assign"} \/ si[w] = 1
        /\ IsFiniteSet(got[w])

(* out_req_model_id_mapping knows every request a fused model holds, and    *)
(* files outputs under one of the model's own base models only.             *)
RouteInv ==
    /\ \A s \in Shared : route[s] \in [DOMAIN route[s] -> Range(BaseOf[s])]
    /\ \A w \in Worker : \A r \in held[w] :
          Fused(Model(w)) => r.id \in DOMAIN route[Model(w)]
    /\ \A w \in Worker : \A r \in out[w] : r.base \in Range(BaseOf[Model(w)])

(* The calls inside get_seqs_base_model for m, and inside the locked part   *)
(* of add_seqs_base_model for m.                                            *)
Fetching(w, m) == pc[w] \in {"read", "fuse", "slice", "assign"} /\ Current(w) = m
Counting(w, m) == pc[w] = "count" /\ Current(w) = m

(* _fetch_req_locks and _add_req_locks are held by exactly the call that is *)
(* inside, so that at most one is.                                          *)
LocksHeld ==
    \A m \in Base : \A w \in Worker :
        /\ fetchLock[m] = w <=> Fetching(w, m)
        /\ addLock[m] = w <=> Counting(w, m)

IInv == TypeOK /\ CallInv /\ RouteInv /\ LocksHeld

----------------------------------------------------------------------------
(* Where request i of base model m is: at a queue position no worker has    *)
(* fetched, in a worker's engine or on its way back, or answered.           *)
Waiting(m) == Remaining(m, dp[OwnerOf(m)])
Copies(m, i) ==
    Cardinality({p \in Waiting(m) : p.id = i})
    + Cardinality({w \in Worker : Request(m, i) \in held[w]})
    + Cardinality({w \in Worker : Request(m, i) \in out[w]})
    + Cardinality(outlen[m] \cap {i})

(* A request is handed to exactly one worker, whatever the interleaving of  *)
(* the polls, the rebalancing of _reset_state_for_model and the restarts    *)
(* with another number of workers: it is never in two places, and the ones  *)
(* in no place are exactly those _unavailable_req_nums still counts (so the *)
(* counter never goes below zero, as get_seqs_base_model asserts).          *)
EachRequestOnce ==
    \A m \in Base :
        /\ \A i \in Id : Copies(m, i) <= (IF i \in InpIds[m] THEN 1 ELSE 0)
        /\ unavailable[m] = Cardinality({i \in InpIds[m] : Copies(m, i) = 0})

(* The positions worker d has fetched are those congruent to d, so that two *)
(* workers never read the same position (_get_seqs steps by dp_size).       *)
StrideInv ==
    \A m \in Base : \A d \in 0 .. dp[OwnerOf(m)] - 1 :
        starts[m][d] % dp[OwnerOf(m)] = d

(* A request reaches a queue only after every output it is made of was      *)
(* produced, and one fused from several sources only with the text of every *)
(* source in its slot of _available_srcs.                                   *)
SourcesFirst ==
    \A m \in Base : \A i \in Id :
        Copies(m, i) > 0 =>
            LET fed(from) == \E k \in DOMAIN pool[from] : i \in Feeds[m, from, pool[from][k]]
            IN  IF SingleSource(m) THEN \E from \in Range(Srcs[m]) : fed(from)
                                   ELSE /\ \A from \in Range(Srcs[m]) : fed(from)
                        /\ avail[m][i].slots = DOMAIN Srcs[m]

(* possible_to_get_future_reqs is FALSE only when no input of any of the    *)
(* model's base models waits or is still due.                               *)
NoFutureIsFinal ==
    \A w \in Worker :
        pc[w] \in {"idle", "add", "count"} /\ ~possible[w] =>
            \A m \in Range(BaseOf[Model(w)]) : unavailable[m] = 0 /\ Waiting(m) = {}

(* When all workers of a model have left on their own (none was told to     *)
(* stop), every request of the model has been answered: run_vllm never goes *)
(* round its loop with requests nobody will fetch.                          *)
NoEarlyExit ==
    \A s \in Shared :
        /\ dp[s] > 0 /\ ~stopping[s]
        /\ \A w \in WorkersOf(s) : pc[w] = "off"
        => Finished(s)

(* What a worker is told of the requests to come, and when it leaves, leave *)
(* no request behind.                                                       *)
NothingLeftBehind == NoFutureIsFinal /\ NoEarlyExit

(* The counter of missing outputs is exact whenever no worker is between    *)
(* appending its outputs and storing the counter.                           *)
UngenedExact ==
    \A m \in Base :
        addLock[m] = Free => ungened[m] = Cardinality(InpIds[m]) - Len(pool[m])

(* It is exact because the counter a call is about to store is what is left *)
(* after the outputs the call has appended.                                 *)
LeftExact ==
    \A m \in Base : \A w \in Worker :
        Counting(w, m) => adding[w].left = Cardinality(InpIds[m]) - Len(pool[m])

(* _get_correct_lock hands out a DummyLock when the counter is zero: from   *)
(* then on the pool read without a lock does not change.                    *)
UnlockedPoolIsFinal ==
    [][\A m \in Base : ungened[m] = 0 => pool'[m] = pool[m]]_vars

(* The output of a fused model is filed under the base model its request    *)
(* was fetched for, although both may use the same request id.              *)
RoutedToItsBase ==
    \A w \in Worker : \A r \in held[w] : RoutedBase(Model(w), r) = r.base

(* A glued output is in the pool once, and exactly when every one of its    *)
(* parts has been added.                                                    *)
GluedWhenWhole ==
    \A m \in Parts : \A g \in Id :
        LET added == outlen[m] \cup UNION {{r.id : r \in adding[w].batch} :
                          w \in {w \in Worker : pc[w] = "count" /\ Current(w) = m}}
        IN  Cardinality({k \in DOMAIN pool[m] : pool[m][k] = g})
              = IF PartsOf(m, g) # {} /\ PartsOf(m, g) \subseteq added THEN 1 ELSE 0

(* Every request of every model is answered at last, however often workers  *)
(* poll in vain, are stopped and are launched again.                        *)
AllAnswered == <>[](\A s \in Shared : Finished(s))

----------------------------------------------------------------------------
(* The communicator implements Dispatch: a request is with the workers      *)
(* whose engine holds it or whose add_seqs call carries it, and answered    *)
(* once outlen_dict has it.                                                 *)
Dispatching == INSTANCE Dispatch WITH
    Joined <- {m \in Base : ~SingleSource(m)},
    OutputOf <- [x \in Base \X Id |->
                    IF x[1] \in Parts THEN GroupOf[x[1]][x[2]] ELSE x[2]],
    WorkersFor <- [m \in Base |-> WorkersOf(OwnerOf(m))],
    job <- [m \in Base |-> [i \in Id |->
              IF i \in outlen[m] THEN {Free}
              ELSE {w \in Worker : Request(m, i) \in held[w] \cup out[w]}]]
ImplementsDispatch == Dispatching!Spec
=============================================================================
