---------------------------- MODULE Communicator ----------------------------
(***************************************************************************)
(* The LLM_COMMUNICATOR of src/vllm/core/multimodel_scheduler.py: the       *)
(* object in the manager process through which the data-parallel (dp)       *)
(* workers of every model fetch their input requests and hand on their      *)
(* outputs.                                                                 *)
(*                                                                         *)
(* The manager serves every client on a thread of its own, so the calls     *)
(* get_seqs and add_seqs of different workers interleave; one worker makes  *)
(* one call at a time.  A call is cut into the steps between two accesses   *)
(* of shared state, and the two families of locks (_fetch_req_locks and     *)
(* _add_req_locks) are the only thing that keeps the steps of different     *)
(* calls apart.  A request is its id: the text is determined by it.         *)
(*                                                                         *)
(* An operator Op_Something in front of Op is Op with a fault seeded in it; *)
(* no definition uses it.  The README says which property notices it.       *)
(***************************************************************************)
EXTENDS Integers, Sequences, FiniteSets, Functions

CONSTANTS
    Base,         \* base models
    Dummy,        \* dummy input nodes (negative ids in the code)
    Shared,       \* running models; a fused one runs several base models
    BaseOf,       \* base_model_ids_dict: Shared -> Seq(Base)
    Srcs,         \* in_edge_dict_with_dummy_inp_nodes: Base -> Seq(Base \cup Dummy)
    Independent,  \* _independent_srcs: Base -> BOOLEAN
    Id,           \* request ids
    InpIds,       \* inp_req_ids: the requests a base model has to answer
    DummyIds,     \* the requests loaded into a dummy input node
    Feeds,        \* [to, from, output id] -> the input ids of to it feeds
    Parts,        \* models of new_out_req_part_num (outputs are glued together)
    GroupOf,      \* out_req_id_mapping: Parts -> [Id -> id of the glued output]
    MaxDP,        \* bound: largest data-parallel size of an execution plan
    Plans,        \* the data-parallel sizes the plans of a model may have
    MaxRounds     \* bound: how often each model may be launched

Node == Base \cup Dummy
Worker == {w \in Shared \X (0 .. MaxDP - 1) : \E n \in Plans[w[1]] : w[2] < n}
Free == <<>>

ASSUME IdAssumption == Id \subseteq Nat
ASSUME BoundAssumption ==
    /\ MaxDP \in Nat \ {0}
    /\ Plans \in [Shared -> SUBSET (1 .. MaxDP)]
    /\ MaxRounds \in [Shared -> Nat]
ASSUME GraphAssumption ==
    /\ IsFiniteSet(Base) /\ IsFiniteSet(Id) /\ Base \cap Dummy = {}
    /\ BaseOf \in [Shared -> Seq(Base)]
    /\ Srcs \in [Base -> Seq(Node)]
    /\ Independent \in [Base -> BOOLEAN]
    /\ \A s \in Shared : Len(BaseOf[s]) > 0
    /\ \A s, t \in Shared : \A i \in DOMAIN BaseOf[s], j \in DOMAIN BaseOf[t] :
          BaseOf[s][i] = BaseOf[t][j] => s = t /\ i = j
    /\ \A m \in Base : \E s \in Shared : m \in Range(BaseOf[s])
    /\ \A m \in Base : Len(Srcs[m]) > 0
ASSUME RequestAssumption ==
    /\ InpIds \in [Base -> SUBSET Id]
    /\ DummyIds \in [Dummy -> Seq(Id)]
    /\ Feeds \in [Base \X Node \X Id -> SUBSET Id]
    /\ Parts \subseteq Base
    /\ GroupOf \in [Parts -> [Id -> Id]]

VARIABLES
    (* state of the LLM_COMMUNICATOR object *)
    pool,         \* output_pool: node -> ids of the outputs, in arrival order
    readNum,      \* _read_output_nums: <<from, to>> -> how much of it was read
    avail,        \* _available_srcs: base -> id -> [n: its count, slots: filled]
    queue,        \* fused_inp_queues: base -> ids of the complete inputs
    starts,       \* fetched_fused_inp_start: base -> dp worker -> next position
    unavailable,  \* _unavailable_req_nums
    ungened,      \* _ungened_out_req_nums
    partNum,      \* counts of _meta_output_pool: model -> glued id -> parts seen
    route,        \* out_req_model_id_mapping: fused model -> id -> base model
    outlen,       \* keys of outlen_dict: the requests answered
    fetchLock,    \* _fetch_req_locks: base -> holder
    addLock,      \* _add_req_locks: base -> holder
    (* the call each worker is in *)
    pc,           \* where its call stands; "idle" between calls, "off" no worker
    bi,           \* get_seqs: index of the base model being served
    si,           \* _get_fused_inp_queues: index of the source being read
    got,          \* reqs / new_complete_req_ids: inputs found by this call
    slice,        \* _get_seqs: the slice read, its position not yet advanced
    out,          \* add_seqs: outputs not yet added, grouped by base model
    adding,       \* add_seqs_base_model: the outputs being added, and the value
                  \* of the counter that is about to be stored
    (* the workers' engines and the model process that launches them *)
    held,         \* requests fetched and not finished
    possible,     \* possible_to_get_future_reqs
    dp,           \* dp_size of the running plan (0: never launched)
    rounds,       \* launches so far
    stopping      \* the scheduler asked the model to stop (started_status)

commVars == <<pool, readNum, avail, queue, starts, unavailable, ungened,
              partNum, route, outlen, fetchLock, addLock>>
callVars == <<pc, bi, si, got, slice, out, adding>>
modelVars == <<held, possible, dp, rounds, stopping>>
vars == <<commVars, callVars, modelVars>>

Model(w) == w[1]
DpId(w) == w[2]
WorkersOf(s) == {w \in Worker : Model(w) = s}
Current(w) == BaseOf[Model(w)][bi[w]]
Fused(s) == Len(BaseOf[s]) > 1
OwnerOf(m) == CHOOSE s \in Shared : \E i \in DOMAIN BaseOf[s] : BaseOf[s][i] = m

----------------------------------------------------------------------------
(* Slices and sorting, as Python does them.                                 *)

Request(m, i) == [base |-> m, id |-> i]

(* The orderings of a finite set of records with an id, and sorted() by id. *)
Listings(S) == Injection(1 .. Cardinality(S), S)
SortedListings(S) ==
    {f \in Listings(S) : \A i, j \in DOMAIN f : i < j => f[i].id <= f[j].id}
Ids(f) == [i \in DOMAIN f |-> f[i].id]

(* seq[start::step]: how many elements, their positions counted from 0, and *)
(* the elements in order.                                                   *)
StrideLen(q, start, step) ==
    IF start < Len(q) THEN (Len(q) - start + step - 1) \div step ELSE 0
StridePositions(q, start, step) ==
    {start + k * step : k \in 0 .. StrideLen(q, start, step) - 1}
Stride(q, start, step) ==
    [k \in 1 .. StrideLen(q, start, step) |-> q[start + (k - 1) * step + 1]]

(* What the workers of the old data-parallel size have not fetched.         *)
Remaining(m, oldDp) ==
    UNION {{[pos |-> p, id |-> queue[m][p + 1]] :
               p \in StridePositions(queue[m], starts[m][d], oldDp)} :
           d \in 0 .. oldDp - 1}

(* The fresh queue of _reset_state_for_model: what was left, sorted by id.  *)
Requeued(m, oldDp) == {Ids(f) : f \in SortedListings(Remaining(m, oldDp))}

(* Worker d of a fresh queue starts at position d ...                       *)
FreshStarts_FromOne == [d \in 0 .. MaxDP - 1 |-> d - 1]
FreshStarts_AllZero == [d \in 0 .. MaxDP - 1 |-> 0]
FreshStarts == [d \in 0 .. MaxDP - 1 |-> d]

(* ... and after n requests goes on at start + len(ret) * dp_size.          *)
Advance_ByCount(start, n, step) == start + n
Advance(start, n, step) == start + n * step

(* requests[dp_i::dp_size] of the list f, for worker d of n.                *)
Dealt_Tail(f, d, n) == {f[k] : k \in {k \in DOMAIN f : d < n /\ k > d}}
Dealt(f, d, n) == {f[k] : k \in {k \in DOMAIN f : d < n /\ (k - 1) % n = d}}

(* The outputs a model still has to produce, counted per request.           *)
InitialUngened_OneLess(m) == Cardinality(InpIds[m]) - 1
InitialUngened(m) == Cardinality(InpIds[m])

----------------------------------------------------------------------------
Init ==
    /\ pool = [n \in Node |-> IF n \in Dummy THEN DummyIds[n] ELSE <<>>]
    /\ readNum = [e \in Node \X Base |-> 0]
    /\ avail = [m \in Base |-> [i \in Id |-> [n |-> 0, slots |-> {}]]]
    /\ queue = [m \in Base |-> <<>>]
    /\ starts = [m \in Base |-> FreshStarts]
    /\ unavailable = [m \in Base |-> Cardinality(InpIds[m])]
    /\ ungened = [n \in Node |-> IF n \in Dummy THEN 0
                                 ELSE InitialUngened(n)]
    /\ partNum = [m \in Parts |-> [g \in Id |-> 0]]
    /\ route = [s \in Shared |-> <<>>]
    /\ outlen = [m \in Base |-> {}]
    /\ fetchLock = [m \in Base |-> Free]
    /\ addLock = [m \in Base |-> Free]
    /\ pc = [w \in Worker |-> "off"]
    /\ bi = [w \in Worker |-> 1]
    /\ si = [w \in Worker |-> 1]
    /\ got = [w \in Worker |-> {}]
    /\ slice = [w \in Worker |-> <<>>]
    /\ out = [w \in Worker |-> {}]
    /\ adding = [w \in Worker |-> [batch |-> {}, left |-> 0]]
    /\ held = [w \in Worker |-> {}]
    /\ possible = [w \in Worker |-> TRUE]
    /\ dp = [s \in Shared |-> 0]
    /\ rounds = [s \in Shared |-> 0]
    /\ stopping = [s \in Shared |-> FALSE]

----------------------------------------------------------------------------
(* run_vllm and the engine's polling loop, as far as the communicator sees  *)
(* them.                                                                    *)

(* tot_req_num_remained has reached zero: every request was answered.       *)
Finished(s) == \A i \in DOMAIN BaseOf[s] : outlen[BaseOf[s][i]] = InpIds[BaseOf[s][i]]

(* One round of run_vllm: the queues are re-cut for the new number of       *)
(* workers, and the unfinished requests of the old workers, sorted by id,   *)
(* are dealt out as requests[dp_i::dp_size].                                *)
Launch(s, d) ==
    /\ \A w \in WorkersOf(s) : pc[w] = "off"
    /\ ~Finished(s)
    /\ rounds[s] < MaxRounds[s]
    /\ LET bases == Range(BaseOf[s])
           unfinished == UNION {held[w] : w \in WorkersOf(s)}
       IN  /\ \E q \in [bases -> UNION {Requeued(m, dp[s]) : m \in bases}] :
                 /\ \A m \in bases : q[m] \in Requeued(m, dp[s])
                 /\ queue' = [m \in Base |-> IF m \in bases THEN q[m] ELSE queue[m]]
           /\ starts' = [m \in Base |-> IF m \in bases THEN FreshStarts ELSE starts[m]]
           /\ \E f \in SortedListings(unfinished) :
                 held' = [w \in Worker |->
                            IF Model(w) # s THEN held[w]
                            ELSE Dealt(f, DpId(w), d)]
    /\ pc' = [w \in Worker |-> IF Model(w) = s /\ DpId(w) < d THEN "idle" ELSE pc[w]]
    /\ possible' = [w \in Worker |-> IF Model(w) = s THEN TRUE ELSE possible[w]]
    /\ dp' = [dp EXCEPT ![s] = d]
    /\ rounds' = [rounds EXCEPT ![s] = @ + 1]
    /\ stopping' = [stopping EXCEPT ![s] = FALSE]
    /\ UNCHANGED <<pool, readNum, avail, unavailable, ungened, partNum, route,
                   outlen, fetchLock, addLock, bi, si, got, slice, out, adding>>

(* The scheduler takes the model's GPUs away (stop_specific_models).        *)
RequestStop(s) ==
    /\ \E w \in WorkersOf(s) : pc[w] # "off"
    /\ ~stopping[s] /\ rounds[s] < MaxRounds[s]
    /\ stopping' = [stopping EXCEPT ![s] = TRUE]
    /\ UNCHANGED <<commVars, callVars, held, possible, dp, rounds>>

(* A worker leaves _run_engine: it was told to stop, or no input will come  *)
(* any more and it has answered all it had.                                 *)
MayLeave(w) == stopping[Model(w)] \/ (~possible[w] /\ held[w] = {})

Leave(w) ==
    /\ pc[w] = "idle"
    /\ MayLeave(w)
    /\ pc' = [pc EXCEPT ![w] = "off"]
    /\ UNCHANGED <<commVars, bi, si, got, slice, out, adding, modelVars>>

----------------------------------------------------------------------------
(* get_seqs: for each base model of the running model, under its fetch lock *)
(* refresh the queue of complete inputs and take this worker's share.       *)

GetSeqs(w) ==
    /\ pc[w] = "idle" /\ possible[w] /\ ~stopping[Model(w)]
    /\ pc' = [pc EXCEPT ![w] = "get"]
    /\ possible' = [possible EXCEPT ![w] = FALSE]
    /\ UNCHANGED <<commVars, bi, si, got, slice, out, adding, held, dp, rounds, stopping>>

FetchFree(m) == fetchLock[m] = Free

(* Enter get_seqs_base_model; nothing to refresh once every input came.     *)
AcquireFetch(w) ==
    LET m == Current(w)
    IN  /\ pc[w] = "get"
        /\ FetchFree(m)
        /\ fetchLock' = [fetchLock EXCEPT ![m] = w]
        /\ pc' = [pc EXCEPT ![w] = IF unavailable[m] = 0 THEN "slice" ELSE "read"]
        /\ UNCHANGED <<pool, readNum, avail, queue, starts, unavailable, ungened,
                       partNum, route, outlen, addLock, bi, si, got, slice, out, adding, modelVars>>

(* _get_selected_outputs: the inputs of m that the unread outputs feed.     *)
Unread(from, m) == readNum[<<from, m>>] + 1 .. Len(pool[from])
Selected_Unfiltered(from, m) ==
    {[from |-> from, pos |-> p, id |-> pool[from][p]] : p \in Unread(from, m)}
Selected(from, m) ==
    {x \in [from : {from}, pos : Unread(from, m), id : Id] :
        x.id \in Feeds[<<m, from, pool[from][x.pos]>>]}

(* An input is used as it comes, or waits for the other sources.            *)
SingleSource(m) == Len(Srcs[m]) = 1 \/ Independent[m]

(* The ids of the outputs of a node.  An output of a source makes an input  *)
(* of m when inp_req_from_which_model_which_out_reqs says so: it names one  *)
(* output per source and input.  Inputs that take one source only take it   *)
(* from one source; the requests the application counts are those whose     *)
(* sources all make them.                                                   *)
OutputIds(from) ==
    IF from \in Dummy THEN Range(DummyIds[from])
    ELSE IF from \in Parts THEN {GroupOf[from][i] : i \in InpIds[from]}
    ELSE InpIds[from]
Makes(from, g, m, i) == g \in OutputIds(from) /\ i \in Feeds[<<m, from, g>>]
ASSUME FeedsAssumption ==
    /\ \A n \in Dummy : IsInjective(DummyIds[n])
    /\ \A m \in Base :
          /\ IsInjective(Srcs[m])
          /\ \A i \in Id : \A from, other \in Range(Srcs[m]) : \A g, h \in Id :
                Makes(from, g, m, i) /\ Makes(other, h, m, i)
                    /\ (SingleSource(m) \/ from = other) => from = other /\ g = h
          /\ \A i \in Id :
                LET made(from) == \E g \in Id : Makes(from, g, m, i)
                IN  (IF SingleSource(m) THEN \E from \in Range(Srcs[m]) : made(from)
                                        ELSE \A from \in Range(Srcs[m]) : made(from))
                    => i \in InpIds[m]

(* The base models of a fused model are a chain.  A request that two of     *)
(* them have to answer is, in the later one, made of the output with the    *)
(* same id of the base model before it.                                     *)
ASSUME FusedAssumption ==
    \A s \in Shared : \A a, b \in DOMAIN BaseOf[s] :
        \A i \in InpIds[BaseOf[s][a]] \cap InpIds[BaseOf[s][b]] : a < b =>
            LET m == BaseOf[s][b - 1]
                n == BaseOf[s][b]
            IN  /\ m \notin Parts
                /\ ~SingleSource(n) => m \in Range(Srcs[n])
                /\ \A from \in Range(Srcs[n]) : \A g \in Id :
                      Makes(from, g, n, i) /\ (SingleSource(n) \/ from = m)
                          => from = m /\ g = i

(* The count of input x.id just after x was added to _available_srcs.       *)
CountAt(m, new, x) ==
    avail[m][x.id].n + Cardinality({y \in new : y.id = x.id /\ y.pos <= x.pos})
Completes_AtFirst(m, n) == n = 1
Completes(m, n) == n = Len(Srcs[m])

(* _get_correct_lock(read_only=True): no lock for a source that will not    *)
(* produce any more; otherwise the body runs under the source's add lock.   *)
MayRead_Anytime(from) == TRUE
MayRead(from) == (from \in Base /\ ungened[from] # 0) => addLock[from] = Free

ReadSource(w) ==
    LET m == Current(w)
        from == Srcs[m][si[w]]
        new == Selected(from, m)
    IN  /\ pc[w] = "read"
        /\ MayRead(from)
        /\ readNum' = [readNum EXCEPT ![<<from, m>>] = Len(pool[from])]
        /\ IF SingleSource(m)
           THEN /\ got' = [got EXCEPT ![w] = @ \cup new]
                /\ avail' = avail
           ELSE /\ got' = [got EXCEPT ![w] =
                             @ \cup {x \in new : Completes(m, CountAt(m, new, x))}]
                /\ avail' = [avail EXCEPT ![m] = [i \in Id |->
                       LET mine == {x \in new : x.id = i}
                       IN  [n |-> avail[m][i].n + Cardinality(mine),
                            slots |-> avail[m][i].slots \cup
                                        {k \in {si[w]} : mine # {}}]]]
        /\ si' = [si EXCEPT ![w] = @ + 1]
        /\ pc' = [pc EXCEPT ![w] = IF si[w] = Len(Srcs[m]) THEN "fuse" ELSE "read"]
        /\ UNCHANGED <<pool, queue, starts, unavailable, ungened, partNum, route,
                       outlen, fetchLock, addLock, bi, slice, out, adding, modelVars>>

(* The new complete inputs, sorted, go to the end of the queue.             *)
Fuse(w) ==
    LET m == Current(w)
    IN  /\ pc[w] = "fuse"
        /\ \E f \in SortedListings(got[w]) : queue' = [queue EXCEPT ![m] = @ \o Ids(f)]
        /\ unavailable' = [unavailable EXCEPT ![m] = @ - Cardinality(got[w])]
        /\ got' = [got EXCEPT ![w] = {}]
        /\ pc' = [pc EXCEPT ![w] = "slice"]
        /\ UNCHANGED <<pool, readNum, avail, starts, ungened, partNum, route, outlen,
                       fetchLock, addLock, bi, si, slice, out, adding, modelVars>>

(* _get_seqs reads queue[start::dp_size]; the position is advanced later.   *)
ReadSlice(w) ==
    LET m == Current(w)
    IN  /\ pc[w] = "slice"
        /\ slice' = [slice EXCEPT ![w] = Stride(queue[m], starts[m][DpId(w)], dp[Model(w)])]
        /\ pc' = [pc EXCEPT ![w] = "assign"]
        /\ UNCHANGED <<commVars, bi, si, got, out, adding, modelVars>>

(* Release the fetch lock and go on to the next base model, or return.      *)
EndFetch(w) ==
    /\ fetchLock' = [fetchLock EXCEPT ![Current(w)] = Free]
    /\ IF bi[w] < Len(BaseOf[Model(w)])
       THEN /\ bi' = [bi EXCEPT ![w] = @ + 1]
            /\ pc' = [pc EXCEPT ![w] = "get"]
       ELSE /\ bi' = [bi EXCEPT ![w] = 1]
            /\ pc' = [pc EXCEPT ![w] = "idle"]
    /\ si' = [si EXCEPT ![w] = 1]
    /\ slice' = [slice EXCEPT ![w] = <<>>]
    /\ UNCHANGED <<pool, readNum, avail, unavailable, ungened, partNum, outlen,
                   addLock, got, out, adding, dp, rounds, stopping>>

(* A fused model remembers which base model each id was last fetched for    *)
(* (_update_out_req_model_id_mapping).                                      *)
Remember_First(s, m, ids) ==
    [i \in DOMAIN route[s] \cup ids |-> IF i \in DOMAIN route[s] THEN route[s][i] ELSE m]
Remember(s, m, ids) ==
    [i \in DOMAIN route[s] \cup ids |-> IF i \in ids THEN m ELSE route[s][i]]

(* The requests go to the worker.                                           *)
Give(w, ids) ==
    LET m == Current(w)
        s == Model(w)
    IN  /\ held' = [held EXCEPT ![w] = @ \cup {Request(m, i) : i \in ids}]
        /\ possible' = [possible EXCEPT ![w] = TRUE]
        /\ route' = IF Fused(s) THEN [route EXCEPT ![s] = Remember(s, m, ids)] ELSE route

TakeSlice(w) ==
    LET m == Current(w)
        n == Len(slice[w])
    IN  /\ pc[w] = "assign" /\ n > 0
        /\ starts' = [starts EXCEPT ![m][DpId(w)] = Advance(@, n, dp[Model(w)])]
        /\ Give(w, Range(slice[w]))
        /\ queue' = queue
        /\ EndFetch(w)

(* Nothing at this worker's positions: what no worker has fetched is put    *)
(* into a fresh queue q (_reset_state_for_model),                           *)
Rebalance(w, q) ==
    /\ pc[w] = "assign" /\ slice[w] = <<>>
    /\ q \in Requeued(Current(w), dp[Model(w)])

(* ... and the worker takes its share of that,                              *)
TakeRebalanced(w) ==
    LET m == Current(w)
        d == DpId(w)
        n == dp[Model(w)]
    IN  \E q \in Requeued(m, n) :
           /\ Rebalance(w, q)
           /\ d < Len(q)
           /\ queue' = [queue EXCEPT ![m] = q]
           /\ LET ids == Stride(q, d, n)
              IN  /\ starts' = [starts EXCEPT ![m] =
                                  [FreshStarts EXCEPT ![d] = Advance(d, Len(ids), n)]]
                  /\ Give(w, Range(ids))
           /\ EndFetch(w)

(* ... or, with fewer requests left than workers, the first of them,        *)
TakeFirst(w) ==
    LET m == Current(w)
    IN  \E q \in Requeued(m, dp[Model(w)]) :
           /\ Rebalance(w, q)
           /\ DpId(w) >= Len(q) /\ q # <<>>
           /\ queue' = [queue EXCEPT ![m] = Tail(q)]
           /\ starts' = [starts EXCEPT ![m] = FreshStarts]
           /\ Give(w, {q[1]})
           /\ EndFetch(w)

(* ... or nothing: whether more can come is whether inputs are still due.   *)
StillDue_Never(m) == FALSE
StillDue(m) == unavailable[m] # 0

TakeNothing(w) ==
    LET m == Current(w)
    IN  /\ Rebalance(w, <<>>)
        /\ queue' = [queue EXCEPT ![m] = <<>>]
        /\ starts' = [starts EXCEPT ![m] = FreshStarts]
        /\ possible' = [possible EXCEPT ![w] = @ \/ StillDue(m)]
        /\ UNCHANGED <<held, route>>
        /\ EndFetch(w)

----------------------------------------------------------------------------
(* add_seqs: the engine finished some of its requests and hands them on.    *)

(* The base model an output is filed under; in a fused model by its id.     *)
RoutedBase(s, r) == IF Fused(s) THEN route[s][r.id] ELSE BaseOf[s][1]

AddSeqs(w) ==
    /\ pc[w] = "idle"
    /\ \E S \in SUBSET held[w] \ {{}} :
          /\ held' = [held EXCEPT ![w] = @ \ S]
          /\ out' = [out EXCEPT ![w] = {Request(RoutedBase(Model(w), r), r.id) : r \in S}]
    /\ pc' = [pc EXCEPT ![w] = "add"]
    /\ UNCHANGED <<commVars, bi, si, got, slice, adding, possible, dp, rounds, stopping>>

(* _process_outputs: of the glued outputs the batch contributes to, those   *)
(* of which every part is there now.                                        *)
PartsOf(m, g) == {i \in InpIds[m] : GroupOf[m][i] = g}
PartsIn(m, batch, g) == Cardinality({r \in batch : GroupOf[m][r.id] = g})
Whole_AtFirst(m, g, n) == n > 0
Whole(m, g, n) == n = Cardinality(PartsOf(m, g))
Glued(m, batch) ==
    {[id |-> g] : g \in {g \in {GroupOf[m][r.id] : r \in batch} :
        Whole(m, g, partNum[m][g] + PartsIn(m, batch, g))}}

AddFree_Always(m) == TRUE
AddFree(m) == addLock[m] = Free

(* add_seqs_base_model, one base model of the call after the other: append  *)
(* to the output pool, read the counter of the outputs still missing ...    *)
AppendOutputs(w, m) ==
    LET batch == {r \in out[w] : r.base = m}
        toAdd == IF m \in Parts THEN Glued(m, batch) ELSE batch
    IN  /\ pc[w] = "add" /\ batch # {}
        /\ AddFree(m)
        /\ addLock' = [addLock EXCEPT ![m] = w]
        /\ partNum' = IF m \in Parts
                      THEN [partNum EXCEPT ![m] = [g \in Id |-> @[g] + PartsIn(m, batch, g)]]
                      ELSE partNum
        /\ \E f \in Listings(toAdd) : pool' = [pool EXCEPT ![m] = @ \o Ids(f)]
        /\ adding' = [adding EXCEPT ![w] =
                        [batch |-> batch, left |-> ungened[m] - Cardinality(toAdd)]]
        /\ bi' = [bi EXCEPT ![w] = CHOOSE i \in DOMAIN BaseOf[Model(w)] : BaseOf[Model(w)][i] = m]
        /\ pc' = [pc EXCEPT ![w] = "count"]
        /\ UNCHANGED <<readNum, avail, queue, starts, unavailable, ungened, route,
                       outlen, fetchLock, si, got, slice, out, modelVars>>

(* ... store it, record the answered requests and release the lock.         *)
CountOutputs(w) ==
    LET m == Current(w)
        left == out[w] \ adding[w].batch
    IN  /\ pc[w] = "count"
        /\ ungened' = [ungened EXCEPT ![m] = adding[w].left]
        /\ outlen' = [outlen EXCEPT ![m] = @ \cup {r.id : r \in adding[w].batch}]
        /\ addLock' = [addLock EXCEPT ![m] = Free]
        /\ out' = [out EXCEPT ![w] = left]
        /\ adding' = [adding EXCEPT ![w] = [batch |-> {}, left |-> 0]]
        /\ pc' = [pc EXCEPT ![w] = IF left = {} THEN "idle" ELSE "add"]
        /\ bi' = [bi EXCEPT ![w] = 1]
        /\ UNCHANGED <<pool, readNum, avail, queue, starts, unavailable, partNum,
                       route, fetchLock, si, got, slice, modelVars>>

----------------------------------------------------------------------------
(* Every model has answered every request and its workers are gone.         *)
Done ==
    /\ \A s \in Shared : Finished(s)
    /\ \A w \in Worker : pc[w] = "off"
    /\ UNCHANGED vars

Call(w) ==
    \/ AcquireFetch(w) \/ ReadSource(w) \/ Fuse(w) \/ ReadSlice(w)
    \/ TakeSlice(w) \/ TakeRebalanced(w) \/ TakeFirst(w) \/ TakeNothing(w)
    \/ \E m \in Base : AppendOutputs(w, m)
    \/ CountOutputs(w)

Next ==
    \/ \E s \in Shared : RequestStop(s) \/ \E d \in Plans[s] : Launch(s, d)
    \/ \E w \in Worker : GetSeqs(w) \/ AddSeqs(w) \/ Leave(w) \/ Call(w)
    \/ Done

Spec == Init /\ [][Next]_vars

(* A call runs on its own thread: its steps go on, and a lock that is       *)
(* released again and again is acquired at last.  A worker polls, finishes  *)
(* requests and leaves in its loop; the scheduler relaunches what it        *)
(* stopped.  Nothing makes the scheduler stop a model.                      *)
Fairness ==
    /\ \A w \in Worker : /\ SF_vars(Call(w))
                         /\ SF_vars(AddSeqs(w))
                         /\ WF_vars(GetSeqs(w))
                         /\ SF_vars(Leave(w))
    /\ \A s \in Shared : WF_vars(\E d \in Plans[s] : Launch(s, d))

FairSpec == Spec /\ Fairness
=============================================================================
