---------------------------- MODULE BlockManager ----------------------------
(***************************************************************************)
(* The block manager of an engine (vllm/core/block_manager.py): operators   *)
(* on the state of its two block allocators.  The KV cache of a sequence    *)
(* is kept in physical blocks of GPU or CPU memory named by its block       *)
(* table; a block shared by several tables is counted once per table.       *)
(*                                                                          *)
(* A pool is a record of                                                    *)
(*   free   the free list of each device; blocks are taken from its end     *)
(*   ref    the reference count of every block                              *)
(*   end    the GPU blocks still used for the KV cache are 1 .. end         *)
(*   cached the layers whose weights are kept on other GPUs                 *)
(*   error  the exception that ended the engine, or "none"                  *)
(* A sequence is a record [status, len, table]; table is <<>> when the      *)
(* block manager has no table for it.  Prefix sharing is not modelled: no   *)
(* caller of the repository passes prefix_pos.                              *)
(*                                                                          *)
(* An operator Op_Something in front of Op is Op with a fault seeded in it; *)
(* no definition uses it.                                                   *)
(***************************************************************************)
EXTENDS Integers, Sequences, SequencesExt, FiniteSetsExt, TLC

VARIABLES
  engine,   \* the configuration of the engine, chosen initially
  pool      \* BlockSpaceManager: both allocators

\* GPU blocks are numbered from 1, CPU blocks follow them; Number is the
\* block_number, which both allocators count from the same start.
NewPool(e) ==
  [free |-> [gpu |-> [i \in 1 .. e.gpu |-> e.gpu + 1 - i],
             cpu |-> [i \in 1 .. e.cpu |-> e.gpu + e.cpu + 1 - i]],
   ref |-> [b \in 1 .. (e.gpu + e.cpu) |-> 0],
   end |-> e.gpu, cached |-> e.cached, error |-> "none"]

Ascending(S) == [i \in 1 .. Cardinality(S) |-> CHOOSE n \in S : Cardinality({m \in S : m < n}) = i - 1]
Raise(p, what) == IF p.error = "none" THEN [p EXCEPT !.error = what] ELSE p
NumFree(p, dev) == Len(p.free[dev])

----------------------------------------------------------------------------
(* BlockAllocator: the blocks of a sequence of calls, taken and given back. *)
Occurrences(list, b) == Cardinality({i \in DOMAIN list : list[i] = b})
Device(b) == IF b <= engine.gpu THEN "gpu" ELSE "cpu"
Number(b) == IF Device(b) = "gpu" THEN b ELSE b - engine.gpu

\* The k-th block the next calls of allocate return.
Upcoming(p, dev, k) == p.free[dev][Len(p.free[dev]) + 1 - k]

\* n calls of allocate; every block taken gets its count.
Take(p, dev, n, count) ==
  LET taken == {Upcoming(p, dev, k) : k \in 1 .. n} IN
  IF n > NumFree(p, dev) THEN Raise(p, "out of memory")
  ELSE [p EXCEPT !.free[dev] = SubSeq(@, 1, Len(@) - n),
                 !.ref = [b \in DOMAIN @ |-> IF b \in taken THEN count[b] ELSE @[b]]]

Share(p, list) == [p EXCEPT !.ref = [b \in DOMAIN @ |-> @[b] + Occurrences(list, b)]]

\* free for every entry of a list: a block returns when its count reaches 0,
\* to the allocator that is called for it.
Return(p, list, home) ==
  LET left(b) == p.ref[b] - Occurrences(list, b)
      returns(i) == left(list[i]) = 0 /\ \A j \in i + 1 .. Len(list) : list[j] # list[i]
      order == Ascending({i \in DOMAIN list : returns(i)})
      returned == [k \in DOMAIN order |-> list[order[k]]]
      On(dev) == SelectSeq(returned, LAMBDA b : home[b] = dev)
  IN IF \E b \in Range(list) : left(b) < 0 THEN Raise(p, "double free")
     ELSE [p EXCEPT !.ref = [b \in DOMAIN @ |-> left(b)],
                    !.free = [dev \in DOMAIN @ |-> @[dev] \o On(dev)]]

\* _free_block_table calls the allocator of the device of each block.
Give(p, list) == Return(p, list, [b \in DOMAIN p.ref |-> Device(b)])

----------------------------------------------------------------------------
(* BlockSpaceManager: the tables of sequences.                              *)
Logical(len) == (len + engine.blockSize - 1) \div engine.blockSize
Window(n) == IF engine.window = 0 THEN n ELSE engine.window

Required(seq) == LET n == Logical(seq.len) IN IF n < Window(n) THEN n ELSE Window(n)

CanAllocate_Hopeful(p, seq) ==
  IF NumFree(p, "gpu") - Required(seq) >= engine.watermark THEN "ok" ELSE "later"

CanAllocate(p, seq) ==
  IF engine.gpu - Required(seq) < engine.watermark THEN "never"
  ELSE IF NumFree(p, "gpu") - Required(seq) >= engine.watermark THEN "ok"
  ELSE "later"

\* A prompt takes its blocks at once; beyond the sliding window they repeat.
Allocate(p, seq, numSeqs) ==
  LET n == Required(seq) IN
  [pool |-> Take(p, "gpu", n, [b \in DOMAIN p.ref |-> numSeqs]),
   table |-> [i \in 1 .. Logical(seq.len) |-> Upcoming(p, "gpu", ((i - 1) % n) + 1)]]

CanAppendSlot_OneMore(p, numRunning) == numRunning <= NumFree(p, "gpu") + 1
CanAppendSlot(p, numRunning) == numRunning <= NumFree(p, "gpu")

\* Sequences with new tables.
Tabled(list, tables) ==
  [i \in DOMAIN list |-> IF i \in DOMAIN tables THEN [list[i] EXCEPT !.table = tables[i]] ELSE list[i]]

IsShared_Thrice(count) == count > 2
IsShared(count) == count > 1

\* append_slot for the running sequences of a group, one after the other: a
\* new block, one of the window, or the last one, copied while it is shared.
AppendSlots(p, list) ==
  LET runs == {i \in DOMAIN list : list[i].status = "running"}
      short(i) == Len(list[i].table) < Logical(list[i].len)
      wraps(i) == short(i) /\ engine.window > 0 /\ Len(list[i].table) >= engine.window
      grows(i) == short(i) /\ ~wraps(i)
      table(i) == LET t == list[i].table IN
                  IF wraps(i) THEN Append(t, t[(Len(t) % engine.window) + 1]) ELSE t
      before(i) == {j \in runs : j < i /\ ~grows(j) /\ Last(table(j)) = Last(table(i))}
      copies(i) == ~grows(i) /\ IsShared(p.ref[Last(table(i))] - Cardinality(before(i)))
      taking == {i \in runs : grows(i) \/ copies(i)}
      new(i) == Upcoming(p, "gpu", Cardinality({j \in taking : j <= i}))
      left == {i \in taking : copies(i)}
      leaving == [k \in 1 .. Cardinality(left) |-> Last(table(Ascending(left)[k]))]
      full == Cardinality(taking) > NumFree(p, "gpu")
  IN [pool |-> Give(Take(p, "gpu", Cardinality(taking), [b \in DOMAIN p.ref |-> 1]), leaving),
      list |-> IF full THEN list
               ELSE Tabled(list, [i \in runs |-> IF grows(i) THEN Append(list[i].table, new(i))
                                                 ELSE IF copies(i) THEN [table(i) EXCEPT ![Len(table(i))] = new(i)]
                                                 ELSE table(i)])]

\* The count a block gets for the tables that named block b before.
Moved_Alone(list, b) == 1
Moved(list, b) == Occurrences(list, b)

\* swap_in and swap_out: the blocks of the tables move to the other device,
\* whose allocator takes them back; a block shared by two tables stays shared.
SwapTo(dev, p, list) ==
  LET first == Ascending({i \in DOMAIN list : \A j \in 1 .. i - 1 : list[j] # list[i]})
      to == [b \in Range(list) |-> Upcoming(p, dev, CHOOSE k \in DOMAIN first : list[first[k]] = b)]
      origin(n) == CHOOSE b \in Range(list) : to[b] = n
      other == IF dev = "gpu" THEN "cpu" ELSE "gpu"
  IN IF Len(first) > NumFree(p, dev) THEN [pool |-> Raise(p, "out of memory"), to |-> <<>>]
     ELSE [pool |-> Return(Take(p, dev, Len(first), [n \in Range(to) |-> Moved(list, origin(n))]),
                           list, [b \in DOMAIN p.ref |-> other]),
           to |-> to]

\* _get_physical_blocks: what the unfinished sequences hold.
PhysicalBlocks(seqs) ==
  UNION {Range(seqs[i].table) : i \in {j \in DOMAIN seqs : seqs[j].status # "finished"}}

CanSwapIn(p, seqs, numSwapped) ==
  NumFree(p, "gpu") - (Cardinality(PhysicalBlocks(seqs)) + numSwapped) >= engine.watermark
CanSwapOut(p, seqs) == Cardinality(PhysicalBlocks(seqs)) <= NumFree(p, "cpu")

----------------------------------------------------------------------------
(* Trading KV blocks for weights: the blocks at the end of the cache are    *)
(* given up, the used ones among them move to free blocks below.            *)
Enough_Over(cached, load) == cached - load < 0
Enough(cached, load) == cached - load <= 0

LayersToLoad(p) ==
  LET degree == p.cached + 2
      load[d \in -1 .. degree] ==     \* the loads tried as the degree is halved
        IF NumFree(p, "gpu") < engine.perLayer * (degree - d) THEN {}
        ELSE {degree - d} \cup (IF Enough(p.cached, degree - d) THEN {} ELSE load[d \div 2])
      tried == load[degree \div 2]
  IN IF p.cached = 0 \/ tried = {} THEN 0 ELSE Max(tried)

ReorganizeMap(p, load) ==
  LET start == p.end - engine.perLayer * load
      low == SelectSeq(p.free.gpu, LAMBDA b : b <= start)
      used == {b \in start + 1 .. p.end : b \notin Range(p.free.gpu)}
      from == Ascending(used)
  IN [b \in used |-> low[CHOOSE i \in DOMAIN from : from[i] = b]]

\* The tables are rewritten by block number, so that a swapped out sequence
\* whose CPU block has the number of a GPU block that moves gets that block's
\* new place in its table, too.
Rewritten(p, load) ==
  LET to == ReorganizeMap(p, load)
  IN [b \in {c \in DOMAIN p.ref : Number(c) \in DOMAIN to} |-> to[Number(b)]]

\* One entry after the other: an entry gives the count of its old block to the
\* new one and leaves 1 behind.  (The dictionary of tables is taken in the
\* order of the sequences; another order tells only when a GPU and a CPU block
\* have the same number and the count of one of them is already wrong.)
Reorganize(p, load, list) ==
  LET start == p.end - engine.perLayer * load
      to == Rewritten(p, load)
      entries(n) == {i \in DOMAIN list : list[i] \in DOMAIN to /\ to[list[i]] = n}
      last(n) == list[Max(entries(n))]
  IN [p EXCEPT !.free.gpu = SelectSeq(@, LAMBDA b : b <= start /\ b \notin Range(to)),
               !.ref = [b \in DOMAIN @ |->
                          IF b \in Range(to)
                          THEN IF entries(b) # {} /\ Occurrences(list, last(b)) = 1 THEN @[last(b)] ELSE 1
                          ELSE IF b \in start + 1 .. p.end \/ b \in DOMAIN to \cap Range(list) THEN 1
                          ELSE @[b]],
               !.end = start,
               !.cached = @ - load]

\* The cache holds one segment of blocks per layer and kind, so every used
\* block of every segment has a new place (a cell) when segments get shorter.
CellMap(p, load) ==
  LET start == p.end - engine.perLayer * load
      to == ReorganizeMap(p, load)
      used == {b \in 1 .. p.end : b \notin Range(p.free.gpu)}
      cells == {b + p.end * i : b \in used, i \in 0 .. engine.segments - 1}
      block(c) == ((c - 1) % p.end) + 1
      segment(c) == (c - 1) \div p.end
  IN [c \in cells |-> (IF block(c) \in DOMAIN to THEN to[block(c)] ELSE block(c))
                        + start * segment(c)]

ChainOrder_FromLow(cells) == Ascending(cells)
ChainOrder(cells) == Reverse(Ascending(cells))

\* get_dependent_blk_moving_chains: a cell is followed by the cell it moves
\* to; each chain is carried out from its end by one thread block.
Chains(map) ==
  LET order == ChainOrder(DOMAIN map)
      chain[c \in DOMAIN map \cup Range(map)] ==
        IF c \in DOMAIN map THEN <<c>> \o chain[map[c]] ELSE <<c>>
      starts[k \in 0 .. Len(order)] ==      \* and the cells visited from them
        IF k = 0 THEN [at |-> {}, visited |-> {}]
        ELSE LET c == order[k]
                 was == starts[k - 1]
             IN IF c \in was.visited \/ map[c] = c THEN was
                ELSE [at |-> was.at \cup {c}, visited |-> was.visited \cup Range(chain[c])]
  IN {chain[c] : c \in starts[Len(order)].at}

Renamed(table, to) == [i \in DOMAIN table |-> IF table[i] \in DOMAIN to THEN to[table[i]] ELSE table[i]]
RenamedAll(list, to) == Tabled(list, [i \in DOMAIN list |-> Renamed(list[i].table, to)])
=============================================================================
