--------------------- MODULE RequestSchedulerProperties ---------------------
(***************************************************************************)
(* What an engine promises to the requests it serves.                       *)
(***************************************************************************)
EXTENDS RequestScheduler

Groups == DOMAIN seqs
Live(g) == {i \in DOMAIN seqs[g] : seqs[g][i].status # "finished"}
Active == Range(running) \cup Range(kept)
Blocks == DOMAIN pool.ref
Failed == phase = "failed"

\* The state has its types (Scheduler and BlockSpaceManager attributes).
TypeOK ==
  /\ engine \in Engines
  /\ \A g \in Groups : \A i \in DOMAIN seqs[g] :
       /\ seqs[g][i].status \in {"waiting", "running", "swapped", "finished"}
       /\ seqs[g][i].len \in Nat
       /\ Range(seqs[g][i].table) \subseteq Blocks
  /\ \A queue \in {waiting, running, swapped, kept, scheduled, ignored, todo} :
       Range(queue) \subseteq Groups
  /\ DOMAIN answers = Groups /\ aborted \subseteq Groups
  /\ phase \in {"idle", "admit", "decode", "swapin", "outputs", "failed"}
  /\ promptRun \in BOOLEAN /\ preempted \in BOOLEAN
  /\ restarts \in 0 .. engine.restarts
  /\ pool.cached \in Nat

\* A block is counted once for every table entry that names it; it is in the
\* free list, once, exactly when it is in no table; blocks given up for
\* weights are in neither (BlockAllocator.allocate and free, fork, append_slot,
\* swap_in, swap_out, reorganize_gpu_blocks).
RefCountsExact ==
  ~Failed =>
    LET free == pool.free.gpu \o pool.free.cpu
        givenUp == pool.end + 1 .. engine.gpu
    IN /\ \A b \in Blocks \ givenUp :
            /\ pool.ref[b] = Occurrences(AllEntries, b)
            /\ Occurrences(free, b) = IF pool.ref[b] = 0 THEN 1 ELSE 0
       /\ (Range(free) \cup Range(AllEntries)) \cap givenUp = {}

\* The checks made before blocks are taken (can_allocate, can_append_slot,
\* can_swap_in, can_swap_out) are sufficient, and the assertions of the
\* scheduler hold: an engine is ended by an exception only when it was
\* stopped with several sequences of a group unfinished (get_unfinished_seqs).
NoException ==
  pool.error # "none" =>
    /\ pool.error = "assertion" /\ restarts > 0
    /\ \E g \in Groups : Sampling(g).best > 1

\* At most max_num_seqs sequences run, although a prompt is forked, a beam
\* replaced and a group resumed after it was counted (get_max_num_running_seqs
\* in the checks of _schedule).
WithinMaxSeqs ==
  FoldLeft(LAMBDA n, g : n + NumSeqs(g, "running"), 0, running \o kept)
    <= engine.maxSeqs

\* What is checked before blocks are taken or sequences run is enough,
\* whatever a group does until its turn comes.
ChecksSuffice == NoException /\ WithinMaxSeqs

\* The next token of every running sequence has a slot in GPU memory that no
\* other sequence can write to, when the model is run (append_slot).
SlotsWritable ==
  phase = "outputs" =>
    \A g \in Range(todo) : \A i \in Parents(g) :
      LET s == seqs[g][i] IN
      /\ Len(s.table) = Logical(s.len)
      /\ Range(s.table) \subseteq 1 .. pool.end
      /\ ~promptRun => pool.ref[Last(s.table)] = 1

\* A request is in one queue and its sequences have the status of that queue,
\* or it left the queues and was answered once, or it was aborted.
NothingLost ==
  phase # "failed" =>
    LET places(g) == <<g \in Range(waiting), g \in Active, g \in Range(swapped),
                       g \in Range(ignored), answers[g] = 1, g \in aborted>>
        status == <<{"waiting", "swapped"}, {"running"}, {"swapped"}, {}, {}, {}>>
    IN /\ \A queue \in {waiting, running \o kept, swapped} : IsInjective(queue)
       /\ \A g \in Groups : \E n \in 1 .. 6 :
            /\ places(g)[n] /\ \A m \in 1 .. 6 \ {n} : ~places(g)[m]
            /\ {seqs[g][i].status : i \in Live(g)} \subseteq status[n]
            /\ phase = "idle" /\ n <= 3 => Live(g) # {}

\* First come, first served: the waiting queue is in the order of arrival and
\* no request runs while an older one of its kind waits (sort_by_priority, the
\* victims of _schedule, appendleft in _preempt_by_recompute).
FirstComeFirstServed ==
  LET kind(g) == Sampling(g).best = 1
      before(Q, R) == \A g \in Q, h \in R : kind(g) = kind(h) => g < h
  IN restarts = 0 =>
       /\ \A i, j \in DOMAIN waiting :
            i < j /\ kind(waiting[i]) = kind(waiting[j]) => waiting[i] < waiting[j]
       /\ before(Active \cup Range(swapped), Range(waiting))
       /\ before(Active, Range(swapped))

\* A request that has been given tokens is never rejected as too long: what
\* could be admitted once can be admitted again after a preemption, or in the
\* next engine (prompt_limit and AllocStatus.NEVER in _schedule).
NeverCutShort ==
  \A g \in Range(ignored) : \A i \in DOMAIN seqs[g] :
    seqs[g][i].len \in {0, Sampling(g).prompt}

\* Carrying out the chains of moves, in any order and from their ends, brings
\* what each table entry holds, in every segment of the cache, to the place the
\* rewritten tables name (get_dependent_blk_moving_chains, reorganize_blocks).
ChainsCarry ==
  phase = "idle" /\ waiting \o running \o swapped # <<>> /\ Load > 0 =>
    LET chains == Chains(CellMap(pool, Load))
        start == pool.end - engine.perLayer * Load
        to == ReorganizeMap(pool, Load)
        Arrives(c) == UNION {{x[i - 1] : i \in {j \in DOMAIN x \ {1} : x[j] = c}} : x \in chains}
        Holds(c) == IF Arrives(c) = {} THEN {c} ELSE Arrives(c)
    IN /\ \A x, y \in chains : x # y => Range(x) \cap Range(y) = {}
       /\ \A i \in 0 .. engine.segments - 1 : \A k \in DOMAIN AllEntries :
            Holds(Renamed(AllEntries, to)[k] + start * i) = {AllEntries[k] + pool.end * i}

\* BlockAllocator.free asserts ("Double free!") that the block it is given is
\* in use: freeing, copying and swapping never give back a table entry more
\* often than allocate, append_slot and fork counted its block.
NoDoubleFree == pool.error # "double free"

\* Every request is answered or aborted while step() is called.
AllAnswered ==
  \A g \in 1 .. 3 :
    g \in Groups ~> (Failed \/ (g \in Groups /\ (answers[g] = 1 \/ g \in aborted)))
=============================================================================
