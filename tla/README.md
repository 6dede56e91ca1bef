# Verification of the multi-model scheduler

TLA+ models of the multi-model serving system in this repository: the request
communicator through which the models exchange requests and outputs, the
coordination of the model processes by the scheduler process, the search that plans
stages ahead of time, the stage scheduler that decides in every round which model runs
on which GPUs, and the request scheduler with its KV-cache block manager inside each
engine. TLC checks small instances; the main invariants of the communicator, of the
coordination, of the search, of the stage scheduler and of the engine are proved with TLAPS, for
every dataflow graph, every number of models, GPUs, requests and workers.

    tlc -workers 2 -config CommChain.cfg MCCommunicator.tla     # any run of PROJECT.json
    tlapm Communicator_proofs.tla                               # the proofs
    tlapm Coordination_proofs.tla
    tlapm PlanSearch_proofs.tla                                 # and every other *_proofs, FoldTheorems

## 1. The system

An application is a graph of language models. Every node is run by a *model
process*, which owns an inference engine with one or more data-parallel *workers*;
an edge hands the outputs of one model to another as inputs. There are more models
than GPUs, so a *scheduler process* starts the models in stages, stops them when
another set of models should run, and starts them again with another number of
workers. A *manager process* holds the objects all of them share.

```
   scheduler process                manager process             model process m
   main_with_preemption             LLM_COMMUNICATOR            run_vllm
     stage scheduler  ---- plans -> shared_setting ----------->   reads its plan
     start / stop ---------------> started_status ------------>   waits, polls it
     waits for      <------------- event of m <---------------    "I am ready"
     asyncio.wait   <------------- future of m's task <-------    finished / raised
                                    queues, pools, locks <----->  workers: get_seqs,
                                                                  add_seqs
```

### 1.1 Inventory

**LLM communicator** (`vllm/core/multimodel_scheduler.py`, `LLM_COMMUNICATOR`).
State: the output pool of every base model, how much of it each reader has read,
partial inputs that wait for more sources, one queue of complete inputs per base
model with a start position per worker, counters of missing inputs and missing
outputs, the answered requests, a mapping from request id to base model for fused
models, and two families of locks. Operations: `get_seqs`, `add_seqs`,
`reset_state_for_model`. Served by the manager on a thread per client, so the calls
of different workers interleave inside the methods. Hard: lock coverage, a stride
read before its position is advanced, re-cutting a queue while other workers hold
positions in it, a restart with another number of workers, a worker deciding that
nothing more will come. Correct when every request is given to exactly one worker,
complete, after its sources, and when none is forgotten.

**Engine polling loop** (`vllm/entrypoints/llm.py`, `LLM._run_engine`). Polls
`get_seqs`, sends finished requests, stops when told to, leaves when nothing is held
and nothing can come. Modelled with the communicator.

**Model process loop** (`benchmarks/benchmark_throughput.py`, `run_vllm`; workers in
`my_llm_infer_worker_multiprocessing.py`). Waits to be started, reads its plan,
launches workers, deals unfinished requests to them, waits for them, records whether
it is finished, signals, and goes round. Hard: every one of these is a separate
access to shared memory, with the scheduler acting in between.

**Shared context** (`SHARED_CONTECT`, `vllm/core/multimodel_scheduler.py`). One
"started" and one "ready for rescheduling" Event per model, finish status, execution
plan, `stage1_started`.

**Main scheduling loop** (`benchmarks/schedule_multi_model.py`,
`main_with_preemption`). Waits for any task, computes the next round (preemptive or
HybridFlow), stops models, waits for their events, starts new plans. Hard: missed or
stale signals, a model process that fails while it is waited for. Correct when a GPU
is never used by two models, and when all models finish.

**Runtime stage scheduler** (same file,
`get_the_next_round_exec_plan_schedule` and what it calls). From the planned stages,
the running plans and the models that have finished it computes the plans to run,
their GPUs, the models to stop and the plans to launch; two variants and the
LightRule order. Hard: `shared_finish_status` changes while the round is computed,
plans that do not fit are dropped or kept in several places, GPUs are dealt out in
connected units. Correct when plans get the GPUs they need, exclusively and
connected, when an unstopped model is untouched, and when something can still finish.

**KV-cache block manager** (`vllm/core/block_manager.py`). State: per device a free
list and a reference count per block; a block table per sequence; the end of the GPU
range still used for the cache. Operations: `allocate`, `append_slot` with copy on write,
`fork`, `swap_in`, `swap_out`, `free`, and this fork's `reorganize_gpu_blocks`, which gives
blocks at the end of the cache up for the weights of layers. Hard: tables that share blocks,
counts moved between blocks, checks made before blocks are taken, moves of cache blocks that run in
parallel. Correct when a block is counted once per table that names it, is free
exactly when it is in none, and is not written by two sequences.

**Request scheduler** (`vllm/core/scheduler.py`). State: the waiting, running and swapped
queues. `schedule` admits prompts, or gives every running sequence a slot, preempting the
last groups by recomputation or by swapping, and then resumes swapped groups;
`abort_seq_group`; `get_unfinished_seqs` when the engine is stopped. Hard: preemption and
admission limits that depend on each other, requests that grow between admissions, a cache that
shrinks. Correct when a request is in one queue, is served in order of arrival, is answered
once, and when no check the scheduler relies on turns out insufficient.

**LLM engine** (`vllm/engine/llm_engine.py`). `add_request`, `abort_request` and `step`, whose
`_process_model_outputs` forks, finishes and drops sequences between two calls of the
scheduler. One thread.

**Plan search** (`benchmarks/search_exec_plans.py`). One thread, before anything runs. Fuses
models of one name in a chain into one node; then, until all are finished, plans one stage
greedily, level by level of the graph of unfinished nodes, and simulates it. State: the fused
graph, the progress of every base model, the stages so far, the order in which nodes were first
tried. Hard: the simulation can finish anything, levels depend on what is finished, a node that
cannot run yet is tried again later, a stage ends when one try takes no more GPUs. Correct
when every model is planned, in time for its sources, and when the search ends.

**Cost model** (`fake_scheduling.py`, `construct_cost_model.py`): floating-point estimates for the
search. **Executors, workers, model code and kernels**: device I/O and
numerics. **Artifact tooling** (`artifact/mil_artifact`): runs experiments and reads
their logs.

### 1.2 What is modelled

| component | status | modules |
|---|---|---|
| LLM communicator | modelled | Communicator, CommunicatorProperties, Dispatch |
| engine polling loop | when it polls, sends, stops and leaves | Communicator |
| model process loop | all accesses to shared state | Coordination (start/stop), Communicator (dealing) |
| shared context | the state that decides control | Coordination |
| main scheduling loop | from the submission of the tasks to the end | Coordination |
| runtime stage scheduler | modelled | StageScheduler, StageSchedulerProperties |
| block manager | all but prefix sharing and `reset` | BlockManager |
| request scheduler | all but the LoRA limits | RequestScheduler, RequestSchedulerProperties |
| LLM engine | the life of a request through `step` | RequestScheduler |
| executors, workers | the moves of cache blocks a reorganization asks for | BlockManager (`Chains`) |
| plan search | the greedy LPT methods, whatever the cost model says | PlanSearch, PlanSearchProperties, Schedule |
| cost model, kernels, tooling | no: numerics, device or file I/O | - |

## 2. Modules

| module | content |
|---|---|
| `Communicator` | the communicator and the workers that call it, one action per step between two accesses of shared state |
| `CommunicatorProperties` | its invariants, the inductive invariant of types and calls, liveness, and the refinement mapping |
| `Delivery` | the inductive invariant of its data flow |
| `Dispatch` | what the communicator is for: each request is taken once when ready, may move at a relaunch, is answered once |
| `Communicator_proofs` | types, calls, locks, counters, positions |
| `Queue_proofs` | what is waiting in a queue that several workers read in strides, and what taking, appending and launching do to it |
| `Delivery_proofs` | the data flow: each action keeps the invariant of `Delivery`; the safety properties of the communicator and its refinement of `Dispatch` |
| `MCCommunicator` | graphs and workloads for TLC |
| `Coordination`, `CoordinationProperties`, `MCCoordination` | scheduler process, model processes, shared context |
| `Coordination_proofs` | theorems and lemmas about `Coordination` |
| `Schedule` | planned stages, and when they are well formed: the seam between the search and the stage scheduler |
| `PlanSearch`, `PlanSearchProperties`, `MCPlanSearch` | the search for a schedule |
| `FoldTheorems` | induction over finite sets and intervals; folds and sums, ranks, and the sequence that lists a set |
| `PlanSearch_proofs` | schedules are in order and well formed, every stage fits the machine, and when a running model loses its plan |
| `StageScheduler`, `StageSchedulerProperties`, `MCStageScheduler` | the rounds of the stage scheduler |
| `StageScheduler_proofs` | sorting, the first placement and dealing; the types, the exclusive GPUs and the untouched models of a round |
| `BlockManager` | the two block allocators and the block tables, as operators on their state |
| `RequestScheduler`, `RequestSchedulerProperties`, `MCRequestScheduler` | one engine: scheduler and engine step, one action per loop iteration, on top of `BlockManager` |
| `RequestScheduler_proofs` | picking from a queue, the status of the sequences of a group; no request is lost, requests are served in order, none is cut short |

An operator named `Op_Something` just before `Op` is `Op` with one plausible fault
(a dropped guard, a missing reset, an off-by-one). Nothing uses it; putting it in the
place of `Op` makes the property paired with it in `PROJECT.json` fail, which shows
that the property depends on the code.

The models are cut from one system at these seams. Coordination treats the
requests of a model as one unit of work that can be completed once its sources have
answered theirs, which is what `AllAnswered` of Communicator provides; Communicator
treats the scheduler as someone who may stop a model at any time and launches it
again, which `AllFinish` and `StoppedIsHeard` of Coordination provide. Coordination lets the preemptive
round produce any plan that is disjoint and can make progress, and these are
`GpusAreExclusive` and `SomeModelCanFinish` of StageScheduler. StageScheduler takes its stages for
granted when they are `WellFormed` (module `Schedule`), which is what `FeedsTheScheduler` says of
every schedule PlanSearch ends with. A worker of Communicator answers
the requests it holds at some time, or hands them back when it is stopped: that is `AllAnswered`
and `NothingLost` of RequestScheduler, whose `Restart` is the hand-over.

## 3. The communicator

### Correspondence

| model | code |
|---|---|
| `pool`, `readNum`, `avail`, `queue`, `starts` | `output_pool`, `_read_output_nums`, `_available_srcs`, `fused_inp_queues`, `fetched_fused_inp_start` |
| `unavailable`, `ungened`, `partNum`, `route`, `outlen` | `_unavailable_req_nums`, `_ungened_out_req_nums`, `_meta_output_pool`, `out_req_model_id_mapping`, `outlen_dict` |
| `fetchLock`, `addLock` | `_fetch_req_locks`, `_add_req_locks`, with `_get_correct_lock` as `MayRead` |
| `GetSeqs`, `AcquireFetch` | the poll of the engine; entering `get_seqs_base_model` under the fetch lock |
| `ReadSource`, `Fuse` | the loop of `_get_fused_inp_queues`, and its end |
| `ReadSlice`, `TakeSlice`, `TakeRebalanced`, `TakeFirst`, `TakeNothing` | `_get_seqs`, with `_reset_state_for_model` when the caller's positions are empty |
| `AddSeqs`, `AppendOutputs`, `CountOutputs` | `add_seqs`, the two halves of `add_seqs_base_model` |
| `Launch`, `RequestStop`, `Leave` | a round of `run_vllm` (`reset_state_for_model`, requests dealt out), `stop_specific_models`, the end of `_run_engine` |

A call is cut where another thread can see a difference: at the locks, at every
source read (each has its own lock, or none when its counter is zero), between
appending outputs and storing the counter, and between reading a slice and advancing
the position. A worker makes one call at a time.

Abstracted: a request is its id, since its text is a function of the id and its
sources (`Feeds`); `SourcesFirst` speaks of the slots that are filled. The
outputs of one `add_seqs` call are appended in any order, as the engine finishes them.
Not modelled: `_get_fused_inp_queues_limited_version` (never called) and the clocks
of `update_non_compute_ranges`.

Two observations that are no defects. For a model whose outputs are glued from parts
`_ungened_out_req_nums` starts at the number of *part* requests but is decremented
once per glued output, so it stays above zero and its readers go on taking the lock,
which is safe. The base models of a fused model share request ids; that is safe
because an engine has at most one of them in flight, which `RoutedToItsBase` checks
through the mapping.

### Assumptions on the constants

`IdAssumption`: ids are natural numbers (they are list positions or dict keys).
`BoundAssumption`: plans have between 1 and `MaxDP` workers. `GraphAssumption`: the
sets are finite, every base model is run by exactly one running model, at one place,
and has a source (models without one get a dummy node).
`RequestAssumption`: types of the workload. `MaxDP` and `MaxRounds` are the bounds.

`FeedsAssumption`: `inp_req_from_which_model_which_out_reqs` is a dict, so an input has one output per source,
or one in all when it takes its sources independently (`multimodel_scheduler.py:207-217`); a pool of dummy
outputs and a list of sources name nothing twice; and an input that can be made is one of those the
application counts in `_unavailable_req_nums`. `FusedAssumption`: the base models of a fused model are a chain
(`fuse_similar_models_in_a_chain_fuseAll_by_default` of the search), and a request id that two of them share is
one document on its way through: the later base model makes it of the earlier one's output with the same id. TLC
evaluates both for every graph of the runs. Without the second, an engine could have two requests with one id, and
`route` would file one of them wrongly.

### Properties

* `EachRequestOnce`: a request is at one place only (queue position nobody has
  fetched, one worker, answered), and those at no place are the ones
  `_unavailable_req_nums` counts. It needs the fetch lock, the stride arithmetic, the
  re-cutting and the dealing to agree across restarts.
* `StrideInv`: the position of worker d is congruent to d modulo the number of workers.
* `SourcesFirst`: inputs are complete and come after their sources.
* `NothingLeftBehind`: a worker told that nothing will come is right (`NoFutureIsFinal`),
  and a model does not lose its workers with requests left (`NoEarlyExit`).
* `UngenedExact`, `UnlockedPoolIsFinal`: the counter is exact, and a pool that is
  read without a lock has stopped changing.
* `GluedWhenWhole`: a glued output appears once and only with all of its parts.
* `RoutedToItsBase`; liveness `AllAnswered`; refinement `ImplementsDispatch`. `LocksHeld`, that a lock is held by exactly
  the call inside, is proved (section 9) and in no run.

### Runs

| run | instance | distinct states | shows |
|---|---|---|---|
| CommChain | 0 -> 1, input 1 joined with a dummy node; 3 + 2 requests; model 1 on 1 or 2 workers, launched twice | 427 k | distribution, joining, restart with another number of workers |
| CommReduce | two workers of 0 produce parts of 2 documents, one glued output feeds two inputs of the evaluator, the other none, an input has its own text | 277 k | the counter, the glued pool, the unlocked read, the refinement of Dispatch |
| CommFused | one running model with both stages, 1 or 2 workers, launched twice, under `FairSpec` | 242 k | calls over several base models, routing of shared ids, `AllAnswered` |

Why these bounds are enough to be interesting: with three requests and two workers a
stride has length 2 and 1, so that one worker runs dry and re-cuts the queue while the
other still has positions; with fewer requests than workers `TakeFirst` happens; two
launches with 1 and 2 workers contain both growing and shrinking; two sources exercise
partial inputs; a group of two parts from two workers is completed by either.

Fairness of `FairSpec` (CommFused): strong for the steps of a call, since the
locks are `multiprocessing.Lock`s that the manager's server threads take, and are released after finitely many steps; strong
for finishing requests and for leaving, because a worker that polls in vain enters
and leaves the idle state for ever and still does both when it can (a run of the
engine's loop handles finished requests before it polls); weak for polling and
for launching. Nothing is assumed of `RequestStop`.

## 4. Coordination

### Correspondence

| model | code |
|---|---|
| `started`, `event`, `finished`, `setting`, `stage1` | `started_status`, `events[2 + m]`, `shared_finish_status`, `shared_setting`, `stage1_started` |
| `Boot`, `Booted` | `wait_all_models_to_finish_preparation_before_init_LLM` |
| `WriteSetting`, `SetStarted`, `ClearEvent`, `Launched` | `start_exec_plans`, `start_specific_models` |
| `Awaken` | the return of `asyncio.wait` |
| `Replan` | the next round: `ReplanPreemptive`, or `ReplanHybridFlow` for `get_the_next_round_exec_plan_schedule_HybridFlow` |
| `StartStage1`, `Stop`, `Settle`, `Settled`, `Teardown` | `start_stage1_if_possible`, `stop_specific_models` and awaiting the done tasks, `wait_all_models_to_finish_prepare_for_reschedule`, the exit of the process pool |
| `Prepared` ... `SignalAgain` | the statements of `run_vllm` that touch shared state, in order |
| `Fail`, `Unblock`, `Die` | an exception, `_unblock_model_waiters_after_failure`, the end of the task |

`snap` is the plan a model process read, from which its workers take their GPUs,
until `delete_workers`.

A round looks up one finish status after the other while the processes go on. `Awaken` keeps the models that are
finished when the scheduler wakes up, and `Replan`, which is a later step, sees these and any of those that
have finished since (`Seen`). It is not cut at each look-up, since which of them were seen is all its result depends on;
module StageScheduler, where one model is looked up several times in a round, does cut it.

`SystemAssumption` gives types; `ColumnAssumption` says that the HybridFlow modelsets
use disjoint GPUs and run each model once.

### Timing

Three constants name what the code relies on without enforcing it.

* `QuickRounds = FALSE`: a round of a model, which loads weights, outlasts the two
  statements `set()` and `clear()` of `start_specific_models`. All runs assume it.
* `Prompt = TRUE`: a model process that has signalled has reached
  `wait_to_be_started`, and a task that has ended is known to the event loop, before the scheduler,
  which takes some further steps, comes to start models. CoordPreempt
  assumes it, CoordHybrid does not. The two violation runs show what happens without it.
* `MayFail`: which processes may raise.

### Properties and runs

| run | instance | distinct states | checks |
|---|---|---|---|
| CoordHybrid | two modelsets of two models, a late evaluator | 7.0 k | `TypeOK`, `ExclusiveGPUs`, `LateAfterFirstStage`, `AllFinish` |
| CoordPreempt | three models, two GPUs, any plan in every round; two processes may fail while they boot, load or run | 160.3 k | `PlansAreInForce`, `SignalledIsReady`, `StoppedIsHeard`, `AllFinish`, `FailureIsNoticed` |
| CoordStale, CoordClearedSignal | as CoordPreempt without `Prompt` | - | findings 1 and 2 |

Two GPUs and three models make every round a choice between exchanging, moving and
keeping models; a model may be stopped and restarted in every round, and there is a
dependency, so that a wrong plan could block. CHECK_DEADLOCK is off in CoordPreempt and
in the violation runs: after a failure the pool waits for processes that may wait to be started for
ever. `AllFinish` says that all models finish unless a process has failed, and
`FailureIsNoticed` that the main loop ends when one has.

Fairness: weak for the scheduler and for each model process, which are operating
system processes and wait only in the ways the guards show; none for failing.
`AllFinish` and `StoppedIsHeard` do not need more because no two processes
compete for a lock.

## 5. The stage scheduler

### Correspondence

One iteration of each loop is one action, because each looks up
`shared_finish_status`, which a model may change at any time (`Finish`). A model has answered its requests only after
the models it reads from have, but each process sets its status when its own workers have returned
(`benchmark_throughput.py:616-627`), so that a model may be marked before its source. Only the source must be up by then,
or marked; and a stopped one is marked, if it has answered all, before the scheduler has heard from it (`Start`).

| model | code |
|---|---|
| `running`, `cands`, `target`, `gpus`, `flagged` | `launched_exec_plan_states`, `candidate_exec_plan_states`, `new_target_stage_i`, `comp_gpus` and `launched` of the plan states |
| `Begin` | the return of `asyncio.wait` |
| `KeepPlan`, `Kept` | first loop; choice of candidates, with or without runtime adjustment |
| `AdoptPlan`, `Adopted` | candidates a model already runs on; free GPUs |
| `LoadPlan`, `Reload`, `Reloaded` | `_try_to_load_exec_plans` for new and then for older plans |
| `Advance` | the stage is complete: the next one, at once by recursion if a model of this one has finished |
| `Place`, `NoUnitFree` | `_adjust_comp_gpus_for_current_launched_exec_plans`; `np.concatenate` of no unit raises |
| `Start` | stopping, and `start_exec_plans` with its assertion |

`Settings` chooses the variant: `barrier` is
`_get_the_next_round_exec_plan_schedule_no_runtime_adjustment`, `light` the plain
LightRule order of loading.

Abstracted: `_adjust_comp_gpus...` orders the free units by the cost of loading models
from where they are; `Place` allows every order. The plans themselves come from the
search: `ScheduleAssumption` (`WellFormed`) says that a stage has one plan per model and fits the
machine, that a tensor-parallel group divides a unit, and that a model is planned in a
stage only if its inputs are complete or are produced in it (`InTime`, from
`get_runnable_plans_from_cand_plans`), and that there is a stage. `MachineAssumption`: the machine consists of
whole units, and the application is a finite graph without cycles (`_get_the_first_plan_state...` looks for a
plan that reads from no other of the list and finds none on a cycle).

Lists are filtered and sorted as Python does: `Only` keeps the elements of a set in their order, `SortedBy`
sorts stably by a tuple of keys, both by the rank of an element (`Ranked`), and `GpusOf` counts the GPUs that the first
plans of a list take.

### Properties and run

`GpusAreExclusive` (one plan for a model, one model on a GPU), `AssertionsHold` (`EnoughGpus`, the
assertion of `start_exec_plans`; the look-up in `launched_plan_gpus` cannot raise; two more assertions of the
code: `AdoptionIsFound`, `UnitsAreWhole`, `StageByStage`), `GroupsAreConnected` (a tensor-parallel group
does not cross units), `UnstoppedIsUntouched` (a model that is not told to stop keeps its
plan and GPUs) and `SomeModelCanFinish` (the main loop does not wait for ever).

Run *Stages*: 4 GPUs in two units; every pair of stages of three models, one depending
on another, that uses at least three GPUs, with groups of 1 or 2 and up to 2 data-parallel
workers; three full stages; four models that crowd the machine; three settings.
2.38 million distinct states. A behaviour is finite, because every round needs a new finished
model; so a state where the main loop waits for a model that can never finish is
a state violating `SomeModelCanFinish`, and no fairness is needed. The bound that matters
is the size: an older plan can be counted against GPUs already given away (finding 3) when
several older plans compete for what a new plan has left, and the known case, run
*StageOverload*, has six models on eight GPUs. *Stages* shows that on four GPUs the properties
hold for these shapes.
So `EnoughGpus` holding in *Stages* says nothing about larger machines.

## 6. The plan search

### Correspondence

| model | code |
|---|---|
| `work`, `method` | the arguments of `get_best_model_schedule`: the graph, names, `independent_srcs`; `search_method_baseline` |
| `home` | `node_mapping` of `gen_new_model_sys_with_fused_models` |
| `fin`, `sched`, `checked` | the base models with no `inp_lens` left; `plan_group_seq`; `check_order` |
| `spent` | the sources that none of the requests left to a model with independent sources (`inp_seq_ids`) reads from |
| `visited`, `levels`, `level`, `cand`, `tot`, `group` | the locals of `get_all_level_models`; `all_level_model_ids`; the locals of the greedy loop |
| `Fuse` | one model of the loop of `fuse_similar_models_in_a_chain_fuseAll_by_default` |
| `Round` | the head of `_get_best_model_schedule`: too deep, finished, or a new stage |
| `Pass` | one pass of the loop of `get_all_level_models`; the `TypeError` of `get_unfinished_srcs` |
| `Visit` | the next level, and the order of its nodes |
| `Pick` | one try of the inner loop: the plans to weigh, the best one or none, the node put back |
| `Stage` | simulating the stage, `check_finish_states_accuracy`, the recursive call |
| `NoStage` | simulating a stage without plans: `min` of an empty list raises |

The greedy methods have one candidate for a stage, so that the recursion is a loop. The pruning by time
compares with an infinite best time until the search ends.

Abstracted: latencies, throughputs and loading costs. They decide which of the allowed plans scores best,
whether a larger plan pays, and what a stage finishes; all of these are left open, within what
holds for any numbers: a first plan that does not reload a running model is never rejected (`Sure`), the nodes of the
last stage come first, then those tried earlier (`Before`), and a stage ends when a node that reads from
no other of the stage finishes (`Roots`, `StageEnds`). Any other planned model may have finished then, too, also before
its source, of whose outputs it may need only some. In the same way the requests left to a model with
independent sources may, after any stage, read from any part of its unfinished sources only (`NewlySpent`); `UnfinishedSrcs`
are those that `get_unfinished_srcs` still finds. `SearchAssumption` numbers base models in the order in which `get_all_level_models` visits
them, and lets a worker group have a power of two of GPUs that divides the unit (NVLink group) the GPUs come in.

### Properties and run

* `FeedsTheScheduler`: a schedule is `WellFormed`, the assumption of StageScheduler, and plans every node.
* `OvertakenOnlyFromBelow`: with no_preemption a running model keeps its plan, unless a model of a
  lower level was tried before it, or the stage ended at a model that waits for a source. Both exceptions are real
  (`search_exec_plans.py:4475`) and come from models with independent sources. Such a model is on the first level as soon
  as one source has finished, while a running model that reads from that source and another stays on
  the second, is planned later and is preempted. And such a model is on a level when one of its sources is on a lower one:
  if it is tried while another source, deeper in the graph, is running but not planned yet, it cannot run, the stage
  ends there, and the running source loses its GPUs to nobody. The graph `Uneven`, six models, is the smallest we know
  on which the second happens; without `Waiting = {}` the property fails on it.
* `NoEmptyStage`: a stage gets a plan at its first try, whichever node is tried first, except in one case. A node with
  independent sources enters the first level without any unfinished source on it when its remaining requests read from
  finished sources only (`spent`); but `get_runnable_plans_from_cand_plans` wants all its sources finished or planned. When it is
  alone on that level, because finished nodes are visited only at the end of a pass and what reads from them comes a level later,
  the stage stays empty and the search raises (`NoStage`). That takes outputs of a source that nobody reads.
* `SearchEnds`: the search returns a schedule or is aborted. It fails if there are more
  stages than nodes, if fusing makes a cycle (then `Pass` changes nothing), or if a planned node could still be fused
  with a chain of the last stage (the code would step back; the model stops there).

An abort counts as an end. The run reaches all three: `get_unfinished_srcs` raises `TypeError` on a fused chain with
independent sources (158), `check_finish_states_accuracy` (2573) fails when a model finishes before its source, in
particular one that reads from an inner model of a chain before the chain, and `min` has nothing to take the minimum of in the
exception of `NoEmptyStage` (2284).

Run *Plans*, 707 k distinct states, four GPUs in two units: every graph of three models with every choice of
names and independence, each model on two or four GPUs, preemptive or not, with scores or random;
the chain summary (three steps that read all earlier outputs, and an evaluator of each); four models that fit on one
GPU, two, or either; two branches of depth three that share the machine, and the same with a model at the end that
reads from a short and a long branch. Three models are enough for a chain
with an outside reader, a model with two sources of which one has finished, and a node put back; the branches have a level that does not fit.

Fairness: weak for `Next`; one thread that runs until it returns.

## 7. The engine

### Correspondence

`LLMEngine.step` runs in one thread, so nothing interleaves inside it; its loops are unrolled, one
action per iteration, and `phase` is the place in it. Between two steps requests arrive, are aborted,
or the engine is stopped.

| model | code |
|---|---|
| `pool.free`, `pool.ref` | `free_blocks` and `ref_count` of both `BlockAllocator`s |
| `pool.end`, `pool.cached` | `actual_gpu_blk_rng_end`, `cache_config.cached_layer_num` |
| `pool.error` | the exception that leaves `step()` |
| `seqs` | `SequenceGroup.seqs_dict` with `block_tables` |
| `waiting`, `running`, `swapped`; `kept`, `scheduled`, `ignored`, `todo` | the deques of `Scheduler`; the local lists of `_schedule` and `_process_model_outputs` |
| `BeginStep` | the head of `schedule`: layer reloading with `reorganize_gpu_blocks` |
| `Ignore`, `Admit`, `AdmitFails`, `EndAdmission` | the prompt loop of `_schedule`: too long, admitted, `assert len(waiting_seqs) == 1`, the breaks |
| `GiveSlots`, `Preempt` (`Recompute`, `SwapOut`), `EndDecode` | the decode loop with `_append_slot` and `_preempt` |
| `SwapIn`, `EndSwapIn` | the swap-in loop |
| `ProcessGroup` (`Sample`, `BeamStep`) | `_process_sequence_group_outputs` |
| `EndStep` | `free_finished_seq_groups` and the request outputs |
| `Restart` | `get_unfinished_seqs` and the next engine |

`BlockManager` has no actions: `Take` and `Give` are runs of `allocate` and `free`, `Share` is `fork`, and
`AppendSlots`, `SwapTo`, `Reorganize` are the methods for the sequences of one group. The
list order is kept (blocks are popped from the end of the free list), since
`reorganize_gpu_blocks` and the swaps depend on it. `CellMap` and `Chains` are
`reorganize_blocks` and `get_dependent_blk_moving_chains`.

`EngineAssumption` gives a configuration its types; each prompt is continued at least once (`best_of`,
`sampling_params.py:163`), by at least one token (`max_tokens`, `186`). The theorems of section 9 hold for all of
these, not only for the families below.

Abstracted: a token is counted, not represented; which sequence meets a stop string and which beams
survive is left open (`stops`, the choice in `BeamStep`). Off: LoRA, prefix sharing (nobody passes
`prefix_pos`). `AddRequest` may come between any two steps, while `_run_engine` adds requests at its polls.

### Properties

`RefCountsExact` (count = number of table entries; free exactly when in none), `ChecksSuffice` (the checks
`can_allocate`, `can_append_slot`, `can_swap_in`, `can_swap_out` suffice, also for what happens
after them, and so does that on `max_num_seqs`: `NoException`, `WithinMaxSeqs`), `SlotsWritable` (the last block is not shared when the model writes to it),
`NothingLost` (one queue, with the statuses of that queue, or answered once, or aborted),
`FirstComeFirstServed`, `NeverCutShort` (a request that could be admitted once is not rejected when it
has grown), `ChainsCarry` (the chains of block moves, executed in parallel
by thread blocks, bring every cell where the rewritten tables say), and `AllAnswered`.

### Configurations

Run *Engine*, 123 k distinct states: three families of configurations, all with blocks of two tokens.
*Singles*: up to three requests of one sequence, 3 to 5 blocks, so that two requests do not both
fit at full length; a restart, an abort, limits of the batch. *Several*: parallel sampling and beams of
width 2 on 7 or 9 GPU blocks and 6 CPU blocks: copy on write, swapping, forks. *Trading*: two or three
cached layers that return to the cache, 6 to 8 blocks, 4 segments, then a restart.

The families leave out inputs on which the code is known not to work, so that the other properties can be
examined:

* a sliding window (finding 4);
* sequences longer than a cache that gave up blocks for weights: `can_allocate` compares with the
  number of blocks at the start (`block_manager.py:136`), and such a request is told "later" for ever;
* one cached layer: `LayersToLoad` loads two and `cached_layer_num` becomes negative
  (`scheduler.py:556`);
* a group of several sequences of which one has finished, and which is then recomputed:
  `allocate` counts the blocks once per sequence in the group, finished ones included, and they never become free
  (`block_manager.py:171`);
* a reorganization with several sequences per request: the Trading family has one (below);
* a swap space or cache too small for one group, which can then neither run nor be resumed
  (`block_manager.py:250`).

`NoException` lets one exception pass: `get_unfinished_seqs` asserts that a group has one running sequence
(`scheduler.py:191`), so an engine stopped while a group samples in parallel or searches beams ends with it. No application of the
repository does so (`schedule_multi_model.py:86` sets `n = 1`), and no property covers it.

A reorganization with several sequences per request goes wrong in two ways, in states that the model has and no run
reaches. `reorganize_gpu_blocks` moves the count of a block with the first table entry that names it and leaves 1
behind, which the next entry moves (`block_manager.py:409-410`): a prompt of 6 tokens sampled twice on 9 blocks, two layers of two
blocks each returning, has the tables <4, 5, 6>; block 6 becomes block 1 with the count 1 and is freed twice. And it matches table
entries by number only (407), while CPU blocks are numbered from 0 as GPU blocks are and
`increase_layer_weight_on_comp_gpu` asks for an empty `waiting` (`scheduler.py:545`), not for an empty `swapped`. The
model keeps CPU blocks apart from GPU blocks, but a CPU block has a `Number`, and `Rewritten` applies to a swapped table as
to any other: on 8 GPU and 6 CPU blocks, two layers of three blocks each returning, a swapped table <9, 10, 11> (CPU blocks 0, 1
and 2) becomes <9, 10, 1> when block 3 (number 2) of another request moves to block 1. Groups share blocks and are swapped
only with several sequences per request, so neither happens with `n = 1`.

Fairness: `FairSpec` says that `step()` is called again and again while there is something to do, as
`LLM._run_engine` does; it is weak fairness of `Step` with its enabling condition `Busy` spelled out.
Nothing is assumed about arrivals, aborts and restarts.

## 8. Findings

1. **CoordStale** (`benchmark_throughput.py:529`). A model process reads "not started",
   the scheduler starts it and clears its event, and the process then sets the event. At
   the next stop the scheduler finds the stale event and launches another plan on GPUs
   still in use.
2. **CoordClearedSignal** (`schedule_multi_model.py:1833`). A model that finishes while it
   is being stopped for a relaunch has its last signal cleared by the start; if another
   task wakes the loop first, the scheduler waits for an event nobody will set.
3. **StageOverload** (`schedule_multi_model.py:751`). Two running plans whose successors do
   not fit are both checked against the same free GPUs after some of theirs were given away;
   the assertion in `start_exec_plans` fails.

4. **EngineWindow** (`block_manager.py:325`). With a sliding window a table names a block
   again for the positions beyond the window, without counting it again;
   `_free_block_table` frees every entry, and the second `free` raises "Double free!". Six steps: a
   prompt of five tokens with a window of four has the table <1, 2, 1>.
1 and 2 need an unlucky timing (`Prompt = FALSE`), 3 only the sizes in the run, 4 a model with a sliding
window.

## 9. Proofs

`Communicator_proofs` proves for all constants satisfying the first four assumptions of section 3:

| theorem | statement |
|---|---|
| `Invariance` | `Spec => []IInv` |
| `TypeCorrectness` | `Spec => []TypeOK` |
| `Locking` | `Spec => []LocksHeld`: a lock is held by exactly the call inside |
| `FetchExclusion` | two workers are never inside `get_seqs_base_model` for one base model |
| `CountersExact` | `Spec => []UngenedExact` |
| `StridesDisjoint` | `Spec => []StrideInv` |

`TypeOK` alone is not inductive. A step indexes `BaseOf` and `Srcs` with `bi` and `si`, and
applies `route` to the ids a worker holds; so `IInv` adds `CallInv` (a call serves an
existing base model and source, and only launched workers call) and `RouteInv` (the mapping
of a fused model knows every request a worker holds). `LocksHeld` is kept with them:
whether `CountOutputs` releases the right lock depends on `bi`. One lemma per action
(`GetSeqsInv` ... `LaunchInv`) shows that it keeps `IInv`; before them come lemmas about the
operators (`StrideBounds`, `StrideType`, `ListingType`, `RequeuedType`: what a Python slice and a
sort return). `CountersExact` strengthens `UngenedExact` with `LeftExact`, the value
a call is about to store, and uses `LocksHeld` to know that only one call is between its two
halves. `StridesDisjoint` rests on `ModAdvance`, the arithmetic of
`start + n * dp_size`, and on the fact that a launch, which changes `dp_size`, also
resets all positions.

`Coordination_proofs` proves for all models, GPUs, modelsets, dependencies and failing processes, under
both policies:

| theorem | statement | timing |
|---|---|---|
| `TypeCorrectness` | `Spec => []TypeOK` | any |
| `SecondStageWaits` | `Spec => []LateAfterFirstStage` | any |
| `HandOver` | `Spec => []ExclusionInv` | `Prompt`, `~QuickRounds` |
| `Exclusion` | `Spec => []ExclusiveGPUs` | `Prompt`, `~QuickRounds` |
| `PlansInForce` | `Spec => []PlansAreInForce` | `Prompt`, `~QuickRounds` |
| `SignalsAreHonest` | `Spec => SignalledIsReady` | `Prompt`, `~QuickRounds` |

The timing assumptions cannot be dropped from the last three: CoordStale is a counterexample to
`SignalledIsReady` without `Prompt`, and then two models meet on a GPU. (For HybridFlow TLC finds
`ExclusiveGPUs` also without `Prompt`; that is not proved.)

The argument. `LateAfterFirstStage` needs only that a model answers in its last round (`LastRound`) and who
sets `stage1` (`StageOrder`). For exclusion, what a process *holds* (`Held`) is what it will use from the
moment it reads its plan until its workers are gone. `Holding` says that this is the process's part of the
scheduler's disjoint plan, unless the process is one the scheduler is stopping (`Leaving`), and that
holdings are disjoint even then. The critical step is the one that takes a model off
`Leaving`: the scheduler has seen its event or its task has ended, so it must hold nothing. That is
`EventMeansOff`, which in turn needs that no process is found started without a start under way
(`StartedOnce`), where the scheduler is while it starts a model and that the process waits
then (`Starting`, where `Prompt` enters), and what a process without plan uses (`Bookkeeping`).
`ByColumns` gives the HybridFlow plan its form, from which `ColumnAssumption` makes it disjoint.
Each part has one lemma about all actions.

`Delivery_proofs` proves, for all constants satisfying the six assumptions of section 3:

| theorem | statement |
|---|---|
| `Delivering` | `Spec => []DInv` |
| `HandedOutOnce` | `Spec => []EachRequestOnce` |
| `SourcesComeFirst` | `Spec => []SourcesFirst` |
| `FiledRight` | `Spec => []RoutedToItsBase` |
| `GluedOnce` | `Spec => []GluedWhenWhole` |
| `ReadWithoutLock` | `Spec => UnlockedPoolIsFinal` |
| `Polling` | `Spec => []FinalInv` |
| `NobodyLeavesEarly` | `Spec => []NothingLeftBehind` |
| `Implements` | `Spec => ImplementsDispatch` |

With these every safety property of the communicator is a theorem. None of them is inductive alone. That a
request is handed out once (`Exclusive`) holds because what a call finds is new (`FoundNew`); that is because a
request is collected exactly when the outputs that make it are read (`ReadExact`), each output is
read once, and is in the pool once (`Pooled`); that, again, is because only one worker had the request. So the parts of
`DInv` (module `Delivery`) are an invariant together:

* `CallState`: what the local variables of a call mean at each of its points. `_get_seqs` reads a slice and
  takes it in two steps; the fetch lock keeps the slice what the queue gives.
* `Tight`: no position is a whole round of the workers past the end of its queue. Without it a worker that ran dry
  would skip what is appended next. It is what re-cutting and `StrideInv` have to preserve.
* `Exclusive`, `Due`: a request is at one position, with one worker or answered; `_unavailable_req_nums` counts the rest.
* `Pooled`, `CountingPositive`: the pools hold the outputs of the requests added, each once; glued ones when their parts are.
* `ReadAnswered`, `ReadExact`, `FoundNew`: what was read, and what it makes.
* `Chained`, `HeldRouted`: a later base model of a fused model gets an id that an earlier one has too only after the
  earlier one has added its output; so `route` has one value to give.

`Queue_proofs` is the arithmetic under it. `Items` of a queue are the positions at or past `starts[d]` of residue
d; `TakeEffect` says that each of the four ways of taking removes from `Waiting` what the worker gets,
`AppendedItems` that what is appended waits, and `LaunchQueues` that a fresh queue has what waited. `Delivery_proofs`
has one lemma per kind of step: those that move nothing (`QuietKept`), taking, filing, launching, appending (pool and
glue), reading (slots), fusing. `NothingLeftBehind` needs the history of a poll: `Polled` says
that a call which is about to report "no request will come" has seen every base model it is done with exhausted
(`unavailable = 0` and nothing waiting, which stays so), `LeftIdle` that a worker which left had seen it. For `Implements`
each action is a `Take`, an `Answer` or a `Redeal` of Dispatch or leaves the mapped state alone.

`PlanSearch_proofs` proves for every application, machine, method and outcome of the
cost model that satisfy `SearchAssumption`:

| theorem | statement |
|---|---|
| `Invariance` | `Spec => []Inv` |
| `SourcesInTime` | `Spec => []InOrder`: a finished schedule plans every node, and a node only with its sources or after their last stage, and not before it only |
| `EnoughStages` | `Spec => []NeverTooDeep`: never more stages than nodes |
| `Typing` | `Spec => []TypeInv` |
| `GoodSchedules` | `Spec => []FeedsTheScheduler` |
| `SearchTypes` | `Spec => []TypeOK` |
| `Ordering` | `Spec => []OrderInv` |
| `Overtaking` | `Spec => []OvertakenOnlyFromBelow` |

`InOrder` is `InTime` of `WellFormed` on the sets of plans the search keeps. It speaks of the whole past, so `Inv` carries for
every stage what is known when it ends: what is planned is not finished, and its inputs are finished or planned
with it (`Candidates`, which needs that levels, candidates and plans only name open nodes); a node planned without
an input finds it finished, and a finished node is never planned again (`WithSources`); a node that has finished was
planned in the last stage of each source or later (`NotBefore`, from `check_finish_states_accuracy` and from the
fact that only planned models finish). `EnoughStages` counts: every stage finishes one of its roots, which was open before.

`FeedsTheScheduler` adds that a stage is one plan for each of its models and fits the machine (`TypeInv`).
Whether a plan is added is decided by a sum over a set of plans (`Used`), which the community modules compute by
a fold. `FoldTheorems` shows what such a sum is: the fold exists for a finite set (`SumsExist`), gains one element
at a time (`SumStep`) and does not depend on the order (`SumUnique`). Each is an induction, and the prover cannot
take an induction theorem whose parameter is an operator; instead the sets for which the statement holds are
collected in one set `P`, and the least counterexample is taken out by well-foundedness of the strict subset order
(`SubsetInduction`). With it, replacing a plan of a model by a larger one changes the sum by the difference
(`UsedStep`), and a group that `Fitting` accepts fits. The schedule the search returns lists the plans of each stage:
`SameSum` says that the GPUs of the list are those of the set.

`Overtaking` needs how the search gets to the end of a stage: what the levels are while they are built and
after (`LevelInv`), which models of which level have been tried when a stage ends, running ones of a level first
(`TurnInv`), and that a running model which is planned keeps its plan (`KeptInv`). `WhoOvertakes` is then by
contradiction. Let a running model lose its plan while no model that did not run was tried on a lower level. Lower
levels are all planned, so the stage ended with a candidate left on this level or an earlier one; running candidates come
first, so everything that was tried runs, that candidate included. It does not wait, so it can run; the group
is a part of the last stage, which fits, so the candidate's old plan still fits (`Subsum`) and may not be
rejected (`Sure`): the stage cannot have ended. An earlier
statement of the property missed the model that waits; the attempt to prove it led to the graph `Uneven` (section 6).

`StageScheduler_proofs` proves for every machine, acyclic application, well-formed schedule and setting, whatever
finishes while a round is computed:

| theorem | statement |
|---|---|
| `TypeCorrect` | `Spec => []TypeOK` |
| `Exclusion` | `Spec => []GpusAreExclusive` |
| `Untouched` | `Spec => UnstoppedIsUntouched` |

`Untouched` follows from what `Place` deals; the other two need an invariant (`Inv`, `Inductive`) of what the lists mean
at each point of a round:

* `Types`, `TargetInRange`: a round recurses only while there are stages, so it moves the target past the last one at
  most once; the target stays within `TypeOK`'s bound because every round begins with the return of a task that has
  not returned before.
* `InStages`: the stages the plans of each list are of. Candidates are of the target stage, older plans of
  stages before it, so no plan is in two lists.
* `OneOfAModel`: a list has one plan of a model (`Single`), which loops carry over because the lists they
  read and write have no model in common (`Apart`). The plans left over for the next round are not among
  those that run (`Disjoint`): the same plan state would otherwise be adopted on GPUs that are being dealt out.
* `HaveGpus`: a plan that runs is flagged, so that `LoadPlan` does not give it others; and a plan is adopted only while
  nothing of its stage runs, or is the very plan it takes its GPUs from.
* `Exclusive`: no two running plans on one GPU, at every point and not only between rounds.

The step that matters is `Place`. `AssignmentOf` unfolds the dealing, a fold over the sorted plans (`DealInTurn`,
by induction over prefixes): what has been dealt is disjoint, also from what is still free, which starts as a permutation of the
free units (`FlattenOf`, `UnitOf`), and the plans that keep whole units hold none of these. That two fixed plans are disjoint
is `Exclusive` before the step. Nothing here needs that there are enough GPUs: a plan that finds too few
gets a shorter list, so `Exclusion` holds also where `EnoughGpus` fails (finding 3). `FirstPlacementOf` starts the
induction: slices between the prefix sums of a sorted stage are disjoint (`PrefixSums`, `PrefixesGrow`), and the sum of a
sorted list is that of the list (`PermutedSum`), which fits the machine. `SortedOf` and `OnlyOf` are what sorting and
filtering return, from `Ranking` and `PutInOrder` of `FoldTheorems`: in a strict total order of a finite set every rank
from 0 is taken once.

`RequestScheduler_proofs` proves for every configuration that satisfies `EngineAssumption`, including those the runs
leave out (section 7):

| theorem | statement |
|---|---|
| `EngineLosesNothing` | `Spec => []NothingLost` |
| `EngineServesInOrder` | `StopsTogether` implies `Spec => []FirstComeFirstServed` |
| `EngineCutsNothingShort` | `LongestFits` implies `Spec => []NeverCutShort` |

`NothingLost` alone is not inductive: what a step does to a queue depends on how far it has got. `Inv` says in
`InStep` what the local lists hold at each place of `step()` (nothing is kept outside the decode loop; the samples left
to process are of groups that run), and in `Placed` that every group is in exactly one of six places with its live
sequences in the stage of that place. The exception is a group whose samples have been processed in this
step: all its sequences may have finished while it is still in `running`, until `EndStep` (`Done`). Whatever the block
manager does to the tables, it changes no status: `Turned` relates the sequences before and after a handler,
and `TabledOf`, `RelabelOf`, `AppendSlotsOf`, `SampleOf`, `BeamOf` establish it, or what the new sequences of a sampled group
are. So the proof needs nothing of block numbers and counts, and holds when the block manager raises an error, too. `Pick`
(`[x for x in list if ...]`) and `Sorted` rest on `AscendingOf`, from the rank lemmas of `FoldTheorems`.

`EngineServesInOrder` adds `OrderInv`. That the victim of `Preempt` is the youngest needs `running` to be sorted in
the decode loop and the groups that kept their slots to be older (`SortedAtPlace`). The queue a victim goes to depends on
`get_max_num_running_seqs`, that is on how many of its sequences are *live*; so two groups of one kind go to different
queues when one of them samples in parallel and has one sequence left. TLC finds that an older group is then
recomputed into `waiting` while a younger one is only swapped out and comes back first. `StopsTogether`
excludes it: each group has one sequence, or is a beam search, or does not stop before its `max_tokens` (then its
sequences have one length and finish together: `Together`). All configurations of run *Engine* satisfy it.

`EngineCutsNothingShort` adds `Lengths`: an unfinished sequence has the length of its prompt or one of `Growth`, the
lengths `_check_stop` lets it live with; `GrownFrom` is what `SampleOf` and `BeamOf` say of it. `LongestFits` says that
such a length is within `max_num_batched_tokens` and that its blocks leave the watermark free. The first part is
checked by the code (`config.py:427`, since `Growth` ends at `max_model_len`). Of the second the code checks only that the longest
sequence fits the whole cache (`llm_engine.py:657`, `774`); without it TLC finds a request that is admitted, grows into the watermark, is
handed to the next engine and is then returned as too long. All configurations of run *Engine* satisfy `LongestFits`.

Only model-checked: of the engine `RefCountsExact`, `ChecksSuffice`, `SlotsWritable`, `ChainsCarry` and its `TypeOK`
(which bounds the blocks in the tables), all of which count the occurrences of a block in the tables of all groups, and
hold only for the configurations of section 7; of the stage scheduler `SomeModelCanFinish`, `GroupsAreConnected` and
`AssertionsHold`, whose part `EnoughGpus` is no theorem (run StageOverload). Out of reach of the proof
system: liveness under fairness (`AllAnswered`, `AllFinish`, `StoppedIsHeard`,
`FailureIsNoticed`, `SearchEnds`), and what a recursive definition computes for every input, for which the induction would need an
operator as parameter. A fold, and the sorting by rank (`Ascending`), with which
`BlockManager` and `RequestScheduler` describe runs of calls, can be reached one at a time, as above for sums, lists and queues.

## 10. Not modelled, and what is left

* The other search methods (oracle, naive, hybridflow, and saturn without LPT), which enumerate or score
  candidates in other orders, and the step back of the search for vertical fusion, which it never takes.
* Cost model, model definitions, kernels: numeric code. Nothing in the running system depends on the
  values beyond what PlanSearch leaves open, and a model of floating-point
  estimates would have no property to check. Together with the device code and the experiment tooling this
  is most of the repository's lines.
* Executors and workers: collective calls in lock step without state of their own, apart from the
  block moves.
* Prefix sharing and LoRA of the engine, which no program of the multi-model system turns on, and the asynchronous
  API server (`async_llm_engine.py`), which it does not use.
* A composition of Communicator and RequestScheduler in one state space would multiply two large ones; the
  seam (section 2) is stated as properties of both sides instead.

Worth proving next: `AdoptionIsFound` and `StageByStage` of StageScheduler; `RefCountsExact` of the engine.
