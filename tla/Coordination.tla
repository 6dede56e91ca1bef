---------------------------- MODULE Coordination ----------------------------
(***************************************************************************)
(* The coordination of the model processes by the scheduler process: the    *)
(* main loop of main_with_preemption (benchmarks/schedule_multi_model.py),  *)
(* the loop of run_vllm in every model process                              *)
(* (benchmarks/benchmark_throughput.py), and the state they share in        *)
(* SHARED_CONTECT (vllm/core/multimodel_scheduler.py).                      *)
(*                                                                         *)
(* The scheduler starts and stops the models with started_status, one Event *)
(* per model, and learns from a second Event per model that a stopped model *)
(* has left its GPUs.  A step is cut at every access to shared state.  The  *)
(* requests of a model are those of module Communicator: here they are a    *)
(* single unit of work, which can be completed once the models it depends   *)
(* on have answered theirs.                                                 *)
(*                                                                         *)
(* An operator Op_Something in front of Op is Op with a fault seeded in it; *)
(* no definition uses it.                                                   *)
(***************************************************************************)
EXTENDS Integers, Sequences, FiniteSets

CONSTANTS
    Model,      \* the running models (shared ids)
    GPU,
    Sources,    \* Model -> the models whose outputs it needs
    Columns,    \* HybridFlow: the modelsets, each its models in launch order
    GpusOf,     \* HybridFlow: modelset -> its GPUs
    Preemptive, \* which of the two policies computes the next round
    Late,       \* wait_stage_synchs: the models that wait for stage1_started
    MayFail,    \* bound: the model processes in which an exception may occur
    QuickRounds, \* timing: a round may end between two statements of the scheduler
    Prompt       \* timing: a model process that has signalled is in
                 \* wait_to_be_started, or its task is known to be done, before
                 \* the scheduler comes to start it

ASSUME SystemAssumption ==
    /\ IsFiniteSet(Model)
    /\ Sources \in [Model -> SUBSET Model]
    /\ Preemptive \in BOOLEAN
    /\ Late \subseteq Model
    /\ MayFail \subseteq Model
    /\ QuickRounds \in BOOLEAN /\ Prompt \in BOOLEAN
ASSUME ColumnAssumption ==
    /\ Columns \in Seq(Seq(Model))
    /\ GpusOf \in [DOMAIN Columns -> (SUBSET GPU) \ {{}}]
    /\ \A k \in DOMAIN Columns : Columns[k] # <<>>
    /\ \A j, k \in DOMAIN Columns : j # k => GpusOf[j] \cap GpusOf[k] = {}
    /\ \A j, k \in DOMAIN Columns :
          \A a \in DOMAIN Columns[j], b \in DOMAIN Columns[k] :
             Columns[j][a] = Columns[k][b] => j = k /\ a = b

VARIABLES
    (* shared memory *)
    started,    \* started_status
    event,      \* events[2 + m]: m is ready for rescheduling
    finished,   \* shared_finish_status
    setting,    \* shared_setting: the GPUs of a model's execution plan
    stage1,     \* stage1_started
    (* the scheduler process *)
    mpc,        \* where it stands in its loop
    plan,       \* comp_gpus of launched_exec_plan_states; {} for the others
    column,     \* HybridFlow: modelset -> index of the model it runs
    target,     \* HybridFlow: target_stage_ids
    todo,       \* the models of the loop it is in that are still to be done;
                \* in a round, those that were finished when it began
    toLaunch,   \* new_launch
    current,    \* the model being started, in a set
    pending,    \* pending_list: the tasks not yet returned by asyncio.wait
    doneNow,    \* done_list
    (* the model processes *)
    pc,         \* where each stands
    snap,       \* the plan it read, which its workers run on
    answered    \* its workers have answered all its requests

sharedVars == <<started, event, finished, setting, stage1>>
mainVars == <<mpc, plan, column, target, todo, toLaunch, current, pending, doneNow>>
procVars == <<pc, snap, answered>>
vars == <<sharedVars, mainVars, procVars>>

Ended(m) == pc[m] \in {"exit", "failed"}

(* A model is on the GPUs of the plan it read from the loading of the       *)
(* weights until delete_workers.                                            *)
Using(m) == snap[m] # {}

NoModel == [m \in Model |-> {}]
Disjoint(p) == \A m, n \in Model : m # n => p[m] \cap p[n] = {}

(* The plan of the HybridFlow modelsets when modelset k runs its model      *)
(* number col[k].                                                           *)
ColumnPlan(col) ==
    [m \in Model |->
        UNION {GpusOf[k] : k \in {k \in DOMAIN Columns : Columns[k][col[k]] = m}}]

(* The plans the search may produce: disjoint, and able to make progress.   *)
CanProgress(p, over) ==
    \/ over = Model
    \/ \E m \in Model \ over : p[m] # {} /\ Sources[m] \subseteq over
Plans(over) ==
    {p \in [Model -> SUBSET GPU] :
        Disjoint(p) /\ (\A m \in over : p[m] = {}) /\ CanProgress(p, over)}

----------------------------------------------------------------------------
(* initialize_SHARED_CONTECT writes the plans of the first stage,           *)
(* initialize_SHARED_CONTECT_for_HybridFlow those of all stages; and every  *)
(* model process is submitted.                                              *)
FirstColumn == [k \in DOMAIN Columns |-> 1]
AllColumns ==
    [m \in Model |->
        UNION {GpusOf[k] : k \in {k \in DOMAIN Columns :
                                    \E a \in DOMAIN Columns[k] : Columns[k][a] = m}}]
FirstPlans == IF Preemptive THEN Plans({}) ELSE {ColumnPlan(FirstColumn)}

Init ==
    /\ plan \in FirstPlans
    /\ setting = IF Preemptive THEN plan ELSE AllColumns
    /\ started = [m \in Model |-> FALSE]
    /\ event = [m \in Model |-> FALSE]
    /\ finished = [m \in Model |-> FALSE]
    /\ stage1 = FALSE
    /\ mpc = "boot"
    /\ column = FirstColumn
    /\ target = [k \in DOMAIN Columns |-> 2]
    /\ todo = Model
    /\ toLaunch = {m \in Model : plan[m] # {}}
    /\ current = {}
    /\ pending = Model
    /\ doneNow = {}
    /\ pc = [m \in Model |-> "boot"]
    /\ snap = NoModel
    /\ answered = [m \in Model |-> FALSE]

----------------------------------------------------------------------------
(* The scheduler process.                                                   *)

(* wait_all_models_to_finish_preparation_before_init_LLM, one event after   *)
(* the other.  No task is done for the event loop then: the coroutine has   *)
(* not awaited anything since it submitted them.                            *)
Boot(m) ==
    /\ mpc = "boot" /\ m \in todo /\ event[m]
    /\ todo' = todo \ {m}
    /\ UNCHANGED <<sharedVars, mpc, plan, column, target, toLaunch, current,
                   pending, doneNow, procVars>>
Booted ==
    /\ mpc = "boot" /\ todo = {}
    /\ mpc' = "launch"
    /\ todo' = toLaunch
    /\ UNCHANGED <<sharedVars, plan, column, target, toLaunch, current, pending,
                   doneNow, procVars>>

(* start_exec_plans, for one new plan after the other: write the setting,   *)
(* set started_status, clear the event.                                     *)
Written_Not(m) == setting[m]
Written(m) == plan[m]

WriteSetting(m) ==
    /\ mpc = "launch" /\ m \in todo
    /\ Prompt => pc[m] = "blocked" \/ Ended(m)
    /\ setting' = [setting EXCEPT ![m] = Written(m)]
    /\ current' = {m}
    /\ todo' = todo \ {m}
    /\ mpc' = "set"
    /\ UNCHANGED <<started, event, finished, stage1, plan, column, target,
                   toLaunch, pending, doneNow, procVars>>

(* Event.set: whoever is waiting is notified and goes on, even if the event *)
(* is cleared before it runs again.                                         *)
SetStarted ==
    /\ mpc = "set"
    /\ started' = [m \in Model |-> started[m] \/ m \in current]
    /\ pc' = [m \in Model |-> IF m \in current /\ pc[m] = "blocked" THEN "plan" ELSE pc[m]]
    /\ mpc' = "clear"
    /\ UNCHANGED <<event, finished, setting, stage1, plan, column, target, todo,
                   toLaunch, current, pending, doneNow, snap, answered>>

Cleared_Not(m) == event[m]
Cleared(m) == FALSE

ClearEvent ==
    /\ mpc = "clear"
    /\ event' = [m \in Model |-> IF m \in current THEN Cleared(m) ELSE event[m]]
    /\ current' = {}
    /\ mpc' = "launch"
    /\ UNCHANGED <<started, finished, setting, stage1, plan, column, target,
                   todo, toLaunch, pending, doneNow, procVars>>

Launched ==
    /\ mpc = "launch" /\ todo = {}
    /\ toLaunch' = {}
    /\ mpc' = IF pending = {} THEN "end" ELSE "wait"
    /\ UNCHANGED <<sharedVars, plan, column, target, todo, current, pending,
                   doneNow, procVars>>

(* get_the_next_round_exec_plan_schedule, as far as its caller can tell:    *)
(* finished models are dropped, a running model keeps its GPUs or is        *)
(* stopped, and what is launched may include a stopped model.               *)
ReplanPreemptive(over) ==
    LET running == {m \in Model : plan[m] # {}}
    IN  \E next \in Plans(over) : \E again \in SUBSET (Model \ over) :
           LET changed == {m \in Model : next[m] # plan[m]} \cup again
           IN  /\ \A m \in again : next[m] # {}
               /\ plan' = next
               /\ toLaunch' = {m \in changed : next[m] # {}}
               /\ todo' = running \cap changed
               /\ UNCHANGED <<column, target>>

(* get_the_next_round_exec_plan_schedule_HybridFlow: a modelset whose model *)
(* is finished goes on to its next model, on the same GPUs.                 *)
NextTarget_SkipOne(k) == target[k] + 2
NextTarget(k) == target[k] + 1

ReplanHybridFlow(over) ==
    LET overCols == {k \in DOMAIN Columns : Columns[k][column[k]] \in over}
        moving == {k \in overCols : target[k] <= Len(Columns[k])}
        next == [k \in DOMAIN Columns |-> IF k \in moving THEN target[k] ELSE column[k]]
    IN  /\ column' = next
        /\ target' = [k \in DOMAIN Columns |-> IF k \in moving THEN NextTarget(k) ELSE target[k]]
        /\ plan' = ColumnPlan(next)
        /\ toLaunch' = {Columns[k][next[k]] : k \in moving}
        /\ todo' = {Columns[k][column[k]] : k \in overCols}

(* asyncio.wait returns with at least one task done.  What is finished then *)
(* is kept: the round that begins looks it up later, and so finds it.       *)
Awaken ==
    /\ mpc = "wait"
    /\ \E D \in SUBSET {m \in pending : Ended(m)} :
          /\ D # {}
          /\ Prompt => \A m \in pending \ D : ~Ended(m)
          /\ doneNow' = D
          /\ pending' = pending \ D
    /\ todo' = {m \in Model : finished[m]}
    /\ mpc' = "round"
    /\ UNCHANGED <<sharedVars, plan, column, target, toLaunch, current, procVars>>

(* The next round is computed.  It looks up the finish statuses of the      *)
(* models one after the other while the processes go on: a model that has   *)
(* finished since the scheduler was woken up may or may not be seen.        *)
Seen(over) == todo \subseteq over /\ \A m \in over : finished[m]

Replan ==
    /\ mpc = "round"
    /\ \E over \in SUBSET Model :
          /\ Seen(over)
          /\ IF Preemptive THEN ReplanPreemptive(over) ELSE ReplanHybridFlow(over)
    /\ mpc' = "stage1"
    /\ UNCHANGED <<sharedVars, current, pending, doneNow, procVars>>

(* start_stage1_if_possible.                                                *)
Stage1Due_Any == \E m \in Model \ Late : finished[m]
Stage1Due_Everyone == \A m \in Model : finished[m]
Stage1Due == \A m \in Model \ Late : finished[m]

StartStage1 ==
    /\ mpc = "stage1"
    /\ stage1' = (stage1 \/ Stage1Due)
    /\ mpc' = "stop"
    /\ UNCHANGED <<started, event, finished, setting, plan, column, target, todo,
                   toLaunch, current, pending, doneNow, procVars>>

(* stop_specific_models; then await the tasks that are done.  One of them   *)
(* may raise: the exception leaves the "with" of the process pool, whose    *)
(* shutdown waits for every model process.  Of the models to stop only      *)
(* those whose task is not done are waited for.                             *)
Waited_Never(m) == FALSE
Waited(m) == m \in pending

Raised_Never == FALSE
Raised == \E m \in doneNow : pc[m] = "failed"

Stop ==
    /\ mpc = "stop"
    /\ started' = [m \in Model |-> started[m] /\ m \notin todo]
    /\ IF Raised
       THEN /\ mpc' = "teardown"
            /\ todo' = {}
       ELSE /\ mpc' = "settle"
            /\ todo' = {m \in todo : Waited(m)}
    /\ doneNow' = {}
    /\ UNCHANGED <<event, finished, setting, stage1, plan, column, target,
                   toLaunch, current, pending, procVars>>

(* wait_all_models_to_finish_prepare_for_reschedule.                        *)
Settle(m) ==
    /\ mpc = "settle" /\ m \in todo /\ event[m]
    /\ todo' = todo \ {m}
    /\ UNCHANGED <<sharedVars, mpc, plan, column, target, toLaunch, current,
                   pending, doneNow, procVars>>
Settled ==
    /\ mpc = "settle" /\ todo = {}
    /\ mpc' = "launch"
    /\ todo' = toLaunch
    /\ UNCHANGED <<sharedVars, plan, column, target, toLaunch, current, pending,
                   doneNow, procVars>>

(* ProcessPoolExecutor.__exit__.                                            *)
Teardown ==
    /\ mpc = "teardown"
    /\ \A m \in Model : Ended(m)
    /\ mpc' = "end"
    /\ UNCHANGED <<sharedVars, plan, column, target, todo, toLaunch, current,
                   pending, doneNow, procVars>>

----------------------------------------------------------------------------
(* A model process.                                                         *)

Step(m, from, to) == pc[m] = from /\ pc' = [pc EXCEPT ![m] = to]

(* set_finish_preparation_before_init_LLM.                                  *)
Prepared(m) ==
    /\ Step(m, "boot", "wait")
    /\ event' = [event EXCEPT ![m] = TRUE]
    /\ UNCHANGED <<started, finished, setting, stage1, mainVars, snap, answered>>

(* wait_to_be_started.                                                      *)
WaitStarted(m) ==
    /\ Step(m, "wait", IF started[m] THEN "plan" ELSE "blocked")
    /\ UNCHANGED <<sharedVars, mainVars, snap, answered>>

(* update_execution_plan, and the workers are launched on that plan.        *)
ReadPlan(m) ==
    /\ Step(m, "plan", "load")
    /\ snap' = [snap EXCEPT ![m] = setting[m]]
    /\ UNCHANGED <<sharedVars, mainVars, answered>>

(* do_inference: load the weights, wait_for_stage1_to_start.                *)
Loaded(m) ==
    /\ Step(m, "load", "run")
    /\ m \in Late => stage1
    /\ UNCHANGED <<sharedVars, mainVars, snap, answered>>

(* start_specific_models sets started_status and then clears the event.  A  *)
(* round that begins and ends in between has its signal cleared; with       *)
(* QuickRounds FALSE a round, which loads a model, takes longer than that.  *)
RoundMayEnd(m) == QuickRounds \/ m \notin current

(* _run_engine ends: should_reschedule, ...                                 *)
ShouldReschedule_Never(m) == FALSE
ShouldReschedule(m) == ~started[m]

Stopped(m) ==
    /\ Step(m, "run", "wrap")
    /\ ShouldReschedule(m) /\ RoundMayEnd(m)
    /\ UNCHANGED <<sharedVars, mainVars, snap, answered>>

(* ... or every request is answered.  The only worker of a model without    *)
(* data parallelism calls set_finished before it gives up its GPUs.         *)
Complete(m) ==
    /\ Step(m, "run", "wrap")
    /\ RoundMayEnd(m)
    /\ \A s \in Sources[m] : answered[s]
    /\ answered' = [answered EXCEPT ![m] = TRUE]
    /\ \E early \in BOOLEAN : finished' = [finished EXCEPT ![m] = early]
    /\ UNCHANGED <<started, event, setting, stage1, mainVars, snap>>

(* prepare_for_reschedule: delete_workers.                                  *)
FreeGpus(m) ==
    /\ Step(m, "wrap", "report")
    /\ snap' = [snap EXCEPT ![m] = {}]
    /\ UNCHANGED <<sharedVars, mainVars, answered>>

(* set_finished in the model process.                                       *)
FinishedNow_Unset(m) == finished[m]
FinishedNow(m) == answered[m]

Report(m) ==
    /\ Step(m, "report", "signal")
    /\ finished' = [finished EXCEPT ![m] = FinishedNow(m)]
    /\ UNCHANGED <<started, event, setting, stage1, mainVars, snap, answered>>

(* set_finish_preparation_for_reschedule, at the end of a round.            *)
Signal(m) ==
    /\ Step(m, "signal", "loop")
    /\ event' = [event EXCEPT ![m] = TRUE]
    /\ UNCHANGED <<started, finished, setting, stage1, mainVars, snap, answered>>

(* The next round: is_finished, then is_started.                            *)
Loop(m) ==
    /\ Step(m, "loop", IF finished[m] THEN "exit" ELSE "check")
    /\ UNCHANGED <<sharedVars, mainVars, snap, answered>>
CheckStarted(m) ==
    /\ Step(m, "check", IF started[m] THEN "wait" ELSE "again")
    /\ UNCHANGED <<sharedVars, mainVars, snap, answered>>

(* Not started: set_finish_preparation_for_reschedule once more.            *)
SignalAgain(m) ==
    /\ Step(m, "again", "wait")
    /\ event' = [event EXCEPT ![m] = TRUE]
    /\ UNCHANGED <<started, finished, setting, stage1, mainVars, snap, answered>>

(* An exception in the model process or in one of its workers:              *)
(* _unblock_model_waiters_after_failure, then the task ends with it.        *)
Fail(m) ==
    /\ m \in MayFail /\ pc[m] \in {"boot", "load", "run"} /\ RoundMayEnd(m)
    /\ pc' = [pc EXCEPT ![m] = "unblock"]
    /\ UNCHANGED <<sharedVars, mainVars, snap, answered>>
Unblocked_Not(m) == event[m]
Unblocked(m) == TRUE

Unblock(m) ==
    /\ Step(m, "unblock", "dying")
    /\ event' = [event EXCEPT ![m] = Unblocked(m)]
    /\ UNCHANGED <<started, finished, setting, stage1, mainVars, snap, answered>>
Die(m) ==
    /\ Step(m, "dying", "failed")
    /\ snap' = [snap EXCEPT ![m] = {}]
    /\ UNCHANGED <<sharedVars, mainVars, answered>>

----------------------------------------------------------------------------
Terminated ==
    /\ mpc = "end"
    /\ UNCHANGED vars

MainNext ==
    \/ \E m \in Model : Boot(m) \/ WriteSetting(m) \/ Settle(m)
    \/ Booted \/ SetStarted \/ ClearEvent \/ Launched
    \/ Awaken \/ Replan \/ StartStage1 \/ Stop \/ Settled \/ Teardown
ProcNext(m) ==
    \/ Prepared(m) \/ WaitStarted(m) \/ ReadPlan(m) \/ Loaded(m)
    \/ Stopped(m) \/ Complete(m) \/ FreeGpus(m) \/ Report(m) \/ Signal(m)
    \/ Loop(m) \/ CheckStarted(m) \/ SignalAgain(m)
    \/ Unblock(m) \/ Die(m)

Next ==
    \/ MainNext
    \/ \E m \in Model : ProcNext(m) \/ Fail(m)
    \/ Terminated

Spec == Init /\ [][Next]_vars

(* Every process keeps running; nothing makes one fail.                     *)
FairSpec ==
    /\ Spec
    /\ WF_vars(MainNext)
    /\ \A m \in Model : WF_vars(ProcNext(m))
=============================================================================
