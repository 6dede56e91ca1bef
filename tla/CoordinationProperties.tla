----------------------- MODULE CoordinationProperties -----------------------
(***************************************************************************)
(* What the scheduler and the model processes rely on when they start, stop *)
(* and relaunch models through SHARED_CONTECT.                              *)
(***************************************************************************)
EXTENDS Coordination

MainPoints == {"boot", "launch", "set", "clear", "wait", "round", "stage1",
               "stop", "settle", "teardown", "end"}
ProcPoints == {"boot", "wait", "blocked", "plan", "load", "run", "wrap", "report",
               "signal", "loop", "check", "again", "unblock", "dying", "failed", "exit"}

(* Type invariant of the shared memory, the scheduler and the processes.    *)
TypeOK ==
    /\ started \in [Model -> BOOLEAN]
    /\ event \in [Model -> BOOLEAN]
    /\ finished \in [Model -> BOOLEAN]
    /\ setting \in [Model -> SUBSET GPU]
    /\ stage1 \in BOOLEAN
    /\ mpc \in MainPoints
    /\ plan \in [Model -> SUBSET GPU]
    /\ DOMAIN column = DOMAIN Columns /\ DOMAIN target = DOMAIN Columns
    /\ \A k \in DOMAIN Columns :
          /\ column[k] \in DOMAIN Columns[k]
          /\ target[k] \in 2 .. Len(Columns[k]) + 1
    /\ todo \subseteq Model
    /\ toLaunch \subseteq Model
    /\ current \subseteq Model
    /\ pending \subseteq Model
    /\ doneNow \subseteq Model
    /\ pc \in [Model -> ProcPoints]
    /\ snap \in [Model -> SUBSET GPU]
    /\ answered \in [Model -> BOOLEAN]

(* A model is on the GPUs of its plan; one whose process is being ended by  *)
(* an exception signals first (_unblock_model_waiters_after_failure).       *)
OnGpus(m) == Using(m) /\ pc[m] # "dying"

(* Two models are never on the same GPU: a model is launched on GPUs only   *)
(* after the models that had them have given them up.                       *)
ExclusiveGPUs ==
    \A m, n \in Model : m # n /\ OnGpus(m) /\ OnGpus(n) => snap[m] \cap snap[n] = {}

(* Whenever the scheduler waits for a model to finish, the models that are  *)
(* on GPUs are on those of launched_exec_plan_states, and the plan in       *)
(* shared memory, which the workers go on reading (get_dp_size in every     *)
(* get_seqs), is the one they were launched on.                             *)
PlansAreInForce ==
    mpc = "wait" =>
        \A m \in Model : OnGpus(m) => snap[m] = plan[m] /\ snap[m] = setting[m]

(* The event means what set_finished says of it: the model is ready to be   *)
(* rescheduled.  The scheduler goes on after waiting for a model only when  *)
(* the model has left its GPUs.                                             *)
SignalledIsReady ==
    [][\A m \in Model : mpc = "settle" /\ m \in todo \ todo' => ~OnGpus(m)]_vars

(* stage1_started lets the models of the second stage begin only after      *)
(* every model of the first has finished.                                   *)
LateAfterFirstStage ==
    \A m \in Late : pc[m] \in {"run", "wrap"} =>
        \A n \in Model \ Late : finished[n]

(* A model that the scheduler stopped, and waits for, reaches one of the    *)
(* calls that set its event.                                                *)
StoppedIsHeard == \A m \in Model : (mpc = "settle" /\ m \in todo) ~> event[m]

(* The scheduler does not wait for the signal of a process that has ended:  *)
(* its last round has set the event, and nothing will set it again.         *)
EndedIsHeard ==
    \A m \in Model : mpc = "settle" /\ m \in todo /\ Ended(m) => event[m]

(* Unless a model process fails, every model finishes and the scheduler     *)
(* leaves its loop.                                                         *)
AllFinish ==
    \/ <>(mpc = "end" /\ \A m \in Model : finished[m])
    \/ <>(\E m \in Model : pc[m] = "failed")

(* The failure of a model process reaches the scheduler, which is not left  *)
(* waiting for the failed model.                                            *)
FailureIsNoticed == \A m \in Model : pc[m] = "failed" ~> mpc \in {"teardown", "end"}
=============================================================================
