--------------------------- MODULE StageScheduler ---------------------------
(***************************************************************************)
(* The runtime stage scheduler of benchmarks/schedule_multi_model.py: in    *)
(* every round of the main loop it decides which of the planned execution   *)
(* plans run next, on which GPUs, and which models have to be stopped       *)
(* (get_the_next_round_exec_plan_schedule and what it calls).               *)
(*                                                                         *)
(* The planned stages are fixed before the models start.  A round is a      *)
(* sequence of loops over lists of plans; while it is computed the models   *)
(* go on, and shared_finish_status, which every loop looks up, may change.  *)
(* So one iteration of a loop is one step here.                             *)
(*                                                                         *)
(* An operator Op_Something in front of Op is Op with a fault seeded in it; *)
(* no definition uses it.                                                   *)
(***************************************************************************)
EXTENDS Schedule, SequencesExt

CONSTANTS
    Inputs,     \* input_model_ids: Model -> SUBSET Model
    Schedules,  \* the stages the search may plan: Seq(Seq(plan))
    Settings    \* [barrier: no_runtime_adjustment, light: plain LightRule]

GPU == 0 .. TotGpu - 1

ASSUME MachineAssumption ==
    /\ TotGpu \in Nat /\ Unit \in Nat \ {0} /\ TotGpu % Unit = 0
    /\ IsFiniteSet(Model) /\ Inputs \in [Model -> SUBSET Model]
    /\ \E depth \in [Model -> 1 .. Cardinality(Model)] :        \* no cycles
          \A m \in Model : \A n \in Inputs[m] : depth[n] < depth[m]
    /\ Settings \subseteq [barrier : BOOLEAN, light : BOOLEAN]
(* PlanSearch shows that the search plans such schedules.                   *)
ASSUME ScheduleAssumption == \A s \in Schedules : WellFormed(s, Inputs)

VARIABLES
    stages,     \* plan_state_group_list
    setting,    \* which variant of the scheduler runs
    finished,   \* shared_finish_status
    returned,   \* the models whose task asyncio.wait has returned
    running,    \* launched_exec_plan_states
    cands,      \* candidate_exec_plan_states
    target,     \* new_target_stage_i
    gpus,       \* comp_gpus of every plan state
    flagged,    \* the plan states with launched = True
    pc,         \* the loop the round is in
    launched,   \* the launched_exec_plan_states the round, or its recursive
                \* call, was given
    rest,       \* what the loop has not looked at
    keep,       \* to_launch
    older,      \* cand_to_launch_list[0]
    newer,      \* cand_to_launch_list[1]
    left,       \* new_candidate_exec_plan_states
    avail,      \* available_gpus
    nextStage,  \* consider_next_stage_plans
    toStop,     \* model_ids_to_stop
    newLaunch   \* new_launch

mainVars == <<stages, setting, returned, running>>
planVars == <<gpus, flagged>>
listVars == <<launched, keep, older, newer, left, avail, nextStage>>
resultVars == <<toStop, newLaunch>>
vars == <<mainVars, finished, cands, target, planVars, pc, rest, listVars, resultVars>>

----------------------------------------------------------------------------
(* A plan state is its stage and its place in it.                           *)
States(sched) == {<<i, j>> : i \in DOMAIN sched, j \in 1 .. TotGpu}
Plan(p) == stages[p[1]][p[2]]
ModelOf(p) == Plan(p).model
Size(p) == Gpus(Plan(p))
StagePlans(i) == [j \in DOMAIN stages[i] |-> <<i, j>>]

(* prepare_exec_plan_states: the last plan of its model; the same plan as   *)
(* in the stage before, which goes on without reloading the model.          *)
LastPlan(p) == p[1] = LastStage(stages, ModelOf(p))
NeedsPrepare_ByModel(p) == p[1] > 1 /\ Plans(stages, p[1] - 1, ModelOf(p)) = {}
NeedsPrepare(p) ==
    p[1] > 1 /\ \A j \in DOMAIN stages[p[1] - 1] : stages[p[1] - 1][j] # Plan(p)

ModelsIn(list) == {ModelOf(list[k]) : k \in DOMAIN list}
GpusIn(list) == UNION {ToSet(gpus[list[k]]) : k \in DOMAIN list}

(* The elements of S in an order, and those of a list that are in S.        *)
Ranked(S, Less(_, _)) ==
    [n \in 1 .. Cardinality(S) |->
        CHOOSE x \in S : Cardinality({y \in S : Less(y, x)}) = n - 1]
Only(list, S) ==
    LET places == Ranked({k \in DOMAIN list : list[k] \in S}, LAMBDA i, j : i < j)
    IN  [n \in DOMAIN places |-> list[places[n]]]

(* list[:n], which may be shorter.                                          *)
FirstOf(list, n) == SubSeq(list, 1, IF n < Len(list) THEN n ELSE Len(list))

(* Python's sort by a tuple of keys, the larger first.                      *)
Before(a, b) == \E k \in DOMAIN a : a[k] > b[k] /\ \A h \in 1 .. k - 1 : a[h] = b[h]
Bit(b) == IF b THEN 1 ELSE 0
SortedBy(list, key) ==
    LET order == Ranked(DOMAIN list, LAMBDA i, j :
                     Before(Append(key[i], -i), Append(key[j], -j)))
    IN  [k \in DOMAIN list |-> list[order[k]]]
Sorted(list, Key(_)) == SortedBy(list, [k \in DOMAIN list |-> Key(list[k])])

(* initialize_SHARED_CONTECT puts the first stage on consecutive GPUs.      *)
GpusOf(plans, n) == MapThenSumSet(LAMBDA k : Gpus(plans[k]), 1 .. n)
FirstPlacement(sched) ==
    LET key(j) == LET p == sched[1][j]
                  IN  <<p.workers, Bit(Gpus(p) % Unit = 0), p.dp>>
        order == Sorted([j \in DOMAIN sched[1] |-> j], key)
        plans == [k \in DOMAIN order |-> sched[1][order[k]]]
    IN  [p \in States(sched) |->
            IF p[1] > 1 \/ p[2] \notin DOMAIN sched[1] THEN <<>>
            ELSE LET k == CHOOSE k \in DOMAIN order : order[k] = p[2]
                 IN  [g \in 1 .. Gpus(plans[k]) |-> GpusOf(plans, k - 1) + g - 1]]

Init ==
    /\ stages \in Schedules
    /\ setting \in Settings
    /\ finished = {} /\ returned = {}
    /\ running = Sorted(StagePlans(1), LAMBDA p :
                     <<Plan(p).workers, Bit(Size(p) % Unit = 0), Plan(p).dp>>)
    /\ target = 2
    /\ cands = IF Len(stages) > 1 THEN StagePlans(2) ELSE <<>>
    /\ gpus = FirstPlacement(stages)
    /\ flagged = ToSet(StagePlans(1))
    /\ pc = "wait"
    /\ rest = <<>> /\ launched = <<>> /\ keep = <<>> /\ older = <<>> /\ newer = <<>>
    /\ left = <<>> /\ avail = <<>> /\ nextStage = TRUE
    /\ toStop = {} /\ newLaunch = {}

----------------------------------------------------------------------------
(* The model processes that are up: those that run, and those that the      *)
(* scheduler stops until it has heard from them.                            *)
Up == IF pc = "start"
      THEN {ModelOf(p) : p \in ToSet(running) \ newLaunch} \cup toStop
      ELSE ModelsIn(running)

(* Models, the models they read from, and so on.                            *)
Upstream(models) ==
    {n \in Model : \A A \in SUBSET Model :
        models \subseteq A /\ (\A m \in A : Inputs[m] \subseteq A) => n \in A}

(* A model finishes when it has answered its last request, just before it   *)
(* is stopped or after.  The models it reads from have answered theirs by   *)
(* then, but run_vllm may set their finish status later than its own.       *)
Finish(m) ==
    /\ m \in Up \ finished
    /\ Upstream({m}) \subseteq Up \cup finished
    /\ finished' = finished \cup {m}
    /\ UNCHANGED <<mainVars, cands, target, planVars, pc, rest, listVars, resultVars>>

(* The round, or the recursive call, starts with the plans it is given.     *)
Enter(list) ==
    /\ launched' = list /\ rest' = list
    /\ keep' = <<>> /\ older' = <<>> /\ newer' = <<>> /\ left' = <<>>
    /\ pc' = "keep"

(* asyncio.wait returns with tasks of finished models.                      *)
Begin ==
    /\ pc = "wait"
    /\ \E D \in SUBSET (finished \ returned) : D # {} /\ returned' = returned \cup D
    /\ Enter(running)
    /\ UNCHANGED <<stages, setting, running, finished, cands, target, planVars,
                   avail, nextStage, resultVars>>

(* The first loop, over the running plans: those of the target stage and    *)
(* the last plans of their models go on, the others only if there is room.  *)
Stays(p) == p[1] >= target \/ LastPlan(p)

KeepPlan ==
    LET p == Head(rest)
    IN  /\ pc = "keep" /\ rest # <<>>
        /\ rest' = Tail(rest)
        /\ \/ ModelOf(p) \in finished /\ UNCHANGED <<keep, older>>
           \/ /\ ModelOf(p) \notin finished /\ Stays(p)
              /\ keep' = Append(keep, p) /\ older' = older
           \/ /\ ModelOf(p) \notin finished /\ ~Stays(p)
              /\ older' = Append(older, p) /\ keep' = keep
        /\ UNCHANGED <<mainVars, finished, cands, target, planVars, pc, launched,
                       newer, left, avail, nextStage, resultVars>>

(* Without runtime adjustment the next stage is considered once nothing of  *)
(* the last one has to go on.                                               *)
MayAdvance_Always == TRUE
MayAdvance == ~setting.barrier \/ keep = <<>>

Kept ==
    /\ pc = "keep" /\ rest = <<>>
    /\ nextStage' = MayAdvance
    /\ rest' = CASE ~setting.barrier -> cands
                 [] setting.barrier /\ MayAdvance /\ target <= Len(stages) -> StagePlans(target)
                 [] OTHER -> <<>>
    /\ pc' = "adopt"
    /\ UNCHANGED <<mainVars, finished, cands, target, planVars, launched, keep,
                   older, newer, left, avail, resultVars>>

(* The second loop, over the candidates: a plan its model already runs on   *)
(* goes on, on the same GPUs; the others wait for the third loop.           *)
Sames(p) == {k \in DOMAIN launched : Plan(launched[k]) = Plan(p)}

AdoptPlan ==
    LET p == Head(rest)
    IN  /\ pc = "adopt" /\ rest # <<>>
        /\ rest' = Tail(rest)
        /\ \/ /\ ModelOf(p) \in finished
              /\ flagged' = flagged \cup {p}
              /\ UNCHANGED <<keep, newer, gpus>>
           \/ /\ ModelOf(p) \notin finished /\ ~NeedsPrepare(p)
              /\ Sames(p) # {}
              /\ flagged' = flagged \cup {p}
              /\ keep' = Append(keep, p)
              /\ gpus' = [gpus EXCEPT ![p] = gpus[launched[Max(Sames(p))]]]
              /\ newer' = newer
           \/ /\ ModelOf(p) \notin finished /\ NeedsPrepare(p)
              /\ newer' = Append(newer, p)
              /\ UNCHANGED <<keep, planVars>>
        /\ UNCHANGED <<mainVars, finished, cands, target, pc, launched, older, left,
                       avail, nextStage, resultVars>>

Adopted ==
    /\ pc = "adopt" /\ rest = <<>>
    /\ avail' = Only([g \in 1 .. TotGpu |-> g - 1], GPU \ GpusIn(keep))
    /\ rest' = newer
    /\ pc' = "load"
    /\ UNCHANGED <<mainVars, finished, cands, target, planVars, launched, keep,
                   older, newer, left, nextStage, resultVars>>

(* _try_to_load_exec_plans, first for the new plans, then for the older     *)
(* ones: of the plans whose inputs are not in the list any more, the one    *)
(* on most GPUs (plain LightRule: the first) ...                            *)
Roots == {k \in DOMAIN rest : Inputs[ModelOf(rest[k])] \cap ModelsIn(rest) = {}}
Rank(k) == IF setting.light THEN <<-k>>
           ELSE <<Size(rest[k]), Plan(rest[k]).workers, -k>>
Pick == CHOOSE k \in Roots : \A h \in Roots \ {k} : Before(Rank(k), Rank(h))

(* ... is kept on its GPUs or put on the first free ones, if they suffice.  *)
Fits(p) == Size(p) <= Len(avail)

Taken(p) == ModelOf(p) \in ModelsIn(keep)

LoadPlan ==
    LET p == rest[Pick]
    IN  /\ pc \in {"load", "reload"} /\ rest # <<>>
        /\ rest' = RemoveAt(rest, Pick)
        /\ \/ Taken(p) /\ UNCHANGED <<keep, avail, left, planVars>>
           \/ /\ ~Taken(p) /\ Fits(p) /\ p \in flagged
              /\ keep' = Append(keep, p)
              /\ avail' = Only(avail, GPU \ ToSet(gpus[p]))
              /\ UNCHANGED <<left, planVars>>
           \/ /\ ~Taken(p) /\ Fits(p) /\ p \notin flagged
              /\ keep' = Append(keep, p)
              /\ flagged' = flagged \cup {p}
              /\ gpus' = [gpus EXCEPT ![p] = FirstOf(avail, Size(p))]
              /\ avail' = SubSeq(avail, Size(p) + 1, Len(avail))
              /\ left' = left
           \/ /\ ~Taken(p) /\ ~Fits(p)
              /\ left' = IF p \in flagged THEN left ELSE Append(left, p)
              /\ UNCHANGED <<keep, avail, planVars>>
        /\ UNCHANGED <<mainVars, finished, cands, target, pc, launched, older, newer,
                       nextStage, resultVars>>

(* New plans are left over, or the next stage is not due: is there room for *)
(* the older plans?                                                         *)
LeftOver_Never == FALSE
LeftOver == left # <<>> \/ ~nextStage

Reload ==
    /\ pc = "load" /\ rest = <<>> /\ LeftOver
    /\ rest' = older
    /\ pc' = "reload"
    /\ UNCHANGED <<mainVars, finished, cands, target, planVars, listVars, resultVars>>

Reloaded ==
    /\ pc = "reload" /\ rest = <<>>
    /\ cands' = left
    /\ pc' = "place"
    /\ UNCHANGED <<mainVars, finished, target, planVars, rest, listVars, resultVars>>

(* Otherwise the stage is complete: go on to the next, at once if one of    *)
(* the models of this one has already finished (_has_model_finished).       *)
HasFinished(i) == \E j \in DOMAIN stages[i] : stages[i][j].model \in finished

Advance ==
    /\ pc = "load" /\ rest = <<>> /\ ~LeftOver
    /\ target' = target + 1
    /\ cands' = IF target < Len(stages) THEN StagePlans(target + 1) ELSE <<>>
    /\ IF target < Len(stages) /\ HasFinished(target)
       THEN Enter(keep) /\ UNCHANGED <<avail, nextStage>>
       ELSE pc' = "place" /\ UNCHANGED <<rest, listVars>>
    /\ UNCHANGED <<mainVars, finished, planVars, resultVars>>

----------------------------------------------------------------------------
(* _adjust_comp_gpus_for_current_launched_exec_plans.                       *)

Runs(plan) == \E k \in DOMAIN running : Plan(running[k]) = plan
Stay == {p \in ToSet(keep) : Runs(Plan(p))}
OldGpus(p) == gpus[running[CHOOSE k \in DOMAIN running : Plan(running[k]) = Plan(p)]]

(* A plan that stays and whose workers fill whole units keeps them; the     *)
(* units of the others, in an order that the cost of loading decides, their *)
(* free GPUs first, are dealt out again.                                    *)
Fixed == {p \in Stay : Plan(p).workers >= Unit}
FreeUnits == {u \in 0 .. TotGpu \div Unit - 1 :
                 \A p \in Fixed : \A g \in ToSet(OldGpus(p)) : g \div Unit # u}
UnitGpus_FromOne(u) == [k \in 1 .. Unit |-> u * Unit + k]
UnitGpus(u) ==
    LET busy == UNION {ToSet(OldGpus(p)) : p \in Stay}
        all == [k \in 1 .. Unit |-> u * Unit + k - 1]
    IN  Only(all, GPU \ busy) \o Only(all, busy)

(* It can keep its GPUs when they are free and no worker group crosses a    *)
(* unit; otherwise, like a new plan, it takes the first that are free.      *)
InUnits(p, list) ==
    \A d \in 0 .. Plan(p).dp - 1 :
        \A a, b \in d * Plan(p).workers + 1 .. (d + 1) * Plan(p).workers :
            list[a] \div Unit = list[b] \div Unit
Keepable(p, free) ==
    p \in Stay /\ ToSet(OldGpus(p)) \subseteq ToSet(free) /\ InUnits(p, OldGpus(p))

Without_Nothing(free, used) == free
Without(free, used) == Only(free, GPU \ used)

Placed(free, p) ==
    IF Keepable(p, free) THEN OldGpus(p) ELSE FirstOf(free, Size(p))

(* A running plan that cannot keep its GPUs is stopped and launched anew.   *)
Moved_Never(free, p) == FALSE
Moved(free, p) == p \in Stay /\ ~Keepable(p, free)

(* The plans get their GPUs in this order.                                  *)
Order_Smallest == Sorted(Only(keep, ToSet(keep) \ Fixed), LAMBDA p : <<-Size(p)>>)
Order == Sorted(Sorted(Only(keep, ToSet(keep) \ Fixed), LAMBDA p : <<-Plan(p).workers>>),
    LAMBDA p : <<Plan(p).workers, Bit(p \in Stay), Bit(Size(p) % Unit = 0), Size(p)>>)

Deal(a, p) ==
    [free |-> Without(a.free, ToSet(Placed(a.free, p))),
     gpus |-> [a.gpus EXCEPT ![p] = Placed(a.free, p)],
     moved |-> IF Moved(a.free, p) THEN a.moved \cup {p} ELSE a.moved]
Assignment(units) ==
    FoldLeft(Deal,
             [free |-> FlattenSeq([i \in DOMAIN units |-> UnitGpus(units[i])]),
              gpus |-> [p \in DOMAIN gpus |-> IF p \in Fixed THEN OldGpus(p) ELSE gpus[p]],
              moved |-> {}],
             Order)

(* The models whose plans do not go on.                                     *)
Dropped ==
    {ModelOf(running[k]) : k \in {h \in DOMAIN running :
        \A p \in ToSet(keep) : Plan(p) # Plan(running[h])}}

Place ==
    /\ pc = "place" /\ FreeUnits # {}
    /\ \E units \in SetToSeqs(FreeUnits) :
          LET result == Assignment(units)
          IN  /\ gpus' = result.gpus
              /\ newLaunch' = (ToSet(keep) \ Stay) \cup result.moved
              /\ toStop' = Dropped \cup {ModelOf(p) : p \in result.moved}
    /\ running' = keep
    /\ pc' = "start"
    /\ UNCHANGED <<stages, setting, returned, finished, cands, target, flagged, rest,
                   listVars>>

(* np.concatenate raises when the plans that stay fill every unit.          *)
NoUnitFree ==
    /\ pc = "place" /\ FreeUnits = {}
    /\ pc' = "noUnit"
    /\ UNCHANGED <<mainVars, finished, cands, target, planVars, rest, listVars, resultVars>>

(* The models are stopped and, when the scheduler has heard from them, the  *)
(* new plans started; what has answered its last request sets its finish    *)
(* status before its event.  start_exec_plans gives up when a plan has not  *)
(* got all its GPUs.                                                        *)
AllPlaced == \A p \in newLaunch : Len(gpus[p]) = Size(p)

Start ==
    /\ pc = "start"
    /\ Upstream(finished) \cap toStop \subseteq finished
    /\ pc' = CASE ~AllPlaced -> "failed" [] AllPlaced /\ returned = Planned(stages) -> "end"
               [] OTHER -> "wait"
    /\ UNCHANGED <<mainVars, finished, cands, target, planVars, rest, listVars, resultVars>>

Terminated == pc \in {"end", "failed", "noUnit"} /\ UNCHANGED vars

Round ==
    \/ Begin \/ KeepPlan \/ Kept \/ AdoptPlan \/ Adopted \/ LoadPlan
    \/ Reload \/ Reloaded \/ Advance \/ Place \/ NoUnitFree \/ Start

Next ==
    \/ Round
    \/ \E m \in Model : Finish(m)
    \/ Terminated

Spec == Init /\ [][Next]_vars
=============================================================================
