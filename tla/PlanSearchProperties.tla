------------------------ MODULE PlanSearchProperties ------------------------
(***************************************************************************)
(* What the search must achieve, whatever the cost model says.              *)
(***************************************************************************)
EXTENDS PlanSearch

Plan == [model : Model, workers : 1 .. Unit, dp : 1 .. TotGpu]

(* Type invariant of the search.                                            *)
TypeOK ==
    /\ <<work, method>> \in Searches
    /\ phase \in {"fuse", "round", "levels", "pick", "stage", "done", "aborted"}
    /\ home \in Seq(Model) /\ Len(home) <= work.models
    /\ fin \subseteq Model /\ spent \subseteq Model \X Model
    /\ sched \in Seq(SUBSET Plan)
    /\ visited \subseteq Model /\ levels \in Seq(SUBSET Model) /\ level \in 0 .. Len(levels) + 1
    /\ /\ checked \in Seq(Model) /\ cand \in Seq(Model) /\ tot \in Seq(Model)
    /\ group \subseteq Plan

(* The schedule is what the stage scheduler takes for granted, and has a    *)
(* plan for every node: a pipelined model is never planned in a stage       *)
(* without its unfinished sources.                                          *)
Stages == [i \in DOMAIN sched |-> SetToSeq(sched[i])]
FeedsTheScheduler ==
    phase = "done" =>
        /\ WellFormed(Stages, [n \in Model |-> IF n \in Nodes THEN NodeInputs(n) ELSE {}])
        /\ Planned(Stages) = Nodes

(* Without preemption a model that is not finished keeps its plan in the    *)
(* next stage, unless a model that did not run was tried on a lower level,  *)
(* or the search stopped at a model that waits for one of its sources:      *)
(* get_all_level_models lets a model with independent sources onto a level  *)
(* when one of them is on a lower one, and the greedy loop ends the stage   *)
(* when that model finds another source neither finished nor planned.       *)
LevelOf(n) == CHOOSE k \in DOMAIN levels : n \in levels[k]
LastTried == IF cand = <<>> THEN {} ELSE {Head(cand)}
Waiting == {n \in LastTried : work.indep[n] /\ ~Runnable(n)}
OvertakenOnlyFromBelow ==
    phase = "stage" /\ method.noPreemption /\ Waiting = {} =>
        \A p \in LastPlans : ~Finished(p.model) /\ p \notin group =>
            \E n \in ToSet(tot) \cup LastTried :
                ~Running(n) /\ LevelOf(n) < LevelOf(p.model)

(* A stage gets a plan at its first try, whichever node is tried first: its *)
(* first level holds nodes that can run.  The one exception is a node with  *)
(* independent sources that has entered that level because its remaining    *)
(* requests read from finished sources only, while another source, which    *)
(* get_runnable_plans_from_cand_plans wants too, is not finished.           *)
NoEmptyStage ==
    phase = "stage" /\ group = {} =>
        \E n \in Waiting : level = 1 /\ UnfinishedSrcs(n) = {}

(* The search ends with a schedule, or where the code aborts it: it never   *)
(* plans more stages than there are nodes, a fused chain                    *)
(* never closes a cycle that get_all_level_models would go round for ever,  *)
(* and no chain is left that the search would fuse and step back for.       *)
SearchEnds == <>(phase \in {"done", "aborted"})
=============================================================================
