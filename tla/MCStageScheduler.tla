-------------------------- MODULE MCStageScheduler --------------------------
(***************************************************************************)
(* Small machines and planned stages for TLC.                               *)
(***************************************************************************)
EXTENDS StageSchedulerProperties

CONSTANTS a, b, c, t, w, x, y

P(m, workers, dp) == [model |-> m, workers |-> workers, dp |-> dp]

(* Three models on two pairs of connected GPUs; c needs the outputs of a.   *)
(* The stages use at least three of the GPUs.                               *)
Three == {a, b, c}
Small == {a, b, c, t, x}
SmallInputs == [m \in Small |-> IF m = c THEN {a} ELSE {}]
Shapes == {<<1, 1>>, <<1, 2>>, <<2, 1>>, <<2, 2>>}
Lists(order) ==
    {[i \in DOMAIN order |-> P(order[i], shape[i][1], shape[i][2])] :
        shape \in [DOMAIN order -> Shapes]}
Filling(list) == MapThenSumSet(LAMBDA j : Gpus(list[j]), DOMAIN list) \in 3 .. 4
Stages == {list \in UNION {Lists(o) : o \in {<<a>>, <<b>>, <<c>>, <<a, b>>, <<b, a>>,
                                             <<a, c>>, <<b, c>>, <<a, b, c>>}} : Filling(list)}
Possible(s) == Planned(s) = Three /\ InTime(s, a, c)
TwoStages == {s \in Stages \X Stages : Possible(s)}

(* Three stages without data parallelism that use all the GPUs.             *)
Full == {list \in Stages :
            /\ MapThenSumSet(LAMBDA j : Gpus(list[j]), DOMAIN list) = 4
            /\ \A j \in DOMAIN list : list[j].dp = 1}
ThreeStages == {s \in Full \X Full \X Full : Possible(s)}

(* Four models: a may go on alone when there is room for one new plan only. *)
Crowded ==
    {<<first, second>> :
        first \in {<<P(a, 1, 1), P(t, 1, 1), P(b, 1, 1), P(x, 1, 1)>>,
                   <<P(x, 1, 1), P(b, 1, 1), P(t, 1, 1), P(a, 1, 1)>>},
        second \in {<<P(b, 2, 1), P(x, 2, 1)>>, <<P(x, 1, 2), P(b, 2, 1)>>,
                    <<P(b, 1, 2), P(x, 1, 1)>>, <<P(x, 2, 2)>>, <<P(x, 2, 1), P(b, 1, 1)>>}}
AllSchedules == TwoStages \cup ThreeStages \cup Crowded
AllSettings == {s \in [barrier : BOOLEAN, light : BOOLEAN] : ~(s.barrier /\ s.light)}

----------------------------------------------------------------------------
(* Six models on two groups of four connected GPUs.  When t finishes there  *)
(* are three GPUs for the second stage: enough for w but not for x and y,   *)
(* which would go on as in the first stage.                                 *)
Six == {a, b, t, w, x, y}
NoInputs == [m \in Six |-> {}]
Overload ==
    {<<<<P(a, 4, 1), P(b, 1, 1), P(x, 1, 1), P(y, 1, 1), P(t, 1, 1)>>,
       <<P(x, 4, 1), P(w, 2, 1), P(y, 2, 1)>>>>}
Adjusting == {[barrier |-> FALSE, light |-> FALSE]}
=============================================================================
