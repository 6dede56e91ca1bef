---------------------------- MODULE MCPlanSearch ----------------------------
(***************************************************************************)
(* Small applications for TLC.                                              *)
(***************************************************************************)
EXTENDS PlanSearchProperties

Models == 1 .. 6
Graph(srcs, name, indep, fits) ==
    [models |-> Len(srcs), srcs |-> srcs, name |-> name, indep |-> indep, fits |-> fits]
Sizes(s) == [x \in Models |-> s]
None == [m \in Models |-> FALSE]

(* Every graph of three models with any names and independent sources; a    *)
(* model needs two GPUs or all four.                                        *)
Three ==
    {Graph(<<{}, s2, s3>>, <<1, n2, n3>>, <<FALSE, i2, i3>>, Sizes({2})) :
        s2 \in SUBSET {1}, s3 \in SUBSET {1, 2}, n2 \in {1, 2}, n3 \in 1 .. 3,
        i2 \in BOOLEAN, i3 \in BOOLEAN}

(* Chain summary: every step reads the outputs of all the steps before it   *)
(* and an evaluator those of each step.                                     *)
Summary ==
    Graph(<<{}, {1}, {1, 2}, {1, 2, 3}>>, <<1, 1, 1, 2>>, [None EXCEPT ![4] = TRUE],
          Sizes({1, 2}))

(* Two branches of one root, each two models deep, on one GPU for a model.  *)
Branches == Graph(<<{}, {1}, {1}, {2}, {3}>>, <<1, 2, 3, 4, 5>>, None, Sizes({1}))

(* Branches of which one ends in a model that reads, each on its own, from  *)
(* a source two levels deep and from one three levels deep.                 *)
Uneven ==
    Graph(<<{}, {1}, {1}, {2}, {3}, {4, 5}>>, <<1, 2, 3, 4, 5, 6>>,
          [None EXCEPT ![4] = TRUE, ![6] = TRUE], Sizes({1}))

(* Models that fit on one GPU, need two, or may have either.                *)
Mixed == Graph(<<{}, {}, {1}, {1, 2}>>, <<1, 2, 3, 1>>, None, <<{1}, {2}, {1, 2}, {}, {}, {}>>)

AllMethods == [noPreemption : BOOLEAN, random : BOOLEAN]
Greedy == {m \in AllMethods : ~m.random}
AllSearches ==
    ((Three \cup {Summary}) \X AllMethods) \cup ({Mixed} \X Greedy) \cup
    ({Branches, Uneven} \X {m \in Greedy : m.noPreemption})
=============================================================================
