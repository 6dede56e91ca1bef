--------------------------- MODULE MCCoordination ---------------------------
(***************************************************************************)
(* Small systems of model processes for TLC.                                *)
(***************************************************************************)
EXTENDS CoordinationProperties, TLC

CONSTANTS a, b, c, d, g1, g2

(* preemption: three models on two GPUs, c needs the outputs of a           *)
ThreeModels == {a, b, c}
TwoGpus == {g1, g2}
ThreeSources == [m \in ThreeModels |-> IF m = c THEN {a} ELSE {}]
NoColumns == <<>>
NoGpus == <<>>
GpuSymmetry == Permutations(TwoGpus)

(* HybridFlow: modelset 1 runs a and then d, modelset 2 runs b and then c;  *)
(* d judges the outputs of all the others, c needs those of b               *)
FourModels == {a, b, c, d}
FourSources == [m \in FourModels |->
    CASE m = d -> {a, b, c} [] m = c -> {b} [] OTHER -> {}]
TwoColumns == <<<<a, d>>, <<b, c>>>>
ColumnGpus == <<{g1}, {g2}>>
LateEvaluator == {d}
=============================================================================
