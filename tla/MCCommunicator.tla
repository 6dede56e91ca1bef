-------------------------- MODULE MCCommunicator ---------------------------
(***************************************************************************)
(* Small model systems for TLC, one per shape of dataflow graph that        *)
(* schedule_multi_model.py builds, and the properties of the communicator.  *)
(***************************************************************************)
EXTENDS Delivery

(* chain summary: model 1 joins a chunk of its own with model 0's summary   *)
ChainBase == {0, 1}
ChainDummy == {-1, -2}
ChainShared == {0, 1}
ChainBaseOf == [s \in ChainShared |-> <<s>>]
ChainSrcs == [m \in ChainBase |-> IF m = 0 THEN <<-1>> ELSE <<-2, 0>>]
ChainIndependent == [m \in ChainBase |-> FALSE]
ChainId == 0 .. 2
ChainInpIds == [m \in ChainBase |-> IF m = 0 THEN ChainId ELSE {1, 2}]
ChainDummyIds == [n \in ChainDummy |-> IF n = -1 THEN <<0, 1, 2>> ELSE <<1, 2>>]
ChainFeeds == [e \in ChainBase \X (ChainBase \cup ChainDummy) \X ChainId |-> {e[3]}]
ChainPlans == [s \in ChainShared |-> IF s = 0 THEN {1} ELSE {1, 2}]
ChainRounds == [s \in ChainShared |-> IF s = 0 THEN 1 ELSE 2]
NoParts == {}
NoGroups == <<>>

----------------------------------------------------------------------------
(* map-reduce and evaluation: the chunks 0 and 1 of document 0 and the chunk *)
(* 2 of document 1 are summarised by two workers of model 0; the glued      *)
(* summary of document 0 makes two inputs of model 1, each of one source,   *)
(* that of document 1 none, and input 1 of model 1 is a text of its own     *)
(* (inp_req_from_which_model_which_out_reqs)                                *)
ReduceIndependent == [m \in ChainBase |-> m = 1]
ReduceInpIds == [m \in ChainBase |-> {0, 1, 2}]
ReduceDummyIds == [n \in ChainDummy |-> IF n = -1 THEN <<0, 1, 2>> ELSE <<0>>]
ReduceFeeds == [e \in ChainBase \X (ChainBase \cup ChainDummy) \X ChainId |->
    CASE e = <<1, 0, 0>> -> {0, 2}
      [] e = <<1, 0, 1>> -> {}
      [] e = <<1, -2, 0>> -> {1}
      [] OTHER -> {e[3]}]
ReduceParts == {0}
ReduceGroupOf == [m \in ReduceParts |-> [i \in ChainId |-> IF i = 2 THEN 1 ELSE 0]]
ReducePlans == [s \in ChainShared |-> IF s = 0 THEN {2} ELSE {1}]
ReduceRounds == [s \in ChainShared |-> 1]

----------------------------------------------------------------------------
(* vertical fusion: one running model is both stages of a chain, so both    *)
(* base models use the same request ids in the same engines                 *)
FusedShared == {0}
FusedBaseOf == [s \in FusedShared |-> <<0, 1>>]
FusedInpIds == [m \in ChainBase |-> IF m = 0 THEN {0, 1, 2} ELSE {1}]
FusedDummyIds == [n \in ChainDummy |-> IF n = -1 THEN <<0, 1, 2>> ELSE <<1>>]
FusedFeeds == [e \in ChainBase \X (ChainBase \cup ChainDummy) \X ChainId |-> {e[3]}]
FusedPlans == [s \in FusedShared |-> {1, 2}]
FusedRounds == [s \in FusedShared |-> 2]

=============================================================================
