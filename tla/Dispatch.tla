------------------------------ MODULE Dispatch ------------------------------
(***************************************************************************)
(* What the communicator is for: every request of every base model is given *)
(* to one worker once the outputs it is made of exist, may move between     *)
(* workers of its model when the model is launched again, and is answered   *)
(* once.  The module knows nothing of queues, counters, strides or locks.   *)
(***************************************************************************)
EXTENDS Integers, Sequences, FiniteSets

CONSTANTS
    Base, Dummy,   \* the dataflow graph
    Srcs,          \* base model -> its sources
    DummyIds,      \* dummy node -> the requests loaded into it
    Joined,        \* the base models whose inputs need all their sources
    Id, InpIds,    \* the requests
    OutputOf,      \* [base, id]: the outputs of a base model id is a part of
    Feeds,         \* [to, from, output id] -> input ids of to
    Worker, WorkersFor  \* the workers that may serve a base model

VARIABLE job       \* base -> id -> the set of workers it is with, or Answered
Answered == {<<>>}    \* with no worker any more
Untaken == {}

Produced(from, g) ==
    IF from \in Dummy
    THEN \E k \in DOMAIN DummyIds[from] : DummyIds[from][k] = g
    ELSE /\ \E i \in InpIds[from] : OutputOf[from, i] = g
         /\ \A i \in InpIds[from] : OutputOf[from, i] = g => job[from][i] = Answered

Fed(m, from, i) == \E g \in Id : i \in Feeds[m, from, g] /\ Produced(from, g)
Ready(m, i) ==
    LET sources == {Srcs[m][k] : k \in DOMAIN Srcs[m]}
    IN  IF m \in Joined THEN \A from \in sources : Fed(m, from, i)
                        ELSE \E from \in sources : Fed(m, from, i)

Init == job = [m \in Base |-> [i \in Id |-> Untaken]]

(* A worker takes requests that are ready and that nobody has.              *)
Take(m, w, S) ==
    /\ S # {} /\ w \in WorkersFor[m]
    /\ \A i \in S : i \in InpIds[m] /\ job[m][i] = Untaken /\ Ready(m, i)
    /\ job' = [job EXCEPT ![m] = [i \in Id |-> IF i \in S THEN {w} ELSE @[i]]]

(* A worker answers requests it has.                                        *)
Answer(m, w, S) ==
    /\ S # {}
    /\ \A i \in S : job[m][i] = {w}
    /\ job' = [job EXCEPT ![m] = [i \in Id |-> IF i \in S THEN Answered ELSE @[i]]]

(* A launch deals the requests of a model's workers out again: they stay    *)
(* taken, each with one worker.                                             *)
Redeal(M) ==
    job' \in [Base -> [Id -> {Untaken, Answered} \cup {{w} : w \in Worker}]] /\
    \A m \in Base : \A i \in Id :
        \/ job'[m][i] = job[m][i]
        \/ /\ m \in M /\ job[m][i] \notin {Untaken, Answered}
           /\ \E w \in WorkersFor[m] : job'[m][i] = {w}

Next ==
    \/ \E m \in Base, w \in Worker, S \in SUBSET Id : Take(m, w, S) \/ Answer(m, w, S)
    \/ \E M \in SUBSET Base : Redeal(M)

Spec == Init /\ [][Next]_job
=============================================================================
