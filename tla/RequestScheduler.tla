-------------------------- MODULE RequestScheduler --------------------------
(***************************************************************************)
(* One engine serving its requests: the iteration-level scheduler           *)
(* (vllm/core/scheduler.py) on top of the block manager, the processing of  *)
(* the sampled tokens (LLMEngine.step in vllm/engine/llm_engine.py) and the *)
(* hand-over of unfinished requests when the engine is stopped.             *)
(*                                                                          *)
(* LLMEngine.step runs in one thread.  Its loops are unrolled into one      *)
(* action per iteration; `phase` is the place in step():                    *)
(*   idle     between two steps       admit    admitting prompts            *)
(*   decode   giving slots, preempting         swapin   resuming            *)
(*   outputs  processing the samples  failed   an exception was raised      *)
(* Requests are numbered in the order of their arrival.  Tokens are counted,*)
(* not represented; which sequences stop, and which beams survive, is left  *)
(* open.  LoRA is off.                                                      *)
(***************************************************************************)
EXTENDS BlockManager

CONSTANT
  Engines  \* configurations: block counts, limits and the requests to come

\* SamplingParams: a prompt is continued at least once, by at least one token.
ASSUME EngineAssumption ==
  \A e \in Engines :
    /\ e.groups \in Seq([prompt : Nat, max : Nat \ {0}, best : Nat \ {0}, beam : BOOLEAN, stops : BOOLEAN])
    /\ e.blockSize \in Nat \ {0} /\ e.restarts \in Nat
    /\ {e.gpu, e.watermark, e.window, e.maxModelLen, e.maxTokens} \subseteq Nat

VARIABLES
  seqs,       \* the sequences of each group, in the order of seqs_dict
  answers,    \* how often step() returned each group as finished
  aborted,    \* the groups aborted by the caller
  waiting, running, swapped,  \* the three queues of the scheduler
  phase,      \* the place in LLMEngine.step
  kept,       \* groups of this step's decode loop that got their slots
  scheduled,  \* the groups of this step
  ignored,    \* the groups this step found too long
  todo,       \* scheduled groups whose samples are still to be processed
  promptRun,  \* whether this step runs prompts
  preempted,  \* whether this step preempted a group
  restarts    \* how often the requests were handed to a new engine

queues == <<waiting, running, swapped>>
stepVars == <<kept, scheduled, ignored, todo, promptRun, preempted>>
vars == <<engine, pool, seqs, answers, aborted, queues, phase, stepVars, restarts>>

----------------------------------------------------------------------------
(* Sequences and groups (vllm/sequence.py).                                 *)
Sampling(g) == engine.groups[g]
Pick(list, I) == [k \in 1 .. Cardinality(I) |-> list[Ascending(I)[k]]]
Having(g, status) == {i \in DOMAIN seqs[g] : seqs[g][i].status = status}
With(g, status) == Pick(seqs[g], Having(g, status))
NumSeqs(g, status) == Cardinality(Having(g, status))
NumUnfinished(g) == Len(seqs[g]) - NumSeqs(g, "finished")
GroupFinished(g) == NumUnfinished(g) = 0
Finished == [status |-> "finished", len |-> 0, table |-> <<>>]

\* get_max_num_running_seqs
MaxRunning(g) ==
  IF Sampling(g).beam \/ Sampling(g).best > Len(seqs[g]) THEN Sampling(g).best
  ELSE NumUnfinished(g)
SumMaxRunning(queue) == FoldLeft(LAMBDA n, g : n + MaxRunning(g), 0, queue)

Sorted(queue) == Ascending(Range(queue))
Entries(list) == FlattenSeq([i \in DOMAIN list |-> list[i].table])
Relabel(list, from, to) ==
  [i \in DOMAIN list |-> IF list[i].status = from THEN [list[i] EXCEPT !.status = to] ELSE list[i]]

\* An exception of the block manager leaves step() and ends the engine.
Goto(place) == phase' = IF pool'.error = "none" THEN place ELSE "failed"

----------------------------------------------------------------------------
Init ==
  /\ engine \in Engines
  /\ pool = NewPool(engine)
  /\ seqs = <<>> /\ answers = <<>> /\ aborted = {}
  /\ waiting = <<>> /\ running = <<>> /\ swapped = <<>>
  /\ phase = "idle"
  /\ kept = <<>> /\ scheduled = <<>> /\ ignored = <<>> /\ todo = <<>>
  /\ promptRun = FALSE /\ preempted = FALSE
  /\ restarts = 0

\* LLMEngine.add_request, between two steps.
AddRequest ==
  LET g == Len(seqs) + 1 IN
  /\ phase = "idle" /\ g \in DOMAIN engine.groups
  /\ seqs' = Append(seqs, <<[status |-> "waiting", len |-> Sampling(g).prompt, table |-> <<>>]>>)
  /\ answers' = Append(answers, 0)
  /\ waiting' = Append(waiting, g)
  /\ UNCHANGED <<engine, pool, aborted, running, swapped, phase, stepVars, restarts>>

\* LLMEngine.abort_request
Without(queue, g) == Pick(queue, {i \in DOMAIN queue : queue[i] # g})

Abort(g) ==
  /\ phase = "idle" /\ g \in engine.aborts
  /\ g \in Range(waiting) \cup Range(running) \cup Range(swapped)
  /\ waiting' = Without(waiting, g)
  /\ running' = Without(running, g)
  /\ swapped' = Without(swapped, g)
  /\ pool' = Give(pool, Entries(seqs[g]))
  /\ seqs' = [seqs EXCEPT ![g] = [i \in DOMAIN @ |-> Finished]]
  /\ aborted' = aborted \cup {g}
  /\ Goto("idle")
  /\ UNCHANGED <<engine, answers, stepVars, restarts>>

----------------------------------------------------------------------------
(* Scheduler.schedule                                                       *)
AllEntries == FlattenSeq([g \in DOMAIN seqs |-> Entries(seqs[g])])
Load == IF waiting = <<>> THEN LayersToLoad(pool) ELSE 0

\* Weights may first take the place of KV blocks; nothing is admitted while
\* a group is swapped out.
BeginStep ==
  /\ phase = "idle" /\ waiting \o running \o swapped # <<>>
  /\ IF Load > 0
     THEN LET to == Rewritten(pool, Load) IN
          /\ pool' = Reorganize(pool, Load, AllEntries)
          /\ seqs' = [g \in DOMAIN seqs |-> RenamedAll(seqs[g], to)]
     ELSE UNCHANGED <<pool, seqs>>
  /\ phase' = IF swapped = <<>> THEN "admit" ELSE "decode"
  /\ running' = IF swapped = <<>> THEN running ELSE Sorted(running)
  /\ kept' = <<>> /\ scheduled' = <<>> /\ ignored' = <<>> /\ preempted' = FALSE
  /\ UNCHANGED <<engine, answers, aborted, waiting, swapped, todo, promptRun, restarts>>

----------------------------------------------------------------------------
(* _schedule: prompts.                                                      *)
PromptLimit_OneLess == engine.maxModelLen - 1

PromptLimit ==
  IF engine.maxModelLen < engine.maxTokens THEN engine.maxModelLen ELSE engine.maxTokens
Prompt(g) == With(g, "waiting")[1]
TooLong(g) == Prompt(g).len > PromptLimit

\* The prompts of a step are padded to the longest of them.
FitsBatch(g) ==
  LET lens == Append([i \in DOMAIN scheduled |-> With(scheduled[i], "running")[1].len],
                     Prompt(g).len)
      batched == Len(lens) * Max(Range(lens))
  IN /\ batched <= engine.maxTokens
     /\ SumMaxRunning(running) + MaxRunning(g) <= engine.maxSeqs
     /\ batched - FoldLeft(+, 0, lens) <= engine.maxPaddings

Ignores(g) == TooLong(g) \/ CanAllocate(pool, Prompt(g)) = "never"
Admits(g) == ~Ignores(g) /\ CanAllocate(pool, Prompt(g)) = "ok" /\ FitsBatch(g)
HasOnePrompt(g) == NumSeqs(g, "waiting") = 1

\* assert len(waiting_seqs) == 1
AdmitFails ==
  /\ phase = "admit" /\ waiting # <<>> /\ ~HasOnePrompt(Head(waiting))
  /\ pool' = Raise(pool, "assertion") /\ phase' = "failed"
  /\ UNCHANGED <<engine, seqs, answers, aborted, queues, stepVars, restarts>>

Ignore ==
  /\ phase = "admit" /\ waiting # <<>> /\ HasOnePrompt(Head(waiting))
  /\ LET g == Head(waiting) IN
     /\ Ignores(g)
     /\ seqs' = [seqs EXCEPT ![g] = Relabel(@, "waiting", "finished")]
     /\ ignored' = Append(ignored, g)
  /\ waiting' = Tail(waiting)
  /\ UNCHANGED <<engine, pool, answers, aborted, running, swapped, phase, kept, scheduled,
                 todo, promptRun, preempted, restarts>>

Admit ==
  /\ phase = "admit" /\ waiting # <<>> /\ HasOnePrompt(Head(waiting))
  /\ LET g == Head(waiting)
         got == Allocate(pool, Prompt(g), Len(seqs[g]))
     IN /\ Admits(g)
        /\ pool' = got.pool
        /\ seqs' = [seqs EXCEPT ![g] =
             Relabel(Tabled(@, [i \in Having(g, "waiting") |-> got.table]), "waiting", "running")]
        /\ running' = Append(running, g)
        /\ scheduled' = Append(scheduled, g)
  /\ waiting' = Tail(waiting)
  /\ UNCHANGED <<engine, answers, aborted, swapped, phase, kept, ignored, todo, promptRun,
                 preempted, restarts>>

EndAdmission ==
  /\ phase = "admit"
  /\ waiting # <<>> => /\ HasOnePrompt(Head(waiting))
                       /\ ~Ignores(Head(waiting)) /\ ~Admits(Head(waiting))
  /\ IF scheduled \o ignored # <<>>
     THEN phase' = "outputs" /\ promptRun' = TRUE /\ todo' = scheduled
          /\ UNCHANGED running
     ELSE phase' = "decode" /\ running' = Sorted(running) /\ UNCHANGED <<promptRun, todo>>
  /\ UNCHANGED <<engine, pool, seqs, answers, aborted, waiting, swapped, kept, scheduled,
                 ignored, preempted, restarts>>

----------------------------------------------------------------------------
(* _schedule: a slot for the next token of every running sequence.          *)
Requeue_AtEnd(g) == Append(waiting, g)
Requeue(g) == <<g>> \o waiting

\* _preempt_by_recompute
Recompute(g) ==
  /\ MaxRunning(g) = 1
  /\ IF NumSeqs(g, "running") # 1
     THEN pool' = Raise(pool, "assertion") /\ UNCHANGED <<seqs, waiting>>
     ELSE /\ pool' = Give(pool, With(g, "running")[1].table)
          /\ seqs' = [seqs EXCEPT ![g] =
               Relabel(Tabled(@, [i \in Having(g, "running") |-> <<>>]), "running", "waiting")]
          /\ waiting' = Requeue(g)
  /\ UNCHANGED swapped

\* _preempt_by_swap
SwapOut(g) ==
  LET moved == SwapTo("cpu", pool, Entries(With(g, "running"))) IN
  /\ MaxRunning(g) # 1
  /\ IF ~CanSwapOut(pool, seqs[g])
     THEN pool' = Raise(pool, "no swap space") /\ UNCHANGED <<seqs, swapped>>
     ELSE /\ pool' = moved.pool
          /\ seqs' = [seqs EXCEPT ![g] = Relabel(RenamedAll(@, moved.to), "running", "swapped")]
          /\ swapped' = Append(swapped, g)
  /\ UNCHANGED waiting

CanAppend(g) == CanAppendSlot(pool, NumSeqs(g, "running"))

GiveSlots ==
  /\ phase = "decode" /\ running # <<>> /\ CanAppend(Head(running))
  /\ LET g == Head(running)
         got == AppendSlots(pool, seqs[g])
     IN /\ pool' = got.pool
        /\ seqs' = [seqs EXCEPT ![g] = got.list]
        /\ kept' = Append(kept, g)
  /\ running' = Tail(running)
  /\ Goto("decode")
  /\ UNCHANGED <<engine, answers, aborted, waiting, swapped, scheduled, ignored, todo,
                 promptRun, preempted, restarts>>

\* The last group of the queue makes room; the head itself when it is alone.
Preempt ==
  /\ phase = "decode" /\ running # <<>> /\ ~CanAppend(Head(running))
  /\ Recompute(Last(running)) \/ SwapOut(Last(running))
  /\ running' = Front(running)
  /\ preempted' = TRUE
  /\ Goto("decode")
  /\ UNCHANGED <<engine, answers, aborted, kept, scheduled, ignored, todo, promptRun, restarts>>

EndDecode ==
  /\ phase = "decode" /\ running = <<>>
  /\ running' = kept /\ kept' = <<>>
  /\ swapped' = Sorted(swapped)
  /\ phase' = IF preempted THEN "outputs" ELSE "swapin"
  /\ promptRun' = FALSE
  /\ scheduled' = IF preempted THEN kept ELSE scheduled
  /\ todo' = IF preempted THEN kept ELSE todo
  /\ UNCHANGED <<engine, pool, seqs, answers, aborted, waiting, ignored, preempted,
                 restarts>>

----------------------------------------------------------------------------
(* _schedule: swapped groups come back in the order of their arrival.       *)
Resumes(g) ==
  /\ CanSwapIn(pool, seqs[g], NumSeqs(g, "swapped"))
  /\ SumMaxRunning(running) + MaxRunning(g) <= engine.maxSeqs

SwapIn ==
  /\ phase = "swapin" /\ swapped # <<>> /\ Resumes(Head(swapped))
  /\ LET g == Head(swapped)
         moved == SwapTo("gpu", pool, Entries(With(g, "swapped")))
         back == Relabel(RenamedAll(seqs[g], moved.to), "swapped", "running")
         got == AppendSlots(moved.pool, back)
     IN /\ pool' = got.pool
        /\ seqs' = [seqs EXCEPT ![g] = got.list]
        /\ running' = Append(running, g)
  /\ swapped' = Tail(swapped)
  /\ Goto("swapin")
  /\ UNCHANGED <<engine, answers, aborted, waiting, kept, scheduled, ignored, todo,
                 promptRun, preempted, restarts>>

EndSwapIn ==
  /\ phase = "swapin" /\ (swapped # <<>> => ~Resumes(Head(swapped)))
  /\ phase' = "outputs"
  /\ scheduled' = running /\ todo' = running
  /\ UNCHANGED <<engine, pool, seqs, answers, aborted, queues, kept, ignored, promptRun,
                 preempted, restarts>>

----------------------------------------------------------------------------
(* _process_model_outputs                                                   *)
\* _check_stop: the limits on the length of a sequence.
AtLimit(g, len) == len > engine.maxModelLen \/ len - Sampling(g).prompt = Sampling(g).max
Parents(g) == Having(g, "running")
Grown(s) == [s EXCEPT !.len = @ + 1]
GrownAll(list) == [i \in DOMAIN list |-> Grown(list[i])]

\* Sampling without beam search: a prompt is continued best_of times, a
\* sequence once; a child shares the blocks of its parent.
Sample(g) ==
  LET list == seqs[g]
      forks == IF promptRun THEN Sampling(g).best - 1 ELSE 0
      young == [k \in 1 .. forks |-> list[Min(Parents(g))]]
      old == {i \in DOMAIN list : list[i].status = "finished"}
      after == [i \in DOMAIN (list \o young) |-> IF i \in old THEN list[i] ELSE Grown((list \o young)[i])]
      limit == {i \in DOMAIN after \ old : AtLimit(g, after[i].len)}
  IN /\ ~Sampling(g).beam
     /\ \E fin \in SUBSET (DOMAIN after \ old) :
          /\ limit \subseteq fin /\ (Sampling(g).stops \/ fin = limit)
          /\ pool' = Give(Share(pool, Entries(Pick(after, (DOMAIN after \ DOMAIN list) \ fin))),
                          Entries(Pick(list, DOMAIN list \cap fin)))
          /\ seqs' = [seqs EXCEPT ![g] =
               [i \in DOMAIN after |-> IF i \in fin THEN Finished ELSE after[i]]]

\* Beam search: of the twice best_of candidates at most best_of go on.
\* kids[i] of them continue parent i, one as the parent itself if i is in own.
BeamStep(g) ==
  LET list == seqs[g]
      width == Sampling(g).best
      done == NumSeqs(g, "finished")
      limit == \E i \in Parents(g) : AtLimit(g, list[i].len + 1)
      order == Ascending(Parents(g))
  IN /\ Sampling(g).beam
     /\ \E kids \in [Parents(g) -> 0 .. IF limit THEN 0 ELSE width],
           own \in SUBSET Parents(g), fin \in done .. width :
          LET alive == SumFunction(kids)
              forks(i) == kids[i] - (IF i \in own THEN 1 ELSE 0)
              young == FlattenSeq([j \in DOMAIN order |-> [k \in 1 .. forks(order[j]) |-> list[order[j]]]])
          IN /\ \A i \in own : kids[i] > 0
             /\ alive <= width
             /\ ~limit /\ ~Sampling(g).stops => alive = width /\ fin = done
             /\ alive < width => fin = width
             /\ pool' = Give(Share(pool, Entries(young)), Entries(Pick(list, Parents(g) \ own)))
             /\ seqs' = [seqs EXCEPT ![g] =
                  [k \in 1 .. fin |-> Finished] \o GrownAll(Pick(list, own) \o young)]

ProcessGroup ==
  /\ phase = "outputs" /\ todo # <<>>
  /\ Sample(Head(todo)) \/ BeamStep(Head(todo))
  /\ todo' = Tail(todo)
  /\ Goto("outputs")
  /\ UNCHANGED <<engine, answers, aborted, queues, kept, scheduled, ignored, promptRun,
                 preempted, restarts>>

\* Finished groups leave the scheduler and are returned by step().
EndStep ==
  /\ phase = "outputs" /\ todo = <<>>
  /\ running' = Pick(running, {i \in DOMAIN running : ~GroupFinished(running[i])})
  /\ answers' = [g \in DOMAIN answers |->
                   IF g \in Range(scheduled \o ignored) /\ GroupFinished(g) THEN answers[g] + 1
                   ELSE answers[g]]
  /\ phase' = "idle"
  /\ scheduled' = <<>> /\ ignored' = <<>>
  /\ promptRun' = FALSE /\ preempted' = FALSE
  /\ UNCHANGED <<engine, pool, seqs, aborted, waiting, swapped, kept, todo, restarts>>

----------------------------------------------------------------------------
Handover_NoSwapped == running \o waiting
Handover == running \o waiting \o swapped

\* LLM._run_engine stops and get_unfinished_seqs collects the requests left;
\* a new engine starts with them in its waiting queue.
Restart ==
  /\ phase = "idle" /\ restarts < engine.restarts
  /\ running \o waiting \o swapped # <<>>
  /\ IF \E g \in Range(running) : NumSeqs(g, "running") > 1
     THEN pool' = Raise(pool, "assertion") /\ phase' = "failed" /\ UNCHANGED <<seqs, queues>>
     ELSE /\ waiting' = Handover
          /\ running' = <<>> /\ swapped' = <<>>
          /\ seqs' = [g \in DOMAIN seqs |->
               Relabel(Tabled(seqs[g], [i \in DOMAIN seqs[g] |-> <<>>]), "running", "waiting")]
          /\ pool' = NewPool(engine)
          /\ UNCHANGED phase
  /\ restarts' = restarts + 1
  /\ UNCHANGED <<engine, answers, aborted, stepVars>>

----------------------------------------------------------------------------
Step ==
  \/ BeginStep
  \/ AdmitFails \/ Ignore \/ Admit \/ EndAdmission
  \/ GiveSlots \/ Preempt \/ EndDecode
  \/ SwapIn \/ EndSwapIn
  \/ ProcessGroup \/ EndStep

\* The engine has answered all its requests, or was ended by an exception.
Terminated ==
  /\ phase = "failed" \/ (phase = "idle" /\ waiting \o running \o swapped = <<>>)
  /\ UNCHANGED vars

Next == AddRequest \/ (\E g \in DOMAIN seqs : Abort(g)) \/ Step \/ Restart \/ Terminated

Spec == Init /\ [][Next]_vars

\* LLM._run_engine calls step() while requests are unfinished.  Weak fairness
\* of Step, with its enabling condition spelled out.
Busy == IF phase = "idle" THEN waiting \o running \o swapped # <<>> ELSE phase # "failed"
FairSpec == Spec /\ ([]<>(~Busy) \/ []<><<Step>>_vars)
=============================================================================
