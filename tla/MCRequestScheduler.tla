------------------------- MODULE MCRequestScheduler -------------------------
(***************************************************************************)
(* Small engines for TLC: a few blocks of one or two tokens, so that every  *)
(* request outgrows its first block and the cache runs full.                *)
(***************************************************************************)
EXTENDS RequestSchedulerProperties

R(prompt, max) == [prompt |-> prompt, max |-> max, best |-> 1, beam |-> FALSE, stops |-> FALSE]
Ends(r) == [r EXCEPT !.stops = TRUE]
Parallel(r, n) == [r EXCEPT !.best = n]
Beams(r, n) == [r EXCEPT !.best = n, !.beam = TRUE]

Base ==
  [blockSize |-> 2, gpu |-> 4, cpu |-> 0, watermark |-> 0, window |-> 0,
   cached |-> 0, perLayer |-> 1, segments |-> 4,
   maxModelLen |-> 5, maxTokens |-> 6, maxSeqs |-> 4, maxPaddings |-> 6,
   aborts |-> {}, restarts |-> 0, groups |-> <<>>]

(* One sequence per request: preemption by recomputation, hand-over, limits *)
(* of the batch.                                                            *)
Short == {R(2, 3), R(3, 3), Ends(R(1, 4)), R(4, 2)}
Singles ==
  {[Base EXCEPT !.groups = gs, !.restarts = 1, !.aborts = {2}] : gs \in Short \X Short \X {R(2, 3), R(4, 2)}}
  \cup {[Base EXCEPT !.groups = <<r, R(7, 1), Ends(R(3, 3))>>] : r \in Short}
  \cup {[Base EXCEPT !.groups = <<r, R(7, 1), R(2, 3)>>, !.gpu = 3, !.maxModelLen = 9,
                     !.maxTokens = 9] : r \in Short}
  \cup {[Base EXCEPT !.groups = <<R(2, 3), r, R(4, 2)>>, !.watermark = 1, !.gpu = 5,
                     !.maxSeqs = 2, !.maxPaddings = 1] : r \in Short}

(* Several sequences per request: copy-on-write, swapping, early stopping.  *)
Two == {Parallel(R(3, 3), 2), Parallel(R(2, 3), 2), Beams(R(3, 3), 2), Beams(Ends(R(3, 2)), 2)}
Several ==
  {[Base EXCEPT !.groups = gs, !.gpu = n, !.cpu = 6, !.aborts = {1}] :
     gs \in (Two \X Two) \cup {<<r, R(2, 4), R(1, 3)>> : r \in Two}, n \in {7, 9}}
  \cup {[Base EXCEPT !.groups = <<r, r>>, !.gpu = n, !.cpu = 6, !.restarts = 1] :
     r \in {s \in Two : ~s.stops}, n \in {7, 9}}
  \cup {[Base EXCEPT !.groups = <<r, R(2, 3), r>>, !.gpu = 9, !.cpu = 6, !.maxSeqs = 3] : r \in Two}

(* KV blocks traded for the weights of layers, as long as the longest       *)
(* sequence still fits.                                                     *)
Trading ==
  {[Base EXCEPT !.groups = gs, !.gpu = n, !.cached = c, !.restarts = 1] :
     gs \in Short \X Short, n \in 7 .. 8, c \in {2, 3}}
  \cup {[Base EXCEPT !.groups = <<R(3, 2), R(3, 3), R(2, 4), r>>, !.gpu = n, !.cached = 2,
                     !.maxSeqs = 3] : r \in Short, n \in {6, 7}}

(* One request of a model whose attention reaches back two blocks.          *)
Sliding == {[Base EXCEPT !.groups = <<r>>, !.window = 2, !.gpu = 8, !.maxModelLen = 16,
                         !.maxTokens = 16] : r \in {Ends(R(n, 6)) : n \in 1 .. 6}}

AllEngines == Singles \cup Several \cup Trading
=============================================================================
