----------------------- MODULE RequestScheduler_proofs -----------------------
(***************************************************************************)
(* Proofs about one engine, for every configuration: no request is lost,    *)
(* requests are served in the order of their arrival, and none is rejected  *)
(* after it was given tokens.                                               *)
(***************************************************************************)
EXTENDS RequestSchedulerProperties, FoldTheorems

----------------------------------------------------------------------------
(* The sequences of a group: what the queues have to say about their        *)
(* status.                                                                  *)
Stages == {"waiting", "running", "swapped", "finished"}
IsSeq(s) == {"status", "len"} \subseteq DOMAIN s /\ s.status \in Stages
IsGroup(list) == list \in Seq(Range(list)) /\ \A i \in DOMAIN list : IsSeq(list[i])
LiveIn(list) == {list[i].status : i \in DOMAIN list} \ {"finished"}

(* The same sequences, those with one status given another.                 *)
Turned(list, new, from, to) ==
  /\ DOMAIN new = DOMAIN list /\ new = [i \in DOMAIN list |-> new[i]]
  /\ \A i \in DOMAIN list :
       /\ {"status", "len"} \subseteq DOMAIN new[i]
       /\ new[i].len = list[i].len
       /\ new[i].status = IF list[i].status = from THEN to ELSE list[i].status

(* The sequences of a group that samples in parallel grow together.         *)
Together(list) ==
  \/ LiveIn(list) = {}
  \/ \A i, j \in DOMAIN list : list[i].status # "finished" /\ list[i].len = list[j].len

----------------------------------------------------------------------------
(* The invariant.                                                           *)
IsPool(p) == "error" \in DOMAIN p
Phases == {"idle", "admit", "decode", "swapin", "outputs", "failed"}
QueuesOfGroups ==
  /\ waiting \in Seq(Groups) /\ running \in Seq(Groups) /\ swapped \in Seq(Groups)
  /\ kept \in Seq(Groups) /\ scheduled \in Seq(Groups) /\ ignored \in Seq(Groups)
  /\ todo \in Seq(Groups)
Lists ==
  /\ engine \in Engines /\ restarts \in Nat /\ phase \in Phases /\ IsPool(pool)
  /\ seqs \in Seq(Range(seqs)) /\ Groups \subseteq DOMAIN engine.groups
  /\ \A g \in Groups : IsGroup(seqs[g])
  /\ answers \in [Groups -> {0, 1}] /\ aborted \subseteq Groups
  /\ QueuesOfGroups

(* What a step has done so far at each place.                               *)
InStep ==
  /\ phase \notin {"decode", "failed"} => kept = <<>>
  /\ phase \in {"idle", "decode", "swapin"} => scheduled = <<>> /\ ignored = <<>>
  /\ phase = "admit" => swapped = <<>> /\ IsInjective(scheduled)
  /\ phase \in {"admit", "outputs"} => Range(scheduled) \subseteq Range(running)
  /\ phase = "outputs" => Range(todo) \subseteq Range(scheduled) /\ IsInjective(todo)

(* Every group is in one of six places, and its live sequences are in the   *)
(* stage of that place: it waits, runs, is swapped out, was ignored, was    *)
(* answered or was aborted.                                                 *)
Done(g) == phase = "outputs" /\ g \in Range(scheduled) \ Range(todo)
InPlace(g, n) ==
  /\ g \in Range(waiting) <=> n = 1
  /\ g \in Active <=> n = 2
  /\ g \in Range(swapped) <=> n = 3
  /\ g \in Range(ignored) <=> n = 4
  /\ answers[g] = 1 <=> n = 5
  /\ g \in aborted <=> n = 6
InStage(g, n) ==
  /\ n = 1 => LiveIn(seqs[g]) \in {{"waiting"}, {"swapped"}}
  /\ n = 2 => LiveIn(seqs[g]) = {"running"} \/ (LiveIn(seqs[g]) = {} /\ Done(g))
  /\ n = 3 => LiveIn(seqs[g]) = {"swapped"}
  /\ n > 3 => LiveIn(seqs[g]) = {}
Placed ==
  /\ IsInjective(waiting) /\ IsInjective(running) /\ IsInjective(kept) /\ IsInjective(swapped)
  /\ Range(running) \cap Range(kept) = {}
  /\ \A g \in Groups : \E n \in 1 .. 6 : InPlace(g, n) /\ InStage(g, n)

Inv == Lists /\ InStep /\ (phase # "failed" => Placed)

----------------------------------------------------------------------------
(* The order of arrival, as long as no sequence of a group sampled in       *)
(* parallel stops before the others.                                        *)
Single(g) == Sampling(g).best = 1
Alike(g, h) == Single(g) <=> Single(h)
Sampled ==
  \A g \in Groups : ~Sampling(g).beam =>
    IF Single(g) THEN Len(seqs[g]) = 1 ELSE Together(seqs[g])

InOrder(queue) == \A i, j \in DOMAIN queue : i < j => queue[i] < queue[j]
SortedAtPlace ==
  /\ phase = "decode" => InOrder(running) /\ \A g \in Range(kept), h \in Range(running) : g < h
  /\ phase = "swapin" => InOrder(swapped)
Arrived ==
  /\ \A g \in Range(swapped) : ~Single(g)
  /\ \A i, j \in DOMAIN waiting : i < j /\ Alike(waiting[i], waiting[j]) => waiting[i] < waiting[j]
  /\ \A g \in Active \cup Range(swapped), h \in Range(waiting) : Alike(g, h) => g < h
  /\ \A g \in Active, h \in Range(swapped) : Alike(g, h) => g < h
OrderInv == Sampled /\ SortedAtPlace /\ (restarts = 0 => Arrived)

----------------------------------------------------------------------------
(* The numbers of a finite set in ascending order.                          *)
LEMMA AscendingOf ==
    ASSUME NEW I, I \subseteq Nat, IsFiniteSet(I)
    PROVE  /\ Cardinality(I) \in Nat
           /\ Ascending(I) \in [1 .. Cardinality(I) -> I]
           /\ \A i, j \in 1 .. Cardinality(I) : Ascending(I)[i] = Ascending(I)[j] => i = j
           /\ \A i, j \in 1 .. Cardinality(I) : i < j <=> Ascending(I)[i] < Ascending(I)[j]
           /\ \A x \in I : \E n \in 1 .. Cardinality(I) : Ascending(I)[n] = x
<1> DEFINE R == {ij \in I \X I : ij[1] < ij[2]}
           c == Cardinality(I)
           order == Ascending(I)
<1>1. StrictOrder(R, I)
  BY DEF StrictOrder
<1>2. order = [n \in 1 .. c |-> CHOOSE x \in I : Cardinality({y \in I : y < x}) = n - 1]
  BY DEF Ascending
<1>3. \A x \in I : {y \in I : y < x} = Below(R, I, x)
  BY DEF Below
<1>4. \A n \in 1 .. c : \E x \in I : Cardinality({y \in I : y < x}) = n - 1
  <2> HIDE DEF R
  <2>1. \A n \in 1 .. c : \E x \in I : Cardinality(Below(R, I, x)) = n - 1
    BY ONLY <1>1, IsFiniteSet(I), Ranking
  <2> QED
    BY <1>3, <2>1
<1>5. \A n \in 1 .. c : order[n] \in I /\ Cardinality({y \in I : y < order[n]}) = n - 1
  <2> HIDE DEF order
  <2> QED
    BY <1>2, <1>4
<1>6. order \in [1 .. c -> I]
  <2> HIDE DEF order
  <2> QED
    BY <1>2, <1>5
<1>7. \A n \in 1 .. c : Cardinality(Below(R, I, order[n])) = n - 1
  <2> HIDE DEF order, R
  <2> QED
    BY <1>3, <1>5
<1>8. c \in Nat /\ Arranges(order, R, I)
  <2> HIDE DEF order, R
  <2> QED
    BY ONLY <1>1, <1>6, <1>7, IsFiniteSet(I), PutInOrder
<1>9. \A i, j \in 1 .. c : <<order[i], order[j]>> \in R <=> order[i] < order[j]
  <2> HIDE DEF order
  <2> QED
    BY <1>6
<1> HIDE DEF order, R
<1> QED
  BY <1>8, <1>9 DEF Arranges, order

(* The elements of a list at some places, in their order.                   *)
LEMMA PickOf ==
    ASSUME NEW S, NEW list \in Seq(S), NEW I \in SUBSET DOMAIN list
    PROVE  /\ Pick(list, I) \in Seq(S) /\ Cardinality(I) \in Nat
           /\ DOMAIN Pick(list, I) = 1 .. Cardinality(I)
           /\ Range(Pick(list, I)) = {list[i] : i \in I}
           /\ IsInjective(list) => IsInjective(Pick(list, I))
           /\ \A k, h \in DOMAIN Pick(list, I) : k < h =>
                 \E i, j \in I : i < j /\ Pick(list, I)[k] = list[i] /\ Pick(list, I)[h] = list[j]
<1> DEFINE c == Cardinality(I)
           few == Pick(list, I)
<1>1. I \subseteq Nat /\ IsFiniteSet(I)
  BY FS_Interval, FS_Subset
<1>2. PICK order : order = Ascending(I)
  OBVIOUS
<1>3. /\ c \in Nat /\ order \in [1 .. c -> I]
      /\ \A i, j \in 1 .. c : order[i] = order[j] => i = j
      /\ \A i, j \in 1 .. c : i < j <=> order[i] < order[j]
      /\ \A x \in I : \E n \in 1 .. c : order[n] = x
  BY <1>1, <1>2, AscendingOf
<1>4. few = [k \in 1 .. c |-> list[order[k]]]
  BY <1>2 DEF Pick
<1> HIDE DEF few, c
<1>5. \A k \in 1 .. c : order[k] \in I /\ few[k] = list[order[k]] /\ few[k] \in S
  BY <1>3, <1>4
<1>6. few \in Seq(S) /\ DOMAIN few = 1 .. c
  BY <1>3, <1>4, <1>5
<1>7. Range(few) = {list[i] : i \in I}
  <2>1. \A x \in Range(few) : x \in {list[i] : i \in I}
    BY <1>5, <1>6 DEF Range
  <2>2. \A i \in I : list[i] \in Range(few)
    BY <1>3, <1>5, <1>6 DEF Range
  <2> QED
    BY <2>1, <2>2
<1>8. IsInjective(list) => IsInjective(few)
  BY <1>3, <1>5, <1>6 DEF IsInjective
<1>9. \A k, h \in DOMAIN few : k < h =>
         \E i, j \in I : i < j /\ few[k] = list[i] /\ few[h] = list[j]
  BY <1>3, <1>5, <1>6
<1> QED
  BY <1>3, <1>6, <1>7, <1>8, <1>9 DEF few, c

----------------------------------------------------------------------------
(* What the operations on a queue do to the set of its elements.            *)
LEMMA TailOf ==
    ASSUME NEW S, NEW q \in Seq(S), q # <<>>
    PROVE  /\ Tail(q) \in Seq(S) /\ Head(q) \in S /\ Head(q) = q[1] /\ 1 \in DOMAIN q
           /\ Range(q) = Range(Tail(q)) \cup {Head(q)}
           /\ IsInjective(q) => IsInjective(Tail(q)) /\ Head(q) \notin Range(Tail(q))
           /\ \A k \in DOMAIN Tail(q) : k + 1 \in DOMAIN q /\ Tail(q)[k] = q[k + 1] /\ k + 1 > 1
<1>1. Len(q) \in Nat /\ Len(q) # 0 /\ DOMAIN q = 1 .. Len(q)
  OBVIOUS
<1>2. /\ Tail(q) \in Seq(S) /\ DOMAIN Tail(q) = 1 .. Len(q) - 1
      /\ \A k \in 1 .. Len(q) - 1 : Tail(q)[k] = q[k + 1]
  BY <1>1
<1>3. Head(q) = q[1] /\ 1 \in DOMAIN q /\ Head(q) \in S
  BY <1>1
<1>4. \A k \in DOMAIN Tail(q) : k + 1 \in DOMAIN q /\ Tail(q)[k] = q[k + 1] /\ k + 1 > 1 /\ k \in Nat
  BY <1>1, <1>2
<1>5. \A i \in DOMAIN q : i = 1 \/ (i - 1 \in DOMAIN Tail(q) /\ Tail(q)[i - 1] = q[i])
  <2> TAKE i \in DOMAIN q
  <2>1. i # 1 => i - 1 \in 1 .. Len(q) - 1 /\ (i - 1) + 1 = i
    BY <1>1
  <2> QED
    BY <1>2, <2>1
<1>6. Range(q) = Range(Tail(q)) \cup {Head(q)}
  <2>1. \A x \in Range(q) : x \in Range(Tail(q)) \cup {Head(q)}
    BY <1>3, <1>5 DEF Range
  <2>2. \A x \in Range(Tail(q)) \cup {Head(q)} : x \in Range(q)
    BY <1>3, <1>4 DEF Range
  <2> QED
    BY <2>1, <2>2
<1>7. IsInjective(q) => IsInjective(Tail(q)) /\ Head(q) \notin Range(Tail(q))
  <2> SUFFICES ASSUME IsInjective(q) PROVE IsInjective(Tail(q)) /\ Head(q) \notin Range(Tail(q))
    OBVIOUS
  <2>1. \A i, j \in DOMAIN q : q[i] = q[j] => i = j
    BY DEF IsInjective
  <2>2. \A k, h \in DOMAIN Tail(q) : Tail(q)[k] = Tail(q)[h] => k + 1 = h + 1
    BY <1>4, <2>1
  <2>3. \A k \in DOMAIN Tail(q) : Tail(q)[k] # Head(q)
    BY <1>3, <1>4, <2>1
  <2>4. \A k, h \in DOMAIN Tail(q) : k + 1 = h + 1 => k = h
    BY <1>4
  <2> QED
    BY <2>2, <2>3, <2>4 DEF IsInjective, Range
<1> QED
  BY <1>2, <1>3, <1>4, <1>6, <1>7

LEMMA FrontOf ==
    ASSUME NEW S, NEW q \in Seq(S), q # <<>>
    PROVE  /\ Front(q) \in Seq(S) /\ Last(q) \in S
           /\ Range(q) = Range(Front(q)) \cup {Last(q)}
           /\ IsInjective(q) => IsInjective(Front(q)) /\ Last(q) \notin Range(Front(q))
           /\ Len(q) \in DOMAIN q /\ Last(q) = q[Len(q)]
           /\ \A k \in DOMAIN Front(q) : k \in DOMAIN q /\ Front(q)[k] = q[k] /\ k < Len(q)
<1>1. Len(q) \in Nat /\ Len(q) # 0 /\ DOMAIN q = 1 .. Len(q)
  OBVIOUS
<1>2. PICK f : f = Front(q)
  OBVIOUS
<1>3. /\ f \in Seq(S) /\ DOMAIN f = 1 .. Len(q) - 1
      /\ \A k \in 1 .. Len(q) - 1 : f[k] = q[k]
  <2>1. f = SubSeq(q, 1, Len(q) - 1)
    BY <1>2 DEF Front
  <2>2. /\ SubSeq(q, 1, Len(q) - 1) \in Seq(S) /\ Len(SubSeq(q, 1, Len(q) - 1)) = Len(q) - 1
        /\ \A k \in 1 .. Len(q) - 1 : SubSeq(q, 1, Len(q) - 1)[k] = q[k]
    BY <1>1
  <2> QED
    BY <2>1, <2>2
<1>4. Last(q) = q[Len(q)] /\ Len(q) \in DOMAIN q /\ Last(q) \in S
  BY <1>1 DEF Last
<1>5. \A k \in DOMAIN f : k \in DOMAIN q /\ f[k] = q[k] /\ k < Len(q)
  BY <1>1, <1>3
<1>6. \A i \in DOMAIN q : i = Len(q) \/ (i \in DOMAIN f /\ f[i] = q[i])
  BY <1>1, <1>3
<1>7. Range(q) = Range(f) \cup {Last(q)}
  BY <1>4, <1>5, <1>6 DEF Range
<1>8. IsInjective(q) => IsInjective(f) /\ Last(q) \notin Range(f)
  <2> SUFFICES ASSUME IsInjective(q) PROVE IsInjective(f) /\ Last(q) \notin Range(f)
    OBVIOUS
  <2>1. \A i, j \in DOMAIN q : q[i] = q[j] => i = j
    BY DEF IsInjective
  <2>2. \A k \in DOMAIN f : k # Len(q)
    BY <1>1, <1>5
  <2> QED
    BY <1>4, <1>5, <2>1, <2>2 DEF IsInjective, Range
<1> QED
  BY <1>2, <1>3, <1>4, <1>5, <1>7, <1>8

LEMMA ConcatOf ==
    ASSUME NEW S, NEW p \in Seq(S), NEW q \in Seq(S)
    PROVE  /\ p \o q \in Seq(S)
           /\ Range(p \o q) = Range(p) \cup Range(q)
           /\ IsInjective(p) /\ IsInjective(q) /\ Range(p) \cap Range(q) = {} => IsInjective(p \o q)
           /\ \A k \in DOMAIN (p \o q) :
                 \/ k \in DOMAIN p /\ (p \o q)[k] = p[k]
                 \/ k - Len(p) \in DOMAIN q /\ (p \o q)[k] = q[k - Len(p)] /\ k > Len(p)
<1>1. /\ Len(p) \in Nat /\ Len(q) \in Nat /\ DOMAIN p = 1 .. Len(p) /\ DOMAIN q = 1 .. Len(q)
  OBVIOUS
<1>2. PICK b : b = p \o q
  OBVIOUS
<1>3. /\ b \in Seq(S) /\ Len(b) = Len(p) + Len(q) /\ DOMAIN b = 1 .. Len(p) + Len(q)
      /\ \A k \in 1 .. Len(p) + Len(q) : b[k] = IF k <= Len(p) THEN p[k] ELSE q[k - Len(p)]
  BY <1>1, <1>2
<1>4. \A k \in DOMAIN b : \/ k \in DOMAIN p /\ b[k] = p[k]
                          \/ k - Len(p) \in DOMAIN q /\ b[k] = q[k - Len(p)] /\ k > Len(p)
  BY <1>1, <1>3
<1>5. \A k \in DOMAIN p : k \in DOMAIN b /\ b[k] = p[k]
  BY <1>1, <1>3
<1>6. \A k \in DOMAIN q : k + Len(p) \in DOMAIN b /\ b[k + Len(p)] = q[k]
  <2> TAKE k \in DOMAIN q
  <2>1. k + Len(p) \in 1 .. Len(p) + Len(q) /\ ~(k + Len(p) <= Len(p)) /\ (k + Len(p)) - Len(p) = k
    BY <1>1
  <2> QED
    BY <1>3, <2>1
<1>7. Range(b) = Range(p) \cup Range(q)
  <2>1. \A x \in Range(b) : x \in Range(p) \cup Range(q)
    BY <1>4 DEF Range
  <2>2. \A x \in Range(p) \cup Range(q) : x \in Range(b)
    BY <1>5, <1>6 DEF Range
  <2> QED
    BY <2>1, <2>2
<1>8. ASSUME IsInjective(p), IsInjective(q), Range(p) \cap Range(q) = {} PROVE IsInjective(b)
  <2> SUFFICES ASSUME NEW k \in DOMAIN b, NEW h \in DOMAIN b, b[k] = b[h] PROVE k = h
    BY DEF IsInjective
  <2>1. k \in Int /\ h \in Int
    BY <1>3
  <2>2. CASE k \in DOMAIN p /\ b[k] = p[k] /\ h \in DOMAIN p /\ b[h] = p[h]
    BY <1>8, <2>2 DEF IsInjective
  <2>3. CASE /\ k - Len(p) \in DOMAIN q /\ b[k] = q[k - Len(p)]
             /\ h - Len(p) \in DOMAIN q /\ b[h] = q[h - Len(p)]
    <3>1. k - Len(p) = h - Len(p)
      BY <1>8, <2>3 DEF IsInjective
    <3> QED
      BY <1>1, <2>1, <3>1
  <2>4. \A i \in DOMAIN p, j \in DOMAIN q : p[i] # q[j]
    BY <1>8 DEF Range
  <2> QED
    BY <1>4, <2>2, <2>3, <2>4
<1> QED
  BY <1>2, <1>3, <1>4, <1>7, <1>8

LEMMA AppendOf ==
    ASSUME NEW S, NEW q \in Seq(S), NEW x \in S
    PROVE  /\ Append(q, x) \in Seq(S)
           /\ Range(Append(q, x)) = Range(q) \cup {x}
           /\ IsInjective(q) /\ x \notin Range(q) => IsInjective(Append(q, x))
           /\ \A k \in DOMAIN Append(q, x) :
                 \/ k \in DOMAIN q /\ Append(q, x)[k] = q[k]
                 \/ k = Len(q) + 1 /\ Append(q, x)[k] = x
<1>1. Len(q) \in Nat /\ DOMAIN q = 1 .. Len(q)
  OBVIOUS
<1>2. PICK b : b = Append(q, x)
  OBVIOUS
<1>3. /\ b \in Seq(S) /\ DOMAIN b = 1 .. Len(q) + 1
      /\ \A k \in 1 .. Len(q) : b[k] = q[k]
      /\ b[Len(q) + 1] = x
  BY <1>1, <1>2
<1>4. \A k \in DOMAIN b : (k \in DOMAIN q /\ b[k] = q[k]) \/ (k = Len(q) + 1 /\ b[k] = x)
  BY <1>1, <1>3
<1>5. Len(q) + 1 \in DOMAIN b /\ \A k \in DOMAIN q : k \in DOMAIN b /\ b[k] = q[k]
  BY <1>1, <1>3
<1>6. Range(b) = Range(q) \cup {x}
  BY <1>3, <1>4, <1>5 DEF Range
<1>7. IsInjective(q) /\ x \notin Range(q) => IsInjective(b)
  BY <1>4 DEF IsInjective, Range
<1> QED
  BY <1>2, <1>3, <1>4, <1>6, <1>7

LEMMA WithoutOf ==
    ASSUME NEW S, NEW q \in Seq(S), NEW g
    PROVE  /\ Without(q, g) \in Seq(S)
           /\ Range(Without(q, g)) = Range(q) \ {g}
           /\ IsInjective(q) => IsInjective(Without(q, g))
           /\ \A k, h \in DOMAIN Without(q, g) : k < h =>
                 \E i, j \in DOMAIN q : i < j /\ Without(q, g)[k] = q[i] /\ Without(q, g)[h] = q[j]
<1> DEFINE I == {i \in DOMAIN q : q[i] # g}
<1>1. I \in SUBSET DOMAIN q /\ Without(q, g) = Pick(q, I)
  BY DEF Without
<1>2. {q[i] : i \in I} = Range(q) \ {g}
  BY DEF Range
<1> HIDE DEF I
<1> QED
  BY <1>1, <1>2, PickOf

LEMMA SortedOf ==
    ASSUME NEW S \in SUBSET Nat, NEW q \in Seq(S)
    PROVE  /\ Sorted(q) \in Seq(S) /\ Range(Sorted(q)) = Range(q) /\ IsInjective(Sorted(q))
           /\ \A i, j \in DOMAIN Sorted(q) : i < j <=> Sorted(q)[i] < Sorted(q)[j]
<1>1. Range(q) \subseteq S /\ Range(q) \subseteq Nat
  <2>1. \A i \in DOMAIN q : q[i] \in S
    OBVIOUS
  <2> QED
    BY <2>1 DEF Range
<1>2. IsFiniteSet(Range(q))
  <2>1. DOMAIN q = 1 .. Len(q) /\ Len(q) \in Nat
    OBVIOUS
  <2>2. IsFiniteSet(DOMAIN q)
    BY <2>1, FS_Interval
  <2>3. q \in Surjection(DOMAIN q, Range(q))
    <3>1. q \in [DOMAIN q -> Range(q)]
      BY <2>1 DEF Range
    <3> QED
      BY <3>1 DEF Surjection, Range
  <2> QED
    BY <2>2, <2>3, FS_Surjection
<1>3. PICK order : order = Sorted(q)
  OBVIOUS
<1>4. order = Ascending(Range(q))
  BY <1>3 DEF Sorted
<1>5. /\ Cardinality(Range(q)) \in Nat
      /\ order \in [1 .. Cardinality(Range(q)) -> Range(q)]
      /\ \A i, j \in 1 .. Cardinality(Range(q)) : order[i] = order[j] => i = j
      /\ \A i, j \in 1 .. Cardinality(Range(q)) : i < j <=> order[i] < order[j]
      /\ \A x \in Range(q) : \E n \in 1 .. Cardinality(Range(q)) : order[n] = x
  BY <1>1, <1>2, <1>4, AscendingOf
<1>6. PICK c, V : c = Cardinality(Range(q)) /\ V = Range(q)
  OBVIOUS
<1>7. /\ c \in Nat /\ order \in [1 .. c -> V] /\ V \subseteq S
      /\ \A i, j \in 1 .. c : order[i] = order[j] => i = j
      /\ \A i, j \in 1 .. c : i < j <=> order[i] < order[j]
      /\ \A x \in V : \E n \in 1 .. c : order[n] = x
  BY <1>1, <1>5, <1>6
<1>8. order \in Seq(S) /\ DOMAIN order = 1 .. c
  <2>1. DOMAIN order = 1 .. c /\ \A n \in 1 .. c : order[n] \in S
    BY <1>7
  <2>2. order = [n \in 1 .. c |-> order[n]]
    BY <1>7
  <2>3. [n \in 1 .. c |-> order[n]] \in Seq(S)
    BY <1>7, <2>1
  <2> QED
    BY <2>1, <2>2, <2>3
<1>9. Range(order) = V /\ IsInjective(order)
  <2>1. DOMAIN order = 1 .. c /\ \A n \in 1 .. c : order[n] \in V
    BY <1>7
  <2>2. \A x \in V : x \in Range(order)
    BY <1>7, <2>1 DEF Range
  <2>3. \A x \in Range(order) : x \in V
    BY <2>1 DEF Range
  <2>4. IsInjective(order)
    BY <1>7, <2>1 DEF IsInjective
  <2> QED
    BY <2>2, <2>3, <2>4
<1> QED
  BY <1>3, <1>6, <1>7, <1>8, <1>9
----------------------------------------------------------------------------
(* What happens to the status of a group's sequences when those with one    *)
(* status get another.                                                      *)
LEMMA TurnedOf ==
    ASSUME NEW list, IsGroup(list), NEW new, NEW from \in Stages, NEW to \in Stages,
           Turned(list, new, from, to)
    PROVE  /\ IsGroup(new) /\ Len(new) = Len(list)
           /\ from = to => LiveIn(new) = LiveIn(list)
           /\ from \notin LiveIn(list) /\ from # "finished" => LiveIn(new) = LiveIn(list)
           /\ LiveIn(list) = {from} => LiveIn(new) = {to} \ {"finished"}
           /\ (from = to \/ (from # "finished" /\ (to # "finished" \/ LiveIn(list) = {from})))
                => (Together(list) => Together(new))
<1>1. /\ Len(list) \in Nat /\ DOMAIN list = 1 .. Len(list) /\ DOMAIN new = 1 .. Len(list)
      /\ \A i \in DOMAIN list : list[i].status \in Stages
  BY DEF IsGroup, Turned, IsSeq
<1>2. \A i \in DOMAIN list : /\ {"status", "len"} \subseteq DOMAIN new[i]
                             /\ new[i].len = list[i].len
                             /\ new[i].status = IF list[i].status = from THEN to ELSE list[i].status
  BY DEF Turned
<1>3. new \in Seq(Range(new)) /\ Len(new) = Len(list)
  <2>1. \A i \in 1 .. Len(list) : new[i] \in Range(new)
    BY <1>1 DEF Range
  <2>2. new = [i \in 1 .. Len(list) |-> new[i]]
    BY <1>1 DEF Turned
  <2>3. [i \in 1 .. Len(list) |-> new[i]] \in Seq(Range(new))
    BY <1>1, <2>1
  <2>4. Len([i \in 1 .. Len(list) |-> new[i]]) = Len(list)
    BY <1>1
  <2> QED
    BY <2>2, <2>3, <2>4
<1>4. \A i \in DOMAIN new : IsSeq(new[i])
  BY <1>1, <1>2 DEF IsSeq
<1>5. /\ from = to => LiveIn(new) = LiveIn(list)
      /\ from \notin LiveIn(list) /\ from # "finished" => LiveIn(new) = LiveIn(list)
  BY <1>1, <1>2 DEF LiveIn
<1>6. LiveIn(list) = {from} => LiveIn(new) = {to} \ {"finished"}
  <2> SUFFICES ASSUME LiveIn(list) = {from} PROVE LiveIn(new) = {to} \ {"finished"}
    OBVIOUS
  <2>1. \A i \in DOMAIN list : list[i].status \in {from, "finished"}
    BY DEF LiveIn
  <2>2. from # "finished" /\ \E i \in DOMAIN list : list[i].status = from
    BY DEF LiveIn
  <2> QED
    BY <1>1, <1>2, <2>1, <2>2 DEF LiveIn
<1>7. (from = to \/ (from # "finished" /\ (to # "finished" \/ LiveIn(list) = {from})))
         => (Together(list) => Together(new))
  <2>1. LiveIn(list) = {} => \A i \in DOMAIN list : list[i].status = "finished"
    BY DEF LiveIn
  <2>2. CASE from = to
    BY <1>1, <1>2, <1>5, <2>2 DEF Together
  <2>3. CASE from # "finished" /\ to # "finished"
    <3>1. LiveIn(list) = {} => LiveIn(new) = {}
      BY <1>1, <1>2, <2>1, <2>3 DEF LiveIn
    <3> QED
      BY <1>1, <1>2, <2>3, <3>1 DEF Together
  <2>4. CASE to = "finished" /\ LiveIn(list) = {from}
    <3>1. LiveIn(new) = {}
      BY <1>6, <2>4
    <3> QED
      BY <3>1 DEF Together
  <2> QED
    BY <2>2, <2>3, <2>4
<1> QED
  BY <1>3, <1>4, <1>5, <1>6, <1>7 DEF IsGroup

LEMMA TurnedTwice ==
    ASSUME NEW a, NEW b, NEW c, NEW from, NEW to
    PROVE  /\ Turned(a, b, "finished", "finished") /\ Turned(b, c, from, to) => Turned(a, c, from, to)
           /\ Turned(a, b, from, to) /\ Turned(b, c, "finished", "finished") => Turned(a, c, from, to)
BY DEF Turned

LEMMA RelabelOf ==
    ASSUME NEW list, IsGroup(list), NEW from \in Stages, NEW to \in Stages
    PROVE  Turned(list, Relabel(list, from, to), from, to)
<1> DEFINE new == Relabel(list, from, to)
<1>1. /\ DOMAIN new = DOMAIN list
      /\ \A i \in DOMAIN list :
           new[i] = IF list[i].status = from THEN [list[i] EXCEPT !.status = to] ELSE list[i]
      /\ new = [i \in DOMAIN list |-> new[i]]
  BY DEF Relabel
<1>2. \A i \in DOMAIN list : {"status", "len"} \subseteq DOMAIN list[i]
  BY DEF IsGroup, IsSeq
<1> HIDE DEF new
<1>3. \A i \in DOMAIN list :
         /\ {"status", "len"} \subseteq DOMAIN new[i]
         /\ new[i].len = list[i].len
         /\ new[i].status = IF list[i].status = from THEN to ELSE list[i].status
  BY <1>1, <1>2
<1> QED
  BY <1>1, <1>3 DEF Turned, new

(* New tables leave the status of the sequences alone.                      *)
LEMMA TabledOf ==
    ASSUME NEW list, IsGroup(list), NEW tables
    PROVE  Turned(list, Tabled(list, tables), "finished", "finished")
<1> DEFINE new == Tabled(list, tables)
<1>1. /\ DOMAIN new = DOMAIN list /\ new = [i \in DOMAIN list |-> new[i]]
      /\ \A i \in DOMAIN list :
           new[i] = IF i \in DOMAIN tables THEN [list[i] EXCEPT !.table = tables[i]] ELSE list[i]
  BY DEF Tabled
<1>2. \A i \in DOMAIN list : {"status", "len"} \subseteq DOMAIN list[i]
  BY DEF IsGroup, IsSeq
<1> HIDE DEF new
<1>3. \A i \in DOMAIN list : /\ {"status", "len"} \subseteq DOMAIN new[i]
                             /\ new[i].len = list[i].len /\ new[i].status = list[i].status
  BY <1>1, <1>2
<1> QED
  BY <1>1, <1>3 DEF Turned, new

LEMMA AppendSlotsOf ==
    ASSUME NEW p, NEW list, IsGroup(list)
    PROVE  Turned(list, AppendSlots(p, list).list, "finished", "finished")
<1>1. AppendSlots(p, list).list = list \/ \E tables : AppendSlots(p, list).list = Tabled(list, tables)
  BY DEF AppendSlots
<1>2. Turned(list, list, "finished", "finished")
  BY DEF Turned, IsGroup, IsSeq
<1> QED
  BY <1>1, <1>2, TabledOf

(* The same with a change of their status.                                  *)
LEMMA TabledAndRelabelled ==
    ASSUME NEW list, IsGroup(list), NEW tables, NEW from \in Stages, NEW to \in Stages
    PROVE  /\ IsGroup(Relabel(Tabled(list, tables), from, to))
           /\ Turned(list, Relabel(Tabled(list, tables), from, to), from, to)
<1>1. Turned(list, Tabled(list, tables), "finished", "finished")
  BY TabledOf
<1>2. IsGroup(Tabled(list, tables))
  BY <1>1, TurnedOf DEF Stages
<1>3. Turned(Tabled(list, tables), Relabel(Tabled(list, tables), from, to), from, to)
  BY <1>2, RelabelOf
<1>4. Turned(list, Relabel(Tabled(list, tables), from, to), from, to)
  BY <1>1, <1>3, TurnedTwice
<1> QED
  BY <1>4, TurnedOf

----------------------------------------------------------------------------
(* Groups and their numbers of sequences.                                   *)
LEMMA SamplingOf ==
    ASSUME Lists, NEW g \in Groups
    PROVE  /\ Sampling(g).best \in Nat \ {0} /\ Sampling(g).beam \in BOOLEAN
           /\ Sampling(g).prompt \in Nat /\ Sampling(g).max \in Nat \ {0}
           /\ IsGroup(seqs[g]) /\ Len(seqs[g]) \in Nat /\ DOMAIN seqs[g] = 1 .. Len(seqs[g])
           /\ \A i \in DOMAIN seqs[g] : IsSeq(seqs[g][i]) /\ seqs[g][i].status \in Stages
<1>1. engine \in Engines /\ g \in DOMAIN engine.groups /\ IsGroup(seqs[g])
  BY DEF Lists
<1>2. engine.groups \in Seq([prompt : Nat, max : Nat \ {0}, best : Nat \ {0}, beam : BOOLEAN, stops : BOOLEAN])
  BY <1>1, EngineAssumption
<1>3. engine.groups[g] \in [prompt : Nat, max : Nat \ {0}, best : Nat \ {0}, beam : BOOLEAN, stops : BOOLEAN]
  <2>1. \A T : engine.groups \in Seq(T) => engine.groups[g] \in T
    BY <1>1
  <2> QED
    BY <1>2, <2>1
<1> QED
  BY <1>1, <1>3 DEF Sampling, IsGroup, IsSeq

LEMMA NumbersOf ==
    ASSUME Lists, NEW g \in Groups
    PROVE  /\ GroupFinished(g) <=> LiveIn(seqs[g]) = {}
           /\ (\A i \in DOMAIN seqs[g] : seqs[g][i].status # "finished") => NumUnfinished(g) = Len(seqs[g])
           /\ NumUnfinished(g) \in Nat
<1> DEFINE n == Len(seqs[g])
           F == Having(g, "finished")
<1>1. n \in Nat /\ DOMAIN seqs[g] = 1 .. n
  BY SamplingOf
<1>2. F = {i \in 1 .. n : seqs[g][i].status = "finished"} /\ F \subseteq 1 .. n
  BY <1>1 DEF Having
<1>3. IsFiniteSet(1 .. n) /\ Cardinality(1 .. n) = n
  BY <1>1, FS_Interval
<1>4. /\ Cardinality(F) \in Nat /\ Cardinality(F) <= n /\ (Cardinality(F) = n => F = 1 .. n)
      /\ (F = 1 .. n => Cardinality(F) = n) /\ (F = {} => Cardinality(F) = 0)
  <2> HIDE DEF F, n
  <2> QED
    BY <1>1, <1>2, <1>3, FS_Subset, FS_CardinalityType, FS_EmptySet
<1>5. NumUnfinished(g) = n - Cardinality(F)
  BY DEF NumUnfinished, NumSeqs
<1>6. LiveIn(seqs[g]) = {} <=> F = 1 .. n
  BY <1>1, <1>2 DEF LiveIn
<1> QED
  <2> HIDE DEF F
  <2>1. GroupFinished(g) <=> LiveIn(seqs[g]) = {}
    BY <1>1, <1>4, <1>5, <1>6 DEF GroupFinished
  <2>2. (\A i \in DOMAIN seqs[g] : seqs[g][i].status # "finished") => F = {}
    BY <1>1, <1>2
  <2> QED
    BY <1>1, <1>4, <1>5, <2>1, <2>2

(* The samples of a group: a sequence is finished, or one token longer than  *)
(* a running one and not at its limit.                                      *)
GrownFrom(g, new) ==
  \A k \in DOMAIN new :
    \/ new[k] = Finished
    \/ k \in DOMAIN seqs[g] /\ new[k] = seqs[g][k] /\ new[k].status = "finished"
    \/ \E i \in Parents(g) : /\ new[k].status = "running" /\ new[k].len = seqs[g][i].len + 1
                              /\ ~AtLimit(g, new[k].len)

(* Finished sequences and running ones make a group.                        *)
LEMMA GroupFrom ==
    ASSUME NEW n \in Nat, NEW new, DOMAIN new = 1 .. n, new = [i \in 1 .. n |-> new[i]],
           \A i \in 1 .. n : IsSeq(new[i]) /\ new[i].status \in {"running", "finished"}
    PROVE  IsGroup(new) /\ LiveIn(new) \subseteq {"running"} /\ Len(new) = n
<1>1. \A i \in 1 .. n : new[i] \in Range(new)
  BY DEF Range
<1>2. [i \in 1 .. n |-> new[i]] \in Seq(Range(new)) /\ Len([i \in 1 .. n |-> new[i]]) = n
  BY <1>1
<1> QED
  BY <1>2 DEF IsGroup, LiveIn

(* The sampled tokens of a group without beam search.                       *)
LEMMA SampleOf ==
    ASSUME Lists, NEW g \in Groups, LiveIn(seqs[g]) = {"running"}, Sample(g)
    PROVE  \E new : /\ seqs' = [seqs EXCEPT ![g] = new]
                    /\ IsGroup(new) /\ LiveIn(new) \subseteq {"running"} /\ GrownFrom(g, new)
                    /\ Single(g) => Len(new) = Len(seqs[g])
                    /\ ~Sampling(g).stops /\ Together(seqs[g]) => Together(new)
<1> DEFINE list == seqs[g]
           n == Len(list)
           forks == IF promptRun THEN Sampling(g).best - 1 ELSE 0
           m == Min(Parents(g))
           young == [k \in 1 .. forks |-> list[m]]
           all == list \o young
           old == {i \in DOMAIN list : list[i].status = "finished"}
           after == [i \in DOMAIN all |-> IF i \in old THEN list[i] ELSE Grown(all[i])]
           limit == {i \in DOMAIN after \ old : AtLimit(g, after[i].len)}
           New(fin) == [i \in DOMAIN after |-> IF i \in fin THEN Finished ELSE after[i]]
<1>1. PICK fin \in SUBSET (DOMAIN after \ old) :
         /\ limit \subseteq fin /\ (Sampling(g).stops \/ fin = limit)
         /\ seqs' = [seqs EXCEPT ![g] = New(fin)]
  BY DEF Sample
<1>2. /\ n \in Nat /\ DOMAIN list = 1 .. n /\ list \in Seq(Range(list))
      /\ \A i \in 1 .. n : IsSeq(list[i]) /\ list[i].status \in {"running", "finished"}
  <2>1. \A i \in DOMAIN list : list[i].status # "finished" => list[i].status \in LiveIn(list)
    BY DEF LiveIn
  <2> QED
    BY <2>1, SamplingOf DEF IsGroup
<1>3. m \in 1 .. n /\ list[m].status = "running" /\ m \in Parents(g)
  <2>1. Parents(g) = {i \in 1 .. n : list[i].status = "running"}
    BY <1>2 DEF Parents, Having
  <2>2. "running" \in LiveIn(list)
    OBVIOUS
  <2>3. Parents(g) # {} /\ Parents(g) \subseteq Nat
    BY <1>2, <2>1, <2>2 DEF LiveIn
  <2>4. \E x \in Parents(g) : \A y \in Parents(g) : x <= y
    <3> HIDE DEF list
    <3> QED
      BY <2>3, LeastOf
  <2>5. m \in Parents(g)
    BY <2>4 DEF Min
  <2> QED
    BY <2>1, <2>5
<1>4. forks \in Nat /\ (Single(g) => forks = 0)
  BY SamplingOf DEF Single
<1> HIDE DEF forks, m
<1>5. /\ DOMAIN all = 1 .. n + forks
      /\ \A i \in 1 .. n + forks : all[i] = IF i <= n THEN list[i] ELSE list[m]
  <2>1. list[m] \in Range(list)
    BY <1>2, <1>3 DEF Range
  <2>2. young \in Seq(Range(list)) /\ Len(young) = forks /\ \A k \in 1 .. forks : young[k] = list[m]
    BY <1>4, <2>1
  <2> HIDE DEF young, list
  <2>3. /\ DOMAIN all = 1 .. n + forks
        /\ \A i \in 1 .. n + forks : all[i] = IF i <= n THEN list[i] ELSE young[i - n]
    BY <1>2, <1>4, <2>2
  <2>4. \A i \in 1 .. n + forks : ~(i <= n) => i - n \in 1 .. forks
    BY <1>2, <1>4
  <2> QED
    BY <2>2, <2>3, <2>4
<1>6. old \subseteq 1 .. n /\ \A i \in 1 .. n : i \in old <=> list[i].status = "finished"
  BY <1>2
<1> HIDE DEF all, old
<1>7. /\ DOMAIN after = 1 .. n + forks
      /\ \A i \in 1 .. n + forks : after[i] = IF i \in old THEN list[i] ELSE Grown(all[i])
  BY <1>5
<1>8. \A i \in 1 .. n + forks : IsSeq(all[i]) /\ (i \notin old => all[i].status = "running")
  BY <1>2, <1>3, <1>5, <1>6
<1>9. \A i \in 1 .. n + forks :
         /\ IsSeq(after[i]) /\ after[i].status \in {"running", "finished"}
         /\ i \notin old => after[i].status = "running" /\ after[i].len = all[i].len + 1
  <2>1. \A s : IsSeq(s) => IsSeq(Grown(s)) /\ Grown(s).status = s.status /\ Grown(s).len = s.len + 1
    BY DEF IsSeq, Grown
  <2> HIDE DEF after
  <2> QED
    BY <1>2, <1>6, <1>7, <1>8, <2>1
<1>10. IsSeq(Finished) /\ Finished.status = "finished"
  BY DEF IsSeq, Finished, Stages
<1> DEFINE new == New(fin)
<1>11. /\ DOMAIN new = 1 .. n + forks /\ new = [i \in 1 .. n + forks |-> new[i]]
       /\ \A i \in 1 .. n + forks : new[i] = IF i \in fin THEN Finished ELSE after[i]
  BY <1>7
<1>12. limit = {i \in 1 .. n + forks : i \notin old /\ AtLimit(g, after[i].len)}
  BY <1>7
<1> HIDE DEF after, limit, new
<1>13. IsGroup(new) /\ LiveIn(new) \subseteq {"running"} /\ Len(new) = n + forks
  <2>1. \A i \in 1 .. n + forks : IsSeq(new[i]) /\ new[i].status \in {"running", "finished"}
    BY <1>9, <1>10, <1>11
  <2>2. PICK k : k = n + forks
    OBVIOUS
  <2>3. k \in Nat
    BY <1>2, <1>4, <2>2
  <2> QED
    BY <1>11, <2>1, <2>2, <2>3, GroupFrom
<1>14. Single(g) => Len(new) = n
  BY <1>2, <1>4, <1>13
<1>15. ASSUME ~Sampling(g).stops, Together(list) PROVE Together(new)
  <2>1. \A i \in 1 .. n : list[i].status # "finished" /\ list[i].len = list[m].len
    BY <1>2, <1>3, <1>15 DEF Together
  <2>2. old = {} /\ fin = limit
    BY <1>1, <1>6, <1>15, <2>1
  <2>3. \A i \in 1 .. n + forks : after[i].len = list[m].len + 1
    BY <1>5, <1>9, <2>1, <2>2
  <2>4. CASE AtLimit(g, list[m].len + 1)
    <3>1. \A i \in 1 .. n + forks : new[i].status = "finished"
      BY <1>10, <1>11, <1>12, <2>2, <2>3, <2>4
    <3>2. LiveIn(new) = {}
      BY <1>11, <3>1 DEF LiveIn
    <3> QED
      BY <3>2 DEF Together
  <2>5. CASE ~AtLimit(g, list[m].len + 1)
    <3>1. \A i \in 1 .. n + forks : new[i] = after[i]
      BY <1>11, <1>12, <2>2, <2>3, <2>5
    <3> QED
      BY <1>9, <1>11, <2>2, <2>3, <3>1 DEF Together
  <2> QED
    BY <2>4, <2>5
<1>16. GrownFrom(g, new)
  <2>1. \A i \in 1 .. n : list[i].status = "running" => i \in Parents(g)
    BY <1>2 DEF Parents, Having
  <2>2. \A i \in fin : i \in 1 .. n + forks /\ i \notin old
    BY <1>1, <1>7
  <2>3. ASSUME NEW k \in 1 .. n + forks, k \notin fin, k \in old
        PROVE  k \in DOMAIN list /\ new[k] = list[k] /\ new[k].status = "finished"
    BY <1>2, <1>6, <1>7, <1>11, <2>3
  <2>4. ASSUME NEW k \in 1 .. n + forks, k \notin fin, k \notin old
        PROVE  \E i \in Parents(g) : /\ new[k].status = "running" /\ new[k].len = list[i].len + 1
                                     /\ ~AtLimit(g, new[k].len)
    <3>1. new[k] = after[k] /\ new[k].status = "running" /\ new[k].len = all[k].len + 1
      BY <1>9, <1>11, <2>4
    <3>2. ~AtLimit(g, new[k].len)
      BY <1>1, <1>12, <2>4, <3>1
    <3>3. \E i \in Parents(g) : all[k] = list[i]
      <4>1. CASE k <= n
        <5>1. k \in 1 .. n
          BY <1>2, <1>4, <4>1
        <5> QED
          BY <1>2, <1>5, <1>6, <2>1, <2>4, <4>1, <5>1
      <4>2. CASE ~(k <= n)
        BY <1>3, <1>5, <4>2
      <4> QED
        BY <4>1, <4>2
    <3> QED
      BY <3>1, <3>2, <3>3
  <2> QED
    BY <1>11, <2>3, <2>4 DEF GrownFrom
<1> QED
  <2>1. seqs' = [seqs EXCEPT ![g] = new]
    BY <1>1 DEF new
  <2> QED
    BY <1>13, <1>14, <1>15, <1>16, <2>1

(* The candidates a beam search goes on with.                               *)
LEMMA BeamOf ==
    ASSUME Lists, NEW g \in Groups, LiveIn(seqs[g]) = {"running"}, BeamStep(g)
    PROVE  /\ Sampling(g).beam
           /\ \E new : /\ seqs' = [seqs EXCEPT ![g] = new]
                       /\ IsGroup(new) /\ LiveIn(new) \subseteq {"running"} /\ GrownFrom(g, new)
<1> DEFINE list == seqs[g]
           n == Len(list)
           P == Parents(g)
           order == Ascending(P)
           limit == \E i \in P : AtLimit(g, list[i].len + 1)
           forks(kids, own, i) == kids[i] - (IF i \in own THEN 1 ELSE 0)
           parts(kids, own) == [j \in DOMAIN order |-> [k \in 1 .. forks(kids, own, order[j]) |-> list[order[j]]]]
           young(kids, own) == FlattenSeq(parts(kids, own))
           live(kids, own) == Pick(list, own) \o young(kids, own)
           New(kids, own, fin) == [k \in 1 .. fin |-> Finished] \o GrownAll(live(kids, own))
<1>1. PICK kids \in [P -> 0 .. IF limit THEN 0 ELSE Sampling(g).best], own \in SUBSET P,
           fin \in NumSeqs(g, "finished") .. Sampling(g).best :
         /\ \A i \in own : kids[i] > 0
         /\ seqs' = [seqs EXCEPT ![g] = New(kids, own, fin)]
  BY ZenonT(60) DEF BeamStep
<1> DEFINE S == {list[i] : i \in {x \in P : kids[x] > 0}}
<1>2. /\ n \in Nat /\ DOMAIN list = 1 .. n /\ list \in Seq(Range(list)) /\ IsFiniteSet(1 .. n)
      /\ \A i \in 1 .. n : IsSeq(list[i])
      /\ Sampling(g).best \in Nat
  <2>1. /\ n \in Nat /\ DOMAIN list = 1 .. n /\ list \in Seq(Range(list))
        /\ \A i \in 1 .. n : IsSeq(list[i])
        /\ Sampling(g).best \in Nat
    BY SamplingOf DEF IsGroup
  <2> HIDE DEF list, n
  <2>2. IsFiniteSet(1 .. n)
    BY <2>1, FS_Interval
  <2> QED
    BY <2>1, <2>2
<1>3. P = {i \in 1 .. n : list[i].status = "running"} /\ P \subseteq 1 .. n
  BY <1>2 DEF Parents, Having
<1>4. Having(g, "finished") \subseteq 1 .. n
  BY <1>2 DEF Having
<1>4a. \A i \in P : /\ kids[i] \in Nat /\ (i \in own => kids[i] > 0)
                    /\ kids[i] > 0 => ~AtLimit(g, list[i].len + 1)
  <2>1. PICK best : best = Sampling(g).best
    OBVIOUS
  <2>2. kids \in [P -> 0 .. IF limit THEN 0 ELSE best] /\ best \in Nat
    BY <1>2, <2>1
  <2>3. \A i \in P : AtLimit(g, list[i].len + 1) => limit
    OBVIOUS
  <2> HIDE DEF P, list, limit
  <2>4. \A i \in P : kids[i] \in Nat /\ (limit => kids[i] = 0)
    BY <2>2
  <2> QED
    BY <1>1, <2>3, <2>4
<1> HIDE DEF P, list, n, limit
<1>5. fin \in Nat
  <2>1. NumSeqs(g, "finished") \in Nat
    <3>1. IsFiniteSet(Having(g, "finished"))
      BY <1>2, <1>4, FS_Subset
    <3> QED
      BY <3>1, FS_CardinalityType DEF NumSeqs
  <2> QED
    BY <1>2, <2>1
<1>6. PICK c \in Nat : /\ DOMAIN order = 1 .. c
                       /\ \A j \in 1 .. c : order[j] \in P
  <2>1. IsFiniteSet(P) /\ P \subseteq Nat
    BY <1>2, <1>3, FS_Subset
  <2>2. Cardinality(P) \in Nat /\ order \in [1 .. Cardinality(P) -> P]
    BY <2>1, AscendingOf
  <2> HIDE DEF order
  <2> QED
    BY <2>2
<1> HIDE DEF order
<1>7. \A s \in S : /\ IsSeq(s) /\ s.status = "running"
                   /\ \E i \in P : s = list[i] /\ ~AtLimit(g, list[i].len + 1)
  BY <1>2, <1>3, <1>4a
<1>8. \A i \in P : forks(kids, own, i) \in Nat /\ (forks(kids, own, i) > 0 => kids[i] > 0)
  BY <1>4a
<1>9. young(kids, own) \in Seq(S)
  <2>1. \A j \in 1 .. c : [k \in 1 .. forks(kids, own, order[j]) |-> list[order[j]]] \in Seq(S)
    <3> TAKE j \in 1 .. c
    <3>1. PICK f \in Nat : f = forks(kids, own, order[j]) /\ (f > 0 => list[order[j]] \in S)
      BY <1>6, <1>8
    <3>2. \A k \in 1 .. f : list[order[j]] \in S
      <4> HIDE DEF forks, S
      <4> QED
        BY <3>1
    <3>3. PICK s : s = list[order[j]]
      OBVIOUS
    <3>4. [k \in 1 .. f |-> s] \in Seq(S)
      <4> HIDE DEF forks, S
      <4> QED
        BY <3>2, <3>3
    <3> HIDE DEF forks, S
    <3> QED
      BY <3>1, <3>3, <3>4
  <2>2. parts(kids, own) \in Seq(Seq(S))
    <3> HIDE DEF forks, S
    <3> QED
      BY <1>6, <2>1
  <2> HIDE DEF parts, S
  <2> QED
    BY <2>2, FlattenOf
<1> HIDE DEF young
<1>10. Pick(list, own) \in Seq(S)
  <2>1. own \in SUBSET DOMAIN list
    BY <1>2, <1>3
  <2>2. /\ Pick(list, own) \in Seq(Range(list))
        /\ Range(Pick(list, own)) = {list[i] : i \in own}
    BY <1>2, <2>1, PickOf
  <2>3. Range(Pick(list, own)) \subseteq S
    BY <1>4a, <2>2
  <2>4. PICK p : p = Pick(list, own)
    OBVIOUS
  <2>5. \A k \in DOMAIN p : p[k] \in S
    BY <2>3, <2>4 DEF Range
  <2>6. p \in Seq(Range(list))
    BY <2>2, <2>4
  <2> HIDE DEF S
  <2>7. p \in Seq(S)
    <3>1. DOMAIN p = 1 .. Len(p) /\ Len(p) \in Nat /\ p = [k \in 1 .. Len(p) |-> p[k]]
      BY <2>6
    <3>2. [k \in 1 .. Len(p) |-> p[k]] \in Seq(S)
      BY <2>5, <3>1
    <3> QED
      BY <3>1, <3>2
  <2> QED
    BY <2>4, <2>7
<1>11. PICK a : a = live(kids, own)
  OBVIOUS
<1>12. a \in Seq(S)
  <2> HIDE DEF S
  <2> QED
    BY <1>9, <1>10, <1>11
<1>13. PICK m \in Nat : DOMAIN a = 1 .. m /\ \A i \in 1 .. m :
                           /\ IsSeq(a[i]) /\ a[i].status = "running"
                           /\ \E j \in P : a[i] = list[j] /\ ~AtLimit(g, list[j].len + 1)
  <2>1. DOMAIN a = 1 .. Len(a) /\ Len(a) \in Nat /\ \A i \in 1 .. Len(a) : a[i] \in S
    <3> HIDE DEF S
    <3> QED
      BY <1>12
  <2> HIDE DEF S
  <2> QED
    BY <1>7, <2>1
<1>14. PICK b : b = GrownAll(a)
  OBVIOUS
<1>15. /\ DOMAIN b = 1 .. m /\ b = [i \in 1 .. m |-> b[i]]
       /\ \A i \in 1 .. m : /\ IsSeq(b[i]) /\ b[i].status = "running"
                             /\ \E j \in P : b[i].len = list[j].len + 1 /\ ~AtLimit(g, b[i].len)
  <2>1. \A s : IsSeq(s) => IsSeq(Grown(s)) /\ Grown(s).status = s.status /\ Grown(s).len = s.len + 1
    BY DEF IsSeq, Grown
  <2>2. DOMAIN b = 1 .. m /\ b = [i \in 1 .. m |-> b[i]] /\ \A i \in 1 .. m : b[i] = Grown(a[i])
    BY <1>13, <1>14 DEF GrownAll
  <2>3. ASSUME NEW i \in 1 .. m
        PROVE  /\ IsSeq(b[i]) /\ b[i].status = "running"
               /\ \E j \in P : b[i].len = list[j].len + 1 /\ ~AtLimit(g, b[i].len)
    <3>1. PICK j \in P : IsSeq(a[i]) /\ a[i].status = "running" /\ a[i] = list[j] /\ ~AtLimit(g, list[j].len + 1)
      BY ONLY <1>13
    <3>2. IsSeq(b[i]) /\ b[i].status = "running" /\ b[i].len = list[j].len + 1
      BY ONLY <2>1, <2>2, <3>1
    <3> QED
      BY ONLY <3>1, <3>2
  <2> QED
    BY ONLY <2>2, <2>3
<1>16. IsSeq(Finished) /\ Finished.status = "finished"
  BY DEF IsSeq, Finished, Stages
<1> DEFINE front == [k \in 1 .. fin |-> Finished]
           new == front \o b
<1>17. /\ DOMAIN new = 1 .. fin + m /\ new = [i \in 1 .. fin + m |-> new[i]]
       /\ \A i \in 1 .. fin + m : new[i] = IF i <= fin THEN Finished ELSE b[i - fin]
  <2>1. PICK T : T = Range(b) \cup {Finished}
    OBVIOUS
  <2>2. \A i \in 1 .. m : b[i] \in T
    BY <1>15, <2>1 DEF Range
  <2>3. [i \in 1 .. m |-> b[i]] \in Seq(T) /\ Len([i \in 1 .. m |-> b[i]]) = m
    BY <2>2
  <2>4. b \in Seq(T) /\ Len(b) = m
    BY <1>15, <2>3
  <2>5. front \in Seq(T) /\ Len(front) = fin /\ \A k \in 1 .. fin : front[k] = Finished
    BY <1>5, <2>1
  <2> HIDE DEF front
  <2>6. new \in Seq(T) /\ Len(new) = fin + m /\ DOMAIN new = 1 .. fin + m
        /\ \A i \in 1 .. fin + m : new[i] = IF i <= fin THEN front[i] ELSE b[i - fin]
    BY <1>5, <2>4, <2>5
  <2>7. new = [i \in 1 .. Len(new) |-> new[i]]
    <3> HIDE DEF new
    <3> QED
      BY <2>6
  <2> QED
    BY <1>5, <2>5, <2>6, <2>7
<1>18. IsGroup(new) /\ LiveIn(new) \subseteq {"running"}
  <2> HIDE DEF new
  <2>1. \A i \in 1 .. fin + m : ~(i <= fin) => i - fin \in 1 .. m
    BY <1>5
  <2>2. \A i \in 1 .. fin + m : IsSeq(new[i]) /\ new[i].status \in {"running", "finished"}
    BY <1>15, <1>16, <1>17, <2>1
  <2>3. PICK k \in Nat : k = fin + m
    BY <1>5
  <2> QED
    BY <1>17, <2>2, <2>3, GroupFrom
<1>19. seqs' = [seqs EXCEPT ![g] = new]
  BY <1>1, <1>11, <1>14
<1>19a. GrownFrom(g, new)
  <2> HIDE DEF new
  <2>1. \A i \in 1 .. fin + m : ~(i <= fin) => i - fin \in 1 .. m
    BY <1>5
  <2>2. ASSUME NEW k \in 1 .. fin + m, ~(k <= fin)
        PROVE  \E i \in P : new[k].status = "running" /\ new[k].len = list[i].len + 1 /\ ~AtLimit(g, new[k].len)
    <3>1. PICK h \in 1 .. m : new[k] = b[h]
      BY <1>17, <2>1, <2>2
    <3> QED
      BY ONLY <1>15, <3>1
  <2>3. \A k \in 1 .. fin + m : k <= fin => new[k] = Finished
    BY <1>17
  <2>4. \A k \in DOMAIN new :
           \/ new[k] = Finished
           \/ \E i \in P : new[k].status = "running" /\ new[k].len = list[i].len + 1 /\ ~AtLimit(g, new[k].len)
    BY <1>17, <2>2, <2>3
  <2> QED
    BY <2>4 DEF GrownFrom, P, list
<1>20. Sampling(g).beam
  BY ZenonT(60) DEF BeamStep
<1> HIDE DEF new
<1> QED
  BY <1>18, <1>19, <1>20, <1>19a

----------------------------------------------------------------------------
(* The operations on a pool leave it a pool: an exception raised in it is   *)
(* seen by Goto.                                                            *)
LEMMA RaiseOf ==
    ASSUME NEW p, IsPool(p), NEW what, what # "none"
    PROVE  IsPool(Raise(p, what)) /\ Raise(p, what).error # "none"
BY DEF IsPool, Raise

LEMMA ReturnOf == ASSUME NEW p, IsPool(p), NEW list, NEW home PROVE IsPool(Return(p, list, home))
<1>1. \/ Return(p, list, home) = Raise(p, "double free")
      \/ \E ref, free : Return(p, list, home) = [p EXCEPT !.ref = ref, !.free = free]
  BY DEF Return
<1> QED
  BY <1>1, RaiseOf DEF IsPool

LEMMA GiveOf == ASSUME NEW p, IsPool(p), NEW list PROVE IsPool(Give(p, list))
BY ReturnOf DEF Give

LEMMA TakeOf ==
    ASSUME NEW p, IsPool(p), NEW dev, NEW n, NEW count
    PROVE  IsPool(Take(p, dev, n, count))
<1>1. \/ Take(p, dev, n, count) = Raise(p, "out of memory")
      \/ \E free, ref : Take(p, dev, n, count) = [p EXCEPT !.free[dev] = free, !.ref = ref]
  BY DEF Take
<1> QED
  BY <1>1, RaiseOf DEF IsPool

LEMMA PoolAfter ==
    ASSUME NEW p, IsPool(p)
    PROVE  /\ \A list : IsPool(Share(p, list)) /\ IsPool(AppendSlots(p, list).pool)
           /\ \A dev, list : IsPool(SwapTo(dev, p, list).pool)
           /\ \A seq, n : IsPool(Allocate(p, seq, n).pool)
           /\ \A load, list : IsPool(Reorganize(p, load, list))
<1>1. ASSUME NEW list PROVE IsPool(Share(p, list))
  BY DEF IsPool, Share
<1>2. ASSUME NEW list PROVE IsPool(AppendSlots(p, list).pool)
  <2>1. \E n, count, leaving : AppendSlots(p, list).pool = Give(Take(p, "gpu", n, count), leaving)
    BY DEF AppendSlots
  <2> QED
    BY <2>1, TakeOf, GiveOf
<1>3. ASSUME NEW dev, NEW list PROVE IsPool(SwapTo(dev, p, list).pool)
  <2>1. \/ SwapTo(dev, p, list).pool = Raise(p, "out of memory")
        \/ \E n, count, home : SwapTo(dev, p, list).pool = Return(Take(p, dev, n, count), list, home)
    BY DEF SwapTo
  <2> QED
    BY <2>1, TakeOf, ReturnOf, RaiseOf
<1>4. ASSUME NEW seq, NEW n PROVE IsPool(Allocate(p, seq, n).pool)
  <2>1. \E k, count : Allocate(p, seq, n).pool = Take(p, "gpu", k, count)
    BY DEF Allocate
  <2> QED
    BY <2>1, TakeOf
<1>5. ASSUME NEW load, NEW list PROVE IsPool(Reorganize(p, load, list))
  BY DEF IsPool, Reorganize
<1> QED
  BY <1>1, <1>2, <1>3, <1>4, <1>5

----------------------------------------------------------------------------
LEMMA ListOf ==
    ASSUME NEW n \in Nat, NEW f, f = [i \in 1 .. n |-> f[i]]
    PROVE  f \in Seq(Range(f)) /\ Len(f) = n
<1>1. \A i \in 1 .. n : f[i] \in Range(f)
  BY DEF Range
<1>2. [i \in 1 .. n |-> f[i]] \in Seq(Range(f)) /\ Len([i \in 1 .. n |-> f[i]]) = n
  BY <1>1
<1> QED
  BY <1>2

(* A step that gives one group, or all of them, another list of sequences.  *)
LEMMA OneGroup ==
    ASSUME Lists, NEW g \in Groups, NEW new, IsGroup(new), seqs' = [seqs EXCEPT ![g] = new]
    PROVE  /\ Groups' = Groups /\ seqs' \in Seq(Range(seqs'))
           /\ \A h \in Groups : IsGroup(seqs'[h]) /\ seqs'[h] = IF h = g THEN new ELSE seqs[h]
<1>1. Len(seqs) \in Nat /\ Groups = 1 .. Len(seqs) /\ \A h \in Groups : IsGroup(seqs[h])
  BY DEF Lists, Groups
<1>2. /\ DOMAIN seqs' = 1 .. Len(seqs) /\ seqs' = [h \in 1 .. Len(seqs) |-> seqs'[h]]
      /\ \A h \in Groups : seqs'[h] = IF h = g THEN new ELSE seqs[h]
  BY <1>1 DEF Groups
<1>3. seqs' \in Seq(Range(seqs'))
  BY <1>1, <1>2, ListOf
<1> QED
  BY <1>1, <1>2, <1>3 DEF Groups

LEMMA AllGroups ==
    ASSUME Lists, NEW from \in Stages, NEW to \in Stages,
           DOMAIN seqs' = Groups, seqs' = [h \in Groups |-> seqs'[h]],
           \A h \in Groups : Turned(seqs[h], seqs'[h], from, to)
    PROVE  seqs' \in Seq(Range(seqs')) /\ \A h \in Groups : IsGroup(seqs'[h])
<1>1. Len(seqs) \in Nat /\ Groups = 1 .. Len(seqs) /\ \A h \in Groups : IsGroup(seqs[h])
  BY DEF Lists, Groups
<1>2. seqs' \in Seq(Range(seqs'))
  BY <1>1, ListOf
<1> QED
  BY <1>1, <1>2, TurnedOf

(* The queues as they are at each place.                                    *)
LEMMA QueuesInStep ==
    ASSUME Lists, InStep
    PROVE  /\ waiting \in Seq(Groups) /\ running \in Seq(Groups) /\ swapped \in Seq(Groups)
           /\ kept \in Seq(Groups) /\ scheduled \in Seq(Groups) /\ ignored \in Seq(Groups)
           /\ todo \in Seq(Groups) /\ <<>> \in Seq(Groups)
           /\ Groups \subseteq Nat /\ Range(<<>>) = {} /\ IsInjective(<<>>)
           /\ phase \notin {"decode", "failed"} => Active = Range(running)
<1>1. Range(<<>>) = {} /\ IsInjective(<<>>)
  BY DEF Range, IsInjective
<1>2. Groups \subseteq Nat
  BY DEF Lists, Groups
<1>3. phase \notin {"decode", "failed"} => Active = Range(running)
  BY <1>1 DEF InStep, Active
<1> QED
  BY <1>1, <1>2, <1>3 DEF Lists, QueuesOfGroups

LEMMA InitInv == Init => Inv
<1> SUFFICES ASSUME Init PROVE Inv
  OBVIOUS
<1>1. Groups = {} /\ Range(<<>>) = {} /\ IsInjective(<<>>) /\ seqs \in Seq(Range(seqs))
  <2>1. seqs = <<>> /\ \A S : seqs \in Seq(S)
    BY DEF Init
  <2> QED
    BY <2>1 DEF Groups, Range, IsInjective
<1>2. IsPool(pool)
  BY DEF Init, NewPool, IsPool
<1>3. QueuesOfGroups
  BY DEF Init, QueuesOfGroups
<1>4. answers \in [Groups -> {0, 1}]
  BY <1>1 DEF Init
<1>5. Lists
  BY <1>1, <1>2, <1>3, <1>4 DEF Init, Lists, Phases
<1>6. InStep
  BY <1>1 DEF Init, InStep
<1>7. Placed
  BY <1>1 DEF Init, Placed
<1> QED
  BY <1>5, <1>6, <1>7 DEF Inv

----------------------------------------------------------------------------
(* The callers.                                                             *)
LEMMA AddRequestInv == Inv /\ AddRequest => Inv'
<1> SUFFICES ASSUME Inv, AddRequest PROVE Inv'
  OBVIOUS
<1>0. PICK g : g = Len(seqs) + 1
  OBVIOUS
<1> DEFINE entry == [status |-> "waiting", len |-> Sampling(g).prompt, table |-> <<>>]
<1>14. PICK new : new = <<entry>>
  OBVIOUS
<1>1. /\ phase = "idle" /\ g \in DOMAIN engine.groups
      /\ seqs' = Append(seqs, new) /\ answers' = Append(answers, 0)
      /\ waiting' = Append(waiting, g)
      /\ UNCHANGED <<engine, pool, aborted, running, swapped, phase, stepVars, restarts>>
  BY <1>14, <1>0 DEF AddRequest
<1>2. /\ Lists /\ InStep /\ Placed
      /\ Len(seqs) \in Nat /\ Groups = 1 .. Len(seqs) /\ \A h \in Groups : IsGroup(seqs[h])
      /\ answers \in [Groups -> {0, 1}]
  BY <1>1 DEF Inv, Lists, Groups
<1>3. IsGroup(new) /\ LiveIn(new) = {"waiting"}
  <2>1. IsSeq(entry) /\ entry.status = "waiting"
    BY DEF IsSeq, Stages
  <2> HIDE DEF entry
  <2>2. Len(new) = 1 /\ DOMAIN new = {1} /\ new[1] = entry /\ new \in Seq({entry}) /\ Range(new) = {entry}
    BY <1>14 DEF Range
  <2> QED
    BY <2>1, <2>2 DEF IsGroup, LiveIn
<1>4. /\ Groups' = 1 .. Len(seqs) + 1 /\ seqs'[g] = new /\ g \notin Groups
      /\ \A h \in Groups : seqs'[h] = seqs[h]
      /\ Groups' = Groups \cup {g} /\ seqs' = [h \in 1 .. Len(seqs) + 1 |-> seqs'[h]]
  <2>1. PICK S : S = Range(seqs) \cup {new}
    OBVIOUS
  <2>2. seqs \in Seq(S)
    <3>1. seqs \in Seq(Range(seqs))
      BY <1>2 DEF Lists
    <3>2. \A T : seqs \in Seq(T) /\ T \subseteq S => seqs \in Seq(S)
      OBVIOUS
    <3> QED
      BY <2>1, <3>1, <3>2
  <2>3. seqs' \in Seq(S) /\ Len(seqs') = Len(seqs) + 1 /\ DOMAIN seqs' = 1 .. Len(seqs) + 1
        /\ seqs'[Len(seqs) + 1] = new /\ \A h \in 1 .. Len(seqs) : seqs'[h] = seqs[h]
    BY <1>0, <1>1, <1>2, <2>1, <2>2
  <2>4. seqs' = [h \in 1 .. Len(seqs') |-> seqs'[h]]
    BY <2>3
  <2> QED
    BY <1>0, <1>2, <2>3, <2>4 DEF Groups
<1>5. seqs' \in Seq(Range(seqs')) /\ \A h \in Groups' : IsGroup(seqs'[h])
  <2>1. PICK n \in Nat : n = Len(seqs) + 1
    BY <1>2
  <2>2. seqs' \in Seq(Range(seqs'))
    BY <1>4, <2>1, ListOf
  <2> QED
    BY <1>2, <1>3, <1>4, <2>2
<1>6. /\ answers' \in [Groups' -> {0, 1}] /\ answers'[g] = 0
      /\ \A h \in Groups : answers'[h] = answers[h]
  <2>1. answers \in Seq({0, 1}) /\ Len(answers) = Len(seqs)
    BY <1>2
  <2>2. /\ answers' \in Seq({0, 1}) /\ Len(answers') = Len(seqs) + 1
        /\ answers'[Len(seqs) + 1] = 0
        /\ \A h \in 1 .. Len(seqs) : answers'[h] = answers[h]
    BY <1>1, <1>2, <2>1
  <2>3. answers' \in [1 .. Len(seqs) + 1 -> {0, 1}]
    BY <2>2
  <2> QED
    BY <1>0, <1>2, <1>4, <2>2, <2>3
<1>7. /\ waiting \in Seq(Groups) /\ running \in Seq(Groups) /\ swapped \in Seq(Groups)
      /\ kept \in Seq(Groups) /\ scheduled \in Seq(Groups) /\ ignored \in Seq(Groups)
      /\ todo \in Seq(Groups)
      /\ Range(waiting) \subseteq Groups /\ Range(running) \subseteq Groups
      /\ Range(kept) \subseteq Groups /\ Range(swapped) \subseteq Groups
      /\ Range(ignored) \subseteq Groups /\ aborted \subseteq Groups
  <2>1. \A T : \A q \in Seq(T) : Range(q) \subseteq T
    BY DEF Range
  <2>2. aborted \subseteq Groups
    BY <1>2 DEF Lists
  <2> QED
    BY <1>2, <2>1, <2>2, QueuesInStep
<1>8. \A q \in Seq(Groups) : q \in Seq(Groups')
  BY <1>4
<1>9. waiting' \in Seq(Groups') /\ Range(waiting') = Range(waiting) \cup {g} /\ IsInjective(waiting')
  <2>1. g \in Groups' /\ waiting \in Seq(Groups')
    BY <1>4, <1>7, <1>8
  <2>2. IsInjective(waiting) /\ g \notin Range(waiting)
    BY <1>2, <1>4, <1>7 DEF Placed
  <2> QED
    BY <1>1, <2>1, <2>2, AppendOf
<1> HIDE DEF entry
<1>10. QueuesOfGroups'
  BY <1>1, <1>7, <1>8, <1>9 DEF QueuesOfGroups, stepVars
<1>11. Lists'
  BY <1>1, <1>2, <1>4, <1>5, <1>6, <1>10 DEF Lists
<1>12. InStep'
  BY <1>1, <1>2 DEF InStep, stepVars
<1>13. Placed'
  <2>1. ASSUME NEW h \in Groups PROVE \E n \in 1 .. 6 : InPlace(h, n)' /\ InStage(h, n)'
    <3>1. PICK n \in 1 .. 6 : InPlace(h, n) /\ InStage(h, n)
      BY <1>2 DEF Placed
    <3>2. InPlace(h, n)'
      BY <1>1, <1>4, <1>6, <1>9, <3>1 DEF InPlace, Active, stepVars
    <3>3. InStage(h, n)'
      BY <1>1, <1>4, <3>1 DEF InStage, Done, stepVars
    <3> QED
      BY <3>2, <3>3
  <2>2. InPlace(g, 1)' /\ InStage(g, 1)'
    <3>1. InPlace(g, 1)'
      BY <1>1, <1>4, <1>6, <1>7, <1>9 DEF InPlace, Active, stepVars
    <3>2. InStage(g, 1)'
      BY <1>3, <1>4 DEF InStage
    <3> QED
      BY <3>1, <3>2
  <2> QED
    BY <1>1, <1>2, <1>4, <1>9, <2>1, <2>2 DEF Placed, stepVars
<1> QED
  BY <1>11, <1>12, <1>13 DEF Inv

LEMMA AbortInv == ASSUME Inv, NEW g \in Groups, Abort(g) PROVE Inv'
<1> DEFINE new == [i \in DOMAIN seqs[g] |-> Finished]
<1>1. /\ phase = "idle" /\ phase' \in {"idle", "failed"}
      /\ g \in Range(waiting) \cup Range(running) \cup Range(swapped)
      /\ waiting' = Without(waiting, g) /\ running' = Without(running, g)
      /\ swapped' = Without(swapped, g)
      /\ pool' = Give(pool, Entries(seqs[g]))
      /\ seqs' = [seqs EXCEPT ![g] = new]
      /\ aborted' = aborted \cup {g}
      /\ UNCHANGED <<engine, answers, stepVars, restarts>>
  BY DEF Abort, Goto
<1>2. Lists /\ InStep /\ Placed /\ IsPool(pool)
  BY <1>1 DEF Inv, Lists
<1>3. IsGroup(new) /\ LiveIn(new) = {}
  <2>1. IsSeq(Finished) /\ Finished.status = "finished"
    BY DEF IsSeq, Finished, Stages
  <2>2. PICK n \in Nat : DOMAIN seqs[g] = 1 .. n
    BY <1>2, SamplingOf
  <2>3. new \in Seq(Range(new))
    BY <2>2, ListOf
  <2> QED
    BY <2>1, <2>3 DEF IsGroup, LiveIn
<1> HIDE DEF new
<1>4. /\ Groups' = Groups /\ seqs' \in Seq(Range(seqs'))
      /\ \A h \in Groups : IsGroup(seqs'[h]) /\ seqs'[h] = IF h = g THEN new ELSE seqs[h]
  BY <1>1, <1>2, <1>3, OneGroup
<1>5. /\ waiting' \in Seq(Groups) /\ running' \in Seq(Groups) /\ swapped' \in Seq(Groups)
      /\ Range(waiting') = Range(waiting) \ {g} /\ Range(running') = Range(running) \ {g}
      /\ Range(swapped') = Range(swapped) \ {g}
      /\ IsInjective(waiting') /\ IsInjective(running') /\ IsInjective(swapped')
  BY <1>1, <1>2, QueuesInStep, WithoutOf DEF Placed
<1>6. Lists'
  <2>1. IsPool(pool')
    BY <1>1, <1>2, GiveOf
  <2>2. QueuesOfGroups'
    BY <1>1, <1>2, <1>4, <1>5 DEF Lists, QueuesOfGroups, stepVars
  <2> QED
    BY <1>1, <1>2, <1>4, <2>1, <2>2 DEF Lists, Phases
<1>7. InStep'
  BY <1>1, <1>2 DEF InStep, stepVars
<1>8. Placed'
  <2>1. ASSUME NEW h \in Groups PROVE \E n \in 1 .. 6 : InPlace(h, n)' /\ InStage(h, n)'
    <3>1. PICK n \in 1 .. 6 : InPlace(h, n) /\ InStage(h, n)
      BY <1>2 DEF Placed
    <3>2. CASE h = g
      <4>1. n \in {1, 2, 3}
        BY <1>1, <3>1, <3>2 DEF InPlace, Active
      <4>2. g \notin Range(kept) /\ g \notin Range(ignored) /\ answers[g] # 1
        BY <1>1, <1>2, <3>1, <3>2, <4>1, QueuesInStep DEF InPlace, InStep
      <4>3. InPlace(g, 6)'
        BY <1>1, <1>5, <4>2 DEF InPlace, Active, stepVars
      <4>4. InStage(g, 6)'
        BY <1>3, <1>4 DEF InStage
      <4> QED
        BY <3>2, <4>3, <4>4
    <3>3. CASE h # g
      <4>1. InPlace(h, n)'
        BY <1>1, <1>5, <3>1, <3>3 DEF InPlace, Active, stepVars
      <4>2. InStage(h, n)'
        BY <1>1, <1>4, <3>1, <3>3 DEF InStage, Done, stepVars
      <4> QED
        BY <4>1, <4>2
    <3> QED
      BY <3>2, <3>3
  <2> QED
    BY <1>1, <1>2, <1>4, <1>5, <2>1 DEF Placed, stepVars
<1> QED
  BY <1>6, <1>7, <1>8 DEF Inv

----------------------------------------------------------------------------
(* Admission.                                                               *)
LEMMA BeginStepInv == Inv /\ BeginStep => Inv'
<1> SUFFICES ASSUME Inv, BeginStep PROVE Inv'
  OBVIOUS
<1>1. /\ phase = "idle" /\ phase' = IF swapped = <<>> THEN "admit" ELSE "decode"
      /\ running' = IF swapped = <<>> THEN running ELSE Sorted(running)
      /\ kept' = <<>> /\ scheduled' = <<>> /\ ignored' = <<>>
      /\ UNCHANGED <<engine, answers, aborted, waiting, swapped, todo, restarts>>
      /\ \/ UNCHANGED <<pool, seqs>>
         \/ /\ pool' = Reorganize(pool, Load, AllEntries)
            /\ seqs' = [h \in Groups |-> RenamedAll(seqs[h], Rewritten(pool, Load))]
  BY DEF BeginStep, Groups
<1>2. Lists /\ InStep /\ Placed /\ IsPool(pool) /\ \A h \in Groups : IsGroup(seqs[h])
  BY <1>1 DEF Inv, Lists
<1>3. /\ Groups' = Groups /\ seqs' \in Seq(Range(seqs')) /\ IsPool(pool')
      /\ \A h \in Groups : IsGroup(seqs'[h]) /\ LiveIn(seqs'[h]) = LiveIn(seqs[h])
  <2>1. CASE UNCHANGED <<pool, seqs>>
    BY <1>2, <2>1 DEF Lists, Groups
  <2>2. CASE /\ pool' = Reorganize(pool, Load, AllEntries)
             /\ seqs' = [h \in Groups |-> RenamedAll(seqs[h], Rewritten(pool, Load))]
    <3>1. PICK to : to = Rewritten(pool, Load)
      OBVIOUS
    <3>2. seqs' = [h \in Groups |-> RenamedAll(seqs[h], to)]
      BY <2>2, <3>1
    <3>3. \A h \in Groups : Turned(seqs[h], seqs'[h], "finished", "finished")
      BY <1>2, <3>2, TabledOf DEF RenamedAll
    <3>4. DOMAIN seqs' = Groups /\ seqs' = [h \in Groups |-> seqs'[h]]
      BY <3>2
    <3>5. seqs' \in Seq(Range(seqs')) /\ \A h \in Groups : IsGroup(seqs'[h])
      BY <1>2, <3>3, <3>4, AllGroups DEF Stages
    <3>6. \A h \in Groups : LiveIn(seqs'[h]) = LiveIn(seqs[h])
      BY <1>2, <3>3, TurnedOf DEF Stages
    <3>7. IsPool(pool')
      BY <1>2, <2>2, PoolAfter
    <3> QED
      BY <3>4, <3>5, <3>6, <3>7 DEF Groups
  <2> QED
    BY <1>1, <2>1, <2>2
<1>4. /\ running' \in Seq(Groups) /\ Range(running') = Range(running) /\ IsInjective(running')
      /\ Range(kept') = {} /\ Range(scheduled') = {} /\ Range(ignored') = {} /\ IsInjective(kept')
      /\ IsInjective(scheduled') /\ <<>> \in Seq(Groups)
      /\ Range(ignored) = {} /\ Active = Range(running)
  <2>1. IsInjective(running) /\ Range(<<>>) = {} /\ IsInjective(<<>>)
    BY <1>2, QueuesInStep DEF Placed
  <2>2. Range(Sorted(running)) = Range(running) /\ IsInjective(Sorted(running)) /\ Sorted(running) \in Seq(Groups)
    BY <1>2, QueuesInStep, SortedOf
  <2> QED
    BY <1>1, <1>2, <2>1, <2>2, QueuesInStep DEF InStep
<1>5. Lists'
  <2>1. QueuesOfGroups'
    BY <1>1, <1>2, <1>3, <1>4 DEF Lists, QueuesOfGroups
  <2> QED
    BY <1>1, <1>2, <1>3, <2>1 DEF Lists, Phases
<1>6. InStep'
  BY <1>1, <1>4 DEF InStep
<1>7. Placed'
  <2>1. ASSUME NEW h \in Groups PROVE \E n \in 1 .. 6 : InPlace(h, n)' /\ InStage(h, n)'
    <3>1. PICK n \in 1 .. 6 : InPlace(h, n) /\ InStage(h, n)
      BY <1>2 DEF Placed
    <3>2. InPlace(h, n)'
      BY <1>1, <1>4, <3>1 DEF InPlace, Active
    <3>3. InStage(h, n)'
      BY <1>1, <1>3, <3>1 DEF InStage, Done
    <3> QED
      BY <3>2, <3>3
  <2> QED
    BY <1>1, <1>2, <1>3, <1>4, <2>1 DEF Placed
<1> QED
  BY <1>5, <1>6, <1>7 DEF Inv

LEMMA AdmitFailsInv == Inv /\ AdmitFails => Inv'
<1> SUFFICES ASSUME Inv, AdmitFails PROVE Inv'
  OBVIOUS
<1>1. /\ phase' = "failed" /\ pool' = Raise(pool, "assertion")
      /\ UNCHANGED <<engine, seqs, answers, aborted, queues, stepVars, restarts>>
  BY DEF AdmitFails
<1>2. Lists /\ IsPool(pool)
  BY DEF Inv, Lists
<1>3. IsPool(pool')
  BY <1>1, <1>2, RaiseOf
<1>4. Lists'
  BY <1>1, <1>2, <1>3 DEF Lists, Phases, QueuesOfGroups, Groups, queues, stepVars
<1>5. InStep'
  BY <1>1 DEF InStep
<1> QED
  BY <1>1, <1>4, <1>5 DEF Inv

(* The one group of the waiting queue that can be admitted or ignored.      *)
LEMMA WaitingHead ==
    ASSUME Inv, phase # "failed", waiting # <<>>, HasOnePrompt(Head(waiting))
    PROVE  /\ Head(waiting) \in Groups /\ LiveIn(seqs[Head(waiting)]) = {"waiting"}
           /\ Tail(waiting) \in Seq(Groups) /\ IsInjective(Tail(waiting))
           /\ Range(Tail(waiting)) = Range(waiting) \ {Head(waiting)} /\ Head(waiting) \in Range(waiting)
<1>1. Lists /\ InStep /\ Placed
  BY DEF Inv
<1>2. PICK g : g = Head(waiting)
  OBVIOUS
<1>3. /\ g \in Groups /\ Tail(waiting) \in Seq(Groups) /\ IsInjective(Tail(waiting))
      /\ Range(Tail(waiting)) = Range(waiting) \ {g} /\ g \in Range(waiting)
  BY <1>1, <1>2, QueuesInStep, TailOf DEF Placed
<1>4. LiveIn(seqs[g]) \in {{"waiting"}, {"swapped"}}
  BY <1>1, <1>3 DEF Placed, InPlace, InStage
<1>5. Having(g, "waiting") # {}
  BY <1>2, FS_EmptySet DEF HasOnePrompt, NumSeqs
<1>6. "waiting" \in LiveIn(seqs[g])
  BY <1>2, <1>5 DEF LiveIn, Having
<1>7. LiveIn(seqs[g]) = {"waiting"}
  BY <1>4, <1>6
<1> QED
  BY <1>2, <1>3, <1>7

LEMMA IgnoreInv == Inv /\ Ignore => Inv'
<1> SUFFICES ASSUME Inv, Ignore PROVE Inv'
  OBVIOUS
<1>1. PICK g, new : g = Head(waiting) /\ new = Relabel(seqs[g], "waiting", "finished")
  OBVIOUS
<1>2. /\ phase = "admit" /\ waiting # <<>> /\ HasOnePrompt(Head(waiting))
      /\ seqs' = [seqs EXCEPT ![g] = new] /\ ignored' = Append(ignored, g)
      /\ waiting' = Tail(waiting)
      /\ UNCHANGED <<engine, pool, answers, aborted, running, swapped, phase, kept, scheduled,
                     todo, restarts>>
  BY <1>1 DEF Ignore
<1>3. Lists /\ InStep /\ Placed /\ \A h \in Groups : IsGroup(seqs[h])
  BY <1>2 DEF Inv, Lists
<1>4. /\ g \in Groups /\ LiveIn(seqs[g]) = {"waiting"} /\ g \in Range(waiting)
      /\ waiting' \in Seq(Groups) /\ IsInjective(waiting') /\ Range(waiting') = Range(waiting) \ {g}
  BY <1>1, <1>2, WaitingHead
<1>5. IsGroup(new) /\ LiveIn(new) = {}
  <2>1. Turned(seqs[g], new, "waiting", "finished")
    BY <1>1, <1>3, <1>4, RelabelOf DEF Stages
  <2> QED
    BY <1>3, <1>4, <2>1, TurnedOf DEF Stages
<1>6. /\ Groups' = Groups /\ seqs' \in Seq(Range(seqs'))
      /\ \A h \in Groups : IsGroup(seqs'[h]) /\ seqs'[h] = IF h = g THEN new ELSE seqs[h]
  BY <1>2, <1>3, <1>4, <1>5, OneGroup
<1>7. ignored' \in Seq(Groups) /\ Range(ignored') = Range(ignored) \cup {g}
  BY <1>2, <1>3, <1>4, QueuesInStep, AppendOf
<1>8. Lists'
  <2>1. QueuesOfGroups'
    BY <1>2, <1>3, <1>4, <1>6, <1>7 DEF Lists, QueuesOfGroups
  <2> QED
    BY <1>2, <1>3, <1>6, <2>1 DEF Lists
<1>9. InStep'
  BY <1>2, <1>3 DEF InStep
<1>10. Placed'
  <2>1. ASSUME NEW h \in Groups PROVE \E n \in 1 .. 6 : InPlace(h, n)' /\ InStage(h, n)'
    <3>1. PICK n \in 1 .. 6 : InPlace(h, n) /\ InStage(h, n)
      BY <1>3 DEF Placed
    <3>2. CASE h = g
      <4>1. n = 1
        BY <1>4, <3>1, <3>2 DEF InPlace
      <4>2. InPlace(g, 4)' /\ InStage(g, 4)'
        BY <1>2, <1>4, <1>5, <1>6, <1>7, <3>1, <3>2, <4>1 DEF InPlace, InStage, Active
      <4> QED
        BY <3>2, <4>2
    <3>3. CASE h # g
      <4>1. InPlace(h, n)'
        BY <1>2, <1>4, <1>7, <3>1, <3>3 DEF InPlace, Active
      <4>2. InStage(h, n)'
        BY <1>2, <1>6, <3>1, <3>3 DEF InStage, Done
      <4> QED
        BY <4>1, <4>2
    <3> QED
      BY <3>2, <3>3
  <2> QED
    BY <1>2, <1>3, <1>4, <1>6, <2>1 DEF Placed
<1> QED
  BY <1>8, <1>9, <1>10 DEF Inv

LEMMA AdmitInv == Inv /\ Admit => Inv'
<1> SUFFICES ASSUME Inv, Admit PROVE Inv'
  OBVIOUS
<1>1. PICK g, got, new : /\ g = Head(waiting) /\ got = Allocate(pool, Prompt(g), Len(seqs[g]))
                         /\ new = Relabel(Tabled(seqs[g], [i \in Having(g, "waiting") |-> got.table]),
                                          "waiting", "running")
  OBVIOUS
<1>2. /\ phase = "admit" /\ waiting # <<>> /\ HasOnePrompt(Head(waiting))
      /\ pool' = got.pool /\ seqs' = [seqs EXCEPT ![g] = new]
      /\ running' = Append(running, g) /\ scheduled' = Append(scheduled, g)
      /\ waiting' = Tail(waiting)
      /\ UNCHANGED <<engine, answers, aborted, swapped, phase, kept, ignored, todo, restarts>>
  BY <1>1 DEF Admit
<1>3. Lists /\ InStep /\ Placed /\ IsPool(pool) /\ \A h \in Groups : IsGroup(seqs[h])
  BY <1>2 DEF Inv, Lists
<1>4. /\ g \in Groups /\ LiveIn(seqs[g]) = {"waiting"} /\ g \in Range(waiting)
      /\ waiting' \in Seq(Groups) /\ IsInjective(waiting') /\ Range(waiting') = Range(waiting) \ {g}
  BY <1>1, <1>2, WaitingHead
<1>5. IsGroup(new) /\ LiveIn(new) = {"running"}
  <2>1. Turned(seqs[g], new, "waiting", "running")
    BY <1>1, <1>3, <1>4, TabledAndRelabelled DEF Stages
  <2> QED
    BY <1>3, <1>4, <2>1, TurnedOf DEF Stages
<1>6. /\ Groups' = Groups /\ seqs' \in Seq(Range(seqs'))
      /\ \A h \in Groups : IsGroup(seqs'[h]) /\ seqs'[h] = IF h = g THEN new ELSE seqs[h]
  BY <1>2, <1>3, <1>4, <1>5, OneGroup
<1>7. g \notin Range(running) /\ g \notin Range(kept) /\ g \notin Range(scheduled)
  <2>1. g \notin Active
    BY <1>3, <1>4 DEF Placed, InPlace
  <2> QED
    BY <1>2, <1>3, <2>1 DEF Active, InStep
<1>8. /\ running' \in Seq(Groups) /\ Range(running') = Range(running) \cup {g} /\ IsInjective(running')
      /\ scheduled' \in Seq(Groups) /\ Range(scheduled') = Range(scheduled) \cup {g}
      /\ IsInjective(scheduled')
  BY <1>2, <1>3, <1>4, <1>7, QueuesInStep, AppendOf DEF Placed, InStep
<1>9. Lists'
  <2>1. QueuesOfGroups'
    BY <1>2, <1>3, <1>4, <1>6, <1>8 DEF Lists, QueuesOfGroups
  <2>2. IsPool(pool')
    BY <1>1, <1>2, <1>3, PoolAfter
  <2> QED
    BY <1>2, <1>3, <1>6, <2>1, <2>2 DEF Lists
<1>10. InStep'
  BY <1>2, <1>3, <1>8 DEF InStep
<1>11. Placed'
  <2>1. ASSUME NEW h \in Groups PROVE \E n \in 1 .. 6 : InPlace(h, n)' /\ InStage(h, n)'
    <3>1. PICK n \in 1 .. 6 : InPlace(h, n) /\ InStage(h, n)
      BY <1>3 DEF Placed
    <3>2. CASE h = g
      <4>1. n = 1
        BY <1>4, <3>1, <3>2 DEF InPlace
      <4>2. InPlace(g, 2)' /\ InStage(g, 2)'
        BY <1>2, <1>4, <1>5, <1>6, <1>8, <3>1, <3>2, <4>1 DEF InPlace, InStage, Active
      <4> QED
        BY <3>2, <4>2
    <3>3. CASE h # g
      <4>1. InPlace(h, n)'
        BY <1>2, <1>4, <1>8, <3>1, <3>3 DEF InPlace, Active
      <4>2. InStage(h, n)'
        BY <1>2, <1>6, <3>1, <3>3 DEF InStage, Done
      <4> QED
        BY <4>1, <4>2
    <3> QED
      BY <3>2, <3>3
  <2> QED
    BY <1>2, <1>3, <1>4, <1>6, <1>7, <1>8, <2>1 DEF Placed
<1> QED
  BY <1>9, <1>10, <1>11 DEF Inv

LEMMA EndAdmissionInv == Inv /\ EndAdmission => Inv'
<1> SUFFICES ASSUME Inv, EndAdmission PROVE Inv'
  OBVIOUS
<1>1. /\ phase = "admit"
      /\ \/ phase' = "outputs" /\ todo' = scheduled /\ UNCHANGED running
         \/ phase' = "decode" /\ running' = Sorted(running) /\ scheduled \o ignored = <<>> /\ UNCHANGED todo
      /\ UNCHANGED <<engine, pool, seqs, answers, aborted, waiting, swapped, kept, scheduled,
                     ignored, restarts>>
  BY DEF EndAdmission
<1>2. Lists /\ InStep /\ Placed
  BY <1>1 DEF Inv
<1>3. /\ running' \in Seq(Groups) /\ Range(running') = Range(running) /\ IsInjective(running')
      /\ todo' \in Seq(Groups)
  BY <1>1, <1>2, QueuesInStep, SortedOf DEF Placed
<1>4. scheduled \o ignored = <<>> => scheduled = <<>> /\ ignored = <<>>
  BY <1>2, QueuesInStep
<1>5. Lists'
  <2>1. QueuesOfGroups'
    BY <1>1, <1>2, <1>3 DEF Lists, QueuesOfGroups, Groups
  <2> QED
    BY <1>1, <1>2, <2>1 DEF Lists, Phases, Groups
<1>6. InStep'
  BY <1>1, <1>2, <1>3, <1>4 DEF InStep
<1>7. Placed'
  <2>1. ASSUME NEW h \in Groups PROVE \E n \in 1 .. 6 : InPlace(h, n)' /\ InStage(h, n)'
    <3>1. PICK n \in 1 .. 6 : InPlace(h, n) /\ InStage(h, n)
      BY <1>2 DEF Placed
    <3>2. InPlace(h, n)'
      BY <1>1, <1>3, <3>1 DEF InPlace, Active
    <3>3. InStage(h, n)'
      BY <1>1, <3>1 DEF InStage, Done
    <3> QED
      BY <3>2, <3>3
  <2> QED
    BY <1>1, <1>2, <1>3, <2>1 DEF Placed, Groups
<1> QED
  BY <1>5, <1>6, <1>7 DEF Inv

----------------------------------------------------------------------------
(* Slots and preemption.                                                    *)
LEMMA GiveSlotsInv == Inv /\ GiveSlots => Inv'
<1> SUFFICES ASSUME Inv, GiveSlots PROVE Inv'
  OBVIOUS
<1>1. PICK g, new : g = Head(running) /\ new = AppendSlots(pool, seqs[g]).list
  OBVIOUS
<1>2. /\ phase = "decode" /\ phase' \in {"decode", "failed"} /\ running # <<>>
      /\ pool' = AppendSlots(pool, seqs[g]).pool /\ seqs' = [seqs EXCEPT ![g] = new]
      /\ kept' = Append(kept, g) /\ running' = Tail(running)
      /\ UNCHANGED <<engine, answers, aborted, waiting, swapped, scheduled, ignored, todo, restarts>>
  BY <1>1 DEF GiveSlots, Goto
<1>3. Lists /\ InStep /\ Placed /\ IsPool(pool) /\ \A h \in Groups : IsGroup(seqs[h])
  BY <1>2 DEF Inv, Lists
<1>4. /\ g \in Groups /\ running' \in Seq(Groups) /\ IsInjective(running')
      /\ Range(running) = Range(running') \cup {g} /\ g \notin Range(running')
  BY <1>1, <1>2, <1>3, QueuesInStep, TailOf DEF Placed
<1>5. IsGroup(new) /\ LiveIn(new) = LiveIn(seqs[g])
  <2>1. Turned(seqs[g], new, "finished", "finished")
    BY <1>1, <1>3, <1>4, AppendSlotsOf
  <2> QED
    BY <1>3, <1>4, <2>1, TurnedOf DEF Stages
<1>6. /\ Groups' = Groups /\ seqs' \in Seq(Range(seqs'))
      /\ \A h \in Groups : IsGroup(seqs'[h]) /\ LiveIn(seqs'[h]) = LiveIn(seqs[h])
  <2>1. /\ Groups' = Groups /\ seqs' \in Seq(Range(seqs'))
        /\ \A h \in Groups : IsGroup(seqs'[h]) /\ seqs'[h] = IF h = g THEN new ELSE seqs[h]
    BY <1>2, <1>3, <1>4, <1>5, OneGroup
  <2> QED
    BY <1>5, <2>1
<1>7. kept' \in Seq(Groups) /\ Range(kept') = Range(kept) \cup {g} /\ IsInjective(kept')
  <2>1. g \notin Range(kept) /\ IsInjective(kept)
    BY <1>3, <1>4 DEF Placed
  <2> QED
    BY <1>2, <1>3, <1>4, <2>1, QueuesInStep, AppendOf
<1>8. Lists'
  <2>1. QueuesOfGroups'
    BY <1>2, <1>3, <1>4, <1>6, <1>7 DEF Lists, QueuesOfGroups
  <2>2. IsPool(pool')
    BY <1>1, <1>2, <1>3, PoolAfter
  <2> QED
    BY <1>2, <1>3, <1>6, <2>1, <2>2 DEF Lists, Phases
<1>9. InStep'
  BY <1>2, <1>3 DEF InStep
<1>10. Placed'
  <2>1. Active' = Active
    BY <1>4, <1>7 DEF Active
  <2>2. ASSUME NEW h \in Groups PROVE \E n \in 1 .. 6 : InPlace(h, n)' /\ InStage(h, n)'
    <3>1. PICK n \in 1 .. 6 : InPlace(h, n) /\ InStage(h, n)
      BY <1>3 DEF Placed
    <3>2. InPlace(h, n)'
      BY <1>2, <2>1, <3>1 DEF InPlace
    <3>3. InStage(h, n)'
      BY <1>2, <1>6, <3>1 DEF InStage, Done
    <3> QED
      BY <3>2, <3>3
  <2> QED
    BY <1>2, <1>3, <1>4, <1>6, <1>7, <2>2 DEF Placed
<1> QED
  BY <1>8, <1>9, <1>10 DEF Inv

(* The outcomes of a preemption: the victim waits or is swapped out with its *)
(* sequences, or an exception is raised.                                    *)
Recomputed(v) ==
  \E new : /\ IsGroup(new) /\ LiveIn(new) = {"waiting"} /\ Turned(seqs[v], new, "running", "waiting")
           /\ seqs' = [seqs EXCEPT ![v] = new] /\ waiting' = <<v>> \o waiting
           /\ MaxRunning(v) = 1 /\ UNCHANGED swapped
SwappedOut(v) ==
  \E new : /\ IsGroup(new) /\ LiveIn(new) = {"swapped"} /\ Turned(seqs[v], new, "running", "swapped")
           /\ seqs' = [seqs EXCEPT ![v] = new] /\ swapped' = Append(swapped, v)
           /\ MaxRunning(v) # 1 /\ UNCHANGED waiting
Raised == phase' = "failed" /\ UNCHANGED <<seqs, waiting, swapped>>

LEMMA PreemptOf ==
    ASSUME Inv, Preempt
    PROVE  \E v \in Groups :
             /\ v = Last(running) /\ LiveIn(seqs[v]) = {"running"}
             /\ running' \in Seq(Groups) /\ IsInjective(running') /\ running' = Front(running)
             /\ Range(running) = Range(running') \cup {v} /\ v \notin Range(running')
             /\ IsPool(pool') /\ phase = "decode" /\ phase' \in {"decode", "failed"}
             /\ UNCHANGED <<engine, answers, aborted, kept, scheduled, ignored, todo, restarts>>
             /\ Recomputed(v) \/ SwappedOut(v) \/ Raised
<1>1. PICK v : v = Last(running)
  OBVIOUS
<1>2. /\ phase = "decode" /\ running # <<>> /\ running' = Front(running)
      /\ Recompute(v) \/ SwapOut(v)
      /\ phase' = IF pool'.error = "none" THEN "decode" ELSE "failed"
      /\ UNCHANGED <<engine, answers, aborted, kept, scheduled, ignored, todo, restarts>>
  BY <1>1 DEF Preempt, Goto
<1>3. Lists /\ InStep /\ Placed /\ IsPool(pool) /\ \A h \in Groups : IsGroup(seqs[h])
  BY <1>2 DEF Inv, Lists
<1>4. /\ v \in Groups /\ running' \in Seq(Groups) /\ IsInjective(running')
      /\ Range(running) = Range(running') \cup {v} /\ v \notin Range(running')
  BY <1>1, <1>2, <1>3, QueuesInStep, FrontOf DEF Placed
<1>5. LiveIn(seqs[v]) = {"running"}
  <2>1. v \in Active
    BY <1>4 DEF Active
  <2> QED
    BY <1>2, <1>3, <1>4, <2>1 DEF Placed, InPlace, InStage, Done
<1>6. CASE Recompute(v)
  <2>1. CASE pool' = Raise(pool, "assertion") /\ UNCHANGED <<seqs, waiting, swapped>>
    <3>1. IsPool(pool') /\ pool'.error # "none"
      BY <1>3, <2>1, RaiseOf
    <3>2. Raised
      BY <1>2, <2>1, <3>1 DEF Raised
    <3> QED
      BY <1>1, <1>2, <1>4, <1>5, <3>1, <3>2
  <2>2. CASE ~(pool' = Raise(pool, "assertion") /\ UNCHANGED <<seqs, waiting, swapped>>)
    <3>1. PICK new : new = Relabel(Tabled(seqs[v], [i \in Having(v, "running") |-> <<>>]), "running", "waiting")
      OBVIOUS
    <3>2. /\ MaxRunning(v) = 1 /\ pool' = Give(pool, With(v, "running")[1].table)
          /\ seqs' = [seqs EXCEPT ![v] = new] /\ waiting' = <<v>> \o waiting /\ UNCHANGED swapped
      BY <1>6, <2>2, <3>1 DEF Recompute, Requeue
    <3>3. IsGroup(new) /\ Turned(seqs[v], new, "running", "waiting")
      BY <1>3, <1>4, <3>1, TabledAndRelabelled DEF Stages
    <3>4. LiveIn(new) = {"waiting"}
      BY <1>3, <1>4, <1>5, <3>3, TurnedOf DEF Stages
    <3>5. IsPool(pool')
      BY <1>3, <3>2, GiveOf
    <3>6. Recomputed(v)
      BY <3>2, <3>3, <3>4 DEF Recomputed
    <3> QED
      BY <1>1, <1>2, <1>4, <1>5, <3>5, <3>6
  <2> QED
    BY <2>1, <2>2
<1>7. CASE SwapOut(v)
  <2>1. CASE pool' = Raise(pool, "no swap space") /\ UNCHANGED <<seqs, waiting, swapped>>
    <3>1. IsPool(pool') /\ pool'.error # "none"
      BY <1>3, <2>1, RaiseOf
    <3>2. Raised
      BY <1>2, <2>1, <3>1 DEF Raised
    <3> QED
      BY <1>1, <1>2, <1>4, <1>5, <3>1, <3>2
  <2>2. CASE ~(pool' = Raise(pool, "no swap space") /\ UNCHANGED <<seqs, waiting, swapped>>)
    <3>1. PICK moved : moved = SwapTo("cpu", pool, Entries(With(v, "running")))
      OBVIOUS
    <3>2. PICK new : new = Relabel(RenamedAll(seqs[v], moved.to), "running", "swapped")
      OBVIOUS
    <3>3. /\ MaxRunning(v) # 1 /\ pool' = moved.pool
          /\ seqs' = [seqs EXCEPT ![v] = new] /\ swapped' = Append(swapped, v) /\ UNCHANGED waiting
      BY <1>3, <1>4, <1>7, <2>2, <3>1, <3>2 DEF SwapOut, Lists, Groups
    <3>4. IsGroup(new) /\ Turned(seqs[v], new, "running", "swapped")
      BY <1>3, <1>4, <3>2, TabledAndRelabelled DEF RenamedAll, Stages
    <3>5. LiveIn(new) = {"swapped"}
      BY <1>3, <1>4, <1>5, <3>4, TurnedOf DEF Stages
    <3>6. IsPool(pool')
      BY <1>3, <3>1, <3>3, PoolAfter
    <3>7. SwappedOut(v)
      BY <3>3, <3>4, <3>5 DEF SwappedOut
    <3> QED
      BY <1>1, <1>2, <1>4, <1>5, <3>6, <3>7
  <2> QED
    BY <2>1, <2>2
<1> QED
  BY <1>2, <1>6, <1>7

LEMMA PreemptInv == Inv /\ Preempt => Inv'
<1> SUFFICES ASSUME Inv, Preempt PROVE Inv'
  OBVIOUS
<1>1. PICK v \in Groups :
        /\ v = Last(running) /\ LiveIn(seqs[v]) = {"running"}
        /\ running' \in Seq(Groups) /\ IsInjective(running')
        /\ Range(running) = Range(running') \cup {v} /\ v \notin Range(running')
        /\ IsPool(pool') /\ phase = "decode" /\ phase' \in {"decode", "failed"}
        /\ UNCHANGED <<engine, answers, aborted, kept, scheduled, ignored, todo, restarts>>
        /\ Recomputed(v) \/ SwappedOut(v) \/ Raised
  BY PreemptOf
<1>2. Lists /\ InStep /\ Placed /\ \A h \in Groups : IsGroup(seqs[h])
  BY <1>1 DEF Inv, Lists
<1>3. v \in Range(running) /\ v \notin Range(kept) /\ v \in Active /\ Active' = Active \ {v}
  BY <1>1, <1>2 DEF Placed, Active
<1>4. v \notin Range(waiting) /\ v \notin Range(swapped)
  BY <1>2, <1>3 DEF Placed, InPlace
<1>5. InStep'
  BY <1>1, <1>2 DEF InStep
<1>6. ASSUME NEW new, NEW n,
             /\ IsGroup(new) /\ seqs' = [seqs EXCEPT ![v] = new]
             /\ waiting' \in Seq(Groups) /\ swapped' \in Seq(Groups)
             /\ IsInjective(waiting') /\ IsInjective(swapped'),
             \/ /\ n = 1 /\ LiveIn(new) = {"waiting"}
                /\ Range(waiting') = Range(waiting) \cup {v} /\ Range(swapped') = Range(swapped)
             \/ /\ n = 3 /\ LiveIn(new) = {"swapped"}
                /\ Range(waiting') = Range(waiting) /\ Range(swapped') = Range(swapped) \cup {v}
      PROVE  Lists' /\ Placed'
  <2>1. /\ Groups' = Groups /\ seqs' \in Seq(Range(seqs'))
        /\ \A h \in Groups : IsGroup(seqs'[h]) /\ seqs'[h] = IF h = v THEN new ELSE seqs[h]
    <3>1. Lists /\ IsGroup(new) /\ seqs' = [seqs EXCEPT ![v] = new]
      BY <1>2, <1>6
    <3> QED
      BY <3>1, OneGroup
  <2>2. Lists'
    <3>1. QueuesOfGroups'
      BY <1>1, <1>2, <1>6, <2>1 DEF Lists, QueuesOfGroups
    <3> QED
      BY <1>1, <1>2, <2>1, <3>1 DEF Lists, Phases
  <2>3. ASSUME NEW h \in Groups PROVE \E m \in 1 .. 6 : InPlace(h, m)' /\ InStage(h, m)'
    <3>1. PICK m \in 1 .. 6 : InPlace(h, m) /\ InStage(h, m)
      BY <1>2 DEF Placed
    <3>2. CASE h = v
      <4>1. m = 2
        BY <1>3, <3>1, <3>2 DEF InPlace
      <4>2. InPlace(v, n)'
        BY <1>1, <1>3, <1>4, <1>6, <3>1, <3>2, <4>1 DEF InPlace
      <4>3. InStage(v, n)' /\ n \in 1 .. 6
        BY <1>6, <2>1 DEF InStage
      <4> QED
        BY <3>2, <4>2, <4>3
    <3>3. CASE h # v
      <4>1. InPlace(h, m)'
        BY <1>1, <1>3, <1>6, <3>1, <3>3 DEF InPlace
      <4>2. InStage(h, m)'
        BY <1>1, <2>1, <3>1, <3>3 DEF InStage, Done
      <4> QED
        BY <4>1, <4>2
    <3> QED
      BY <3>2, <3>3
  <2> QED
    BY <1>1, <1>2, <1>6, <2>1, <2>2, <2>3 DEF Placed
<1>7. CASE Recomputed(v)
  <2>1. PICK new : /\ IsGroup(new) /\ LiveIn(new) = {"waiting"}
                   /\ seqs' = [seqs EXCEPT ![v] = new] /\ waiting' = <<v>> \o waiting /\ UNCHANGED swapped
    BY <1>7 DEF Recomputed
  <2>2. PICK one : one = <<v>>
    OBVIOUS
  <2>3. one \in Seq(Groups) /\ Range(one) = {v} /\ IsInjective(one)
    BY <2>2 DEF Range, IsInjective
  <2>4. waiting' \in Seq(Groups) /\ Range(waiting') = Range(waiting) \cup {v} /\ IsInjective(waiting')
    <3>1. IsInjective(waiting) /\ waiting \in Seq(Groups)
      BY <1>2, QueuesInStep DEF Placed
    <3>2. Range(one) \cap Range(waiting) = {}
      BY <1>4, <2>3
    <3>3. one \o waiting \in Seq(Groups) /\ Range(one \o waiting) = Range(one) \cup Range(waiting)
          /\ IsInjective(one \o waiting)
      BY <2>3, <3>1, <3>2, ConcatOf
    <3> QED
      BY <2>1, <2>2, <2>3, <3>3
  <2>5. IsInjective(swapped) /\ swapped \in Seq(Groups)
    BY <1>2, QueuesInStep DEF Placed
  <2>6. Lists' /\ Placed'
    BY <1>6, <2>1, <2>4, <2>5
  <2> QED
    BY <1>5, <2>6 DEF Inv
<1>8. CASE SwappedOut(v)
  <2>1. PICK new : /\ IsGroup(new) /\ LiveIn(new) = {"swapped"}
                   /\ seqs' = [seqs EXCEPT ![v] = new] /\ swapped' = Append(swapped, v) /\ UNCHANGED waiting
    BY <1>8 DEF SwappedOut
  <2>2. IsInjective(waiting) /\ waiting \in Seq(Groups) /\ IsInjective(swapped) /\ swapped \in Seq(Groups)
    BY <1>2, QueuesInStep DEF Placed
  <2>3. swapped' \in Seq(Groups) /\ Range(swapped') = Range(swapped) \cup {v} /\ IsInjective(swapped')
    BY <1>4, <2>1, <2>2, AppendOf
  <2>4. Lists' /\ Placed'
    BY <1>6, <2>1, <2>2, <2>3
  <2> QED
    BY <1>5, <2>4 DEF Inv
<1>9. CASE Raised
  <2>1. Lists'
    <3>1. QueuesOfGroups'
      BY <1>1, <1>2, <1>9 DEF Lists, QueuesOfGroups, Raised, Groups
    <3> QED
      BY <1>1, <1>2, <1>9, <3>1 DEF Lists, Phases, Raised, Groups
  <2> QED
    BY <1>5, <1>9, <2>1 DEF Inv, Raised
<1> QED
  BY <1>1, <1>7, <1>8, <1>9

LEMMA EndDecodeInv == Inv /\ EndDecode => Inv'
<1> SUFFICES ASSUME Inv, EndDecode PROVE Inv'
  OBVIOUS
<1>1. /\ phase = "decode" /\ running = <<>> /\ running' = kept /\ kept' = <<>>
      /\ swapped' = Sorted(swapped)
      /\ \/ phase' = "outputs" /\ scheduled' = kept /\ todo' = kept
         \/ phase' = "swapin" /\ UNCHANGED <<scheduled, todo>>
      /\ UNCHANGED <<engine, pool, seqs, answers, aborted, waiting, ignored, restarts>>
  BY DEF EndDecode
<1>2. Lists /\ InStep /\ Placed
  BY <1>1 DEF Inv
<1>3. /\ kept \in Seq(Groups) /\ swapped \in Seq(Groups) /\ <<>> \in Seq(Groups)
      /\ IsInjective(kept) /\ IsInjective(<<>>) /\ Range(<<>>) = {}
  BY <1>2, QueuesInStep DEF Placed
<1>4. swapped' \in Seq(Groups) /\ Range(swapped') = Range(swapped) /\ IsInjective(swapped')
  BY <1>1, <1>2, QueuesInStep, SortedOf
<1>5. Lists'
  <2>1. QueuesOfGroups'
    BY <1>1, <1>2, <1>3, <1>4 DEF Lists, QueuesOfGroups, Groups
  <2> QED
    BY <1>1, <1>2, <2>1 DEF Lists, Phases, Groups
<1>6. InStep'
  BY <1>1, <1>2, <1>3 DEF InStep
<1>7. Placed'
  <2>1. Active' = Active
    BY <1>1, <1>3 DEF Active
  <2>2. ASSUME NEW h \in Groups PROVE \E n \in 1 .. 6 : InPlace(h, n)' /\ InStage(h, n)'
    <3>1. PICK n \in 1 .. 6 : InPlace(h, n) /\ InStage(h, n)
      BY <1>2 DEF Placed
    <3>2. InPlace(h, n)'
      BY <1>1, <1>4, <2>1, <3>1 DEF InPlace
    <3>3. InStage(h, n)'
      BY <1>1, <3>1 DEF InStage, Done
    <3> QED
      BY <3>2, <3>3
  <2> QED
    BY <1>1, <1>2, <1>3, <1>4, <2>2 DEF Placed, Groups
<1> QED
  BY <1>5, <1>6, <1>7 DEF Inv

----------------------------------------------------------------------------
(* Resumption.                                                              *)
LEMMA SwapInInv == Inv /\ SwapIn => Inv'
<1> SUFFICES ASSUME Inv, SwapIn PROVE Inv'
  OBVIOUS
<1>1. PICK g, moved : g = Head(swapped) /\ moved = SwapTo("gpu", pool, Entries(With(g, "swapped")))
  OBVIOUS
<1>2. PICK back : back = Relabel(RenamedAll(seqs[g], moved.to), "swapped", "running")
  OBVIOUS
<1>3. PICK new : new = AppendSlots(moved.pool, back).list
  OBVIOUS
<1>4. /\ phase = "swapin" /\ phase' \in {"swapin", "failed"} /\ swapped # <<>>
      /\ pool' = AppendSlots(moved.pool, back).pool
      /\ seqs' = [seqs EXCEPT ![g] = new]
      /\ running' = Append(running, g) /\ swapped' = Tail(swapped)
      /\ UNCHANGED <<engine, answers, aborted, waiting, kept, scheduled, ignored, todo, restarts>>
  BY <1>1, <1>2, <1>3 DEF SwapIn, Goto
<1>5. Lists /\ InStep /\ Placed /\ IsPool(pool) /\ \A h \in Groups : IsGroup(seqs[h])
  BY <1>4 DEF Inv, Lists
<1>6. /\ g \in Groups /\ swapped' \in Seq(Groups) /\ IsInjective(swapped')
      /\ Range(swapped) = Range(swapped') \cup {g} /\ g \notin Range(swapped')
  BY <1>1, <1>4, <1>5, QueuesInStep, TailOf DEF Placed
<1>7. LiveIn(seqs[g]) = {"swapped"} /\ g \notin Active
  BY <1>5, <1>6 DEF Placed, InPlace, InStage
<1>8. IsGroup(new) /\ LiveIn(new) = {"running"}
  <2>1. IsGroup(back) /\ Turned(seqs[g], back, "swapped", "running")
    BY <1>2, <1>5, <1>6, TabledAndRelabelled DEF RenamedAll, Stages
  <2>2. Turned(back, new, "finished", "finished")
    BY <1>3, <2>1, AppendSlotsOf
  <2>3. Turned(seqs[g], new, "swapped", "running")
    BY <2>1, <2>2, TurnedTwice
  <2> QED
    BY <1>5, <1>6, <1>7, <2>3, TurnedOf DEF Stages
<1>9. /\ Groups' = Groups /\ seqs' \in Seq(Range(seqs'))
      /\ \A h \in Groups : IsGroup(seqs'[h]) /\ seqs'[h] = IF h = g THEN new ELSE seqs[h]
  BY <1>4, <1>5, <1>6, <1>8, OneGroup
<1>10. running' \in Seq(Groups) /\ Range(running') = Range(running) \cup {g} /\ IsInjective(running')
  BY <1>4, <1>5, <1>6, <1>7, QueuesInStep, AppendOf DEF Placed, Active
<1>11. Lists'
  <2>1. QueuesOfGroups'
    BY <1>4, <1>5, <1>6, <1>9, <1>10 DEF Lists, QueuesOfGroups
  <2>2. IsPool(moved.pool)
    BY <1>1, <1>5, PoolAfter
  <2>3. IsPool(pool')
    BY <1>4, <2>2, PoolAfter
  <2> QED
    BY <1>4, <1>5, <1>9, <2>1, <2>3 DEF Lists, Phases
<1>12. InStep'
  BY <1>4, <1>5 DEF InStep
<1>13. Placed'
  <2>1. ASSUME NEW h \in Groups PROVE \E n \in 1 .. 6 : InPlace(h, n)' /\ InStage(h, n)'
    <3>1. PICK n \in 1 .. 6 : InPlace(h, n) /\ InStage(h, n)
      BY <1>5 DEF Placed
    <3>2. CASE h = g
      <4>1. n = 3
        BY <1>6, <3>1, <3>2 DEF InPlace
      <4>2. InPlace(g, 2)' /\ InStage(g, 2)'
        BY <1>4, <1>6, <1>8, <1>9, <1>10, <3>1, <3>2, <4>1 DEF InPlace, InStage, Active
      <4> QED
        BY <3>2, <4>2
    <3>3. CASE h # g
      <4>1. InPlace(h, n)'
        BY <1>4, <1>6, <1>10, <3>1, <3>3 DEF InPlace, Active
      <4>2. InStage(h, n)'
        BY <1>4, <1>9, <3>1, <3>3 DEF InStage, Done
      <4> QED
        BY <4>1, <4>2
    <3> QED
      BY <3>2, <3>3
  <2> QED
    BY <1>4, <1>5, <1>6, <1>7, <1>9, <1>10, <2>1 DEF Placed, Active
<1> QED
  BY <1>11, <1>12, <1>13 DEF Inv

LEMMA EndSwapInInv == Inv /\ EndSwapIn => Inv'
<1> SUFFICES ASSUME Inv, EndSwapIn PROVE Inv'
  OBVIOUS
<1>1. /\ phase = "swapin" /\ phase' = "outputs" /\ scheduled' = running /\ todo' = running
      /\ UNCHANGED <<engine, pool, seqs, answers, aborted, waiting, running, swapped, kept, ignored, restarts>>
  BY DEF EndSwapIn, queues
<1>2. Lists /\ InStep /\ Placed
  BY <1>1 DEF Inv
<1>3. Lists'
  <2>1. QueuesOfGroups'
    BY <1>1, <1>2 DEF Lists, QueuesOfGroups, Groups
  <2> QED
    BY <1>1, <1>2, <2>1 DEF Lists, Phases, Groups
<1>4. InStep'
  BY <1>1, <1>2 DEF InStep, Placed
<1>5. Placed'
  <2>1. ASSUME NEW h \in Groups PROVE \E n \in 1 .. 6 : InPlace(h, n)' /\ InStage(h, n)'
    <3>1. PICK n \in 1 .. 6 : InPlace(h, n) /\ InStage(h, n)
      BY <1>2 DEF Placed
    <3>2. InPlace(h, n)'
      BY <1>1, <3>1 DEF InPlace, Active
    <3>3. InStage(h, n)'
      BY <1>1, <3>1 DEF InStage, Done
    <3> QED
      BY <3>2, <3>3
  <2> QED
    BY <1>1, <1>2, <2>1 DEF Placed, Groups
<1> QED
  BY <1>3, <1>4, <1>5 DEF Inv

----------------------------------------------------------------------------
(* Outputs.                                                                 *)
LEMMA ProcessGroupOf ==
    ASSUME Inv, ProcessGroup
    PROVE  \E g \in Groups : \E new :
             /\ phase = "outputs" /\ phase' \in {"outputs", "failed"} /\ IsPool(pool')
             /\ LiveIn(seqs[g]) = {"running"} /\ todo' \in Seq(Groups)
             /\ Range(todo) = Range(todo') \cup {g} /\ g \notin Range(todo') /\ IsInjective(todo')
             /\ seqs' = [seqs EXCEPT ![g] = new] /\ IsGroup(new) /\ LiveIn(new) \subseteq {"running"}
             /\ GrownFrom(g, new)
             /\ ~Sampling(g).beam =>
                  /\ Single(g) => Len(new) = Len(seqs[g])
                  /\ ~Sampling(g).stops /\ Together(seqs[g]) => Together(new)
             /\ UNCHANGED <<engine, answers, aborted, waiting, running, swapped, kept, scheduled,
                            ignored, restarts>>
<1>1. PICK g : g = Head(todo)
  OBVIOUS
<1>2. /\ phase = "outputs" /\ todo # <<>> /\ (Sample(g) \/ BeamStep(g)) /\ todo' = Tail(todo)
      /\ phase' \in {"outputs", "failed"}
      /\ UNCHANGED <<engine, answers, aborted, waiting, running, swapped, kept, scheduled, ignored, restarts>>
  BY <1>1 DEF ProcessGroup, Goto, queues
<1>3. Lists /\ InStep /\ Placed /\ IsPool(pool)
  BY <1>2 DEF Inv, Lists
<1>4. /\ g \in Groups /\ todo' \in Seq(Groups) /\ IsInjective(todo')
      /\ Range(todo) = Range(todo') \cup {g} /\ g \notin Range(todo')
  BY <1>1, <1>2, <1>3, QueuesInStep, TailOf DEF InStep
<1>5. LiveIn(seqs[g]) = {"running"}
  <2>1. g \in Range(todo) /\ g \in Range(running)
    BY <1>2, <1>3, <1>4 DEF InStep
  <2>2. g \in Active
    BY <2>1 DEF Active
  <2> QED
    BY <1>3, <1>4, <2>1, <2>2 DEF Placed, InPlace, InStage, Done
<1>6. CASE Sample(g)
  <2>1. PICK new : /\ seqs' = [seqs EXCEPT ![g] = new]
                   /\ IsGroup(new) /\ LiveIn(new) \subseteq {"running"} /\ GrownFrom(g, new)
                   /\ Single(g) => Len(new) = Len(seqs[g])
                   /\ ~Sampling(g).stops /\ Together(seqs[g]) => Together(new)
    BY <1>3, <1>4, <1>5, <1>6, SampleOf
  <2>2. \E list, back : pool' = Give(Share(pool, list), back)
    BY <1>6 DEF Sample
  <2>3. IsPool(pool')
    BY <1>3, <2>2, PoolAfter, GiveOf
  <2> QED
    BY <1>2, <1>4, <1>5, <2>1, <2>3
<1>7. CASE BeamStep(g)
  <2>1. PICK new : /\ seqs' = [seqs EXCEPT ![g] = new]
                   /\ IsGroup(new) /\ LiveIn(new) \subseteq {"running"} /\ GrownFrom(g, new)
    BY <1>3, <1>4, <1>5, <1>7, BeamOf
  <2>2. \E list, back : pool' = Give(Share(pool, list), back)
    BY <1>7 DEF BeamStep
  <2>3. IsPool(pool')
    BY <1>3, <2>2, PoolAfter, GiveOf
  <2>4. Sampling(g).beam
    BY <1>7 DEF BeamStep
  <2> QED
    BY <1>2, <1>4, <1>5, <2>1, <2>3, <2>4
<1> QED
  BY <1>2, <1>6, <1>7

LEMMA ProcessGroupInv == Inv /\ ProcessGroup => Inv'
<1> SUFFICES ASSUME Inv, ProcessGroup PROVE Inv'
  OBVIOUS
<1>1. PICK g, new :
        /\ g \in Groups /\ phase = "outputs" /\ phase' \in {"outputs", "failed"} /\ IsPool(pool')
        /\ LiveIn(seqs[g]) = {"running"} /\ todo' \in Seq(Groups)
        /\ Range(todo) = Range(todo') \cup {g} /\ g \notin Range(todo') /\ IsInjective(todo')
        /\ seqs' = [seqs EXCEPT ![g] = new] /\ IsGroup(new) /\ LiveIn(new) \subseteq {"running"}
        /\ UNCHANGED <<engine, answers, aborted, waiting, running, swapped, kept, scheduled,
                       ignored, restarts>>
  BY ProcessGroupOf
<1>2. Lists /\ InStep /\ Placed
  BY <1>1 DEF Inv
<1>3. /\ Groups' = Groups /\ seqs' \in Seq(Range(seqs'))
      /\ \A h \in Groups : IsGroup(seqs'[h]) /\ seqs'[h] = IF h = g THEN new ELSE seqs[h]
  BY <1>1, <1>2, OneGroup
<1>4. Lists'
  <2>1. QueuesOfGroups'
    BY <1>1, <1>2, <1>3 DEF Lists, QueuesOfGroups
  <2> QED
    BY <1>1, <1>2, <1>3, <2>1 DEF Lists, Phases
<1>5. InStep'
  BY <1>1, <1>2 DEF InStep
<1>6. ASSUME phase' # "failed" PROVE Placed'
  <2>1. ASSUME NEW h \in Groups PROVE \E n \in 1 .. 6 : InPlace(h, n)' /\ InStage(h, n)'
    <3>1. PICK n \in 1 .. 6 : InPlace(h, n) /\ InStage(h, n)
      BY <1>2 DEF Placed
    <3>2. InPlace(h, n)'
      BY <1>1, <3>1 DEF InPlace, Active
    <3>3. CASE h = g
      <4>1. n = 2
        <5>1. g \in Active
          BY <1>1, <1>2 DEF InStep, Active
        <5> QED
          BY <3>1, <3>3, <5>1 DEF InPlace
      <4>2. LiveIn(seqs'[g]) = {"running"} \/ (LiveIn(seqs'[g]) = {} /\ Done(g)')
        <5>1. g \in Range(scheduled) /\ phase' = "outputs"
          BY <1>1, <1>2, <1>6 DEF InStep
        <5> QED
          BY <1>1, <1>3, <5>1 DEF Done
      <4> QED
        BY <3>2, <3>3, <4>1, <4>2 DEF InStage
    <3>4. CASE h # g
      <4>1. InStage(h, n)'
        BY <1>1, <1>3, <1>6, <3>1, <3>4 DEF InStage, Done
      <4> QED
        BY <3>2, <4>1
    <3> QED
      BY <3>3, <3>4
  <2> QED
    BY <1>1, <1>2, <1>3, <2>1 DEF Placed
<1> QED
  BY <1>4, <1>5, <1>6 DEF Inv

LEMMA EndStepOf ==
    ASSUME Inv, EndStep
    PROVE  /\ running' \in Seq(Groups) /\ IsInjective(running')
           /\ Range(running') = {h \in Range(running) : LiveIn(seqs[h]) # {}}
           /\ \A k, h \in DOMAIN running' : k < h =>
                 \E i, j \in DOMAIN running : i < j /\ running'[k] = running[i] /\ running'[h] = running[j]
<1>1. running' = Pick(running, {i \in DOMAIN running : ~GroupFinished(running[i])}) /\ phase = "outputs"
  BY DEF EndStep
<1>2. Lists /\ InStep /\ Placed
  BY <1>1 DEF Inv
<1>3. PICK I : I = {i \in DOMAIN running : ~GroupFinished(running[i])}
  OBVIOUS
<1>4. I \in SUBSET DOMAIN running /\ running \in Seq(Groups) /\ IsInjective(running)
  BY <1>2, <1>3, QueuesInStep DEF Placed
<1>5. /\ running' \in Seq(Groups) /\ IsInjective(running')
      /\ Range(running') = {running[i] : i \in I}
      /\ \A k, h \in DOMAIN running' : k < h =>
            \E i, j \in I : i < j /\ running'[k] = running[i] /\ running'[h] = running[j]
  <2>1. PICK few : few = Pick(running, I)
    OBVIOUS
  <2>2. /\ few \in Seq(Groups) /\ IsInjective(few) /\ Range(few) = {running[i] : i \in I}
        /\ \A k, h \in DOMAIN few : k < h =>
              \E i, j \in I : i < j /\ few[k] = running[i] /\ few[h] = running[j]
    BY <1>4, <2>1, PickOf
  <2>3. running' = few
    BY <1>1, <1>3, <2>1
  <2> QED
    BY <2>2, <2>3
<1>6. \A h \in Range(running) : GroupFinished(h) <=> LiveIn(seqs[h]) = {}
  <2>1. Range(running) \subseteq Groups
    BY <1>4 DEF Range
  <2> QED
    BY <1>2, <2>1, NumbersOf
<1>7. Range(running') = {h \in Range(running) : LiveIn(seqs[h]) # {}}
  <2>1. \A i \in DOMAIN running : running[i] \in Range(running)
    BY DEF Range
  <2>2. \A h \in Range(running) : \E i \in DOMAIN running : running[i] = h
    BY DEF Range
  <2> QED
    BY <1>3, <1>5, <1>6, <2>1, <2>2
<1>8. \A k, h \in DOMAIN running' : k < h =>
         \E i, j \in DOMAIN running : i < j /\ running'[k] = running[i] /\ running'[h] = running[j]
  <2>1. I \subseteq DOMAIN running
    BY <1>4
  <2> QED
    BY <1>5, <2>1
<1> QED
  BY <1>5, <1>7, <1>8

LEMMA EndStepInv == Inv /\ EndStep => Inv'
<1> SUFFICES ASSUME Inv, EndStep PROVE Inv'
  OBVIOUS
<1> DEFINE Answered(h) == h \in Range(scheduled) \cup Range(ignored) /\ LiveIn(seqs[h]) = {}
<1>1. /\ phase = "outputs" /\ todo = <<>> /\ phase' = "idle"
      /\ answers' = [h \in DOMAIN answers |->
                       IF h \in Range(scheduled \o ignored) /\ GroupFinished(h) THEN answers[h] + 1
                       ELSE answers[h]]
      /\ scheduled' = <<>> /\ ignored' = <<>>
      /\ UNCHANGED <<engine, pool, seqs, aborted, waiting, swapped, kept, todo, restarts>>
  BY DEF EndStep
<1>2. Lists /\ InStep /\ Placed /\ answers \in [Groups -> {0, 1}]
  BY <1>1 DEF Inv, Lists
<1>3. /\ Range(<<>>) = {} /\ kept = <<>> /\ Range(scheduled) \subseteq Range(running)
      /\ Active = Range(running) /\ <<>> \in Seq(Groups)
  BY <1>1, <1>2, QueuesInStep DEF InStep
<1>4. /\ running' \in Seq(Groups) /\ IsInjective(running')
      /\ Range(running') = {h \in Range(running) : LiveIn(seqs[h]) # {}}
  BY EndStepOf
<1>5. \A h \in Groups : answers'[h] = IF Answered(h) THEN answers[h] + 1 ELSE answers[h]
  <2>1. Range(scheduled \o ignored) = Range(scheduled) \cup Range(ignored)
    BY <1>2, QueuesInStep, ConcatOf
  <2>2. \A h \in Groups : GroupFinished(h) <=> LiveIn(seqs[h]) = {}
    BY <1>2, NumbersOf
  <2> QED
    BY <1>1, <1>2, <2>1, <2>2
<1>6. \A h \in Groups : \E n \in 1 .. 6 :
         /\ InPlace(h, n) /\ InStage(h, n)
         /\ Answered(h) => n \in {2, 4}
         /\ n = 4 => Answered(h)
         /\ n = 2 => (Answered(h) <=> LiveIn(seqs[h]) = {})
  <2> TAKE h \in Groups
  <2>1. PICK n \in 1 .. 6 : InPlace(h, n) /\ InStage(h, n)
    BY <1>2 DEF Placed
  <2>2. Answered(h) => n \in {2, 4}
    BY <1>3, <2>1 DEF InPlace
  <2>3. n = 4 => Answered(h)
    BY <2>1 DEF InPlace, InStage
  <2>4. n = 2 => (Answered(h) <=> LiveIn(seqs[h]) = {})
    BY <2>1 DEF InPlace, InStage, Done
  <2> QED
    BY <2>1, <2>2, <2>3, <2>4
<1> HIDE DEF Answered
<1>7. answers' \in [Groups -> {0, 1}]
  <2>1. \A h \in Groups : Answered(h) => answers[h] = 0
    BY <1>2, <1>6 DEF InPlace
  <2>2. DOMAIN answers' = Groups /\ \A h \in Groups : answers'[h] \in {0, 1}
    BY <1>1, <1>2, <1>5, <2>1
  <2>3. answers' = [h \in Groups |-> answers'[h]]
    BY <1>1, <1>2
  <2> QED
    BY <2>2, <2>3
<1>8. Lists'
  <2>1. QueuesOfGroups'
    BY <1>1, <1>2, <1>3, <1>4 DEF Lists, QueuesOfGroups, Groups
  <2> QED
    BY <1>1, <1>2, <1>7, <2>1 DEF Lists, Phases, Groups
<1>9. InStep'
  BY <1>1, <1>3 DEF InStep
<1>10. Placed'
  <2>1. ASSUME NEW h \in Groups PROVE \E n \in 1 .. 6 : InPlace(h, n)' /\ InStage(h, n)'
    <3>1. PICK n \in 1 .. 6 : /\ InPlace(h, n) /\ InStage(h, n)
                              /\ Answered(h) => n \in {2, 4}
                              /\ n = 4 => Answered(h)
                              /\ n = 2 => (Answered(h) <=> LiveIn(seqs[h]) = {})
      BY <1>6
    <3>2. answers[h] \in {0, 1}
      BY <1>2
    <3>3. CASE Answered(h)
      <4>1. LiveIn(seqs[h]) = {} /\ n \in {2, 4} /\ answers'[h] = answers[h] + 1
        BY <1>5, <3>1, <3>3 DEF Answered
      <4>2. InPlace(h, 5)'
        <5>1. h \notin Range(running') /\ h \notin Range(kept') /\ h \notin Range(ignored')
          BY <1>1, <1>3, <1>4, <4>1
        <5>2. answers'[h] = 1
          BY <3>1, <3>2, <4>1 DEF InPlace
        <5> QED
          BY <1>1, <3>1, <4>1, <5>1, <5>2 DEF InPlace, Active
      <4>3. InStage(h, 5)'
        BY <1>1, <4>1 DEF InStage
      <4> QED
        BY <4>2, <4>3
    <3>4. CASE ~Answered(h)
      <4>1. InPlace(h, n)'
        BY <1>1, <1>3, <1>4, <1>5, <3>1, <3>4 DEF InPlace, Active
      <4>2. InStage(h, n)'
        BY <1>1, <3>1, <3>4 DEF InStage, Done
      <4> QED
        BY <4>1, <4>2
    <3> QED
      BY <3>3, <3>4
  <2> QED
    BY <1>1, <1>2, <1>3, <1>4, <2>1 DEF Placed, Groups
<1> QED
  BY <1>8, <1>9, <1>10 DEF Inv

----------------------------------------------------------------------------
(* The next engine.                                                         *)
LEMMA RestartInv == Inv /\ Restart => Inv'
<1> SUFFICES ASSUME Inv, Restart PROVE Inv'
  OBVIOUS
<1>1. /\ phase = "idle" /\ restarts' = restarts + 1
      /\ UNCHANGED <<engine, answers, aborted, stepVars>>
  BY DEF Restart
<1>2. Lists /\ InStep /\ Placed /\ IsPool(pool) /\ restarts \in Nat /\ \A h \in Groups : IsGroup(seqs[h])
  BY <1>1 DEF Inv, Lists
<1>3. CASE pool' = Raise(pool, "assertion") /\ phase' = "failed" /\ UNCHANGED <<seqs, queues>>
  <2>1. IsPool(pool')
    BY <1>2, <1>3, RaiseOf
  <2>2. QueuesOfGroups'
    BY <1>1, <1>2, <1>3 DEF Lists, QueuesOfGroups, queues, stepVars, Groups
  <2>3. Lists'
    BY <1>1, <1>2, <1>3, <2>1, <2>2 DEF Lists, Phases, Groups
  <2>4. InStep'
    BY <1>3 DEF InStep
  <2> QED
    BY <1>3, <2>3, <2>4 DEF Inv
<1>4. CASE /\ waiting' = Handover /\ running' = <<>> /\ swapped' = <<>>
           /\ seqs' = [h \in DOMAIN seqs |->
                Relabel(Tabled(seqs[h], [i \in DOMAIN seqs[h] |-> <<>>]), "running", "waiting")]
           /\ pool' = NewPool(engine) /\ UNCHANGED phase
  <2>1. \A h \in Groups : Turned(seqs[h], seqs'[h], "running", "waiting")
    BY <1>2, <1>4, TabledAndRelabelled DEF Stages, Groups
  <2>2. Groups' = Groups /\ seqs' = [h \in Groups |-> seqs'[h]]
    BY <1>4 DEF Groups
  <2>3. seqs' \in Seq(Range(seqs')) /\ \A h \in Groups : IsGroup(seqs'[h])
    BY <1>2, <2>1, <2>2, AllGroups DEF Stages, Groups
  <2>4. \A h \in Groups : LiveIn(seqs'[h]) = IF LiveIn(seqs[h]) = {"running"} THEN {"waiting"}
                                             ELSE IF "running" \notin LiveIn(seqs[h]) THEN LiveIn(seqs[h])
                                             ELSE LiveIn(seqs'[h])
    <3> TAKE h \in Groups
    <3>1. /\ LiveIn(seqs[h]) = {"running"} => LiveIn(seqs'[h]) = {"waiting"} \ {"finished"}
          /\ "running" \notin LiveIn(seqs[h]) => LiveIn(seqs'[h]) = LiveIn(seqs[h])
      BY <1>2, <2>1, TurnedOf DEF Stages
    <3> QED
      BY <3>1
  <2>5. /\ Range(<<>>) = {} /\ IsInjective(<<>>) /\ <<>> \in Seq(Groups)
        /\ Active = Range(running) /\ kept = <<>>
    BY <1>1, <1>2, QueuesInStep DEF InStep
  <2>6. /\ waiting' \in Seq(Groups) /\ IsInjective(waiting')
        /\ Range(waiting') = Range(running) \cup Range(waiting) \cup Range(swapped)
    <3>1. /\ running \in Seq(Groups) /\ waiting \in Seq(Groups) /\ swapped \in Seq(Groups)
          /\ IsInjective(running) /\ IsInjective(waiting) /\ IsInjective(swapped)
      BY <1>2, QueuesInStep DEF Placed
    <3>2. /\ Range(running) \cap Range(waiting) = {} /\ Range(running) \cap Range(swapped) = {}
          /\ Range(waiting) \cap Range(swapped) = {}
      <4>1. Range(running) \subseteq Groups /\ Range(waiting) \subseteq Groups
        BY <3>1 DEF Range
      <4> QED
        BY <1>2, <2>5, <4>1 DEF Placed, InPlace
    <3>3. PICK both : both = running \o waiting
      OBVIOUS
    <3>4. both \in Seq(Groups) /\ IsInjective(both) /\ Range(both) = Range(running) \cup Range(waiting)
      BY <3>1, <3>2, <3>3, ConcatOf
    <3>5. Range(both) \cap Range(swapped) = {}
      BY <3>2, <3>4
    <3>6. both \o swapped \in Seq(Groups) /\ IsInjective(both \o swapped)
          /\ Range(both \o swapped) = Range(both) \cup Range(swapped)
      BY <3>1, <3>4, <3>5, ConcatOf
    <3>7. waiting' = both \o swapped
      BY <1>4, <3>3 DEF Handover
    <3> QED
      BY <3>4, <3>6, <3>7
  <2>7. Lists'
    <3>1. IsPool(pool')
      BY <1>4 DEF NewPool, IsPool
    <3>2. QueuesOfGroups'
      BY <1>1, <1>2, <1>4, <2>2, <2>5, <2>6 DEF Lists, QueuesOfGroups, stepVars
    <3> QED
      BY <1>1, <1>2, <1>4, <2>2, <2>3, <3>1, <3>2 DEF Lists
  <2>8. InStep'
    BY <1>1, <1>2, <1>4 DEF InStep, stepVars
  <2>9. Placed'
    <3>1. ASSUME NEW h \in Groups PROVE \E n \in 1 .. 6 : InPlace(h, n)' /\ InStage(h, n)'
      <4>1. PICK n \in 1 .. 6 : InPlace(h, n) /\ InStage(h, n)
        BY <1>2 DEF Placed
      <4>2. Range(kept) = {} /\ kept' = kept /\ ignored' = ignored
        BY <1>1, <2>5 DEF stepVars
      <4>3. CASE n \in {1, 2, 3}
        <5>1. LiveIn(seqs'[h]) \in {{"waiting"}, {"swapped"}}
          BY <1>1, <2>4, <4>1, <4>3 DEF InStage, Done
        <5>2. InPlace(h, 1)'
          BY <1>1, <1>4, <2>5, <2>6, <4>1, <4>2, <4>3 DEF InPlace, Active
        <5> QED
          BY <5>1, <5>2 DEF InStage
      <4>4. CASE n \in {4, 5, 6}
        <5>1. LiveIn(seqs'[h]) = {}
          BY <2>4, <4>1, <4>4 DEF InStage
        <5>2. InPlace(h, n)'
          BY <1>1, <1>4, <2>5, <2>6, <4>1, <4>2, <4>4 DEF InPlace, Active
        <5> QED
          BY <4>4, <5>1, <5>2 DEF InStage
      <4> QED
        BY <4>3, <4>4
    <3> QED
      BY <1>1, <1>4, <2>2, <2>5, <2>6, <3>1 DEF Placed, stepVars
  <2> QED
    BY <2>7, <2>8, <2>9 DEF Inv
<1> QED
  BY <1>3, <1>4 DEF Restart

LEMMA StutterInv == Inv /\ UNCHANGED vars => Inv'
<1> SUFFICES ASSUME Inv, UNCHANGED vars PROVE Inv'
  OBVIOUS
<1>1. /\ engine' = engine /\ pool' = pool /\ seqs' = seqs /\ answers' = answers /\ aborted' = aborted
      /\ waiting' = waiting /\ running' = running /\ swapped' = swapped /\ phase' = phase
      /\ kept' = kept /\ scheduled' = scheduled /\ ignored' = ignored /\ todo' = todo
      /\ restarts' = restarts
  BY DEF vars, queues, stepVars
<1>2. Groups' = Groups /\ Active' = Active
  BY <1>1 DEF Groups, Active
<1>3. Lists'
  <2>1. Lists /\ QueuesOfGroups
    BY DEF Inv, Lists
  <2>2. QueuesOfGroups'
    BY <1>1, <1>2, <2>1 DEF QueuesOfGroups
  <2> QED
    BY <1>1, <1>2, <2>1, <2>2 DEF Lists
<1>4. InStep'
  BY <1>1 DEF Inv, InStep
<1>5. phase' # "failed" => Placed'
  <2>1. \A h \in Groups, n \in 1 .. 6 : /\ InPlace(h, n)' = InPlace(h, n)
                                      /\ InStage(h, n)' = InStage(h, n)
    BY <1>1, <1>2 DEF InPlace, InStage, Done
  <2> QED
    BY <1>1, <1>2, <2>1 DEF Inv, Placed
<1> QED
  BY <1>3, <1>4, <1>5 DEF Inv

LEMMA NextInv == Inv /\ [Next]_vars => Inv'
<1> SUFFICES ASSUME Inv, [Next]_vars PROVE Inv'
  OBVIOUS
<1>1. CASE \E g \in DOMAIN seqs : Abort(g)
  BY <1>1, AbortInv DEF Groups
<1>2. CASE Step
  BY <1>2, BeginStepInv, AdmitFailsInv, IgnoreInv, AdmitInv, EndAdmissionInv, GiveSlotsInv, PreemptInv,
     EndDecodeInv, SwapInInv, EndSwapInInv, ProcessGroupInv, EndStepInv DEF Step
<1>3. CASE UNCHANGED vars \/ Terminated
  BY <1>3, StutterInv DEF Terminated
<1> QED
  BY <1>1, <1>2, <1>3, AddRequestInv, RestartInv DEF Next

LEMMA SpecInv == Spec => []Inv
BY InitInv, NextInv, PTL DEF Spec

LEMMA NothingIsLost == Inv => NothingLost
<1> SUFFICES ASSUME Inv, phase # "failed" PROVE NothingLost
  BY DEF NothingLost
<1> DEFINE places(g) == <<g \in Range(waiting), g \in Active, g \in Range(swapped),
                          g \in Range(ignored), answers[g] = 1, g \in aborted>>
           status == <<{"waiting", "swapped"}, {"running"}, {"swapped"}, {}, {}, {}>>
<1>1. Lists /\ InStep /\ Placed
  BY DEF Inv
<1>2. \A queue \in {waiting, running \o kept, swapped} : IsInjective(queue)
  <2>1. IsInjective(running \o kept)
    BY <1>1, QueuesInStep, ConcatOf DEF Placed
  <2> QED
    BY <1>1, <2>1 DEF Placed
<1>3. ASSUME NEW g \in Groups
      PROVE  \E n \in 1 .. 6 :
               /\ places(g)[n] /\ \A m \in 1 .. 6 \ {n} : ~places(g)[m]
               /\ {seqs[g][i].status : i \in Live(g)} \subseteq status[n]
               /\ phase = "idle" /\ n <= 3 => Live(g) # {}
  <2>1. PICK n \in 1 .. 6 : InPlace(g, n) /\ InStage(g, n)
    BY <1>1 DEF Placed
  <2>2. places(g)[n] /\ \A m \in 1 .. 6 \ {n} : ~places(g)[m]
    <3>1. /\ places(g)[1] <=> n = 1
          /\ places(g)[2] <=> n = 2
          /\ places(g)[3] <=> n = 3
          /\ places(g)[4] <=> n = 4
          /\ places(g)[5] <=> n = 5
          /\ places(g)[6] <=> n = 6
      BY <2>1 DEF InPlace
    <3>2. \A m \in 1 .. 6 : m \in {1, 2, 3, 4, 5, 6}
      OBVIOUS
    <3> HIDE DEF places
    <3> QED
      BY <3>1, <3>2
  <2>3. {seqs[g][i].status : i \in Live(g)} = LiveIn(seqs[g])
    BY DEF Live, LiveIn
  <2>4. /\ status[1] = {"waiting", "swapped"} /\ status[2] = {"running"} /\ status[3] = {"swapped"}
        /\ status[4] = {} /\ status[5] = {} /\ status[6] = {}
    OBVIOUS
  <2> HIDE DEF places, status
  <2>5. LiveIn(seqs[g]) \subseteq status[n]
    BY <2>1, <2>4 DEF InStage
  <2>6. phase = "idle" /\ n <= 3 => Live(g) # {}
    <3>1. phase = "idle" /\ n <= 3 => LiveIn(seqs[g]) # {}
      BY <2>1 DEF InStage, Done
    <3> QED
      BY <2>3, <3>1
  <2> QED
    BY <2>2, <2>3, <2>5, <2>6
<1> HIDE DEF places, status
<1> QED
  BY <1>2, <1>3 DEF NothingLost, places, status

(* A request given to an engine is, at every moment, in exactly one place:  *)
(* it waits, runs or is swapped out with its live sequences, or it was      *)
(* answered once, ignored or aborted; neither a preemption                  *)
(* (_preempt_by_recompute, _preempt_by_swap), an abort (abort_seq_group)    *)
(* nor a hand-over (get_unfinished_seqs) loses or doubles one.              *)
THEOREM EngineLosesNothing == Spec => []NothingLost
BY SpecInv, NothingIsLost, PTL

----------------------------------------------------------------------------
(* The order of arrival.                                                    *)
Keeps(list, new) == Len(new) = Len(list) /\ (Together(list) => Together(new))

LEMMA KeptWhenTurned ==
    ASSUME NEW list, IsGroup(list), NEW new, NEW from \in Stages, NEW to \in Stages,
           Turned(list, new, from, to),
           from = to \/ (from # "finished" /\ (to # "finished" \/ LiveIn(list) = {from}))
    PROVE  Keeps(list, new)
BY TurnedOf DEF Keeps

LEMMA SampledAfter ==
    ASSUME Sampled, engine' = engine, Groups' = Groups, \A h \in Groups : Keeps(seqs[h], seqs'[h])
    PROVE  Sampled'
BY DEF Sampled, Single, Sampling, Keeps

LEMMA SampledSame ==
    ASSUME Sampled, engine' = engine, seqs' = seqs
    PROVE  Sampled'
BY DEF Sampled, Single, Sampling, Groups

LEMMA SampledOne ==
    ASSUME Lists, Sampled, engine' = engine, NEW g \in Groups, NEW new, IsGroup(new),
           seqs' = [seqs EXCEPT ![g] = new], Keeps(seqs[g], new)
    PROVE  Sampled'
<1>1. Groups' = Groups /\ \A h \in Groups : seqs'[h] = IF h = g THEN new ELSE seqs[h]
  BY OneGroup
<1>2. \A h \in Groups : Keeps(seqs[h], seqs'[h])
  BY <1>1 DEF Keeps
<1> QED
  BY <1>1, <1>2, SampledAfter

(* The order is kept by a step that takes groups out of the queues.         *)
LEMMA ArrivedStays ==
    ASSUME Arrived, engine' = engine, Active' \subseteq Active,
           Range(swapped') \subseteq Range(swapped), Range(waiting') \subseteq Range(waiting),
           \A k, h \in DOMAIN waiting' : k < h =>
             \E i, j \in DOMAIN waiting : i < j /\ waiting'[k] = waiting[i] /\ waiting'[h] = waiting[j]
    PROVE  Arrived'
<1>1. \A g, h : (Single(g)' <=> Single(g)) /\ (Alike(g, h)' <=> Alike(g, h))
  BY DEF Alike, Single, Sampling
<1>2. \A g \in Range(swapped') : ~Single(g)'
  BY <1>1 DEF Arrived
<1>3. \A k, h \in DOMAIN waiting' : k < h /\ Alike(waiting'[k], waiting'[h]) => waiting'[k] < waiting'[h]
  BY DEF Arrived
<1>4. \A g \in Active' \cup Range(swapped'), h \in Range(waiting') : Alike(g, h) => g < h
  BY DEF Arrived
<1>5. \A g \in Active', h \in Range(swapped') : Alike(g, h) => g < h
  BY DEF Arrived
<1> QED
  BY <1>1, <1>2, <1>3, <1>4, <1>5 DEF Arrived

LEMMA OrderOfInit == Init => OrderInv
<1> SUFFICES ASSUME Init PROVE OrderInv
  OBVIOUS
<1>1. Groups = {} /\ Range(<<>>) = {} /\ DOMAIN <<>> = {}
  BY DEF Init, Groups, Range
<1> QED
  BY <1>1 DEF Init, OrderInv, Sampled, SortedAtPlace, Arrived, Active

LEMMA OrderOfAddRequest == Inv /\ OrderInv /\ AddRequest => OrderInv'
<1> SUFFICES ASSUME Inv, OrderInv, AddRequest PROVE OrderInv'
  OBVIOUS
<1>0. PICK g : g = Len(seqs) + 1
  OBVIOUS
<1>1. PICK new : new = <<[status |-> "waiting", len |-> Sampling(g).prompt, table |-> <<>>]>>
  OBVIOUS
<1>2. /\ phase = "idle" /\ phase' = "idle" /\ seqs' = Append(seqs, new) /\ waiting' = Append(waiting, g)
      /\ UNCHANGED <<engine, running, kept, swapped, restarts>>
  BY <1>0, <1>1 DEF AddRequest, stepVars
<1>3. /\ Lists /\ InStep /\ Placed
      /\ Len(seqs) \in Nat /\ Groups = 1 .. Len(seqs)
  BY <1>2 DEF Inv, Lists, Groups
<1>4. Groups' = Groups \cup {g} /\ seqs'[g] = new /\ \A h \in Groups : seqs'[h] = seqs[h]
  <2>1. seqs \in Seq(Range(seqs))
    BY <1>3 DEF Lists
  <2>2. /\ DOMAIN Append(seqs, new) = 1 .. Len(seqs) + 1
        /\ Append(seqs, new)[Len(seqs) + 1] = new
        /\ \A h \in 1 .. Len(seqs) : Append(seqs, new)[h] = seqs[h]
    BY <2>1
  <2> QED
    BY <1>0, <1>2, <1>3, <2>2 DEF Groups
<1>5. Len(new) = 1 /\ Together(new)
  <2>1. DOMAIN new = {1} /\ Len(new) = 1 /\ new[1].status = "waiting"
    BY <1>1
  <2> QED
    BY <2>1 DEF Together
<1>6. Sampled'
  BY <1>2, <1>4, <1>5 DEF OrderInv, Sampled, Single, Sampling
<1>7. SortedAtPlace'
  BY <1>2 DEF SortedAtPlace
<1>8. ASSUME restarts' = 0 PROVE Arrived'
  <2>1. Arrived
    BY <1>2, <1>8 DEF OrderInv
  <2>2. \A h, k : (Single(h)' <=> Single(h)) /\ (Alike(h, k)' <=> Alike(h, k))
    BY <1>2 DEF Alike, Single, Sampling
  <2>3. Range(waiting) \subseteq Groups /\ Active \subseteq Groups /\ Range(swapped) \subseteq Groups
    <3>1. \A q \in Seq(Groups) : Range(q) \subseteq Groups
      BY DEF Range
    <3> QED
      BY <1>3, <3>1, QueuesInStep DEF Active
  <2>4. \A h \in Groups : h < g
    BY <1>0, <1>3
  <2>5. /\ waiting \in Seq(Nat) /\ g \in Nat /\ Len(waiting) \in Nat /\ DOMAIN waiting = 1 .. Len(waiting)
        /\ Range(waiting') = Range(waiting) \cup {g}
        /\ \A k \in DOMAIN waiting' : \/ k \in DOMAIN waiting /\ waiting'[k] = waiting[k]
                                      \/ k = Len(waiting) + 1 /\ waiting'[k] = g
    <3>1. waiting \in Seq(Groups) /\ Groups \subseteq Nat
      BY <1>3, QueuesInStep
    <3>2. waiting \in Seq(Nat) /\ g \in Nat
      BY <1>0, <1>3, <3>1
    <3> QED
      BY <1>2, <3>2, AppendOf
  <2>6. \A i, j \in DOMAIN waiting' : i < j /\ Alike(waiting'[i], waiting'[j]) => waiting'[i] < waiting'[j]
    <3> SUFFICES ASSUME NEW i \in DOMAIN waiting', NEW j \in DOMAIN waiting', i < j,
                        Alike(waiting'[i], waiting'[j])
                 PROVE  waiting'[i] < waiting'[j]
      OBVIOUS
    <3>1. i \in DOMAIN waiting /\ waiting'[i] = waiting[i]
      BY <2>5
    <3>2. waiting[i] < g
      BY <2>3, <2>4, <3>1 DEF Range
    <3> QED
      BY <2>1, <2>5, <3>1, <3>2 DEF Arrived
  <2>7. Active' = Active
    BY <1>2 DEF Active
  <2>8. \A x \in Active' \cup Range(swapped'), h \in Range(waiting') : Alike(x, h) => x < h
    BY <1>2, <2>1, <2>3, <2>4, <2>5, <2>7 DEF Arrived
  <2> QED
    BY <1>2, <2>1, <2>2, <2>6, <2>7, <2>8 DEF Arrived
<1> QED
  BY <1>6, <1>7, <1>8 DEF OrderInv

LEMMA OrderOfAbort == ASSUME Inv, OrderInv, NEW g \in Groups, Abort(g) PROVE OrderInv'
<1> DEFINE new == [i \in DOMAIN seqs[g] |-> Finished]
<1>1. /\ phase = "idle" /\ phase' \in {"idle", "failed"}
      /\ waiting' = Without(waiting, g) /\ running' = Without(running, g)
      /\ swapped' = Without(swapped, g) /\ seqs' = [seqs EXCEPT ![g] = new]
      /\ UNCHANGED <<engine, kept, restarts>>
  BY DEF Abort, Goto, stepVars
<1>2. Lists /\ InStep /\ Placed
  BY <1>1 DEF Inv
<1>3. IsGroup(new) /\ Keeps(seqs[g], new)
  <2>1. IsSeq(Finished) /\ Finished.status = "finished"
    BY DEF IsSeq, Finished, Stages
  <2>2. PICK n \in Nat : DOMAIN seqs[g] = 1 .. n /\ Len(seqs[g]) = n
    BY <1>2, SamplingOf
  <2>3. new \in Seq(Range(new)) /\ Len(new) = n
    BY <2>2, ListOf
  <2>4. LiveIn(new) = {}
    BY <2>1 DEF LiveIn
  <2> HIDE DEF new
  <2> QED
    BY <2>1, <2>2, <2>3, <2>4 DEF new, IsGroup, Keeps, Together
<1> HIDE DEF new
<1>4. Sampled'
  BY <1>1, <1>2, <1>3, SampledOne DEF OrderInv
<1>5. SortedAtPlace'
  BY <1>1 DEF SortedAtPlace
<1>6. /\ Range(waiting') \subseteq Range(waiting) /\ Range(running') \subseteq Range(running)
      /\ Range(swapped') \subseteq Range(swapped)
      /\ \A k, h \in DOMAIN waiting' : k < h =>
           \E i, j \in DOMAIN waiting : i < j /\ waiting'[k] = waiting[i] /\ waiting'[h] = waiting[j]
  <2>1. waiting \in Seq(Groups) /\ running \in Seq(Groups) /\ swapped \in Seq(Groups)
    BY <1>2, QueuesInStep
  <2> QED
    BY <1>1, <2>1, WithoutOf
<1>7. Active' \subseteq Active
  BY <1>1, <1>6 DEF Active
<1> QED
  BY <1>1, <1>4, <1>5, <1>6, <1>7, ArrivedStays DEF OrderInv

LEMMA ArrivedSame ==
    ASSUME Arrived, engine' = engine, Active' \subseteq Active,
           Range(swapped') \subseteq Range(swapped), waiting' = waiting
    PROVE  Arrived'
<1>1. \A k, h \in DOMAIN waiting : k < h =>
         \E i, j \in DOMAIN waiting : i < j /\ waiting[k] = waiting[i] /\ waiting[h] = waiting[j]
  OBVIOUS
<1> QED
  BY <1>1, ArrivedStays

LEMMA SortedInOrder ==
    ASSUME Lists, InStep, NEW q \in Seq(Groups)
    PROVE  InOrder(Sorted(q)) /\ Range(Sorted(q)) = Range(q) /\ Range(<<>>) = {}
BY QueuesInStep, SortedOf DEF InOrder

(* Steps that admit groups or take them out of the waiting queue.           *)
LEMMA OrderOfBeginStep == Inv /\ OrderInv /\ BeginStep => OrderInv'
<1> SUFFICES ASSUME Inv, OrderInv, BeginStep PROVE OrderInv'
  OBVIOUS
<1>1. /\ phase = "idle" /\ phase' = IF swapped = <<>> THEN "admit" ELSE "decode"
      /\ running' = IF swapped = <<>> THEN running ELSE Sorted(running)
      /\ kept' = <<>> /\ UNCHANGED <<engine, waiting, swapped, restarts>>
      /\ \/ seqs' = seqs
         \/ seqs' = [h \in Groups |-> RenamedAll(seqs[h], Rewritten(pool, Load))]
  BY DEF BeginStep, Groups
<1>2. Lists /\ InStep /\ \A h \in Groups : IsGroup(seqs[h])
  BY <1>1 DEF Inv, Lists
<1>3. Sampled'
  <2>1. CASE seqs' = seqs
    BY <1>1, <2>1, SampledSame DEF OrderInv
  <2>2. CASE seqs' = [h \in Groups |-> RenamedAll(seqs[h], Rewritten(pool, Load))]
    <3>1. PICK to : to = Rewritten(pool, Load)
      OBVIOUS
    <3>2. seqs' = [h \in Groups |-> RenamedAll(seqs[h], to)]
      BY <2>2, <3>1
    <3>3. \A h \in Groups : Turned(seqs[h], seqs'[h], "finished", "finished")
      BY <1>2, <3>2, TabledOf DEF RenamedAll
    <3>4. \A h \in Groups : Keeps(seqs[h], seqs'[h])
      BY <1>2, <3>3, KeptWhenTurned DEF Stages
    <3>5. Groups' = Groups
      BY <3>2 DEF Groups
    <3> QED
      BY <1>1, <3>4, <3>5, SampledAfter DEF OrderInv
  <2> QED
    BY <1>1, <2>1, <2>2
<1>4. /\ Range(running') = Range(running) /\ Range(kept') = {}
      /\ swapped # <<>> => InOrder(running')
  BY <1>1, <1>2, QueuesInStep, SortedInOrder
<1>5. SortedAtPlace'
  <2>1. InOrder(running)' <=> InOrder(running')
    BY DEF InOrder
  <2> QED
    BY <1>1, <1>4, <2>1 DEF SortedAtPlace
<1>6. Active' \subseteq Active
  BY <1>4 DEF Active
<1> QED
  BY <1>1, <1>3, <1>5, <1>6, ArrivedSame DEF OrderInv

LEMMA OrderOfIgnore == Inv /\ OrderInv /\ Ignore => OrderInv'
<1> SUFFICES ASSUME Inv, OrderInv, Ignore PROVE OrderInv'
  OBVIOUS
<1>1. PICK g, new : g = Head(waiting) /\ new = Relabel(seqs[g], "waiting", "finished")
  OBVIOUS
<1>2. /\ phase = "admit" /\ phase' = "admit" /\ waiting # <<>> /\ HasOnePrompt(Head(waiting))
      /\ seqs' = [seqs EXCEPT ![g] = new] /\ waiting' = Tail(waiting)
      /\ UNCHANGED <<engine, running, swapped, kept, restarts>>
  BY <1>1 DEF Ignore
<1>3. Lists /\ InStep /\ \A h \in Groups : IsGroup(seqs[h])
  BY <1>2 DEF Inv, Lists
<1>4. g \in Groups /\ LiveIn(seqs[g]) = {"waiting"}
  BY <1>1, <1>2, WaitingHead
<1>5. IsGroup(new) /\ Keeps(seqs[g], new)
  <2>1. Turned(seqs[g], new, "waiting", "finished")
    BY <1>1, <1>3, <1>4, RelabelOf DEF Stages
  <2> QED
    BY <1>3, <1>4, <2>1, TurnedOf, KeptWhenTurned DEF Stages
<1>6. Sampled'
  BY <1>2, <1>3, <1>4, <1>5, SampledOne DEF OrderInv
<1>7. /\ Range(waiting') \subseteq Range(waiting)
      /\ \A k \in DOMAIN waiting' : k \in Int /\ k + 1 \in DOMAIN waiting /\ waiting'[k] = waiting[k + 1]
  BY <1>2, <1>3, QueuesInStep, TailOf
<1>8. \A k, h \in DOMAIN waiting' : k < h =>
         \E i, j \in DOMAIN waiting : i < j /\ waiting'[k] = waiting[i] /\ waiting'[h] = waiting[j]
  <2> TAKE k, h \in DOMAIN waiting'
  <2>1. k < h => k + 1 < h + 1
    BY <1>7
  <2> QED
    BY <1>7, <2>1
<1>9. SortedAtPlace' /\ Active' \subseteq Active
  BY <1>2 DEF SortedAtPlace, Active
<1> QED
  BY <1>2, <1>6, <1>7, <1>8, <1>9, ArrivedStays DEF OrderInv

LEMMA OrderOfAdmit == Inv /\ OrderInv /\ Admit => OrderInv'
<1> SUFFICES ASSUME Inv, OrderInv, Admit PROVE OrderInv'
  OBVIOUS
<1>1. PICK g, got, new : /\ g = Head(waiting) /\ got = Allocate(pool, Prompt(g), Len(seqs[g]))
                         /\ new = Relabel(Tabled(seqs[g], [i \in Having(g, "waiting") |-> got.table]),
                                          "waiting", "running")
  OBVIOUS
<1>2. /\ phase = "admit" /\ phase' = "admit" /\ waiting # <<>> /\ HasOnePrompt(Head(waiting))
      /\ seqs' = [seqs EXCEPT ![g] = new]
      /\ running' = Append(running, g) /\ waiting' = Tail(waiting)
      /\ UNCHANGED <<engine, swapped, kept, restarts>>
  BY <1>1 DEF Admit
<1>3. Lists /\ InStep /\ Placed /\ \A h \in Groups : IsGroup(seqs[h])
  BY <1>2 DEF Inv, Lists
<1>4. g \in Groups /\ LiveIn(seqs[g]) = {"waiting"} /\ g \in Range(waiting)
  BY <1>1, <1>2, WaitingHead
<1>5. IsGroup(new) /\ Keeps(seqs[g], new)
  <2>1. Turned(seqs[g], new, "waiting", "running")
    BY <1>1, <1>3, <1>4, TabledAndRelabelled DEF Stages
  <2> QED
    BY <1>3, <1>4, <2>1, TurnedOf, KeptWhenTurned DEF Stages
<1>6. Sampled'
  BY <1>2, <1>3, <1>4, <1>5, SampledOne DEF OrderInv
<1>7. SortedAtPlace'
  BY <1>2 DEF SortedAtPlace
<1>8. ASSUME restarts' = 0 PROVE Arrived'
  <2>1. Arrived
    BY <1>2, <1>8 DEF OrderInv
  <2>2. \A x, y : (Single(x)' <=> Single(x)) /\ (Alike(x, y)' <=> Alike(x, y))
    BY <1>2 DEF Alike, Single, Sampling
  <2>3. /\ Range(waiting) = Range(waiting') \cup {g} /\ g = waiting[1] /\ 1 \in DOMAIN waiting
        /\ \A k \in DOMAIN waiting' : /\ k + 1 \in DOMAIN waiting /\ waiting'[k] = waiting[k + 1]
                                      /\ k + 1 > 1 /\ k \in Int
    BY <1>1, <1>2, <1>3, QueuesInStep, TailOf
  <2>4. \A h \in Range(waiting') : Alike(g, h) => g < h
    <3> SUFFICES ASSUME NEW k \in DOMAIN waiting', Alike(g, waiting'[k]) PROVE g < waiting'[k]
      BY DEF Range
    <3>1. 1 < k + 1
      BY <2>3
    <3> QED
      BY <2>1, <2>3, <3>1 DEF Arrived
  <2>5. Active' = Active \cup {g}
    <3>1. Range(running') = Range(running) \cup {g}
      BY <1>2, <1>3, <1>4, QueuesInStep, AppendOf
    <3> QED
      BY <1>2, <3>1 DEF Active
  <2>6. Range(swapped') = {}
    BY <1>2, <1>3 DEF InStep, Range
  <2>7. \A i, j \in DOMAIN waiting' : i < j /\ Alike(waiting'[i], waiting'[j]) => waiting'[i] < waiting'[j]
    <3> TAKE i, j \in DOMAIN waiting'
    <3>1. i < j => i + 1 < j + 1
      BY <2>3
    <3> QED
      BY <2>1, <2>3, <3>1 DEF Arrived
  <2>8. \A x \in Active', h \in Range(waiting') : Alike(x, h) => x < h
    BY <2>1, <2>3, <2>4, <2>5 DEF Arrived
  <2> QED
    BY <2>2, <2>6, <2>7, <2>8 DEF Arrived
<1> QED
  BY <1>6, <1>7, <1>8 DEF OrderInv

LEMMA OrderOfEndAdmission == Inv /\ OrderInv /\ EndAdmission => OrderInv'
<1> SUFFICES ASSUME Inv, OrderInv, EndAdmission PROVE OrderInv'
  OBVIOUS
<1>1. /\ phase = "admit"
      /\ \/ phase' = "outputs" /\ UNCHANGED running
         \/ phase' = "decode" /\ running' = Sorted(running)
      /\ UNCHANGED <<engine, seqs, waiting, swapped, kept, restarts>>
  BY DEF EndAdmission
<1>2. Lists /\ InStep
  BY <1>1 DEF Inv
<1>3. /\ Range(running') = Range(running) /\ Range(kept') = {}
      /\ phase' = "decode" => InOrder(running')
  BY <1>1, <1>2, QueuesInStep, SortedInOrder DEF InStep
<1>4. SortedAtPlace'
  <2>1. InOrder(running)' <=> InOrder(running')
    BY DEF InOrder
  <2> QED
    BY <1>1, <1>3, <2>1 DEF SortedAtPlace
<1>5. Active' \subseteq Active
  BY <1>1, <1>3 DEF Active
<1> QED
  BY <1>1, <1>4, <1>5, SampledSame, ArrivedSame DEF OrderInv

(* Steps of the decode loop.                                                *)
LEMMA MaxRunningOf ==
    ASSUME Lists, Sampled, NEW g \in Groups, LiveIn(seqs[g]) = {"running"}
    PROVE  MaxRunning(g) = 1 <=> Single(g)
<1>1. /\ Sampling(g).best \in Nat \ {0} /\ Sampling(g).beam \in BOOLEAN
      /\ Len(seqs[g]) \in Nat /\ DOMAIN seqs[g] = 1 .. Len(seqs[g])
  BY SamplingOf
<1>2. \E i \in DOMAIN seqs[g] : seqs[g][i].status # "finished"
  BY DEF LiveIn
<1>3. (\A i \in DOMAIN seqs[g] : seqs[g][i].status # "finished") => NumUnfinished(g) = Len(seqs[g])
  BY NumbersOf
<1>4. CASE Sampling(g).beam
  BY <1>1, <1>4 DEF MaxRunning, Single
<1>5. CASE ~Sampling(g).beam /\ Single(g)
  <2>1. Len(seqs[g]) = 1
    BY <1>5 DEF Sampled
  <2>2. NumUnfinished(g) = 1
    BY <1>1, <1>2, <1>3, <2>1
  <2> QED
    BY <1>5, <2>1, <2>2 DEF MaxRunning, Single
<1>6. CASE ~Sampling(g).beam /\ ~Single(g)
  <2>1. NumUnfinished(g) = Len(seqs[g])
    BY <1>3, <1>6 DEF Sampled, Together
  <2>2. PICK n, best : n = Len(seqs[g]) /\ best = Sampling(g).best
    OBVIOUS
  <2>3. MaxRunning(g) = IF best > n THEN best ELSE n
    BY <1>6, <2>1, <2>2 DEF MaxRunning
  <2>4. best \in Nat /\ best # 0 /\ best # 1 /\ n \in Nat
    BY <1>1, <1>6, <2>2 DEF Single
  <2> QED
    BY <1>6, <2>3, <2>4
<1> QED
  BY <1>4, <1>5, <1>6

LEMMA OrderOfGiveSlots == Inv /\ OrderInv /\ GiveSlots => OrderInv'
<1> SUFFICES ASSUME Inv, OrderInv, GiveSlots PROVE OrderInv'
  OBVIOUS
<1>1. PICK g, new : g = Head(running) /\ new = AppendSlots(pool, seqs[g]).list
  OBVIOUS
<1>2. /\ phase = "decode" /\ phase' \in {"decode", "failed"} /\ running # <<>>
      /\ seqs' = [seqs EXCEPT ![g] = new]
      /\ kept' = Append(kept, g) /\ running' = Tail(running)
      /\ UNCHANGED <<engine, waiting, swapped, restarts>>
  BY <1>1 DEF GiveSlots, Goto
<1>3. Lists /\ InStep /\ \A h \in Groups : IsGroup(seqs[h])
  BY <1>2 DEF Inv, Lists
<1>4. /\ g \in Groups /\ g = running[1] /\ 1 \in DOMAIN running
      /\ Range(running) = Range(running') \cup {g}
      /\ \A k \in DOMAIN running' : /\ k + 1 \in DOMAIN running /\ running'[k] = running[k + 1]
                                    /\ 1 < k + 1 /\ k \in Int
  BY <1>1, <1>2, <1>3, QueuesInStep, TailOf
<1>5. IsGroup(new) /\ Keeps(seqs[g], new)
  <2>1. Turned(seqs[g], new, "finished", "finished")
    BY <1>1, <1>3, <1>4, AppendSlotsOf
  <2> QED
    BY <1>3, <1>4, <2>1, TurnedOf, KeptWhenTurned DEF Stages
<1>6. Sampled'
  BY <1>2, <1>3, <1>4, <1>5, SampledOne DEF OrderInv
<1>7. Range(kept') = Range(kept) \cup {g}
  BY <1>2, <1>3, <1>4, QueuesInStep, AppendOf
<1>8. SortedAtPlace'
  <2>1. InOrder(running) /\ \A x \in Range(kept), y \in Range(running) : x < y
    BY <1>2 DEF OrderInv, SortedAtPlace
  <2>2. InOrder(running')
    <3> SUFFICES ASSUME NEW i \in DOMAIN running', NEW j \in DOMAIN running', i < j
                 PROVE  running'[i] < running'[j]
      BY DEF InOrder
    <3>1. i + 1 < j + 1
      BY <1>4
    <3> QED
      BY <1>4, <2>1, <3>1 DEF InOrder
  <2>3. \A y \in Range(running') : g < y
    <3>1. \A k \in DOMAIN running' : g < running'[k]
      BY <1>4, <2>1 DEF InOrder
    <3> QED
      BY <3>1 DEF Range
  <2>4. \A x \in Range(kept'), y \in Range(running') : x < y
    BY <1>4, <1>7, <2>1, <2>3
  <2>5. InOrder(running)' <=> InOrder(running')
    BY DEF InOrder
  <2> QED
    BY <1>2, <2>2, <2>4, <2>5 DEF SortedAtPlace
<1>9. Active' \subseteq Active
  BY <1>4, <1>7 DEF Active
<1> QED
  BY <1>2, <1>6, <1>8, <1>9, ArrivedSame DEF OrderInv

(* The victim is the youngest group that runs, and it goes where the groups *)
(* of its kind go.                                                          *)
LEMMA OrderOfPreempt == Inv /\ OrderInv /\ Preempt => OrderInv'
<1> SUFFICES ASSUME Inv, OrderInv, Preempt PROVE OrderInv'
  OBVIOUS
<1>1. PICK v \in Groups :
        /\ v = Last(running) /\ LiveIn(seqs[v]) = {"running"}
        /\ running' \in Seq(Groups) /\ running' = Front(running)
        /\ Range(running) = Range(running') \cup {v} /\ v \notin Range(running')
        /\ phase = "decode" /\ phase' \in {"decode", "failed"}
        /\ UNCHANGED <<engine, kept, restarts>>
        /\ Recomputed(v) \/ SwappedOut(v) \/ Raised
  BY PreemptOf
<1>2. Lists /\ InStep /\ Placed /\ \A h \in Groups : IsGroup(seqs[h])
  BY <1>1 DEF Inv, Lists
<1>3. /\ InOrder(running) /\ \A x \in Range(kept), y \in Range(running) : x < y
      /\ Sampled
  BY <1>1 DEF OrderInv, SortedAtPlace
<1>4. /\ Len(running) \in DOMAIN running /\ v = running[Len(running)]
      /\ \A k \in DOMAIN running' : k \in DOMAIN running /\ running'[k] = running[k] /\ k < Len(running)
  <2>1. running # <<>>
    BY DEF Preempt
  <2> QED
    BY <1>1, <1>2, <2>1, QueuesInStep, FrontOf
<1>5. /\ v \in Active /\ \A x \in Active' : x \in Active /\ x < v
  <2>1. \A k \in DOMAIN running' : running'[k] < v
    BY <1>3, <1>4 DEF InOrder
  <2>2. \A x \in Range(running') : x < v
    BY <2>1 DEF Range
  <2> QED
    BY <1>1, <1>3, <2>2 DEF Active
<1>6. SortedAtPlace'
  <2>1. InOrder(running')
    BY <1>3, <1>4 DEF InOrder
  <2>2. InOrder(running)' <=> InOrder(running')
    BY DEF InOrder
  <2> QED
    BY <1>1, <1>3, <2>1, <2>2 DEF SortedAtPlace
<1>7. \A x, y : (Single(x)' <=> Single(x)) /\ (Alike(x, y)' <=> Alike(x, y))
  BY <1>1 DEF Alike, Single, Sampling
<1>8. MaxRunning(v) = 1 <=> Single(v)
  BY <1>1, <1>2, <1>3, MaxRunningOf
<1>9. restarts = 0 => Arrived
  BY DEF OrderInv
<1>10. CASE Recomputed(v)
  <2>1. PICK new : /\ IsGroup(new) /\ Turned(seqs[v], new, "running", "waiting")
                   /\ seqs' = [seqs EXCEPT ![v] = new] /\ waiting' = <<v>> \o waiting
                   /\ MaxRunning(v) = 1 /\ swapped' = swapped
    BY <1>10 DEF Recomputed
  <2>2. Keeps(seqs[v], new)
    BY <1>2, <2>1, KeptWhenTurned DEF Stages
  <2>3. Sampled'
    BY <1>1, <1>2, <1>3, <2>1, <2>2, SampledOne
  <2>4. ASSUME restarts' = 0 PROVE Arrived'
    <3>1. Arrived /\ Single(v)
      BY <1>1, <1>8, <1>9, <2>1, <2>4
    <3>2. PICK one : one = <<v>>
      OBVIOUS
    <3>3. one \in Seq(Groups) /\ Range(one) = {v} /\ DOMAIN one = {1} /\ one[1] = v /\ Len(one) = 1
      BY <3>2 DEF Range
    <3>4. waiting \in Seq(Groups) /\ DOMAIN waiting = 1 .. Len(waiting) /\ Len(waiting) \in Nat
      BY <1>2, QueuesInStep
    <3>5. /\ Range(one \o waiting) = Range(one) \cup Range(waiting)
          /\ \A k \in DOMAIN (one \o waiting) :
               \/ k \in DOMAIN one /\ (one \o waiting)[k] = one[k]
               \/ k - Len(one) \in DOMAIN waiting /\ (one \o waiting)[k] = waiting[k - Len(one)] /\ k > Len(one)
          /\ one \o waiting \in Seq(Groups)
      <4>1. one \in Seq(Groups) /\ waiting \in Seq(Groups)
        BY <3>3, <3>4
      <4> QED
        BY ONLY <4>1, ConcatOf
    <3>6. /\ Range(waiting') = Range(waiting) \cup {v}
          /\ \A k \in DOMAIN waiting' :
               /\ k \in Int
               /\ \/ k = 1 /\ waiting'[k] = v
                  \/ k - 1 \in DOMAIN waiting /\ waiting'[k] = waiting[k - 1] /\ k > 1
      <4>1. waiting' = one \o waiting /\ waiting' \in Seq(Groups)
        BY <2>1, <3>2, <3>5
      <4>2. \A k \in DOMAIN waiting' : k \in Int
        BY <4>1
      <4> QED
        BY <3>3, <3>5, <4>1, <4>2
    <3>7. \A h \in Range(waiting) : Alike(v, h) => v < h
      BY <1>5, <3>1 DEF Arrived
    <3>8. \A i, j \in DOMAIN waiting' : i < j /\ Alike(waiting'[i], waiting'[j]) => waiting'[i] < waiting'[j]
      <4> SUFFICES ASSUME NEW i \in DOMAIN waiting', NEW j \in DOMAIN waiting', i < j,
                          Alike(waiting'[i], waiting'[j])
                   PROVE  waiting'[i] < waiting'[j]
        OBVIOUS
      <4>1. j - 1 \in DOMAIN waiting /\ waiting'[j] = waiting[j - 1] /\ j > 1
        BY <3>6
      <4>2. CASE i = 1 /\ waiting'[i] = v
        <5>1. waiting[j - 1] \in Range(waiting)
          BY <4>1 DEF Range
        <5> QED
          BY <3>7, <4>1, <4>2, <5>1
      <4>3. CASE i - 1 \in DOMAIN waiting /\ waiting'[i] = waiting[i - 1]
        <5>1. i - 1 < j - 1
          BY <3>6
        <5> QED
          BY <3>1, <4>1, <4>3, <5>1 DEF Arrived
      <4> QED
        BY <3>6, <4>2, <4>3
    <3>9. \A x \in Active' \cup Range(swapped'), h \in Range(waiting') : Alike(x, h) => x < h
      <4> SUFFICES ASSUME NEW x \in Active' \cup Range(swapped'), NEW h \in Range(waiting'), Alike(x, h)
                   PROVE  x < h
        OBVIOUS
      <4>1. x \in Active \cup Range(swapped)
        BY <1>5, <2>1
      <4>2. CASE h \in Range(waiting)
        BY <3>1, <4>1, <4>2 DEF Arrived
      <4>3. CASE h = v
        <5>1. x \notin Range(swapped)
          BY <3>1, <4>3 DEF Arrived, Alike
        <5> QED
          BY <1>5, <2>1, <4>3, <5>1
      <4> QED
        BY <3>6, <4>2, <4>3
    <3>10. (\A x \in Range(swapped') : ~Single(x)) /\ \A x \in Active', h \in Range(swapped') : Alike(x, h) => x < h
      BY <1>5, <2>1, <3>1 DEF Arrived
    <3> QED
      BY <1>7, <3>8, <3>9, <3>10 DEF Arrived
  <2> QED
    BY <1>6, <2>3, <2>4 DEF OrderInv
<1>11. CASE SwappedOut(v)
  <2>1. PICK new : /\ IsGroup(new) /\ Turned(seqs[v], new, "running", "swapped")
                   /\ seqs' = [seqs EXCEPT ![v] = new] /\ swapped' = Append(swapped, v)
                   /\ MaxRunning(v) # 1 /\ waiting' = waiting
    BY <1>11 DEF SwappedOut
  <2>2. Keeps(seqs[v], new)
    BY <1>2, <2>1, KeptWhenTurned DEF Stages
  <2>3. Sampled'
    BY <1>1, <1>2, <1>3, <2>1, <2>2, SampledOne
  <2>4. ASSUME restarts' = 0 PROVE Arrived'
    <3>1. Arrived /\ ~Single(v)
      BY <1>1, <1>8, <1>9, <2>1, <2>4
    <3>2. Range(swapped') = Range(swapped) \cup {v}
      BY <1>2, <2>1, QueuesInStep, AppendOf
    <3>3. \A x \in Active' \cup Range(swapped'), h \in Range(waiting') : Alike(x, h) => x < h
      BY <1>5, <2>1, <3>1, <3>2 DEF Arrived
    <3>4. \A x \in Active', h \in Range(swapped') : Alike(x, h) => x < h
      BY <1>5, <3>1, <3>2 DEF Arrived
    <3>5. /\ \A x \in Range(swapped') : ~Single(x)
          /\ \A i, j \in DOMAIN waiting' : i < j /\ Alike(waiting'[i], waiting'[j]) => waiting'[i] < waiting'[j]
      BY <2>1, <3>1, <3>2 DEF Arrived
    <3> QED
      BY <1>7, <3>3, <3>4, <3>5 DEF Arrived
  <2> QED
    BY <1>6, <2>3, <2>4 DEF OrderInv
<1>12. CASE Raised
  <2>1. Active' \subseteq Active
    BY <1>5
  <2>2. Sampled'
    BY <1>1, <1>3, <1>12, SampledSame DEF Raised
  <2> QED
    BY <1>1, <1>6, <1>9, <1>12, <2>1, <2>2, ArrivedSame DEF OrderInv, Raised
<1> QED
  BY <1>1, <1>10, <1>11, <1>12

LEMMA OrderOfEndDecode == Inv /\ OrderInv /\ EndDecode => OrderInv'
<1> SUFFICES ASSUME Inv, OrderInv, EndDecode PROVE OrderInv'
  OBVIOUS
<1>1. /\ phase = "decode" /\ running = <<>> /\ running' = kept /\ kept' = <<>>
      /\ swapped' = Sorted(swapped) /\ phase' \in {"outputs", "swapin"}
      /\ UNCHANGED <<engine, seqs, waiting, restarts>>
  BY DEF EndDecode
<1>2. Lists /\ InStep
  BY <1>1 DEF Inv
<1>3. Range(swapped') = Range(swapped) /\ InOrder(swapped') /\ Range(<<>>) = {}
  BY <1>1, <1>2, QueuesInStep, SortedInOrder
<1>4. SortedAtPlace'
  <2>1. InOrder(swapped)' <=> InOrder(swapped')
    BY DEF InOrder
  <2> QED
    BY <1>1, <1>3, <2>1 DEF SortedAtPlace
<1>5. Active' \subseteq Active
  BY <1>1, <1>3 DEF Active
<1> QED
  BY <1>1, <1>3, <1>4, <1>5, SampledSame, ArrivedSame DEF OrderInv

(* Steps that resume groups, process their samples and end.                 *)
LEMMA OrderOfSwapIn == Inv /\ OrderInv /\ SwapIn => OrderInv'
<1> SUFFICES ASSUME Inv, OrderInv, SwapIn PROVE OrderInv'
  OBVIOUS
<1>1. PICK g, moved : g = Head(swapped) /\ moved = SwapTo("gpu", pool, Entries(With(g, "swapped")))
  OBVIOUS
<1>2. PICK back : back = Relabel(RenamedAll(seqs[g], moved.to), "swapped", "running")
  OBVIOUS
<1>3. PICK new : new = AppendSlots(moved.pool, back).list
  OBVIOUS
<1>4. /\ phase = "swapin" /\ phase' \in {"swapin", "failed"} /\ swapped # <<>>
      /\ seqs' = [seqs EXCEPT ![g] = new]
      /\ running' = Append(running, g) /\ swapped' = Tail(swapped)
      /\ UNCHANGED <<engine, waiting, kept, restarts>>
  BY <1>1, <1>2, <1>3 DEF SwapIn, Goto
<1>5. Lists /\ InStep /\ \A h \in Groups : IsGroup(seqs[h])
  BY <1>4 DEF Inv, Lists
<1>6. /\ g \in Groups /\ g = swapped[1] /\ 1 \in DOMAIN swapped
      /\ Range(swapped) = Range(swapped') \cup {g}
      /\ \A k \in DOMAIN swapped' : /\ k + 1 \in DOMAIN swapped /\ swapped'[k] = swapped[k + 1]
                                    /\ 1 < k + 1 /\ k \in Int
  BY <1>1, <1>4, <1>5, QueuesInStep, TailOf
<1>7. IsGroup(new) /\ Keeps(seqs[g], new)
  <2>1. IsGroup(back) /\ Turned(seqs[g], back, "swapped", "running")
    BY <1>2, <1>5, <1>6, TabledAndRelabelled DEF RenamedAll, Stages
  <2>2. Turned(back, new, "finished", "finished")
    BY <1>3, <2>1, AppendSlotsOf
  <2>3. Turned(seqs[g], new, "swapped", "running")
    BY <2>1, <2>2, TurnedTwice
  <2> QED
    BY <1>5, <1>6, <2>3, TurnedOf, KeptWhenTurned DEF Stages
<1>8. Sampled'
  BY <1>4, <1>5, <1>6, <1>7, SampledOne DEF OrderInv
<1>9. InOrder(swapped)
  BY <1>4 DEF OrderInv, SortedAtPlace
<1>10. SortedAtPlace'
  <2>1. InOrder(swapped')
    <3> SUFFICES ASSUME NEW i \in DOMAIN swapped', NEW j \in DOMAIN swapped', i < j
                 PROVE  swapped'[i] < swapped'[j]
      BY DEF InOrder
    <3>1. i + 1 < j + 1
      BY <1>6
    <3> QED
      BY <1>6, <1>9, <3>1 DEF InOrder
  <2>2. InOrder(swapped)' <=> InOrder(swapped')
    BY DEF InOrder
  <2> QED
    BY <1>4, <2>1, <2>2 DEF SortedAtPlace
<1>11. ASSUME restarts' = 0 PROVE Arrived'
  <2>1. Arrived
    BY <1>4, <1>11 DEF OrderInv
  <2>2. \A x, y : (Single(x)' <=> Single(x)) /\ (Alike(x, y)' <=> Alike(x, y))
    BY <1>4 DEF Alike, Single, Sampling
  <2>3. Active' = Active \cup {g}
    <3>1. Range(running') = Range(running) \cup {g}
      BY <1>4, <1>5, <1>6, QueuesInStep, AppendOf
    <3> QED
      BY <1>4, <3>1 DEF Active
  <2>4. \A h \in Range(swapped') : g < h
    <3>1. \A k \in DOMAIN swapped' : g < swapped'[k]
      BY <1>6, <1>9 DEF InOrder
    <3> QED
      BY <3>1 DEF Range
  <2>5. \A x \in Active', h \in Range(swapped') : Alike(x, h) => x < h
    BY <1>6, <2>1, <2>3, <2>4 DEF Arrived
  <2>6. \A x \in Active' \cup Range(swapped'), h \in Range(waiting') : Alike(x, h) => x < h
    BY <1>4, <1>6, <2>1, <2>3 DEF Arrived
  <2>7. /\ \A x \in Range(swapped') : ~Single(x)
        /\ \A i, j \in DOMAIN waiting' : i < j /\ Alike(waiting'[i], waiting'[j]) => waiting'[i] < waiting'[j]
    BY <1>4, <1>6, <2>1 DEF Arrived
  <2> QED
    BY <2>2, <2>5, <2>6, <2>7 DEF Arrived
<1> QED
  BY <1>8, <1>10, <1>11 DEF OrderInv

(* All sequences of a group sampled in parallel stop in the same step: they *)
(* can only stop at a limit on their length.                                *)
StopsTogether ==
  \A e \in Engines : \A g \in DOMAIN e.groups :
    e.groups[g].best = 1 \/ e.groups[g].beam \/ ~e.groups[g].stops

LEMMA OrderOfProcessGroup == StopsTogether /\ Inv /\ OrderInv /\ ProcessGroup => OrderInv'
<1> SUFFICES ASSUME StopsTogether, Inv, OrderInv, ProcessGroup PROVE OrderInv'
  OBVIOUS
<1>1. PICK g, new :
        /\ g \in Groups /\ phase = "outputs" /\ phase' \in {"outputs", "failed"}
        /\ seqs' = [seqs EXCEPT ![g] = new] /\ IsGroup(new)
        /\ ~Sampling(g).beam =>
             /\ Single(g) => Len(new) = Len(seqs[g])
             /\ ~Sampling(g).stops /\ Together(seqs[g]) => Together(new)
        /\ UNCHANGED <<engine, waiting, running, swapped, kept, restarts>>
  BY ProcessGroupOf
<1>2. Lists
  BY <1>1 DEF Inv
<1>3. Groups' = Groups /\ \A h \in Groups : seqs'[h] = IF h = g THEN new ELSE seqs[h]
  BY <1>1, <1>2, OneGroup
<1>4. Sampling(g).beam \/ Single(g) \/ ~Sampling(g).stops
  <2>1. engine \in Engines /\ g \in DOMAIN engine.groups
    BY <1>1, <1>2 DEF Lists
  <2> QED
    BY <2>1 DEF StopsTogether, Sampling, Single
<1>5. Sampled'
  <2>1. ~Sampling(g).beam => IF Single(g) THEN Len(new) = 1 ELSE Together(new)
    BY <1>1, <1>4 DEF OrderInv, Sampled
  <2>2. \A h \in Groups : ~Sampling(h).beam => IF Single(h) THEN Len(seqs'[h]) = 1 ELSE Together(seqs'[h])
    BY <1>3, <2>1 DEF OrderInv, Sampled
  <2> QED
    BY <1>1, <1>3, <2>2 DEF Sampled, Single, Sampling
<1>6. SortedAtPlace' /\ Active' = Active
  BY <1>1 DEF SortedAtPlace, Active
<1> QED
  BY <1>1, <1>5, <1>6, ArrivedSame DEF OrderInv

LEMMA OrderOfEndStep == Inv /\ OrderInv /\ EndStep => OrderInv'
<1> SUFFICES ASSUME Inv, OrderInv, EndStep PROVE OrderInv'
  OBVIOUS
<1>1. /\ phase = "outputs" /\ phase' = "idle"
      /\ UNCHANGED <<engine, seqs, waiting, swapped, kept, restarts>>
  BY DEF EndStep
<1>2. Range(running') \subseteq Range(running)
  BY EndStepOf
<1>3. SortedAtPlace' /\ Active' \subseteq Active
  BY <1>1, <1>2 DEF SortedAtPlace, Active
<1> QED
  BY <1>1, <1>3, SampledSame, ArrivedSame DEF OrderInv

(* Steps that move no group.                                                *)
LEMMA OrderOfRest ==
    ASSUME Inv, OrderInv, AdmitFails \/ EndSwapIn \/ UNCHANGED vars
    PROVE  OrderInv'
<1>1. /\ UNCHANGED <<engine, seqs, waiting, running, swapped, kept, restarts>>
      /\ phase' \in {"failed", "outputs", phase}
  BY DEF AdmitFails, EndSwapIn, vars, queues, stepVars
<1>2. SortedAtPlace'
  <2>1. (InOrder(running)' <=> InOrder(running)) /\ (InOrder(swapped)' <=> InOrder(swapped))
    BY <1>1 DEF InOrder
  <2> QED
    BY <1>1, <2>1 DEF OrderInv, SortedAtPlace
<1>3. Active' = Active
  BY <1>1 DEF Active
<1> QED
  BY <1>1, <1>2, <1>3, SampledSame, ArrivedSame DEF OrderInv

(* A hand-over puts the running requests before the waiting ones and the    *)
(* swapped ones last: what was sampled stays, the order is no longer that   *)
(* of arrival.                                                              *)
LEMMA OrderOfRestart == Inv /\ OrderInv /\ Restart => OrderInv'
<1> SUFFICES ASSUME Inv, OrderInv, Restart PROVE OrderInv'
  OBVIOUS
<1>1. /\ phase = "idle" /\ phase' \in {"idle", "failed"} /\ restarts' = restarts + 1 /\ engine' = engine
  BY DEF Restart
<1>2. Lists /\ restarts \in Nat /\ \A h \in Groups : IsGroup(seqs[h])
  BY <1>1 DEF Inv, Lists
<1>3. SortedAtPlace' /\ restarts' # 0
  BY <1>1, <1>2 DEF SortedAtPlace
<1>4. CASE seqs' = seqs
  BY <1>1, <1>3, <1>4, SampledSame DEF OrderInv
<1>5. CASE seqs' = [h \in DOMAIN seqs |->
                      Relabel(Tabled(seqs[h], [i \in DOMAIN seqs[h] |-> <<>>]), "running", "waiting")]
  <2>1. Groups' = Groups /\ \A h \in Groups : Turned(seqs[h], seqs'[h], "running", "waiting")
    BY <1>2, <1>5, TabledAndRelabelled DEF Stages, Groups
  <2>2. \A h \in Groups : Keeps(seqs[h], seqs'[h])
    BY <1>2, <2>1, KeptWhenTurned DEF Stages
  <2> QED
    BY <1>1, <1>3, <2>1, <2>2, SampledAfter DEF OrderInv
<1> QED
  BY <1>4, <1>5 DEF Restart

LEMMA OrderOfNext == StopsTogether /\ Inv /\ OrderInv /\ [Next]_vars => OrderInv'
<1> SUFFICES ASSUME StopsTogether, Inv, OrderInv, [Next]_vars PROVE OrderInv'
  OBVIOUS
<1>1. CASE \E g \in DOMAIN seqs : Abort(g)
  BY <1>1, OrderOfAbort DEF Groups
<1>2. CASE Step
  BY <1>2, OrderOfBeginStep, OrderOfIgnore, OrderOfAdmit, OrderOfEndAdmission, OrderOfGiveSlots,
     OrderOfPreempt, OrderOfEndDecode, OrderOfSwapIn, OrderOfProcessGroup, OrderOfEndStep, OrderOfRest
  DEF Step
<1>3. CASE UNCHANGED vars \/ Terminated
  BY <1>3, OrderOfRest DEF Terminated
<1> QED
  BY <1>1, <1>2, <1>3, OrderOfAddRequest, OrderOfRestart DEF Next

LEMMA InOrderOfArrival == OrderInv => FirstComeFirstServed
BY DEF OrderInv, Arrived, FirstComeFirstServed, Alike, Single

(* Requests are served in the order of their arrival, whatever is preempted,*)
(* resumed or aborted, until they are handed to another engine              *)
(* (Scheduler._schedule), if the sequences of a group sampled in parallel   *)
(* stop together: get_max_num_running_seqs counts the live ones, so a group *)
(* with one sequence left is put back into the waiting queue by             *)
(* _preempt while younger groups of its kind are swapped out.               *)
THEOREM EngineServesInOrder == ASSUME StopsTogether PROVE Spec => []FirstComeFirstServed
<1>1. Inv /\ OrderInv /\ [Next]_vars => (Inv /\ OrderInv)'
  BY NextInv, OrderOfNext
<1>2. Init => Inv /\ OrderInv
  BY InitInv, OrderOfInit
<1>3. Inv /\ OrderInv => FirstComeFirstServed
  BY InOrderOfArrival
<1> QED
  BY <1>1, <1>2, <1>3, PTL DEF Spec

----------------------------------------------------------------------------
(* The lengths of sequences: an unfinished sequence has the length of its   *)
(* prompt, or one it grew to; the longest fits the batch and the cache.     *)
Growth(e, r) == {n \in 0 .. e.maxModelLen : r.prompt < n /\ n < r.prompt + r.max}
LongestFits ==
  \A e \in Engines : \A g \in DOMAIN e.groups : \A n \in Growth(e, e.groups[g]) :
    n <= e.maxTokens /\ e.gpu - (n + e.blockSize - 1) \div e.blockSize >= e.watermark

LensOf(g, list) ==
  \A i \in DOMAIN list :
    IF list[i].status = "finished" THEN list[i].len \in {0, Sampling(g).prompt}
    ELSE list[i].len = Sampling(g).prompt \/ list[i].len \in Growth(engine, Sampling(g))
Lengths == \A g \in Groups : LensOf(g, seqs[g])

SameLens(list, new) ==
  /\ DOMAIN new = DOMAIN list
  /\ \A i \in DOMAIN list : /\ new[i].len = list[i].len
                            /\ new[i].status = "finished" <=> list[i].status = "finished"

LEMMA SameLensWhenTurned ==
    ASSUME NEW list, NEW new, NEW from, NEW to, Turned(list, new, from, to),
           from = to \/ (from # "finished" /\ to # "finished")
    PROVE  SameLens(list, new)
BY DEF Turned, SameLens

LEMMA LensWhenTurned ==
    ASSUME NEW g, NEW list, LensOf(g, list), NEW new, SameLens(list, new)
    PROVE  LensOf(g, new)
BY DEF LensOf, SameLens

LEMMA LengthsAfter ==
    ASSUME Lengths, engine' = engine, Groups' = Groups, \A h \in Groups : SameLens(seqs[h], seqs'[h])
    PROVE  Lengths'
<1>1. \A h \in Groups : LensOf(h, seqs'[h])
  BY LensWhenTurned DEF Lengths
<1> QED
  BY <1>1 DEF Lengths, LensOf, Sampling

LEMMA LengthsSame ==
    ASSUME Lengths, engine' = engine, seqs' = seqs
    PROVE  Lengths'
BY DEF Lengths, LensOf, Sampling, Groups

LEMMA LengthsOne ==
    ASSUME Lists, Lengths, engine' = engine, NEW g \in Groups, NEW new, IsGroup(new),
           seqs' = [seqs EXCEPT ![g] = new], LensOf(g, new)
    PROVE  Lengths'
<1>1. Groups' = Groups /\ \A h \in Groups : seqs'[h] = IF h = g THEN new ELSE seqs[h]
  BY OneGroup
<1>2. \A h \in Groups : LensOf(h, seqs'[h])
  BY <1>1 DEF Lengths
<1> QED
  BY <1>1, <1>2 DEF Lengths, LensOf, Sampling

(* The numbers of a configuration.                                          *)
LEMMA LimitsOf ==
    ASSUME Lists
    PROVE  /\ engine.blockSize \in Nat \ {0} /\ engine.gpu \in Nat /\ engine.watermark \in Nat
           /\ engine.window \in Nat /\ engine.maxModelLen \in Nat /\ engine.maxTokens \in Nat
BY EngineAssumption DEF Lists

LEMMA LengthsOfInit == Init => Lengths
BY DEF Init, Lengths, Groups

LEMMA LengthsOfAddRequest == Inv /\ Lengths /\ AddRequest => Lengths'
<1> SUFFICES ASSUME Inv, Lengths, AddRequest PROVE Lengths'
  OBVIOUS
<1>1. PICK g, new : /\ g = Len(seqs) + 1
                    /\ new = <<[status |-> "waiting", len |-> Sampling(g).prompt, table |-> <<>>]>>
  OBVIOUS
<1>2. phase = "idle" /\ seqs' = Append(seqs, new) /\ engine' = engine
  BY <1>1 DEF AddRequest
<1>3. Lists /\ Len(seqs) \in Nat /\ Groups = 1 .. Len(seqs) /\ seqs \in Seq(Range(seqs))
  BY <1>2 DEF Inv, Lists, Groups
<1>4. Groups' = Groups \cup {g} /\ seqs'[g] = new /\ \A h \in Groups : seqs'[h] = seqs[h]
  <2>1. /\ DOMAIN Append(seqs, new) = 1 .. Len(seqs) + 1
        /\ Append(seqs, new)[Len(seqs) + 1] = new
        /\ \A h \in 1 .. Len(seqs) : Append(seqs, new)[h] = seqs[h]
    BY <1>3
  <2> QED
    BY <1>1, <1>2, <1>3, <2>1 DEF Groups
<1>5. LensOf(g, new)
  <2>1. DOMAIN new = {1} /\ new[1].status = "waiting" /\ new[1].len = Sampling(g).prompt
    BY <1>1
  <2> QED
    BY <2>1 DEF LensOf
<1>6. \A h \in Groups' : LensOf(h, seqs'[h])
  BY <1>4, <1>5 DEF Lengths
<1> QED
  BY <1>2, <1>6 DEF Lengths, LensOf, Sampling

LEMMA LengthsOfAbort == ASSUME Inv, Lengths, NEW g \in Groups, Abort(g) PROVE Lengths'
<1> DEFINE new == [i \in DOMAIN seqs[g] |-> Finished]
<1>1. phase = "idle" /\ seqs' = [seqs EXCEPT ![g] = new] /\ engine' = engine
  BY DEF Abort
<1>2. Lists
  BY <1>1 DEF Inv
<1>3. IsGroup(new) /\ LensOf(g, new)
  <2>1. IsSeq(Finished) /\ Finished.status = "finished" /\ Finished.len = 0
    BY DEF IsSeq, Finished, Stages
  <2>2. PICK n \in Nat : DOMAIN seqs[g] = 1 .. n
    BY <1>2, SamplingOf
  <2>3. new \in Seq(Range(new))
    BY <2>2, ListOf
  <2> QED
    BY <2>1, <2>3 DEF IsGroup, LensOf
<1> HIDE DEF new
<1> QED
  BY <1>1, <1>2, <1>3, LengthsOne

(* Steps that change tables and the status of unfinished sequences.         *)
LEMMA LengthsOfBeginStep == Inv /\ Lengths /\ BeginStep => Lengths'
<1> SUFFICES ASSUME Inv, Lengths, BeginStep PROVE Lengths'
  OBVIOUS
<1>1. /\ phase = "idle" /\ engine' = engine
      /\ \/ seqs' = seqs
         \/ seqs' = [h \in Groups |-> RenamedAll(seqs[h], Rewritten(pool, Load))]
  BY DEF BeginStep, Groups
<1>2. \A h \in Groups : IsGroup(seqs[h])
  BY <1>1 DEF Inv, Lists
<1>3. CASE seqs' = seqs
  BY <1>1, <1>3, LengthsSame
<1>4. CASE seqs' = [h \in Groups |-> RenamedAll(seqs[h], Rewritten(pool, Load))]
  <2>1. PICK to : to = Rewritten(pool, Load)
    OBVIOUS
  <2>2. seqs' = [h \in Groups |-> RenamedAll(seqs[h], to)]
    BY <1>4, <2>1
  <2>3. \A h \in Groups : Turned(seqs[h], seqs'[h], "finished", "finished")
    BY <1>2, <2>2, TabledOf DEF RenamedAll
  <2>4. Groups' = Groups /\ \A h \in Groups : SameLens(seqs[h], seqs'[h])
    BY <2>2, <2>3, SameLensWhenTurned DEF Groups
  <2> QED
    BY <1>1, <2>4, LengthsAfter
<1> QED
  BY <1>1, <1>3, <1>4

LEMMA LengthsOfAdmit == Inv /\ Lengths /\ Admit => Lengths'
<1> SUFFICES ASSUME Inv, Lengths, Admit PROVE Lengths'
  OBVIOUS
<1>1. PICK g, got, new : /\ g = Head(waiting) /\ got = Allocate(pool, Prompt(g), Len(seqs[g]))
                         /\ new = Relabel(Tabled(seqs[g], [i \in Having(g, "waiting") |-> got.table]),
                                          "waiting", "running")
  OBVIOUS
<1>2. /\ phase = "admit" /\ waiting # <<>> /\ HasOnePrompt(Head(waiting))
      /\ seqs' = [seqs EXCEPT ![g] = new] /\ engine' = engine
  BY <1>1 DEF Admit
<1>3. Lists /\ g \in Groups /\ IsGroup(seqs[g])
  BY <1>1, <1>2, WaitingHead DEF Inv, Lists
<1>4. IsGroup(new) /\ Turned(seqs[g], new, "waiting", "running")
  BY <1>1, <1>3, TabledAndRelabelled DEF Stages
<1>5. LensOf(g, new)
  BY <1>3, <1>4, SameLensWhenTurned, LensWhenTurned DEF Lengths
<1> QED
  BY <1>2, <1>3, <1>4, <1>5, LengthsOne

LEMMA LengthsOfGiveSlots == Inv /\ Lengths /\ GiveSlots => Lengths'
<1> SUFFICES ASSUME Inv, Lengths, GiveSlots PROVE Lengths'
  OBVIOUS
<1>1. PICK g, new : g = Head(running) /\ new = AppendSlots(pool, seqs[g]).list
  OBVIOUS
<1>2. phase = "decode" /\ running # <<>> /\ seqs' = [seqs EXCEPT ![g] = new] /\ engine' = engine
  BY <1>1 DEF GiveSlots
<1>3. Lists /\ InStep
  BY <1>2 DEF Inv
<1>4. g \in Groups /\ IsGroup(seqs[g])
  BY <1>1, <1>2, <1>3, QueuesInStep, TailOf DEF Lists
<1>5. Turned(seqs[g], new, "finished", "finished") /\ IsGroup(new)
  BY <1>1, <1>4, AppendSlotsOf, TurnedOf DEF Stages
<1>6. LensOf(g, new)
  BY <1>4, <1>5, SameLensWhenTurned, LensWhenTurned DEF Lengths
<1> QED
  BY <1>2, <1>3, <1>4, <1>5, <1>6, LengthsOne

LEMMA LengthsOfPreempt == Inv /\ Lengths /\ Preempt => Lengths'
<1> SUFFICES ASSUME Inv, Lengths, Preempt PROVE Lengths'
  OBVIOUS
<1>1. PICK v : /\ v \in Groups /\ phase = "decode" /\ engine' = engine
               /\ Recomputed(v) \/ SwappedOut(v) \/ Raised
  BY PreemptOf
<1>2. Lists
  BY <1>1 DEF Inv
<1>3. CASE Recomputed(v)
  <2>1. PICK new : /\ IsGroup(new) /\ Turned(seqs[v], new, "running", "waiting")
                   /\ seqs' = [seqs EXCEPT ![v] = new]
    BY <1>3 DEF Recomputed
  <2>2. LensOf(v, new)
    BY <1>1, <2>1, SameLensWhenTurned, LensWhenTurned DEF Lengths
  <2> QED
    BY <1>1, <1>2, <2>1, <2>2, LengthsOne
<1>4. CASE SwappedOut(v)
  <2>1. PICK new : /\ IsGroup(new) /\ Turned(seqs[v], new, "running", "swapped")
                   /\ seqs' = [seqs EXCEPT ![v] = new]
    BY <1>4 DEF SwappedOut
  <2>2. LensOf(v, new)
    BY <1>1, <2>1, SameLensWhenTurned, LensWhenTurned DEF Lengths
  <2> QED
    BY <1>1, <1>2, <2>1, <2>2, LengthsOne
<1>5. CASE Raised
  BY <1>1, <1>5, LengthsSame DEF Raised
<1> QED
  BY <1>1, <1>3, <1>4, <1>5

LEMMA LengthsOfSwapIn == Inv /\ Lengths /\ SwapIn => Lengths'
<1> SUFFICES ASSUME Inv, Lengths, SwapIn PROVE Lengths'
  OBVIOUS
<1>1. PICK g, moved : g = Head(swapped) /\ moved = SwapTo("gpu", pool, Entries(With(g, "swapped")))
  OBVIOUS
<1>2. PICK back, new : /\ back = Relabel(RenamedAll(seqs[g], moved.to), "swapped", "running")
                       /\ new = AppendSlots(moved.pool, back).list
  OBVIOUS
<1>3. phase = "swapin" /\ swapped # <<>> /\ seqs' = [seqs EXCEPT ![g] = new] /\ engine' = engine
  BY <1>1, <1>2 DEF SwapIn
<1>4. Lists /\ InStep
  BY <1>3 DEF Inv
<1>5. g \in Groups /\ IsGroup(seqs[g])
  BY <1>1, <1>3, <1>4, QueuesInStep, TailOf DEF Lists
<1>6. IsGroup(back) /\ Turned(seqs[g], back, "swapped", "running")
  BY <1>2, <1>5, TabledAndRelabelled DEF RenamedAll, Stages
<1>7. Turned(back, new, "finished", "finished") /\ IsGroup(new)
  BY <1>2, <1>6, AppendSlotsOf, TurnedOf DEF Stages
<1>8. LensOf(g, new)
  <2>1. SameLens(seqs[g], back) /\ SameLens(back, new)
    BY <1>6, <1>7, SameLensWhenTurned
  <2> QED
    BY <1>5, <2>1, LensWhenTurned DEF Lengths
<1> QED
  BY <1>3, <1>4, <1>5, <1>7, <1>8, LengthsOne

LEMMA LengthsOfRestart == Inv /\ Lengths /\ Restart => Lengths'
<1> SUFFICES ASSUME Inv, Lengths, Restart PROVE Lengths'
  OBVIOUS
<1>1. phase = "idle" /\ engine' = engine
  BY DEF Restart
<1>2. \A h \in Groups : IsGroup(seqs[h])
  BY <1>1 DEF Inv, Lists
<1>3. CASE seqs' = seqs
  BY <1>1, <1>3, LengthsSame
<1>4. CASE seqs' = [h \in DOMAIN seqs |->
                      Relabel(Tabled(seqs[h], [i \in DOMAIN seqs[h] |-> <<>>]), "running", "waiting")]
  <2>1. Groups' = Groups /\ \A h \in Groups : Turned(seqs[h], seqs'[h], "running", "waiting")
    BY <1>2, <1>4, TabledAndRelabelled DEF Stages, Groups
  <2>2. \A h \in Groups : SameLens(seqs[h], seqs'[h])
    BY <2>1, SameLensWhenTurned
  <2> QED
    BY <1>1, <2>1, <2>2, LengthsAfter
<1> QED
  BY <1>3, <1>4 DEF Restart

(* A request that is ignored has not grown: what it could grow to fits.     *)
LEMMA IgnoredPrompt ==
    ASSUME LongestFits, Lists, NEW g \in Groups, HasOnePrompt(g), Ignores(g)
    PROVE  \A i \in Having(g, "waiting") : seqs[g][i].len \notin Growth(engine, Sampling(g))
<1> DEFINE list == seqs[g]
           I == Having(g, "waiting")
<1>1. I \in SUBSET DOMAIN list /\ list \in Seq(Range(list)) /\ Cardinality(I) = 1
  BY SamplingOf DEF Having, HasOnePrompt, NumSeqs, IsGroup
<1>2. \A i \in I : list[i] = Prompt(g)
  <2>1. PICK few : few = Pick(list, I)
    OBVIOUS
  <2>2. DOMAIN few = 1 .. 1 /\ Range(few) = {list[i] : i \in I}
    <3> HIDE DEF I, list
    <3>1. I \in SUBSET DOMAIN list /\ list \in Seq(Range(list))
      BY <1>1
    <3>2. Range(Pick(list, I)) = {list[i] : i \in I}
      BY <3>1, PickOf
    <3>3. DOMAIN Pick(list, I) = 1 .. Cardinality(I)
      BY <3>1, PickOf
    <3> QED
      BY <1>1, <2>1, <3>2, <3>3
  <2>3. few[1] = Prompt(g)
    BY <2>1 DEF Prompt, With
  <2> HIDE DEF I, list
  <2> QED
    BY <2>2, <2>3 DEF Range
<1>3. PICK n : n = Prompt(g).len
  OBVIOUS
<1>4. ASSUME n \in Growth(engine, Sampling(g)) PROVE FALSE
  <2>1. engine \in Engines /\ g \in DOMAIN engine.groups
    BY DEF Lists
  <2>2. n \in Nat /\ n <= engine.maxModelLen
    BY <1>4, LimitsOf DEF Growth
  <2>3. n <= engine.maxTokens /\ engine.gpu - Logical(n) >= engine.watermark
    BY <1>4, <2>1 DEF LongestFits, Sampling, Logical
  <2>4. ~TooLong(g)
    BY <1>3, <2>2, <2>3, LimitsOf DEF TooLong, PromptLimit
  <2>5. PICK k \in Int : k = Logical(n)
    BY <2>2, LimitsOf DEF Logical
  <2>6. Required(Prompt(g)) \in Int /\ Required(Prompt(g)) <= k
    BY <1>3, <2>5, LimitsOf DEF Required, Window
  <2>7. PICK r \in Int : r = Required(Prompt(g)) /\ r <= k
    BY <2>6
  <2>8. CanAllocate(pool, Prompt(g)) # "never"
    <3>1. ~(engine.gpu - r < engine.watermark)
      BY <2>3, <2>5, <2>7, LimitsOf
    <3> QED
      BY <2>7, <3>1 DEF CanAllocate
  <2> QED
    BY <2>4, <2>8 DEF Ignores
<1> QED
  BY <1>2, <1>3, <1>4

LEMMA LengthsOfIgnore == LongestFits /\ Inv /\ Lengths /\ Ignore => Lengths'
<1> SUFFICES ASSUME LongestFits, Inv, Lengths, Ignore PROVE Lengths'
  OBVIOUS
<1>1. PICK g, new : g = Head(waiting) /\ new = Relabel(seqs[g], "waiting", "finished")
  OBVIOUS
<1>2. /\ phase = "admit" /\ waiting # <<>> /\ HasOnePrompt(g) /\ Ignores(g)
      /\ seqs' = [seqs EXCEPT ![g] = new] /\ engine' = engine
  BY <1>1 DEF Ignore
<1>3. Lists /\ g \in Groups /\ IsGroup(seqs[g])
  BY <1>1, <1>2, WaitingHead DEF Inv, Lists
<1>4. Turned(seqs[g], new, "waiting", "finished") /\ IsGroup(new)
  BY <1>1, <1>3, RelabelOf, TurnedOf DEF Stages
<1>5. LensOf(g, new)
  <2> SUFFICES ASSUME NEW i \in DOMAIN new
               PROVE  IF new[i].status = "finished" THEN new[i].len \in {0, Sampling(g).prompt}
                      ELSE new[i].len = Sampling(g).prompt \/ new[i].len \in Growth(engine, Sampling(g))
    BY DEF LensOf
  <2>1. /\ i \in DOMAIN seqs[g] /\ new[i].len = seqs[g][i].len
        /\ new[i].status = IF seqs[g][i].status = "waiting" THEN "finished" ELSE seqs[g][i].status
    BY <1>4 DEF Turned
  <2>2. IF seqs[g][i].status = "finished" THEN seqs[g][i].len \in {0, Sampling(g).prompt}
        ELSE seqs[g][i].len = Sampling(g).prompt \/ seqs[g][i].len \in Growth(engine, Sampling(g))
    BY <1>3, <2>1 DEF Lengths, LensOf
  <2>3. seqs[g][i].status = "waiting" => seqs[g][i].len \notin Growth(engine, Sampling(g))
    BY <1>2, <1>3, <2>1, IgnoredPrompt DEF Having
  <2> QED
    BY <2>1, <2>2, <2>3
<1> QED
  BY <1>2, <1>3, <1>4, <1>5, LengthsOne

(* A sample is one token longer, within both limits of _check_stop.         *)
LEMMA LengthsOfProcessGroup == Inv /\ Lengths /\ ProcessGroup => Lengths'
<1> SUFFICES ASSUME Inv, Lengths, ProcessGroup PROVE Lengths'
  OBVIOUS
<1>1. PICK g, new : /\ g \in Groups /\ phase = "outputs" /\ seqs' = [seqs EXCEPT ![g] = new]
                    /\ IsGroup(new) /\ GrownFrom(g, new) /\ engine' = engine
  BY ProcessGroupOf
<1>2. Lists /\ LensOf(g, seqs[g])
  BY <1>1 DEF Inv, Lengths
<1>3. PICK p, m : p = Sampling(g).prompt /\ m = Sampling(g).max
  OBVIOUS
<1>4. p \in Nat /\ m \in Nat \ {0} /\ engine.maxModelLen \in Nat
  BY <1>1, <1>2, <1>3, SamplingOf, LimitsOf
<1>5. \A n : n \in Growth(engine, Sampling(g)) <=> n \in 0 .. engine.maxModelLen /\ p < n /\ n < p + m
  BY <1>3 DEF Growth
<1>6. ASSUME NEW i \in Parents(g), NEW n, n = seqs[g][i].len + 1, ~AtLimit(g, n)
      PROVE  n \in Growth(engine, Sampling(g))
  <2>1. seqs[g][i].len = p \/ seqs[g][i].len \in Growth(engine, Sampling(g))
    BY <1>2, <1>3 DEF LensOf, Parents, Having
  <2>2. PICK k \in Nat : k = seqs[g][i].len /\ (k = p \/ (p < k /\ k < p + m))
    BY <1>4, <1>5, <2>1
  <2>3. n <= engine.maxModelLen /\ n - p # m
    BY <1>3, <1>4, <1>6, <2>2 DEF AtLimit
  <2>4. n = k + 1
    BY <1>6, <2>2
  <2> QED
    BY <1>4, <1>5, <2>2, <2>3, <2>4
<1>7. LensOf(g, new)
  <2>1. Finished.status = "finished" /\ Finished.len = 0
    BY DEF Finished
  <2> QED
    BY <1>1, <1>2, <1>6, <2>1 DEF GrownFrom, LensOf
<1> QED
  BY <1>1, <1>2, <1>7, LengthsOne

LEMMA LengthsOfNext == LongestFits /\ Inv /\ Lengths /\ [Next]_vars => Lengths'
<1> SUFFICES ASSUME LongestFits, Inv, Lengths, [Next]_vars PROVE Lengths'
  OBVIOUS
<1>1. CASE \E g \in DOMAIN seqs : Abort(g)
  BY <1>1, LengthsOfAbort DEF Groups
<1>2. CASE AdmitFails \/ EndAdmission \/ EndDecode \/ EndSwapIn \/ EndStep \/ Terminated \/ UNCHANGED vars
  <2>1. engine' = engine /\ seqs' = seqs
    BY <1>2 DEF AdmitFails, EndAdmission, EndDecode, EndSwapIn, EndStep, Terminated, vars
  <2> QED
    BY <2>1, LengthsSame
<1> QED
  BY <1>1, <1>2, LengthsOfAddRequest, LengthsOfBeginStep, LengthsOfIgnore, LengthsOfAdmit, LengthsOfGiveSlots,
     LengthsOfPreempt, LengthsOfSwapIn, LengthsOfProcessGroup, LengthsOfRestart DEF Next, Step

(* An exception does not change what was ignored.                           *)
LEMMA IgnoredStay ==
    ASSUME Inv, [Next]_vars, phase' = "failed"
    PROVE  \A g \in Range(ignored') : g \in Range(ignored) /\ seqs'[g] = seqs[g]
<1>1. CASE AdmitFails \/ Terminated \/ UNCHANGED vars
  BY <1>1 DEF AdmitFails, Terminated, vars, stepVars
<1>2. CASE (\E g \in DOMAIN seqs : Abort(g)) \/ GiveSlots \/ Preempt \/ SwapIn \/ Restart
  <2>1. phase \in {"idle", "decode", "swapin"} /\ ignored' = ignored
    BY <1>2 DEF Abort, GiveSlots, Preempt, SwapIn, Restart, stepVars
  <2>2. ignored' = <<>>
    BY <2>1 DEF Inv, InStep
  <2> QED
    BY <2>2 DEF Range
<1>3. CASE ProcessGroup
  <2>1. PICK h, new : /\ h \in Groups /\ phase = "outputs" /\ seqs' = [seqs EXCEPT ![h] = new]
                      /\ LiveIn(seqs[h]) = {"running"} /\ IsGroup(new) /\ ignored' = ignored
    BY <1>3, ProcessGroupOf
  <2>2. Lists /\ InStep /\ Placed /\ Range(ignored) \subseteq Groups
    <3>1. Lists /\ InStep /\ Placed
      BY <2>1 DEF Inv
    <3> QED
      BY <3>1, QueuesInStep DEF Range
  <2>3. h \notin Range(ignored)
    BY <2>1, <2>2 DEF Placed, InPlace, InStage
  <2>4. \A g \in Groups : seqs'[g] = IF g = h THEN new ELSE seqs[g]
    BY <2>1, <2>2, OneGroup
  <2> QED
    BY <2>1, <2>2, <2>3, <2>4
<1>4. CASE \/ AddRequest \/ BeginStep \/ Ignore \/ Admit \/ EndAdmission \/ EndDecode \/ EndSwapIn
           \/ EndStep
  <2>1. phase' \in {"idle", "admit", "decode", "swapin", "outputs"}
    BY <1>4 DEF AddRequest, BeginStep, Ignore, Admit, EndAdmission, EndDecode, EndSwapIn, EndStep
  <2> QED
    BY <2>1
<1> QED
  BY <1>1, <1>2, <1>3, <1>4 DEF Next, Step

LEMMA CutShortNext ==
    LongestFits /\ Inv /\ Lengths /\ NeverCutShort /\ [Next]_vars => (Lengths /\ NeverCutShort)'
<1> SUFFICES ASSUME LongestFits, Inv, Lengths, NeverCutShort, [Next]_vars
             PROVE  Lengths' /\ NeverCutShort'
  OBVIOUS
<1>1. Lengths' /\ Inv'
  BY LengthsOfNext, NextInv
<1>2. CASE phase' = "failed"
  <2>1. engine' = engine
    BY DEF Next, Step, AddRequest, Abort, BeginStep, AdmitFails, Ignore, Admit, EndAdmission, GiveSlots,
       Preempt, EndDecode, SwapIn, EndSwapIn, ProcessGroup, EndStep, Restart, Terminated, vars
  <2>2. \A g \in Range(ignored') : g \in Range(ignored) /\ seqs'[g] = seqs[g]
    BY <1>2, IgnoredStay
  <2> QED
    BY <1>1, <2>1, <2>2 DEF NeverCutShort, Sampling
<1>3. CASE phase' # "failed"
  <2>1. Lists' /\ Placed'
    BY <1>1, <1>3 DEF Inv
  <2>2. Range(ignored') \subseteq Groups'
    <3>1. ignored' \in Seq(Groups')
      BY <2>1 DEF Lists, QueuesOfGroups
    <3> QED
      BY <3>1 DEF Range
  <2>3. \A g \in Range(ignored') : LiveIn(seqs'[g]) = {}
    BY <2>1, <2>2 DEF Placed, InPlace, InStage
  <2>4. \A g \in Range(ignored') : \A i \in DOMAIN seqs'[g] : seqs'[g][i].status = "finished"
    BY <2>3 DEF LiveIn
  <2> QED
    BY <1>1, <2>2, <2>4 DEF NeverCutShort, Lengths, LensOf
<1> QED
  BY <1>1, <1>2, <1>3

(* A request that was admitted once is not rejected as too long when it     *)
(* waits again with the tokens it was given, after a preemption or in the   *)
(* next engine, if the batch and the cache, less the watermark, hold the    *)
(* longest sequence the group can grow to.                                  *)
THEOREM EngineCutsNothingShort == ASSUME LongestFits PROVE Spec => []NeverCutShort
<1>1. Init => Inv /\ Lengths /\ NeverCutShort
  BY InitInv, LengthsOfInit DEF Init, NeverCutShort, Range
<1>2. Inv /\ Lengths /\ NeverCutShort /\ [Next]_vars => (Inv /\ Lengths /\ NeverCutShort)'
  BY NextInv, CutShortNext
<1> QED
  BY <1>1, <1>2, PTL DEF Spec

=============================================================================
