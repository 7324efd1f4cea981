----------------------------- MODULE BlockProofs -----------------------------
(***************************************************************************)
(* Machine-checked proofs about module Block, for any finite numbers of    *)
(* producers and consumers, every ring size and every range of the         *)
(* indices: the ring never holds more than its cells, no wakeup is lost,   *)
(* and the ring is a bounded queue.                                        *)
(***************************************************************************)
EXTENDS BlockCorrect, RingIndex, FiniteSetTheorems

-----------------------------------------------------------------------------
(* The indices, which go round. *)

LEMMA SizeCases ==
    ASSUME NEW h \in 0 .. SizeMod - 1, NEW t \in 0 .. SizeMod - 1
    PROVE  (h - t) % SizeMod = IF t <= h THEN h - t ELSE h - t + SizeMod
<1>1. SizeMod \in Nat /\ SizeMod >= 1 /\ \A k \in 0 .. SizeMod - 1 : k % SizeMod = k
    BY SizeModAssumption, ObjNumAssumption
<1>2. CASE t <= h
    BY <1>1, <1>2
<1>3. CASE h < t
    <2>1. ((h - t) + SizeMod) % SizeMod = (h - t) % SizeMod
        <3>1. h - t \in Int
            OBVIOUS
        <3> QED
            BY <1>1, <3>1, SameCellNextLap
    <2>2. (h - t) + SizeMod \in 0 .. SizeMod - 1
        BY <1>1, <1>3
    <2> QED
        BY <1>1, <1>3, <2>1, <2>2
<1> QED
    BY <1>2, <1>3

LEMMA IncrCases ==
    ASSUME NEW k \in 0 .. SizeMod - 1
    PROVE  Incr(k) = IF k = SizeMod - 1 THEN 0 ELSE k + 1
<1>1. SizeMod \in Nat /\ SizeMod >= 1 /\ \A j \in 0 .. SizeMod - 1 : j % SizeMod = j
    BY SizeModAssumption, ObjNumAssumption
<1>2. CASE k = SizeMod - 1
    <2>1. (0 + SizeMod) % SizeMod = 0 % SizeMod
        BY <1>1, SameCellNextLap
    <2> QED
        BY <1>1, <1>2, <2>1 DEF Incr
<1>3. CASE k # SizeMod - 1
    BY <1>1, <1>3 DEF Incr
<1> QED
    BY <1>2, <1>3

\* head_ == tail_ says empty, and each increment changes the size by one, whether
\* it goes round or not.
LEMMA SizeFacts ==
    ASSUME NEW h \in 0 .. SizeMod - 1, NEW t \in 0 .. SizeMod - 1
    PROVE  /\ (h - t) % SizeMod \in 0 .. SizeMod - 1
           /\ (h - t) % SizeMod = 0 <=> h = t
           /\ Incr(h) \in 0 .. SizeMod - 1
           /\ (h - t) % SizeMod < SizeMod - 1 =>
                 (Incr(h) - t) % SizeMod = ((h - t) % SizeMod) + 1
           /\ h # t => (h - Incr(t)) % SizeMod = ((h - t) % SizeMod) - 1
<1>1. SizeMod \in Nat /\ SizeMod > 1
    BY SizeModAssumption, ObjNumAssumption
<1>2. Incr(h) \in 0 .. SizeMod - 1 /\ Incr(t) \in 0 .. SizeMod - 1
    BY <1>1, IncrCases
<1>3. (h - t) % SizeMod = IF t <= h THEN h - t ELSE h - t + SizeMod
    BY SizeCases
<1>4. (Incr(h) - t) % SizeMod = IF t <= Incr(h) THEN Incr(h) - t ELSE Incr(h) - t + SizeMod
    BY <1>2, SizeCases
<1>5. (h - Incr(t)) % SizeMod = IF Incr(t) <= h THEN h - Incr(t) ELSE h - Incr(t) + SizeMod
    BY <1>2, SizeCases
<1>6. /\ Incr(h) = IF h = SizeMod - 1 THEN 0 ELSE h + 1
      /\ Incr(t) = IF t = SizeMod - 1 THEN 0 ELSE t + 1
    BY IncrCases
<1> QED
    BY <1>1, <1>2, <1>3, <1>4, <1>5, <1>6

-----------------------------------------------------------------------------
(* Counting threads. *)

\* The number of threads of a side at one of some labels.
At(f, side, labels) == Cardinality({t \in side : f[t] \in labels})

\* What one thread with label l adds to it.
One(l, labels) == IF l \in labels THEN 1 ELSE 0

\* The conjunct of NoLostWakeup about one side: n is what it waits for, objects or
\* free cells, and other is the side that signals it.
Covered(f, side, other, n) ==
    (\E t \in side : f[t] = "wait") =>
        n <= At(f, side, {"lock", "test"}) + At(f, other, {"signal"})

LEMMA AtType ==
    ASSUME NEW side \in {Producers, Consumers}, NEW f, NEW labels
    PROVE  At(f, side, labels) \in Nat
BY ThreadAssumption, FS_Subset, FS_CardinalityType DEF At

\* What becomes of the count when one thread moves.
LEMMA AtAfterMove ==
    ASSUME NEW side \in {Producers, Consumers}, NEW labels,
           NEW f \in [Threads -> Labels], NEW g \in [Threads -> Labels], NEW t \in Threads,
           \A s \in Threads : s # t => g[s] = f[s]
    PROVE  /\ At(f, side, labels) \in Nat
           /\ t \notin side => At(g, side, labels) = At(f, side, labels)
           /\ t \in side =>
                 At(g, side, labels) = At(f, side, labels) + One(g[t], labels) - One(f[t], labels)
<1> DEFINE before == {s \in side : f[s] \in labels}
           after == {s \in side : g[s] \in labels}
<1>1. IsFiniteSet(before)
    <2>1. IsFiniteSet(side)
        BY ThreadAssumption
    <2> QED
        BY <2>1, FS_Subset
<1>2. \A s \in side : s # t => g[s] = f[s]
    BY DEF Threads
<1>3. side \in SUBSET Threads
    BY DEF Threads
<1>4. Cardinality(before) \in Nat
    BY <1>1, FS_CardinalityType
<1>5. CASE t \notin side
    <2>1. after = before
        BY <1>2, <1>5
    <2> QED
        BY <1>4, <1>5, <2>1 DEF At
<1>6. CASE t \in side /\ (f[t] \in labels <=> g[t] \in labels)
    <2>1. after = before
        BY <1>2, <1>3, <1>6
    <2>2. One(g[t], labels) = One(f[t], labels) /\ One(g[t], labels) \in Int
        BY <1>6 DEF One
    <2>3. At(g, side, labels) = At(f, side, labels) /\ At(f, side, labels) \in Nat
        BY <1>4, <2>1 DEF At
    <2> QED
        BY <1>6, <2>2, <2>3
<1>7. CASE t \in side /\ f[t] \notin labels /\ g[t] \in labels
    <2>1. after = before \cup {t} /\ t \notin before
        BY <1>2, <1>3, <1>7
    <2>2. Cardinality(after) = Cardinality(before) + 1
        BY <1>1, <2>1, FS_AddElement
    <2> QED
        BY <1>4, <1>7, <2>2 DEF At, One
<1>8. CASE t \in side /\ f[t] \in labels /\ g[t] \notin labels
    <2>1. after = before \ {t} /\ t \in before
        BY <1>2, <1>3, <1>8
    <2>2. Cardinality(after) = Cardinality(before) - 1
        <3> HIDE DEF before, after
        <3>1. Cardinality(before \ {t}) = Cardinality(before) - 1
            BY <1>1, <2>1, FS_RemoveElement
        <3> QED
            BY <2>1, <3>1
    <2> QED
        BY <1>4, <1>8, <2>2 DEF At, One
<1> QED
    BY <1>5, <1>6, <1>7, <1>8

-----------------------------------------------------------------------------
(* The invariant. *)

\* Exactly the thread that owns the mutex is between its lock and its unlock: what
\* pthread_mutex_lock and pthread_cond_wait promise.
OwnerInside ==
    \A t \in Threads : pc[t] \in {"test", "signal", "unlock"} <=> mtx = t

\* TypeOK, OwnerInside and NoLostWakeup together are inductive.
IInv == TypeOK /\ OwnerInside /\ NoLostWakeup

\* NoLostWakeup in terms of the counts.
LEMMA WakeupsAreCovered ==
    /\ NoLostWakeup <=> /\ Covered(pc, Consumers, Producers, Size)
                        /\ Covered(pc, Producers, Consumers, ObjNum - Size)
    /\ NoLostWakeup' <=> /\ Covered(pc', Consumers, Producers, Size')
                         /\ Covered(pc', Producers, Consumers, ObjNum - Size')
<1>1. /\ Waiting(Consumers) # {} <=> \E t \in Consumers : pc[t] = "wait"
      /\ Waiting(Producers) # {} <=> \E t \in Producers : pc[t] = "wait"
    BY DEF Waiting
<1>2. /\ Waiting(Consumers)' # {} <=> \E t \in Consumers : pc'[t] = "wait"
      /\ Waiting(Producers)' # {} <=> \E t \in Producers : pc'[t] = "wait"
    BY DEF Waiting
<1>3. /\ Due(Consumers) = At(pc, Consumers, {"signal"})
      /\ Due(Producers) = At(pc, Producers, {"signal"})
      /\ Due(Consumers)' = At(pc', Consumers, {"signal"})
      /\ Due(Producers)' = At(pc', Producers, {"signal"})
    <2>1. \A side, f : {t \in side : f[t] = "signal"} = {t \in side : f[t] \in {"signal"}}
        OBVIOUS
    <2> QED
        BY <2>1 DEF Due, At
<1>4. NoLostWakeup <=> /\ Covered(pc, Consumers, Producers, Size)
                       /\ Covered(pc, Producers, Consumers, ObjNum - Size)
    BY <1>1, <1>3 DEF NoLostWakeup, Covered, Awake, At
<1>5. NoLostWakeup' <=> /\ Covered(pc', Consumers, Producers, Size')
                        /\ Covered(pc', Producers, Consumers, ObjNum - Size')
    BY <1>2, <1>3 DEF NoLostWakeup, Covered, Awake, At
<1> QED
    BY <1>4, <1>5

\* What a thread with label l contributes: as one of its own side that will look at
\* the ring again, and as one of the other side that will signal.
Looks(l) == One(l, {"lock", "test"})
Signals(l) == One(l, {"signal"})

\* A step of one thread t from n to m objects (or free cells) keeps a side covered
\* if t makes up for the difference and does not start to wait.
LEMMA CoveredAfterMove ==
    ASSUME NEW f \in [Threads -> Labels], NEW g \in [Threads -> Labels], NEW t \in Threads,
           \A s \in Threads : s # t => g[s] = f[s],
           NEW side \in {Producers, Consumers}, NEW other \in {Producers, Consumers},
           NEW n \in Int, NEW m \in Int,
           Covered(f, side, other, n),
           \/ t \in side /\ t \notin other /\ g[t] # "wait"
              /\ m + Looks(f[t]) <= n + Looks(g[t])
           \/ t \in other /\ t \notin side
              /\ m + Signals(f[t]) <= n + Signals(g[t])
    PROVE  Covered(g, side, other, m)
<1> DEFINE LT == {"lock", "test"}
           Sg == {"signal"}
<1> HIDE DEF LT, Sg
<1>1. /\ At(f, side, LT) \in Nat
      /\ t \notin side => At(g, side, LT) = At(f, side, LT)
      /\ t \in side => At(g, side, LT) = At(f, side, LT) + One(g[t], LT) - One(f[t], LT)
    BY AtAfterMove
<1>2. /\ At(f, other, Sg) \in Nat
      /\ t \notin other => At(g, other, Sg) = At(f, other, Sg)
      /\ t \in other => At(g, other, Sg) = At(f, other, Sg) + One(g[t], Sg) - One(f[t], Sg)
    BY AtAfterMove
<1>3. /\ Looks(g[t]) = One(g[t], LT) /\ Looks(f[t]) = One(f[t], LT)
      /\ Signals(g[t]) = One(g[t], Sg) /\ Signals(f[t]) = One(f[t], Sg)
      /\ One(g[t], LT) \in Int /\ One(f[t], LT) \in Int
      /\ One(g[t], Sg) \in Int /\ One(f[t], Sg) \in Int
    BY DEF Looks, Signals, One, LT, Sg
<1>4. (\E s \in side : g[s] = "wait") => \E s \in side : f[s] = "wait"
    BY ThreadAssumption DEF Threads
<1>5. n <= At(f, side, LT) + At(f, other, Sg) => m <= At(g, side, LT) + At(g, other, Sg)
    BY <1>1, <1>2, <1>3
<1> QED
    BY <1>4, <1>5 DEF Covered, LT, Sg

\* A side is covered if it has nothing to wait for.
LEMMA CoveredByNone ==
    ASSUME NEW side \in {Producers, Consumers}, NEW other \in {Producers, Consumers},
           NEW f, NEW n \in Int, n <= 0
    PROVE  Covered(f, side, other, n)
<1>1. /\ At(f, side, {"lock", "test"}) \in Nat
      /\ At(f, other, {"signal"}) \in Nat
    BY AtType
<1> QED
    BY <1>1 DEF Covered

LEMMA StateFacts ==
    ASSUME TypeOK
    PROVE  /\ head \in 0 .. SizeMod - 1 /\ tail \in 0 .. SizeMod - 1
           /\ Size \in 0 .. ObjNum /\ ObjNum \in Nat /\ ObjNum < SizeMod /\ SizeMod \in Nat
           /\ Size = 0 <=> head = tail
           /\ pc \in [Threads -> Labels]
<1>1. /\ head \in 0 .. SizeMod - 1 /\ tail \in 0 .. SizeMod - 1 /\ Size \in 0 .. ObjNum
      /\ pc \in [Threads -> Labels]
    BY DEF TypeOK
<1>2. Size = 0 <=> head = tail
    BY <1>1, SizeFacts DEF Size
<1> QED
    BY <1>1, <1>2, ObjNumAssumption, SizeModAssumption

\* Both sides stay covered if one thread moves and makes up, towards its own side
\* and towards the other, for what the size of the ring does.
LEMMA WakeupsAfterMove ==
    ASSUME TypeOK, NoLostWakeup, TypeOK',
           NEW t \in Threads, pc'[t] # "wait", \A s \in Threads : s # t => pc'[s] = pc[s],
           t \in Producers =>
               /\ (ObjNum - Size') + Looks(pc[t]) <= (ObjNum - Size) + Looks(pc'[t])
               /\ Size' + Signals(pc[t]) <= Size + Signals(pc'[t]),
           t \in Consumers =>
               /\ Size' + Looks(pc[t]) <= Size + Looks(pc'[t])
               /\ (ObjNum - Size') + Signals(pc[t]) <= (ObjNum - Size) + Signals(pc'[t])
    PROVE  NoLostWakeup'
<1>1. /\ pc \in [Threads -> Labels] /\ pc' \in [Threads -> Labels]
      /\ Size \in Int /\ Size' \in Int /\ ObjNum - Size \in Int /\ ObjNum - Size' \in Int
    BY ObjNumAssumption DEF TypeOK
<1>2. \/ t \in Producers /\ t \notin Consumers
      \/ t \in Consumers /\ t \notin Producers
    BY ThreadAssumption DEF Threads
<1>3. Covered(pc', Consumers, Producers, Size')
    BY <1>1, <1>2, WakeupsAreCovered, CoveredAfterMove
<1>4. Covered(pc', Producers, Consumers, ObjNum - Size')
    BY <1>1, <1>2, WakeupsAreCovered, CoveredAfterMove
<1> QED
    BY <1>3, <1>4, WakeupsAreCovered

\* ... and if the size does not change, but for a thread that starts to wait, which
\* it does only if there is nothing for its side.
LEMMA WakeupsAfterWait ==
    ASSUME TypeOK, NoLostWakeup, TypeOK', UNCHANGED <<head, tail>>,
           NEW t \in Threads, pc[t] = "test", pc'[t] = "wait",
           \A s \in Threads : s # t => pc'[s] = pc[s],
           t \in Producers => Size = ObjNum,
           t \in Consumers => Size = 0
    PROVE  NoLostWakeup'
<1>1. /\ pc \in [Threads -> Labels] /\ pc' \in [Threads -> Labels]
      /\ Size \in Int /\ Size' = Size /\ ObjNum - Size \in Int
    BY ObjNumAssumption DEF TypeOK, Size
<1>2. /\ Size + Signals(pc[t]) <= Size + Signals(pc'[t])
      /\ (ObjNum - Size) + Signals(pc[t]) <= (ObjNum - Size) + Signals(pc'[t])
    BY <1>1 DEF Signals, One
<1>3. \/ t \in Producers /\ t \notin Consumers
      \/ t \in Consumers /\ t \notin Producers
    BY ThreadAssumption DEF Threads
<1>4. Covered(pc', Consumers, Producers, Size)
    <2>1. CASE t \in Producers
        BY <1>1, <1>2, <1>3, <2>1, WakeupsAreCovered, CoveredAfterMove
    <2>2. CASE t \in Consumers
        BY <1>1, <2>2, CoveredByNone
    <2> QED
        BY <1>3, <2>1, <2>2
<1>5. Covered(pc', Producers, Consumers, ObjNum - Size)
    <2>1. CASE t \in Consumers
        BY <1>1, <1>2, <1>3, <2>1, WakeupsAreCovered, CoveredAfterMove
    <2>2. CASE t \in Producers
        BY <1>1, <2>2, CoveredByNone
    <2> QED
        BY <1>3, <2>1, <2>2
<1> QED
    BY <1>1, <1>4, <1>5, WakeupsAreCovered

-----------------------------------------------------------------------------
(* Every step keeps it. *)

LEMMA InitIInv == ASSUME Init PROVE IInv
<1> USE ObjNumAssumption, SizeModAssumption, ThreadAssumption DEF Init
<1>1. Size = 0
    <2>1. 0 \in 0 .. SizeMod - 1
        OBVIOUS
    <2> QED
        BY <2>1, SizeFacts DEF Size
<1>2. TypeOK
    BY <1>1 DEF TypeOK, Objects, Labels, Threads
<1>3. OwnerInside
    BY DEF OwnerInside, Threads
<1>4. NoLostWakeup
    BY DEF NoLostWakeup, Waiting, Threads
<1> QED
    BY <1>2, <1>3, <1>4 DEF IInv

\* Steps outside the ring: a thread starts a call, gets the mutex, wakes up for no
\* reason, or gives the mutex back.
LEMMA QuietStep ==
    ASSUME IInv, NEW t \in Threads, UNCHANGED <<head, tail, buffer>>,
           \/ (t \in Producers /\ PushBegin(t)) \/ (t \in Consumers /\ PopBegin(t))
           \/ Lock(t) \/ SpuriousWakeup(t) \/ Unlock(t)
    PROVE  IInv'
<1> USE ThreadAssumption DEF IInv
<1>1. \/ /\ pc[t] = "idle" /\ pc' = [pc EXCEPT ![t] = "lock"] /\ mtx' = mtx
         /\ \/ t \in Producers /\ \E v \in Values : val' = [val EXCEPT ![t] = v]
            \/ t \in Consumers /\ val' = val
      \/ /\ pc[t] = "lock" /\ pc' = [pc EXCEPT ![t] = "test"]
         /\ mtx = Nobody /\ mtx' = t /\ val' = val
      \/ pc[t] = "wait" /\ pc' = [pc EXCEPT ![t] = "lock"] /\ mtx' = mtx /\ val' = val
      \/ /\ pc[t] = "unlock" /\ pc' = [pc EXCEPT ![t] = "idle"] /\ mtx' = Nobody
         /\ val' = IF t \in Producers THEN [val EXCEPT ![t] = Junk] ELSE val
    BY DEF PushBegin, PopBegin, Lock, SpuriousWakeup, Unlock, Goto
<1>2. Size' = Size
    BY DEF Size
<1>3. TypeOK'
    <2>1. val' \in [Threads -> Objects] /\ mtx' \in Threads \cup {Nobody}
        BY <1>1 DEF TypeOK, Objects
    <2>2. pc' \in [Threads -> Labels]
        BY <1>1 DEF TypeOK, Labels
    <2>3. \A p \in Producers : pc'[p] # "idle" => val'[p] \in Values
        BY <1>1 DEF TypeOK, Threads
    <2> QED
        BY <1>2, <2>1, <2>2, <2>3 DEF TypeOK
<1>4. OwnerInside'
    BY <1>1 DEF TypeOK, OwnerInside, Threads
<1>5. NoLostWakeup'
    <2>1. /\ pc'[t] # "wait" /\ \A s \in Threads : s # t => pc'[s] = pc[s]
          /\ Looks(pc[t]) <= Looks(pc'[t]) /\ Signals(pc[t]) <= Signals(pc'[t])
          /\ Looks(pc[t]) \in Int /\ Looks(pc'[t]) \in Int
          /\ Signals(pc[t]) \in Int /\ Signals(pc'[t]) \in Int
        BY <1>1 DEF TypeOK, Looks, Signals, One
    <2>2. Size \in Int /\ ObjNum \in Int
        BY StateFacts
    <2> QED
        BY <1>2, <1>3, <2>1, <2>2, WakeupsAfterMove
<1> QED
    BY <1>3, <1>4, <1>5

\* A thread that finds nothing for it releases the mutex and waits.
LEMMA WaitStep ==
    ASSUME IInv, NEW t \in Threads,
           (t \in Producers /\ PushWait(t)) \/ (t \in Consumers /\ PopWait(t))
    PROVE  IInv'
<1> USE DEF IInv
<1>1. /\ UNCHANGED <<head, tail, buffer, val>> /\ mtx' = Nobody
      /\ pc[t] = "test" /\ pc' = [pc EXCEPT ![t] = "wait"]
      /\ t \in Producers => Size >= ObjNum
      /\ t \in Consumers => head = tail
    BY ThreadAssumption DEF PushWait, PopWait, Full, CondWait, Goto
<1>2. Size' = Size
    BY <1>1 DEF Size
<1>3. TypeOK'
    BY <1>1, <1>2 DEF TypeOK, Labels
<1>4. OwnerInside'
    BY <1>1, ThreadAssumption DEF TypeOK, OwnerInside, Threads
<1>5. NoLostWakeup'
    <2>1. /\ pc'[t] = "wait" /\ \A s \in Threads : s # t => pc'[s] = pc[s]
          /\ t \in Producers => Size = ObjNum
          /\ t \in Consumers => Size = 0
        BY <1>1, StateFacts
    <2> QED
        BY <1>1, <1>3, <2>1, WakeupsAfterWait
<1> QED
    BY <1>3, <1>4, <1>5

\* A push stores its object, or a pop takes one, and a signal is due.
LEMMA RingStep ==
    ASSUME IInv, NEW t \in Threads,
           (t \in Producers /\ PushInsert(t)) \/ (t \in Consumers /\ PopRemove(t))
    PROVE  IInv'
<1> USE DEF IInv
<1>1. /\ mtx' = mtx /\ pc[t] = "test" /\ pc' = [pc EXCEPT ![t] = "signal"]
      /\ \/ /\ t \in Producers /\ t \notin Consumers /\ ~ (Size >= ObjNum)
            /\ head' = Incr(head) /\ tail' = tail /\ val' = val
            /\ buffer' = [buffer EXCEPT ![Idx(head)] = val[t]]
         \/ /\ t \in Consumers /\ t \notin Producers /\ head # tail
            /\ tail' = Incr(tail) /\ head' = head /\ buffer' = buffer
            /\ val' = [val EXCEPT ![t] = buffer[Idx(tail)]]
    BY ThreadAssumption DEF PushInsert, PopRemove, Full, Store, Signal, Goto, Threads
<1>2. \/ t \in Producers /\ t \notin Consumers /\ Size < ObjNum /\ Size' = Size + 1
      \/ t \in Consumers /\ t \notin Producers /\ Size > 0 /\ Size' = Size - 1
    <2>1. /\ head \in 0 .. SizeMod - 1 /\ tail \in 0 .. SizeMod - 1
          /\ Size \in 0 .. ObjNum /\ ObjNum \in Nat /\ ObjNum < SizeMod /\ SizeMod \in Nat
          /\ Size = 0 <=> head = tail
        BY StateFacts
    <2>2. CASE t \in Producers
        <3>1. Size < SizeMod - 1 => (Incr(head) - tail) % SizeMod = Size + 1
            BY <2>1, SizeFacts DEF Size
        <3>2. Size' = (Incr(head) - tail) % SizeMod
            BY <1>1, <2>2 DEF Size
        <3> QED
            BY <1>1, <2>1, <2>2, <3>1, <3>2
    <2>3. CASE t \in Consumers
        <3>1. head # tail => (head - Incr(tail)) % SizeMod = Size - 1
            BY <2>1, SizeFacts DEF Size
        <3>2. Size' = (head - Incr(tail)) % SizeMod
            BY <1>1, <2>3 DEF Size
        <3> QED
            BY <1>1, <2>1, <2>3, <3>1, <3>2
    <2> QED
        BY <1>1, <2>2, <2>3
<1>3. TypeOK'
    <2>1. head' \in 0 .. SizeMod - 1 /\ tail' \in 0 .. SizeMod - 1
        BY <1>1, StateFacts, SizeFacts
    <2>2. Size' \in 0 .. ObjNum
        BY <1>2, StateFacts
    <2>3. buffer' \in [Cells -> Objects]
        BY <1>1 DEF TypeOK
    <2>4. val' \in [Threads -> Objects] /\ \A p \in Producers : val'[p] = val[p]
        <3>1. tail \in Int
            BY StateFacts
        <3>2. Idx(tail) \in Cells
            BY <3>1, DivisionWithRemainder, ObjNumAssumption DEF Idx, Cells
        <3>3. buffer[Idx(tail)] \in Objects /\ val \in [Threads -> Objects]
            BY <3>2 DEF TypeOK
        <3> QED
            BY <1>1, <3>3 DEF Threads
    <2>5. mtx' \in Threads \cup {Nobody} /\ pc' \in [Threads -> Labels]
        BY <1>1 DEF TypeOK, Labels
    <2>6. \A p \in Producers : pc'[p] # "idle" => pc[p] # "idle"
        BY <1>1 DEF TypeOK, Threads
    <2>7. \A p \in Producers : pc'[p] # "idle" => val'[p] \in Values
        BY <2>4, <2>6 DEF TypeOK
    <2> QED
        BY <2>1, <2>2, <2>3, <2>4, <2>5, <2>7 DEF TypeOK
<1>4. OwnerInside'
    BY <1>1 DEF TypeOK, OwnerInside
<1>5. NoLostWakeup'
    <2>1. /\ pc'[t] = "signal" /\ \A s \in Threads : s # t => pc'[s] = pc[s]
          /\ Looks(pc[t]) = 1 /\ Looks(pc'[t]) = 0
          /\ Signals(pc[t]) = 0 /\ Signals(pc'[t]) = 1
        BY <1>1 DEF TypeOK, Looks, Signals, One
    <2> QED
        BY <1>2, <1>3, <2>1, StateFacts, WakeupsAfterMove
<1> QED
    BY <1>3, <1>4, <1>5

\* The signal wakes a thread of the other side, or nobody waits there.
LEMMA SignalStep ==
    ASSUME IInv, NEW own \in {Producers, Consumers}, NEW side \in {Producers, Consumers},
           own \cap side = {}, NEW t \in own, CondSignal(t, side)
    PROVE  IInv'
<1> USE DEF IInv
<1>1. /\ UNCHANGED <<head, tail, buffer, mtx, val>> /\ pc[t] = "signal"
      /\ t \in Threads /\ t \notin side /\ side \subseteq Threads /\ own \subseteq Threads
    BY DEF CondSignal, Threads
<1>2. Size' = Size
    BY <1>1 DEF Size
<1>3. CASE /\ \A w \in side : pc[w] # "wait"
           /\ pc' = [pc EXCEPT ![t] = "unlock"]
    <2>1. TypeOK'
        BY <1>1, <1>2, <1>3 DEF TypeOK, Labels
    <2>2. OwnerInside'
        BY <1>1, <1>3 DEF TypeOK, OwnerInside
    <2>3. /\ Covered(pc', side, own, Size) /\ Covered(pc', side, own, ObjNum - Size)
        BY <1>1, <1>3 DEF Covered
    <2>4. ASSUME NEW n \in Int, Covered(pc, own, side, n)
          PROVE  Covered(pc', own, side, n)
        <3>1. /\ pc \in [Threads -> Labels] /\ pc' \in [Threads -> Labels]
              /\ \A s \in Threads : s # t => pc'[s] = pc[s]
              /\ pc'[t] # "wait" /\ n + Looks(pc[t]) <= n + Looks(pc'[t])
            BY <1>1, <1>3, <2>1 DEF TypeOK, Looks, One
        <3> QED
            BY <1>1, <2>4, <3>1, CoveredAfterMove
    <2>5. NoLostWakeup'
        <3>1. Size \in Int /\ ObjNum - Size \in Int
            BY StateFacts
        <3>2. \/ own = Producers /\ side = Consumers
              \/ own = Consumers /\ side = Producers
            BY <1>1
        <3> QED
            BY <1>2, <2>3, <2>4, <3>1, <3>2, WakeupsAreCovered
    <2> QED
        BY <2>1, <2>2, <2>5
<1>4. ASSUME NEW w \in side, pc[w] = "wait",
             pc' = [pc EXCEPT ![w] = "lock", ![t] = "unlock"]
      PROVE  IInv'
    <2> DEFINE f == [pc EXCEPT ![w] = "lock"]
    <2>1. TypeOK'
        BY <1>1, <1>2, <1>4 DEF TypeOK, Labels
    <2>2. OwnerInside'
        BY <1>1, <1>4 DEF TypeOK, OwnerInside
    <2>3. /\ pc \in [Threads -> Labels] /\ pc' \in [Threads -> Labels]
          /\ f \in [Threads -> Labels]
          /\ f[w] = "lock" /\ \A s \in Threads : s # w => f[s] = pc[s]
          /\ pc'[t] = "unlock" /\ \A s \in Threads : s # t => pc'[s] = f[s]
          /\ f[t] = "signal" /\ w \in Threads /\ w \notin own
        BY <1>1, <1>4, <2>1 DEF TypeOK, Labels
    <2> HIDE DEF f
    <2>4. /\ Looks(pc[w]) = 0 /\ Looks(f[w]) = 1 /\ Signals(pc[w]) = 0 /\ Signals(f[w]) = 0
          /\ Looks(f[t]) = 0 /\ Looks(pc'[t]) = 0 /\ Signals(f[t]) = 1 /\ Signals(pc'[t]) = 0
        BY <1>4, <2>3 DEF Looks, Signals, One
    <2>5. ASSUME NEW n \in Int, Covered(pc, side, own, n)
          PROVE  Covered(pc', side, own, n)
        <3>1. n + 1 \in Int /\ (n + 1) + Looks(pc[w]) <= n + Looks(f[w])
              /\ n + Signals(f[t]) <= (n + 1) + Signals(pc'[t])
            BY <2>4
        <3>2. Covered(f, side, own, n + 1)
            BY <2>3, <2>5, <3>1, CoveredAfterMove
        <3> QED
            BY <1>1, <2>3, <3>1, <3>2, CoveredAfterMove
    <2>6. ASSUME NEW n \in Int, Covered(pc, own, side, n)
          PROVE  Covered(pc', own, side, n)
        <3>1. /\ n + Signals(pc[w]) <= n + Signals(f[w])
              /\ n + Looks(f[t]) <= n + Looks(pc'[t]) /\ pc'[t] # "wait"
            BY <2>3, <2>4
        <3>2. Covered(f, own, side, n)
            BY <2>3, <2>6, <3>1, CoveredAfterMove
        <3> QED
            BY <1>1, <2>3, <3>1, <3>2, CoveredAfterMove
    <2>7. NoLostWakeup'
        <3>1. Size \in Int /\ ObjNum - Size \in Int
            BY StateFacts
        <3>2. \/ own = Producers /\ side = Consumers
              \/ own = Consumers /\ side = Producers
            BY <1>1
        <3> QED
            BY <1>2, <2>5, <2>6, <3>1, <3>2, WakeupsAreCovered
    <2> QED
        BY <2>1, <2>2, <2>7
<1> QED
    BY <1>3, <1>4 DEF CondSignal, Goto

LEMMA NextIInv == ASSUME IInv, [Next]_vars PROVE IInv'
<1>1. CASE UNCHANGED vars
    BY <1>1 DEF vars, IInv, TypeOK, OwnerInside, NoLostWakeup, Size, Awake, Waiting, Due
<1>2. ASSUME NEW t \in Threads,
             \/ (t \in Producers /\ PushBegin(t)) \/ (t \in Consumers /\ PopBegin(t))
             \/ Lock(t) \/ SpuriousWakeup(t) \/ Unlock(t)
      PROVE  IInv'
    <2>1. UNCHANGED <<head, tail, buffer>>
        BY <1>2 DEF PushBegin, PopBegin, Lock, SpuriousWakeup, Unlock
    <2> QED
        BY <1>2, <2>1, QuietStep
<1>3. ASSUME NEW p \in Producers, Push(p) PROVE IInv'
    <2>1. p \in Threads
        BY DEF Threads
    <2>2. CASE CondSignal(p, Consumers)
        BY <2>2, ThreadAssumption, SignalStep
    <2>3. CASE PushWait(p) \/ PushInsert(p)
        BY <2>1, <2>3, WaitStep, RingStep
    <2> QED
        BY <1>1, <1>2, <1>3, <2>1, <2>2, <2>3 DEF Push, PushStep, SizeTooLarge
<1>4. ASSUME NEW c \in Consumers, Pop(c) PROVE IInv'
    <2>1. c \in Threads
        BY DEF Threads
    <2>2. CASE CondSignal(c, Producers)
        BY <2>2, ThreadAssumption, SignalStep
    <2>3. CASE PopWait(c) \/ PopRemove(c)
        BY <2>1, <2>3, WaitStep, RingStep
    <2> QED
        BY <1>1, <1>2, <1>4, <2>1, <2>2, <2>3 DEF Pop, PopStep, SizeTooLarge
<1> QED
    BY <1>1, <1>3, <1>4 DEF Next

-----------------------------------------------------------------------------
(* The theorems. *)

\* The three invariants of the blocking ring hold together in every reachable state.
THEOREM Invariance == Spec => []IInv
BY InitIInv, NextIInv, PTL DEF Spec

\* All variables keep their types and the ring never holds more than objNum_
\* objects, also when head_ and tail_ go round.
THEOREM TypeCorrect == Spec => []TypeOK
<1>1. IInv => TypeOK
    BY DEF IInv
<1> QED
    BY <1>1, Invariance, PTL

\* One pthread_cond_signal for each push and each pop is enough: while a thread
\* waits, whatever it waits for has another thread to take it, or a signal to come.
THEOREM WakeupsSuffice == Spec => []NoLostWakeup
<1>1. IInv => NoLostWakeup
    BY DEF IInv
<1> QED
    BY <1>1, Invariance, PTL

\* While a consumer waits in pthread_cond_wait although the ring has an object, some
\* thread is about to look at the ring or to signal: the ring is never left with
\* consumers asleep and objects in it.
THEOREM NobodyWaitsForNothing ==
    Spec => [](\A c \in Consumers : pc[c] = "wait" /\ Size > 0 =>
                   \E t \in Threads : pc[t] \in {"lock", "test", "signal"})
<1>1. ASSUME IInv, NEW c \in Consumers, pc[c] = "wait", Size > 0,
             \A t \in Threads : pc[t] \notin {"lock", "test", "signal"}
      PROVE  FALSE
    <2>1. Awake(Consumers) = {} /\ {t \in Producers : pc[t] = "signal"} = {}
        BY <1>1 DEF Awake, Threads
    <2>2. Cardinality(Awake(Consumers)) = 0 /\ Due(Producers) = 0
        BY <2>1, FS_EmptySet DEF Due
    <2>3. Size <= Cardinality(Awake(Consumers)) + Due(Producers)
        BY <1>1 DEF IInv, NoLostWakeup, Waiting
    <2>4. Size \in Int
        BY <1>1, StateFacts DEF IInv
    <2> QED
        BY <1>1, <2>2, <2>3, <2>4
<1>2. IInv => \A c \in Consumers : pc[c] = "wait" /\ Size > 0 =>
                  \E t \in Threads : pc[t] \in {"lock", "test", "signal"}
    BY <1>1
<1> QED
    BY <1>2, Invariance, PTL
-----------------------------------------------------------------------------
(* The ring is a bounded FIFO queue. *)

\* The queue is made of objects, one for each position from tail_ to head_; the
\* cell head_ points to, in a ring that is not full, has none of them.
LEMMA QueueFacts ==
    ASSUME TypeOK
    PROVE  /\ absQueue \in [1 .. Size -> Objects]
           /\ \A i \in 1 .. Size + 1 : Idx(tail + i - 1) \in Cells
           /\ Idx(head) \in Cells
           /\ Idx(head) = Idx(tail + Size)
           /\ \A i \in 1 .. Size : Size < ObjNum => Idx(tail + i - 1) # Idx(head)
           /\ \A i \in 1 .. Size : Idx(Incr(tail) + i - 1) = Idx(tail + i)
<1>1. /\ head \in 0 .. SizeMod - 1 /\ tail \in 0 .. SizeMod - 1
      /\ Size \in 0 .. ObjNum /\ ObjNum \in Nat /\ SizeMod \in Nat
      /\ ObjNum >= 1 /\ SizeMod % ObjNum = 0
    BY StateFacts, ObjNumAssumption, SizeModAssumption
<1>2. ASSUME NEW k \in Int PROVE Idx(k) \in Cells /\ Idx(k + SizeMod) = Idx(k)
    <2>1. k % ObjNum \in 0 .. ObjNum - 1
        BY <1>1, DivisionWithRemainder
    <2>2. (k + SizeMod) % ObjNum = k % ObjNum
        <3>1. SizeMod \in Int
            BY <1>1
        <3> QED
            BY <1>1, <3>1, WholeLaps, Zenon
    <2> QED
        BY <2>1, <2>2 DEF Idx, Cells
<1>3. Size = IF tail <= head THEN head - tail ELSE head - tail + SizeMod
    BY <1>1, SizeCases DEF Size
<1>4. Idx(head) = Idx(tail + Size)
    <2>1. CASE tail <= head
        <3>1. tail + Size = head
            BY <1>1, <1>3, <2>1
        <3> QED
            BY <3>1
    <2>2. CASE ~ (tail <= head)
        <3>1. tail + Size = head + SizeMod
            BY <1>1, <1>3, <2>2
        <3> QED
            BY <1>1, <1>2, <3>1
    <2> QED
        BY <2>1, <2>2
<1>5. ASSUME NEW i \in 1 .. Size, Size < ObjNum PROVE Idx(tail + i - 1) # Idx(head)
    <2>1. /\ tail + i - 1 \in Int /\ tail + Size \in Int
          /\ (tail + i - 1) - (tail + Size) < ObjNum
          /\ (tail + Size) - (tail + i - 1) < ObjNum
          /\ tail + i - 1 # tail + Size
        BY <1>1, <1>5
    <2> QED
        BY <1>1, <1>4, <2>1, SameCellSamePosition DEF Idx
<1>6. ASSUME NEW i \in 1 .. Size PROVE Idx(Incr(tail) + i - 1) = Idx(tail + i)
    <2>1. Incr(tail) = IF tail = SizeMod - 1 THEN 0 ELSE tail + 1
        BY <1>1, IncrCases
    <2>2. CASE tail = SizeMod - 1
        <3>1. /\ tail + i = (Incr(tail) + i - 1) + SizeMod
              /\ Incr(tail) + i - 1 \in Int
            BY <1>1, <2>1, <2>2
        <3> QED
            BY <1>2, <3>1
    <2>3. CASE tail # SizeMod - 1
        <3>1. Incr(tail) + i - 1 = tail + i
            BY <1>1, <2>1, <2>3
        <3> QED
            BY <3>1
    <2> QED
        BY <2>2, <2>3
<1>7. \A i \in 1 .. Size + 1 : tail + i - 1 \in Int
    BY <1>1
<1>8. absQueue \in [1 .. Size -> Objects]
    BY <1>1, <1>2, <1>7 DEF absQueue, TypeOK
<1>9. head \in Int
    BY <1>1
<1> QED
    BY <1>2, <1>4, <1>5, <1>6, <1>7, <1>8, <1>9

\* A push that stores its object appends it to the queue.
LEMMA PushEnqueues ==
    ASSUME IInv, IInv', NEW p \in Producers, PushInsert(p)
    PROVE  Fifo!Enqueue(val[p])
<1>1. /\ ~ (Size >= ObjNum)
      /\ head' = Incr(head) /\ tail' = tail /\ val' = val
      /\ buffer' = [buffer EXCEPT ![Idx(head)] = val[p]]
    BY DEF PushInsert, Full, Store
<1>2. /\ head \in 0 .. SizeMod - 1 /\ tail \in 0 .. SizeMod - 1
      /\ Size \in 0 .. ObjNum /\ ObjNum \in Nat /\ ObjNum < SizeMod /\ SizeMod \in Nat
      /\ buffer \in [Cells -> Objects] /\ val[p] \in Objects
    BY StateFacts, ThreadAssumption DEF IInv, TypeOK, Threads
<1>3. Size' = Size + 1
    <2>1. Size < SizeMod - 1 => (Incr(head) - tail) % SizeMod = Size + 1
        BY <1>2, SizeFacts DEF Size
    <2>2. Size' = (Incr(head) - tail) % SizeMod
        BY <1>1 DEF Size
    <2> QED
        BY <1>1, <1>2, <2>1, <2>2
<1>4. /\ absQueue \in [1 .. Size -> Objects]
      /\ \A i \in 1 .. Size + 1 : Idx(tail + i - 1) \in Cells
      /\ Idx(head) \in Cells /\ Idx(head) = Idx(tail + Size)
      /\ \A i \in 1 .. Size : Idx(tail + i - 1) # Idx(head)
    BY <1>1, <1>2, QueueFacts DEF IInv
<1>5. absQueue' = [i \in 1 .. Size + 1 |-> buffer'[Idx(tail + i - 1)]]
    BY <1>1, <1>3 DEF absQueue, Idx
<1>6. absQueue' \in [1 .. Size + 1 -> Objects]
    <2>1. buffer' \in [Cells -> Objects]
        BY DEF IInv, TypeOK
    <2> QED
        BY <1>4, <1>5, <2>1
<1>7. ASSUME NEW i \in 1 .. Size PROVE absQueue'[i] = absQueue[i]
    <2>1. i \in 1 .. Size + 1
        BY <1>2
    <2>2. buffer'[Idx(tail + i - 1)] = buffer[Idx(tail + i - 1)]
        BY <1>1, <1>2, <1>4, <2>1
    <2> QED
        BY <1>5, <2>1, <2>2 DEF absQueue
<1>8. absQueue'[Size + 1] = val[p]
    <2>1. Size + 1 \in 1 .. Size + 1 /\ tail + (Size + 1) - 1 = tail + Size
        BY <1>2
    <2> QED
        BY <1>1, <1>2, <1>4, <1>5, <2>1
<1>9. absQueue' = Append(absQueue, val[p])
    BY <1>2, <1>4, <1>6, <1>7, <1>8, AppendedSequence
<1>10. Len(absQueue) < ObjNum
    BY <1>1, <1>2, <1>4, FunctionIsSequence
<1> QED
    BY <1>1, <1>9, <1>10 DEF Fifo!Enqueue

\* A pop that copies an object takes the first of the queue.
LEMMA PopDequeues ==
    ASSUME IInv, IInv', NEW c \in Consumers, PopRemove(c)
    PROVE  Fifo!Dequeue(c)
<1>1. /\ head # tail
      /\ tail' = Incr(tail) /\ head' = head /\ buffer' = buffer
      /\ val' = [val EXCEPT ![c] = buffer[Idx(tail)]]
    BY DEF PopRemove
<1>2. /\ head \in 0 .. SizeMod - 1 /\ tail \in 0 .. SizeMod - 1
      /\ Size \in 0 .. ObjNum /\ Size # 0 /\ ObjNum \in Nat /\ SizeMod \in Nat
      /\ val \in [Threads -> Objects]
    BY <1>1, StateFacts DEF IInv, TypeOK
<1>3. Size' = Size - 1
    <2>1. (head - Incr(tail)) % SizeMod = Size - 1
        BY <1>1, <1>2, SizeFacts DEF Size
    <2> QED
        BY <1>1, <2>1 DEF Size
<1>4. /\ absQueue \in [1 .. Size -> Objects]
      /\ \A i \in 1 .. Size : Idx(Incr(tail) + i - 1) = Idx(tail + i)
    BY QueueFacts DEF IInv
<1>5. absQueue' = [i \in 1 .. Size - 1 |-> buffer[Idx(Incr(tail) + i - 1)]]
    BY <1>1, <1>3 DEF absQueue, Idx
<1>6. absQueue' \in [1 .. Size - 1 -> Objects]
    <2>1. \A i \in 1 .. Size - 1 : i \in 1 .. Size /\ i + 1 \in 1 .. Size + 1 /\ tail + (i + 1) - 1 = tail + i
        BY <1>2
    <2>2. buffer \in [Cells -> Objects] /\ \A i \in 1 .. Size + 1 : Idx(tail + i - 1) \in Cells
        BY QueueFacts DEF IInv, TypeOK
    <2>3. \A i \in 1 .. Size - 1 : Idx(Incr(tail) + i - 1) \in Cells
        BY <1>4, <2>1, <2>2
    <2> QED
        BY <1>5, <2>2, <2>3
<1>7. ASSUME NEW i \in 1 .. Size - 1 PROVE absQueue'[i] = absQueue[i + 1]
    <2>1. i \in 1 .. Size /\ i + 1 \in 1 .. Size /\ tail + (i + 1) - 1 = tail + i
        BY <1>2
    <2>2. absQueue[i + 1] = buffer[Idx(tail + i)]
        BY <2>1 DEF absQueue
    <2> QED
        BY <1>4, <1>5, <2>1, <2>2
<1>8. absQueue # << >> /\ Head(absQueue) = absQueue[1] /\ absQueue' = Tail(absQueue)
    BY <1>2, <1>4, <1>6, <1>7, RestOfSequence
<1>9. absQueue[1] = buffer[Idx(tail)]
    <2>1. 1 \in 1 .. Size /\ tail + 1 - 1 = tail
        BY <1>2
    <2> QED
        BY <2>1 DEF absQueue
<1>10. [d \in Consumers |-> val[d]]' = [[d \in Consumers |-> val[d]] EXCEPT ![c] = Head(absQueue)]
    BY <1>1, <1>2, <1>8, <1>9 DEF Threads
<1> QED
    BY <1>8, <1>10 DEF Fifo!Dequeue

\* The other steps do not touch the cells, the indices or what pops have delivered.
LEMMA QuietStutters ==
    ASSUME UNCHANGED <<head, tail, buffer>>, \A c \in Consumers : val'[c] = val[c]
    PROVE  UNCHANGED Fifo!fifoVars
<1>1. absQueue' = absQueue
    BY DEF absQueue, Size, Idx
<1>2. [c \in Consumers |-> val[c]]' = [c \in Consumers |-> val[c]]
    OBVIOUS
<1> QED
    BY <1>1, <1>2 DEF Fifo!fifoVars

LEMMA StepRefines ==
    ASSUME IInv, IInv', [Next]_vars
    PROVE  [Fifo!FifoNext]_(Fifo!fifoVars)
<1>1. CASE UNCHANGED vars
    BY <1>1, QuietStutters DEF vars
<1>2. ASSUME NEW p \in Producers, PushInsert(p) PROVE Fifo!FifoNext
    <2>1. val[p] \in Values
        BY <1>2 DEF IInv, TypeOK, PushInsert
    <2> QED
        BY <1>2, <2>1, PushEnqueues DEF Fifo!FifoNext
<1>3. ASSUME NEW c \in Consumers, PopRemove(c) PROVE Fifo!FifoNext
    BY <1>3, PopDequeues DEF Fifo!FifoNext
<1>4. ASSUME NEW p \in Producers, Push(p), ~ PushInsert(p)
      PROVE  UNCHANGED <<head, tail, buffer>> /\ \A c \in Consumers : val'[c] = val[c]
    <2>1. val \in [Threads -> Objects] /\ \A c \in Consumers : c \in Threads /\ c # p
        BY ThreadAssumption DEF IInv, TypeOK, Threads
    <2>2. UNCHANGED <<head, tail, buffer>>
        BY <1>4 DEF Push, PushStep, SizeTooLarge, vars, PushBegin, Lock,
            PushWait, CondWait, CondSignal, Unlock, SpuriousWakeup
    <2>3. val' = val \/ \E v : val' = [val EXCEPT ![p] = v]
        BY <1>4 DEF Push, PushStep, SizeTooLarge, vars, PushBegin, Lock,
            PushWait, CondWait, CondSignal, Unlock, SpuriousWakeup
    <2> QED
        BY <2>1, <2>2, <2>3
<1>5. ASSUME NEW c \in Consumers, Pop(c), ~ PopRemove(c)
      PROVE  UNCHANGED <<head, tail, buffer>> /\ val' = val
    <2>1. c \notin Producers
        BY ThreadAssumption
    <2> QED
        BY <1>5, <2>1 DEF Pop, PopStep, SizeTooLarge, vars, PopBegin, Lock,
            PopWait, CondWait, CondSignal, Unlock, SpuriousWakeup
<1> QED
    BY <1>1, <1>2, <1>3, <1>4, <1>5, QuietStutters DEF Next

LEMMA InitRefines == ASSUME Init PROVE Fifo!FifoInit
<1>1. Size = 0
    BY SizeModAssumption, ObjNumAssumption, SizeFacts DEF Init, Size
<1>2. absQueue = << >>
    BY <1>1 DEF absQueue
<1>3. [c \in Consumers |-> val[c]] = [c \in Consumers |-> Junk]
    BY DEF Init, Threads
<1> QED
    BY <1>2, <1>3 DEF Fifo!FifoInit

\* The blocking ring is a bounded FIFO queue: every Push_BlockRingBuf that returns
\* puts its object last, every Pop_BlockRingBuf takes the first, for any numbers of
\* threads and also when head_ and tail_ go past the range of size_t.
THEOREM Refinement == Spec => ImplementsFifo
<1>1. Init => Fifo!FifoInit
    BY InitRefines
<1>2. IInv /\ IInv' /\ [Next]_vars => [Fifo!FifoNext]_(Fifo!fifoVars)
    BY StepRefines
<1> QED
    BY <1>1, <1>2, Invariance, PTL DEF Spec, ImplementsFifo, Fifo!FifoSpec
=============================================================================
