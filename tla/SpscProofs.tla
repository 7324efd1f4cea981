----------------------------- MODULE SpscProofs -----------------------------
(***************************************************************************)
(* Machine-checked proofs about Spsc and SpscClients, for any rings and    *)
(* threads, under the condition the code needs and does not state: no      *)
(* thread is a producer, or a consumer, of two rings, and a consumer is    *)
(* never replaced.  Producers may be replaced at any access.               *)
(***************************************************************************)
EXTENDS SpscClients, RingIndex

\* One ring for each side of a thread, because local_head and local_tail are one
\* for each thread; a thread may be on both sides, since the two are distinct.
OneRingEach ==
    /\ \A r, s \in Rings : ProducerOf[r] = ProducerOf[s] => r = s
    /\ \A r, s \in Rings : ConsumerOf[r] = ConsumerOf[s] => r = s

\* A new consumer would start with a local_head behind tail_.
ConsumersStay == \A r \in Rings : ConsumerOf[r] \notin Restartable

\* Subtraction of size_t is that of the integers while positions are in order,
\* and huge otherwise.
LEMMA USubFacts ==
    ASSUME NEW a \in 0 .. MaxPos, NEW b \in 0 .. MaxPos
    PROVE  /\ b <= a => USub(a, b) = a - b
           /\ a < b => USub(a, b) >= ObjNum
<1>1. /\ MaxPos \in Nat /\ ObjNum \in Nat
      /\ SizeMod \in Nat /\ SizeMod > MaxPos + ObjNum /\ MaxPos < SizeMod
    BY SizeModAssumption, MaxPosAssumption, ObjNumAssumption
<1>2. /\ b <= a => USub(a, b) = a - b
      /\ a < b => USub(a, b) >= SizeMod - MaxPos
    BY <1>1, ModularSubtraction DEF USub
<1>3. USub(a, b) \in Int
    BY <1>1, DivisionWithRemainder DEF USub
<1> QED
    BY <1>1, <1>2, <1>3

LEMMA IdxFacts ==
    /\ \A k \in Int : Idx(k) \in Cells
    /\ \A j, k \in Int :
          Idx(j) = Idx(k) /\ j - k < ObjNum /\ k - j < ObjNum => j = k
<1>1. ObjNum \in Nat /\ ObjNum >= 1
    BY ObjNumAssumption
<1>2. ASSUME NEW k \in Int PROVE Idx(k) \in Cells
    BY <1>1, DivisionWithRemainder DEF Idx, Cells
<1>3. ASSUME NEW j \in Int, NEW k \in Int,
             Idx(j) = Idx(k), j - k < ObjNum, k - j < ObjNum
      PROVE  j = k
    BY <1>1, <1>3, SameCellSamePosition DEF Idx
<1> QED
    BY <1>2, <1>3

-----------------------------------------------------------------------------
(* The invariant is inductive. *)

LEMMA InitIInv == ASSUME Init PROVE IInv
<1> USE ObjNumAssumption, MaxPosAssumption, SidesAssumption DEF Init
<1>1. TypeOK
    BY DEF TypeOK, Objects, Labels
<1> QED
    BY <1>1 DEF IInv, PushInBound, NeverOverrun, CachedTailBehind,
                CachedHeadBetween, PushNeedsRoom, Writing, Reading, At

\* Steps that leave the indices, the caches and the threads' positions alone.
LEMMA NothingMoves ==
    ASSUME IInv, TypeOK', UNCHANGED <<head, tail, local_head, local_tail, pc, on>>
    PROVE  IInv'
BY DEF IInv, PushInBound, NeverOverrun, CachedTailBehind, CachedHeadBetween,
       PushNeedsRoom, Writing, Reading, At

\* The producer's positions and its cache are in order, below the bound.
LEMMA ProducerFacts ==
    ASSUME IInv, NEW r \in Rings
    PROVE  /\ ProducerOf[r] \in Threads
           /\ head[r] \in 0 .. MaxPos /\ tail[r] \in 0 .. MaxPos
           /\ tail[r] <= head[r]
           /\ local_tail[ProducerOf[r]] \in 0 .. MaxPos
           /\ local_tail[ProducerOf[r]] <= tail[r]
<1>1. head[r] \in 0 .. MaxPos /\ tail[r] \in Nat /\ ProducerOf[r] \in Threads
    BY SidesAssumption DEF IInv, TypeOK
<1>2. tail[r] <= head[r] /\ local_tail[ProducerOf[r]] <= tail[r]
    BY DEF IInv, NeverOverrun, CachedTailBehind
<1>3. local_tail[ProducerOf[r]] \in Nat
    BY <1>1 DEF IInv, TypeOK
<1> QED
    BY <1>1, <1>2, <1>3, MaxPosAssumption

LEMMA PushBeginIInv ==
    ASSUME IInv, OneRingEach, NEW r \in Rings, PushBegin(r)
    PROVE  IInv'
<1> USE SidesAssumption, MaxPosAssumption, ObjNumAssumption DEF IInv, TypeOK
<1> DEFINE p == ProducerOf[r]
<1>1. /\ UNCHANGED <<head, tail, buffer, local_head, local_tail, buf, popRc, sawRoom, sawObject>>
      /\ pc[p] = "idle" /\ p \in Threads /\ head[r] < MaxPos
      /\ on' = [on EXCEPT ![p] = r]
      /\ pushRc' = [pushRc EXCEPT ![r] = "none"]
      /\ \E v \in Values : args' = [args EXCEPT ![r] = v]
    BY DEF PushBegin, Full, caches, answers
<1>2. \/ pc' = [pc EXCEPT ![p] = "loadTail"]
      \/ /\ pc' = [pc EXCEPT ![p] = "write"]
         /\ head[r] - tail[r] < ObjNum
    <2>1. CASE USub(head[r], local_tail[p]) >= ObjNum
        BY <2>1 DEF PushBegin, Full, Goto
    <2>2. CASE ~ (USub(head[r], local_tail[p]) >= ObjNum)
        <3>1. USub(head[r], local_tail[p]) = head[r] - local_tail[p]
            BY ProducerFacts, USubFacts
        <3>2. head[r] - tail[r] < ObjNum
            BY <2>2, <3>1, ProducerFacts
        <3> QED
            BY <2>2, <3>2 DEF PushBegin, Full, Goto
    <2> QED
        BY <2>1, <2>2
<1>3. TypeOK'
    <2>1. args' \in [Rings -> Objects]
        BY <1>1 DEF Objects
    <2>2. pc' \in [Threads -> Labels]
        BY <1>2 DEF Labels
    <2>3. on' \in [Threads -> Rings]
        BY <1>1
    <2>4. pushRc' \in [Rings -> {"none", "OK", "FULL", "SIZE_TOO_LARGE"}]
        BY <1>1
    <2> QED
        BY <1>1, <2>1, <2>2, <2>3, <2>4
<1>4. (NeverOverrun /\ CachedTailBehind)'
    BY <1>1 DEF NeverOverrun, CachedTailBehind
<1>5. CachedHeadBetween'
    BY <1>1, <1>2 DEF CachedHeadBetween, Reading, At
<1>6. PushNeedsRoom'
    BY <1>1, <1>2 DEF PushNeedsRoom, OneRingEach, Writing, At
<1>7. PushInBound'
    BY <1>1, <1>2 DEF PushInBound, OneRingEach, At
<1> QED
    BY <1>3, <1>4, <1>5, <1>6, <1>7

LEMMA PushLoadTailIInv ==
    ASSUME IInv, OneRingEach, NEW r \in Rings, PushLoadTail(r)
    PROVE  IInv'
<1> USE SidesAssumption, MaxPosAssumption, ObjNumAssumption DEF IInv, TypeOK
<1> DEFINE p == ProducerOf[r]
<1>1. /\ UNCHANGED <<head, tail, buffer, local_head, on, args, buf, popRc, sawRoom, sawObject>>
      /\ pc[p] = "loadTail" /\ on[p] = r /\ p \in Threads
      /\ local_tail' = [local_tail EXCEPT ![p] = tail[r]]
    BY DEF PushLoadTail, Full, TailNow, PushFails, At, answers
<1>2. /\ \/ pc' = [pc EXCEPT ![p] = "idle"]
         \/ /\ pc' = [pc EXCEPT ![p] = "write"]
            /\ head[r] - tail[r] < ObjNum
      /\ \/ pushRc' = [pushRc EXCEPT ![r] = "FULL"]
         \/ pushRc' = pushRc
    <2>1. USub(head[r], tail[r]) = head[r] - tail[r]
        BY ProducerFacts, USubFacts
    <2> QED
        BY <2>1 DEF PushLoadTail, Full, TailNow, PushFails, Goto
<1>3. TypeOK'
    <2>1. pc' \in [Threads -> Labels]
        BY <1>2 DEF Labels
    <2>2. local_tail' \in [Threads -> Nat]
        BY <1>1
    <2>3. pushRc' \in [Rings -> {"none", "OK", "FULL", "SIZE_TOO_LARGE"}]
        BY <1>2
    <2> QED
        BY <1>1, <2>1, <2>2, <2>3
<1>4. NeverOverrun'
    BY <1>1 DEF NeverOverrun
<1>5. CachedTailBehind'
    BY <1>1 DEF CachedTailBehind, OneRingEach
<1>6. CachedHeadBetween'
    BY <1>1, <1>2 DEF CachedHeadBetween, Reading, At
<1>7. PushNeedsRoom'
    BY <1>1, <1>2 DEF PushNeedsRoom, Writing, At
<1>8. PushInBound'
    BY <1>1, <1>2 DEF PushInBound, At
<1> QED
    BY <1>3, <1>4, <1>5, <1>6, <1>7, <1>8

LEMMA PushWriteIInv ==
    ASSUME IInv, NEW r \in Rings, PushWrite(r)
    PROVE  IInv'
<1> USE SidesAssumption, MaxPosAssumption DEF IInv, TypeOK
<1>1. Idx(head[r]) \in Cells
    BY IdxFacts
<1>2. /\ UNCHANGED <<head, tail, local_head, local_tail, on>>
      /\ At(ProducerOf[r], r, "write")
      /\ pc' = [pc EXCEPT ![ProducerOf[r]] = "publish"]
    BY DEF PushWrite, Goto, caches
<1>3. TypeOK'
    BY <1>1, <1>2 DEF PushWrite, Labels, answers
<1> QED
    BY <1>2, <1>3 DEF PushInBound, NeverOverrun, CachedTailBehind,
                      CachedHeadBetween, PushNeedsRoom, Writing, Reading, At

LEMMA PushPublishIInv ==
    ASSUME IInv, NEW r \in Rings, PushPublish(r)
    PROVE  IInv'
<1> USE SidesAssumption, MaxPosAssumption, ObjNumAssumption DEF IInv, TypeOK
<1>1. /\ UNCHANGED <<tail, buffer, local_head, local_tail, on, args, buf, popRc, sawObject>>
      /\ At(ProducerOf[r], r, "publish")
      /\ pc' = [pc EXCEPT ![ProducerOf[r]] = "idle"]
      /\ head' = [head EXCEPT ![r] = @ + 1]
      /\ pushRc' = [pushRc EXCEPT ![r] = "OK"]
      /\ sawRoom' = sawRoom \ {r}
    BY DEF PushPublish, Goto, caches
<1>2. head[r] - tail[r] < ObjNum /\ head[r] < MaxPos
    BY <1>1 DEF PushNeedsRoom, PushInBound, Writing
<1>3. TypeOK'
    <2>1. head[r] + 1 \in 0 .. MaxPos
        BY <1>2
    <2>2. head' \in [Rings -> 0 .. MaxPos]
        BY <1>1, <2>1
    <2> QED
        BY <1>1, <2>2 DEF Labels
<1>4. NeverOverrun'
    BY <1>1, <1>2 DEF NeverOverrun
<1>5. CachedTailBehind' /\ CachedHeadBetween'
    BY <1>1 DEF CachedTailBehind, CachedHeadBetween, Reading, At
<1>6. PushNeedsRoom' /\ PushInBound'
    BY <1>1 DEF PushNeedsRoom, PushInBound, Writing, At
<1> QED
    BY <1>3, <1>4, <1>5, <1>6

\* The consumer's positions and its cache are in order.
LEMMA ConsumerFacts ==
    ASSUME IInv, NEW r \in Rings
    PROVE  /\ ConsumerOf[r] \in Threads
           /\ head[r] \in Nat /\ tail[r] \in Nat /\ local_head[ConsumerOf[r]] \in Nat
           /\ tail[r] <= local_head[ConsumerOf[r]]
           /\ local_head[ConsumerOf[r]] <= head[r]
           /\ tail[r] <= head[r]
           /\ Reading(r) => tail[r] < local_head[ConsumerOf[r]]
<1>1. head[r] \in Nat /\ tail[r] \in Nat /\ ConsumerOf[r] \in Threads
    BY SidesAssumption, MaxPosAssumption DEF IInv, TypeOK
<1>2. local_head[ConsumerOf[r]] \in Nat
    BY <1>1 DEF IInv, TypeOK
<1> QED
    BY <1>1, <1>2 DEF IInv, CachedHeadBetween, NeverOverrun

LEMMA PopBeginIInv ==
    ASSUME IInv, OneRingEach, NEW r \in Rings, PopBegin(r)
    PROVE  IInv'
<1> DEFINE c == ConsumerOf[r]
<1>1. /\ UNCHANGED <<head, tail, buffer, local_head, local_tail, args, buf, pushRc, sawRoom, sawObject>>
      /\ pc[c] = "idle" /\ c \in Threads
      /\ on' = [on EXCEPT ![c] = r]
      /\ popRc' = [popRc EXCEPT ![r] = "none"]
      /\ \/ pc' = [pc EXCEPT ![c] = "loadHead"]
         \/ pc' = [pc EXCEPT ![c] = "read"] /\ local_head[c] # tail[r]
    BY SidesAssumption DEF PopBegin, Goto, caches, answers
<1>2. TypeOK'
    BY <1>1, MaxPosAssumption DEF IInv, TypeOK, Labels
<1>3. (NeverOverrun /\ CachedTailBehind)'
    BY <1>1 DEF IInv, NeverOverrun, CachedTailBehind
<1>4. CachedHeadBetween'
    <2>1. pc \in [Threads -> Labels] /\ on \in [Threads -> Rings]
          /\ \A s \in Rings : ConsumerOf[s] \in Threads
        BY SidesAssumption DEF IInv, TypeOK
    <2>2. pc'[c] = "read" => tail[r] < local_head[c]
        <3>1. pc'[c] = "read" => local_head[c] # tail[r]
            BY <1>1, <2>1
        <3> QED
            BY <3>1, ConsumerFacts
    <2>3. Reading(r)' => pc'[c] = "read"
        BY <1>1, <2>1 DEF Reading, At
    <2>4. \A s \in Rings \ {r} : Reading(s)' => Reading(s)
        BY <1>1, <2>1 DEF OneRingEach, Reading, At
    <2> QED
        BY <1>1, <2>2, <2>3, <2>4 DEF IInv, CachedHeadBetween
<1>5. PushNeedsRoom' /\ PushInBound'
    BY <1>1, SidesAssumption DEF IInv, TypeOK, PushNeedsRoom, PushInBound, Writing, At
<1> QED
    BY <1>2, <1>3, <1>4, <1>5 DEF IInv

LEMMA PopLoadHeadIInv ==
    ASSUME IInv, OneRingEach, NEW r \in Rings, PopLoadHead(r)
    PROVE  IInv'
<1> DEFINE c == ConsumerOf[r]
<1>1. /\ UNCHANGED <<head, tail, buffer, local_tail, on, args, buf, pushRc, sawRoom, sawObject>>
      /\ pc[c] = "loadHead" /\ on[c] = r /\ c \in Threads
      /\ local_head' = [local_head EXCEPT ![c] = head[r]]
      /\ \/ pc' = [pc EXCEPT ![c] = "idle"]
         \/ pc' = [pc EXCEPT ![c] = "read"] /\ head[r] # tail[r]
      /\ \/ popRc' = [popRc EXCEPT ![r] = "EMPTY"]
         \/ popRc' = popRc
    BY SidesAssumption DEF PopLoadHead, HeadNow, Found, Goto, At, answers
<1>2. /\ pc \in [Threads -> Labels] /\ local_head \in [Threads -> Nat]
      /\ popRc \in [Rings -> {"none", "OK", "EMPTY", "SIZE_TOO_LARGE"}]
      /\ \A s \in Rings : ConsumerOf[s] \in Threads
    BY SidesAssumption DEF IInv, TypeOK
<1>3. TypeOK'
    <2>1. pc' \in [Threads -> Labels]
        BY <1>1, <1>2 DEF Labels
    <2>2. local_head' \in [Threads -> Nat]
        BY <1>1, <1>2, ConsumerFacts
    <2>3. popRc' \in [Rings -> {"none", "OK", "EMPTY", "SIZE_TOO_LARGE"}]
        BY <1>1, <1>2
    <2> QED
        BY <1>1, <2>1, <2>2, <2>3 DEF IInv, TypeOK
<1>4. (NeverOverrun /\ CachedTailBehind)'
    BY <1>1 DEF IInv, NeverOverrun, CachedTailBehind
<1>5. CachedHeadBetween'
    <2>1. /\ local_head'[c] = head[r]
          /\ pc'[c] = "read" => head[r] # tail[r]
        BY <1>1, <1>2
    <2>2. Reading(r)' => pc'[c] = "read"
        BY <1>1, <1>2 DEF Reading, At
    <2>3. \A s \in Rings \ {r} : /\ local_head'[ConsumerOf[s]] = local_head[ConsumerOf[s]]
                                 /\ Reading(s)' => Reading(s)
        BY <1>1, <1>2 DEF OneRingEach, Reading, At
    <2>4. /\ head[r] <= head[r] /\ tail[r] <= head[r]
          /\ Reading(r)' => tail[r] < head[r]
        BY <2>1, <2>2, ConsumerFacts
    <2> SUFFICES ASSUME NEW s \in Rings
                 PROVE  /\ local_head'[ConsumerOf[s]] <= head[s]
                        /\ tail[s] <= local_head'[ConsumerOf[s]]
                        /\ Reading(s)' => tail[s] < local_head'[ConsumerOf[s]]
        BY <1>1 DEF CachedHeadBetween
    <2>5. CASE s = r
        BY <2>1, <2>4, <2>5
    <2>6. CASE s # r
        BY <2>3, <2>6, ConsumerFacts
    <2> QED
        BY <2>5, <2>6
<1>6. PushNeedsRoom' /\ PushInBound'
    BY <1>1, SidesAssumption DEF IInv, TypeOK, PushNeedsRoom, PushInBound, Writing, At
<1> QED
    BY <1>3, <1>4, <1>5, <1>6 DEF IInv

LEMMA PopReadIInv ==
    ASSUME IInv, NEW r \in Rings, PopRead(r)
    PROVE  IInv'
<1> USE SidesAssumption, MaxPosAssumption DEF IInv, TypeOK
<1>1. Idx(tail[r]) \in Cells
    BY IdxFacts
<1>2. /\ UNCHANGED <<head, tail, local_head, local_tail, on>>
      /\ At(ConsumerOf[r], r, "read")
      /\ pc' = [pc EXCEPT ![ConsumerOf[r]] = "release"]
    BY DEF PopRead, Front, Goto, caches
<1>3. TypeOK'
    BY <1>1, <1>2 DEF PopRead, Front, Labels, answers
<1> QED
    BY <1>2, <1>3 DEF PushInBound, NeverOverrun, CachedTailBehind,
                      CachedHeadBetween, PushNeedsRoom, Writing, Reading, At

LEMMA PopReleaseIInv ==
    ASSUME IInv, NEW r \in Rings, PopRelease(r)
    PROVE  IInv'
<1> USE SidesAssumption, MaxPosAssumption, ObjNumAssumption DEF IInv, TypeOK
<1>1. /\ UNCHANGED <<head, buffer, local_head, local_tail, on, args, buf, pushRc, sawRoom>>
      /\ At(ConsumerOf[r], r, "release")
      /\ pc' = [pc EXCEPT ![ConsumerOf[r]] = "idle"]
      /\ tail' = [tail EXCEPT ![r] = @ + 1]
      /\ popRc' = [popRc EXCEPT ![r] = "OK"]
      /\ sawObject' = sawObject \ {r}
    BY DEF PopRelease, Goto, caches
<1>2. tail[r] < local_head[ConsumerOf[r]] /\ local_head[ConsumerOf[r]] <= head[r]
    BY <1>1 DEF CachedHeadBetween, Reading
<1>3. TypeOK'
    BY <1>1 DEF Labels
<1>4. NeverOverrun'
    BY <1>1, <1>2 DEF NeverOverrun
<1>5. CachedTailBehind'
    BY <1>1 DEF CachedTailBehind
<1>6. CachedHeadBetween'
    BY <1>1, <1>2 DEF CachedHeadBetween, Reading, At
<1>7. PushNeedsRoom' /\ PushInBound'
    BY <1>1 DEF PushNeedsRoom, PushInBound, Writing, At
<1> QED
    BY <1>3, <1>4, <1>5, <1>6, <1>7

\* A producer that starts again has an older, hence smaller, cached tail.
LEMMA RestartIInv ==
    ASSUME IInv, ConsumersStay, NEW t \in Threads, Restart(t)
    PROVE  IInv'
<1> USE SidesAssumption, MaxPosAssumption, ObjNumAssumption DEF IInv, TypeOK
<1>1. /\ UNCHANGED <<head, tail, buffer, on, args, buf, pushRc, popRc, sawRoom, sawObject>>
      /\ t \in Restartable
      /\ pc' = [pc EXCEPT ![t] = "idle"]
      /\ local_head' = [local_head EXCEPT ![t] = 0]
      /\ local_tail' = [local_tail EXCEPT ![t] = 0]
    BY DEF Restart, Goto, answers
<1>2. TypeOK'
    BY <1>1 DEF Labels
<1>3. NeverOverrun' /\ CachedTailBehind'
    BY <1>1 DEF NeverOverrun, CachedTailBehind
<1>4. CachedHeadBetween'
    BY <1>1 DEF CachedHeadBetween, ConsumersStay, Reading, At
<1>5. PushNeedsRoom' /\ PushInBound'
    BY <1>1 DEF PushNeedsRoom, PushInBound, Writing, At
<1> QED
    BY <1>2, <1>3, <1>4, <1>5

LEMMA NextIInv ==
    ASSUME IInv, OneRingEach, ConsumersStay, [Next]_vars
    PROVE  IInv'
<1>1. ASSUME NEW r \in Rings, PushTooLarge(r) PROVE IInv'
    BY <1>1, NothingMoves DEF PushTooLarge, IInv, TypeOK, caches, answers
<1>2. ASSUME NEW r \in Rings, PopTooLarge(r) PROVE IInv'
    BY <1>2, NothingMoves DEF PopTooLarge, IInv, TypeOK, caches, answers
<1>3. ASSUME NEW r \in Rings, IsFull(r) PROVE IInv'
    <2>1. sawRoom' \subseteq Rings
        BY <1>3 DEF IsFull, HasRoom, Full, IInv, TypeOK
    <2> QED
        BY <1>3, <2>1, NothingMoves DEF IsFull, HasRoom, Full, IInv, TypeOK, caches
<1>4. ASSUME NEW r \in Rings, IsEmpty(r) PROVE IInv'
    <2>1. sawObject' \subseteq Rings
        BY <1>4 DEF IsEmpty, IInv, TypeOK
    <2> QED
        BY <1>4, <2>1, NothingMoves DEF IsEmpty, IInv, TypeOK, caches
<1>5. ASSUME NEW r \in Rings, Push(r) PROVE IInv'
    BY <1>1, <1>5, PushBeginIInv, PushLoadTailIInv, PushWriteIInv, PushPublishIInv
    DEF Push, PushStep
<1>6. ASSUME NEW r \in Rings, Pop(r) PROVE IInv'
    BY <1>2, <1>6, PopBeginIInv, PopLoadHeadIInv, PopReadIInv, PopReleaseIInv
    DEF Pop, PopStep
<1>7. CASE UNCHANGED vars
    BY <1>7, NothingMoves DEF vars, IInv, TypeOK
<1> QED
    BY <1>3, <1>4, <1>5, <1>6, <1>7, RestartIInv DEF Next

-----------------------------------------------------------------------------
\* Whatever the rings and the threads, if each thread has at most one ring on
\* each side and consumers are never replaced, the cached indices of
\* RingBuf_Spsc.c stay behind the real ones.
THEOREM Invariance ==
    ASSUME OneRingEach, ConsumersStay
    PROVE  Spec => []IInv
<1>1. Init => IInv
    BY InitIInv
<1>2. IInv /\ [Next]_vars => IInv'
    BY NextIInv
<1> QED
    BY <1>1, <1>2, PTL DEF Spec

\* Every variable of the single-producer single-consumer ring keeps its type.
THEOREM TypeCorrect ==
    ASSUME OneRingEach, ConsumersStay
    PROVE  Spec => []TypeOK
<1>1. IInv => TypeOK
    BY DEF IInv
<1> QED
    BY <1>1, Invariance, PTL

\* Begin_push never gives out a cell of a full ring.
THEOREM RoomForEveryPush ==
    ASSUME OneRingEach, ConsumersStay
    PROVE  Spec => []PushNeedsRoom
<1>1. IInv => PushNeedsRoom
    BY DEF IInv
<1> QED
    BY <1>1, Invariance, PTL

\* Begin_pop never gives out a cell of an empty ring.
THEOREM ObjectForEveryPop ==
    ASSUME OneRingEach, ConsumersStay
    PROVE  Spec => []PopNeedsAnObject
<1>1. IInv => PopNeedsAnObject
    <2> SUFFICES ASSUME IInv, NEW r \in Rings, Reading(r)
                 PROVE  tail[r] < head[r]
        BY DEF PopNeedsAnObject
    <2> QED
        BY ConsumerFacts
<1> QED
    BY <1>1, Invariance, PTL

\* The two memcpy of the ring, without a lock, never touch the same cell.
THEOREM CopiesApart ==
    ASSUME OneRingEach, ConsumersStay
    PROVE  Spec => []CellsExclusive
<1>1. IInv => CellsExclusive
    <2> SUFFICES ASSUME IInv, NEW r \in Rings, Writing(r), Reading(r)
                 PROVE  Idx(head[r]) # Idx(tail[r])
        BY DEF CellsExclusive
    <2>1. head[r] - tail[r] < ObjNum
        BY DEF IInv, PushNeedsRoom
    <2>2. tail[r] < head[r]
        BY ConsumerFacts
    <2>3. head[r] \in Int /\ tail[r] \in Int
        BY DEF IInv, TypeOK
    <2> QED
        BY <2>1, <2>2, <2>3, ObjNumAssumption, IdxFacts
<1> QED
    BY <1>1, Invariance, PTL

-----------------------------------------------------------------------------
(* Answers: room and objects seen by a side are there until it uses them. *)

\* Of a ring, each step moves at most one index, and only forward.
LEMMA AnswersTrueNext ==
    ASSUME IInv, OneRingEach, AnswersTrue, [Next]_vars
    PROVE  AnswersTrue'
<1> USE ObjNumAssumption, MaxPosAssumption DEF AnswersTrue
<1>1. /\ head \in [Rings -> 0 .. MaxPos] /\ tail \in [Rings -> Nat]
    BY DEF IInv, TypeOK
<1>2. ASSUME UNCHANGED <<head, tail, sawRoom, sawObject>> PROVE AnswersTrue'
    BY <1>2
<1>3. ASSUME NEW r \in Rings, Push(r) PROVE AnswersTrue'
    <2>1. CASE PushPublish(r)
        <3>1. /\ head' = [head EXCEPT ![r] = @ + 1] /\ tail' = tail
              /\ sawRoom' = sawRoom \ {r} /\ sawObject' = sawObject
            BY <2>1 DEF PushPublish
        <3> QED
            BY <1>1, <3>1
    <2>2. CASE ~ PushPublish(r)
        BY <1>2, <1>3, <2>2 DEF Push, PushStep, PushTooLarge, PushBegin, PushLoadTail,
                                PushWrite, answers
    <2> QED
        BY <2>1, <2>2
<1>4. ASSUME NEW r \in Rings, Pop(r) PROVE AnswersTrue'
    <2>1. CASE PopRelease(r)
        <3>1. /\ tail' = [tail EXCEPT ![r] = @ + 1] /\ head' = head
              /\ sawRoom' = sawRoom /\ sawObject' = sawObject \ {r}
            BY <2>1 DEF PopRelease
        <3> QED
            BY <1>1, <3>1
    <2>2. CASE ~ PopRelease(r)
        BY <1>2, <1>4, <2>2 DEF Pop, PopStep, PopTooLarge, PopBegin, PopLoadHead,
                                PopRead, answers
    <2> QED
        BY <2>1, <2>2
<1>5. ASSUME NEW r \in Rings, IsFull(r) PROVE AnswersTrue'
    <2>1. /\ UNCHANGED <<head, tail, sawObject>>
          /\ sawRoom' = IF HasRoom(r) THEN sawRoom \cup {r} ELSE sawRoom \ {r}
        BY <1>5 DEF IsFull
    <2>2. HasRoom(r) => head[r] - tail[r] < ObjNum
        BY ProducerFacts, USubFacts DEF HasRoom, Full
    <2> QED
        BY <2>1, <2>2
<1>6. ASSUME NEW r \in Rings, IsEmpty(r) PROVE AnswersTrue'
    <2>1. /\ UNCHANGED <<head, tail, sawRoom>>
          /\ sawObject' = IF head[r] = tail[r] THEN sawObject \ {r} ELSE sawObject \cup {r}
        BY <1>6 DEF IsEmpty
    <2>2. head[r] # tail[r] => tail[r] < head[r]
        BY ProducerFacts
    <2> QED
        BY <2>1, <2>2
<1>7. ASSUME NEW t \in Threads, Restart(t) PROVE AnswersTrue'
    BY <1>2, <1>7 DEF Restart, answers
<1> QED
    BY <1>2, <1>3, <1>4, <1>5, <1>6, <1>7 DEF Next, vars

\* Only the reload of the other side's index can answer "full" or "empty".
LEMMA AnswersStep ==
    ASSUME IInv, AnswersTrue, [Next]_vars, NEW r \in Rings
    PROVE  /\ pushRc'[r] = "FULL" /\ pushRc[r] # "FULL" => r \notin sawRoom
           /\ popRc'[r] = "EMPTY" /\ popRc[r] # "EMPTY" => r \notin sawObject
<1> DEFINE Here == /\ pushRc'[r] = "FULL" /\ pushRc[r] # "FULL" => r \notin sawRoom
                   /\ popRc'[r] = "EMPTY" /\ popRc[r] # "EMPTY" => r \notin sawObject
<1> USE DEF AnswersTrue
<1>1. /\ pushRc \in [Rings -> {"none", "OK", "FULL", "SIZE_TOO_LARGE"}]
      /\ popRc \in [Rings -> {"none", "OK", "EMPTY", "SIZE_TOO_LARGE"}]
    BY DEF IInv, TypeOK
<1>2. ASSUME UNCHANGED <<pushRc, popRc>> PROVE Here
    BY <1>2
<1>3. ASSUME NEW s \in Rings, Push(s) PROVE Here
    <2>1. popRc' = popRc
        BY <1>3 DEF Push, PushStep, PushTooLarge, PushBegin, PushLoadTail, PushWrite, PushPublish
    <2>2. CASE PushLoadTail(s)
        <3>1. \/ pushRc' = pushRc
              \/ /\ USub(head[s], tail[s]) >= ObjNum
                 /\ pushRc' = [pushRc EXCEPT ![s] = "FULL"]
            BY <2>2 DEF PushLoadTail, PushFails, Full, TailNow
        <3>2. USub(head[s], tail[s]) = head[s] - tail[s]
            BY ProducerFacts, USubFacts
        <3>3. head[s] - tail[s] \in Int
            BY ProducerFacts, MaxPosAssumption
        <3> QED
            BY <1>1, <2>1, <3>1, <3>2, <3>3, ObjNumAssumption
    <2>3. CASE ~ PushLoadTail(s)
        <3>1. \/ pushRc' = pushRc
              \/ \E c \in {"none", "OK", "SIZE_TOO_LARGE"} : pushRc' = [pushRc EXCEPT ![s] = c]
            BY <1>3, <2>3 DEF Push, PushStep, PushTooLarge, PushBegin, PushWrite, PushPublish
        <3> QED
            BY <1>1, <2>1, <3>1
    <2> QED
        BY <2>2, <2>3
<1>4. ASSUME NEW s \in Rings, Pop(s) PROVE Here
    <2>1. pushRc' = pushRc
        BY <1>4 DEF Pop, PopStep, PopTooLarge, PopBegin, PopLoadHead, PopRead, PopRelease
    <2>2. CASE PopLoadHead(s)
        <3>1. \/ popRc' = popRc
              \/ /\ head[s] = tail[s]
                 /\ popRc' = [popRc EXCEPT ![s] = "EMPTY"]
            BY <2>2 DEF PopLoadHead, Found, HeadNow
        <3>2. head[s] = tail[s] => ~ (tail[s] < head[s])
            BY ProducerFacts
        <3> QED
            BY <1>1, <2>1, <3>1, <3>2
    <2>3. CASE ~ PopLoadHead(s)
        <3>1. \/ popRc' = popRc
              \/ \E c \in {"none", "OK", "SIZE_TOO_LARGE"} : popRc' = [popRc EXCEPT ![s] = c]
            BY <1>4, <2>3 DEF Pop, PopStep, PopTooLarge, PopBegin, PopRead, PopRelease
        <3> QED
            BY <1>1, <2>1, <3>1
    <2> QED
        BY <2>2, <2>3
<1>5. ASSUME NEW s \in Rings, IsFull(s) \/ IsEmpty(s) PROVE Here
    BY <1>2, <1>5 DEF IsFull, IsEmpty
<1>6. ASSUME NEW t \in Threads, Restart(t) PROVE Here
    BY <1>2, <1>6 DEF Restart
<1> QED
    BY <1>2, <1>3, <1>4, <1>5, <1>6 DEF Next, vars

LEMMA AnswersInvariance ==
    ASSUME OneRingEach, ConsumersStay
    PROVE  Spec => []AnswersTrue
<1>1. Init => AnswersTrue
    BY DEF Init, AnswersTrue
<1>2. IInv /\ AnswersTrue /\ [Next]_vars => AnswersTrue'
    BY AnswersTrueNext
<1> QED
    BY <1>1, <1>2, Invariance, PTL DEF Spec

\* "Not full" told to the producer, "not empty" told to the consumer, hold until
\* that side acts on them, whatever the other side does in between.
THEOREM AnswersKept ==
    ASSUME OneRingEach, ConsumersStay
    PROVE  Spec => AnswersHold
<1>1. IInv /\ AnswersTrue /\ [Next]_vars =>
          [\A r \in Rings :
              /\ pushRc'[r] = "FULL" /\ pushRc[r] # "FULL" => r \notin sawRoom
              /\ popRc'[r] = "EMPTY" /\ popRc[r] # "EMPTY" => r \notin sawObject]_vars
    BY AnswersStep
<1> QED
    BY <1>1, Invariance, AnswersInvariance, PTL DEF Spec, AnswersHold

-----------------------------------------------------------------------------
(* Every ring is a bounded queue. *)

\* The other threads' copies and the consumer do not touch the object of a push.
LEMMA ReadyKept ==
    ASSUME IInv, ObjectReady, UNCHANGED <<head, buffer, args>>,
           \A t \in Threads : pc'[t] \in {"loadTail", "write", "publish"} =>
               pc'[t] = pc[t] /\ on'[t] = on[t]
    PROVE  ObjectReady'
BY SidesAssumption DEF IInv, TypeOK, ObjectReady, At, Idx

LEMMA ObjectReadyNext ==
    ASSUME IInv, OneRingEach, ObjectReady, [Next]_vars
    PROVE  ObjectReady'
<1>1. /\ pc \in [Threads -> Labels] /\ on \in [Threads -> Rings]
      /\ args \in [Rings -> Objects] /\ buffer \in [Rings -> [Cells -> Objects]]
      /\ \A r \in Rings : ProducerOf[r] \in Threads /\ ConsumerOf[r] \in Threads
    BY SidesAssumption DEF IInv, TypeOK
<1>2. ASSUME UNCHANGED <<head, buffer, args, pc, on>> PROVE ObjectReady'
    BY <1>2, ReadyKept
<1>3. ASSUME NEW r \in Rings, PushBegin(r) PROVE ObjectReady'
    <2>1. /\ UNCHANGED <<head, buffer>>
          /\ on' = [on EXCEPT ![ProducerOf[r]] = r]
          /\ \E v \in Values : args' = [args EXCEPT ![r] = v]
          /\ \E l \in {"loadTail", "write"} : pc' = [pc EXCEPT ![ProducerOf[r]] = l]
        BY <1>3 DEF PushBegin, Goto
    <2> QED
        BY <1>1, <2>1 DEF ObjectReady, OneRingEach, At, Idx
<1>4. ASSUME NEW r \in Rings, PushLoadTail(r) PROVE ObjectReady'
    <2>1. /\ UNCHANGED <<head, buffer, args, on>>
          /\ pc[ProducerOf[r]] = "loadTail" /\ on[ProducerOf[r]] = r
          /\ \E l \in {"idle", "write"} : pc' = [pc EXCEPT ![ProducerOf[r]] = l]
        BY <1>4 DEF PushLoadTail, Goto, At
    <2> QED
        BY <1>1, <2>1 DEF ObjectReady, OneRingEach, At, Idx
<1>5. ASSUME NEW r \in Rings, PushWrite(r) PROVE ObjectReady'
    <2>1. /\ UNCHANGED <<head, args, on>>
          /\ pc[ProducerOf[r]] = "write" /\ on[ProducerOf[r]] = r
          /\ pc' = [pc EXCEPT ![ProducerOf[r]] = "publish"]
          /\ buffer' = [buffer EXCEPT ![r][Idx(head[r])] = args[r]]
        BY <1>5 DEF PushWrite, Goto, At
    <2>2. Idx(head[r]) \in Cells /\ args[r] \in Values
        BY <2>1, ProducerFacts, IdxFacts, MaxPosAssumption DEF ObjectReady, At
    <2>3. buffer'[r][Idx(head[r])] \in Values
        BY <1>1, <2>1, <2>2
    <2>4. \A s \in Rings : s # r => buffer'[s] = buffer[s]
        BY <1>1, <2>1
    <2> QED
        BY <1>1, <2>1, <2>3, <2>4 DEF ObjectReady, OneRingEach, At, Idx
<1>6. ASSUME NEW r \in Rings, PushPublish(r) PROVE ObjectReady'
    <2>1. /\ UNCHANGED <<buffer, args, on>>
          /\ pc[ProducerOf[r]] = "publish" /\ on[ProducerOf[r]] = r
          /\ pc' = [pc EXCEPT ![ProducerOf[r]] = "idle"]
          /\ \A s \in Rings : s # r => head'[s] = head[s]
        BY <1>6 DEF PushPublish, Goto, At, IInv, TypeOK
    <2> QED
        BY <1>1, <2>1 DEF ObjectReady, OneRingEach, At, Idx
<1>7. ASSUME NEW r \in Rings, Push(r) PROVE ObjectReady'
    BY <1>2, <1>3, <1>4, <1>5, <1>6, <1>7 DEF Push, PushStep, PushTooLarge
<1>8. ASSUME NEW r \in Rings, Pop(r) PROVE ObjectReady'
    <2>1. CASE PopTooLarge(r)
        BY <1>2, <2>1 DEF PopTooLarge
    <2>2. CASE ~ PopTooLarge(r)
        <3>1. /\ UNCHANGED <<head, buffer, args>>
              /\ on' = on \/ on' = [on EXCEPT ![ConsumerOf[r]] = r]
              /\ \E l \in {"idle", "loadHead", "read", "release"} :
                     pc' = [pc EXCEPT ![ConsumerOf[r]] = l]
            BY <1>8, <2>2 DEF Pop, PopStep, PopBegin, PopLoadHead, PopRead, PopRelease, Goto
        <3>2. \A t \in Threads : pc'[t] \in {"loadTail", "write", "publish"} =>
                  pc'[t] = pc[t] /\ on'[t] = on[t]
            BY <1>1, <3>1
        <3> QED
            BY <3>1, <3>2, ReadyKept
    <2> QED
        BY <2>1, <2>2
<1>9. ASSUME NEW r \in Rings, IsFull(r) \/ IsEmpty(r) PROVE ObjectReady'
    BY <1>2, <1>9 DEF IsFull, IsEmpty
<1>10. ASSUME NEW t \in Threads, Restart(t) PROVE ObjectReady'
    <2>1. UNCHANGED <<head, buffer, args, on>> /\ pc' = [pc EXCEPT ![t] = "idle"]
        BY <1>10 DEF Restart, Goto
    <2> QED
        BY <1>1, <2>1, ReadyKept
<1> QED
    BY <1>2, <1>7, <1>8, <1>9, <1>10 DEF Next, vars

LEMMA ReadyInvariance ==
    ASSUME OneRingEach, ConsumersStay
    PROVE  Spec => []ObjectReady
<1>1. Init => ObjectReady
    BY SidesAssumption DEF Init, ObjectReady, At
<1>2. IInv /\ ObjectReady /\ [Next]_vars => ObjectReady'
    BY ObjectReadyNext
<1> QED
    BY <1>1, <1>2, Invariance, PTL DEF Spec

\* The object at each position, the positions of the queue, and their number.
Held(r) == [k \in Int |-> buffer[r][Idx(k)]]
First(r) == tail[r] + Taken(r)
Length(r) == head[r] - tail[r] - Taken(r)

QueueView(r) ==
    /\ absQueue(r) = QueueOf(Held(r), First(r), Length(r))
    /\ Held(r) \in [Int -> Objects] /\ First(r) \in Int /\ Length(r) \in Nat
    /\ Taken(r) \in {0, 1} /\ head[r] \in Nat /\ tail[r] \in Nat
    /\ First(r) + Length(r) = head[r] /\ head[r] - tail[r] <= ObjNum
    /\ \A k \in Int : Held(r)[k] = buffer[r][Idx(k)]

QueueViews == \A r \in Rings : QueueView(r)

LEMMA QueueFacts == IInv => QueueViews
<1> SUFFICES ASSUME IInv, NEW r \in Rings PROVE QueueView(r)
    BY DEF QueueViews
<1>1. /\ tail[r] \in Nat /\ head[r] \in Nat /\ tail[r] <= head[r]
      /\ head[r] - tail[r] <= ObjNum /\ ObjNum \in Nat
    BY ConsumerFacts, ObjNumAssumption DEF IInv, NeverOverrun
<1>2. Taken(r) \in {0, 1} /\ First(r) \in Int /\ Length(r) \in Nat
    <2>1. Taken(r) = 1 => tail[r] < head[r]
        BY ConsumerFacts DEF Taken, Reading
    <2> QED
        BY <1>1, <2>1 DEF Taken, First, Length
<1>3. First(r) + Length(r) = head[r]
    BY <1>1, <1>2 DEF First, Length
<1>4. Held(r) \in [Int -> Objects] /\ \A k \in Int : Held(r)[k] = buffer[r][Idx(k)]
    <2>1. buffer[r] \in [Cells -> Objects]
        BY DEF IInv, TypeOK
    <2> QED
        BY <2>1, IdxFacts DEF Held
<1>5. absQueue(r) = QueueOf(Held(r), First(r), Length(r))
    <2>1. \A i \in 1 .. Length(r) : First(r) + i - 1 \in Int
        BY <1>2
    <2> QED
        BY <1>4, <2>1 DEF absQueue, QueueOf, First, Length
<1> QED
    BY <1>1, <1>2, <1>3, <1>4, <1>5 DEF QueueView

LEMMA QueueFactsNext == IInv' => QueueViews'
BY QueueFacts, PTL

\* What follows for the queue if its positions keep their objects.
LEMMA QueueMoves ==
    ASSUME IInv, IInv', NEW r \in Rings,
           \A k \in First(r) .. head[r] - 1 : Held(r)'[k] = Held(r)[k]
    PROVE  /\ Len(absQueue(r)) = Length(r)
           /\ First(r)' = First(r) /\ Length(r)' = Length(r) => absQueue(r)' = absQueue(r)
           /\ First(r)' = First(r) /\ Length(r)' = Length(r) + 1 =>
                  absQueue(r)' = Append(absQueue(r), Held(r)'[head[r]])
           /\ First(r)' = First(r) + 1 /\ Length(r)' = Length(r) - 1 =>
                  /\ absQueue(r) # << >> /\ Head(absQueue(r)) = Held(r)[First(r)]
                  /\ absQueue(r)' = Tail(absQueue(r))
<1>1. QueueView(r) /\ QueueView(r)'
    BY QueueFacts, QueueFactsNext DEF QueueViews
<1>2. /\ Held(r) \in [Int -> Objects] /\ Held(r)' \in [Int -> Objects]
      /\ First(r) \in Int /\ Length(r) \in Nat /\ Length(r)' \in Nat
      /\ absQueue(r) = QueueOf(Held(r), First(r), Length(r))
      /\ absQueue(r)' = QueueOf(Held(r)', First(r)', Length(r)')
      /\ First(r) + Length(r) = head[r]
    BY <1>1 DEF QueueView, QueueOf
<1>3. QueueKept(Objects, Held(r), Held(r)', First(r), Length(r))
    BY <1>2 DEF QueueKept
<1>4. QueueResult(Held(r), Held(r)', First(r), Length(r))
    BY <1>3, QueueSteps
<1>5. First(r)' = First(r) + 1 /\ Length(r)' = Length(r) - 1 => Length(r) > 0
    BY <1>2
<1> QED
    BY <1>2, <1>4, <1>5 DEF QueueResult

\* The steps that neither move the ring's queue nor hand an object over.
LEMMA QuietStutters ==
    ASSUME IInv, IInv', NEW r \in Rings,
           First(r)' = First(r), head'[r] = head[r], buf'[r] = buf[r],
           \A k \in First(r) .. head[r] - 1 : Held(r)'[k] = Held(r)[k]
    PROVE  UNCHANGED Fifo(r)!fifoVars
<1>1. QueueView(r) /\ QueueView(r)'
    BY QueueFacts, QueueFactsNext DEF QueueViews
<1>2. Length(r)' = Length(r)
    BY <1>1 DEF QueueView
<1>3. absQueue(r)' = absQueue(r)
    BY <1>2, QueueMoves
<1>4. [c \in {r} |-> buf'[r]] = [c \in {r} |-> buf[r]]
    OBVIOUS
<1> QED
    BY <1>3, <1>4 DEF Fifo!fifoVars

\* A push enters the queue when it stores head_.
LEMMA PublishEnqueues ==
    ASSUME IInv, IInv', ObjectReady, NEW r \in Rings, PushPublish(r)
    PROVE  \E v \in Values : Fifo(r)!Enqueue(v)
<1> DEFINE v == buffer[r][Idx(head[r])]
<1>1. QueueView(r) /\ QueueView(r)'
    BY QueueFacts, QueueFactsNext DEF QueueViews
<1>2. /\ UNCHANGED <<tail, buffer, buf, on>> /\ head' = [head EXCEPT ![r] = @ + 1]
      /\ pc' = [pc EXCEPT ![ProducerOf[r]] = "idle"]
      /\ pc[ProducerOf[r]] = "publish" /\ on[ProducerOf[r]] = r
    BY DEF PushPublish, Goto, At
<1>3. /\ pc \in [Threads -> Labels] /\ head \in [Rings -> 0 .. MaxPos]
      /\ ProducerOf[r] \in Threads /\ ConsumerOf[r] \in Threads
    BY SidesAssumption DEF IInv, TypeOK
<1>4. Taken(r)' = Taken(r)
    BY <1>2, <1>3 DEF Taken, At
<1>5. head'[r] = head[r] + 1
    BY <1>2, <1>3
<1>6. First(r)' = First(r) /\ Length(r)' = Length(r) + 1
    <2>1. First(r)' = First(r)
        BY <1>2, <1>4 DEF First
    <2> QED
        BY <1>1, <1>5, <2>1 DEF QueueView
<1>7. \A k \in Int : Held(r)'[k] = Held(r)[k]
    BY <1>2 DEF Held, Idx
<1>8. Held(r)[head[r]] = v /\ v \in Values
    BY <1>1, <1>2 DEF QueueView, ObjectReady, At
<1>9. absQueue(r)' = Append(absQueue(r), v) /\ Len(absQueue(r)) = Length(r)
    <2>1. /\ \A k \in First(r) .. head[r] - 1 : Held(r)'[k] = Held(r)[k]
          /\ Held(r)'[head[r]] = v
        BY <1>1, <1>7, <1>8 DEF QueueView
    <2> HIDE DEF v
    <2> QED
        BY <1>6, <2>1, QueueMoves
<1>10. Length(r) < ObjNum
    <2>1. head[r] - tail[r] < ObjNum
        BY <1>2 DEF IInv, PushNeedsRoom, Writing, At
    <2> QED
        BY <1>1, <2>1, ObjNumAssumption DEF QueueView, First
<1>11. [c \in {r} |-> buf'[r]] = [c \in {r} |-> buf[r]]
    BY <1>2
<1> HIDE DEF v
<1>12. Fifo(r)!Enqueue(v)
    BY <1>9, <1>10, <1>11 DEF Fifo!Enqueue
<1> QED
    BY <1>8, <1>12

\* A pop takes the first object of the queue when it copies it.
LEMMA ReadDequeues ==
    ASSUME IInv, IInv', NEW r \in Rings, PopRead(r)
    PROVE  Fifo(r)!Dequeue(r)
<1>1. QueueView(r) /\ QueueView(r)'
    BY QueueFacts, QueueFactsNext DEF QueueViews
<1>2. /\ UNCHANGED <<head, tail, buffer, on>>
      /\ buf' = [buf EXCEPT ![r] = buffer[r][Idx(tail[r])]]
      /\ pc' = [pc EXCEPT ![ConsumerOf[r]] = "release"]
      /\ pc[ConsumerOf[r]] = "read" /\ on[ConsumerOf[r]] = r
    BY DEF PopRead, Front, Goto, At
<1>3. /\ pc \in [Threads -> Labels] /\ buf \in [Rings -> Objects]
      /\ ConsumerOf[r] \in Threads
    BY SidesAssumption DEF IInv, TypeOK
<1>4. Taken(r) = 0 /\ Taken(r)' = 1
    BY <1>2, <1>3 DEF Taken, At
<1>5. First(r) = tail[r] /\ First(r)' = First(r) + 1 /\ Length(r)' = Length(r) - 1
    BY <1>1, <1>2, <1>4 DEF First, Length, QueueView
<1>6. \A k \in Int : Held(r)'[k] = Held(r)[k]
    BY <1>2 DEF Held, Idx
<1>7. Held(r)[First(r)] = buffer[r][Idx(tail[r])]
    BY <1>1, <1>5 DEF QueueView
<1>8. /\ absQueue(r) # << >> /\ Head(absQueue(r)) = buffer[r][Idx(tail[r])]
      /\ absQueue(r)' = Tail(absQueue(r))
    <2>1. \A k \in First(r) .. head[r] - 1 : Held(r)'[k] = Held(r)[k]
        BY <1>1, <1>6 DEF QueueView
    <2> QED
        BY <1>5, <1>7, <2>1, QueueMoves
<1>9. [c \in {r} |-> buf'[r]] = [[c \in {r} |-> buf[r]] EXCEPT ![r] = Head(absQueue(r))]
    BY <1>2, <1>3, <1>8
<1> QED
    BY <1>8, <1>9 DEF Fifo!Dequeue

\* The copy of a push goes to a cell that no object of the queue is in.
LEMMA WriteKeepsObjects ==
    ASSUME IInv, IInv', NEW r \in Rings, NEW s \in Rings, PushWrite(s)
    PROVE  \A k \in First(r) .. head[r] - 1 : Held(r)'[k] = Held(r)[k]
<1> SUFFICES ASSUME NEW k \in First(r) .. head[r] - 1 PROVE Held(r)'[k] = Held(r)[k]
    OBVIOUS
<1>1. QueueView(r) /\ QueueView(r)'
    BY QueueFacts, QueueFactsNext DEF QueueViews
<1>2. /\ At(ProducerOf[s], s, "write") /\ buffer \in [Rings -> [Cells -> Objects]]
      /\ buffer' = [buffer EXCEPT ![s][Idx(head[s])] = args[s]]
    BY DEF PushWrite, IInv, TypeOK
<1>3. k \in Int /\ tail[r] <= k /\ k < head[r] /\ head[r] \in Int /\ tail[r] \in Int
    BY <1>1 DEF QueueView, First
<1>4. Held(r)[k] = buffer[r][Idx(k)] /\ Held(r)'[k] = buffer'[r][Idx(k)]
    BY <1>3 DEF Held, Idx
<1>5. CASE s = r
    <2>1. head[r] - tail[r] < ObjNum
        BY <1>2, <1>5 DEF IInv, PushNeedsRoom, Writing
    <2>2. head[r] - k < ObjNum /\ k - head[r] < ObjNum
        BY <1>3, <2>1, ObjNumAssumption
    <2>3. Idx(k) # Idx(head[r]) /\ Idx(k) \in Cells /\ Idx(head[r]) \in Cells
        BY <1>3, <2>2, IdxFacts
    <2> QED
        BY <1>2, <1>4, <1>5, <2>3
<1>6. CASE s # r
    BY <1>2, <1>4, <1>6
<1> QED
    BY <1>5, <1>6

LEMMA PushRefines ==
    ASSUME IInv, IInv', ObjectReady, NEW r \in Rings, NEW s \in Rings, Push(s)
    PROVE  [Fifo(r)!FifoNext]_(Fifo(r)!fifoVars)
<1>1. QueueView(r) /\ QueueView(r)'
    BY QueueFacts, QueueFactsNext DEF QueueViews
<1>2. /\ pc \in [Threads -> Labels] /\ head \in [Rings -> 0 .. MaxPos]
      /\ ProducerOf[s] \in Threads /\ ConsumerOf[r] \in Threads
    BY SidesAssumption DEF IInv, TypeOK
<1>3. CASE s = r /\ PushPublish(r)
    BY <1>3, PublishEnqueues DEF Fifo!FifoNext
<1>4. ASSUME ~ (s = r /\ PushPublish(r)) PROVE UNCHANGED Fifo(r)!fifoVars
    <2>1. tail' = tail /\ buf' = buf
        BY DEF Push, PushStep, PushTooLarge, PushBegin, PushLoadTail, PushWrite, PushPublish
    <2>2. head'[r] = head[r]
        BY <1>2, <1>4 DEF Push, PushStep, PushTooLarge, PushBegin, PushLoadTail,
                          PushWrite, PushPublish
    <2>3. Taken(r)' = Taken(r)
        <3>1. CASE PushTooLarge(s)
            BY <3>1 DEF PushTooLarge, Taken, At
        <3>2. CASE ~ PushTooLarge(s)
            <4>1. /\ pc[ProducerOf[s]] # "release"
                  /\ \E l \in {"idle", "loadTail", "write", "publish"} :
                         pc' = [pc EXCEPT ![ProducerOf[s]] = l]
                  /\ on' = on \/ on' = [on EXCEPT ![ProducerOf[s]] = s]
                BY <3>2 DEF Push, PushStep, PushBegin, PushLoadTail, PushWrite,
                            PushPublish, Goto, At
            <4>2. on \in [Threads -> Rings]
                BY DEF IInv, TypeOK
            <4> QED
                BY <1>2, <4>1, <4>2 DEF Taken, At
        <3> QED
            BY <3>1, <3>2
    <2>4. First(r)' = First(r)
        BY <2>1, <2>3 DEF First
    <2>5. \A k \in First(r) .. head[r] - 1 : Held(r)'[k] = Held(r)[k]
        <3>1. CASE PushWrite(s)
            BY <3>1, WriteKeepsObjects
        <3>2. CASE ~ PushWrite(s)
            <4>1. buffer' = buffer
                BY <3>2 DEF Push, PushStep, PushTooLarge, PushBegin, PushLoadTail, PushPublish
            <4> QED
                BY <4>1 DEF Held, Idx
        <3> QED
            BY <3>1, <3>2
    <2> QED
        BY <2>1, <2>2, <2>4, <2>5, QuietStutters
<1> QED
    BY <1>3, <1>4

LEMMA PopRefines ==
    ASSUME IInv, IInv', OneRingEach, NEW r \in Rings, NEW s \in Rings, Pop(s)
    PROVE  [Fifo(r)!FifoNext]_(Fifo(r)!fifoVars)
<1>1. QueueView(r) /\ QueueView(r)'
    BY QueueFacts, QueueFactsNext DEF QueueViews
<1>2. /\ pc \in [Threads -> Labels] /\ on \in [Threads -> Rings]
      /\ tail \in [Rings -> Nat] /\ buf \in [Rings -> Objects]
      /\ ConsumerOf[s] \in Threads /\ ConsumerOf[r] \in Threads
      /\ s # r => ConsumerOf[s] # ConsumerOf[r]
    BY SidesAssumption DEF IInv, TypeOK, OneRingEach
<1>3. CASE s = r /\ PopRead(r)
    BY <1>3, ReadDequeues DEF Fifo!FifoNext
<1>4. ASSUME ~ (s = r /\ PopRead(r)) PROVE UNCHANGED Fifo(r)!fifoVars
    <2>1. head' = head /\ buffer' = buffer
        BY DEF Pop, PopStep, PopTooLarge, PopBegin, PopLoadHead, PopRead, PopRelease, caches
    <2>2. buf'[r] = buf[r]
        BY <1>2, <1>4 DEF Pop, PopStep, PopTooLarge, PopBegin, PopLoadHead, PopRead, PopRelease
    <2>3. First(r)' = First(r)
        <3>1. CASE s = r /\ PopRelease(r)
            <4>1. /\ pc[ConsumerOf[r]] = "release" /\ on[ConsumerOf[r]] = r
                  /\ pc' = [pc EXCEPT ![ConsumerOf[r]] = "idle"]
                  /\ tail' = [tail EXCEPT ![r] = @ + 1]
                BY <3>1 DEF PopRelease, Goto, At
            <4>2. Taken(r) = 1 /\ Taken(r)' = 0
                BY <1>2, <4>1 DEF Taken, At
            <4>3. tail'[r] = tail[r] + 1 /\ tail[r] \in Nat
                BY <1>2, <4>1
            <4> QED
                BY <4>2, <4>3 DEF First
        <3>2. CASE PopTooLarge(s)
            BY <3>2 DEF PopTooLarge, First, Taken, At
        <3>3. CASE s = r /\ ~ PopRelease(r) /\ ~ PopTooLarge(r)
            <4>1. /\ tail' = tail
                  /\ pc[ConsumerOf[r]] \in {"idle", "loadHead"}
                  /\ \E l \in {"idle", "loadHead", "read"} : pc' = [pc EXCEPT ![ConsumerOf[r]] = l]
                BY <1>4, <3>3 DEF Pop, PopStep, PopBegin, PopLoadHead, Goto, At
            <4>2. Taken(r) = 0 /\ Taken(r)' = 0
                BY <1>2, <4>1 DEF Taken, At
            <4> QED
                BY <4>1, <4>2 DEF First
        <3>4. CASE s # r /\ ~ PopTooLarge(s)
            <4>1. /\ \E l : pc' = [pc EXCEPT ![ConsumerOf[s]] = l]
                  /\ on' = on \/ on' = [on EXCEPT ![ConsumerOf[s]] = s]
                  /\ tail' = tail \/ tail' = [tail EXCEPT ![s] = @ + 1]
                BY <3>4 DEF Pop, PopStep, PopBegin, PopLoadHead, PopRead, PopRelease, Goto
            <4>2. /\ pc'[ConsumerOf[r]] = pc[ConsumerOf[r]]
                  /\ on'[ConsumerOf[r]] = on[ConsumerOf[r]] /\ tail'[r] = tail[r]
                BY <1>2, <3>4, <4>1
            <4> QED
                BY <4>2 DEF First, Taken, At
        <3> QED
            BY <3>1, <3>2, <3>3, <3>4
    <2>4. \A k \in First(r) .. head[r] - 1 : Held(r)'[k] = Held(r)[k]
        BY <2>1 DEF Held, Idx
    <2> QED
        BY <2>1, <2>2, <2>3, <2>4, QuietStutters
<1> QED
    BY <1>3, <1>4

\* A producer that ends takes nothing out of the queue and puts nothing in.
LEMMA OthersRefine ==
    ASSUME ConsumersStay, NEW r \in Rings, IInv, UNCHANGED <<head, tail, buffer, buf, on>>,
           pc' = pc \/ \E t \in Restartable : pc' = [pc EXCEPT ![t] = "idle"]
    PROVE  UNCHANGED Fifo(r)!fifoVars
<1>1. pc'[ConsumerOf[r]] = pc[ConsumerOf[r]]
    BY SidesAssumption DEF IInv, TypeOK, ConsumersStay
<1>2. Taken(r)' = Taken(r)
    BY <1>1 DEF Taken, At
<1>3. absQueue(r)' = absQueue(r)
    BY <1>2 DEF absQueue, Idx
<1> QED
    BY <1>3 DEF Fifo!fifoVars

LEMMA StepRefines ==
    ASSUME OneRingEach, ConsumersStay, IInv, IInv', ObjectReady, [Next]_vars
    PROVE  \A r \in Rings : [Fifo(r)!FifoNext]_(Fifo(r)!fifoVars)
<1> SUFFICES ASSUME NEW r \in Rings PROVE [Fifo(r)!FifoNext]_(Fifo(r)!fifoVars)
    OBVIOUS
<1>1. ASSUME NEW s \in Rings, IsFull(s) \/ IsEmpty(s) PROVE UNCHANGED Fifo(r)!fifoVars
    BY <1>1, OthersRefine DEF IsFull, IsEmpty
<1>2. ASSUME NEW t \in Threads, Restart(t) PROVE UNCHANGED Fifo(r)!fifoVars
    BY <1>2, OthersRefine DEF Restart, Goto
<1>3. CASE UNCHANGED vars
    <2>1. UNCHANGED Fifo(r)!fifoVars
        BY <1>3, OthersRefine DEF vars
    <2> QED
        BY <2>1
<1> QED
    BY <1>1, <1>2, <1>3, PushRefines, PopRefines DEF Next

LEMMA InitRefines == ASSUME Init PROVE \A r \in Rings : Fifo(r)!FifoInit
<1> SUFFICES ASSUME NEW r \in Rings PROVE Fifo(r)!FifoInit
    OBVIOUS
<1>1. absQueue(r) = << >>
    BY SidesAssumption DEF Init, absQueue, Taken, At
<1>2. [c \in {r} |-> buf[r]] = [c \in {r} |-> Junk]
    BY DEF Init
<1> QED
    BY <1>1, <1>2 DEF Fifo!FifoInit

\* Every ring is a bounded FIFO queue, although neither side sees the other's index
\* as it is now, and although the producer may be replaced in the middle of a push.
THEOREM Refinement ==
    ASSUME OneRingEach, ConsumersStay
    PROVE  Spec => ImplementsFifo
<1>1. Init => \A r \in Rings : Fifo(r)!FifoInit
    BY InitRefines
<1>2. IInv /\ IInv' /\ ObjectReady /\ [Next]_vars =>
          \A r \in Rings : [Fifo(r)!FifoNext]_(Fifo(r)!fifoVars)
    BY StepRefines
<1> QED
    BY <1>1, <1>2, Invariance, ReadyInvariance, PTL DEF Spec, ImplementsFifo

-----------------------------------------------------------------------------
(* The clients of module SpscClients. *)

\* A consumer that was told "not empty" finds an object on the fast path, which
\* tests nothing: there Pop_w_cb makes the step of Pop.
LEMMA ClientStep ==
    ASSUME ~ Unasked, IInv, AnswersTrue, [ClientNext]_clientVars
    PROVE  [Next]_vars
<1>1. ASSUME NEW r \in Rings, FastPopLoadHead(r) PROVE PopLoadHead(r)
    <2>1. r \in sawObject
        BY <1>1 DEF FastPopLoadHead
    <2>2. head[r] # tail[r]
        BY <2>1, ProducerFacts, MaxPosAssumption DEF AnswersTrue
    <2>3. Found(r)
        BY <2>2 DEF Found, HeadNow
    <2> QED
        BY <1>1, <2>3 DEF FastPopLoadHead, PopLoadHead, HeadNow, At, Goto
<1>2. ASSUME NEW r \in Rings, FastPopLoadHead(r) PROVE Next
    BY <1>1, <1>2 DEF Next, Pop, PopStep
<1> QED
    BY <1>2 DEF ClientNext, clientVars

\* With the fast path kept for consumers that were told "not empty", and with a
\* third thread that asks for sizes, the ring does what it does without them: all
\* that is proved of the ring holds for these clients too.
THEOREM ClientsAreSafe ==
    ASSUME OneRingEach, ConsumersStay, ~ Unasked
    PROVE  ClientSpec => Spec
<1> DEFINE Both == IInv /\ AnswersTrue
<1>1. ClientInit => Init /\ Both
    BY InitIInv DEF ClientInit, Init, AnswersTrue
<1>2. Both /\ [ClientNext]_clientVars => [Next]_vars
    BY ClientStep
<1>3. Both /\ [Next]_vars => Both'
    BY NextIInv, AnswersTrueNext
<1> HIDE DEF Both
<1> QED
    BY <1>1, <1>2, <1>3, PTL DEF ClientSpec, Spec

\* What the third thread knows, and was to know, is of one instant of the past: one
\* of a ring that holds no more than ObjNum objects.
SeenBehind ==
    /\ first \in [Rings -> Indices \cup {"none"}]
    /\ was \in [Rings -> [Indices -> Int]]
    /\ size \in [Rings -> Int]
    /\ \A r \in Rings : first[r] # "none" =>
          /\ 0 <= was[r].tail /\ was[r].tail <= was[r].head
          /\ was[r].head - was[r].tail <= ObjNum
          /\ was[r].head <= head[r] /\ was[r].tail <= tail[r]

RingFacts(r) ==
    /\ head[r] \in 0 .. MaxPos /\ tail[r] \in 0 .. MaxPos
    /\ tail[r] <= head[r] /\ head[r] - tail[r] <= ObjNum

LEMMA IndicesNow == ASSUME IInv, NEW r \in Rings PROVE RingFacts(r)
BY ProducerFacts, MaxPosAssumption DEF RingFacts, IInv, NeverOverrun

LEMMA IndicesGrow ==
    ASSUME IInv, [Next]_vars, NEW r \in Rings
    PROVE  head[r] <= head'[r] /\ tail[r] <= tail'[r]
<1> USE DEF Next, vars, Push, PushStep, PushTooLarge, PushBegin, PushLoadTail, PushWrite,
            PushPublish, Pop, PopStep, PopTooLarge, PopBegin, PopLoadHead, PopRead,
            PopRelease, IsFull, IsEmpty, Restart
<1>1. /\ head \in [Rings -> 0 .. MaxPos] /\ tail \in [Rings -> Nat] /\ MaxPos \in Nat
    BY MaxPosAssumption DEF IInv, TypeOK
<1>2. head' = head \/ \E s \in Rings : head' = [head EXCEPT ![s] = @ + 1]
    OBVIOUS
<1>3. tail' = tail \/ \E s \in Rings : tail' = [tail EXCEPT ![s] = @ + 1]
    OBVIOUS
<1>4. head[r] <= head'[r]
    BY <1>1, <1>2
<1>5. tail[r] <= tail'[r]
    BY <1>1, <1>3
<1> QED
    BY <1>4, <1>5

LEMMA USubInt ==
    ASSUME NEW a \in Int, NEW b \in Int
    PROVE  USub(a, b) \in Int
<1>1. SizeMod \in Nat /\ SizeMod >= 1
    BY SizeModAssumption, ObjNumAssumption, MaxPosAssumption
<1> QED
    BY <1>1, DivisionWithRemainder DEF USub

LEMMA SeenBehindNext ==
    ASSUME IInv, IInv', [Next]_vars, SeenBehind, [ClientNext]_clientVars
    PROVE  SeenBehind'
<1>1. ASSUME NEW r \in Rings
      PROVE  /\ RingFacts(r) /\ RingFacts(r)'
             /\ head[r] <= head'[r] /\ tail[r] <= tail'[r]
    <2>1. RingFacts(r) /\ head[r] <= head'[r] /\ tail[r] <= tail'[r]
        BY IndicesNow, IndicesGrow
    <2>2. RingFacts(r)'
        BY IndicesNow, PTL
    <2> QED
        BY <2>1, <2>2
<1>2. CASE UNCHANGED asked
    <2>1. UNCHANGED <<first, was, size>>
        BY <1>2 DEF asked
    <2> QED
        BY <1>1, <2>1, ObjNumAssumption, MaxPosAssumption DEF SeenBehind, RingFacts, Indices
<1>3. ASSUME NEW r \in Rings, SizeFirstLoad(r), UNCHANGED vars PROVE SeenBehind'
    <2>1. UNCHANGED <<head, tail>>
        BY <1>3 DEF vars
    <2>2. [head |-> head[r], tail |-> tail[r]] \in [Indices -> Int]
        BY <1>1, MaxPosAssumption DEF RingFacts, Indices
    <2>3. /\ first' \in [Rings -> Indices \cup {"none"}]
          /\ was' \in [Rings -> [Indices -> Int]]
          /\ size' \in [Rings -> Int]
        BY <1>3, <2>2 DEF SizeFirstLoad, SeenBehind, NoSize
    <2>4. ASSUME NEW q \in Rings, first'[q] # "none"
          PROVE  /\ 0 <= was'[q].tail /\ was'[q].tail <= was'[q].head
                 /\ was'[q].head - was'[q].tail <= ObjNum
                 /\ was'[q].head <= head'[q] /\ was'[q].tail <= tail'[q]
        <3>1. CASE q = r
            <4>1. was'[q] = [head |-> head[r], tail |-> tail[r]]
                BY <1>3, <3>1 DEF SizeFirstLoad, SeenBehind
            <4> QED
                BY <1>1, <2>1, <3>1, <4>1, ObjNumAssumption, MaxPosAssumption DEF RingFacts
        <3>2. CASE q # r
            BY <1>3, <2>1, <2>4, <3>2 DEF SizeFirstLoad, SeenBehind
        <3> QED
            BY <3>1, <3>2
    <2> QED
        BY <2>3, <2>4 DEF SeenBehind
<1>4. ASSUME NEW r \in Rings, SizeSecondLoad(r), UNCHANGED vars PROVE SeenBehind'
    <2>1. UNCHANGED <<head, tail>>
        BY <1>4 DEF vars
    <2>2. NotAsked \in [Indices -> Int]
        BY DEF NotAsked
    <2>3. /\ Difference(was[r].head, tail[r]) \in Int
          /\ Difference(head[r], was[r].tail) \in Int
        <3>1. was[r].head \in Int /\ was[r].tail \in Int
            BY DEF SeenBehind, Indices
        <3>2. head[r] \in Int /\ tail[r] \in Int
            BY <1>1, MaxPosAssumption DEF RingFacts
        <3> QED
            BY <3>1, <3>2, USubInt DEF Difference
    <2>4. /\ first' \in [Rings -> Indices \cup {"none"}]
          /\ was' \in [Rings -> [Indices -> Int]]
        BY <1>4, <2>2 DEF SizeSecondLoad, SeenBehind
    <2>5. size' \in [Rings -> Int]
        BY <1>4, <2>3 DEF SizeSecondLoad, SeenBehind
    <2>6. \A q \in Rings : first'[q] # "none" =>
              first'[q] = first[q] /\ was'[q] = was[q]
        BY <1>4 DEF SizeSecondLoad, SeenBehind
    <2> QED
        BY <2>1, <2>4, <2>5, <2>6 DEF SeenBehind
<1> QED
    BY <1>2, <1>3, <1>4 DEF ClientNext, clientVars, asked, SizeStep

\* Read as a number below zero where it is one, a difference of two positions in
\* the lower half of size_t is what it is in the integers.
LEMMA SignedDifference ==
    ASSUME NEW a \in 0 .. MaxPos, NEW b \in 0 .. MaxPos, 2 * MaxPos < SizeMod
    PROVE  Signed(USub(a, b)) = a - b
<1>1. /\ MaxPos \in Nat /\ SizeMod \in Nat /\ SizeMod >= 1 /\ MaxPos < SizeMod
    BY SizeModAssumption, MaxPosAssumption, ObjNumAssumption
<1>2. SizeMod = 2 * (SizeMod \div 2) + (SizeMod % 2) /\ SizeMod % 2 \in 0 .. 1
      /\ SizeMod \div 2 \in Int
    BY <1>1, DivisionWithRemainder
<1>3. CASE b <= a
    <2>1. USub(a, b) = a - b
        BY <1>3, USubFacts
    <2>2. ~ (a - b > SizeMod \div 2)
        BY <1>1, <1>2, <1>3
    <2> QED
        BY <2>1, <2>2 DEF Signed
<1>4. CASE a < b
    <2>1. USub(a, b) = a - b + SizeMod
        <3>1. (a - b + SizeMod) % SizeMod = (a - b) % SizeMod
            <4>1. a - b \in Int
                BY <1>1
            <4> QED
                BY <1>1, <4>1, SameCellNextLap
        <3>2. a - b + SizeMod \in 0 .. SizeMod - 1
            BY <1>1, <1>4
        <3>3. (a - b + SizeMod) % SizeMod = a - b + SizeMod
            BY <1>1, <3>2
        <3> QED
            BY <3>1, <3>3 DEF USub
    <2>2. a - b + SizeMod > SizeMod \div 2
        BY <1>1, <1>2, <1>4
    <2> QED
        BY <1>1, <2>1, <2>2 DEF Signed
<1> QED
    BY <1>1, <1>3, <1>4

SizeAnswer(r) ==
    /\ was[r].head - tail[r] <= Signed(size'[r])
    /\ Signed(size'[r]) <= head[r] - was[r].tail
    /\ Signed(size'[r]) \notin 0 .. ObjNum =>
           was[r].head < head[r] /\ was[r].tail < tail[r]

\* The step that answers, whichever load came first.
LEMMA SizeAnswered ==
    ASSUME IInv, SeenBehind, [ClientNext]_clientVars, 2 * MaxPos < SizeMod,
           NEW r \in Rings, size[r] = NoSize, size'[r] # NoSize
    PROVE  SizeAnswer(r)
<1>1. PICK s \in Rings : SizeStep(s)
    BY DEF ClientNext, clientVars, asked
<1>2. /\ s = r /\ first[r] # "none"
      /\ size'[r] = IF first[r] = "head" THEN USub(was[r].head, tail[r])
                    ELSE USub(head[r], was[r].tail)
    BY <1>1 DEF SizeStep, SizeFirstLoad, SizeSecondLoad, SeenBehind, NoSize, Difference
<1>3. /\ head[r] \in 0 .. MaxPos /\ tail[r] \in 0 .. MaxPos
      /\ tail[r] <= head[r] /\ head[r] - tail[r] <= ObjNum
      /\ MaxPos \in Nat /\ ObjNum \in Nat
    BY IndicesNow, MaxPosAssumption, ObjNumAssumption DEF RingFacts
<1>4. /\ was[r].head \in Int /\ was[r].tail \in Int
      /\ 0 <= was[r].tail /\ was[r].tail <= was[r].head
      /\ was[r].head - was[r].tail <= ObjNum
      /\ was[r].head <= head[r] /\ was[r].tail <= tail[r]
    BY <1>2 DEF SeenBehind, Indices
<1>5. was[r].head \in 0 .. MaxPos /\ was[r].tail \in 0 .. MaxPos
    BY <1>3, <1>4
<1>6. Signed(size'[r]) = IF first[r] = "head" THEN was[r].head - tail[r]
                         ELSE head[r] - was[r].tail
    BY <1>2, <1>3, <1>5, SignedDifference
<1> QED
    BY <1>3, <1>4, <1>6 DEF SizeAnswer

\* Size_SpscRingBuf asked by a thread that is neither side is wrong by no more than
\* what was pushed and popped between its two loads, in whatever order they take
\* effect, and out of range only if both sides moved; positions are to stay in the
\* lower half of size_t for numbers below zero to be told apart.
THEOREM SizeErrsByTheMoves ==
    ASSUME OneRingEach, ConsumersStay, ~ Unasked, 2 * MaxPos < SizeMod
    PROVE  ClientSpec => SizeOffByMoves
<1>1. ClientInit => SeenBehind
    BY DEF ClientInit, SeenBehind, NoSize, NotAsked
<1>2. IInv /\ IInv' /\ [Next]_vars /\ SeenBehind /\ [ClientNext]_clientVars => SeenBehind'
    BY SeenBehindNext
<1>3. IInv /\ SeenBehind /\ [ClientNext]_clientVars =>
          [\A r \in Rings : size[r] = NoSize /\ size'[r] # NoSize =>
              /\ was[r].head - tail[r] <= Signed(size'[r])
              /\ Signed(size'[r]) <= head[r] - was[r].tail
              /\ Signed(size'[r]) \notin 0 .. ObjNum =>
                     was[r].head < head[r] /\ was[r].tail < tail[r]]_clientVars
    BY SizeAnswered DEF SizeAnswer
<1>4. ClientSpec => Spec
    BY ClientsAreSafe
<1>5. Spec => []IInv
    BY Invariance
<1> QED
    BY <1>1, <1>2, <1>3, <1>4, <1>5, PTL DEF ClientSpec, Spec, SizeOffByMoves
=============================================================================
