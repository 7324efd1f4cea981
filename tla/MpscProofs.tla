----------------------------- MODULE MpscProofs -----------------------------
(***************************************************************************)
(* Machine-checked proofs about module Mpsc, for every number of           *)
(* producers, every ring size and every bound on the positions, whether    *)
(* consumers are replaced or not.  IInv is inductive; exclusive cells,     *)
(* pops of published objects only, and what the answers of a failed push   *)
(* or pop mean follow from it.                                             *)
(***************************************************************************)
EXTENDS MpscCorrect, RingIndex

LEMMA IdxFacts ==
    /\ \A k \in Int : Idx(k) \in Cells
    /\ \A k \in Int : Idx(k + ObjNum) = Idx(k)
    /\ \A j, k \in Int :
          Idx(j) = Idx(k) /\ j - k < ObjNum /\ k - j < ObjNum => j = k
<1>1. ObjNum \in Nat /\ ObjNum >= 1
    BY ObjNumAssumption
<1>2. ASSUME NEW k \in Int PROVE Idx(k) \in Cells
    BY <1>1, DivisionWithRemainder DEF Idx, Cells
<1>3. ASSUME NEW k \in Int PROVE Idx(k + ObjNum) = Idx(k)
    BY <1>1, SameCellNextLap DEF Idx
<1>4. ASSUME NEW j \in Int, NEW k \in Int,
             Idx(j) = Idx(k), j - k < ObjNum, k - j < ObjNum
      PROVE  j = k
    BY <1>1, <1>4, SameCellSamePosition DEF Idx
<1> QED
    BY <1>2, <1>3, <1>4

\* What a push concludes from the two indices it has read, in order or overtaken.
LEMMA FullFacts ==
    ASSUME IInv, NEW p \in Producers, pc[p] = "loadTail"
    PROVE  /\ curr_head[p] \in Nat /\ head \in Nat /\ tail \in Nat
           /\ curr_head[p] <= head /\ tail <= head /\ head - tail <= ObjNum
           /\ tail <= curr_head[p] => (Full(p) <=> curr_head[p] - tail >= ObjNum)
<1>1. /\ curr_head[p] \in Nat /\ head \in 0 .. MaxPos /\ tail \in Nat
      /\ curr_head[p] <= head /\ tail <= head /\ head - tail <= ObjNum
    BY DEF IInv, TypeOK, StillTrueAtCas, NeverOverrun
<1>2. /\ MaxPos \in Nat /\ ObjNum \in Nat
      /\ SizeMod \in Nat /\ MaxPos < SizeMod
    BY MaxPosAssumption, ObjNumAssumption, SizeModAssumption
<1>3. curr_head[p] \in 0 .. MaxPos /\ tail \in 0 .. MaxPos
    BY <1>1, <1>2
<1>4. tail <= curr_head[p] => USub(curr_head[p], tail) = curr_head[p] - tail
    BY <1>2, <1>3, ModularSubtraction DEF USub
<1> QED
    BY <1>1, <1>2, <1>4 DEF Full

-----------------------------------------------------------------------------
(* The invariant holds initially, and every step keeps it. *)

LEMMA InitIInv == ASSUME Init PROVE IInv
<1> USE ObjNumAssumption, MaxPosAssumption, ThreadAssumption DEF Init
<1>1. TypeOK
    BY DEF TypeOK, Objects, Threads, PushPc, PopPc, PushCodes, PopCodes
<1>2. FreeCells
    BY IdxFacts DEF FreeCells
<1> QED
    BY <1>1, <1>2 DEF IInv, NeverOverrun, ClaimedCells, CachedHead, WritersOwn, OnePositionEach,
                      StillTrueAtCas, ConsumerKnows, Writing, Reading, Threads

\* A step of a producer that neither moves head_ nor marks a cell, and that is
\* not where it writes, disturbs only its own part of StillTrueAtCas.
LEMMA ProducerElsewhere ==
    ASSUME IInv, TypeOK', NEW p \in Producers, ~ Writing(p), ~ Writing(p)',
           UNCHANGED <<head, tail, slot, local_head, consumerEnds>>,
           \A t \in Threads : t # p => pc'[t] = pc[t],
           \A q \in Producers : q # p => curr_head'[q] = curr_head[q],
           pc'[p] \in {"loadTail", "cas"} =>
               /\ curr_head'[p] <= head
               /\ curr_head'[p] < MaxPos
               /\ pc'[p] = "cas" /\ curr_head'[p] = head => head - tail < ObjNum
    PROVE  IInv'
<1>1. \A q \in Producers : q # p =>
          /\ pc'[q] = pc[q] /\ curr_head'[q] = curr_head[q] /\ Writing(q)' = Writing(q)
    BY DEF Threads, Writing
<1>2. pc'[Consumer] = pc[Consumer] /\ Reading' = Reading
    BY ThreadAssumption DEF Threads, Reading
<1>3. NeverOverrun' /\ FreeCells' /\ CachedHead'
    BY <1>2 DEF IInv, NeverOverrun, FreeCells, CachedHead
<1>4. ClaimedCells'
    BY <1>1, <1>2 DEF IInv, ClaimedCells
<1>5. WritersOwn' /\ OnePositionEach'
    BY <1>1 DEF IInv, WritersOwn, OnePositionEach
<1>6. StillTrueAtCas'
    BY <1>1 DEF IInv, StillTrueAtCas
<1>7. ConsumerKnows'
    BY <1>1, <1>2 DEF IInv, ConsumerKnows
<1> QED
    BY <1>3, <1>4, <1>5, <1>6, <1>7 DEF IInv

LEMMA SizeTooLargeIInv ==
    ASSUME IInv, NEW t \in Threads, SizeTooLarge(t)
    PROVE  IInv'
<1>1. UNCHANGED <<head, tail, slot, buffer, local_head, curr_head, val, consumerEnds>>
    BY DEF SizeTooLarge
<1>2. pc' = pc
    BY DEF IInv, TypeOK, SizeTooLarge, Return
<1>3. TypeOK'
    BY <1>1, <1>2, ThreadAssumption
    DEF IInv, TypeOK, SizeTooLarge, Return, Threads, PushCodes, PopCodes
<1> QED
    BY <1>1, <1>2, <1>3
    DEF IInv, NeverOverrun, ClaimedCells, CachedHead, FreeCells, WritersOwn,
        OnePositionEach, StillTrueAtCas, ConsumerKnows, Writing, Reading

LEMMA PushLoadHeadIInv ==
    ASSUME IInv, NEW p \in Producers, PushLoadHead(p)
    PROVE  IInv'
<1> USE ThreadAssumption, MaxPosAssumption DEF PushLoadHead
<1>1. TypeOK'
    BY DEF IInv, TypeOK, Threads, Objects, PushPc, PopPc, PushCodes, PopCodes
<1>2. /\ pc[p] = "idle" /\ pc'[p] = "loadTail"
      /\ curr_head'[p] = head /\ head < MaxPos /\ head \in Nat
    BY DEF IInv, TypeOK, Threads
<1>3. /\ \A t \in Threads : t # p => pc'[t] = pc[t]
      /\ \A q \in Producers : q # p => curr_head'[q] = curr_head[q]
    BY DEF IInv, TypeOK
<1> QED
    BY <1>1, <1>2, <1>3, ProducerElsewhere DEF Writing

LEMMA PushLoadTailIInv ==
    ASSUME IInv, NEW p \in Producers, PushLoadTail(p)
    PROVE  IInv'
<1>1. /\ UNCHANGED <<head, tail, slot, buffer, local_head, curr_head, val, consumerEnds>>
      /\ pc[p] = "loadTail"
      /\ \/ /\ pc' = [pc EXCEPT ![p] = "idle"]
            /\ rc' = [rc EXCEPT ![p] = "FULL"]
         \/ /\ pc' = [pc EXCEPT ![p] = "cas"]
            /\ rc' = rc
            /\ ~ Full(p)
    BY DEF PushLoadTail, Goto, Return
<1>2. TypeOK'
    BY <1>1, ThreadAssumption DEF IInv, TypeOK, Threads, PushPc, PopPc, PushCodes, PopCodes
<1>3. pc'[p] \in {"idle", "cas"} /\ \A t \in Threads : t # p => pc'[t] = pc[t]
    BY <1>1 DEF IInv, TypeOK, Threads
<1>4. pc'[p] = "cas" =>
          /\ curr_head[p] <= head /\ curr_head[p] < MaxPos
          /\ curr_head[p] = head => head - tail < ObjNum
    <2>1. pc'[p] = "cas" => ~ Full(p)
        BY <1>1 DEF IInv, TypeOK, Threads
    <2>2. curr_head[p] < MaxPos
        BY <1>1 DEF IInv, StillTrueAtCas
    <2> QED
        BY <1>1, <2>1, <2>2, FullFacts, ObjNumAssumption
<1> QED
    BY <1>1, <1>2, <1>3, <1>4, ProducerElsewhere DEF Writing

LEMMA PushCasIInv ==
    ASSUME IInv, NEW p \in Producers, PushCas(p)
    PROVE  IInv'
<1> USE ThreadAssumption, MaxPosAssumption, ObjNumAssumption
<1>1. CASE head # curr_head[p]
    <2>1. /\ UNCHANGED <<head, tail, slot, buffer, local_head, curr_head, val, consumerEnds>>
          /\ pc[p] = "cas"
          /\ pc' = [pc EXCEPT ![p] = "idle"]
          /\ rc' = [rc EXCEPT ![p] = "CONTENTION"]
        BY <1>1 DEF PushCas, CasFails, Return
    <2>2. TypeOK'
        BY <2>1 DEF IInv, TypeOK, Threads, PushPc, PopPc, PushCodes, PopCodes
    <2>3. pc'[p] = "idle" /\ \A t \in Threads : t # p => pc'[t] = pc[t]
        BY <2>1 DEF IInv, TypeOK, Threads
    <2> QED
        BY <2>1, <2>2, <2>3, ProducerElsewhere DEF Writing
<1>2. CASE head = curr_head[p]
    <2> USE DEF IInv, TypeOK, Threads
    <2>1. /\ UNCHANGED <<tail, slot, buffer, local_head, curr_head, val, rc, consumerEnds>>
          /\ pc[p] = "cas"
          /\ pc' = [pc EXCEPT ![p] = "copy"]
          /\ head' = head + 1
          /\ curr_head[p] = head /\ head \in Nat /\ tail \in Nat
        BY <1>2 DEF PushCas, CasFails, Goto
    <2>2. head < MaxPos /\ head - tail < ObjNum /\ tail <= head
        BY <2>1 DEF StillTrueAtCas, NeverOverrun
    <2>3. slot[Idx(head)] = "EMPTY"
        <3>1. head \in head .. tail + ObjNum - 1
            BY <2>1, <2>2
        <3> QED
            BY <3>1 DEF FreeCells
    <2>4. /\ \A q \in Producers : Writing(q)' <=> Writing(q) \/ q = p
          /\ pc'[Consumer] = pc[Consumer] /\ Reading' = Reading
        BY <2>1 DEF Writing, Reading
    <2>5. TypeOK'
        BY <2>1, <2>2 DEF PushPc, PopPc
    <2>6. NeverOverrun' /\ CachedHead'
        BY <2>1, <2>2, <2>4 DEF NeverOverrun, CachedHead
    <2>7. ClaimedCells'
        <3> SUFFICES ASSUME NEW k \in tail .. head
                     PROVE  \/ slot[Idx(k)] = "VALID"
                            \/ \E q \in Producers : Writing(q)' /\ curr_head[q] = k
                            \/ k = tail /\ (pc'[Consumer] = "release" \/ consumerEnds = "stuck")
            BY <2>1 DEF ClaimedCells
        <3>1. CASE k = head
            BY <2>1, <2>4, <3>1
        <3>2. CASE k # head
            <4>1. k \in tail .. head - 1
                BY <2>1, <3>2
            <4> QED
                BY <4>1, <2>4 DEF ClaimedCells
        <3> QED
            BY <3>1, <3>2
    <2>8. FreeCells'
        BY <2>1 DEF FreeCells
    <2>9. WritersOwn'
        BY <2>1, <2>2, <2>3, <2>4 DEF WritersOwn
    <2>10. OnePositionEach'
        BY <2>1, <2>4 DEF OnePositionEach, WritersOwn
    <2>11. StillTrueAtCas'
        BY <2>1 DEF StillTrueAtCas
    <2>12. ConsumerKnows'
        <3>1. Reading => tail < head
            BY DEF ConsumerKnows
        <3>2. pc[Consumer] = "release" => curr_head[p] # tail
            BY <2>1, <3>1 DEF Reading
        <3> QED
            BY <2>1, <2>4, <3>1, <3>2 DEF ConsumerKnows
    <2> QED
        BY <2>5, <2>6, <2>7, <2>8, <2>9, <2>10, <2>11, <2>12
<1> QED
    BY <1>1, <1>2

LEMMA PushCopyIInv ==
    ASSUME IInv, NEW p \in Producers, PushCopy(p)
    PROVE  IInv'
<1> USE ThreadAssumption
<1>1. /\ UNCHANGED <<head, tail, slot, local_head, curr_head, val, rc, consumerEnds>>
      /\ pc[p] = "copy"
      /\ pc' = [pc EXCEPT ![p] = "publish"]
      /\ buffer' = [buffer EXCEPT ![Idx(curr_head[p])] = val[p]]
    BY DEF PushCopy, Cell, Goto
<1>2. TypeOK'
    BY <1>1 DEF IInv, TypeOK, Threads, PushPc, PopPc, Objects
<1>3. /\ \A q \in Producers : Writing(q)' = Writing(q)
      /\ pc'[Consumer] = pc[Consumer] /\ Reading' = Reading
      /\ \A q \in Producers : pc'[q] \in {"loadTail", "cas"} => pc'[q] = pc[q]
    BY <1>1 DEF IInv, TypeOK, Threads, Writing, Reading
<1>4. NeverOverrun' /\ ClaimedCells' /\ CachedHead' /\ FreeCells'
    BY <1>1, <1>3 DEF IInv, NeverOverrun, ClaimedCells, CachedHead, FreeCells
<1>5. WritersOwn' /\ OnePositionEach' /\ StillTrueAtCas' /\ ConsumerKnows'
    BY <1>1, <1>3 DEF IInv, WritersOwn, OnePositionEach, StillTrueAtCas, ConsumerKnows
<1> QED
    BY <1>2, <1>4, <1>5 DEF IInv

LEMMA PushPublishIInv ==
    ASSUME IInv, NEW p \in Producers, PushPublish(p)
    PROVE  IInv'
<1> DEFINE h == curr_head[p]
<1> USE ObjNumAssumption, MaxPosAssumption, ThreadAssumption DEF IInv, TypeOK, Threads
<1>1. /\ UNCHANGED <<head, tail, buffer, local_head, curr_head, val, consumerEnds>>
      /\ pc[p] = "publish"
      /\ pc' = [pc EXCEPT ![p] = "idle"]
      /\ rc' = [rc EXCEPT ![p] = "OK"]
      /\ slot' = [slot EXCEPT ![Idx(h)] = "VALID"]
    BY DEF PushPublish, Mark, Cell, Return
<1>2. /\ h \in tail .. head - 1 /\ head \in Nat /\ tail \in Nat
      /\ head - tail <= ObjNum /\ Idx(h) \in Cells
    BY <1>1, IdxFacts DEF WritersOwn, Writing, NeverOverrun
<1>3. /\ \A q \in Producers : Writing(q)' <=> Writing(q) /\ q # p
      /\ \A q \in Producers : Writing(q)' => curr_head[q] # h
      /\ pc'[Consumer] = pc[Consumer] /\ Reading' = Reading
    BY <1>1 DEF Writing, Reading, OnePositionEach
\* No other position that may have a cell of its own loses it.
<1>4. ASSUME NEW k \in tail .. tail + ObjNum - 1, k # h
      PROVE  slot'[Idx(k)] = slot[Idx(k)]
    <2>1. Idx(k) \in Cells /\ Idx(k) # Idx(h)
        BY <1>2, <1>4, IdxFacts
    <2> QED
        BY <1>1, <2>1
<1>5. slot'[Idx(h)] = "VALID"
    BY <1>1, <1>2
<1> HIDE DEF h
<1>6. TypeOK'
    BY <1>1, <1>2 DEF PushPc, PopPc, PushCodes, PopCodes
<1>7. NeverOverrun' /\ CachedHead'
    BY <1>1, <1>3 DEF NeverOverrun, CachedHead
<1>8. ClaimedCells'
    <2> SUFFICES ASSUME NEW k \in tail .. head - 1
                 PROVE  \/ slot'[Idx(k)] = "VALID"
                        \/ \E q \in Producers : Writing(q)' /\ curr_head[q] = k
                        \/ k = tail /\ (pc'[Consumer] = "release" \/ consumerEnds = "stuck")
        BY <1>1 DEF ClaimedCells
    <2>1. CASE k = h
        BY <1>5, <2>1
    <2>2. CASE k # h
        <3>1. slot'[Idx(k)] = slot[Idx(k)]
            BY <1>2, <1>4, <2>2
        <3>2. \A q \in Producers : Writing(q) /\ curr_head[q] = k => Writing(q)'
            BY <1>3, <2>2 DEF h
        <3> QED
            BY <1>3, <3>1, <3>2 DEF ClaimedCells
    <2> QED
        BY <2>1, <2>2
<1>9. FreeCells'
    BY <1>1, <1>2, <1>4 DEF FreeCells, NeverOverrun
<1>10. WritersOwn'
    BY <1>1, <1>2, <1>3, <1>4 DEF WritersOwn
<1>11. OnePositionEach'
    BY <1>1, <1>3 DEF OnePositionEach
<1>12. StillTrueAtCas'
    BY <1>1 DEF StillTrueAtCas
<1>13. ConsumerKnows'
    <2>1. tail \in tail .. tail + ObjNum - 1
        BY <1>2
    <2>2. slot[Idx(tail)] = "VALID" => slot'[Idx(tail)] = "VALID"
        BY <1>4, <1>5, <2>1
    <2>3. pc[Consumer] = "release" => slot'[Idx(tail)] = slot[Idx(tail)]
        <3>1. pc[Consumer] = "release" => h # tail
            BY <1>1 DEF ConsumerKnows, Writing, h
        <3> QED
            BY <1>4, <2>1, <3>1
    <2> QED
        BY <1>1, <1>3, <2>2, <2>3 DEF ConsumerKnows
<1> QED
    BY <1>6, <1>7, <1>8, <1>9, <1>10, <1>11, <1>12, <1>13

-----------------------------------------------------------------------------
(* The consumer. *)

\* A step of the consumer that leaves the shared words alone disturbs only what
\* the invariant says of the consumer itself.
LEMMA ConsumerElsewhere ==
    ASSUME IInv, TypeOK', CachedHead', ConsumerKnows',
           UNCHANGED <<head, tail, slot, curr_head>>,
           \A p \in Producers : pc'[p] = pc[p],
           consumerEnds' = IF pc[Consumer] = "release" THEN "stuck" ELSE consumerEnds
    PROVE  IInv'
<1>1. \A p \in Producers : Writing(p)' = Writing(p)
    BY DEF Writing
<1>2. NeverOverrun' /\ FreeCells' /\ WritersOwn' /\ OnePositionEach' /\ StillTrueAtCas'
    BY <1>1
    DEF IInv, NeverOverrun, FreeCells, WritersOwn, OnePositionEach, StillTrueAtCas
<1>3. ClaimedCells'
    BY <1>1 DEF IInv, ClaimedCells
<1> QED
    BY <1>2, <1>3 DEF IInv

\* The consumer's pc moves; those of the producers do not.
LEMMA ConsumerMoves ==
    ASSUME IInv, NEW label \in PopPc, pc' = [pc EXCEPT ![Consumer] = label]
    PROVE  /\ pc'[Consumer] = label
           /\ \A p \in Producers : pc'[p] = pc[p]
           /\ \A p \in Producers : Writing(p)' = Writing(p)
           /\ pc' \in [Threads -> PushPc \cup PopPc]
           /\ \A p \in Producers : pc'[p] \in PushPc
BY ThreadAssumption DEF IInv, TypeOK, Threads, Writing

LEMMA PopBeginIInv ==
    ASSUME IInv, PopBegin
    PROVE  IInv'
<1>1. /\ UNCHANGED <<head, tail, slot, buffer, local_head, curr_head, val, consumerEnds>>
      /\ pc[Consumer] = "idle"
      /\ rc' = [rc EXCEPT ![Consumer] = "none"]
      /\ \/ pc' = [pc EXCEPT ![Consumer] = "loadHead"]
         \/ pc' = [pc EXCEPT ![Consumer] = "loadSlot"] /\ local_head # tail
    BY DEF PopBegin
<1>2. /\ \A p \in Producers : pc'[p] = pc[p]
      /\ pc' \in [Threads -> PushPc \cup PopPc]
      /\ \A p \in Producers : pc'[p] \in PushPc
      /\ \/ pc'[Consumer] = "loadHead"
         \/ pc'[Consumer] = "loadSlot" /\ local_head # tail
    BY <1>1, ConsumerMoves DEF PopPc
<1>3. TypeOK'
    BY <1>1, <1>2, ThreadAssumption DEF IInv, TypeOK, Threads, PopPc, PushCodes, PopCodes
<1>4. CachedHead'
    BY <1>1, <1>2 DEF IInv, TypeOK, CachedHead, Reading
<1>5. ConsumerKnows'
    BY <1>1, <1>2 DEF ConsumerKnows, Reading
<1> QED
    BY <1>1, <1>2, <1>3, <1>4, <1>5, ConsumerElsewhere

LEMMA PopLoadHeadIInv ==
    ASSUME IInv, PopLoadHead
    PROVE  IInv'
<1>1. /\ UNCHANGED <<head, tail, slot, buffer, curr_head, val, consumerEnds>>
      /\ pc[Consumer] = "loadHead"
      /\ local_head' = head
      /\ \/ /\ pc' = [pc EXCEPT ![Consumer] = "idle"]
            /\ rc' = [rc EXCEPT ![Consumer] = "EMPTY"]
         \/ /\ pc' = [pc EXCEPT ![Consumer] = "loadSlot"]
            /\ rc' = rc
            /\ head # tail
    BY DEF PopLoadHead, Goto, Return
<1>2. /\ \A p \in Producers : pc'[p] = pc[p]
      /\ pc' \in [Threads -> PushPc \cup PopPc]
      /\ \A p \in Producers : pc'[p] \in PushPc
      /\ \/ pc'[Consumer] = "idle"
         \/ pc'[Consumer] = "loadSlot" /\ head # tail
    BY <1>1, ConsumerMoves DEF PopPc
<1>3. TypeOK'
    BY <1>1, <1>2, ThreadAssumption, MaxPosAssumption
    DEF IInv, TypeOK, Threads, PopPc, PushCodes, PopCodes
<1>4. CachedHead'
    BY <1>1, <1>2, MaxPosAssumption DEF IInv, TypeOK, NeverOverrun, CachedHead, Reading
<1>5. ConsumerKnows'
    BY <1>1, <1>2 DEF ConsumerKnows, Reading
<1> QED
    BY <1>1, <1>2, <1>3, <1>4, <1>5, ConsumerElsewhere

LEMMA PopLoadSlotIInv ==
    ASSUME IInv, PopLoadSlot
    PROVE  IInv'
<1>1. /\ UNCHANGED <<head, tail, slot, buffer, local_head, curr_head, val, consumerEnds>>
      /\ pc[Consumer] = "loadSlot"
      /\ \/ /\ pc' = [pc EXCEPT ![Consumer] = "idle"]
            /\ rc' = [rc EXCEPT ![Consumer] = "WRITING_DATA"]
         \/ /\ pc' = [pc EXCEPT ![Consumer] = "read"]
            /\ rc' = rc
            /\ slot[Idx(tail)] # "EMPTY"
    BY DEF PopLoadSlot, Marked, Goto, Return
<1>2. /\ \A p \in Producers : pc'[p] = pc[p]
      /\ pc' \in [Threads -> PushPc \cup PopPc]
      /\ \A p \in Producers : pc'[p] \in PushPc
      /\ \/ pc'[Consumer] = "idle"
         \/ pc'[Consumer] = "read" /\ slot[Idx(tail)] # "EMPTY"
    BY <1>1, ConsumerMoves DEF PopPc
<1>3. TypeOK'
    BY <1>1, <1>2, ThreadAssumption DEF IInv, TypeOK, Threads, PopPc, PushCodes, PopCodes
<1>4. CachedHead'
    BY <1>1, <1>2 DEF IInv, CachedHead, Reading
\* Even if local_head is anything: the free cells are not marked.
<1>5. slot[Idx(tail)] # "EMPTY" => slot[Idx(tail)] = "VALID" /\ tail < head
    <2>1. /\ head \in Nat /\ tail \in Nat /\ tail <= head
          /\ slot[Idx(tail)] \in {"EMPTY", "VALID"}
        BY IdxFacts, MaxPosAssumption DEF IInv, TypeOK, NeverOverrun
    <2>2. tail = head => tail \in head .. tail + ObjNum - 1
        BY <2>1, ObjNumAssumption
    <2> QED
        BY <2>1, <2>2 DEF IInv, FreeCells
<1>6. ConsumerKnows'
    BY <1>1, <1>2, <1>5 DEF ConsumerKnows, Reading
<1> QED
    BY <1>1, <1>2, <1>3, <1>4, <1>6, ConsumerElsewhere

LEMMA PopReadIInv ==
    ASSUME IInv, PopRead
    PROVE  IInv'
<1>1. /\ UNCHANGED <<head, tail, slot, buffer, local_head, curr_head, rc, consumerEnds>>
      /\ pc[Consumer] = "read"
      /\ pc' = [pc EXCEPT ![Consumer] = "emptySlot"]
      /\ val' = [val EXCEPT ![Consumer] = buffer[Idx(tail)]]
    BY DEF PopRead, Goto
<1>2. /\ \A p \in Producers : pc'[p] = pc[p]
      /\ pc' \in [Threads -> PushPc \cup PopPc]
      /\ \A p \in Producers : pc'[p] \in PushPc
      /\ pc'[Consumer] = "emptySlot"
    BY <1>1, ConsumerMoves DEF PopPc
<1>3. TypeOK'
    BY <1>1, <1>2, ThreadAssumption, IdxFacts DEF IInv, TypeOK, Threads, PopPc
<1>4. CachedHead' /\ ConsumerKnows'
    BY <1>1, <1>2 DEF IInv, CachedHead, ConsumerKnows, Reading
<1> QED
    BY <1>1, <1>2, <1>3, <1>4, ConsumerElsewhere

LEMMA PopEmptySlotIInv ==
    ASSUME IInv, PopEmptySlot
    PROVE  IInv'
<1> USE ObjNumAssumption, MaxPosAssumption
<1>1. /\ UNCHANGED <<head, tail, buffer, local_head, curr_head, val, rc, consumerEnds>>
      /\ pc[Consumer] = "emptySlot"
      /\ pc' = [pc EXCEPT ![Consumer] = "release"]
      /\ slot' = [slot EXCEPT ![Idx(tail)] = "EMPTY"]
    BY DEF PopEmptySlot, Unmark, Goto
<1>2. /\ \A p \in Producers : pc'[p] = pc[p]
      /\ \A p \in Producers : Writing(p)' = Writing(p)
      /\ pc' \in [Threads -> PushPc \cup PopPc]
      /\ \A p \in Producers : pc'[p] \in PushPc
      /\ pc'[Consumer] = "release"
    BY <1>1, ConsumerMoves DEF PopPc
<1>3. /\ head \in Nat /\ tail \in Nat /\ tail < head /\ head - tail <= ObjNum
      /\ slot \in [Cells -> {"EMPTY", "VALID"}]
      /\ Idx(tail) \in Cells /\ slot[Idx(tail)] = "VALID"
    BY <1>1, IdxFacts DEF IInv, TypeOK, NeverOverrun, ConsumerKnows, Reading
<1>4. ASSUME NEW k \in tail .. tail + ObjNum - 1, k # tail
      PROVE  slot'[Idx(k)] = slot[Idx(k)]
    <2>1. Idx(k) \in Cells /\ Idx(k) # Idx(tail)
        BY <1>3, <1>4, IdxFacts
    <2> QED
        BY <1>1, <2>1
<1>5. slot'[Idx(tail)] = "EMPTY"
    BY <1>1, <1>3
<1>6. TypeOK'
    BY <1>1, <1>2, <1>3 DEF IInv, TypeOK, PopPc
<1>7. NeverOverrun' /\ CachedHead'
    BY <1>1, <1>2 DEF IInv, NeverOverrun, CachedHead, Reading
<1>8. ClaimedCells'
    <2> SUFFICES ASSUME NEW k \in tail .. head - 1, k # tail
                 PROVE  \/ slot'[Idx(k)] = "VALID"
                        \/ \E q \in Producers : Writing(q)' /\ curr_head[q] = k
        BY <1>1, <1>2 DEF ClaimedCells
    <2>1. slot'[Idx(k)] = slot[Idx(k)]
        BY <1>3, <1>4
    <2> QED
        BY <1>2, <2>1 DEF IInv, ClaimedCells
<1>9. FreeCells'
    BY <1>1, <1>3, <1>4 DEF IInv, FreeCells
\* The cell was marked, so that no producer is writing it.
<1>10. \A p \in Producers : Writing(p) => curr_head[p] # tail
    BY <1>3 DEF IInv, WritersOwn
<1>11. WritersOwn' /\ OnePositionEach' /\ StillTrueAtCas'
    <2>1. \A p \in Producers : Writing(p) => slot'[Idx(curr_head[p])] = "EMPTY"
        BY <1>3, <1>4, <1>10 DEF IInv, WritersOwn
    <2> QED
        BY <1>1, <1>2, <2>1 DEF IInv, WritersOwn, OnePositionEach, StillTrueAtCas
<1>12. ConsumerKnows'
    BY <1>1, <1>2, <1>3, <1>5, <1>10 DEF ConsumerKnows, Reading
<1> QED
    BY <1>6, <1>7, <1>8, <1>9, <1>11, <1>12 DEF IInv

LEMMA PopReleaseIInv ==
    ASSUME IInv, PopRelease
    PROVE  IInv'
<1> USE ObjNumAssumption, MaxPosAssumption
<1>1. /\ UNCHANGED <<head, slot, buffer, local_head, curr_head, val, consumerEnds>>
      /\ pc[Consumer] = "release"
      /\ pc' = [pc EXCEPT ![Consumer] = "idle"]
      /\ rc' = [rc EXCEPT ![Consumer] = "OK"]
      /\ tail' = tail + 1
    BY DEF PopRelease, Return
<1>2. /\ \A p \in Producers : pc'[p] = pc[p]
      /\ \A p \in Producers : Writing(p)' = Writing(p)
      /\ pc' \in [Threads -> PushPc \cup PopPc]
      /\ \A p \in Producers : pc'[p] \in PushPc
      /\ pc'[Consumer] = "idle"
    BY <1>1, ConsumerMoves DEF PopPc
<1>3. /\ head \in Nat /\ tail \in Nat /\ local_head \in Nat
      /\ tail < head /\ head - tail <= ObjNum
      /\ slot[Idx(tail)] = "EMPTY"
      /\ \A p \in Producers : Writing(p) => curr_head[p] # tail
    BY <1>1 DEF IInv, TypeOK, NeverOverrun, ConsumerKnows, Reading
<1>4. TypeOK'
    BY <1>1, <1>2, <1>3, ThreadAssumption
    DEF IInv, TypeOK, Threads, PopPc, PushCodes, PopCodes
<1>5. NeverOverrun' /\ CachedHead'
    BY <1>1, <1>2, <1>3 DEF IInv, NeverOverrun, CachedHead, Reading
<1>6. ClaimedCells'
    BY <1>1, <1>2, <1>3 DEF IInv, ClaimedCells
<1>7. FreeCells'
    <2> SUFFICES ASSUME NEW k \in head .. tail + ObjNum PROVE slot[Idx(k)] = "EMPTY"
        BY <1>1, <1>3 DEF FreeCells
    <2>1. CASE k = tail + ObjNum
        BY <1>3, <2>1, IdxFacts
    <2>2. CASE k # tail + ObjNum
        <3>1. k \in head .. tail + ObjNum - 1
            BY <1>3, <2>2
        <3> QED
            BY <3>1 DEF IInv, FreeCells
    <2> QED
        BY <2>1, <2>2
<1>8. WritersOwn'
    BY <1>1, <1>2, <1>3 DEF IInv, TypeOK, WritersOwn
<1>9. OnePositionEach' /\ StillTrueAtCas'
    BY <1>1, <1>2, <1>3 DEF IInv, OnePositionEach, StillTrueAtCas
<1>10. ConsumerKnows'
    BY <1>2 DEF ConsumerKnows, Reading
<1> QED
    BY <1>4, <1>5, <1>6, <1>7, <1>8, <1>9, <1>10 DEF IInv

LEMMA ConsumerRestartIInv ==
    ASSUME IInv, ConsumerRestart
    PROVE  IInv'
<1>1. /\ UNCHANGED <<head, tail, slot, buffer, curr_head, val>>
      /\ consumerEnds # "never"
      /\ consumerEnds' = IF pc[Consumer] = "release" THEN "stuck" ELSE consumerEnds
      /\ pc' = [pc EXCEPT ![Consumer] = "idle"]
      /\ rc' = [rc EXCEPT ![Consumer] = "none"]
      /\ local_head' = 0
    BY DEF ConsumerRestart
<1>2. /\ \A p \in Producers : pc'[p] = pc[p]
      /\ pc' \in [Threads -> PushPc \cup PopPc]
      /\ \A p \in Producers : pc'[p] \in PushPc
      /\ pc'[Consumer] = "idle"
    BY <1>1, ConsumerMoves DEF PopPc
<1>3. TypeOK'
    BY <1>1, <1>2, ThreadAssumption DEF IInv, TypeOK, Threads, PopPc, PushCodes, PopCodes
<1>4. CachedHead' /\ ConsumerKnows'
    BY <1>1, <1>2 DEF CachedHead, ConsumerKnows, Reading
<1> QED
    BY <1>1, <1>2, <1>3, <1>4, ConsumerElsewhere

-----------------------------------------------------------------------------
LEMMA NextIInv == ASSUME IInv, [Next]_vars PROVE IInv'
<1>1. ASSUME NEW p \in Producers, Push(p) PROVE IInv'
    BY <1>1, SizeTooLargeIInv, PushLoadHeadIInv, PushLoadTailIInv, PushCasIInv,
       PushCopyIInv, PushPublishIInv DEF Push, PushStep, Threads
<1>2. CASE Pop
    BY <1>2, SizeTooLargeIInv, PopBeginIInv, PopLoadHeadIInv, PopLoadSlotIInv,
       PopReadIInv, PopEmptySlotIInv, PopReleaseIInv DEF Pop, Pop_w_cb, Threads
<1>3. CASE UNCHANGED vars
    BY <1>3 DEF vars, IInv, TypeOK, NeverOverrun, ClaimedCells, CachedHead, FreeCells,
                WritersOwn, OnePositionEach, StillTrueAtCas, ConsumerKnows, Writing, Reading
<1> QED
    BY <1>1, <1>2, <1>3, ConsumerRestartIInv DEF Next

-----------------------------------------------------------------------------
(* The theorems. *)

\* Every reachable state of the MPSC ring satisfies the inductive invariant, for
\* all numbers of producers, cells and positions.
THEOREM Invariance == Spec => []IInv
BY InitIInv, NextIInv, PTL DEF Spec

\* All variables of the ring and of its threads keep their types.
THEOREM TypeCorrect == Spec => []TypeOK
<1>1. IInv => TypeOK
    BY DEF IInv
<1> QED
    BY <1>1, Invariance, PTL

LEMMA IInvExclusive == ASSUME IInv PROVE CellsExclusive
<1>1. ASSUME NEW p \in Producers, Writing(p)
      PROVE  /\ curr_head[p] \in tail .. head - 1
             /\ slot[Idx(curr_head[p])] = "EMPTY"
    BY <1>1 DEF IInv, WritersOwn
<1>2. /\ head \in Nat /\ tail \in Nat /\ head - tail <= ObjNum
      /\ ObjNum \in Nat
    BY MaxPosAssumption, ObjNumAssumption DEF IInv, TypeOK, NeverOverrun
<1>3. ASSUME NEW p \in Producers, NEW q \in Producers, p # q, Writing(p), Writing(q)
      PROVE  Idx(curr_head[p]) # Idx(curr_head[q])
    <2>1. curr_head[p] # curr_head[q]
        BY <1>3 DEF IInv, OnePositionEach
    <2> QED
        BY <1>1, <1>2, <1>3, <2>1, IdxFacts
<1>4. ASSUME NEW p \in Producers, Writing(p), Reading
      PROVE  Idx(curr_head[p]) # Idx(tail)
    <2>1. CASE pc[Consumer] \in {"read", "emptySlot"}
        BY <1>1, <1>4, <2>1 DEF IInv, ConsumerKnows
    <2>2. CASE pc[Consumer] = "release"
        <3>1. curr_head[p] # tail
            BY <1>4, <2>2 DEF IInv, ConsumerKnows
        <3> QED
            BY <1>1, <1>2, <1>4, <3>1, IdxFacts
    <2> QED
        BY <1>4, <2>1, <2>2 DEF Reading
<1> QED
    BY <1>3, <1>4 DEF CellsExclusive

\* The memcpy of a push and that of a pop, or the callback of Pop_w_cb, never run
\* on one cell at the same time, nor do those of two pushes: the mark, which has
\* no lap number, is enough, and a replaced consumer does no harm.
THEOREM Exclusion == Spec => []CellsExclusive
BY IInvExclusive, Invariance, PTL

LEMMA IInvPublished == ASSUME IInv PROVE PopsArePublished
<1>1. SUFFICES ASSUME pc[Consumer] \in {"read", "emptySlot"}
               PROVE  /\ tail < head
                      /\ slot[Idx(tail)] = "VALID"
                      /\ \A p \in Producers : Writing(p) => curr_head[p] # tail
    BY DEF PopsArePublished
<1> QED
    BY <1>1 DEF IInv, ConsumerKnows, WritersOwn, Reading

\* The cell that Pop_MpscRingBuf copies holds an object published at tail_.
THEOREM OnlyPublished == Spec => []PopsArePublished
BY IInvPublished, Invariance, PTL

\* Which step gives a producer, or the consumer, an answer.
LEMMA WhoAnswers ==
    ASSUME IInv, [Next]_vars
    PROVE  /\ \A p \in Producers :
                 rc'[p] = "FULL" /\ rc[p] # "FULL" => pc[p] = "loadTail" /\ Full(p)
           /\ \A p \in Producers :
                 rc'[p] = "CONTENTION" /\ rc[p] # "CONTENTION" =>
                     pc[p] = "cas" /\ head # curr_head[p]
           /\ rc'[Consumer] = "WRITING_DATA" /\ rc[Consumer] # "WRITING_DATA" =>
                 pc[Consumer] = "loadSlot" /\ slot[Idx(tail)] = "EMPTY"
<1> USE ThreadAssumption DEF IInv, TypeOK, Threads
<1>1. ASSUME NEW t \in Threads, SizeTooLarge(t)
      PROVE  \A u \in Threads : rc'[u] = rc[u] \/ rc'[u] = "SIZE_TOO_LARGE"
    BY <1>1 DEF SizeTooLarge, Return
<1>2. ASSUME NEW p \in Producers, PushLoadHead(p) \/ PushStep(p)
      PROVE  /\ \A t \in Threads : t # p => rc'[t] = rc[t]
             /\ \/ rc'[p] = rc[p] \/ rc'[p] \in {"none", "OK"}
                \/ rc'[p] = "FULL" /\ pc[p] = "loadTail" /\ Full(p)
                \/ rc'[p] = "CONTENTION" /\ pc[p] = "cas" /\ head # curr_head[p]
    BY <1>2 DEF PushStep, PushLoadHead, PushLoadTail, PushCas, CasFails, PushCopy,
                PushPublish, Goto, Return
<1>3. ASSUME Pop_w_cb \/ ConsumerRestart
      PROVE  /\ \A p \in Producers : rc'[p] = rc[p]
             /\ \/ rc'[Consumer] = rc[Consumer]
                \/ rc'[Consumer] \in {"none", "OK", "EMPTY"}
                \/ /\ rc'[Consumer] = "WRITING_DATA"
                   /\ pc[Consumer] = "loadSlot" /\ slot[Idx(tail)] = "EMPTY"
    BY <1>3 DEF Pop_w_cb, ConsumerRestart, PopBegin, PopLoadHead, PopLoadSlot, Marked,
                PopRead, PopEmptySlot, PopRelease, Goto, Return
<1>4. CASE UNCHANGED vars
    BY <1>4 DEF vars
<1>5. CASE \E p \in Producers : SizeTooLarge(p)
    BY <1>1, <1>5
<1>6. CASE SizeTooLarge(Consumer)
    BY <1>1, <1>6
<1>7. CASE \E p \in Producers : PushLoadHead(p) \/ PushStep(p)
    BY <1>2, <1>7
<1>8. CASE Pop_w_cb \/ ConsumerRestart
    BY <1>3, <1>8
<1> QED
    BY <1>4, <1>5, <1>6, <1>7, <1>8 DEF Next, Push, Pop

\* Push_MpscRingBuf answers RINGBUF_FULL only at an instant the ring is full, or
\* when pops have gone past the position it read.
THEOREM FullMeans == Spec => FullOrOvertaken
<1>1. ASSUME IInv, [Next]_vars, NEW p \in Producers, rc'[p] = "FULL", rc[p] # "FULL"
      PROVE  head - tail = ObjNum \/ tail > curr_head[p]
    <2>1. pc[p] = "loadTail" /\ Full(p)
        BY <1>1, WhoAnswers
    <2> QED
        BY <1>1, <2>1, FullFacts, ObjNumAssumption
<1>2. IInv /\ [Next]_vars =>
        [\A p \in Producers : rc'[p] = "FULL" /\ rc[p] # "FULL" =>
            head - tail = ObjNum \/ tail > curr_head[p]]_vars
    BY <1>1
<1> QED
    BY <1>2, Invariance, PTL DEF Spec, FullOrOvertaken

\* Push_MpscRingBuf answers RINGBUF_CONTENTION only if another push has claimed
\* the position it read: pushes are lock-free.
THEOREM LockFree == Spec => ContentionMeansProgress
<1>1. ASSUME IInv, [Next]_vars, NEW p \in Producers,
             rc'[p] = "CONTENTION", rc[p] # "CONTENTION"
      PROVE  head > curr_head[p]
    <2>1. pc[p] = "cas" /\ head # curr_head[p]
        BY <1>1, WhoAnswers
    <2>2. head \in Nat /\ curr_head[p] \in Nat /\ curr_head[p] <= head
        BY <1>1, <2>1, MaxPosAssumption DEF IInv, TypeOK, StillTrueAtCas
    <2> QED
        BY <2>1, <2>2
<1>2. IInv /\ [Next]_vars =>
        [\A p \in Producers : rc'[p] = "CONTENTION" /\ rc[p] # "CONTENTION" =>
            head > curr_head[p]]_vars
    BY <1>1
<1> QED
    BY <1>2, Invariance, PTL DEF Spec, ContentionMeansProgress

\* Pop_MpscRingBuf answers RINGBUF_SLOT_WRITING_DATA only while a producer is
\* between its claim and its mark at tail_; to a consumer that took over the ring
\* also for an empty ring, and always once one ended between its two last stores.
THEOREM WritingDataMeans == Spec => WritingDataIsHonest
<1>1. ASSUME IInv, [Next]_vars,
             rc'[Consumer] = "WRITING_DATA", rc[Consumer] # "WRITING_DATA"
      PROVE  \/ \E p \in Producers : Writing(p) /\ curr_head[p] = tail
             \/ consumerEnds # "never" /\ head = tail
             \/ consumerEnds = "stuck"
    <2>1. pc[Consumer] = "loadSlot" /\ slot[Idx(tail)] = "EMPTY"
        BY <1>1, WhoAnswers
    <2>2. head \in Nat /\ tail \in Nat /\ local_head \in Nat /\ tail <= head
        BY MaxPosAssumption, <1>1 DEF IInv, TypeOK, NeverOverrun
    <2>3. CASE head = tail
        BY <1>1, <2>1, <2>2, <2>3 DEF IInv, CachedHead
    <2>4. CASE head # tail
        <3>1. tail \in tail .. head - 1
            BY <2>2, <2>4
        <3> QED
            BY <1>1, <2>1, <3>1 DEF IInv, ClaimedCells
    <2> QED
        BY <2>3, <2>4
<1>2. IInv /\ [Next]_vars =>
        [rc'[Consumer] = "WRITING_DATA" /\ rc[Consumer] # "WRITING_DATA" =>
            \/ \E p \in Producers : Writing(p) /\ curr_head[p] = tail
            \/ consumerEnds # "never" /\ head = tail
            \/ consumerEnds = "stuck"]_vars
    BY <1>1
<1> QED
    BY <1>2, Invariance, PTL DEF Spec, WritingDataIsHonest

-----------------------------------------------------------------------------
(* The ring is a bounded FIFO queue. *)

\* The object in hand cannot be overwritten: producers are at other positions, and
\* a position that shares the cell is not claimed before tail_ moves.
LEMMA InHandNext == ASSUME IInv, InHand, [Next]_vars PROVE InHand'
<1> USE ThreadAssumption, ObjNumAssumption, MaxPosAssumption DEF InHand
<1>1. /\ tail \in Nat /\ head \in 0 .. MaxPos /\ buffer \in [Cells -> Objects]
      /\ val \in [Threads -> Objects] /\ pc \in [Threads -> PushPc \cup PopPc]
      /\ \A p \in Producers : p # Consumer /\ p \in Threads
    BY DEF IInv, TypeOK, Threads
<1>2. CASE UNCHANGED vars
    BY <1>2 DEF vars
<1>3. ASSUME NEW p \in Producers, Push(p) PROVE InHand'
    <2>1. tail' = tail
        BY <1>3 DEF Push, PushStep, SizeTooLarge, PushLoadHead, PushLoadTail, PushCas,
                    PushCopy, PushPublish
    <2>2. pc'[Consumer] = pc[Consumer] /\ val'[Consumer] = val[Consumer]
        <3>1. \E l : pc' = [pc EXCEPT ![p] = l]
            BY <1>3 DEF Push, PushStep, SizeTooLarge, PushLoadHead, PushLoadTail, PushCas,
                        PushCopy, PushPublish, Goto, Return
        <3>2. val' = val \/ \E v : val' = [val EXCEPT ![p] = v]
            BY <1>3 DEF Push, PushStep, SizeTooLarge, PushLoadHead, PushLoadTail, PushCas,
                        PushCopy, PushPublish
        <3>3. p # Consumer /\ Consumer \in Threads
            BY DEF Threads
        <3> QED
            BY <1>1, <3>1, <3>2, <3>3
    <2>3. CASE PushCopy(p)
        <3>1. Writing(p) /\ buffer' = [buffer EXCEPT ![Idx(curr_head[p])] = val[p]]
            BY <2>3 DEF PushCopy, Cell, Writing
        <3>2. /\ curr_head[p] \in tail .. head - 1 /\ head - tail <= ObjNum
              /\ slot[Idx(curr_head[p])] = "EMPTY"
            BY <3>1 DEF IInv, WritersOwn, NeverOverrun
        <3>3. pc[Consumer] \in {"emptySlot", "release"} => curr_head[p] # tail
            BY <3>1, <3>2 DEF IInv, ConsumerKnows
        <3>4. pc[Consumer] \in {"emptySlot", "release"} => Idx(curr_head[p]) # Idx(tail)
            BY <1>1, <3>2, <3>3, IdxFacts
        <3>5. Idx(tail)' = Idx(tail)
            BY <2>1 DEF Idx
        <3>6. Idx(tail) \in Cells
            BY <1>1, IdxFacts
        <3> QED
            BY <1>1, <2>2, <3>1, <3>4, <3>5, <3>6
    <2>4. CASE ~ PushCopy(p)
        <3>1. buffer' = buffer
            BY <1>3, <2>4 DEF Push, PushStep, SizeTooLarge, PushLoadHead, PushLoadTail,
                              PushCas, PushPublish
        <3> QED
            BY <2>1, <2>2, <3>1 DEF Idx
    <2> QED
        BY <2>3, <2>4
<1>4. ASSUME Pop \/ ConsumerRestart PROVE InHand'
    <2>1. CASE PopRead
        BY <1>1, <2>1 DEF PopRead, Goto, Idx, Threads
    <2>2. CASE PopEmptySlot
        BY <1>1, <2>2 DEF PopEmptySlot, Goto, Idx, Threads
    <2>3. CASE ~ PopRead /\ ~ PopEmptySlot
        <3>1. pc'[Consumer] \notin {"emptySlot", "release"}
            BY <1>1, <1>4, <2>3 DEF Pop, Pop_w_cb, SizeTooLarge, PopBegin, PopLoadHead,
                PopLoadSlot, PopRelease, ConsumerRestart, Goto, Return, Threads
        <3> QED
            BY <3>1
    <2> QED
        BY <2>1, <2>2, <2>3
<1> QED
    BY <1>2, <1>3, <1>4 DEF Next

LEMMA HandInvariance == Spec => []InHand
<1>1. Init => InHand
    BY DEF Init, InHand, Threads
<1> QED
    BY <1>1, InHandNext, Invariance, PTL DEF Spec

\* The objects of the claimed positions, written or not.
Held == HeldOf(Producers, ObjNum, pc, curr_head, val, buffer)
First == tail + Taken
Length == head - tail - Taken

QueueView ==
    /\ absQueue = QueueOf(Held, First, Length)
    /\ Held \in [Int -> Objects] /\ First \in Int /\ Length \in Nat
    /\ Taken \in {0, 1} /\ tail \in Nat /\ head \in Nat /\ head - tail <= ObjNum
    /\ \A p \in Producers : pc[p] = "copy" =>
           curr_head[p] \in tail .. head - 1 /\ Held[curr_head[p]] = val[p]
    /\ \A k \in Int : (\A p \in Producers : pc[p] = "copy" => curr_head[p] # k)
           => Held[k] = buffer[Idx(k)]

LEMMA QueueFacts == IInv => QueueView
<1> SUFFICES ASSUME IInv PROVE QueueView
    OBVIOUS
<1>1. /\ tail \in Nat /\ head \in Nat /\ tail <= head /\ head - tail <= ObjNum
      /\ buffer \in [0 .. ObjNum - 1 -> Objects] /\ \A p \in Producers : val[p] \in Objects
      /\ ObjNum \in Nat /\ ObjNum >= 1
    BY ObjNumAssumption, MaxPosAssumption DEF IInv, TypeOK, NeverOverrun, Threads, Cells
<1>2. Taken \in {0, 1} /\ First \in Int /\ Length \in Nat
    BY <1>1 DEF Taken, First, Length, IInv, ConsumerKnows, Reading
<1>3. \A p, q \in Producers :
          pc[p] = "copy" /\ pc[q] = "copy" /\ curr_head[p] = curr_head[q] => p = q
    BY DEF IInv, OnePositionEach, Writing
<1>4. \A p \in Producers : pc[p] = "copy" => curr_head[p] \in tail .. head - 1
    BY DEF IInv, WritersOwn, Writing
<1>5. /\ Held \in [Int -> Objects]
      /\ \A p \in Producers : pc[p] = "copy" /\ curr_head[p] \in Int => Held[curr_head[p]] = val[p]
      /\ \A k \in Int : (\A p \in Producers : pc[p] = "copy" => curr_head[p] # k)
             => Held[k] = buffer[k % ObjNum]
    <2>1. HeldInputs(Objects, Producers, ObjNum, pc, curr_head, val, buffer)
        BY <1>1, <1>3 DEF HeldInputs
    <2>2. HeldResult(Objects, Producers, ObjNum, pc, curr_head, val, buffer, Held)
        BY <2>1, HeldFacts DEF Held
    <2> QED
        BY <2>2 DEF HeldResult
<1>6. \A p \in Producers : pc[p] = "copy" => curr_head[p] \in Int
    BY <1>1, <1>4
<1>7. absQueue = QueueOf(Held, First, Length)
    <2>1. \A i \in 1 .. Length : First + i - 1 \in Int
        BY <1>2
    <2>2. \A k \in Int : Held[k] = ObjectAt(k)
        BY DEF Held, HeldOf, ObjectAt, Unwritten, Idx
    <2> QED
        BY <2>1, <2>2 DEF absQueue, QueueOf, First, Length
<1> QED
    BY <1>1, <1>2, <1>4, <1>5, <1>6, <1>7 DEF Idx, QueueView

LEMMA QueueFactsNext == IInv' => QueueView'
BY QueueFacts, PTL

\* The indices move with the queue; nothing is left to the order of the copies.
LEMMA KeepsObjects ==
    ASSUME IInv, IInv', buffer' = buffer,
           \A p \in Producers : pc[p] = "copy" =>
               pc'[p] = "copy" /\ curr_head'[p] = curr_head[p] /\ val'[p] = val[p],
           \A p \in Producers : pc'[p] = "copy" /\ pc[p] # "copy" => curr_head'[p] >= head
    PROVE  \A k \in Int : k < head => Held'[k] = Held[k]
<1> SUFFICES ASSUME NEW k \in Int, k < head PROVE Held'[k] = Held[k]
    OBVIOUS
<1>1. QueueView /\ QueueView'
    BY QueueFacts, QueueFactsNext
<1>2. CASE \E p \in Producers : pc[p] = "copy" /\ curr_head[p] = k
    <2>1. PICK p \in Producers : pc[p] = "copy" /\ curr_head[p] = k
        BY <1>2
    <2>2. Held[k] = val[p]
        BY <1>1, <2>1 DEF QueueView
    <2>3. Held'[k] = val'[p]
        BY <1>1, <2>1 DEF QueueView
    <2> QED
        BY <2>1, <2>2, <2>3
<1>3. CASE \A p \in Producers : pc[p] = "copy" => curr_head[p] # k
    <2>1. \A p \in Producers : pc'[p] = "copy" => curr_head'[p] # k
        BY <1>1, <1>3 DEF QueueView
    <2>2. Held'[k] = buffer'[Idx(k)']
        BY <1>1, <2>1 DEF QueueView
    <2>3. Held[k] = buffer[Idx(k)]
        BY <1>1, <1>3 DEF QueueView
    <2> QED
        BY <2>2, <2>3 DEF Idx
<1> QED
    BY <1>2, <1>3

LEMMA CopyKeepsObjects ==
    ASSUME IInv, IInv', NEW p \in Producers, PushCopy(p)
    PROVE  \A k \in tail .. head - 1 : Held'[k] = Held[k]
<1> SUFFICES ASSUME NEW k \in tail .. head - 1 PROVE Held'[k] = Held[k]
    OBVIOUS
<1>1. QueueView /\ QueueView'
    BY QueueFacts, QueueFactsNext
<1>2. /\ pc[p] = "copy" /\ pc' = [pc EXCEPT ![p] = "publish"]
      /\ curr_head' = curr_head /\ val' = val
      /\ buffer' = [buffer EXCEPT ![Idx(curr_head[p])] = val[p]]
    BY DEF PushCopy, Goto, Cell
<1>3. /\ \A q \in Producers : pc[q] = "copy" /\ curr_head[q] = curr_head[p] => q = p
      /\ \A q \in Producers : pc'[q] = "copy" <=> pc[q] = "copy" /\ q # p
      /\ buffer \in [Cells -> Objects]
    BY <1>2 DEF IInv, OnePositionEach, Writing, TypeOK, Threads
<1>4. /\ tail \in Nat /\ head \in Nat /\ head - tail <= ObjNum /\ k \in Int
      /\ curr_head[p] \in tail .. head - 1 /\ curr_head[p] \in Int
    BY <1>1, <1>2 DEF QueueView
<1>5. Idx(k) \in Cells /\ Idx(curr_head[p]) \in Cells
    BY <1>4, IdxFacts
<1>6. CASE k = curr_head[p]
    <2>1. Held'[k] = buffer'[Idx(k)']
        BY <1>1, <1>2, <1>3, <1>4, <1>6 DEF QueueView
    <2>2. Held[k] = val[p]
        BY <1>1, <1>2, <1>6 DEF QueueView
    <2> QED
        BY <1>2, <1>3, <1>5, <1>6, <2>1, <2>2 DEF Idx
<1>7. CASE k # curr_head[p]
    <2>1. k - curr_head[p] < ObjNum /\ curr_head[p] - k < ObjNum
        BY <1>4, ObjNumAssumption
    <2>2. buffer'[Idx(k)'] = buffer[Idx(k)]
        <3>1. Idx(k) # Idx(curr_head[p])
            BY <1>4, <1>7, <2>1, IdxFacts
        <3> QED
            BY <1>2, <1>3, <1>5, <3>1 DEF Idx
    <2>3. CASE \E q \in Producers : pc[q] = "copy" /\ curr_head[q] = k
        <3>1. PICK q \in Producers : pc[q] = "copy" /\ curr_head[q] = k
            BY <2>3
        <3>2. Held[k] = val[q] /\ Held'[k] = val'[q]
            BY <1>1, <1>2, <1>3, <1>7, <3>1 DEF QueueView
        <3> QED
            BY <1>2, <3>2
    <2>4. CASE \A q \in Producers : pc[q] = "copy" => curr_head[q] # k
        <3>1. Held[k] = buffer[Idx(k)] /\ Held'[k] = buffer'[Idx(k)']
            BY <1>1, <1>2, <1>3, <1>4, <2>4 DEF QueueView
        <3> QED
            BY <2>2, <3>1
    <2> QED
        BY <2>3, <2>4
<1> QED
    BY <1>6, <1>7

\* What follows for the queue if the objects of First .. head - 1 are kept.
LEMMA QueueMoves ==
    ASSUME IInv, IInv', \A k \in First .. head - 1 : Held'[k] = Held[k]
    PROVE  /\ Len(absQueue) = Length
           /\ First' = First /\ Length' = Length => absQueue' = absQueue
           /\ First' = First /\ Length' = Length + 1 =>
                  absQueue' = Append(absQueue, Held'[head])
           /\ First' = First - 1 /\ Length' = Length + 1 =>
                  absQueue' = <<Held'[First - 1]>> \o absQueue
           /\ First' = First + 1 /\ Length' = Length - 1 =>
                  absQueue # << >> /\ Head(absQueue) = Held[First] /\ absQueue' = Tail(absQueue)
<1>1. QueueView /\ QueueView'
    BY QueueFacts, QueueFactsNext
<1>2. /\ Held \in [Int -> Objects] /\ Held' \in [Int -> Objects]
      /\ First \in Int /\ Length \in Nat /\ Length' \in Nat
      /\ absQueue = QueueOf(Held, First, Length)
      /\ absQueue' = QueueOf(Held', First', Length')
    BY <1>1 DEF QueueView, QueueOf
<1>3. First + Length = head
    BY <1>1 DEF QueueView, First, Length
<1>4. \A k \in First .. First + Length - 1 : Held'[k] = Held[k]
    <2>1. First + Length - 1 = head - 1
        BY <1>2, <1>3
    <2> QED
        BY <2>1
<1>5. QueueKept(Objects, Held, Held', First, Length)
    BY <1>2, <1>4 DEF QueueKept
<1>6. QueueResult(Held, Held', First, Length)
    BY <1>5, QueueSteps
<1>7. First' = First + 1 /\ Length' = Length - 1 => Length > 0
    BY <1>2
<1> QED
    BY <1>2, <1>3, <1>6, <1>7 DEF QueueResult

\* A push enters the queue at its compare-and-swap.
LEMMA CasEnqueues ==
    ASSUME IInv, IInv', NEW p \in Producers, PushCas(p), head = curr_head[p], pc'[p] = "copy"
    PROVE  Fifo!Enqueue(val[p])
<1> USE ThreadAssumption, ObjNumAssumption
<1>1. QueueView /\ QueueView'
    BY QueueFacts, QueueFactsNext
<1>2. /\ pc[p] = "cas" /\ pc' = [pc EXCEPT ![p] = "copy"] /\ head' = head + 1
      /\ UNCHANGED <<tail, buffer, curr_head, val>>
    BY DEF PushCas, CasFails, Goto, Return, IInv, TypeOK, Threads
<1>3. /\ pc \in [Threads -> PushPc \cup PopPc] /\ p # Consumer
      /\ Consumer \in Threads /\ p \in Threads
    BY DEF IInv, TypeOK, Threads
<1>4. Taken' = Taken
    BY <1>2, <1>3 DEF Taken
<1>5. First' = First /\ Length' = Length + 1
    BY <1>1, <1>2, <1>4 DEF First, Length, QueueView
<1>6. \A q \in Producers : q \in Threads /\ (pc'[q] = "copy" <=> pc[q] = "copy" \/ q = p)
    BY <1>2, <1>3 DEF Threads
<1>7. \A k \in Int : k < head => Held'[k] = Held[k]
    <2>1. \A q \in Producers : pc'[q] = "copy" /\ pc[q] # "copy" => curr_head'[q] >= head
        BY <1>1, <1>2, <1>6 DEF QueueView
    <2>2. \A q \in Producers : pc[q] = "copy" =>
              pc'[q] = "copy" /\ curr_head'[q] = curr_head[q] /\ val'[q] = val[q]
        BY <1>2, <1>6
    <2> QED
        BY <1>2, <2>1, <2>2, KeepsObjects
<1>8. \A k \in First .. head - 1 : Held'[k] = Held[k]
    BY <1>1, <1>7 DEF QueueView
<1>9. Held'[head] = val[p]
    BY <1>1, <1>2, <1>6 DEF QueueView
<1>10. absQueue' = Append(absQueue, val[p]) /\ Len(absQueue) = Length
    BY <1>5, <1>8, <1>9, QueueMoves
<1>11. Length < ObjNum
    BY <1>1, <1>2 DEF Length, QueueView, IInv, StillTrueAtCas
<1> QED
    BY <1>2, <1>10, <1>11 DEF Fifo!Enqueue

\* A pop takes the first object of the queue when it copies it from its cell.
LEMMA ReadDequeues ==
    ASSUME IInv, IInv', PopRead
    PROVE  Fifo!Dequeue(Consumer)
<1> USE ThreadAssumption, ObjNumAssumption
<1>1. QueueView /\ QueueView'
    BY QueueFacts, QueueFactsNext
<1>2. /\ pc[Consumer] = "read" /\ pc' = [pc EXCEPT ![Consumer] = "emptySlot"]
      /\ val' = [val EXCEPT ![Consumer] = buffer[Idx(tail)]]
      /\ UNCHANGED <<head, tail, buffer, curr_head>>
    BY DEF PopRead, Goto
<1>3. /\ pc \in [Threads -> PushPc \cup PopPc] /\ val \in [Threads -> Objects]
      /\ Consumer \in Threads /\ \A q \in Producers : q \in Threads /\ q # Consumer
    BY DEF IInv, TypeOK, Threads
<1>4. Taken = 0 /\ Taken' = 1
    BY <1>2, <1>3 DEF Taken
<1>5. First = tail /\ First' = First + 1 /\ Length' = Length - 1
    BY <1>1, <1>2, <1>4 DEF First, Length, QueueView
<1>6. \A q \in Producers : pc'[q] = pc[q] /\ val'[q] = val[q]
    BY <1>2, <1>3
<1>7. \A k \in Int : k < head => Held'[k] = Held[k]
    BY <1>2, <1>6, KeepsObjects
<1>8. \A k \in First .. head - 1 : Held'[k] = Held[k]
    BY <1>1, <1>7 DEF QueueView
<1>9. Held[First] = buffer[Idx(tail)]
    <2>1. \A q \in Producers : pc[q] = "copy" => curr_head[q] # tail
        BY <1>2, IInvPublished DEF PopsArePublished, Writing
    <2> QED
        BY <1>1, <1>5, <2>1 DEF QueueView
<1>10. absQueue # << >> /\ Head(absQueue) = buffer[Idx(tail)] /\ absQueue' = Tail(absQueue)
    BY <1>5, <1>8, <1>9, QueueMoves
<1>11. [c \in {Consumer} |-> val'[c]]
           = [[c \in {Consumer} |-> val[c]] EXCEPT ![Consumer] = Head(absQueue)]
    BY <1>2, <1>3, <1>10
<1> QED
    BY <1>10, <1>11 DEF Fifo!Dequeue

\* A consumer that ends with an object in hand leaves it at the head of the queue.
LEMMA RestartPutsBack ==
    ASSUME IInv, IInv', InHand, ConsumerRestart, Taken = 1
    PROVE  consumerEnds # "never" /\ PutBack
<1> USE ThreadAssumption, ObjNumAssumption
<1>1. QueueView /\ QueueView'
    BY QueueFacts, QueueFactsNext
<1>2. /\ consumerEnds # "never" /\ pc' = [pc EXCEPT ![Consumer] = "idle"]
      /\ UNCHANGED <<head, tail, buffer, curr_head, val>>
      /\ pc[Consumer] \in {"emptySlot", "release"}
    BY DEF ConsumerRestart, Taken
<1>3. /\ pc \in [Threads -> PushPc \cup PopPc]
      /\ Consumer \in Threads /\ \A q \in Producers : q \in Threads /\ q # Consumer
    BY DEF IInv, TypeOK, Threads
<1>4. Taken' = 0
    BY <1>2, <1>3 DEF Taken
<1>5. First - 1 = tail /\ First' = First - 1 /\ Length' = Length + 1
    BY <1>1, <1>2, <1>4 DEF First, Length, QueueView
<1>6. \A q \in Producers : pc'[q] = pc[q]
    BY <1>2, <1>3
<1>7. \A k \in Int : k < head => Held'[k] = Held[k]
    BY <1>2, <1>6, KeepsObjects
<1>8. \A k \in First .. head - 1 : Held'[k] = Held[k]
    BY <1>1, <1>7 DEF QueueView
<1>9. Held'[First - 1] = val[Consumer]
    <2>1. \A q \in Producers : pc[q] = "copy" => curr_head[q] # tail
        BY <1>2 DEF IInv, ConsumerKnows, WritersOwn, Writing
    <2>2. Held[tail] = buffer[Idx(tail)]
        BY <1>1, <2>1 DEF QueueView
    <2>3. tail < head /\ tail \in Int
        BY <1>1, <1>2 DEF IInv, ConsumerKnows, Reading, QueueView
    <2> QED
        BY <1>2, <1>5, <1>7, <2>2, <2>3 DEF InHand
<1> QED
    BY <1>2, <1>5, <1>8, <1>9, QueueMoves DEF PutBack

\* The other steps change neither the queue nor what the consumer was given.
LEMMA QuietStutters ==
    ASSUME IInv, IInv', First' = First, head' = head,
           val'[Consumer] = val[Consumer],
           \A k \in tail .. head - 1 : Held'[k] = Held[k]
    PROVE  UNCHANGED Fifo!fifoVars
<1>1. QueueView /\ QueueView'
    BY QueueFacts, QueueFactsNext
<1>2. \A k \in First .. head - 1 : Held'[k] = Held[k]
    BY <1>1 DEF QueueView, First
<1>3. Length' = Length
    <2>1. /\ tail \in Int /\ tail' \in Int /\ Taken \in Int /\ Taken' \in Int
          /\ head \in Int /\ head' = head
        BY <1>1 DEF QueueView
    <2>2. tail' + Taken' = tail + Taken
        BY DEF First
    <2>3. head - tail - Taken = head - (tail + Taken)
        BY <2>1
    <2>4. head - tail' - Taken' = head - (tail' + Taken')
        BY <2>1
    <2>5. head' - tail' - Taken' = head - tail - Taken
        BY <2>1, <2>2, <2>3, <2>4
    <2> QED
        BY <2>5 DEF Length
<1>4. absQueue' = absQueue
    BY <1>2, <1>3, QueueMoves
<1>5. [c \in {Consumer} |-> val'[c]] = [c \in {Consumer} |-> val[c]]
    OBVIOUS
<1> QED
    BY <1>4, <1>5 DEF Fifo!fifoVars

LEMMA PushRefines ==
    ASSUME IInv, IInv', NEW p \in Producers, Push(p)
    PROVE  [Fifo!FifoNext]_(Fifo!fifoVars)
<1> USE ThreadAssumption
<1>1. QueueView /\ QueueView'
    BY QueueFacts, QueueFactsNext
<1>2. /\ pc \in [Threads -> PushPc \cup PopPc] /\ val \in [Threads -> Objects]
      /\ curr_head \in [Producers -> Nat]
      /\ p \in Threads /\ p # Consumer /\ Consumer \in Threads
      /\ \A q \in Producers : q \in Threads
    BY DEF IInv, TypeOK, Threads
<1>3. CASE PushCas(p) /\ head = curr_head[p] /\ pc'[p] = "copy"
    <2>1. val[p] \in Values
        BY <1>3 DEF PushCas, IInv, TypeOK
    <2> QED
        BY <1>3, <2>1, CasEnqueues DEF Fifo!FifoNext
<1>4. ASSUME ~ (PushCas(p) /\ head = curr_head[p] /\ pc'[p] = "copy")
      PROVE  UNCHANGED Fifo!fifoVars
    <2>1. /\ tail' = tail /\ head' = head
          /\ pc[p] # "copy" => buffer' = buffer /\ pc'[p] # "copy"
          /\ pc[p] = "copy" => PushCopy(p)
        BY <1>2, <1>4 DEF Push, PushStep, SizeTooLarge, PushLoadHead, PushLoadTail, PushCas,
                          CasFails, PushCopy, PushPublish, Goto, Return
    <2>2. /\ \E l : pc' = [pc EXCEPT ![p] = l]
          /\ val' = val \/ \E v : val' = [val EXCEPT ![p] = v]
          /\ curr_head' = curr_head \/ \E e : curr_head' = [curr_head EXCEPT ![p] = e]
        BY DEF Push, PushStep, SizeTooLarge, PushLoadHead, PushLoadTail, PushCas,
               PushCopy, PushPublish, Goto, Return
    <2>3. /\ pc'[Consumer] = pc[Consumer] /\ val'[Consumer] = val[Consumer]
          /\ \A q \in Producers : q # p =>
                 pc'[q] = pc[q] /\ val'[q] = val[q] /\ curr_head'[q] = curr_head[q]
        BY <1>2, <2>2
    <2>4. First' = First
        BY <2>1, <2>3 DEF First, Taken
    <2>5. \A k \in tail .. head - 1 : Held'[k] = Held[k]
        <3>1. CASE pc[p] = "copy"
            BY <2>1, <3>1, CopyKeepsObjects
        <3>2. CASE pc[p] # "copy"
            <4>1. \A k \in Int : k < head => Held'[k] = Held[k]
                BY <2>1, <2>3, <3>2, KeepsObjects
            <4> QED
                BY <1>1, <4>1 DEF QueueView
        <3> QED
            BY <3>1, <3>2
    <2> QED
        BY <2>1, <2>3, <2>4, <2>5, QuietStutters
<1> QED
    BY <1>3, <1>4

LEMMA PopRefines ==
    ASSUME IInv, IInv', InHand, Pop \/ ConsumerRestart
    PROVE  [Fifo!FifoNext \/ (consumerEnds # "never" /\ PutBack)]_(Fifo!fifoVars)
<1> USE ThreadAssumption
<1>1. QueueView /\ QueueView'
    BY QueueFacts, QueueFactsNext
<1>2. /\ pc \in [Threads -> PushPc \cup PopPc] /\ Consumer \in Threads
      /\ \A q \in Producers : q \in Threads /\ q # Consumer
    BY DEF IInv, TypeOK, Threads
<1>3. CASE PopRead
    BY <1>3, ReadDequeues DEF Fifo!FifoNext
<1>4. CASE ConsumerRestart /\ Taken = 1
    BY <1>4, RestartPutsBack
<1>5. ASSUME ~ PopRead, ~ (ConsumerRestart /\ Taken = 1)
      PROVE  UNCHANGED Fifo!fifoVars
    <2>1. UNCHANGED <<head, buffer, curr_head, val>>
        BY <1>5 DEF Pop, Pop_w_cb, SizeTooLarge, PopBegin, PopLoadHead, PopLoadSlot,
                    PopEmptySlot, PopRelease, ConsumerRestart
    <2>2. \E l : pc' = [pc EXCEPT ![Consumer] = l]
        BY <1>5 DEF Pop, Pop_w_cb, SizeTooLarge, PopBegin, PopLoadHead, PopLoadSlot,
                    PopEmptySlot, PopRelease, ConsumerRestart, Goto, Return
    <2>3. \A q \in Producers : pc'[q] = pc[q]
        BY <1>2, <2>2
    <2>4. First' = First
        <3>1. CASE PopRelease
            <4>1. pc[Consumer] = "release" /\ pc'[Consumer] = "idle" /\ tail' = tail + 1
                BY <1>2, <3>1 DEF PopRelease, Return
            <4>2. Taken = 1 /\ Taken' = 0
                BY <4>1 DEF Taken
            <4> QED
                BY <1>1, <4>1, <4>2 DEF First, QueueView
        <3>2. CASE PopEmptySlot
            <4>1. pc[Consumer] = "emptySlot" /\ pc'[Consumer] = "release" /\ tail' = tail
                BY <1>2, <3>2 DEF PopEmptySlot, Goto
            <4> QED
                BY <4>1 DEF First, Taken
        <3>3. CASE ~ PopRelease /\ ~ PopEmptySlot
            <4>1. /\ tail' = tail
                  /\ pc'[Consumer] \notin {"emptySlot", "release"}
                BY <1>2, <1>5, <3>3 DEF Pop, Pop_w_cb, SizeTooLarge, PopBegin, PopLoadHead,
                    PopLoadSlot, ConsumerRestart, Goto, Return
            <4>2. ConsumerRestart \/ pc[Consumer] \notin {"emptySlot", "release"}
                BY <1>5, <3>3 DEF Pop, Pop_w_cb, SizeTooLarge, PopBegin, PopLoadHead,
                    PopLoadSlot
            <4>3. Taken = 0
                BY <1>5, <4>2 DEF Taken
            <4> QED
                BY <4>1, <4>3 DEF First, Taken
        <3> QED
            BY <3>1, <3>2, <3>3
    <2>5. \A k \in tail .. head - 1 : Held'[k] = Held[k]
        <3>1. \A k \in Int : k < head => Held'[k] = Held[k]
            BY <2>1, <2>3, KeepsObjects
        <3> QED
            BY <1>1, <3>1 DEF QueueView
    <2> QED
        BY <2>1, <2>4, <2>5, QuietStutters
<1> QED
    BY <1>3, <1>4, <1>5

LEMMA StepRefines ==
    ASSUME IInv, IInv', InHand, [Next]_vars
    PROVE  [Fifo!FifoNext \/ (consumerEnds # "never" /\ PutBack)]_(Fifo!fifoVars)
<1>1. CASE UNCHANGED vars
    <2>1. absQueue' = absQueue /\ [c \in {Consumer} |-> val'[c]] = [c \in {Consumer} |-> val[c]]
        BY <1>1 DEF vars, absQueue, Taken, ObjectAt, Unwritten, Idx
    <2> QED
        BY <2>1 DEF Fifo!fifoVars
<1> QED
    BY <1>1, PushRefines, PopRefines DEF Next

LEMMA InitRefines == ASSUME Init PROVE Fifo!FifoInit
<1>1. absQueue = << >>
    BY DEF Init, absQueue, Taken, Threads
<1>2. [c \in {Consumer} |-> val[c]] = [c \in {Consumer} |-> Junk]
    BY DEF Init, Threads
<1> QED
    BY <1>1, <1>2 DEF Fifo!FifoInit

\* The MPSC ring is a bounded FIFO queue: pushes take effect in the order of their
\* compare-and-swaps, whatever the order in which producers finish their copies;
\* and a consumer that ends within a pop puts back at most the object in its hand.
THEOREM Refinement == Spec => ImplementsFifo
<1>1. Init => Fifo!FifoInit
    BY InitRefines
<1>2. IInv /\ IInv' /\ InHand /\ [Next]_vars =>
          [Fifo!FifoNext \/ (consumerEnds # "never" /\ PutBack)]_(Fifo!fifoVars)
    BY StepRefines
<1> QED
    BY <1>1, <1>2, Invariance, HandInvariance, PTL DEF Spec, ImplementsFifo
=============================================================================
