----------------------------- MODULE MpmcProofs -----------------------------
(***************************************************************************)
(* Machine-checked proofs about module Mpmc, for every number of threads,  *)
(* every ring size and every bound on the positions.  IInv is inductive;   *)
(* exclusive ownership of cells, the bound on the ring's content and the   *)
(* honesty of the error codes follow from it.                              *)
(***************************************************************************)
EXTENDS MpmcCorrect, RingIndex

LEMMA IdxFacts ==
    /\ \A k \in Int : Idx(k) \in Cells
    /\ \A k \in Int : Idx(k + ObjNum) = Idx(k)
    /\ \A j, k \in Int :
          Idx(j) = Idx(k) /\ j - k < ObjNum /\ k - j < ObjNum => j = k
    /\ \A i \in Cells : Idx(i) = i
<1>1. ObjNum \in Nat /\ ObjNum >= 1
    BY ObjNumAssumption
<1>2. ASSUME NEW k \in Int PROVE Idx(k) \in Cells
    BY <1>1, DivisionWithRemainder DEF Idx, Cells
<1>3. ASSUME NEW k \in Int PROVE Idx(k + ObjNum) = Idx(k)
    BY <1>1, SameCellNextLap DEF Idx
<1>4. ASSUME NEW j \in Int, NEW k \in Int,
             Idx(j) = Idx(k), j - k < ObjNum, k - j < ObjNum
      PROVE  j = k
    BY <1>1, <1>4, SameCellSamePosition DEF Idx
<1>5. ASSUME NEW i \in Cells PROVE Idx(i) = i
    BY <1>1 DEF Idx, Cells
<1> QED
    BY <1>2, <1>3, <1>4, <1>5

-----------------------------------------------------------------------------
(* The invariant holds initially. *)

LEMMA InitIInv == Init => IInv
<1> SUFFICES ASSUME Init PROVE IInv
    OBVIOUS
<1> USE ObjNumAssumption, MaxPosAssumption DEF Init, FirstSlots
<1>1. TypeOK
    BY DEF TypeOK, Threads, Cells, Objects, PushPc, PopPc, ResultCodes
<1>2. SlotStates
    <2> SUFFICES ASSUME NEW k \in -ObjNum .. -1
                 PROVE  slot[Idx(k)] = k + ObjNum
        BY DEF SlotStates
    <2>1. k \in Int /\ k + ObjNum \in Cells
        BY DEF Cells
    <2>2. Idx(k) = k + ObjNum
        BY <2>1, IdxFacts
    <2> QED
        BY <2>1, <2>2
<1>3. NeverOverrun /\ WritersOwn /\ ReadersOwn /\ OnePositionEach /\ StillTrueAtCas
    BY DEF NeverOverrun, WritersOwn, ReadersOwn, OnePositionEach,
           StillTrueAtCas, Writing, Reading, Threads
<1> QED
    BY <1>1, <1>2, <1>3 DEF IInv

\* Of the positions from one lap before head up to head, only the first and the
\* last share a cell.
LEMMA OneLapApart ==
    ASSUME TypeOK, NEW h \in head - ObjNum .. head, NEW k \in head - ObjNum .. head,
           Idx(k) = Idx(h), k # h, h # head
    PROVE  h = head - ObjNum /\ k = head
<1>1. head \in Nat /\ ObjNum \in Nat /\ h \in Int /\ k \in Int
    BY ObjNumAssumption, MaxPosAssumption DEF TypeOK
<1>2. ~ (h - k < ObjNum /\ k - h < ObjNum)
    BY <1>1, IdxFacts
<1> QED
    BY <1>1, <1>2

-----------------------------------------------------------------------------
(* The invariant is kept by every step: one lemma per action. *)

LEMMA SizeTooLargeIInv ==
    ASSUME IInv, NEW t \in Threads, SizeTooLarge(t)
    PROVE  IInv'
<1> USE DEF IInv, SizeTooLarge, Return, TypeOK, Threads
<1>1. TypeOK'
    BY DEF PushPc, PopPc, ResultCodes
<1>2. pc' = pc /\ UNCHANGED <<head, tail, slot, expected>>
    OBVIOUS
<1>3. (NeverOverrun /\ SlotStates /\ WritersOwn /\ ReadersOwn /\ OnePositionEach)'
    BY <1>2 DEF NeverOverrun, SlotStates, WritersOwn, ReadersOwn,
                OnePositionEach, Writing, Reading
<1>4. StillTrueAtCas'
    BY <1>2 DEF StillTrueAtCas
<1> QED
    BY <1>1, <1>3, <1>4

LEMMA PushLoadHeadIInv ==
    ASSUME IInv, NEW p \in Producers, PushLoadHead(p)
    PROVE  IInv'
<1> USE ThreadAssumption, MaxPosAssumption
    DEF IInv, PushLoadHead, TypeOK, Threads, ring
<1>1. TypeOK'
    BY DEF Objects, PushPc, PopPc, ResultCodes
<1>2. NeverOverrun' /\ SlotStates' /\ WritersOwn' /\ ReadersOwn' /\ OnePositionEach'
    BY DEF NeverOverrun, SlotStates, WritersOwn, ReadersOwn, OnePositionEach,
           Writing, Reading
<1>3. StillTrueAtCas'
    BY DEF StillTrueAtCas
<1> QED
    BY <1>1, <1>2, <1>3

LEMMA PushLoadSlotIInv ==
    ASSUME IInv, NEW p \in Producers, PushLoadSlot(p)
    PROVE  IInv'
<1> USE ThreadAssumption DEF IInv, PushLoadSlot, SlotBehind, TypeOK, Threads, Goto, Return
<1>0. /\ UNCHANGED <<head, tail, slot, buffer, expected, val>>
      /\ pc[p] = "loadSlot"
      /\ \/ /\ pc' = [pc EXCEPT ![p] = "idle"]
            /\ rc' \in [Threads -> ResultCodes]
         \/ /\ pc' = [pc EXCEPT ![p] = "cas"]
            /\ slot[Idx(expected[p])] = expected[p]
            /\ rc' = rc
    <2>1. expected[p] \in Nat /\ slot[Idx(expected[p])] \in Nat
        BY IdxFacts
    <2> QED
        BY <2>1 DEF ResultCodes
<1> HIDE DEF PushLoadSlot
<1>1. TypeOK'
    BY <1>0 DEF PushPc, PopPc
<1>2. NeverOverrun' /\ SlotStates' /\ WritersOwn' /\ ReadersOwn' /\ OnePositionEach'
    BY <1>0 DEF NeverOverrun, SlotStates, WritersOwn, ReadersOwn,
                OnePositionEach, Writing, Reading
<1>3. StillTrueAtCas'
    BY <1>0 DEF StillTrueAtCas
<1> QED
    BY <1>1, <1>2, <1>3

LEMMA PushCasIInv ==
    ASSUME IInv, NEW p \in Producers, PushCas(p)
    PROVE  IInv'
<1> USE ObjNumAssumption, MaxPosAssumption, ThreadAssumption
    DEF IInv, TypeOK, Threads, Goto, Return
<1>1. CASE head # expected[p]
    <2>0. /\ UNCHANGED <<head, tail, slot, buffer, expected, val>>
          /\ pc[p] = "cas"
          /\ pc' = [pc EXCEPT ![p] = "idle"]
          /\ rc' \in [Threads -> ResultCodes]
        BY <1>1 DEF PushCas, PushWins, ResultCodes
    <2>1. TypeOK'
        BY <2>0 DEF PushPc, PopPc
    <2>2. NeverOverrun' /\ SlotStates' /\ WritersOwn' /\ ReadersOwn' /\ OnePositionEach'
        BY <2>0 DEF NeverOverrun, SlotStates, WritersOwn, ReadersOwn,
                    OnePositionEach, Writing, Reading
    <2>3. StillTrueAtCas'
        BY <2>0 DEF StillTrueAtCas
    <2> QED
        BY <2>1, <2>2, <2>3
<1>2. CASE head = expected[p]
    <2>0. /\ UNCHANGED <<tail, slot, buffer, expected, val, rc>>
          /\ pc[p] = "cas"
          /\ pc' = [pc EXCEPT ![p] = "copy"]
          /\ head' = head + 1
          /\ expected[p] = head /\ head \in Nat /\ tail \in Nat
        BY <1>2 DEF PushCas, PushWins
    <2>1. slot[Idx(head)] = head /\ head < MaxPos
        BY <2>0 DEF StillTrueAtCas
    \* The cell of head is the cell of head - ObjNum, which has been popped.
    <2>2. Idx(head - ObjNum) = Idx(head)
        <3>1. head - ObjNum \in Int /\ (head - ObjNum) + ObjNum = head
            BY <2>0
        <3> QED
            BY <3>1, IdxFacts
    <2>3. head - ObjNum < tail
        BY <2>0, <2>1, <2>2 DEF SlotStates
    <2>4. TypeOK'
        BY <2>0, <2>1 DEF PushPc, PopPc
    <2>5. NeverOverrun'
        BY <2>0, <2>3 DEF NeverOverrun
    <2>6. SlotStates'
        <3> SUFFICES ASSUME NEW k \in (head + 1) - ObjNum .. head
                     PROVE  \/ /\ slot[Idx(k)] = k
                               /\ tail <= k
                               /\ \E q \in Producers : Writing(q)' /\ expected[q] = k
                            \/ /\ slot[Idx(k)] = k + 1
                               /\ tail <= k
                            \/ /\ slot[Idx(k)] = k + 1
                               /\ k < tail
                               /\ \E c \in Consumers : Reading(c)' /\ expected[c] = k
                            \/ /\ slot[Idx(k)] = k + ObjNum
                               /\ k < tail
            BY <2>0 DEF SlotStates
        <3>1. CASE k = head
            BY <2>0, <2>1, <3>1 DEF NeverOverrun, Writing
        <3>2. CASE k # head
            <4>1. k \in head - ObjNum .. head - 1
                BY <2>0, <3>2
            <4>2. \A q \in Producers : Writing(q) => Writing(q)'
                BY <2>0 DEF Writing
            <4>3. \A c \in Consumers : Reading(c) => Reading(c)'
                BY <2>0 DEF Reading
            <4> QED
                BY <4>1, <4>2, <4>3 DEF SlotStates
        <3> QED
            BY <3>1, <3>2
    <2>7. WritersOwn'
        BY <2>0, <2>1, <2>3 DEF WritersOwn, NeverOverrun, Writing
    <2>8. ReadersOwn'
        BY <2>0, <2>1, <2>2 DEF ReadersOwn, Reading
    <2>9. OnePositionEach'
        BY <2>0 DEF OnePositionEach, WritersOwn, Writing, Reading
    <2>10. StillTrueAtCas'
        BY <2>0 DEF StillTrueAtCas
    <2> QED
        BY <2>4, <2>5, <2>6, <2>7, <2>8, <2>9, <2>10
<1> QED
    BY <1>1, <1>2

LEMMA PushCopyIInv ==
    ASSUME IInv, NEW p \in Producers, PushCopy(p)
    PROVE  IInv'
<1> USE ThreadAssumption DEF IInv, PushCopy, CellOf, TypeOK, Threads, Goto
<1>1. TypeOK'
    BY IdxFacts DEF PushPc, PopPc, Objects
<1>2. NeverOverrun' /\ WritersOwn' /\ ReadersOwn' /\ OnePositionEach'
    BY DEF NeverOverrun, WritersOwn, ReadersOwn, OnePositionEach, Writing, Reading
<1>3. SlotStates'
    <2>1. \A q \in Producers : Writing(q) => Writing(q)'
        BY DEF Writing
    <2>2. \A c \in Consumers : Reading(c) => Reading(c)'
        BY DEF Reading
    <2> QED
        BY <2>1, <2>2 DEF SlotStates
<1>4. StillTrueAtCas'
    BY DEF StillTrueAtCas
<1> QED
    BY <1>1, <1>2, <1>3, <1>4

LEMMA PushPublishIInv ==
    ASSUME IInv, NEW p \in Producers, PushPublish(p)
    PROVE  IInv'
<1> DEFINE h == expected[p]
<1> USE ObjNumAssumption, ThreadAssumption DEF IInv, TypeOK, Threads
<1>0. /\ UNCHANGED <<head, tail, buffer, expected, val>>
      /\ pc[p] = "publish"
      /\ pc' = [pc EXCEPT ![p] = "idle"]
      /\ rc' \in [Threads -> ResultCodes]
      /\ slot' = [slot EXCEPT ![Idx(h)] = h + 1]
    BY DEF PushPublish, Return, ResultCodes
<1>1. /\ h \in Nat /\ h \in head - ObjNum .. head - 1
      /\ tail <= h
      /\ slot[Idx(h)] = h
      /\ Idx(h) \in Cells
    BY <1>0, IdxFacts DEF WritersOwn, Writing
\* No other position of the last lap has its cell touched.
<1>2. ASSUME NEW k \in head - ObjNum .. head, k # h, slot'[Idx(k)] # slot[Idx(k)]
      PROVE  h = head - ObjNum /\ k = head
    <2>1. Idx(k) \in Cells
        BY IdxFacts
    <2>2. Idx(k) = Idx(h)
        BY <1>0, <1>1, <1>2, <2>1
    <2> QED
        BY <1>1, <1>2, <2>2, OneLapApart
<1> HIDE DEF h
<1>3. TypeOK'
    BY <1>0, <1>1 DEF PushPc, PopPc
<1>4. NeverOverrun'
    BY <1>0 DEF NeverOverrun
<1>5. SlotStates'
    <2> SUFFICES ASSUME NEW k \in head - ObjNum .. head - 1
                 PROVE  \/ /\ slot'[Idx(k)] = k
                           /\ tail <= k
                           /\ \E q \in Producers : Writing(q)' /\ expected[q] = k
                        \/ /\ slot'[Idx(k)] = k + 1
                           /\ tail <= k
                        \/ /\ slot'[Idx(k)] = k + 1
                           /\ k < tail
                           /\ \E c \in Consumers : Reading(c)' /\ expected[c] = k
                        \/ /\ slot'[Idx(k)] = k + ObjNum
                           /\ k < tail
        BY <1>0 DEF SlotStates
    <2>1. CASE k = h
        BY <1>0, <1>1, <2>1
    <2>2. CASE k # h
        <3>1. slot'[Idx(k)] = slot[Idx(k)]
            BY <1>2, <2>2
        <3>2. \A q \in Producers : Writing(q) /\ expected[q] = k => Writing(q)'
            BY <1>0, <2>2 DEF Writing, h
        <3>3. \A c \in Consumers : Reading(c) => Reading(c)'
            BY <1>0 DEF Reading
        <3> QED
            BY <3>1, <3>2, <3>3 DEF SlotStates
    <2> QED
        BY <2>1, <2>2
<1>6. WritersOwn'
    BY <1>0, <1>1, <1>2 DEF WritersOwn, OnePositionEach, Writing, h
<1>7. ReadersOwn'
    BY <1>0, <1>1, <1>2 DEF ReadersOwn, Reading
<1>8. OnePositionEach'
    BY <1>0 DEF OnePositionEach, Writing, Reading
<1>9. StillTrueAtCas'
    <2>1. slot[Idx(head)] = head => slot'[Idx(head)] = head
        BY <1>0, <1>1
    <2>2. slot[Idx(tail)] = tail + 1 => slot'[Idx(tail)] = tail + 1
        BY <1>0, <1>1, <1>2 DEF NeverOverrun
    <2> QED
        BY <1>0, <2>1, <2>2 DEF StillTrueAtCas
<1> QED
    BY <1>3, <1>4, <1>5, <1>6, <1>7, <1>8, <1>9

LEMMA PopLoadTailIInv ==
    ASSUME IInv, NEW c \in Consumers, PopLoadTail(c)
    PROVE  IInv'
<1> USE ThreadAssumption DEF IInv, PopLoadTail, TypeOK, Threads
<1>1. TypeOK'
    BY DEF PushPc, PopPc, ResultCodes
<1>2. NeverOverrun' /\ SlotStates' /\ WritersOwn' /\ ReadersOwn' /\ OnePositionEach'
    BY DEF NeverOverrun, SlotStates, WritersOwn, ReadersOwn, OnePositionEach,
           Writing, Reading
<1>3. StillTrueAtCas'
    BY DEF StillTrueAtCas
<1> QED
    BY <1>1, <1>2, <1>3

LEMMA PopLoadSlotIInv ==
    ASSUME IInv, NEW c \in Consumers, PopLoadSlot(c)
    PROVE  IInv'
<1> USE ThreadAssumption DEF IInv, PopLoadSlot, SlotNotReady, TypeOK, Threads, Goto, Return
<1>0. /\ UNCHANGED <<head, tail, slot, buffer, expected, val>>
      /\ pc[c] = "loadSlot"
      /\ \/ /\ pc' = [pc EXCEPT ![c] = "idle"]
            /\ rc' \in [Threads -> ResultCodes]
         \/ /\ pc' = [pc EXCEPT ![c] = "cas"]
            /\ slot[Idx(expected[c])] = expected[c] + 1
            /\ rc' = rc
    <2>1. expected[c] \in Nat /\ slot[Idx(expected[c])] \in Nat
        BY IdxFacts
    <2> QED
        BY <2>1 DEF ResultCodes
<1> HIDE DEF PopLoadSlot
<1>1. TypeOK'
    BY <1>0 DEF PushPc, PopPc
<1>2. NeverOverrun' /\ SlotStates' /\ WritersOwn' /\ ReadersOwn' /\ OnePositionEach'
    BY <1>0 DEF NeverOverrun, SlotStates, WritersOwn, ReadersOwn,
                OnePositionEach, Writing, Reading
<1>3. StillTrueAtCas'
    BY <1>0 DEF StillTrueAtCas
<1> QED
    BY <1>1, <1>2, <1>3

LEMMA PopCasIInv ==
    ASSUME IInv, NEW c \in Consumers, PopCas(c)
    PROVE  IInv'
<1> USE ObjNumAssumption, MaxPosAssumption, ThreadAssumption
    DEF IInv, TypeOK, Threads, Goto, Return
<1>1. CASE tail # expected[c]
    <2>0. /\ UNCHANGED <<head, tail, slot, buffer, expected, val>>
          /\ pc[c] = "cas"
          /\ pc' = [pc EXCEPT ![c] = "idle"]
          /\ rc' \in [Threads -> ResultCodes]
        BY <1>1 DEF PopCas, ResultCodes
    <2>1. TypeOK'
        BY <2>0 DEF PushPc, PopPc
    <2>2. NeverOverrun' /\ SlotStates' /\ WritersOwn' /\ ReadersOwn' /\ OnePositionEach'
        BY <2>0 DEF NeverOverrun, SlotStates, WritersOwn, ReadersOwn,
                    OnePositionEach, Writing, Reading
    <2>3. StillTrueAtCas'
        BY <2>0 DEF StillTrueAtCas
    <2> QED
        BY <2>1, <2>2, <2>3
<1>2. CASE tail = expected[c]
    <2>0. /\ UNCHANGED <<head, slot, buffer, expected, val, rc>>
          /\ pc[c] = "cas"
          /\ pc' = [pc EXCEPT ![c] = "read"]
          /\ tail' = tail + 1
          /\ expected[c] = tail /\ head \in Nat /\ tail \in Nat
        BY <1>2 DEF PopCas
    <2>1. slot[Idx(tail)] = tail + 1
        BY <2>0 DEF StillTrueAtCas
    \* The cell of tail says "published", so tail has been claimed by a producer.
    <2>2. tail < head
        <3>1. Idx(head - ObjNum) = Idx(head)
            <4>1. head - ObjNum \in Int /\ (head - ObjNum) + ObjNum = head
                BY <2>0
            <4> QED
                BY <4>1, IdxFacts
        <3>2. head - ObjNum \in head - ObjNum .. head - 1
            BY <2>0
        <3>3. slot[Idx(head)] # head + 1
            BY <2>0, <3>1, <3>2 DEF SlotStates
        <3> QED
            BY <2>0, <2>1, <3>3 DEF NeverOverrun
    <2>3. TypeOK'
        BY <2>0 DEF PushPc, PopPc
    <2>4. NeverOverrun'
        BY <2>0, <2>2 DEF NeverOverrun
    <2>5. \A p \in Producers : Writing(p) => expected[p] # tail
        BY <2>0, <2>1 DEF WritersOwn
    <2>6. SlotStates'
        <3> SUFFICES ASSUME NEW k \in head - ObjNum .. head - 1
                     PROVE  \/ /\ slot[Idx(k)] = k
                               /\ tail + 1 <= k
                               /\ \E q \in Producers : Writing(q)' /\ expected[q] = k
                            \/ /\ slot[Idx(k)] = k + 1
                               /\ tail + 1 <= k
                            \/ /\ slot[Idx(k)] = k + 1
                               /\ k < tail + 1
                               /\ \E d \in Consumers : Reading(d)' /\ expected[d] = k
                            \/ /\ slot[Idx(k)] = k + ObjNum
                               /\ k < tail + 1
            BY <2>0 DEF SlotStates
        <3>1. CASE k = tail
            BY <2>0, <2>1, <3>1 DEF Reading
        <3>2. CASE k # tail
            <4>1. \A q \in Producers : Writing(q) => Writing(q)'
                BY <2>0 DEF Writing
            <4>2. \A d \in Consumers : Reading(d) => Reading(d)'
                BY <2>0 DEF Reading
            <4> QED
                BY <2>0, <3>2, <4>1, <4>2 DEF SlotStates
        <3> QED
            BY <3>1, <3>2
    <2>7. WritersOwn'
        BY <2>0, <2>5 DEF WritersOwn, Writing
    <2>8. ReadersOwn'
        BY <2>0, <2>1, <2>2 DEF ReadersOwn, NeverOverrun, Reading
    <2>9. OnePositionEach'
        BY <2>0 DEF OnePositionEach, ReadersOwn, Writing, Reading
    <2>10. StillTrueAtCas'
        BY <2>0 DEF StillTrueAtCas
    <2> QED
        BY <2>3, <2>4, <2>6, <2>7, <2>8, <2>9, <2>10
<1> QED
    BY <1>1, <1>2

LEMMA PopReadIInv ==
    ASSUME IInv, NEW c \in Consumers, PopRead(c)
    PROVE  IInv'
<1> USE ThreadAssumption DEF IInv, PopRead, TypeOK, Threads, Goto
<1>1. TypeOK'
    BY IdxFacts DEF PushPc, PopPc
<1>2. NeverOverrun' /\ WritersOwn' /\ ReadersOwn' /\ OnePositionEach'
    BY DEF NeverOverrun, WritersOwn, ReadersOwn, OnePositionEach, Writing, Reading
<1>3. SlotStates'
    <2>1. \A q \in Producers : Writing(q) => Writing(q)'
        BY DEF Writing
    <2>2. \A d \in Consumers : Reading(d) => Reading(d)'
        BY DEF Reading
    <2> QED
        BY <2>1, <2>2 DEF SlotStates
<1>4. StillTrueAtCas'
    BY DEF StillTrueAtCas
<1> QED
    BY <1>1, <1>2, <1>3, <1>4

LEMMA PopReleaseIInv ==
    ASSUME IInv, NEW c \in Consumers, PopRelease(c)
    PROVE  IInv'
<1> DEFINE h == expected[c]
<1> USE ObjNumAssumption, ThreadAssumption DEF IInv, TypeOK, Threads
<1>0. /\ UNCHANGED <<head, tail, buffer, expected, val>>
      /\ pc[c] = "release"
      /\ pc' = [pc EXCEPT ![c] = "idle"]
      /\ rc' \in [Threads -> ResultCodes]
      /\ slot' = [slot EXCEPT ![Idx(h)] = h + ObjNum]
    BY DEF PopRelease, NextLap, Return, ResultCodes
<1>1. /\ h \in Nat /\ h \in head - ObjNum .. head - 1
      /\ h < tail
      /\ slot[Idx(h)] = h + 1
      /\ Idx(h) \in Cells
    BY <1>0, IdxFacts DEF ReadersOwn, Reading
\* No other position of the last lap has its cell touched.
<1>2. ASSUME NEW k \in head - ObjNum .. head, k # h, slot'[Idx(k)] # slot[Idx(k)]
      PROVE  h = head - ObjNum /\ k = head
    <2>1. Idx(k) \in Cells
        BY IdxFacts
    <2>2. Idx(k) = Idx(h)
        BY <1>0, <1>1, <1>2, <2>1
    <2> QED
        BY <1>1, <1>2, <2>2, OneLapApart
<1> HIDE DEF h
<1>3. TypeOK'
    BY <1>0, <1>1 DEF PushPc, PopPc
<1>4. NeverOverrun'
    BY <1>0 DEF NeverOverrun
<1>5. SlotStates'
    <2> SUFFICES ASSUME NEW k \in head - ObjNum .. head - 1
                 PROVE  \/ /\ slot'[Idx(k)] = k
                           /\ tail <= k
                           /\ \E q \in Producers : Writing(q)' /\ expected[q] = k
                        \/ /\ slot'[Idx(k)] = k + 1
                           /\ tail <= k
                        \/ /\ slot'[Idx(k)] = k + 1
                           /\ k < tail
                           /\ \E d \in Consumers : Reading(d)' /\ expected[d] = k
                        \/ /\ slot'[Idx(k)] = k + ObjNum
                           /\ k < tail
        BY <1>0 DEF SlotStates
    <2>1. CASE k = h
        BY <1>0, <1>1, <2>1
    <2>2. CASE k # h
        <3>1. slot'[Idx(k)] = slot[Idx(k)]
            BY <1>2, <2>2
        <3>2. \A q \in Producers : Writing(q) => Writing(q)'
            BY <1>0 DEF Writing
        <3>3. \A d \in Consumers : Reading(d) /\ expected[d] = k => Reading(d)'
            BY <1>0, <2>2 DEF Reading, h
        <3> QED
            BY <3>1, <3>2, <3>3 DEF SlotStates
    <2> QED
        BY <2>1, <2>2
<1>6. WritersOwn'
    BY <1>0, <1>1, <1>2 DEF WritersOwn, Writing
<1>7. ReadersOwn'
    BY <1>0, <1>1, <1>2 DEF ReadersOwn, OnePositionEach, Reading, h
<1>8. OnePositionEach'
    BY <1>0 DEF OnePositionEach, Writing, Reading
<1>9. StillTrueAtCas'
    <2>1. slot[Idx(head)] = head => slot'[Idx(head)] = head
        BY <1>0, <1>1, IdxFacts
    <2>2. slot[Idx(tail)] = tail + 1 => slot'[Idx(tail)] = tail + 1
        BY <1>0, <1>1, <1>2 DEF NeverOverrun
    <2> QED
        BY <1>0, <2>1, <2>2 DEF StillTrueAtCas
<1> QED
    BY <1>3, <1>4, <1>5, <1>6, <1>7, <1>8, <1>9

-----------------------------------------------------------------------------
LEMMA NextIInv == IInv /\ [Next]_vars => IInv'
<1> SUFFICES ASSUME IInv, [Next]_vars PROVE IInv'
    OBVIOUS
<1>1. ASSUME NEW p \in Producers, Push(p) PROVE IInv'
    BY <1>1, SizeTooLargeIInv, PushLoadHeadIInv, PushLoadSlotIInv, PushCasIInv,
       PushCopyIInv, PushPublishIInv DEF Push, PushStep, Threads
<1>2. ASSUME NEW c \in Consumers, Pop(c) PROVE IInv'
    BY <1>2, SizeTooLargeIInv, PopLoadTailIInv, PopLoadSlotIInv, PopCasIInv,
       PopReadIInv, PopReleaseIInv DEF Pop, Pop_w_cb, Threads
<1>3. CASE UNCHANGED vars
    BY <1>3 DEF vars, IInv, TypeOK, NeverOverrun, SlotStates, WritersOwn,
                ReadersOwn, OnePositionEach, StillTrueAtCas, Writing, Reading
<1> QED
    BY <1>1, <1>2, <1>3 DEF Next

-----------------------------------------------------------------------------
(* The theorems. *)

\* Every reachable state of Push_MpmcRingBuf and Pop_MpmcRingBuf satisfies the
\* inductive invariant, for all numbers of threads, cells and positions.
THEOREM Invariance == Spec => []IInv
BY InitIInv, NextIInv, PTL DEF Spec

\* All variables of the ring and of its threads keep their types.
THEOREM TypeCorrect == Spec => []TypeOK
<1>1. IInv => TypeOK
    BY DEF IInv
<1> QED
    BY <1>1, Invariance, PTL

\* The ring never holds more than objNum_ objects and tail_ never passes head_.
THEOREM NoOverrun == Spec => []NeverOverrun
<1>1. IInv => NeverOverrun
    BY DEF IInv
<1> QED
    BY <1>1, Invariance, PTL

LEMMA IInvExclusive == IInv => CellsExclusive
<1> SUFFICES ASSUME IInv, NEW s \in Threads, NEW t \in Threads, s # t,
                    Writing(s) \/ Reading(s), Writing(t) \/ Reading(t),
                    Idx(expected[s]) = Idx(expected[t])
             PROVE  FALSE
    BY DEF CellsExclusive
<1> USE ObjNumAssumption DEF IInv
<1>1. ASSUME NEW u \in Threads, Writing(u) \/ Reading(u)
      PROVE  \/ u \in Producers /\ Writing(u)
             \/ u \in Consumers /\ Reading(u)
    BY <1>1 DEF TypeOK, Threads, PushPc, PopPc, Writing, Reading
<1>2. ASSUME NEW u \in Threads, Writing(u) \/ Reading(u)
      PROVE  expected[u] \in head - ObjNum .. head - 1
    BY <1>1, <1>2 DEF WritersOwn, ReadersOwn
<1>3. expected[s] = expected[t]
    BY <1>2, IdxFacts DEF TypeOK
<1>4. expected[s] \in Nat
    BY DEF TypeOK
<1> QED
    BY <1>1, <1>3, <1>4 DEF OnePositionEach, WritersOwn, ReadersOwn

\* The memcpy of a push, the memcpy of a pop and the callback of Pop_w_cb never
\* run on one cell at the same time.
THEOREM Exclusion == Spec => []CellsExclusive
BY IInvExclusive, Invariance, PTL

\* The cell of head belongs to the position one lap before it.
LEMMA CellOfHead ==
    ASSUME IInv
    PROVE  /\ head - ObjNum \in head - ObjNum .. head - 1
           /\ Idx(head - ObjNum) = Idx(head)
           /\ slot[Idx(head)] <= head
           /\ slot[Idx(head)] < head => \/ head - tail = ObjNum
                                        \/ \E c \in Consumers :
                                              Reading(c) /\ expected[c] = head - ObjNum
<1>1. head \in Nat /\ tail \in Nat
    BY MaxPosAssumption DEF IInv, TypeOK
<1>2. head - ObjNum \in Int /\ (head - ObjNum) + ObjNum = head
    BY <1>1, ObjNumAssumption
<1>3. Idx(head - ObjNum) = Idx(head)
    BY <1>2, IdxFacts
<1>4. head - ObjNum \in head - ObjNum .. head - 1
    BY <1>1, ObjNumAssumption
<1> QED
    BY <1>1, <1>2, <1>3, <1>4, ObjNumAssumption
    DEF IInv, SlotStates, NeverOverrun

\* The sequence number of a cell is never behind a position already claimed.
LEMMA ClaimedCell ==
    ASSUME IInv, NEW e \in Nat, e < head
    PROVE  /\ slot[Idx(e)] \in Nat
           /\ slot[Idx(e)] >= e
           /\ e < tail => slot[Idx(e)] >= e + 1
<1>1. head \in Nat /\ tail \in Nat /\ slot[Idx(e)] \in Nat
    BY IdxFacts, MaxPosAssumption DEF IInv, TypeOK
<1>2. PICK k \in head - ObjNum .. head - 1 : Idx(k) = Idx(e)
    <2> DEFINE base == head - ObjNum
    <2>1. base \in Int /\ ObjNum \in Nat /\ ObjNum >= 1 /\ e \in Int
        BY <1>1, ObjNumAssumption
    <2>2. base + ObjNum - 1 = head - 1
        BY <1>1, ObjNumAssumption
    <2> HIDE DEF base
    <2>3. \E k \in base .. base + ObjNum - 1 : k % ObjNum = e % ObjNum
        BY <2>1, EveryLapHasTheCell
    <2> QED
        BY <2>2, <2>3 DEF Idx, base
<1>3. k >= e
    BY <1>1, <1>2, ObjNumAssumption, IdxFacts
<1>4. k = e \/ k >= e + 1
    BY <1>1, <1>3
<1> QED
    BY <1>1, <1>2, <1>4, ObjNumAssumption DEF IInv, SlotStates

\* Push_MpmcRingBuf answers RINGBUF_FULL only at an instant the cell of the
\* current head_ is occupied.
THEOREM FullHonest == Spec => FullIsHonest
<1>1. ASSUME IInv, [Next]_vars, NEW p \in Producers, rc'[p] = "FULL", rc[p] # "FULL"
      PROVE  /\ head = expected[p]
             /\ \/ head - tail = ObjNum
                \/ \E c \in Consumers : Reading(c) /\ expected[c] = head - ObjNum
    <2> USE DEF IInv, TypeOK, Threads
    <2>1. PushLoadSlot(p) /\ slot[Idx(expected[p])] - expected[p] < 0
        BY <1>1, ThreadAssumption
        DEF vars, Next, Push, PushStep, Pop, Pop_w_cb, SizeTooLarge, PushLoadHead,
            PushLoadSlot, SlotBehind, PushCas, PushWins, PushCopy, CellOf, PushPublish,
            PopLoadTail, PopLoadSlot, SlotNotReady, PopCas, PopRead, PopRelease, NextLap,
            Goto, Return
    <2>2. /\ expected[p] \in Nat /\ head \in Nat /\ slot[Idx(expected[p])] \in Nat
          /\ expected[p] <= head
        BY <1>1, <2>1, IdxFacts, MaxPosAssumption DEF StillTrueAtCas, PushLoadSlot, SlotBehind
    <2>3. head = expected[p]
        BY <1>1, <2>1, <2>2, ClaimedCell
    <2> QED
        BY <1>1, <2>1, <2>2, <2>3, CellOfHead
<1>2. IInv /\ [Next]_vars =>
        [\A p \in Producers :
            rc'[p] = "FULL" /\ rc[p] # "FULL" =>
                /\ head = expected[p]
                /\ \/ head - tail = ObjNum
                   \/ \E c \in Consumers :
                        Reading(c) /\ expected[c] = head - ObjNum]_vars
    BY <1>1
<1> QED
    BY <1>2, Invariance, PTL DEF Spec, FullIsHonest

\* Pop_MpmcRingBuf answers RINGBUF_EMPTY only at an instant there is no published
\* object at the current tail_.
THEOREM EmptyHonest == Spec => EmptyIsHonest
<1>1. ASSUME IInv, [Next]_vars, NEW c \in Consumers, rc'[c] = "EMPTY", rc[c] # "EMPTY"
      PROVE  /\ tail = expected[c]
             /\ \/ head = tail
                \/ \E p \in Producers : Writing(p) /\ expected[p] = tail
    <2> USE DEF IInv, TypeOK, Threads
    <2>1. PopLoadSlot(c) /\ slot[Idx(expected[c])] - (expected[c] + 1) < 0
        BY <1>1, ThreadAssumption
        DEF vars, Next, Push, PushStep, Pop, Pop_w_cb, SizeTooLarge, PushLoadHead,
            PushLoadSlot, SlotBehind, PushCas, PushWins, PushCopy, CellOf, PushPublish,
            PopLoadTail, PopLoadSlot, SlotNotReady, PopCas, PopRead, PopRelease, NextLap,
            Goto, Return
    <2>2. /\ expected[c] \in Nat /\ head \in Nat /\ tail \in Nat
          /\ slot[Idx(expected[c])] \in Nat
          /\ expected[c] <= tail /\ tail <= head /\ head - tail <= ObjNum
        BY <1>1, <2>1, IdxFacts, MaxPosAssumption
        DEF StillTrueAtCas, PopLoadSlot, SlotNotReady, NeverOverrun
    <2>3. tail = expected[c]
        BY <1>1, <2>1, <2>2, ClaimedCell
    <2>4. CASE head # tail
        <3>1. tail \in head - ObjNum .. head - 1
            BY <2>2, <2>4, ObjNumAssumption
        <3> QED
            BY <1>1, <2>1, <2>2, <2>3, <3>1, ObjNumAssumption DEF SlotStates
    <2> QED
        BY <2>3, <2>4
<1>2. IInv /\ [Next]_vars =>
        [\A c \in Consumers :
            rc'[c] = "EMPTY" /\ rc[c] # "EMPTY" =>
                /\ tail = expected[c]
                /\ \/ head = tail
                   \/ \E p \in Producers : Writing(p) /\ expected[p] = tail]_vars
    BY <1>1
<1> QED
    BY <1>2, Invariance, PTL DEF Spec, EmptyIsHonest

\* A call answers RINGBUF_CONTENTION only if a thread of its side has claimed the
\* position it read: the ring is lock-free.
THEOREM LockFree == Spec => ContentionMeansProgress
<1>1. ASSUME IInv, [Next]_vars, NEW t \in Threads,
             rc'[t] = "CONTENTION", rc[t] # "CONTENTION"
      PROVE  (IF t \in Producers THEN head ELSE tail) > expected[t]
    <2> USE DEF IInv, TypeOK, Threads
    <2>1. \/ t \in Producers /\ \/ /\ PushLoadSlot(t)
                                   /\ slot[Idx(expected[t])] - expected[t] # 0
                                   /\ ~ (slot[Idx(expected[t])] - expected[t] < 0)
                                \/ PushCas(t) /\ head # expected[t]
          \/ t \in Consumers /\ \/ /\ PopLoadSlot(t)
                                   /\ slot[Idx(expected[t])] - (expected[t] + 1) # 0
                                   /\ ~ (slot[Idx(expected[t])] - (expected[t] + 1) < 0)
                                \/ PopCas(t) /\ tail # expected[t]
        BY <1>1, ThreadAssumption
        DEF vars, Next, Push, PushStep, Pop, Pop_w_cb, SizeTooLarge, PushLoadHead,
            PushLoadSlot, SlotBehind, PushCas, PushWins, PushCopy, CellOf, PushPublish,
            PopLoadTail, PopLoadSlot, SlotNotReady, PopCas, PopRead, PopRelease, NextLap,
            Goto, Return
    <2>2. /\ expected[t] \in Nat /\ head \in Nat /\ tail \in Nat
          /\ slot[Idx(expected[t])] \in Nat
          /\ tail <= head /\ head - tail <= ObjNum
        BY <1>1, IdxFacts, MaxPosAssumption DEF NeverOverrun
    <2>3. CASE t \in Producers
        <3>1. t \notin Consumers
            BY <2>3, ThreadAssumption
        <3>2. expected[t] <= head
            BY <1>1, <2>1, <3>1 DEF StillTrueAtCas, PushLoadSlot, SlotBehind, PushCas, PushWins
        <3> QED
            BY <1>1, <2>1, <2>2, <2>3, <3>1, <3>2, CellOfHead
    <2>4. CASE t \notin Producers
        <3>1. expected[t] <= tail
            BY <1>1, <2>1, <2>4 DEF StillTrueAtCas, PopLoadSlot, SlotNotReady, PopCas
        <3>2. CASE expected[t] = tail /\ tail < head
            <4>1. tail \in head - ObjNum .. head - 1
                BY <2>2, <3>2, ObjNumAssumption
            <4> QED
                BY <1>1, <2>1, <2>2, <2>4, <3>2, <4>1, ObjNumAssumption DEF SlotStates
        <3>3. CASE expected[t] = tail /\ tail = head
            BY <1>1, <2>1, <2>2, <2>4, <3>3, CellOfHead
        <3> QED
            BY <2>2, <2>4, <3>1, <3>2, <3>3
    <2> QED
        BY <2>3, <2>4
<1>2. IInv /\ [Next]_vars =>
        [\A t \in Threads :
            rc'[t] = "CONTENTION" /\ rc[t] # "CONTENTION" =>
                (IF t \in Producers THEN head ELSE tail) > expected[t]]_vars
    BY <1>1
<1> QED
    BY <1>2, Invariance, PTL DEF Spec, ContentionMeansProgress

-----------------------------------------------------------------------------
(* The ring is a bounded FIFO queue. *)

\* The objects of the claimed positions, written or not.
Held == HeldOf(Producers, ObjNum, pc, expected, val, buffer)
Length == head - tail

QueueView ==
    /\ absQueue = QueueOf(Held, tail, Length)
    /\ Held \in [Int -> Objects] /\ Length \in 0 .. ObjNum
    /\ tail \in Nat /\ head \in Nat
    /\ \A p \in Producers : pc[p] = "copy" =>
           expected[p] \in tail .. head - 1 /\ Held[expected[p]] = val[p]
    /\ \A k \in Int : (\A p \in Producers : pc[p] = "copy" => expected[p] # k)
           => Held[k] = buffer[Idx(k)]

LEMMA QueueFacts == IInv => QueueView
<1> SUFFICES ASSUME IInv PROVE QueueView
    OBVIOUS
<1>1. /\ tail \in Nat /\ head \in Nat /\ tail <= head /\ head - tail <= ObjNum
      /\ buffer \in [0 .. ObjNum - 1 -> Objects] /\ \A p \in Producers : val[p] \in Objects
      /\ ObjNum \in Nat /\ ObjNum >= 1
    BY ObjNumAssumption, MaxPosAssumption DEF IInv, TypeOK, NeverOverrun, Threads, Cells
<1>2. Length \in 0 .. ObjNum
    BY <1>1 DEF Length
<1>3. \A p, q \in Producers :
          pc[p] = "copy" /\ pc[q] = "copy" /\ expected[p] = expected[q] => p = q
    BY DEF IInv, OnePositionEach, Writing
<1>4. ASSUME NEW p \in Producers, pc[p] = "copy"
      PROVE  expected[p] \in Int /\ expected[p] \in tail .. head - 1
    <2>1. expected[p] \in head - ObjNum .. head - 1 /\ tail <= expected[p]
        BY <1>4 DEF IInv, WritersOwn, Writing
    <2> QED
        BY <1>1, <2>1
<1>5. HeldInputs(Objects, Producers, ObjNum, pc, expected, val, buffer)
    BY <1>1, <1>3 DEF HeldInputs
<1>6. HeldResult(Objects, Producers, ObjNum, pc, expected, val, buffer, Held)
    BY <1>5, HeldFacts DEF Held
<1>7. absQueue = QueueOf(Held, tail, Length)
    <2>1. \A i \in 1 .. Length : tail + i - 1 \in Int
        BY <1>1
    <2>2. \A k \in Int : Held[k] = ObjectAt(k)
        BY DEF Held, HeldOf, ObjectAt, Unwritten, Idx
    <2> QED
        BY <2>1, <2>2 DEF absQueue, QueueOf, Length
<1> QED
    BY <1>1, <1>2, <1>4, <1>6, <1>7 DEF Idx, QueueView, HeldResult

LEMMA QueueFactsNext == IInv' => QueueView'
BY QueueFacts, PTL

\* The objects in the ring are those it had, unless a copy is made.
LEMMA KeepsObjects ==
    ASSUME IInv, IInv', buffer' = buffer,
           \A p \in Producers : pc[p] = "copy" =>
               pc'[p] = "copy" /\ expected'[p] = expected[p] /\ val'[p] = val[p],
           \A p \in Producers : pc'[p] = "copy" /\ pc[p] # "copy" => expected'[p] >= head
    PROVE  \A k \in Int : k < head => Held'[k] = Held[k]
<1> SUFFICES ASSUME NEW k \in Int, k < head PROVE Held'[k] = Held[k]
    OBVIOUS
<1>1. QueueView /\ QueueView'
    BY QueueFacts, QueueFactsNext
<1>2. CASE \E p \in Producers : pc[p] = "copy" /\ expected[p] = k
    <2>1. PICK p \in Producers : pc[p] = "copy" /\ expected[p] = k
        BY <1>2
    <2>2. Held[k] = val[p]
        BY <1>1, <2>1 DEF QueueView
    <2>3. Held'[k] = val'[p]
        BY <1>1, <2>1 DEF QueueView
    <2> QED
        BY <2>1, <2>2, <2>3
<1>3. CASE \A p \in Producers : pc[p] = "copy" => expected[p] # k
    <2>1. \A p \in Producers : pc'[p] = "copy" => expected'[p] # k
        BY <1>1, <1>3 DEF QueueView
    <2>2. Held'[k] = buffer'[Idx(k)']
        BY <1>1, <2>1 DEF QueueView
    <2>3. Held[k] = buffer[Idx(k)]
        BY <1>1, <1>3 DEF QueueView
    <2> QED
        BY <2>2, <2>3 DEF Idx
<1> QED
    BY <1>2, <1>3

\* Nor if one is: the object was the one of its position before it was in the cell.
LEMMA CopyKeepsObjects ==
    ASSUME IInv, IInv', NEW p \in Producers, PushCopy(p)
    PROVE  \A k \in tail .. head - 1 : Held'[k] = Held[k]
<1> SUFFICES ASSUME NEW k \in tail .. head - 1 PROVE Held'[k] = Held[k]
    OBVIOUS
<1>1. QueueView /\ QueueView'
    BY QueueFacts, QueueFactsNext
<1>2. /\ pc[p] = "copy" /\ pc' = [pc EXCEPT ![p] = "publish"]
      /\ expected' = expected /\ val' = val
      /\ buffer' = [buffer EXCEPT ![Idx(expected[p])] = val[p]]
    BY DEF PushCopy, Goto, CellOf
<1>3. /\ \A q \in Producers : pc[q] = "copy" /\ expected[q] = expected[p] => q = p
      /\ \A q \in Producers : pc'[q] = "copy" <=> pc[q] = "copy" /\ q # p
      /\ buffer \in [Cells -> Objects]
    BY <1>2 DEF IInv, OnePositionEach, Writing, TypeOK, Threads
<1>4. /\ tail \in Nat /\ head \in Nat /\ head - tail <= ObjNum /\ k \in Int
      /\ expected[p] \in tail .. head - 1 /\ expected[p] \in Int
    BY <1>1, <1>2 DEF QueueView, Length
<1>5. Idx(k) \in Cells /\ Idx(expected[p]) \in Cells
    BY <1>4, IdxFacts
<1>6. CASE k = expected[p]
    <2>1. Held'[k] = buffer'[Idx(k)']
        BY <1>1, <1>2, <1>3, <1>4, <1>6 DEF QueueView
    <2>2. Held[k] = val[p]
        BY <1>1, <1>2, <1>6 DEF QueueView
    <2> QED
        BY <1>2, <1>3, <1>5, <1>6, <2>1, <2>2 DEF Idx
<1>7. CASE k # expected[p]
    <2>1. k - expected[p] < ObjNum /\ expected[p] - k < ObjNum
        BY <1>4, ObjNumAssumption
    <2>2. buffer'[Idx(k)'] = buffer[Idx(k)]
        <3>1. Idx(k) # Idx(expected[p])
            BY <1>4, <1>7, <2>1, IdxFacts
        <3> QED
            BY <1>2, <1>3, <1>5, <3>1 DEF Idx
    <2>3. CASE \E q \in Producers : pc[q] = "copy" /\ expected[q] = k
        <3>1. PICK q \in Producers : pc[q] = "copy" /\ expected[q] = k
            BY <2>3
        <3>2. Held[k] = val[q] /\ Held'[k] = val'[q]
            BY <1>1, <1>2, <1>3, <1>7, <3>1 DEF QueueView
        <3> QED
            BY <1>2, <3>2
    <2>4. CASE \A q \in Producers : pc[q] = "copy" => expected[q] # k
        <3>1. Held[k] = buffer[Idx(k)] /\ Held'[k] = buffer'[Idx(k)']
            BY <1>1, <1>2, <1>3, <1>4, <2>4 DEF QueueView
        <3> QED
            BY <2>2, <3>1
    <2> QED
        BY <2>3, <2>4
<1> QED
    BY <1>6, <1>7

\* What follows for the queue if the objects in the ring are kept.
LEMMA QueueMoves ==
    ASSUME IInv, IInv', \A k \in tail .. head - 1 : Held'[k] = Held[k]
    PROVE  /\ Len(absQueue) = Length
           /\ tail' = tail /\ head' = head => absQueue' = absQueue
           /\ tail' = tail /\ head' = head + 1 => absQueue' = Append(absQueue, Held'[head])
           /\ tail' = tail + 1 /\ head' = head =>
                  absQueue # << >> /\ Head(absQueue) = Held[tail] /\ absQueue' = Tail(absQueue)
<1>1. QueueView /\ QueueView'
    BY QueueFacts, QueueFactsNext
<1>2. /\ Held \in [Int -> Objects] /\ Held' \in [Int -> Objects]
      /\ tail \in Int /\ head \in Int /\ Length \in Nat /\ Length' \in Nat
      /\ absQueue = QueueOf(Held, tail, Length)
      /\ absQueue' = QueueOf(Held', tail', Length')
    BY <1>1, ObjNumAssumption DEF QueueView, QueueOf
<1>3. tail + Length = head
    BY <1>2 DEF Length
<1>4. \A k \in tail .. tail + Length - 1 : Held'[k] = Held[k]
    <2>1. tail + Length - 1 = head - 1
        BY <1>2, <1>3
    <2> QED
        BY <2>1
<1>5. QueueKept(Objects, Held, Held', tail, Length)
    BY <1>2, <1>4 DEF QueueKept
<1>6. QueueResult(Held, Held', tail, Length)
    BY <1>5, QueueSteps
<1>7. /\ tail' = tail /\ head' = head => Length' = Length
      /\ tail' = tail /\ head' = head + 1 => Length' = Length + 1
      /\ tail' = tail + 1 /\ head' = head => Length' = Length - 1 /\ Length > 0
    BY <1>2 DEF Length
<1> QED
    BY <1>2, <1>3, <1>6, <1>7 DEF QueueResult

\* What a pop gets is in its cell until it has copied it: pushes copy elsewhere.
LEMMA KeepsGot ==
    ASSUME IInv,
           \/ buffer' = buffer
           \/ \E p \in Producers : /\ pc[p] = "copy"
                                   /\ buffer' = [buffer EXCEPT ![Idx(expected[p])] = val[p]],
           \A c \in Consumers :
               pc'[c] = pc[c] /\ expected'[c] = expected[c] /\ val'[c] = val[c]
    PROVE  absGot' = absGot
<1>1. ASSUME NEW c \in Consumers, pc[c] = "read"
      PROVE  buffer'[Idx(expected'[c])] = buffer[Idx(expected[c])]
    <2>1. Idx(expected[c]) \in Cells /\ buffer \in [Cells -> Objects]
        BY IdxFacts DEF IInv, TypeOK, Threads
    <2>2. CASE buffer' = buffer
        BY <2>2
    <2>3. ASSUME NEW p \in Producers, pc[p] = "copy",
                 buffer' = [buffer EXCEPT ![Idx(expected[p])] = val[p]]
          PROVE  buffer'[Idx(expected[c])] = buffer[Idx(expected[c])]
        <3>1. p \in Threads /\ c \in Threads /\ p # c
            BY <1>1, <2>3 DEF Threads
        <3>2. Idx(expected[p]) # Idx(expected[c])
            BY <1>1, <2>3, <3>1, IInvExclusive DEF CellsExclusive, Writing, Reading
        <3> QED
            BY <2>1, <2>3, <3>2
    <2> QED
        BY <2>2, <2>3
<1> QED
    BY <1>1 DEF absGot, Idx

\* The steps of a push but the compare-and-swap that wins change nothing.
LEMMA PushRefines ==
    ASSUME IInv, IInv', NEW p \in Producers, Push(p)
    PROVE  [Fifo!FifoNext]_(Fifo!fifoVars)
<1> USE ThreadAssumption
<1>1. QueueView /\ QueueView'
    BY QueueFacts, QueueFactsNext
<1>2. /\ pc \in [Threads -> PushPc \cup PopPc] /\ val \in [Threads -> Objects]
      /\ expected \in [Threads -> Nat] /\ p \in Threads
      /\ \A q \in Producers : q \in Threads
      /\ \A c \in Consumers : c \in Threads /\ c # p
    BY DEF IInv, TypeOK, Threads
<1>3. /\ \E l : pc' = [pc EXCEPT ![p] = l]
      /\ val' = val \/ \E v : val' = [val EXCEPT ![p] = v]
      /\ expected' = expected \/ \E e : expected' = [expected EXCEPT ![p] = e]
    BY DEF Push, PushStep, SizeTooLarge, PushLoadHead, PushLoadSlot, PushCas,
           PushCopy, PushPublish, Goto, Return
<1>4. /\ \A q \in Producers : q # p =>
             pc'[q] = pc[q] /\ val'[q] = val[q] /\ expected'[q] = expected[q]
      /\ \A c \in Consumers :
             pc'[c] = pc[c] /\ val'[c] = val[c] /\ expected'[c] = expected[c]
    BY <1>2, <1>3
<1>5. CASE PushCas(p) /\ head = expected[p] /\ pc'[p] = "copy"
    <2>1. /\ pc[p] = "cas" /\ head' = head + 1
          /\ UNCHANGED <<tail, buffer, expected, val>>
        BY <1>2, <1>5 DEF PushCas, PushWins, Goto, Return
    <2>2. \A k \in Int : k < head => Held'[k] = Held[k]
        <3>1. \A q \in Producers : pc'[q] = "copy" /\ pc[q] # "copy" => expected'[q] >= head
            BY <1>1, <1>4, <1>5, <2>1 DEF QueueView
        <3>2. \A q \in Producers : pc[q] = "copy" =>
                  pc'[q] = "copy" /\ expected'[q] = expected[q] /\ val'[q] = val[q]
            BY <1>4, <2>1
        <3> QED
            BY <2>1, <3>1, <3>2, KeepsObjects
    <2>3. \A k \in tail .. head - 1 : Held'[k] = Held[k]
        BY <1>1, <2>2 DEF QueueView
    <2>4. Held'[head] = val[p]
        BY <1>1, <1>5, <2>1 DEF QueueView
    <2>5. absQueue' = Append(absQueue, val[p]) /\ Len(absQueue) = Length
        BY <2>1, <2>3, <2>4, QueueMoves
    <2>6. Length < ObjNum
        BY <1>1, <2>1, ObjNumAssumption DEF Length, QueueView
    <2>7. absGot' = absGot
        BY <1>4, <2>1, KeepsGot
    <2>8. val[p] \in Values
        BY <2>1 DEF IInv, TypeOK
    <2> QED
        BY <2>5, <2>6, <2>7, <2>8 DEF Fifo!FifoNext, Fifo!Enqueue
<1>6. ASSUME ~ (PushCas(p) /\ head = expected[p] /\ pc'[p] = "copy")
      PROVE  UNCHANGED Fifo!fifoVars
    <2>1. /\ tail' = tail /\ head' = head
          /\ pc[p] # "copy" => buffer' = buffer /\ pc'[p] # "copy"
          /\ pc[p] = "copy" => PushCopy(p)
        BY <1>2, <1>6 DEF Push, PushStep, SizeTooLarge, PushLoadHead, PushLoadSlot, PushCas,
                          PushWins, PushCopy, PushPublish, Goto, Return, ring
    <2>2. \A k \in tail .. head - 1 : Held'[k] = Held[k]
        <3>1. CASE pc[p] = "copy"
            BY <2>1, <3>1, CopyKeepsObjects
        <3>2. CASE pc[p] # "copy"
            <4>1. \A k \in Int : k < head => Held'[k] = Held[k]
                BY <1>4, <2>1, <3>2, KeepsObjects
            <4> QED
                BY <1>1, <4>1 DEF QueueView
        <3> QED
            BY <3>1, <3>2
    <2>3. absQueue' = absQueue
        BY <2>1, <2>2, QueueMoves
    <2>4. absGot' = absGot
        <3>1. pc[p] = "copy" => buffer' = [buffer EXCEPT ![Idx(expected[p])] = val[p]]
            BY <2>1 DEF PushCopy, CellOf
        <3> QED
            BY <1>4, <2>1, <3>1, KeepsGot
    <2> QED
        BY <2>3, <2>4 DEF Fifo!fifoVars
<1> QED
    BY <1>5, <1>6

\* A pop that wins its compare-and-swap on tail_ takes the first object, which is
\* in its cell by then, and delivers it when it copies it.
LEMMA PopRefines ==
    ASSUME IInv, IInv', NEW c \in Consumers, Pop(c)
    PROVE  [Fifo!FifoNext]_(Fifo!fifoVars)
<1> USE ThreadAssumption
<1>1. QueueView /\ QueueView'
    BY QueueFacts, QueueFactsNext
<1>2. /\ pc \in [Threads -> PushPc \cup PopPc] /\ val \in [Threads -> Objects]
      /\ expected \in [Threads -> Nat] /\ c \in Threads
      /\ \A q \in Producers : q \in Threads /\ q # c
      /\ \A d \in Consumers : d \in Threads
    BY DEF IInv, TypeOK, Threads
<1>3. /\ \E l : pc' = [pc EXCEPT ![c] = l]
      /\ val' = val \/ \E v : val' = [val EXCEPT ![c] = v]
      /\ expected' = expected \/ \E e : expected' = [expected EXCEPT ![c] = e]
    BY DEF Pop, Pop_w_cb, SizeTooLarge, PopLoadTail, PopLoadSlot, PopCas,
           PopRead, PopRelease, Goto, Return
<1>4. /\ \A q \in Producers :
             pc'[q] = pc[q] /\ val'[q] = val[q] /\ expected'[q] = expected[q]
      /\ \A d \in Consumers : d # c =>
             pc'[d] = pc[d] /\ val'[d] = val[d] /\ expected'[d] = expected[d]
    BY <1>2, <1>3
<1>5. head' = head /\ buffer' = buffer
    BY DEF Pop, Pop_w_cb, SizeTooLarge, PopLoadTail, PopLoadSlot, PopCas, PopRead, PopRelease
<1>6. \A k \in Int : k < head => Held'[k] = Held[k]
    BY <1>4, <1>5, KeepsObjects
<1>7. \A k \in tail .. head - 1 : Held'[k] = Held[k]
    BY <1>1, <1>6 DEF QueueView
<1>8. CASE PopCas(c) /\ tail = expected[c] /\ pc'[c] = "read"
    <2>1. /\ pc[c] = "cas" /\ tail' = tail + 1 /\ expected' = expected
          /\ slot[Idx(tail)] = tail + 1
        BY <1>1, <1>2, <1>8 DEF PopCas, Goto, Return, IInv, StillTrueAtCas, QueueView
    <2>2. absQueue # << >> /\ Head(absQueue) = Held[tail] /\ absQueue' = Tail(absQueue)
        BY <1>5, <1>7, <2>1, QueueMoves
    <2>3. Held[tail] = buffer[Idx(tail)]
        <3>1. ASSUME NEW q \in Producers, pc[q] = "copy", expected[q] = tail PROVE FALSE
            <4>1. slot[Idx(expected[q])] = expected[q]
                BY <3>1 DEF IInv, WritersOwn, Writing
            <4> QED
                BY <1>1, <2>1, <3>1, <4>1 DEF QueueView
        <3> QED
            BY <1>1, <3>1 DEF QueueView
    <2>4. absGot' = [absGot EXCEPT ![c] = Head(absQueue)]
        BY <1>4, <1>5, <1>8, <2>1, <2>2, <2>3 DEF absGot, Idx
    <2> QED
        BY <2>2, <2>4 DEF Fifo!FifoNext, Fifo!Dequeue
<1>9. ASSUME ~ (PopCas(c) /\ tail = expected[c] /\ pc'[c] = "read")
      PROVE  UNCHANGED Fifo!fifoVars
    <2>1. tail' = tail
        BY <1>2, <1>9 DEF Pop, Pop_w_cb, SizeTooLarge, PopLoadTail, PopLoadSlot,
                          PopCas, PopRead, PopRelease, Goto, Return
    <2>2. absQueue' = absQueue
        BY <1>5, <1>7, <2>1, QueueMoves
    <2>3. CASE PopRead(c)
        <3>1. pc[c] = "read" /\ pc'[c] = "release" /\ val'[c] = buffer[Idx(expected[c])]
            BY <1>2, <2>3 DEF PopRead, Goto
        <3>2. absGot' = absGot
            BY <1>4, <1>5, <3>1 DEF absGot, Idx
        <3> QED
            BY <2>2, <3>2 DEF Fifo!fifoVars
    <2>4. CASE ~ PopRead(c)
        <3>1. pc[c] # "read" /\ pc'[c] # "read" /\ val' = val
            BY <1>2, <1>9, <2>4 DEF Pop, Pop_w_cb, SizeTooLarge, PopLoadTail, PopLoadSlot,
                          PopCas, PopRelease, Goto, Return
        <3>2. absGot' = absGot
            BY <1>4, <1>5, <3>1 DEF absGot, Idx
        <3> QED
            BY <2>2, <3>2 DEF Fifo!fifoVars
    <2> QED
        BY <2>3, <2>4
<1> QED
    BY <1>8, <1>9

LEMMA StepRefines ==
    ASSUME IInv, IInv', [Next]_vars
    PROVE  [Fifo!FifoNext]_(Fifo!fifoVars)
<1>1. CASE UNCHANGED vars
    <2>1. absQueue' = absQueue /\ absGot' = absGot
        BY <1>1 DEF vars, absQueue, absGot, ObjectAt, Unwritten, Idx
    <2> QED
        BY <2>1 DEF Fifo!fifoVars
<1> QED
    BY <1>1, PushRefines, PopRefines DEF Next

LEMMA InitRefines == ASSUME Init PROVE Fifo!FifoInit
<1>1. absQueue = << >>
    BY DEF Init, absQueue
<1>2. absGot = [c \in Consumers |-> Junk]
    BY DEF Init, absGot, Threads
<1> QED
    BY <1>1, <1>2 DEF Fifo!FifoInit

\* The MPMC ring is a bounded FIFO queue: pushes take effect in the order of their
\* compare-and-swaps on head_ and pops in that of theirs on tail_, whatever the
\* order in which the threads copy the objects and store the sequence numbers.
THEOREM Refinement == Spec => ImplementsFifo
<1>1. Init => Fifo!FifoInit
    BY InitRefines
<1>2. IInv /\ IInv' /\ [Next]_vars => [Fifo!FifoNext]_(Fifo!fifoVars)
    BY StepRefines
<1> QED
    BY <1>1, <1>2, Invariance, PTL DEF Spec, ImplementsFifo, Fifo!FifoSpec
=============================================================================
