----------------------------- MODULE MpmcCorrect -----------------------------
(***************************************************************************)
(* What makes Push_MpmcRingBuf and Pop_MpmcRingBuf correct: the properties *)
(* of module Mpmc, its refinement of BoundedFifo, and the inductive        *)
(* invariant from which MpmcProofs derives them.                           *)
(***************************************************************************)
EXTENDS Mpmc, Sequences

\* Between a successful compare-and-swap and the store of the next sequence
\* number the thread is the owner of the cell of its position.
Writing(p) == pc[p] \in {"copy", "publish"}
Reading(c) == pc[c] \in {"read", "release"}

\* Every variable keeps its type, and a position is never claimed beyond the
\* bound nor popped before it is pushed.
TypeOK ==
    /\ head \in 0 .. MaxPos
    /\ tail \in Nat
    /\ slot \in [Cells -> Nat]
    /\ buffer \in [Cells -> Objects]
    /\ pc \in [Threads -> PushPc \cup PopPc]
    /\ \A p \in Producers : pc[p] \in PushPc
    /\ \A c \in Consumers : pc[c] \in PopPc
    /\ expected \in [Threads -> Nat]
    /\ val \in [Threads -> Objects]
    /\ \A p \in Producers : pc[p] # "idle" => val[p] \in Values
    /\ rc \in [Threads -> ResultCodes]

-----------------------------------------------------------------------------
(* Safety *)

\* No cell has two owners: the memcpy of Push, the memcpy of Pop and the
\* callback of Pop_w_cb never run on the same cell at the same time, whoever is
\* preempted between its compare-and-swap and its store to the slot.
CellsExclusive ==
    \A s, t \in Threads :
        /\ s # t
        /\ Writing(s) \/ Reading(s)
        /\ Writing(t) \/ Reading(t)
        => Idx(expected[s]) # Idx(expected[t])

\* The ring never holds more than objNum objects, and no consumer overtakes the
\* producers, although neither head_ nor tail_ is ever compared with the other.
NeverOverrun == tail <= head /\ head - tail <= ObjNum

\* Push returns RINGBUF_FULL only if, at the instant it read the slot, its head
\* was still the current one and the cell was occupied: by an object not yet
\* popped, or by a consumer that has not finished with it.
FullIsHonest ==
    [][\A p \in Producers :
        rc'[p] = "FULL" /\ rc[p] # "FULL" =>
            /\ head = expected[p]
            /\ \/ head - tail = ObjNum
               \/ \E c \in Consumers :
                    Reading(c) /\ expected[c] = head - ObjNum]_vars

\* Pop returns RINGBUF_EMPTY only if, at the instant it read the slot, its tail
\* was still the current one and there was nothing to pop there: no position was
\* claimed, or its producer was still writing.
EmptyIsHonest ==
    [][\A c \in Consumers :
        rc'[c] = "EMPTY" /\ rc[c] # "EMPTY" =>
            /\ tail = expected[c]
            /\ \/ head = tail
               \/ \E p \in Producers : Writing(p) /\ expected[p] = tail]_vars

\* A call returns RINGBUF_CONTENTION only if another thread of the same side has
\* claimed a position since the call began: some thread always gets on.
ContentionMeansProgress ==
    [][\A t \in Threads :
        rc'[t] = "CONTENTION" /\ rc[t] # "CONTENTION" =>
            (IF t \in Producers THEN head ELSE tail) > expected[t]]_vars

-----------------------------------------------------------------------------
(***************************************************************************)
(* Refinement.  A push takes effect at its compare-and-swap on head_: from *)
(* there to its memcpy the object is still in the producer's args.  A pop  *)
(* takes effect at its compare-and-swap on tail_: from there to its memcpy *)
(* the object it delivers is whatever the cell contains.                   *)
(***************************************************************************)
Unwritten(p, k) == pc[p] = "copy" /\ expected[p] = k

ObjectAt(k) ==
    IF \E p \in Producers : Unwritten(p, k)
    THEN val[CHOOSE p \in Producers : Unwritten(p, k)]
    ELSE buffer[Idx(k)]

absQueue == [i \in 1 .. head - tail |-> ObjectAt(tail + i - 1)]

absGot ==
    [c \in Consumers |-> IF pc[c] = "read" THEN buffer[Idx(expected[c])]
                                           ELSE val[c]]

Fifo == INSTANCE BoundedFifo
            WITH queue <- absQueue, got <- absGot, Capacity <- ObjNum

\* Whatever the interleaving, successful pushes and pops are those of one
\* bounded FIFO queue: no object is lost, duplicated, torn or reordered.
ImplementsFifo == Fifo!FifoSpec

-----------------------------------------------------------------------------
(* Liveness *)

\* If every thread is scheduled and retries, as in test/c, all MaxPos objects are
\* pushed and popped: no call sequence leaves a slot that blocks the ring.
AllDelivered == <>(head = MaxPos /\ tail = MaxPos)

-----------------------------------------------------------------------------
(***************************************************************************)
(* The inductive invariant.  The objNum positions before head each have a  *)
(* cell, in one of four states told by its sequence number; a position     *)
(* below zero stands for the initial, empty state of its cell.             *)
(***************************************************************************)
SlotStates ==
    \A k \in head - ObjNum .. head - 1 :
        \/ /\ slot[Idx(k)] = k
           /\ tail <= k
           /\ \E p \in Producers : Writing(p) /\ expected[p] = k
        \/ /\ slot[Idx(k)] = k + 1
           /\ tail <= k
        \/ /\ slot[Idx(k)] = k + 1
           /\ k < tail
           /\ \E c \in Consumers : Reading(c) /\ expected[c] = k
        \/ /\ slot[Idx(k)] = k + ObjNum
           /\ k < tail

WritersOwn ==
    \A p \in Producers : Writing(p) =>
        /\ expected[p] \in head - ObjNum .. head - 1
        /\ tail <= expected[p]
        /\ slot[Idx(expected[p])] = expected[p]

ReadersOwn ==
    \A c \in Consumers : Reading(c) =>
        /\ expected[c] \in head - ObjNum .. head - 1
        /\ expected[c] < tail
        /\ slot[Idx(expected[c])] = expected[c] + 1

OnePositionEach ==
    /\ \A p, q \in Producers :
          Writing(p) /\ Writing(q) /\ expected[p] = expected[q] => p = q
    /\ \A c, d \in Consumers :
          Reading(c) /\ Reading(d) /\ expected[c] = expected[d] => c = d

\* What a thread learnt from the slot is still true when its compare-and-swap
\* succeeds, although other threads ran in between.
StillTrueAtCas ==
    /\ \A p \in Producers : pc[p] \in {"loadSlot", "cas"} =>
          /\ expected[p] <= head
          /\ expected[p] < MaxPos
          /\ pc[p] = "cas" /\ expected[p] = head => slot[Idx(head)] = head
    /\ \A c \in Consumers : pc[c] \in {"loadSlot", "cas"} =>
          /\ expected[c] <= tail
          /\ pc[c] = "cas" /\ expected[c] = tail => slot[Idx(tail)] = tail + 1

\* The conjunction is inductive: true initially and kept by every step.
IInv ==
    /\ TypeOK
    /\ NeverOverrun
    /\ SlotStates
    /\ WritersOwn
    /\ ReadersOwn
    /\ OnePositionEach
    /\ StillTrueAtCas
=============================================================================
