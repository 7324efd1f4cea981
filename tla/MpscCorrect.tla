----------------------------- MODULE MpscCorrect -----------------------------
(***************************************************************************)
(* What makes the multi-producer single-consumer ring correct, and its     *)
(* refinement of BoundedFifo.                                              *)
(***************************************************************************)
EXTENDS Mpsc, Sequences

\* Every variable keeps its type.
TypeOK ==
    /\ head \in 0 .. MaxPos
    /\ tail \in Nat
    /\ slot \in [Cells -> {"EMPTY", "VALID"}]
    /\ buffer \in [Cells -> Objects]
    /\ local_head \in Nat
    /\ pc \in [Threads -> PushPc \cup PopPc]
    /\ \A p \in Producers : pc[p] \in PushPc
    /\ pc[Consumer] \in PopPc
    /\ curr_head \in [Producers -> Nat]
    /\ val \in [Threads -> Objects]
    /\ \A p \in Producers : pc[p] # "idle" => val[p] \in Values
    /\ rc \in [Threads -> PushCodes \cup PopCodes]
    /\ \A p \in Producers : rc[p] \in PushCodes
    /\ rc[Consumer] \in PopCodes
    /\ consumerEnds \in {"never", "may", "stuck"}

\* A producer that won its compare-and-swap and has not marked the cell VALID.
Writing(p) == pc[p] \in {"copy", "publish"}

\* The consumer has found its cell VALID and has not given it back.
Reading == pc[Consumer] \in {"read", "emptySlot", "release"}

NeverOverrun == tail <= head /\ head - tail <= ObjNum

\* No two copies ever touch one cell: neither two producers', although each
\* compares head_ with a tail_ loaded later, nor a producer's and the consumer's.
CellsExclusive ==
    /\ \A p, q \in Producers : p # q /\ Writing(p) /\ Writing(q) =>
            Idx(curr_head[p]) # Idx(curr_head[q])
    /\ \A p \in Producers : Writing(p) /\ Reading =>
            Idx(curr_head[p]) # Idx(tail)

\* The object the consumer copies, or shows to the callback, is one a push has
\* published at this position: never a leftover of an earlier lap, even after the
\* consumer was replaced and its cached head is anything.
PopsArePublished ==
    pc[Consumer] \in {"read", "emptySlot"} =>
        /\ tail < head
        /\ slot[Idx(tail)] = "VALID"
        /\ \A p \in Producers : Writing(p) => curr_head[p] # tail

\* Push answers FULL only if the ring is full at that instant, or if pops have
\* gone past the position it read, so that the retry meets a different ring.
FullOrOvertaken ==
    [][\A p \in Producers : rc'[p] = "FULL" /\ rc[p] # "FULL" =>
            head - tail = ObjNum \/ tail > curr_head[p]]_vars

\* RINGBUF_SLOT_WRITING_DATA: "Producer is writing slot" (public.h).  The mark of
\* the cell at tail_ is EMPTY because its producer has not finished.  A consumer
\* that was replaced gets this answer in two more cases, and in no other: for an
\* empty ring, whose head_ its new cache did not make it load, and for good if a
\* consumer ended after it marked the cell and before it stored tail_.
WritingDataIsHonest ==
    [][rc'[Consumer] = "WRITING_DATA" /\ rc[Consumer] # "WRITING_DATA" =>
            \/ \E p \in Producers : Writing(p) /\ curr_head[p] = tail
            \/ consumerEnds # "never" /\ head = tail
            \/ consumerEnds = "stuck"]_vars

\* A push answers CONTENTION only if another push claimed the position it read.
ContentionMeansProgress ==
    [][\A p \in Producers : rc'[p] = "CONTENTION" /\ rc[p] # "CONTENTION" =>
            head > curr_head[p]]_vars

-----------------------------------------------------------------------------
(* A push takes effect at its compare-and-swap: from there to its copy the *)
(* object is still in the producer's args.  A pop takes effect when the    *)
(* object is copied: the cell then is no longer part of the queue.         *)

Unwritten(p, k) == pc[p] = "copy" /\ curr_head[p] = k

ObjectAt(k) ==
    IF \E p \in Producers : Unwritten(p, k)
    THEN val[CHOOSE p \in Producers : Unwritten(p, k)]
    ELSE buffer[Idx(k)]

Taken == IF pc[Consumer] \in {"emptySlot", "release"} THEN 1 ELSE 0

absQueue == [i \in 1 .. head - tail - Taken |-> ObjectAt(tail + Taken + i - 1)]

Fifo == INSTANCE BoundedFifo
            WITH queue <- absQueue, got <- [c \in {Consumer} |-> val[c]],
                 Consumers <- {Consumer}, Capacity <- ObjNum

\* The consumer ended with an object in hand whose position it had not released.
PutBack ==
    /\ absQueue' = <<val[Consumer]>> \o absQueue
    /\ UNCHANGED val[Consumer]

\* The object the consumer has in hand is in its cell until it gives the cell back.
InHand ==
    pc[Consumer] \in {"emptySlot", "release"} => val[Consumer] = buffer[Idx(tail)]

\* Successful pushes and pops are those of one bounded FIFO queue, whatever the
\* order in which concurrent producers finish their copies.  If a consumer ends
\* between its copy and its release, that one object, and no other, is in the
\* queue again, at its head.
ImplementsFifo ==
    /\ Fifo!FifoInit
    /\ [][Fifo!FifoNext \/ (consumerEnds # "never" /\ PutBack)]_(Fifo!fifoVars)

-----------------------------------------------------------------------------
\* If no thread is starved, all retry, and the consumer is replaced no more from
\* some point on, all MaxPos objects go through: spurious FULL, CONTENTION and
\* WRITING_DATA answers never repeat for ever.  A consumer that ended elsewhere in
\* a pop leaves a ring that goes on; one that ended between its mark and its tail_
\* does not.
AllDelivered ==
    <>[][~ ConsumerRestart]_vars
        => <>(consumerEnds = "stuck" \/ (head = MaxPos /\ tail = MaxPos))

-----------------------------------------------------------------------------
(***************************************************************************)
(* The inductive invariant.  Every cell is accounted for: claimed and      *)
(* being written, published, or free.  A replaced consumer has a cache     *)
(* that says nothing; CellsExclusive and PopsArePublished do not need it.  *)
(***************************************************************************)
\* A claimed cell without a mark has its producer at work, or is in the hands of
\* the consumer that is about to give it back, or was when that consumer ended.
ClaimedCells ==
    \A k \in tail .. head - 1 :
        \/ slot[Idx(k)] = "VALID"
        \/ \E p \in Producers : Writing(p) /\ curr_head[p] = k
        \/ k = tail /\ (pc[Consumer] = "release" \/ consumerEnds = "stuck")

\* The cached head_ is one the ring had, and past the object at hand.
CachedHead ==
    consumerEnds = "never" =>
        /\ tail <= local_head /\ local_head <= head
        /\ pc[Consumer] = "loadSlot" \/ Reading => tail < local_head

FreeCells ==
    \A k \in head .. tail + ObjNum - 1 : slot[Idx(k)] = "EMPTY"

WritersOwn ==
    \A p \in Producers : Writing(p) =>
        /\ curr_head[p] \in tail .. head - 1
        /\ slot[Idx(curr_head[p])] = "EMPTY"

OnePositionEach ==
    \A p, q \in Producers :
        Writing(p) /\ Writing(q) /\ curr_head[p] = curr_head[q] => p = q

\* tail_ only grows, so the room a push saw is still there if head_ is unchanged.
StillTrueAtCas ==
    \A p \in Producers : pc[p] \in {"loadTail", "cas"} =>
        /\ curr_head[p] <= head
        /\ curr_head[p] < MaxPos
        /\ pc[p] = "cas" /\ curr_head[p] = head => head - tail < ObjNum

ConsumerKnows ==
    /\ Reading => tail < head
    /\ pc[Consumer] \in {"read", "emptySlot"} => slot[Idx(tail)] = "VALID"
    /\ pc[Consumer] = "release" =>
          /\ slot[Idx(tail)] = "EMPTY"
          /\ \A p \in Producers : Writing(p) => curr_head[p] # tail

IInv ==
    /\ TypeOK
    /\ NeverOverrun
    /\ ClaimedCells
    /\ CachedHead
    /\ FreeCells
    /\ WritersOwn
    /\ OnePositionEach
    /\ StillTrueAtCas
    /\ ConsumerKnows
=============================================================================
