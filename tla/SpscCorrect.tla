----------------------------- MODULE SpscCorrect -----------------------------
(***************************************************************************)
(* What makes the single-producer single-consumer ring correct, and its    *)
(* refinement of BoundedFifo.                                              *)
(***************************************************************************)
EXTENDS Spsc, Sequences

\* Every variable keeps its type.
TypeOK ==
    /\ head \in [Rings -> 0 .. MaxPos]
    /\ tail \in [Rings -> Nat]
    /\ buffer \in [Rings -> [Cells -> Objects]]
    /\ local_head \in [Threads -> Nat]
    /\ local_tail \in [Threads -> Nat]
    /\ pc \in [Threads -> Labels]
    /\ on \in [Threads -> Rings]
    /\ args \in [Rings -> Objects]
    /\ buf \in [Rings -> Objects]
    /\ pushRc \in [Rings -> {"none", "OK", "FULL", "SIZE_TOO_LARGE"}]
    /\ popRc \in [Rings -> {"none", "OK", "EMPTY", "SIZE_TOO_LARGE"}]
    /\ sawRoom \subseteq Rings
    /\ sawObject \subseteq Rings

\* The caller has the address of a cell: from the check of Push or Begin_push to
\* its store of head_, from the check of Pop or Begin_pop to its store of tail_.
Writing(r) == \E l \in {"write", "publish"} : At(ProducerOf[r], r, l)
Reading(r) == \E l \in {"read", "release"} : At(ConsumerOf[r], r, l)

\* Push and Begin_push never give out a cell of a full ring (public.h: "return
\* null if full"), although they mostly compare head_ with a cached tail.
PushNeedsRoom == \A r \in Rings : Writing(r) => head[r] - tail[r] < ObjNum

\* Pop and Begin_pop never give out a cell of an empty ring (public.h: "return
\* null if empty"), although they mostly compare tail_ with a cached head.
PopNeedsAnObject == \A r \in Rings : Reading(r) => tail[r] < head[r]

\* The producer's copy and the consumer's copy never touch the same cell.
CellsExclusive ==
    \A r \in Rings : Writing(r) /\ Reading(r) => Idx(head[r]) # Idx(tail[r])

\* Is_full answering "no" to the producer, and Is_empty answering "no" to the
\* consumer, stay true until that side's next success: the call that acts on the
\* answer does not fail, whatever the other side did in between.
AnswersHold ==
    [][\A r \in Rings :
        /\ pushRc'[r] = "FULL" /\ pushRc[r] # "FULL" => r \notin sawRoom
        /\ popRc'[r] = "EMPTY" /\ popRc[r] # "EMPTY" => r \notin sawObject]_vars

-----------------------------------------------------------------------------
(* A push takes effect when it stores head_.  A pop takes effect when the  *)
(* object is copied: the cell is then no longer part of the queue although *)
(* the producer cannot use it before tail_ is stored.                      *)

Taken(r) == IF At(ConsumerOf[r], r, "release") THEN 1 ELSE 0

absQueue(r) ==
    [i \in 1 .. head[r] - tail[r] - Taken(r) |->
        buffer[r][Idx(tail[r] + Taken(r) + i - 1)]]

Fifo(r) == INSTANCE BoundedFifo
               WITH queue <- absQueue(r), got <- [c \in {r} |-> buf[r]],
                    Consumers <- {r}, Capacity <- ObjNum

\* Every ring is a bounded FIFO queue: what the consumer gets is what the
\* producer pushed, each object once and in order, even if the producer is
\* replaced in the middle of a push.
ImplementsFifo ==
    /\ \A r \in Rings : Fifo(r)!FifoInit
    /\ [][\A r \in Rings : [Fifo(r)!FifoNext]_(Fifo(r)!fifoVars)]_vars

-----------------------------------------------------------------------------
\* If no thread is starved, both sides retry, and the producer is replaced no more
\* from some point on, all MaxPos objects go through: a cached index, also one that
\* starts again from zero, never keeps a side from seeing what the other did.
AllDelivered ==
    <>[][\A t \in Threads : ~ Restart(t)]_vars
        => <>(\A r \in Rings : head[r] = MaxPos /\ tail[r] = MaxPos)

-----------------------------------------------------------------------------
(***************************************************************************)
(* Why the caches are safe: each is a value the index had once, so it is   *)
(* behind the index now.  For the producer that is enough.  The consumer   *)
(* tests for equality, not for order: its cache must never be behind the   *)
(* tail_ it is compared with.                                              *)
(***************************************************************************)
CachedTailBehind ==
    \A r \in Rings : local_tail[ProducerOf[r]] <= tail[r]

CachedHeadBetween ==
    \A r \in Rings : LET c == ConsumerOf[r] IN
        /\ local_head[c] <= head[r]
        /\ tail[r] <= local_head[c]
        /\ Reading(r) => tail[r] < local_head[c]

NeverOverrun == \A r \in Rings : tail[r] <= head[r] /\ head[r] - tail[r] <= ObjNum

\* The bound of the model: a push under way has a position below MaxPos.
PushInBound ==
    \A r \in Rings :
        (\E l \in {"loadTail", "write", "publish"} : At(ProducerOf[r], r, l))
            => head[r] < MaxPos

IInv ==
    /\ TypeOK
    /\ PushInBound
    /\ NeverOverrun
    /\ CachedTailBehind
    /\ CachedHeadBetween
    /\ PushNeedsRoom

\* What an answer still stands for: the room and the objects a side was told of
\* can only have become more, until that side uses them.
AnswersTrue ==
    \A r \in Rings :
        /\ r \in sawRoom => head[r] - tail[r] < ObjNum
        /\ r \in sawObject => tail[r] < head[r]

\* The object of a push is the producer's until the copy, in the cell from then on.
ObjectReady ==
    \A r \in Rings : LET p == ProducerOf[r] IN
        /\ At(p, r, "loadTail") \/ At(p, r, "write") => args[r] \in Values
        /\ At(p, r, "publish") => buffer[r][Idx(head[r])] \in Values
=============================================================================
