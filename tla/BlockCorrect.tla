---------------------------- MODULE BlockCorrect ----------------------------
(***************************************************************************)
(* What makes the blocking ring correct, and its refinement of             *)
(* BoundedFifo.                                                            *)
(***************************************************************************)
EXTENDS Block, Sequences

\* Every variable keeps its type, and Size never exceeds the number of cells.
TypeOK ==
    /\ head \in 0 .. SizeMod - 1
    /\ tail \in 0 .. SizeMod - 1
    /\ Size \in 0 .. ObjNum
    /\ buffer \in [Cells -> Objects]
    /\ mtx \in Threads \cup {Nobody}
    /\ pc \in [Threads -> Labels]
    /\ val \in [Threads -> Objects]
    /\ \A p \in Producers : pc[p] # "idle" => val[p] \in Values

\* Threads of a side that will look at the ring again before they wait.
Awake(side) == {t \in side : pc[t] \in {"lock", "test"}}
Waiting(side) == {t \in side : pc[t] = "wait"}

\* A signal that was due and has not been sent yet.
Due(side) == Cardinality({t \in side : pc[t] = "signal"})

\* No wakeup is lost.  While a consumer waits, every object in the ring has a
\* consumer that is awake to take it, or a signal about to be sent; while a
\* producer waits, so has every free cell.  One signal for each push and each
\* pop is enough, with no broadcast; and all threads never wait at once.
NoLostWakeup ==
    /\ Waiting(Consumers) # {} =>
          Size <= Cardinality(Awake(Consumers)) + Due(Producers)
    /\ Waiting(Producers) # {} =>
          ObjNum - Size <= Cardinality(Awake(Producers)) + Due(Consumers)

-----------------------------------------------------------------------------
\* A push takes effect when it stores the object, a pop when it copies it.
absQueue == [i \in 1 .. Size |-> buffer[Idx(tail + i - 1)]]

Fifo == INSTANCE BoundedFifo
            WITH queue <- absQueue, got <- [c \in Consumers |-> val[c]],
                 Capacity <- ObjNum

\* The ring is a bounded FIFO queue for any number of threads, also when head_
\* and tail_ go past 2 ^ 64 and start again from zero.
ImplementsFifo == Fifo!FifoSpec

-----------------------------------------------------------------------------
\* If threads call again and again, objects are pushed and popped for ever: no
\* thread waits for a signal that nobody will send.
KeepsMoving == []<><<tail' # tail>>_vars /\ []<><<head' # head>>_vars
=============================================================================
