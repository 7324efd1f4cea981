-------------------------------- MODULE Block --------------------------------
(***************************************************************************)
(* The blocking ring, src/src/RingBuf_Block.c: head_, tail_ and the cells  *)
(* are only touched under the mutex mtx; producers wait on the condition   *)
(* variable writeable while the ring is full, consumers on readable while  *)
(* it is empty.                                                            *)
(*                                                                         *)
(* The mutex and the condition variables are those of POSIX threads:       *)
(* pthread_cond_wait releases the mutex and starts to wait in one step,    *)
(* and must get the mutex again before it returns; pthread_cond_signal     *)
(* wakes some waiter if there is one; a waiter may also wake for no        *)
(* reason.                                                                 *)
(*                                                                         *)
(* No index is kept outside the mutex, so that nothing bounds the model:   *)
(* head_ and tail_ count modulo SizeMod, and go round.                     *)
(***************************************************************************)
EXTENDS Integers, FiniteSets

CONSTANTS
    Producers,  (* threads that call Push_BlockRingBuf                     *)
    Consumers,  (* threads that call Pop_BlockRingBuf                      *)
    Values,     (* the objects that can be pushed                          *)
    Junk,       (* the content of memory never written                     *)
    Nobody,     (* the owner of a free mutex                               *)
    ObjNum,     (* objNum_, the number of cells                            *)
    SizeMod     (* 2 ^ 64: size_t counts modulo SizeMod                    *)

\* objNum_ is a power of two, hence divides 2 ^ 64.
ASSUME ObjNumAssumption == ObjNum \in Nat /\ ObjNum >= 2
ASSUME SizeModAssumption ==
    SizeMod \in Nat /\ SizeMod > ObjNum /\ SizeMod % ObjNum = 0
ASSUME ThreadAssumption ==
    /\ Producers \cap Consumers = {}
    /\ Nobody \notin Producers \cup Consumers
    /\ IsFiniteSet(Producers) /\ IsFiniteSet(Consumers)
ASSUME JunkAssumption == Junk \notin Values

VARIABLES
    head,       (* r->head_                                                *)
    tail,       (* r->tail_                                                *)
    buffer,     (* r->buffer: the object in each cell                      *)
    mtx,        (* the thread that holds r->mtx, or Nobody                 *)
    pc,         (* where each thread is                                    *)
    val         (* the args of its call (producers) or its buf (consumers) *)

vars == <<head, tail, buffer, mtx, pc, val>>

Threads == Producers \cup Consumers
Cells == 0 .. ObjNum - 1
Objects == Values \cup {Junk}

\* "lock" covers pthread_mutex_lock and the end of pthread_cond_wait, both of
\* which wait for the mutex and go on to the test of the while loop.
Labels == {"idle", "lock", "test", "wait", "signal", "unlock"}

Idx(k) == k % ObjNum

\* r->head_ - r->tail_ and the increments, on size_t
Size == (head - tail) % SizeMod
Incr(k) == (k + 1) % SizeMod

Init ==
    /\ head = 0
    /\ tail = 0
    /\ buffer = [i \in Cells |-> Junk]
    /\ mtx = Nobody
    /\ pc = [t \in Threads |-> "idle"]
    /\ val = [t \in Threads |-> Junk]

Goto(t, label) == pc' = [pc EXCEPT ![t] = label]

-----------------------------------------------------------------------------
(* The mutex and the condition variables *)

Lock(t) ==
    /\ pc[t] = "lock"
    /\ mtx = Nobody
    /\ mtx' = t
    /\ Goto(t, "test")
    /\ UNCHANGED <<head, tail, buffer, val>>

CondWait(t) ==
    /\ mtx' = Nobody
    /\ Goto(t, "wait")
    /\ UNCHANGED <<head, tail, buffer, val>>

\* Thread t signals the condition variable on which `side` waits.
CondSignal(t, side) ==
    LET waiters == {w \in side : pc[w] = "wait"} IN
    /\ pc[t] = "signal"
    /\ \/ /\ waiters = {}
          /\ Goto(t, "unlock")
       \/ \E w \in waiters : pc' = [pc EXCEPT ![w] = "lock", ![t] = "unlock"]
    /\ UNCHANGED <<head, tail, buffer, mtx, val>>

SpuriousWakeup(t) ==
    /\ pc[t] = "wait"
    /\ Goto(t, "lock")
    /\ UNCHANGED <<head, tail, buffer, mtx, val>>

Unlock(t) ==
    /\ pc[t] = "unlock"
    /\ mtx' = Nobody
    /\ Goto(t, "idle")
    /\ val' = IF t \in Producers THEN [val EXCEPT ![t] = Junk] ELSE val
    /\ UNCHANGED <<head, tail, buffer>>

\* The size is checked before the mutex is taken: such a call changes nothing.
SizeTooLarge(t) == pc[t] = "idle" /\ UNCHANGED vars

-----------------------------------------------------------------------------
(* Push_BlockRingBuf *)

PushBegin(p) ==
    /\ pc[p] = "idle"
    /\ Goto(p, "lock")
    /\ \E v \in Values : val' = [val EXCEPT ![p] = v]
    /\ UNCHANGED <<head, tail, buffer, mtx>>

\* Mutant of Full: > for >=.
FullOneMore == Size > ObjNum

Full == Size >= ObjNum

PushWait(p) ==
    /\ pc[p] = "test"
    /\ Full
    /\ CondWait(p)

\* Mutant of Store: head_ is advanced before the copy.
StoreAfterIncr(p) == buffer' = [buffer EXCEPT ![Idx(Incr(head))] = val[p]]

Store(p) == buffer' = [buffer EXCEPT ![Idx(head)] = val[p]]

\* Mutants of Signal: there is a signal only if the ring was empty; none at all.
SignalIfEmpty(p) == Goto(p, IF head = tail THEN "signal" ELSE "unlock")
SignalNot(p) == Goto(p, "unlock")

Signal(p) == Goto(p, "signal")

PushInsert(p) ==
    /\ pc[p] = "test"
    /\ ~ Full
    /\ Store(p)
    /\ head' = Incr(head)
    /\ Signal(p)
    /\ UNCHANGED <<tail, mtx, val>>

PushStep(p) ==
    PushWait(p) \/ PushInsert(p) \/ CondSignal(p, Consumers) \/ Unlock(p)

Push(p) ==
    \/ SizeTooLarge(p) \/ PushBegin(p) \/ Lock(p)
    \/ PushStep(p) \/ SpuriousWakeup(p)

-----------------------------------------------------------------------------
(* Pop_BlockRingBuf *)

PopBegin(c) ==
    /\ pc[c] = "idle"
    /\ Goto(c, "lock")
    /\ UNCHANGED <<head, tail, buffer, mtx, val>>

PopWait(c) ==
    /\ pc[c] = "test"
    /\ head = tail
    /\ CondWait(c)

PopRemove(c) ==
    /\ pc[c] = "test"
    /\ head # tail
    /\ val' = [val EXCEPT ![c] = buffer[Idx(tail)]]
    /\ tail' = Incr(tail)
    /\ Goto(c, "signal")
    /\ UNCHANGED <<head, buffer, mtx>>

PopStep(c) ==
    PopWait(c) \/ PopRemove(c) \/ CondSignal(c, Producers) \/ Unlock(c)

Pop(c) ==
    \/ SizeTooLarge(c) \/ PopBegin(c) \/ Lock(c)
    \/ PopStep(c) \/ SpuriousWakeup(c)

-----------------------------------------------------------------------------
Next ==
    \/ \E p \in Producers : Push(p)
    \/ \E c \in Consumers : Pop(c)

Spec == Init /\ [][Next]_vars

(***************************************************************************)
(* Threads call again and again, as in the loops of test/c, and are        *)
(* scheduled.  The mutex is strongly fair: a thread that waits for it      *)
(* while others take and release it gets it in the end.  No fairness for   *)
(* spurious wakeups: nothing may depend on them.                           *)
(***************************************************************************)
FairSpec ==
    /\ Spec
    /\ \A t \in Threads : SF_vars(Lock(t))
    /\ \A p \in Producers : WF_vars(PushBegin(p)) /\ WF_vars(PushStep(p))
    /\ \A c \in Consumers : WF_vars(PopBegin(c)) /\ WF_vars(PopStep(c))
=============================================================================
