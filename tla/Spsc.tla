-------------------------------- MODULE Spsc --------------------------------
(***************************************************************************)
(* The single-producer single-consumer ring, src/src/RingBuf_Spsc.c.       *)
(*                                                                         *)
(* head_ and tail_ live in the ring, which several processes may map.  The *)
(* producer keeps the last tail_ it read, and the consumer the last head_, *)
(* in local_tail and local_head, so that most calls do not touch the other *)
(* side's cache line.  Those two variables are thread-local: there is one  *)
(* pair for each THREAD, zero when the thread starts, whatever the number  *)
(* of rings it uses.  Hence the model has a set of rings, a set of threads *)
(* and the assignment of the rings' two sides to threads; a thread may be  *)
(* replaced by a new one, as when a process is restarted and maps the ring *)
(* again with MAP_EXISTS.                                                  *)
(*                                                                         *)
(* Push and Pop, and the pairs Begin_push/End_push and Begin_pop/End_pop,  *)
(* make the same accesses: between the two halves of a pair the caller     *)
(* does the copy that Push and Pop do themselves.                          *)
(***************************************************************************)
EXTENDS Integers

CONSTANTS
    Rings,          (* the rings in use                                    *)
    Threads,        (* the threads that use them                           *)
    ProducerOf,     (* the thread that pushes into each ring               *)
    ConsumerOf,     (* the thread that pops from each ring                 *)
    Restartable,    (* the threads that may end and be replaced            *)
    Values,         (* the objects that can be pushed                      *)
    Junk,           (* the content of memory never written                 *)
    ObjNum,         (* objNum_, the number of cells of each ring           *)
    MaxPos,         (* bound on head_: no position reaches MaxPos          *)
    SizeMod         (* 2 ^ 64: arithmetic on size_t is modulo SizeMod      *)

ASSUME ObjNumAssumption == ObjNum \in Nat /\ ObjNum >= 2
ASSUME MaxPosAssumption == MaxPos \in Nat
ASSUME SizeModAssumption == SizeMod \in Nat /\ SizeMod > MaxPos + ObjNum
ASSUME SidesAssumption ==
    /\ ProducerOf \in [Rings -> Threads]
    /\ ConsumerOf \in [Rings -> Threads]
    /\ Restartable \subseteq Threads
ASSUME JunkAssumption == Junk \notin Values

VARIABLES
    head,           (* r->head_ of each ring                               *)
    tail,           (* r->tail_ of each ring                               *)
    buffer,         (* GET_BUFFER(r): the object in each cell              *)
    local_head,     (* of each thread: the last head_ its pops loaded      *)
    local_tail,     (* of each thread: the last tail_ its pushes loaded    *)
    pc,             (* the next shared access of each thread               *)
    on,             (* the ring its current call is about                  *)
    args,           (* the object each ring's current push writes          *)
    buf,            (* where each ring's pops store the object             *)
    pushRc,         (* what each ring's last push returned                 *)
    popRc,          (* what each ring's last pop returned                  *)
    sawRoom,        (* rings whose producer was told "not full" and has    *)
                    (* not pushed since                                    *)
    sawObject       (* rings whose consumer was told "not empty" and has   *)
                    (* not popped since                                    *)

caches == <<local_head, local_tail>>
answers == <<sawRoom, sawObject>>
vars == <<head, tail, buffer, local_head, local_tail, pc, on, args, buf,
          pushRc, popRc, sawRoom, sawObject>>

Cells == 0 .. ObjNum - 1
Objects == Values \cup {Junk}
Labels == {"idle", "loadTail", "write", "publish", "loadHead", "read", "release"}

\* idx = k & r->mask_
Idx(k) == k % ObjNum

\* a - b on size_t
USub(a, b) == (a - b) % SizeMod

Init ==
    /\ head = [r \in Rings |-> 0]
    /\ tail = [r \in Rings |-> 0]
    /\ buffer = [r \in Rings |-> [i \in Cells |-> Junk]]
    /\ local_head = [t \in Threads |-> 0]
    /\ local_tail = [t \in Threads |-> 0]
    /\ pc = [t \in Threads |-> "idle"]
    /\ on \in [Threads -> Rings]
    /\ args = [r \in Rings |-> Junk]
    /\ buf = [r \in Rings |-> Junk]
    /\ pushRc = [r \in Rings |-> "none"]
    /\ popRc = [r \in Rings |-> "none"]
    /\ sawRoom = {}
    /\ sawObject = {}

\* Thread t is about to make the access `label` of a call on ring r.
At(t, r, label) == pc[t] = label /\ on[t] = r

Goto(t, label) == pc' = [pc EXCEPT ![t] = label]

-----------------------------------------------------------------------------
(* Push_SpscRingBuf; Begin_push_SpscRingBuf and End_push_SpscRingBuf.      *)
(* head_ is written by this thread only, so that curr_head is head_.       *)

PushTooLarge(r) ==
    /\ pc[ProducerOf[r]] = "idle"
    /\ pushRc' = [pushRc EXCEPT ![r] = "SIZE_TOO_LARGE"]
    /\ UNCHANGED <<head, tail, buffer, caches, pc, on, args, buf, popRc, answers>>

\* Mutant of Full: > for >=.
FullOneMore(r, t) == USub(head[r], t) > ObjNum

\* With t for tail_, the ring r is full.
Full(r, t) == USub(head[r], t) >= ObjNum

\* The cached tail is looked at first; tail_ is loaded only if it says "full".
PushBegin(r) ==
    LET p == ProducerOf[r] IN
    /\ pc[p] = "idle"
    /\ head[r] < MaxPos
    /\ on' = [on EXCEPT ![p] = r]
    /\ \E v \in Values : args' = [args EXCEPT ![r] = v]
    /\ Goto(p, IF Full(r, local_tail[p]) THEN "loadTail" ELSE "write")
    /\ pushRc' = [pushRc EXCEPT ![r] = "none"]
    /\ UNCHANGED <<head, tail, buffer, caches, buf, popRc, answers>>

\* Mutants of TailNow and PushFails: head_ is cached for tail_; the error code of Pop.
TailNowIsHead(r) == head[r]
PushFailsEmpty(r) == pushRc' = [pushRc EXCEPT ![r] = "EMPTY"]

TailNow(r) == tail[r]
PushFails(r) == pushRc' = [pushRc EXCEPT ![r] = "FULL"]

PushLoadTail(r) ==
    LET p == ProducerOf[r] IN
    /\ At(p, r, "loadTail")
    /\ local_tail' = [local_tail EXCEPT ![p] = TailNow(r)]
    /\ \/ /\ Full(r, TailNow(r))
          /\ Goto(p, "idle")
          /\ PushFails(r)
       \/ /\ ~ Full(r, TailNow(r))
          /\ Goto(p, "write")
          /\ UNCHANGED pushRc
    /\ UNCHANGED <<head, tail, buffer, local_head, on, args, buf, popRc, answers>>

PushWrite(r) ==
    LET p == ProducerOf[r] IN
    /\ At(p, r, "write")
    /\ buffer' = [buffer EXCEPT ![r][Idx(head[r])] = args[r]]
    /\ Goto(p, "publish")
    /\ UNCHANGED <<head, tail, caches, on, args, buf, pushRc, popRc, answers>>

PushPublish(r) ==
    LET p == ProducerOf[r] IN
    /\ At(p, r, "publish")
    /\ head' = [head EXCEPT ![r] = @ + 1]
    /\ Goto(p, "idle")
    /\ pushRc' = [pushRc EXCEPT ![r] = "OK"]
    /\ sawRoom' = sawRoom \ {r}
    /\ UNCHANGED <<tail, buffer, caches, on, args, buf, popRc, sawObject>>

PushStep(r) == PushLoadTail(r) \/ PushWrite(r) \/ PushPublish(r)

Push(r) == PushTooLarge(r) \/ PushBegin(r) \/ PushStep(r)

-----------------------------------------------------------------------------
(* Pop_SpscRingBuf; Begin_pop_SpscRingBuf and End_pop_SpscRingBuf.         *)
(* tail_ is written by this thread only, so that curr_tail is tail_.       *)

PopTooLarge(r) ==
    /\ pc[ConsumerOf[r]] = "idle"
    /\ popRc' = [popRc EXCEPT ![r] = "SIZE_TOO_LARGE"]
    /\ UNCHANGED <<head, tail, buffer, caches, pc, on, args, buf, pushRc, answers>>

\* head_ is loaded only if the cached head says "empty".  (tail[r] <= MaxPos is
\* the model's bound: it cuts only what follows a pop that passed head_.)
PopBegin(r) ==
    LET c == ConsumerOf[r] IN
    /\ pc[c] = "idle"
    /\ tail[r] <= MaxPos
    /\ on' = [on EXCEPT ![c] = r]
    /\ Goto(c, IF local_head[c] = tail[r] THEN "loadHead" ELSE "read")
    /\ popRc' = [popRc EXCEPT ![r] = "none"]
    /\ UNCHANGED <<head, tail, buffer, caches, args, buf, pushRc, answers>>

\* Mutants of HeadNow and Found: the cached head again; no second test.
HeadNowCached(r) == local_head[ConsumerOf[r]]
FoundAlways(r) == TRUE

HeadNow(r) == head[r]
Found(r) == HeadNow(r) # tail[r]

PopLoadHead(r) ==
    LET c == ConsumerOf[r] IN
    /\ At(c, r, "loadHead")
    /\ local_head' = [local_head EXCEPT ![c] = HeadNow(r)]
    /\ \/ /\ ~ Found(r)
          /\ Goto(c, "idle")
          /\ popRc' = [popRc EXCEPT ![r] = "EMPTY"]
       \/ /\ Found(r)
          /\ Goto(c, "read")
          /\ UNCHANGED popRc
    /\ UNCHANGED <<head, tail, buffer, local_tail, on, args, buf, pushRc, answers>>

\* Mutant of Front: the cell after the one to pop.
FrontNext(r) == buffer[r][Idx(tail[r] + 1)]

Front(r) == buffer[r][Idx(tail[r])]

PopRead(r) ==
    LET c == ConsumerOf[r] IN
    /\ At(c, r, "read")
    /\ buf' = [buf EXCEPT ![r] = Front(r)]
    /\ Goto(c, "release")
    /\ UNCHANGED <<head, tail, buffer, caches, on, args, pushRc, popRc, answers>>

PopRelease(r) ==
    LET c == ConsumerOf[r] IN
    /\ At(c, r, "release")
    /\ tail' = [tail EXCEPT ![r] = @ + 1]
    /\ Goto(c, "idle")
    /\ popRc' = [popRc EXCEPT ![r] = "OK"]
    /\ sawObject' = sawObject \ {r}
    /\ UNCHANGED <<head, buffer, caches, on, args, buf, pushRc, sawRoom>>

PopStep(r) == PopLoadHead(r) \/ PopRead(r) \/ PopRelease(r)

Pop(r) == PopTooLarge(r) \/ PopBegin(r) \/ PopStep(r)

-----------------------------------------------------------------------------
(* The queries, called by one of the two sides: its own index cannot move  *)
(* during the call, so that the answer is that of the instant at which the *)
(* other index is loaded.                                                  *)

\* Mutant of HasRoom: > for >=.
HasRoomOneMore(r) == ~ (USub(head[r], tail[r]) > ObjNum)

HasRoom(r) == ~ Full(r, tail[r])

\* Is_full_SpscRingBuf, or Size_SpscRingBuf compared with Capacity_SpscRingBuf
IsFull(r) ==
    /\ pc[ProducerOf[r]] = "idle"
    /\ sawRoom' = IF HasRoom(r) THEN sawRoom \cup {r} ELSE sawRoom \ {r}
    /\ UNCHANGED <<head, tail, buffer, caches, pc, on, args, buf, pushRc, popRc, sawObject>>

IsEmpty(r) ==
    /\ pc[ConsumerOf[r]] = "idle"
    /\ sawObject' = IF head[r] = tail[r] THEN sawObject \ {r} ELSE sawObject \cup {r}
    /\ UNCHANGED <<head, tail, buffer, caches, pc, on, args, buf, pushRc, popRc, sawRoom>>

-----------------------------------------------------------------------------
\* Thread t ends wherever it is and a new one continues its part: the ring
\* stays in the mapping, the thread-local variables are zero again.
Restart(t) ==
    /\ t \in Restartable
    /\ local_head' = [local_head EXCEPT ![t] = 0]
    /\ local_tail' = [local_tail EXCEPT ![t] = 0]
    /\ Goto(t, "idle")
    /\ UNCHANGED <<head, tail, buffer, on, args, buf, pushRc, popRc, answers>>

Next ==
    \/ \E r \in Rings : Push(r) \/ Pop(r) \/ IsFull(r) \/ IsEmpty(r)
    \/ \E t \in Threads : Restart(t)

Spec == Init /\ [][Next]_vars

(***************************************************************************)
(* The scheduler starves no thread; the producer pushes until MaxPos       *)
(* objects are in and the consumer keeps popping, as in the loops of       *)
(* test/c/producer.c and test/c/consumer.c.                                *)
(***************************************************************************)
FairSpec ==
    /\ Spec
    /\ \A r \in Rings : /\ WF_vars(PushBegin(r) \/ PushStep(r))
                        /\ WF_vars(PopBegin(r) \/ PopStep(r))
=============================================================================
