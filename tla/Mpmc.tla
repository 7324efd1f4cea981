-------------------------------- MODULE Mpmc --------------------------------
(***************************************************************************)
(* The multi-producer multi-consumer ring, src/src/RingBuf_Mpmc.c.         *)
(*                                                                         *)
(* head_ and tail_ count the positions claimed by producers and by         *)
(* consumers.  Position k lives in cell k & mask_, and each cell has a     *)
(* sequence number in `slot`: k when the cell waits for the push of        *)
(* position k, k + 1 when position k can be popped, k + objNum once it was *)
(* popped.  A thread claims a position by a compare-and-swap on head_ or   *)
(* tail_, then owns the cell until it stores the next sequence number.     *)
(*                                                                         *)
(* One action per access to shared memory: between any two of them every   *)
(* other thread may run, and a thread may stop for good at any of them (a  *)
(* killed process).  Producers and Consumers are disjoint because no state *)
(* outlives a call: a thread that both pushes and pops is a producer and a *)
(* consumer that never run at the same time.                               *)
(***************************************************************************)
EXTENDS Integers

CONSTANTS
    Producers,  (* threads that call Push_MpmcRingBuf                      *)
    Consumers,  (* threads that call Pop_MpmcRingBuf, Pop_w_cb_MpmcRingBuf *)
    Values,     (* the objects that can be pushed                          *)
    Junk,       (* the content of a cell or caller's buffer never written  *)
    ObjNum,     (* objNum_, the number of cells                            *)
    MaxPos      (* bound on head_: no position reaches MaxPos              *)

\* get_buf refuses objNum < 2.  It also refuses all but powers of two, for
\* which k & mask_ is k % objNum; nothing below needs more than the remainder.
ASSUME ObjNumAssumption == ObjNum \in Nat /\ ObjNum >= 2
ASSUME MaxPosAssumption == MaxPos \in Nat
ASSUME ThreadAssumption == Producers \cap Consumers = {}
ASSUME JunkAssumption == Junk \notin Values

VARIABLES
    head,       (* r->head_: the next position to push                     *)
    tail,       (* r->tail_: the next position to pop                      *)
    slot,       (* GET_SLOT(r, i): the sequence number of each cell        *)
    buffer,     (* GET_BUFFER(r): the object in each cell                  *)
    pc,         (* the next shared access of each thread                   *)
    expected,   (* its expected_head or expected_tail                      *)
    val,        (* its args (producers) or buf (consumers)                 *)
    rc          (* what its last call returned                             *)

ring == <<head, tail, slot, buffer>>
vars == <<head, tail, slot, buffer, pc, expected, val, rc>>

Threads == Producers \cup Consumers
Cells == 0 .. ObjNum - 1
Objects == Values \cup {Junk}

PushPc == {"idle", "loadSlot", "cas", "copy", "publish"}
PopPc == {"idle", "loadSlot", "cas", "read", "release"}
ResultCodes == {"none", "OK", "FULL", "EMPTY", "CONTENTION", "SIZE_TOO_LARGE"}

\* idx = k & r->mask_
Idx(k) == k % ObjNum

\* Mutant of FirstSlots: get_buf without the loop that numbers the slots.
FirstSlotsZero == [i \in Cells |-> 0]

FirstSlots == [i \in Cells |-> i]

Init ==
    /\ head = 0
    /\ tail = 0
    /\ slot = FirstSlots
    /\ buffer = [i \in Cells |-> Junk]
    /\ pc = [t \in Threads |-> "idle"]
    /\ expected = [t \in Threads |-> 0]
    /\ val = [t \in Threads |-> Junk]
    /\ rc = [t \in Threads |-> "none"]

-----------------------------------------------------------------------------
Goto(t, label) ==
    /\ pc' = [pc EXCEPT ![t] = label]
    /\ UNCHANGED rc

Return(t, code) ==
    /\ pc' = [pc EXCEPT ![t] = "idle"]
    /\ rc' = [rc EXCEPT ![t] = code]

\* The size check comes before any access to the ring.
SizeTooLarge(t) ==
    /\ pc[t] = "idle"
    /\ Return(t, "SIZE_TOO_LARGE")
    /\ UNCHANGED <<head, tail, slot, buffer, expected, val>>

-----------------------------------------------------------------------------
(* Push_MpmcRingBuf *)

PushLoadHead(p) ==
    /\ pc[p] = "idle"
    /\ head < MaxPos
    /\ expected' = [expected EXCEPT ![p] = head]
    /\ \E v \in Values : val' = [val EXCEPT ![p] = v]
    /\ pc' = [pc EXCEPT ![p] = "loadSlot"]
    /\ rc' = [rc EXCEPT ![p] = "none"]
    /\ UNCHANGED ring

\* Mutants of SlotBehind and SlotNotReady: the sign of dif the wrong way round.
SlotBehindSigns(dif) == dif > 0
SlotNotReadySigns(dif) == dif > 0

\* dif < 0: the cell still has the object of the lap before.
SlotBehind(dif) == dif < 0

PushLoadSlot(p) ==
    /\ pc[p] = "loadSlot"
    /\ LET dif == slot[Idx(expected[p])] - expected[p]
       IN  \/ dif # 0 /\ ~ SlotBehind(dif) /\ Return(p, "CONTENTION")
           \/ SlotBehind(dif) /\ Return(p, "FULL")
           \/ dif = 0 /\ Goto(p, "cas")
    /\ UNCHANGED <<head, tail, slot, buffer, expected, val>>

\* Mutant of PushWins: a plain store of head_.
PushWinsAlways(p) == TRUE

PushWins(p) == head = expected[p]

PushCas(p) ==
    /\ pc[p] = "cas"
    /\ \/ /\ PushWins(p)
          /\ head' = expected[p] + 1
          /\ Goto(p, "copy")
       \/ /\ ~ PushWins(p)
          /\ UNCHANGED head
          /\ Return(p, "CONTENTION")
    /\ UNCHANGED <<tail, slot, buffer, expected, val>>

\* Mutant of CellOf: the cell of the head_ of now.
CellOfNow(p) == Idx(head)

CellOf(p) == Idx(expected[p])

PushCopy(p) ==
    /\ pc[p] = "copy"
    /\ buffer' = [buffer EXCEPT ![CellOf(p)] = val[p]]
    /\ Goto(p, "publish")
    /\ UNCHANGED <<head, tail, slot, expected, val>>

PushPublish(p) ==
    /\ pc[p] = "publish"
    /\ slot' = [slot EXCEPT ![Idx(expected[p])] = expected[p] + 1]
    /\ Return(p, "OK")
    /\ UNCHANGED <<head, tail, buffer, expected, val>>

PushStep(p) ==
    PushLoadSlot(p) \/ PushCas(p) \/ PushCopy(p) \/ PushPublish(p)

Push(p) == SizeTooLarge(p) \/ PushLoadHead(p) \/ PushStep(p)

-----------------------------------------------------------------------------
(* Pop_MpmcRingBuf, and Pop_w_cb_MpmcRingBuf, which runs the caller's      *)
(* callback on the cell where Pop copies it and has no size to check.      *)

PopLoadTail(c) ==
    /\ pc[c] = "idle"
    /\ expected' = [expected EXCEPT ![c] = tail]
    /\ pc' = [pc EXCEPT ![c] = "loadSlot"]
    /\ rc' = [rc EXCEPT ![c] = "none"]
    /\ UNCHANGED <<head, tail, slot, buffer, val>>

\* dif < 0: the object of this lap is not there yet.
SlotNotReady(dif) == dif < 0

PopLoadSlot(c) ==
    /\ pc[c] = "loadSlot"
    /\ LET dif == slot[Idx(expected[c])] - (expected[c] + 1)
       IN  \/ dif # 0 /\ ~ SlotNotReady(dif) /\ Return(c, "CONTENTION")
           \/ SlotNotReady(dif) /\ Return(c, "EMPTY")
           \/ dif = 0 /\ Goto(c, "cas")
    /\ UNCHANGED <<head, tail, slot, buffer, expected, val>>

PopCas(c) ==
    /\ pc[c] = "cas"
    /\ \/ /\ tail = expected[c]
          /\ tail' = expected[c] + 1
          /\ Goto(c, "read")
       \/ /\ tail # expected[c]
          /\ UNCHANGED tail
          /\ Return(c, "CONTENTION")
    /\ UNCHANGED <<head, slot, buffer, expected, val>>

PopRead(c) ==
    /\ pc[c] = "read"
    /\ val' = [val EXCEPT ![c] = buffer[Idx(expected[c])]]
    /\ Goto(c, "release")
    /\ UNCHANGED <<head, tail, slot, buffer, expected>>

\* Mutants of NextLap: one lap back; the sequence number stays.
NextLapBack(k) == k - ObjNum
NextLapNever(k) == k + 1

NextLap(k) == k + ObjNum

PopRelease(c) ==
    /\ pc[c] = "release"
    /\ slot' = [slot EXCEPT ![Idx(expected[c])] = NextLap(expected[c])]
    /\ Return(c, "OK")
    /\ UNCHANGED <<head, tail, buffer, expected, val>>

Pop_w_cb(c) ==
    \/ PopLoadTail(c) \/ PopLoadSlot(c) \/ PopCas(c)
    \/ PopRead(c) \/ PopRelease(c)

Pop(c) == SizeTooLarge(c) \/ Pop_w_cb(c)

-----------------------------------------------------------------------------
Next ==
    \/ \E p \in Producers : Push(p)
    \/ \E c \in Consumers : Pop(c)

Spec == Init /\ [][Next]_vars

(***************************************************************************)
(* Every producer pushes again until all MaxPos objects are in, whatever   *)
(* its last call returned, and every consumer keeps popping: the retry     *)
(* loops of test/c/producer.c and test/c/consumer.c.  The scheduler does   *)
(* not starve a thread.  Nothing is assumed of calls with a wrong size.    *)
(***************************************************************************)
FairSpec ==
    /\ Spec
    /\ \A p \in Producers : WF_vars(PushLoadHead(p) \/ PushStep(p))
    /\ \A c \in Consumers : WF_vars(Pop_w_cb(c))
=============================================================================
