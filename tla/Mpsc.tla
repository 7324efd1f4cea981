-------------------------------- MODULE Mpsc --------------------------------
(***************************************************************************)
(* The multi-producer single-consumer ring, src/src/RingBuf_Mpsc.c.        *)
(*                                                                         *)
(* A producer claims a position by a compare-and-swap on head_, after it   *)
(* has compared head_ with tail_, and marks the cell VALID when the object *)
(* is in.  The consumer learns from head_, which it caches in the thread's *)
(* local_head, that a position is claimed, and from the cell's mark that   *)
(* it is written; it marks the cell EMPTY before it gives it back by a     *)
(* store of tail_.                                                         *)
(*                                                                         *)
(* slot_stat & SLOT_UNKNOWN in the two pops is 0 whatever the mark is, so  *)
(* that their third branch is never taken and is not modelled.             *)
(***************************************************************************)
EXTENDS Integers

CONSTANTS
    Producers,      (* threads that call Push_MpscRingBuf                  *)
    Consumer,       (* the thread that calls the two pops                  *)
    Values,         (* the objects that can be pushed                      *)
    Junk,           (* the content of memory never written                 *)
    ObjNum,         (* objNum_, the number of cells                        *)
    MaxPos,         (* bound on head_: no position reaches MaxPos          *)
    SizeMod         (* 2 ^ 64: arithmetic on size_t is modulo SizeMod      *)

ASSUME ObjNumAssumption == ObjNum \in Nat /\ ObjNum >= 2
ASSUME MaxPosAssumption == MaxPos \in Nat
ASSUME SizeModAssumption == SizeMod \in Nat /\ SizeMod > MaxPos + ObjNum
ASSUME ThreadAssumption == Consumer \notin Producers
ASSUME JunkAssumption == Junk \notin Values

VARIABLES
    head,           (* r->head_: the next position to claim                *)
    tail,           (* r->tail_: the next position to pop                  *)
    slot,           (* GET_SLOT(r, i): the mark of each cell               *)
    buffer,         (* GET_BUFFER(r): the object in each cell              *)
    local_head,     (* the last head_ the consumer thread loaded           *)
    pc,             (* the next shared access of each thread               *)
    curr_head,      (* the head_ each producer's current push loaded       *)
    val,            (* its args (producers) or buf (the consumer)          *)
    rc,             (* what its last call returned                         *)
    consumerEnds    (* whether consumers "never" end or "may" be replaced; *)
                    (* "stuck" once one ended between its two last stores  *)

vars == <<head, tail, slot, buffer, local_head, pc, curr_head, val, rc, consumerEnds>>

Threads == Producers \cup {Consumer}
Cells == 0 .. ObjNum - 1
Objects == Values \cup {Junk}

PushPc == {"idle", "loadTail", "cas", "copy", "publish"}
PopPc == {"idle", "loadHead", "loadSlot", "read", "emptySlot", "release"}
PushCodes == {"none", "OK", "FULL", "CONTENTION", "SIZE_TOO_LARGE"}
PopCodes == {"none", "OK", "EMPTY", "WRITING_DATA", "SIZE_TOO_LARGE"}

\* idx = k & r->mask_
Idx(k) == k % ObjNum

\* a - b on size_t
USub(a, b) == (a - b) % SizeMod

Init ==
    /\ head = 0
    /\ tail = 0
    /\ slot = [i \in Cells |-> "EMPTY"]
    /\ buffer = [i \in Cells |-> Junk]
    /\ local_head = 0
    /\ pc = [t \in Threads |-> "idle"]
    /\ curr_head = [p \in Producers |-> 0]
    /\ val = [t \in Threads |-> Junk]
    /\ rc = [t \in Threads |-> "none"]
    /\ consumerEnds \in {"never", "may"}

Goto(t, label) ==
    /\ pc' = [pc EXCEPT ![t] = label]
    /\ UNCHANGED rc

Return(t, code) ==
    /\ pc' = [pc EXCEPT ![t] = "idle"]
    /\ rc' = [rc EXCEPT ![t] = code]

SizeTooLarge(t) ==
    /\ pc[t] = "idle"
    /\ Return(t, "SIZE_TOO_LARGE")
    /\ UNCHANGED <<head, tail, slot, buffer, local_head, curr_head, val, consumerEnds>>

-----------------------------------------------------------------------------
(* Push_MpscRingBuf *)

PushLoadHead(p) ==
    /\ pc[p] = "idle"
    /\ head < MaxPos
    /\ curr_head' = [curr_head EXCEPT ![p] = head]
    /\ \E v \in Values : val' = [val EXCEPT ![p] = v]
    /\ pc' = [pc EXCEPT ![p] = "loadTail"]
    /\ rc' = [rc EXCEPT ![p] = "none"]
    /\ UNCHANGED <<head, tail, slot, buffer, local_head, consumerEnds>>

\* Mutants of Full: > for >=; one cell is kept free.
FullOneMore(p) == USub(curr_head[p], tail) > ObjNum
FullOneLess(p) == USub(curr_head[p], tail) >= ObjNum - 1

\* By now the ring may have moved on: tail_ may be past curr_head.
Full(p) == USub(curr_head[p], tail) >= ObjNum

PushLoadTail(p) ==
    /\ pc[p] = "loadTail"
    /\ \/ Full(p) /\ Return(p, "FULL")
       \/ ~ Full(p) /\ Goto(p, "cas")
    /\ UNCHANGED <<head, tail, slot, buffer, local_head, curr_head, val, consumerEnds>>

\* Mutant of CasFails: the weak compare-and-swap, which may fail for no reason.
CasFailsWeak(p) == TRUE

CasFails(p) == head # curr_head[p]

PushCas(p) ==
    /\ pc[p] = "cas"
    /\ \/ /\ head = curr_head[p]
          /\ head' = curr_head[p] + 1
          /\ Goto(p, "copy")
       \/ /\ CasFails(p)
          /\ UNCHANGED head
          /\ Return(p, "CONTENTION")
    /\ UNCHANGED <<tail, slot, buffer, local_head, curr_head, val, consumerEnds>>

\* Mutant of Cell: the cell of the head_ of now.
CellOfNow(p) == Idx(head)

Cell(p) == Idx(curr_head[p])

PushCopy(p) ==
    /\ pc[p] = "copy"
    /\ buffer' = [buffer EXCEPT ![Cell(p)] = val[p]]
    /\ Goto(p, "publish")
    /\ UNCHANGED <<head, tail, slot, local_head, curr_head, val, consumerEnds>>

\* Mutant of Mark: the cell is not marked.
NoMark(p) == UNCHANGED slot

Mark(p) == slot' = [slot EXCEPT ![Cell(p)] = "VALID"]

PushPublish(p) ==
    /\ pc[p] = "publish"
    /\ Mark(p)
    /\ Return(p, "OK")
    /\ UNCHANGED <<head, tail, buffer, local_head, curr_head, val, consumerEnds>>

PushStep(p) ==
    PushLoadTail(p) \/ PushCas(p) \/ PushCopy(p) \/ PushPublish(p)

Push(p) == SizeTooLarge(p) \/ PushLoadHead(p) \/ PushStep(p)

-----------------------------------------------------------------------------
(* Pop_MpscRingBuf, and Pop_w_cb_MpscRingBuf, which runs the callback on   *)
(* the cell where Pop copies it and has no size to check.  tail_ is        *)
(* written by this thread only, so that curr_tail is tail_.                *)

PopBegin ==
    /\ pc[Consumer] = "idle"
    /\ pc' = [pc EXCEPT ![Consumer] = IF local_head = tail THEN "loadHead" ELSE "loadSlot"]
    /\ rc' = [rc EXCEPT ![Consumer] = "none"]
    /\ UNCHANGED <<head, tail, slot, buffer, local_head, curr_head, val, consumerEnds>>

PopLoadHead ==
    /\ pc[Consumer] = "loadHead"
    /\ local_head' = head
    /\ \/ head = tail /\ Return(Consumer, "EMPTY")
       \/ head # tail /\ Goto(Consumer, "loadSlot")
    /\ UNCHANGED <<head, tail, slot, buffer, curr_head, val, consumerEnds>>

\* Mutant of Marked: a claimed position is taken for a published one.
MarkedIfClaimed == TRUE

Marked == slot[Idx(tail)] # "EMPTY"

PopLoadSlot ==
    /\ pc[Consumer] = "loadSlot"
    /\ \/ ~ Marked /\ Return(Consumer, "WRITING_DATA")
       \/ Marked /\ Goto(Consumer, "read")
    /\ UNCHANGED <<head, tail, slot, buffer, local_head, curr_head, val, consumerEnds>>

PopRead ==
    /\ pc[Consumer] = "read"
    /\ val' = [val EXCEPT ![Consumer] = buffer[Idx(tail)]]
    /\ Goto(Consumer, "emptySlot")
    /\ UNCHANGED <<head, tail, slot, buffer, local_head, curr_head, consumerEnds>>

\* Mutants of Unmark: SLOT_UNKNOWN is stored; the mark of the last lap stays.
UnmarkUnknown == slot' = [slot EXCEPT ![Idx(tail)] = "UNKNOWN"]
UnmarkNot == UNCHANGED slot

Unmark == slot' = [slot EXCEPT ![Idx(tail)] = "EMPTY"]

PopEmptySlot ==
    /\ pc[Consumer] = "emptySlot"
    /\ Unmark
    /\ Goto(Consumer, "release")
    /\ UNCHANGED <<head, tail, buffer, local_head, curr_head, val, consumerEnds>>

PopRelease ==
    /\ pc[Consumer] = "release"
    /\ tail' = tail + 1
    /\ Return(Consumer, "OK")
    /\ UNCHANGED <<head, slot, buffer, local_head, curr_head, val, consumerEnds>>

Pop_w_cb ==
    \/ PopBegin \/ PopLoadHead \/ PopLoadSlot
    \/ PopRead \/ PopEmptySlot \/ PopRelease

Pop == SizeTooLarge(Consumer) \/ Pop_w_cb

-----------------------------------------------------------------------------
\* The consumer thread ends wherever it is and a new one takes its part (a
\* process that maps the ring again with MAP_EXISTS): its local_head is 0.
\* consumerEnds also notes that it ended after it marked its cell EMPTY and before
\* it stored tail_.
ConsumerRestart ==
    /\ consumerEnds # "never"
    /\ local_head' = 0
    /\ pc' = [pc EXCEPT ![Consumer] = "idle"]
    /\ rc' = [rc EXCEPT ![Consumer] = "none"]
    /\ consumerEnds' = IF pc[Consumer] = "release" THEN "stuck" ELSE consumerEnds
    /\ UNCHANGED <<head, tail, slot, buffer, curr_head, val>>

Next ==
    \/ \E p \in Producers : Push(p)
    \/ Pop
    \/ ConsumerRestart

Spec == Init /\ [][Next]_vars

\* The scheduler starves no thread, producers retry until MaxPos objects are in
\* and the consumer keeps popping: the loops of test/c.
FairSpec ==
    /\ Spec
    /\ \A p \in Producers : WF_vars(PushLoadHead(p) \/ PushStep(p))
    /\ WF_vars(Pop_w_cb)
=============================================================================
