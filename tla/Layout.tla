------------------------------- MODULE Layout -------------------------------
(***************************************************************************)
(* Where the parts of a ring lie in its memory: get_aligned_offset,        *)
(* get_total_size and the size in get_block_buf of                         *)
(* src/src/RingBuf_common.c, and the addresses the rings compute from      *)
(* them.  Arithmetic on size_t is modulo SizeMod.                          *)
(***************************************************************************)
EXTENDS Integers

CONSTANTS
    CacheLine,      (* CACHE_LINE_SIZE, a power of two                     *)
    SizeofRingBuf,  (* sizeof(RingBuf_t)                                   *)
    SizeofSlot,     (* sizeof(Slot_t)                                      *)
    SizeofBRingBuf, (* sizeof(BRingBuf_t), where buffer begins             *)
    SizeMod         (* 2 ^ 64                                              *)

ASSUME LayoutAssumption ==
    /\ CacheLine \in Nat /\ CacheLine >= 1
    /\ SizeofRingBuf \in Nat /\ SizeofSlot \in Nat /\ SizeofBRingBuf \in Nat
    /\ SizeMod \in Nat /\ SizeMod >= 1

\* y & ~(CACHE_LINE_SIZE - 1) clears the remainder of the power of two.
get_aligned_offset(x) ==
    LET y == (x + CacheLine - 1) % SizeMod IN y - (y % CacheLine)

aligned_objSize(objSize) == get_aligned_offset(objSize)

buf_off_s == get_aligned_offset(SizeofRingBuf)

buf_off_e(objNum, objSize) ==
    get_aligned_offset((buf_off_s + aligned_objSize(objSize) * objNum) % SizeMod)

slot_off_s(objNum, objSize) == get_aligned_offset(buf_off_e(objNum, objSize))

slot_off_e(objNum, objSize) ==
    get_aligned_offset((slot_off_s(objNum, objSize) + SizeofSlot * objNum) % SizeMod)

total_size(objNum, objSize, useSlot) ==
    IF useSlot \in {"MPMC_SLOT", "MPSC_SLOT"} THEN slot_off_e(objNum, objSize)
                                              ELSE buf_off_e(objNum, objSize)

\* totalSize in get_block_buf.
block_total_size(objNum, objSize) ==
    (SizeofBRingBuf + aligned_objSize(objSize) * objNum) % SizeMod

\* GET_BUFFER(r) + i * r->objSize_, and the address of GET_SLOT(r, i).
CellAt(objSize, i) == buf_off_s + i * aligned_objSize(objSize)
SlotAt(objNum, objSize, i) == slot_off_s(objNum, objSize) + i * SizeofSlot

\* &r->buffer[i * r->objSize_] of the blocking ring.
BlockCellAt(objSize, i) == SizeofBRingBuf + i * aligned_objSize(objSize)

\* What the callers have to ensure, since get_total_size does not check it.
NoOverflow(objNum, objSize) ==
    /\ SizeofRingBuf + (objSize + CacheLine) * objNum + SizeofSlot * objNum
           + 4 * CacheLine <= SizeMod
    /\ objSize + CacheLine <= SizeMod

\* The same for get_block_buf.
BlockNoOverflow(objNum, objSize) ==
    /\ SizeofBRingBuf + (objSize + CacheLine) * objNum < SizeMod
    /\ objSize + CacheLine <= SizeMod
=============================================================================
