---------------------------- MODULE LayoutProofs ----------------------------
(***************************************************************************)
(* The parts of a ring lie one after the other inside its memory, for any  *)
(* number and size of objects that do not overflow size_t.                 *)
(***************************************************************************)
EXTENDS Layout, RingIndex

\* The offset is rounded up, by less than a cache line.
LEMMA AlignedOffset ==
    ASSUME NEW x \in Nat, x + CacheLine <= SizeMod
    PROVE  /\ get_aligned_offset(x) \in Nat
           /\ x <= get_aligned_offset(x)
           /\ get_aligned_offset(x) <= x + CacheLine - 1
<1> USE LayoutAssumption
<1> DEFINE y == x + CacheLine - 1
           m == y % CacheLine
           q == y \div CacheLine
<1>1. y \in 0 .. SizeMod - 1
    OBVIOUS
<1>2. y % SizeMod = y
    BY <1>1
<1>3. q \in Int /\ m \in 0 .. CacheLine - 1 /\ y = CacheLine * q + m
    BY <1>1, DivisionWithRemainder
<1>4. m <= y
    <2>1. q >= 0
        BY <1>1
    <2>2. CacheLine * q >= 0
        BY <1>3, <2>1
    <2> QED
        BY <1>3, <2>2
<1>5. get_aligned_offset(x) = (y % SizeMod) - ((y % SizeMod) % CacheLine)
    BY DEF get_aligned_offset
<1> HIDE DEF y, q
<1>6. get_aligned_offset(x) = y - m
    BY <1>2, <1>5
<1> HIDE DEF m
<1> QED
    BY <1>3, <1>4, <1>6 DEF y

\* The offsets get_buf computes, and what they leave room for.
LEMMA Offsets ==
    ASSUME NEW objNum \in Nat, NEW objSize \in Nat, NoOverflow(objNum, objSize)
    PROVE  /\ aligned_objSize(objSize) \in Nat /\ objSize <= aligned_objSize(objSize)
           /\ buf_off_s \in Nat /\ SizeofRingBuf <= buf_off_s
           /\ buf_off_e(objNum, objSize) \in Nat
           /\ buf_off_s + aligned_objSize(objSize) * objNum <= buf_off_e(objNum, objSize)
           /\ slot_off_s(objNum, objSize) \in Nat
           /\ buf_off_e(objNum, objSize) <= slot_off_s(objNum, objSize)
           /\ slot_off_e(objNum, objSize) \in Nat
           /\ slot_off_s(objNum, objSize) + SizeofSlot * objNum <= slot_off_e(objNum, objSize)
<1> USE LayoutAssumption
<1> DEFINE a == aligned_objSize(objSize)
           b == a * objNum
           c == (objSize + CacheLine) * objNum
           d == SizeofSlot * objNum
           e == buf_off_s
           f == buf_off_e(objNum, objSize)
           g == slot_off_s(objNum, objSize)
           h == slot_off_e(objNum, objSize)
<1>1. c \in Nat /\ d \in Nat
    OBVIOUS
<1>2. SizeofRingBuf + c + d + 4 * CacheLine <= SizeMod /\ objSize + CacheLine <= SizeMod
    BY DEF NoOverflow
<1>3. a \in Nat /\ objSize <= a /\ a <= objSize + CacheLine
    BY <1>2, AlignedOffset DEF aligned_objSize
<1>4. b \in Nat /\ b <= c
    <2>1. (objSize + CacheLine - a) * objNum \in Nat
        BY <1>3
    <2>2. c - b = (objSize + CacheLine - a) * objNum
        BY <1>3
    <2>3. b \in Nat
        BY <1>3
    <2> QED
        BY <1>1, <2>1, <2>2, <2>3
<1> HIDE DEF c, d
<1>5. e \in Nat /\ SizeofRingBuf <= e /\ e <= SizeofRingBuf + CacheLine - 1
    BY <1>1, <1>2, AlignedOffset DEF buf_off_s
<1>6. f \in Nat /\ e + b <= f /\ f <= e + b + CacheLine - 1
    <2>1. e + b \in 0 .. SizeMod - 1 /\ e + b + CacheLine <= SizeMod
        BY <1>1, <1>2, <1>4, <1>5
    <2> HIDE DEF b
    <2>2. (e + b) % SizeMod = e + b
        BY <2>1
    <2> QED
        BY <2>1, <2>2, AlignedOffset DEF buf_off_e, b
<1> HIDE DEF b
<1>7. g \in Nat /\ f <= g /\ g <= f + CacheLine - 1
    BY <1>1, <1>2, <1>4, <1>5, <1>6, AlignedOffset DEF slot_off_s
<1>8. h \in Nat /\ g + d <= h
    <2>1. g + d \in 0 .. SizeMod - 1 /\ g + d + CacheLine <= SizeMod
        BY <1>1, <1>2, <1>4, <1>5, <1>6, <1>7
    <2>2. (g + d) % SizeMod = g + d
        BY <2>1
    <2> QED
        BY <2>1, <2>2, AlignedOffset DEF slot_off_e, d
<1> QED
    BY <1>3, <1>5, <1>6, <1>7, <1>8 DEF b, d

\* The header, the cells and the slots of a ring lie one after the other inside
\* the memory get_buf asks for, and a copy of any length that Push accepts, which
\* is up to r->objSize_ and not up to objSize, stays inside its cell.
THEOREM PartsDisjoint ==
    ASSUME NEW objNum \in Nat, NEW objSize \in Nat, NoOverflow(objNum, objSize),
           NEW i \in 0 .. objNum - 1
    PROVE  /\ SizeofRingBuf <= CellAt(objSize, i)
           /\ CellAt(objSize, i) + aligned_objSize(objSize) <= CellAt(objSize, i + 1)
           /\ CellAt(objSize, i) + aligned_objSize(objSize) <= buf_off_e(objNum, objSize)
           /\ buf_off_e(objNum, objSize) <= SlotAt(objNum, objSize, i)
           /\ SlotAt(objNum, objSize, i) + SizeofSlot <= slot_off_e(objNum, objSize)
<1> USE LayoutAssumption
<1> DEFINE a == aligned_objSize(objSize)
           rest == objNum - (i + 1)
<1>1. a \in Nat /\ i \in Nat /\ rest \in Nat /\ objNum \in Nat
    BY Offsets
<1>2. i * a \in Nat /\ (i + 1) * a = i * a + a /\ rest * a \in Nat
    BY <1>1
<1>3. a * objNum = (i + 1) * a + rest * a
    BY <1>1
<1>4. i * SizeofSlot \in Nat /\ rest * SizeofSlot \in Nat
    BY <1>1
<1>5. SizeofSlot * objNum = i * SizeofSlot + SizeofSlot + rest * SizeofSlot
    BY <1>1
<1>6. a * objNum \in Nat /\ SizeofSlot * objNum \in Nat
    BY <1>1
<1>7. /\ buf_off_s \in Nat /\ SizeofRingBuf <= buf_off_s
      /\ buf_off_e(objNum, objSize) \in Nat
      /\ buf_off_s + a * objNum <= buf_off_e(objNum, objSize)
      /\ slot_off_s(objNum, objSize) \in Nat
      /\ buf_off_e(objNum, objSize) <= slot_off_s(objNum, objSize)
      /\ slot_off_e(objNum, objSize) \in Nat
      /\ slot_off_s(objNum, objSize) + SizeofSlot * objNum <= slot_off_e(objNum, objSize)
    BY Offsets
<1>8. /\ CellAt(objSize, i) = buf_off_s + i * a
      /\ CellAt(objSize, i + 1) = buf_off_s + (i + 1) * a
      /\ SlotAt(objNum, objSize, i) = slot_off_s(objNum, objSize) + i * SizeofSlot
    BY DEF CellAt, SlotAt
<1> HIDE DEF a, rest
<1>9. /\ SizeofRingBuf <= CellAt(objSize, i)
      /\ CellAt(objSize, i) + a <= CellAt(objSize, i + 1)
      /\ CellAt(objSize, i) + a <= buf_off_e(objNum, objSize)
    BY <1>1, <1>2, <1>3, <1>6, <1>7, <1>8
<1>10. /\ buf_off_e(objNum, objSize) <= SlotAt(objNum, objSize, i)
       /\ SlotAt(objNum, objSize, i) + SizeofSlot <= slot_off_e(objNum, objSize)
    BY <1>4, <1>5, <1>6, <1>7, <1>8
<1> QED
    BY <1>9, <1>10 DEF a

\* The same for the blocking ring: get_block_buf asks for the header and exactly
\* objNum cells, and the last cell ends with the memory.
THEOREM BlockPartsDisjoint ==
    ASSUME NEW objNum \in Nat, NEW objSize \in Nat, BlockNoOverflow(objNum, objSize),
           NEW i \in 0 .. objNum - 1
    PROVE  /\ SizeofBRingBuf <= BlockCellAt(objSize, i)
           /\ BlockCellAt(objSize, i) + aligned_objSize(objSize)
                <= BlockCellAt(objSize, i + 1)
           /\ BlockCellAt(objSize, i) + aligned_objSize(objSize)
                <= block_total_size(objNum, objSize)
<1> USE LayoutAssumption
<1> DEFINE a == aligned_objSize(objSize)
           b == a * objNum
           c == (objSize + CacheLine) * objNum
           rest == objNum - (i + 1)
<1>1. a \in Nat /\ a <= objSize + CacheLine
    BY AlignedOffset DEF BlockNoOverflow, aligned_objSize
<1>2. i \in Nat /\ rest \in Nat
    OBVIOUS
<1>3. i * a \in Nat /\ (i + 1) * a = i * a + a /\ rest * a \in Nat
    BY <1>1, <1>2
<1>4. b \in Nat /\ b = (i + 1) * a + rest * a
    BY <1>1, <1>2
<1>5. c \in Nat /\ b <= c
    <2>1. (objSize + CacheLine - a) * objNum \in Nat
        BY <1>1
    <2>2. c - b = (objSize + CacheLine - a) * objNum
        BY <1>1
    <2> QED
        BY <1>1, <2>1, <2>2
<1>6. SizeofBRingBuf + c < SizeMod
    BY DEF BlockNoOverflow
<1>7. block_total_size(objNum, objSize) = (SizeofBRingBuf + b) % SizeMod
    BY DEF block_total_size
<1>8. /\ BlockCellAt(objSize, i) = SizeofBRingBuf + i * a
      /\ BlockCellAt(objSize, i + 1) = SizeofBRingBuf + (i + 1) * a
    BY DEF BlockCellAt
<1> HIDE DEF a, b, c, rest
<1>9. (SizeofBRingBuf + b) % SizeMod = SizeofBRingBuf + b
    BY <1>4, <1>5, <1>6
<1> QED
    BY <1>1, <1>3, <1>4, <1>7, <1>8, <1>9 DEF a
=============================================================================
