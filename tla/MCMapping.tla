------------------------------ MODULE MCMapping ------------------------------
(* TLC instance of MappingCorrect: two processes that make a ring of one   *)
(* size in the file and attach with that size and with another; the second *)
(* also makes a ring of the other size there, and rings of its own.  Total *)
(* sizes are those of the code, on x86-64.                                 *)
EXTENDS MappingCorrect, Layout

CONSTANTS p1, p2

Ring(objNum, objSize, useSlot) ==
    [objNum |-> objNum, objSize |-> objSize, useSlot |-> useSlot]

\* aRing and slots are made in the file; twin has other cells but the total size of
\* aRing, 576 bytes; slots is larger; bad has a capacity that is no power of two.
bRing == Ring(2, 128, "BLOCK")
aRing == Ring(2, 192, "NO_SLOT")
twin == Ring(2, 128, "MPMC_SLOT")
slots == Ring(2, 192, "MPMC_SLOT")
bad == Ring(3, 64, "NO_SLOT")

Given == {aRing, twin, slots, bad, bRing}
Blocks == {bRing}
Wrong == {bad}
Totals ==
    [g \in Given |-> IF g.useSlot = "BLOCK" THEN block_total_size(g.objNum, g.objSize)
                     ELSE total_size(g.objNum, g.objSize, g.useSlot)]

Ask(mode, exists, path, geo) ==
    [mode |-> mode, exists |-> exists, path |-> path, geo |-> geo]

Make == {Ask("shm", FALSE, TRUE, aRing)}
Remake == {Ask("shm", FALSE, TRUE, g) : g \in {aRing, slots}}
Attach == {Ask("shm", TRUE, TRUE, g) : g \in {twin, slots}}
Own == {Ask("shm", FALSE, FALSE, slots), Ask("malloc", FALSE, FALSE, bRing)}
Refused == {Ask("none", FALSE, TRUE, aRing), Ask("shm", TRUE, FALSE, aRing),
            Ask("shm", FALSE, TRUE, bad)}

Asked ==
    [p \in {p1, p2} |->
        IF p = p1 THEN Make \cup Attach ELSE Remake \cup Attach \cup Own \cup Refused]
=============================================================================
