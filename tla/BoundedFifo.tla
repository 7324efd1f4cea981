----------------------------- MODULE BoundedFifo -----------------------------
(***************************************************************************)
(* What every ring of this library promises its callers: a first-in        *)
(* first-out queue of at most Capacity objects.  A push that succeeds puts *)
(* its object behind all others at one instant; a pop that succeeds takes  *)
(* the oldest object at one instant and hands exactly that object to the   *)
(* caller.  Calls that fail (full, empty, contention) change nothing.      *)
(*                                                                         *)
(* The ring modules are shown to implement this one under a refinement     *)
(* mapping; nothing here mentions positions, slots or cached indices.      *)
(***************************************************************************)
EXTENDS Naturals, Sequences

CONSTANTS
    Consumers,  (* the callers that pop                                    *)
    Values,     (* the objects that can be pushed                          *)
    Capacity,   (* how many objects fit (objNum)                           *)
    Junk        (* what a caller's buffer holds before its first pop       *)

VARIABLES
    queue,      (* the objects pushed and not yet popped, oldest first     *)
    got         (* got[c]: the object the last pop of c delivered          *)

fifoVars == <<queue, got>>

FifoInit ==
    /\ queue = << >>
    /\ got = [c \in Consumers |-> Junk]

Enqueue(v) ==
    /\ Len(queue) < Capacity
    /\ queue' = Append(queue, v)
    /\ UNCHANGED got

Dequeue(c) ==
    /\ queue # << >>
    /\ got' = [got EXCEPT ![c] = Head(queue)]
    /\ queue' = Tail(queue)

FifoNext ==
    \/ \E v \in Values : Enqueue(v)
    \/ \E c \in Consumers : Dequeue(c)

FifoSpec == FifoInit /\ [][FifoNext]_fifoVars
=============================================================================
