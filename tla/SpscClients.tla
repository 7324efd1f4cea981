----------------------------- MODULE SpscClients -----------------------------
(***************************************************************************)
(* The single-producer single-consumer ring with two clients that module   *)
(* Spsc leaves out: the Pop_w_cb of the C++ wrapper, and a thread that is  *)
(* neither side of a ring and asks for its size.                           *)
(*                                                                         *)
(* Pop_w_cb is Begin_pop, the callback and End_pop.  With a trampoline it  *)
(* tests the address that Begin_pop returns and is the Pop of module Spsc; *)
(* the fast path does not test it.                                         *)
(***************************************************************************)
EXTENDS SpscCorrect

CONSTANT Unasked    (* whether the fast path is also taken by a consumer   *)
                    (* that has not been told that there is an object      *)

ASSUME UnaskedAssumption == Unasked \in BOOLEAN

VARIABLES
    first,          (* which index the third thread has loaded, or none    *)
    was,            (* both indices at that load, of which it knows one;   *)
                    (* the other is there for SizeOffByMoves only          *)
    size            (* its last answer                                     *)

NoSize == -1
Indices == {"head", "tail"}
NotAsked == [i \in Indices |-> 0]

asked == <<first, was, size>>
clientVars == <<vars, first, was, size>>

ClientInit ==
    /\ Init
    /\ first = [r \in Rings |-> "none"]
    /\ was = [r \in Rings |-> NotAsked]
    /\ size = [r \in Rings |-> NoSize]

\* Begin_pop's reload in the fast path: an empty ring makes the callback run on
\* NULL, and End_pop follows.
FastPopLoadHead(r) ==
    LET c == ConsumerOf[r] IN
    /\ At(c, r, "loadHead")
    /\ Unasked \/ r \in sawObject
    /\ local_head' = [local_head EXCEPT ![c] = HeadNow(r)]
    /\ Goto(c, IF Found(r) THEN "read" ELSE "release")
    /\ UNCHANGED <<head, tail, buffer, local_tail, on, args, buf, pushRc, popRc, answers>>

\* Size_SpscRingBuf, of which Is_full_SpscRingBuf is the comparison with ObjNum:
\* two loads, between which both indices may move.  Both are memory_order_relaxed,
\* so that either may be the first to take effect.
SizeFirstLoad(r) ==
    /\ first[r] = "none"
    /\ \E i \in Indices : first' = [first EXCEPT ![r] = i]
    /\ was' = [was EXCEPT ![r] = [head |-> head[r], tail |-> tail[r]]]
    /\ size' = [size EXCEPT ![r] = NoSize]

\* Mutant of Difference: the operands swapped.
DifferenceSwapped(h, t) == USub(t, h)

\* curr_head - curr_tail
Difference(h, t) == USub(h, t)

SizeSecondLoad(r) ==
    /\ first[r] # "none"
    /\ first' = [first EXCEPT ![r] = "none"]
    /\ was' = [was EXCEPT ![r] = NotAsked]
    /\ size' = [size EXCEPT ![r] = IF first[r] = "head" THEN Difference(was[r].head, tail[r])
                                   ELSE Difference(head[r], was[r].tail)]

SizeStep(r) == SizeFirstLoad(r) \/ SizeSecondLoad(r)

ClientNext ==
    \/ Next /\ UNCHANGED asked
    \/ \E r \in Rings : FastPopLoadHead(r) /\ UNCHANGED asked
    \/ \E r \in Rings : SizeStep(r) /\ UNCHANGED vars

ClientSpec == ClientInit /\ [][ClientNext]_clientVars

\* As in FairSpec; nothing is asked of the third thread.
ClientFairSpec ==
    /\ ClientSpec
    /\ \A r \in Rings : /\ WF_vars(PushBegin(r) \/ PushStep(r))
                        /\ WF_vars(PopBegin(r) \/ PopStep(r) \/ FastPopLoadHead(r))

\* A size_t with its upper half read as the numbers below zero.
Signed(n) == IF n > SizeMod \div 2 THEN n - SizeMod ELSE n

\* Size told to a thread that is neither side need not be what is, or ever was, in
\* the ring, and may be below zero (as a size_t: huge, and "full" to Is_full) or
\* above ObjNum.  In whatever order the loads take effect, it is wrong by no more
\* than what was pushed and popped between them; and it is out of range only if
\* objects were both pushed and popped between them, so that a thread that asks
\* while one side is idle is never told nonsense.
SizeOffByMoves ==
    [][\A r \in Rings : size[r] = NoSize /\ size'[r] # NoSize =>
        /\ was[r].head - tail[r] <= Signed(size'[r])
        /\ Signed(size'[r]) <= head[r] - was[r].tail
        /\ Signed(size'[r]) \notin 0 .. ObjNum =>
               was[r].head < head[r] /\ was[r].tail < tail[r]]_clientVars
=============================================================================
