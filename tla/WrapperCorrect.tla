---------------------------- MODULE WrapperCorrect ----------------------------
(***************************************************************************)
(* What the C++ objects owe the program.                                   *)
(***************************************************************************)
EXTENDS Wrapper

\* Every variable keeps its type.
TypeOK ==
    /\ r_ \in [Objects -> Addresses \cup {NULL}]
    /\ p_ \in [Objects -> Addresses \cup {NULL}]
    /\ calling \in Objects \cup {NULL}
    /\ mapped \in [Addresses -> Areas \cup {NULL}]
    /\ fileSize \in {0, 1}
    /\ mapType \in [Areas -> {"zero", "malloc", "shm"}]
    /\ fdOf \in [Areas -> Fds \cup {0, -9999}]
    /\ table \in [Fds -> Addresses \cup {"closed", "failed", "other"}]

\* An object that shares a ring can use it: r_ and p_ agree again when Init is over,
\* and no copy, move, failed or repeated Init or end of another object unmaps it.
OwnersHaveTheirRing ==
    \A o \in Objects : p_[o] # NULL =>
        /\ mapped[p_[o]] # NULL
        /\ calling # o => r_[o] = p_[o]

Owned(a) == \E o \in Objects : p_[o] = a

\* "released automatically when the last copy of the RingBuf object is destroyed"
\* (RingBufWrapper.hpp), or given another ring; also if the Init that replaces the
\* ring fails.  A ring whose header is still zero is the exception: Del does nothing.
ReleasedWithLastOwner ==
    [][\A a \in Addresses : Owned(a) /\ ~ Owned(a)' =>
            mapped'[a] = NULL \/ mapType[mapped[a]] = "zero"]_vars

\* What Init "allocated/mapped" is what is "released automatically when the last
\* copy of the RingBuf object is destroyed": with its memory a ring gives back the
\* descriptor it was mapped with, and no other.
ReleaseGivesBackWhatInitTook ==
    [][\A a \in Addresses : mapped[a] # NULL /\ mapped'[a] = NULL =>
            table' = [n \in Fds |-> IF table[n] = a THEN "closed" ELSE table[n]]]_vars
=============================================================================
