------------------------------- MODULE Wrapper -------------------------------
(***************************************************************************)
(* The C++ objects of one process, src/cpp/RingBufWrapper.hpp: RingBuf has *)
(* a raw pointer r_, which every operation uses, and a shared pointer p_,  *)
(* whose deleter is Del_*RingBuf.  Init stores both, one after the other;  *)
(* copies and moves are the defaulted ones.                                *)
(*                                                                         *)
(* The calls of one process do not overlap here, so that a Get, whose      *)
(* steps module Mapping has, is one step.  Other processes make rings in   *)
(* the same file, and the program opens and closes files of its own.       *)
(* Rings have one size.                                                    *)
(***************************************************************************)
EXTENDS Integers

CONSTANTS
    Objects,        (* the variables of type RingBuf                       *)
    Addresses,      (* where rings can be mapped                           *)
    NULL,
    File,           (* the file at the agreed path                         *)
    MayInit,        (* the ways in which Init is called                    *)
    Fds             (* descriptor numbers                                  *)

Prots == {"malloc", "anonymous", "new", "exists"}

ASSUME NullAssumption ==
    NULL \notin Addresses \cup Objects \cup {File} /\ File \notin Addresses
ASSUME MayInitAssumption == MayInit \subseteq Prots
ASSUME FdsAssumption == Fds \subseteq Nat

Areas == {File} \cup Addresses

VARIABLES
    r_,             (* r_ of each object                                   *)
    p_,             (* what its p_ owns; NULL for an empty p_ and for one  *)
                    (* that was given NULL                                 *)
    calling,        (* the object whose Init has got its ring, or NULL     *)
    mapped,         (* the area mapped at each address, or NULL            *)
    fileSize,       (* 0 if there is no file, or an empty one              *)
    mapType,        (* the header in each area: mapType_ ...               *)
    fdOf,           (* ... and fd                                          *)
    table           (* what each descriptor is open on: the ring at an     *)
                    (* address, a file whose Get failed, or another file   *)

pointers == <<r_, p_, calling>>
memory == <<mapped, fileSize, mapType, fdOf>>
vars == <<r_, p_, calling, mapped, fileSize, mapType, fdOf, table>>

\* No object has a ring; there may be a file another process made.
Init ==
    /\ r_ = [o \in Objects |-> NULL]
    /\ p_ = [o \in Objects |-> NULL]
    /\ calling = NULL
    /\ mapped = [a \in Addresses |-> NULL]
    /\ fileSize \in {0, 1}
    /\ mapType = [a \in Areas |-> IF a = File /\ fileSize = 1 THEN "shm" ELSE "zero"]
    /\ fdOf = [a \in Areas |-> 0]
    /\ table \in [Fds -> {"closed", "other"}]

LowestFree(n) == table[n] = "closed" /\ \A m \in Fds : m < n => table[m] # "closed"

-----------------------------------------------------------------------------
(* Get_*RingBuf_e: *out is the ring, or NULL.                              *)

\* Mutant of MallocFd: fd as get_buf initialises it.
MallocFdUnset == -1

MallocFd == -9999

MallocRing(o) ==
    \E a \in Addresses :
        /\ mapped[a] = NULL
        /\ r_' = [r_ EXCEPT ![o] = a]
        /\ mapped' = [mapped EXCEPT ![a] = a]
        /\ mapType' = [mapType EXCEPT ![a] = "malloc"]
        /\ fdOf' = [fdOf EXCEPT ![a] = MallocFd]
        /\ UNCHANGED <<fileSize, table>>

\* With MAP_EXISTS the header is left as it is.
MapRing(o, prot) ==
    \E a \in Addresses, n \in Fds :
        LET area == IF prot = "anonymous" THEN a ELSE File IN
        /\ mapped[a] = NULL
        /\ LowestFree(n)
        /\ prot = "exists" => fileSize # 0
        /\ r_' = [r_ EXCEPT ![o] = a]
        /\ mapped' = [mapped EXCEPT ![a] = area]
        /\ table' = [table EXCEPT ![n] = a]
        /\ fileSize' = IF area = File THEN 1 ELSE fileSize
        /\ IF prot = "exists" THEN UNCHANGED <<mapType, fdOf>>
           ELSE /\ mapType' = [mapType EXCEPT ![area] = "shm"]
                /\ fdOf' = [fdOf EXCEPT ![area] = n]

\* A failure may leave a descriptor open, and a file that has its size but no
\* header yet.
NoRing(o, prot) ==
    /\ r_' = [r_ EXCEPT ![o] = NULL]
    /\ \/ UNCHANGED <<fileSize, table>>
       \/ \E n \in Fds :
             /\ prot # "malloc"
             /\ LowestFree(n)
             /\ table' = [table EXCEPT ![n] = "failed"]
             /\ UNCHANGED fileSize
       \/ prot = "new" /\ fileSize' = 1 /\ UNCHANGED table
    /\ UNCHANGED <<mapped, mapType, fdOf>>

InitGet(o) ==
    /\ calling = NULL
    /\ \E prot \in MayInit :
          \/ prot = "malloc" /\ MallocRing(o)
          \/ prot # "malloc" /\ MapRing(o, prot)
          \/ NoRing(o, prot)
    /\ calling' = o
    /\ UNCHANGED p_

-----------------------------------------------------------------------------
\* The deleter, which runs in the step in which p_ changes.  del_buf believes the
\* header; it does nothing to a ring of zeros.
Release(a) ==
    LET area == mapped[a] IN
    /\ mapped' = IF mapType[area] = "zero" THEN mapped ELSE [mapped EXCEPT ![a] = NULL]
    /\ table' = IF mapType[area] = "shm" /\ fdOf[area] \in Fds
                THEN [table EXCEPT ![fdOf[area]] = "closed"] ELSE table

\* Mutants of GiveUp: each object releases its ring, as with a plain pointer; the
\* ring is released only if p_ was never copied, and else stays.
GiveUpAlways(a) ==
    IF a # NULL THEN Release(a) ELSE UNCHANGED <<mapped, table>>
GiveUpNever(a) == UNCHANGED <<mapped, table>>

\* An object no longer owns a: the last one to do so releases it.
GiveUp(a) ==
    IF a # NULL /\ \A o \in Objects : p_'[o] # a
    THEN Release(a)
    ELSE UNCHANGED <<mapped, table>>

\* The second half of Init; what the object owned before goes only now, when the
\* new ring is there.
InitOwn(o) ==
    /\ calling = o
    /\ p_' = [p_ EXCEPT ![o] = r_[o]]
    /\ calling' = NULL
    /\ GiveUp(p_[o])
    /\ UNCHANGED <<r_, fileSize, mapType, fdOf>>

Copy(o, x) ==
    /\ calling = NULL
    /\ r_' = [r_ EXCEPT ![o] = r_[x]]
    /\ p_' = [p_ EXCEPT ![o] = p_[x]]
    /\ GiveUp(p_[o])
    /\ UNCHANGED <<calling, fileSize, mapType, fdOf>>

\* A defaulted move leaves r_ of the source as it is.
Move(o, x) ==
    /\ calling = NULL
    /\ o # x
    /\ r_' = [r_ EXCEPT ![o] = r_[x]]
    /\ p_' = [p_ EXCEPT ![o] = p_[x], ![x] = NULL]
    /\ GiveUp(p_[o])
    /\ UNCHANGED <<calling, fileSize, mapType, fdOf>>

\* The object's life ends; the variable may be used for another.
Destroy(o) ==
    /\ calling = NULL
    /\ r_' = [r_ EXCEPT ![o] = NULL]
    /\ p_' = [p_ EXCEPT ![o] = NULL]
    /\ GiveUp(p_[o])
    /\ UNCHANGED <<calling, fileSize, mapType, fdOf>>

-----------------------------------------------------------------------------
\* The program's own files, and a ring that another process makes in the file; the
\* descriptor in its header is that process's.
OpenOther(n) ==
    /\ LowestFree(n)
    /\ table' = [table EXCEPT ![n] = "other"]
    /\ UNCHANGED <<pointers, memory>>

CloseOther(n) ==
    /\ table[n] = "other"
    /\ table' = [table EXCEPT ![n] = "closed"]
    /\ UNCHANGED <<pointers, memory>>

NewElsewhere(n) ==
    /\ fileSize' = 1
    /\ mapType' = [mapType EXCEPT ![File] = "shm"]
    /\ fdOf' = [fdOf EXCEPT ![File] = n]
    /\ UNCHANGED <<pointers, mapped, table>>

Next ==
    \/ \E o \in Objects : InitGet(o) \/ InitOwn(o) \/ Destroy(o)
    \/ \E o, x \in Objects : Copy(o, x) \/ Move(o, x)
    \/ \E n \in Fds : OpenOther(n) \/ CloseOther(n) \/ NewElsewhere(n)

Spec == Init /\ [][Next]_vars
=============================================================================
