---------------------------- MODULE WrapperProofs ----------------------------
(***************************************************************************)
(* Machine-checked proofs about module Wrapper, for any numbers of C++     *)
(* objects, addresses and descriptors: an object that shares a ring can    *)
(* use it, and a ring goes with its last owner.                            *)
(***************************************************************************)
EXTENDS WrapperCorrect, TLAPS

\* Between the two halves of Init the new ring is mapped, and nobody owns it yet:
\* giving up the old ring cannot unmap the new one.
NewRingApart ==
    calling # NULL =>
        /\ r_[calling] # NULL => mapped[r_[calling]] # NULL
        /\ \A o \in Objects : p_[o] # NULL => p_[o] # r_[calling]

IInv == TypeOK /\ OwnersHaveTheirRing /\ NewRingApart

LEMMA InitIInv == ASSUME Init PROVE IInv
BY DEF Init, IInv, TypeOK, OwnersHaveTheirRing, NewRingApart, Areas

-----------------------------------------------------------------------------
\* Whatever the deleter does, it unmaps nothing but the ring given up, and that one
\* only if nobody owns it any more.
LEMMA GiveUpUnmapsOne ==
    ASSUME IInv, NEW o \in Objects, GiveUp(p_[o])
    PROVE  /\ mapped' \in [Addresses -> Areas \cup {NULL}]
           /\ table' \in [Fds -> Addresses \cup {"closed", "failed", "other"}]
           /\ \A a \in Addresses : mapped[a] # NULL =>
                  mapped'[a] # NULL \/ \A q \in Objects : p_'[q] # a
<1> DEFINE a == p_[o]
<1>1. /\ mapped \in [Addresses -> Areas \cup {NULL}]
      /\ table \in [Fds -> Addresses \cup {"closed", "failed", "other"}]
    BY DEF IInv, TypeOK
<1>2. CASE a # NULL /\ \A q \in Objects : p_'[q] # a
    <2>1. mapped' = mapped \/ mapped' = [mapped EXCEPT ![a] = NULL]
        BY <1>2 DEF GiveUp, Release
    <2>2. table' = table \/ \E n \in Fds : table' = [table EXCEPT ![n] = "closed"]
        BY <1>2 DEF GiveUp, Release
    <2> QED
        BY <1>1, <1>2, <2>1, <2>2
<1>3. CASE ~ (a # NULL /\ \A q \in Objects : p_'[q] # a)
    BY <1>1, <1>3 DEF GiveUp
<1> QED
    BY <1>2, <1>3

\* A step in which o gives up its ring, and in which owners are only made of owners
\* and of the ring that Init has got, leaves every owner a mapped ring.
LEMMA OwnersAreServed ==
    ASSUME IInv, NEW o \in Objects, GiveUp(p_[o]),
           NEW q \in Objects, p_'[q] # NULL, p_'[q] \in Addresses,
           mapped[p_'[q]] # NULL
    PROVE  mapped'[p_'[q]] # NULL
BY GiveUpUnmapsOne

-----------------------------------------------------------------------------
LEMMA InitGetIInv == ASSUME IInv, NEW o \in Objects, InitGet(o) PROVE IInv'
<1>1. /\ TypeOK /\ OwnersHaveTheirRing
      /\ calling = NULL /\ calling' = o /\ p_' = p_
    BY DEF IInv, InitGet
<1>2. PICK prot \in MayInit :
          MallocRing(o) \/ (prot # "malloc" /\ MapRing(o, prot)) \/ NoRing(o, prot)
    BY DEF InitGet
<1>3. CASE NoRing(o, prot)
    <2>1. TypeOK'
        BY <1>1, <1>3 DEF TypeOK, NoRing
    <2>2. /\ mapped' = mapped /\ r_'[o] = NULL
          /\ \A q \in Objects : q # o => r_'[q] = r_[q]
        BY <1>1, <1>3 DEF NoRing, TypeOK
    <2> QED
        BY <1>1, <2>1, <2>2, NullAssumption DEF IInv, OwnersHaveTheirRing, NewRingApart
<1>4. CASE MallocRing(o) \/ (prot # "malloc" /\ MapRing(o, prot))
    <2>1. PICK a \in Addresses, area \in Areas :
              /\ mapped[a] = NULL
              /\ r_' = [r_ EXCEPT ![o] = a]
              /\ mapped' = [mapped EXCEPT ![a] = area]
        BY <1>4 DEF MallocRing, MapRing, Areas
    <2>2. TypeOK'
        <3>1. /\ r_' \in [Objects -> Addresses \cup {NULL}]
              /\ mapped' \in [Addresses -> Areas \cup {NULL}]
              /\ p_' \in [Objects -> Addresses \cup {NULL}]
              /\ calling' \in Objects \cup {NULL}
            BY <1>1, <2>1 DEF TypeOK
        <3>2. fileSize' \in {0, 1}
            BY <1>1, <1>4 DEF TypeOK, MallocRing, MapRing
        <3>3. mapType' \in [Areas -> {"zero", "malloc", "shm"}]
            BY <1>1, <1>4 DEF TypeOK, MallocRing, MapRing
        <3>4. fdOf' \in [Areas -> Fds \cup {0, -9999}]
            BY <1>1, <1>4 DEF TypeOK, MallocRing, MapRing, MallocFd
        <3>5. table' \in [Fds -> Addresses \cup {"closed", "failed", "other"}]
            BY <1>1, <1>4 DEF TypeOK, MallocRing, MapRing
        <3> QED
            BY <3>1, <3>2, <3>3, <3>4, <3>5 DEF TypeOK
    <2>3. /\ mapped'[a] # NULL /\ r_'[o] = a
          /\ \A q \in Objects : q # o => r_'[q] = r_[q]
          /\ \A b \in Addresses : mapped[b] # NULL => b # a /\ mapped'[b] = mapped[b]
        <3>1. area # NULL
            BY NullAssumption, <2>1 DEF Areas
        <3> QED
            BY <1>1, <2>1, <3>1 DEF TypeOK
    <2>4. \A q \in Objects : p_[q] # NULL => p_[q] \in Addresses /\ mapped[p_[q]] # NULL
        BY <1>1 DEF TypeOK, OwnersHaveTheirRing
    <2>5. OwnersHaveTheirRing'
        BY <1>1, <2>3, <2>4, NullAssumption DEF OwnersHaveTheirRing
    <2>6. NewRingApart'
        BY <1>1, <2>3, <2>4 DEF NewRingApart
    <2> QED
        BY <2>2, <2>5, <2>6 DEF IInv
<1> QED
    BY <1>2, <1>3, <1>4

LEMMA InitOwnIInv == ASSUME IInv, NEW o \in Objects, InitOwn(o) PROVE IInv'
<1>1. /\ TypeOK /\ OwnersHaveTheirRing /\ NewRingApart
      /\ calling = o /\ calling' = NULL /\ r_' = r_
      /\ p_' = [p_ EXCEPT ![o] = r_[o]]
      /\ GiveUp(p_[o])
      /\ UNCHANGED <<fileSize, mapType, fdOf>>
    BY DEF IInv, InitOwn
<1>2. TypeOK'
    BY <1>1, GiveUpUnmapsOne DEF TypeOK
<1>3. ASSUME NEW q \in Objects, p_'[q] # NULL
      PROVE  /\ p_'[q] \in Addresses /\ mapped[p_'[q]] # NULL
             /\ r_'[q] = p_'[q]
    <2>1. CASE q = o
        BY <1>1, <1>3, <2>1, NullAssumption DEF TypeOK, NewRingApart
    <2>2. CASE q # o
        BY <1>1, <1>3, <2>2 DEF TypeOK, OwnersHaveTheirRing
    <2> QED
        BY <2>1, <2>2
<1>4. OwnersHaveTheirRing'
    BY <1>1, <1>3, OwnersAreServed DEF OwnersHaveTheirRing
<1>5. NewRingApart'
    BY <1>1 DEF NewRingApart
<1> QED
    BY <1>2, <1>4, <1>5 DEF IInv

\* Copies, moves and the end of an object: outside Init, and every owner takes its
\* ring, and the r_ that goes with it, from an owner.
LEMMA HandOverIInv ==
    ASSUME IInv, NEW o \in Objects, GiveUp(p_[o]),
           calling = NULL, UNCHANGED <<calling, fileSize, mapType, fdOf>>,
           r_' \in [Objects -> Addresses \cup {NULL}],
           p_' \in [Objects -> Addresses \cup {NULL}],
           \A q \in Objects : p_'[q] # NULL =>
               \E x \in Objects : p_'[q] = p_[x] /\ r_'[q] = r_[x]
    PROVE  IInv'
<1>1. TypeOK'
    BY GiveUpUnmapsOne DEF IInv, TypeOK
<1>2. ASSUME NEW q \in Objects, p_'[q] # NULL
      PROVE  /\ p_'[q] \in Addresses /\ mapped[p_'[q]] # NULL
             /\ r_'[q] = p_'[q]
    BY <1>2, NullAssumption DEF IInv, OwnersHaveTheirRing
<1>3. OwnersHaveTheirRing'
    BY <1>2, OwnersAreServed DEF OwnersHaveTheirRing
<1>4. NewRingApart'
    BY DEF NewRingApart
<1> QED
    BY <1>1, <1>3, <1>4 DEF IInv

LEMMA NextIInv == ASSUME IInv, [Next]_vars PROVE IInv'
<1>0. /\ r_ \in [Objects -> Addresses \cup {NULL}]
      /\ p_ \in [Objects -> Addresses \cup {NULL}]
    BY DEF IInv, TypeOK
<1>1. CASE UNCHANGED vars
    BY <1>1 DEF vars, IInv, TypeOK, OwnersHaveTheirRing, NewRingApart
<1>2. ASSUME NEW o \in Objects, NEW x \in Objects, Copy(o, x) PROVE IInv'
    BY <1>0, <1>2, HandOverIInv DEF Copy
<1>3. ASSUME NEW o \in Objects, NEW x \in Objects, Move(o, x) PROVE IInv'
    BY <1>0, <1>3, HandOverIInv DEF Move
<1>4. ASSUME NEW o \in Objects, Destroy(o) PROVE IInv'
    BY <1>0, <1>4, HandOverIInv DEF Destroy
<1>5. ASSUME NEW n \in Fds, OpenOther(n) \/ CloseOther(n) \/ NewElsewhere(n) PROVE IInv'
    <2>1. UNCHANGED <<r_, p_, calling, mapped>>
        BY <1>5 DEF OpenOther, CloseOther, NewElsewhere, pointers, memory
    <2>2. TypeOK'
        BY <1>5 DEF IInv, TypeOK, OpenOther, CloseOther, NewElsewhere, pointers, memory
    <2> QED
        BY <2>1, <2>2 DEF IInv, OwnersHaveTheirRing, NewRingApart
<1> QED
    BY <1>1, <1>2, <1>3, <1>4, <1>5, InitGetIInv, InitOwnIInv DEF Next

-----------------------------------------------------------------------------
(* The theorems. *)

\* All variables keep their types, and between the halves of Init nobody owns the
\* new ring.
THEOREM Invariance == Spec => []IInv
BY InitIInv, NextIInv, PTL DEF Spec

\* Every variable of Wrapper keeps its type: p_ and r_ of an object hold NULL or an
\* address, and a header holds a kind of mapping and a number that can be a descriptor.
THEOREM TypeCorrect == Spec => []TypeOK
<1>1. IInv => TypeOK
    BY DEF IInv
<1> QED
    BY <1>1, Invariance, PTL

\* An object whose p_ shares a ring has it mapped at its r_ (outside its own Init),
\* whatever copies, moves, repeated or failed Inits and ends of objects came before.
THEOREM OwnersServed == Spec => []OwnersHaveTheirRing
<1>1. IInv => OwnersHaveTheirRing
    BY DEF IInv
<1> QED
    BY <1>1, Invariance, PTL

\* The ring of the last owner is unmapped in the step in which that owner gives it
\* up, unless its header is still zero.
THEOREM LastOwnerReleases == Spec => ReleasedWithLastOwner
<1>1. ASSUME IInv, [Next]_vars, NEW a \in Addresses, Owned(a), ~ Owned(a)'
      PROVE  mapped'[a] = NULL \/ mapType[mapped[a]] = "zero"
    <2>1. PICK o \in Objects : p_[o] # p_'[o] /\ p_[o] = a
        BY <1>1 DEF Owned
    <2>2. \A q \in Objects : p_'[q] # a
        BY <1>1 DEF Owned
    <2>3. PICK g \in Objects : GiveUp(p_[g]) /\ p_[g] = a
        <3>0. p_ \in [Objects -> Addresses \cup {NULL}]
            BY <1>1 DEF IInv, TypeOK
        <3>1. PICK q \in Objects, x \in Objects :
                  InitOwn(q) \/ Copy(q, x) \/ Move(q, x) \/ Destroy(q)
            BY <1>1, <2>1 DEF Next, vars, InitGet, OpenOther, CloseOther, NewElsewhere, pointers
        <3>2. GiveUp(p_[q])
            BY <3>1 DEF InitOwn, Copy, Move, Destroy
        <3>3. CASE o = q
            BY <2>1, <3>2, <3>3
        <3>4. CASE o # q
            <4>1. Move(q, x) /\ x = o
                BY <2>1, <3>0, <3>1, <3>4 DEF InitOwn, Copy, Move, Destroy
            <4>2. p_'[q] = a
                BY <2>1, <3>0, <3>4, <4>1 DEF Move
            <4> QED
                BY <2>2, <4>2
        <3> QED
            BY <3>3, <3>4
    <2>4. Release(a)
        BY <1>1, <2>2, <2>3, NullAssumption DEF GiveUp
    <2>5. mapped \in [Addresses -> Areas \cup {NULL}]
        BY <1>1 DEF IInv, TypeOK
    <2> QED
        BY <2>4, <2>5 DEF Release
<1>2. IInv /\ [Next]_vars =>
          [\A a \in Addresses : Owned(a) /\ ~ Owned(a)' =>
              mapped'[a] = NULL \/ mapType[mapped[a]] = "zero"]_vars
    BY <1>1
<1> QED
    BY <1>2, Invariance, PTL DEF Spec, ReleasedWithLastOwner
=============================================================================
