---------------------------- MODULE MappingProofs ----------------------------
(***************************************************************************)
(* Machine-checked proofs about module Mapping, for any processes,         *)
(* requests, shapes of rings and descriptors, whatever rings are made in   *)
(* the file, whatever system calls fail and wherever processes end.  IInv  *)
(* is inductive; HeadersFit adds the sizes of the areas to it, HeaderTotal *)
(* the order of two stores of the header, and CalmRings what the history   *)
(* variable knows.                                                         *)
(***************************************************************************)
EXTENDS MappingCorrect, TLAPS

Storing(p) == pc[p] \in {"sync", "indices", "total", "type", "fd"}

\* What process p knows of its call and of its mapping; pc[p] = "idle" and
\* ring[p] = 0 is a process without a ring.
Calls(p) ==
    /\ pc[p] # "idle" \/ ring[p] # 0 =>
           req[p] \in MayAsk[p] /\ Refusal(req[p]) = "none"
    /\ pc[p] # "idle" => rc[p] = "none"
    /\ pc[p] \in {"malloc", "open", "size", "mmap"} => ring[p] = 0
    /\ pc[p] = "malloc" => req[p].mode = "malloc"
    /\ pc[p] \in {"open", "size", "mmap"} => req[p].mode = "shm"
    /\ Storing(p) => needNew(p) /\ ring[p] # 0
    /\ ring[p] # 0 => ring[p] = total(p)

\* The descriptor that its header is to name is open on its ring.
Descriptors(p) ==
    /\ pc[p] \in {"size", "mmap"} => fd[p] \in Fds /\ table[p][fd[p]] = "ring"
    /\ Storing(p) => IF req[p].mode = "malloc"
                     THEN fd[p] = -9999
                     ELSE fd[p] \in Fds /\ table[p][fd[p]] = "ring"
    /\ Has(p) /\ area(p) = p /\ req[p].mode = "shm" => table[p][fdOf[p]] = "ring"

\* How far the header of a ring of its own is stored.
OwnHeader(p) ==
    area(p) = p =>
        /\ pc[p] \in {"type", "fd"} \/ Has(p) => totalSize[p] = total(p)
        /\ pc[p] = "fd" \/ Has(p) => mapType[p] = req[p].mode
        /\ (Storing(p) /\ pc[p] # "sync") \/ Has(p) => (block(p) => sync[p] = "ready")

\* A file that has been made a ring never gets empty again.
FileKept ==
    /\ totalSize[File] # 0 => size[File] # 0
    /\ \A p \in Processes :
           (pc[p] = "mmap" \/ ring[p] # 0) /\ area(p) = File => size[File] # 0

IInv ==
    /\ TypeOK
    /\ \A p \in Processes : Calls(p) /\ Descriptors(p) /\ OwnHeader(p)
    /\ FileKept

\* An area has room for a header before anybody maps it.
HeadersFit ==
    /\ size[File] # 0 => size[File] >= HeaderSize
    /\ \A p \in Processes : Maps(p) /\ area(p) # File => size[area(p)] = total(p)

\* The kind of mapping is stored after the total size.
HeaderTotal ==
    /\ mapType[File] # "zero" => totalSize[File] # 0
    /\ \A p \in Processes : pc[p] = "type" /\ area(p) = File => totalSize[File] # 0

\* p makes a ring and has not yet stored its size.
BeforeTotal(p) == needNew(p) /\ pc[p] \in {"mmap", "sync", "indices", "total"}

\* The file of a calm process has its size, whoever makes a ring in it makes one of
\* that size, and so says the header, unless it is zero or p itself is to store it.
CalmRing(p) ==
    /\ size[File] = total(p)
    /\ \A q \in Processes : Making(q) => total(q) = total(p)
    /\ BeforeTotal(p) \/ totalSize[File] \in {0, total(p)}

CalmRings == \A p \in calm : p \in Processes /\ Maps(p) /\ (area(p) = File => CalmRing(p))

-----------------------------------------------------------------------------
(* What the step of one process leaves alone. *)

Step(p) == Get(p) \/ Del(p) \/ Push(p) \/ Exit(p)

LEMMA AreaFacts ==
    ASSUME TypeOK, NEW p \in Processes
    PROVE  /\ area(p) \in {File, p} /\ area(p) \in Areas /\ p \in Areas /\ File \in Areas
           /\ File # p
           /\ req[p] \in Requests /\ total(p) \in Nat /\ total(p) # 0
           /\ ~ needNew(p) /\ Refusal(req[p]) = "none" => area(p) = File
BY GeometryAssumption, AreasAssumption
   DEF TypeOK, area, total, Areas, Requests, needNew, Refusal, Modes

\* Its own variables, and the area of its call.
LEMMA Updates ==
    ASSUME NEW p \in Processes, Step(p)
    PROVE  /\ pc' = pc \/ \E v : pc' = [pc EXCEPT ![p] = v]
           /\ req' = req \/ \E v : req' = [req EXCEPT ![p] = v]
           /\ fd' = fd \/ \E v : fd' = [fd EXCEPT ![p] = v]
           /\ table' = table \/ \E v : table' = [table EXCEPT ![p] = v]
           /\ ring' = ring \/ \E v : ring' = [ring EXCEPT ![p] = v]
           /\ rc' = rc \/ \E v : rc' = [rc EXCEPT ![p] = v]
<1> USE DEF Step, Get, GetBegin, Malloc, Open, Truncate, CheckSize, Mmap, InitSync, InitIndices,
            InitTotal, InitType, InitFd, Del, Push, Exit, Unmap, CloseFd, AfterMmap, Continue,
            Goto, Return, vars, header
<1>1. pc' = pc \/ \E v : pc' = [pc EXCEPT ![p] = v]
    OBVIOUS
<1>2. req' = req \/ \E v : req' = [req EXCEPT ![p] = v]
    OBVIOUS
<1>3. fd' = fd \/ \E v : fd' = [fd EXCEPT ![p] = v]
    OBVIOUS
<1>4. table' = table \/ \E v : table' = [table EXCEPT ![p] = v]
    OBVIOUS
<1>5. ring' = ring \/ \E v : ring' = [ring EXCEPT ![p] = v]
    OBVIOUS
<1>6. rc' = rc \/ \E v : rc' = [rc EXCEPT ![p] = v]
    OBVIOUS
<1> QED
    BY <1>1, <1>2, <1>3, <1>4, <1>5, <1>6

LEMMA AreaUpdates ==
    ASSUME TypeOK, NEW p \in Processes, Step(p)
    PROVE  \E a \in {File, p} :
               /\ size' = size \/ \E v : size' = [size EXCEPT ![a] = v]
               /\ totalSize' = totalSize \/ \E v : totalSize' = [totalSize EXCEPT ![a] = v]
               /\ mapType' = mapType \/ \E v : mapType' = [mapType EXCEPT ![a] = v]
               /\ fdOf' = fdOf \/ \E v : fdOf' = [fdOf EXCEPT ![a] = v]
               /\ sync' = sync \/ \E v : sync' = [sync EXCEPT ![a] = v]
<1> USE AreaFacts DEF header
<1>1. CASE GetBegin(p) \/ Push(p)
    BY <1>1 DEF GetBegin, Push
<1>2. CASE Malloc(p)
    <2>1. size' = size \/ size' = [size EXCEPT ![p] = total(p)]
        BY <1>2 DEF Malloc
    <2>2. UNCHANGED <<totalSize, mapType, fdOf, sync>>
        BY <1>2 DEF Malloc
    <2> QED
        BY <2>1, <2>2
<1>3. CASE Open(p) \/ Exit(p)
    <2>1. UNCHANGED <<size, header>> \/ EmptyArea(p)
        BY <1>3 DEF Open, OpenedFile, Exit
    <2> QED
        BY <2>1 DEF EmptyArea
<1>4. CASE Truncate(p) \/ CheckSize(p) \/ Mmap(p)
    <2>1. size' = size \/ size' = [size EXCEPT ![area(p)] = total(p)]
        BY <1>4 DEF Truncate, CheckSize, Mmap
    <2>2. UNCHANGED <<totalSize, mapType, fdOf, sync>>
        BY <1>4 DEF Truncate, CheckSize, Mmap
    <2> QED
        BY <2>1, <2>2
<1>5. CASE InitSync(p) \/ Del(p)
    <2>1. CASE UNCHANGED <<size, totalSize, mapType, fdOf>>
        <3>1. sync' = sync \/ \E v : sync' = [sync EXCEPT ![area(p)] = v]
            BY <1>5, <2>1 DEF InitSync, Del, EmptyArea
        <3> QED
            BY <2>1, <3>1
    <2>2. CASE EmptyArea(p)
        BY <2>2 DEF EmptyArea
    <2> QED
        BY <1>5, <2>1, <2>2 DEF InitSync, Del
<1>6. CASE InitIndices(p) \/ InitTotal(p) \/ InitType(p) \/ InitFd(p)
    <2>1. /\ totalSize' = totalSize \/ \E v : totalSize' = [totalSize EXCEPT ![area(p)] = v]
          /\ mapType' = mapType \/ \E v : mapType' = [mapType EXCEPT ![area(p)] = v]
          /\ fdOf' = fdOf \/ \E v : fdOf' = [fdOf EXCEPT ![area(p)] = v]
          /\ UNCHANGED <<size, sync>>
        BY <1>6 DEF InitIndices, InitTotal, InitType, InitFd
    <2> QED
        BY <2>1
<1> QED
    BY <1>1, <1>2, <1>3, <1>4, <1>5, <1>6 DEF Step, Get

\* No other process can tell, but for the file.
LEMMA Elsewhere ==
    ASSUME TypeOK, NEW p \in Processes, Step(p), NEW q \in Processes, q # p
    PROVE  /\ pc'[q] = pc[q] /\ req'[q] = req[q] /\ fd'[q] = fd[q]
           /\ table'[q] = table[q] /\ ring'[q] = ring[q] /\ rc'[q] = rc[q]
           /\ size'[q] = size[q] /\ totalSize'[q] = totalSize[q] /\ mapType'[q] = mapType[q]
           /\ fdOf'[q] = fdOf[q] /\ sync'[q] = sync[q]
<1>1. /\ pc'[q] = pc[q] /\ req'[q] = req[q] /\ fd'[q] = fd[q]
      /\ table'[q] = table[q] /\ ring'[q] = ring[q] /\ rc'[q] = rc[q]
    <2>1. /\ pc' = pc \/ \E v : pc' = [pc EXCEPT ![p] = v]
          /\ req' = req \/ \E v : req' = [req EXCEPT ![p] = v]
          /\ fd' = fd \/ \E v : fd' = [fd EXCEPT ![p] = v]
          /\ table' = table \/ \E v : table' = [table EXCEPT ![p] = v]
          /\ ring' = ring \/ \E v : ring' = [ring EXCEPT ![p] = v]
          /\ rc' = rc \/ \E v : rc' = [rc EXCEPT ![p] = v]
        BY Updates
    <2>2. pc'[q] = pc[q]
        BY <2>1 DEF TypeOK
    <2>3. req'[q] = req[q]
        BY <2>1 DEF TypeOK
    <2>4. fd'[q] = fd[q]
        BY <2>1 DEF TypeOK
    <2>5. table'[q] = table[q]
        BY <2>1 DEF TypeOK
    <2>6. ring'[q] = ring[q] /\ rc'[q] = rc[q]
        BY <2>1 DEF TypeOK
    <2> QED
        BY <2>2, <2>3, <2>4, <2>5, <2>6
<1>2. q # File /\ q \in Areas
    BY AreasAssumption DEF Areas
<1>3. PICK a \in {File, p} :
               /\ size' = size \/ \E v : size' = [size EXCEPT ![a] = v]
               /\ totalSize' = totalSize \/ \E v : totalSize' = [totalSize EXCEPT ![a] = v]
               /\ mapType' = mapType \/ \E v : mapType' = [mapType EXCEPT ![a] = v]
               /\ fdOf' = fdOf \/ \E v : fdOf' = [fdOf EXCEPT ![a] = v]
               /\ sync' = sync \/ \E v : sync' = [sync EXCEPT ![a] = v]
    BY AreaUpdates
<1>4. a # q
    BY <1>2, <1>3
<1> QED
    BY <1>1, <1>2, <1>3, <1>4 DEF TypeOK

\* What one step may do to the file.
FileStays(p) ==
    /\ size[File] # 0 => size'[File] # 0
    /\ totalSize'[File] # 0 => size'[File] # 0
    /\ (pc'[p] = "mmap" \/ ring'[p] # 0) /\ area(p)' = File => size'[File] # 0

LEMMA StepIInv ==
    ASSUME IInv, NEW p \in Processes, Step(p),
           TypeOK', Calls(p)', Descriptors(p)', OwnHeader(p)', FileStays(p)
    PROVE  IInv'
<1>1. ASSUME NEW q \in Processes, q # p
      PROVE  /\ Calls(q)' /\ Descriptors(q)' /\ OwnHeader(q)'
             /\ (pc'[q] = "mmap" \/ ring'[q] # 0) /\ area(q)' = File => size'[File] # 0
    <2>1. /\ pc'[q] = pc[q] /\ req'[q] = req[q] /\ fd'[q] = fd[q]
          /\ table'[q] = table[q] /\ ring'[q] = ring[q] /\ rc'[q] = rc[q]
          /\ size'[q] = size[q] /\ totalSize'[q] = totalSize[q] /\ mapType'[q] = mapType[q]
          /\ fdOf'[q] = fdOf[q] /\ sync'[q] = sync[q]
        BY <1>1, Elsewhere DEF IInv
    <2>2. /\ area(q)' = area(q) /\ total(q)' = total(q) /\ needNew(q)' = needNew(q)
          /\ block(q)' = block(q)
          /\ Has(q)' = Has(q) /\ Storing(q)' = Storing(q)
        BY <2>1 DEF area, total, needNew, block, Has, Storing
    <2>3. Calls(q)'
        BY <2>1, <2>2 DEF IInv, Calls
    <2>4. Descriptors(q)'
        BY <2>1, <2>2 DEF IInv, Descriptors
    <2>5. OwnHeader(q)'
        BY <2>1, <2>2 DEF IInv, OwnHeader
    <2>6. (pc'[q] = "mmap" \/ ring'[q] # 0) /\ area(q)' = File => size'[File] # 0
        BY <2>1, <2>2 DEF IInv, FileKept, FileStays
    <2> QED
        BY <2>3, <2>4, <2>5, <2>6
<1>2. FileKept'
    BY <1>1 DEF FileKept, FileStays
<1> QED
    BY <1>1, <1>2 DEF IInv

\* A step after which the process has no ring, and is in no call, is easy.
LEMMA GoneIInv ==
    ASSUME IInv, NEW p \in Processes, Step(p), TypeOK', pc'[p] = "idle", ring'[p] = 0,
           size'[File] = size[File], totalSize'[File] = totalSize[File]
    PROVE  IInv'
<1>1. Calls(p)' /\ Descriptors(p)' /\ OwnHeader(p)'
    BY DEF Calls, Descriptors, OwnHeader, Has, Storing
<1>2. FileStays(p)
    BY DEF FileStays, IInv, FileKept
<1> QED
    BY <1>1, <1>2, StepIInv

-----------------------------------------------------------------------------
(* The types. *)

LEMMA TypeFacts ==
    /\ NoRequest \in Requests
    /\ File \in Areas /\ 0 \in 0 .. MaxHead
    /\ \A p \in Processes : MayAsk[p] \subseteq Requests
    /\ \A q \in Requests : Refusal(q) \in Codes /\ Refusal(q) # "SUCCESS"
BY GeometryAssumption, AreasAssumption
   DEF NoRequest, Requests, Modes, Areas, Refusal, Codes

LEMMA ReturnType ==
    ASSUME TypeOK, NEW p \in Processes, NEW code \in Codes, Return(p, code)
    PROVE  /\ pc' \in [Processes -> Labels] /\ rc' \in [Processes -> Codes]
           /\ fd' \in [Processes -> Fds \cup {-1, -9999}] /\ req' \in [Processes -> Requests]
           /\ pc'[p] = "idle"
BY TypeFacts DEF TypeOK, Return, Goto, Labels

LEMMA ContinueType ==
    ASSUME TypeOK, NEW p \in Processes, NEW l \in Labels, Continue(p, l)
    PROVE  /\ pc' \in [Processes -> Labels] /\ rc' \in [Processes -> Codes]
           /\ fd' \in [Processes -> Fds \cup {-1, -9999}] /\ req' \in [Processes -> Requests]
           /\ pc'[p] = l
BY DEF TypeOK, Continue, Goto

LEMMA GetBeginIInv == ASSUME IInv, NEW p \in Processes, GetBegin(p) PROVE IInv'
<1>1. TypeOK /\ UNCHANGED <<size, header, table, ring>> /\ pc[p] = "idle" /\ ring[p] = 0
    BY DEF GetBegin, IInv
<1>2. Step(p)
    BY DEF Step, Get
<1>3. ASSUME NEW q \in MayAsk[p], Refusal(q) # "none", Return(p, Refusal(q))
      PROVE  IInv'
    <2>1. Refusal(q) \in Codes
        BY TypeFacts
    <2>2. TypeOK' /\ pc'[p] = "idle"
        BY <1>1, <1>3, <2>1, ReturnType DEF TypeOK, header
    <2> QED
        BY <1>1, <1>2, <2>2, GoneIInv DEF header
<1>4. ASSUME NEW q \in MayAsk[p], Refusal(q) = "none",
             Goto(p, IF q.mode = "malloc" THEN "malloc" ELSE "open"),
             req' = [req EXCEPT ![p] = q], rc' = [rc EXCEPT ![p] = "none"], UNCHANGED fd
      PROVE  IInv'
    <2>1. q \in Requests /\ q.mode \in {"malloc", "shm"}
        BY <1>4, TypeFacts DEF Refusal, Requests, Modes
    <2>2. /\ pc'[p] = IF q.mode = "malloc" THEN "malloc" ELSE "open"
          /\ req'[p] = q /\ rc'[p] = "none" /\ ring'[p] = 0
        BY <1>1, <1>4 DEF Goto, TypeOK
    <2>3. TypeOK'
        <3>1. /\ pc' \in [Processes -> Labels] /\ req' \in [Processes -> Requests]
              /\ rc' \in [Processes -> Codes]
            <4>1. "malloc" \in Labels /\ "open" \in Labels /\ "none" \in Codes
                BY DEF Labels, Codes
            <4> QED
                BY <1>1, <1>4, <2>1, <4>1 DEF TypeOK, Goto
        <3> QED
            BY <1>1, <1>4, <3>1 DEF TypeOK, header
    <2>4. Calls(p)' /\ Descriptors(p)' /\ OwnHeader(p)'
        BY <1>4, <2>1, <2>2 DEF Calls, Descriptors, OwnHeader, Has, Storing
    <2>5. FileStays(p)
        BY <1>1, <2>1, <2>2 DEF FileStays, header, IInv, FileKept
    <2> QED
        BY <1>2, <2>3, <2>4, <2>5, StepIInv
<1> QED
    BY <1>3, <1>4 DEF GetBegin

\* A call that fails before the ring is mapped leaves nothing, but for the descriptor.
LEMMA FailedIInv ==
    ASSUME IInv, NEW p \in Processes, Step(p), NEW code \in Codes, Return(p, code), ring[p] = 0,
           UNCHANGED <<size, header, ring>>,
           table' \in [Processes -> [Fds -> {"closed", "ring", "other"}]]
    PROVE  IInv'
<1>1. TypeOK' /\ pc'[p] = "idle"
    BY ReturnType DEF TypeOK, header, IInv
<1> QED
    BY <1>1, GoneIInv DEF header

LEMMA MallocIInv == ASSUME IInv, NEW p \in Processes, Malloc(p) PROVE IInv'
<1> USE DEF header
<1>1. /\ TypeOK /\ Step(p) /\ pc[p] = "malloc" /\ Calls(p) /\ UNCHANGED <<header, table>>
      /\ total(p) \in Nat /\ total(p) # 0
    BY AreaFacts DEF Malloc, IInv, Step, Get
<1>2. CASE Return(p, "errno") /\ UNCHANGED <<size, ring>>
    <2>1. "errno" \in Codes /\ ring[p] = 0
        BY <1>1 DEF Codes, Calls
    <2>2. table' \in [Processes -> [Fds -> {"closed", "ring", "other"}]]
        BY <1>1 DEF TypeOK
    <2> QED
        BY <1>1, <1>2, <2>1, <2>2, FailedIInv
<1>3. CASE /\ size' = [size EXCEPT ![p] = total(p)]
           /\ ring' = [ring EXCEPT ![p] = total(p)]
           /\ fd' = [fd EXCEPT ![p] = MallocFd]
           /\ Goto(p, FirstStore(p))
           /\ UNCHANGED <<req, rc>>
    <2>1. p \in Areas /\ p # File
        BY <1>1, AreaFacts
    <2>2. TypeOK'
        BY <1>1, <1>3, <2>1 DEF TypeOK, Goto, FirstStore, Labels, MallocFd
    <2>3. /\ pc'[p] = (IF block(p) THEN "sync" ELSE "indices") /\ ring'[p] = total(p)
          /\ fd'[p] = -9999 /\ req'[p] = req[p] /\ rc'[p] = rc[p] /\ table'[p] = table[p]
          /\ size'[File] = size[File]
        BY <1>1, <1>3, <2>1 DEF TypeOK, Goto, FirstStore, MallocFd
    <2>4. /\ area(p)' = p /\ total(p)' = total(p) /\ needNew(p)' /\ block(p)' = block(p)
          /\ req[p].mode = "malloc"
        BY <1>1, <2>3 DEF area, total, needNew, block, Calls
    <2>5. Calls(p)' /\ Descriptors(p)' /\ OwnHeader(p)'
        BY <1>1, <2>3, <2>4 DEF Calls, Descriptors, OwnHeader, Has, Storing
    <2>6. FileStays(p)
        BY <1>1, <2>1, <2>3, <2>4 DEF FileStays, IInv, FileKept
    <2> QED
        BY <1>1, <2>2, <2>5, <2>6, StepIInv
<1> QED
    BY <1>2, <1>3 DEF Malloc

LEMMA EmptyAreaType ==
    ASSUME TypeOK, NEW p \in Processes, EmptyArea(p)
    PROVE  /\ size' \in [Areas -> Nat] /\ totalSize' \in [Areas -> Nat]
           /\ head' \in [Areas -> 0 .. MaxHead] /\ mapType' \in [Areas -> {"zero", "malloc", "shm"}]
           /\ fdOf' \in [Areas -> Fds \cup {0, -9999}]
           /\ sync' \in [Areas -> {"zero", "ready", "destroyed"}]
<1>1. ASSUME NEW R, NEW f \in [Areas -> R], NEW v \in R PROVE [f EXCEPT ![p] = v] \in [Areas -> R]
    OBVIOUS
<1>2. /\ size' = [size EXCEPT ![p] = 0] /\ size \in [Areas -> Nat]
      /\ totalSize' = [totalSize EXCEPT ![p] = 0] /\ totalSize \in [Areas -> Nat]
      /\ head' = [head EXCEPT ![p] = 0] /\ head \in [Areas -> 0 .. MaxHead]
      /\ mapType' = [mapType EXCEPT ![p] = "zero"]
      /\ mapType \in [Areas -> {"zero", "malloc", "shm"}]
      /\ fdOf' = [fdOf EXCEPT ![p] = 0] /\ fdOf \in [Areas -> Fds \cup {0, -9999}]
      /\ sync' = [sync EXCEPT ![p] = "zero"]
      /\ sync \in [Areas -> {"zero", "ready", "destroyed"}]
    BY DEF TypeOK, EmptyArea
<1>3. size' \in [Areas -> Nat] /\ totalSize' \in [Areas -> Nat]
    BY <1>1, <1>2
<1>4. head' \in [Areas -> 0 .. MaxHead]
    BY <1>1, <1>2, TypeFacts
<1>5. mapType' \in [Areas -> {"zero", "malloc", "shm"}]
    BY <1>1, <1>2
<1>6. fdOf' \in [Areas -> Fds \cup {0, -9999}]
    BY <1>1, <1>2
<1>7. sync' \in [Areas -> {"zero", "ready", "destroyed"}]
    BY <1>1, <1>2
<1> QED
    BY <1>3, <1>4, <1>5, <1>6, <1>7

LEMMA OpenIInv == ASSUME IInv, NEW p \in Processes, Open(p) PROVE IInv'
<1> USE DEF header
<1>1. /\ TypeOK /\ Step(p) /\ pc[p] = "open" /\ Calls(p) /\ ring' = ring /\ ring[p] = 0
    BY DEF Open, IInv, Step, Get, Calls
<1>2. CASE Return(p, "errno") /\ UNCHANGED <<size, header, table>>
    <2>1. "errno" \in Codes
        BY DEF Codes
    <2>2. table' \in [Processes -> [Fds -> {"closed", "ring", "other"}]]
        BY <1>1, <1>2 DEF TypeOK
    <2> QED
        BY <1>1, <1>2, <2>1, <2>2, FailedIInv
<1>3. ASSUME NEW n \in Fds, table' = [table EXCEPT ![p][n] = "ring"], fd' = [fd EXCEPT ![p] = n],
             UNCHANGED <<size, header>> \/ EmptyArea(p), Goto(p, "size"), UNCHANGED <<req, rc>>
      PROVE  IInv'
    <2>1. p \in Areas /\ p # File /\ File \in Areas
        BY <1>1, AreaFacts
    <2>2. TypeOK'
        <3>1. /\ size' \in [Areas -> Nat] /\ totalSize' \in [Areas -> Nat]
              /\ head' \in [Areas -> 0 .. MaxHead] /\ mapType' \in [Areas -> {"zero", "malloc", "shm"}]
              /\ fdOf' \in [Areas -> Fds \cup {0, -9999}]
              /\ sync' \in [Areas -> {"zero", "ready", "destroyed"}]
            <4>1. CASE UNCHANGED <<size, header>>
                BY <1>1, <4>1 DEF TypeOK
            <4>2. CASE EmptyArea(p)
                BY <1>1, <4>2, EmptyAreaType
            <4> QED
                BY <1>3, <4>1, <4>2
        <3>3. table' \in [Processes -> [Fds -> {"closed", "ring", "other"}]]
            BY <1>1, <1>3 DEF TypeOK
        <3>4. /\ pc' \in [Processes -> Labels] /\ fd' \in [Processes -> Fds \cup {-1, -9999}]
              /\ req' = req /\ rc' = rc /\ ring' = ring
            BY <1>1, <1>3 DEF TypeOK, Goto, Labels
        <3> QED
            BY <1>1, <3>1, <3>3, <3>4 DEF TypeOK
    <2>3. /\ pc'[p] = "size" /\ ring'[p] = 0 /\ fd'[p] = n /\ req'[p] = req[p] /\ rc'[p] = rc[p]
          /\ table'[p][n] = "ring"
        BY <1>1, <1>3 DEF TypeOK, Goto
    <2>4. size'[File] = size[File] /\ totalSize'[File] = totalSize[File]
        BY <1>1, <1>3, <2>1 DEF TypeOK, EmptyArea
    <2>5. Calls(p)' /\ Descriptors(p)' /\ OwnHeader(p)'
        BY <1>1, <2>3 DEF Calls, Descriptors, OwnHeader, Has, Storing
    <2>6. FileStays(p)
        BY <2>3, <2>4 DEF FileStays, IInv, FileKept
    <2> QED
        BY <1>1, <2>2, <2>5, <2>6, StepIInv
<1> QED
    BY <1>1, <1>2, <1>3 DEF Open, OpenedFile

LEMMA TruncateIInv == ASSUME IInv, NEW p \in Processes, Truncate(p) PROVE IInv'
<1> USE DEF header
<1>1. /\ TypeOK /\ Step(p) /\ pc[p] = "size" /\ Calls(p) /\ Descriptors(p)
      /\ UNCHANGED <<header, table, ring>> /\ ring[p] = 0
    BY DEF Truncate, IInv, Step, Get, Calls
<1>2. CASE Return(p, "errno") /\ UNCHANGED size
    <2>1. "errno" \in Codes
        BY DEF Codes
    <2>2. table' \in [Processes -> [Fds -> {"closed", "ring", "other"}]]
        BY <1>1 DEF TypeOK
    <2> QED
        BY <1>1, <1>2, <2>1, <2>2, FailedIInv
<1>3. CASE size' = [size EXCEPT ![area(p)] = total(p)] /\ Continue(p, "mmap")
    <2>1. area(p) \in Areas /\ File \in Areas /\ total(p) \in Nat /\ total(p) # 0
        BY <1>1, AreaFacts
    <2>2. TypeOK'
        BY <1>1, <1>3, <2>1, ContinueType DEF TypeOK, Labels
    <2>3. /\ pc'[p] = "mmap" /\ ring'[p] = 0 /\ fd'[p] = fd[p] /\ req'[p] = req[p]
          /\ rc'[p] = rc[p] /\ table'[p] = table[p]
        BY <1>1, <1>3 DEF TypeOK, Goto, Continue
    <2>4. Calls(p)' /\ Descriptors(p)' /\ OwnHeader(p)'
        BY <1>1, <2>3 DEF Calls, Descriptors, OwnHeader, Has, Storing
    <2>5. area(p)' = area(p) /\ (area(p) = File => size'[File] # 0)
          /\ (size[File] # 0 => size'[File] # 0)
        BY <1>1, <1>3, <2>1, <2>3 DEF area, TypeOK
    <2>6. FileStays(p)
        BY <1>1, <2>5 DEF FileStays, IInv, FileKept
    <2> QED
        BY <1>1, <2>2, <2>4, <2>6, StepIInv
<1> QED
    BY <1>2, <1>3 DEF Truncate

LEMMA CheckSizeIInv == ASSUME IInv, NEW p \in Processes, CheckSize(p) PROVE IInv'
<1> USE DEF header
<1>1. /\ TypeOK /\ Step(p) /\ pc[p] = "size" /\ Calls(p) /\ Descriptors(p) /\ ~ needNew(p)
      /\ UNCHANGED <<size, header, table, ring>> /\ ring[p] = 0
    BY DEF CheckSize, IInv, Step, Get, Calls
<1>2. ASSUME NEW code \in {"errno", "MAPPING_NOT_EXISTS", "MAPPING_SIZE_ERROR"}, Return(p, code)
      PROVE  IInv'
    <2>1. code \in Codes
        BY DEF Codes
    <2>2. table' \in [Processes -> [Fds -> {"closed", "ring", "other"}]]
        BY <1>1 DEF TypeOK
    <2> QED
        BY <1>1, <1>2, <2>1, <2>2, FailedIInv
<1>3. CASE size[area(p)] # 0 /\ Continue(p, "mmap")
    <2>2. TypeOK'
        BY <1>1, <1>3, ContinueType DEF TypeOK, Labels
    <2>3. /\ pc'[p] = "mmap" /\ ring'[p] = 0 /\ fd'[p] = fd[p] /\ req'[p] = req[p]
          /\ rc'[p] = rc[p] /\ table'[p] = table[p]
        BY <1>1, <1>3 DEF TypeOK, Goto, Continue
    <2>4. Calls(p)' /\ Descriptors(p)' /\ OwnHeader(p)'
        BY <1>1, <2>3 DEF Calls, Descriptors, OwnHeader, Has, Storing
    <2>5. area(p)' = area(p)
        BY <2>3 DEF area
    <2>6. FileStays(p)
        BY <1>1, <1>3, <2>5 DEF FileStays, IInv, FileKept
    <2> QED
        BY <1>1, <2>2, <2>4, <2>6, StepIInv
<1> QED
    BY <1>2, <1>3 DEF CheckSize

LEMMA MmapIInv == ASSUME IInv, NEW p \in Processes, Mmap(p) PROVE IInv'
<1> USE DEF header
<1>1. /\ TypeOK /\ Step(p) /\ pc[p] = "mmap" /\ Calls(p) /\ Descriptors(p)
      /\ UNCHANGED <<size, header>> /\ ring[p] = 0
      /\ total(p) \in Nat /\ total(p) # 0
      /\ req[p].mode = "shm" /\ Refusal(req[p]) = "none" /\ fd[p] \in Fds
    BY AreaFacts DEF Mmap, IInv, Step, Get, Calls, Descriptors
<1>2. CASE Return(p, "errno") /\ CloseFd(p) /\ UNCHANGED ring
    <2>1. "errno" \in Codes
        BY DEF Codes
    <2>2. table' \in [Processes -> [Fds -> {"closed", "ring", "other"}]]
        BY <1>1, <1>2 DEF TypeOK, CloseFd
    <2> QED
        BY <1>1, <1>2, <2>1, <2>2, FailedIInv
<1>3. CASE /\ ring' = [ring EXCEPT ![p] = total(p)] /\ needNew(p)
           /\ Continue(p, FirstStore(p)) /\ UNCHANGED table
    <2>1. FirstStore(p) = (IF block(p) THEN "sync" ELSE "indices") /\ FirstStore(p) \in Labels
        BY DEF FirstStore, Labels
    <2>2. TypeOK'
        BY <1>1, <1>3, <2>1, ContinueType DEF TypeOK
    <2>3. /\ pc'[p] = FirstStore(p) /\ ring'[p] = total(p) /\ fd'[p] = fd[p] /\ req'[p] = req[p]
          /\ rc'[p] = rc[p] /\ table'[p] = table[p]
        BY <1>1, <1>3 DEF TypeOK, Goto, Continue
    <2>4. /\ area(p)' = area(p) /\ total(p)' = total(p) /\ needNew(p)' = needNew(p)
          /\ block(p)' = block(p)
        BY <2>3 DEF area, total, needNew, block
    <2>5. Calls(p)' /\ Descriptors(p)' /\ OwnHeader(p)'
        BY <1>1, <1>3, <2>1, <2>3, <2>4 DEF Calls, Descriptors, OwnHeader, Has, Storing
    <2>6. FileStays(p)
        BY <1>1, <2>4 DEF FileStays, IInv, FileKept
    <2> QED
        BY <1>1, <2>2, <2>5, <2>6, StepIInv
<1>4. CASE /\ ring' = [ring EXCEPT ![p] = total(p)] /\ ~ needNew(p)
           /\ Return(p, "SUCCESS") /\ UNCHANGED table
    <2>1. area(p) = File /\ File # p
        BY <1>1, <1>4, AreaFacts
    <2>2. TypeOK'
        <3>1. "SUCCESS" \in Codes
            BY DEF Codes
        <3> QED
            BY <1>1, <1>4, <3>1, ReturnType DEF TypeOK
    <2>3. pc'[p] = "idle" /\ ring'[p] = total(p) /\ req'[p] = req[p]
        BY <1>1, <1>4 DEF TypeOK, Goto, Return
    <2>4. area(p)' = area(p) /\ total(p)' = total(p)
        BY <2>3 DEF area, total
    <2>5. Calls(p)' /\ Descriptors(p)' /\ OwnHeader(p)'
        BY <1>1, <2>1, <2>3, <2>4 DEF Calls, Descriptors, OwnHeader, Has, Storing
    <2>6. FileStays(p)
        BY <1>1, <2>4 DEF FileStays, IInv, FileKept
    <2> QED
        BY <1>1, <2>2, <2>5, <2>6, StepIInv
<1> QED
    BY <1>2, <1>3, <1>4 DEF Mmap, AfterMmap

-----------------------------------------------------------------------------
(* The stores to the header. *)

\* A store that is not the last: the next label, and what is now in the header of
\* a ring of the process's own.
LEMMA StoreIInv ==
    ASSUME IInv, NEW p \in Processes, Step(p), Storing(p), NEW l \in Labels,
           l \in {"indices", "total", "type", "fd"}, Continue(p, l), UNCHANGED <<size, table, ring>>,
           TypeOK', totalSize'[File] # 0 => size'[File] # 0,
           area(p) = p =>
               /\ l \in {"type", "fd"} => totalSize'[p] = total(p)
               /\ l = "fd" => mapType'[p] = req[p].mode
               /\ block(p) => sync'[p] = "ready"
    PROVE  IInv'
<1>1. TypeOK /\ Calls(p) /\ Descriptors(p) /\ ring[p] # 0
    BY DEF IInv, Calls
<1>2. /\ pc'[p] = l /\ ring'[p] = ring[p] /\ fd'[p] = fd[p] /\ req'[p] = req[p]
      /\ rc'[p] = rc[p] /\ table'[p] = table[p]
    BY <1>1 DEF TypeOK, Goto, Continue
<1>3. /\ area(p)' = area(p) /\ total(p)' = total(p) /\ needNew(p)' = needNew(p)
      /\ block(p)' = block(p)
    BY <1>2 DEF area, total, needNew, block
<1>4. Calls(p)'
    BY <1>1, <1>2, <1>3 DEF Calls, Storing
<1>5. Descriptors(p)'
    BY <1>1, <1>2, <1>3 DEF Descriptors, Has, Storing
<1>6. OwnHeader(p)'
    BY <1>2, <1>3 DEF OwnHeader, Has, Storing
<1>7. FileStays(p)
    BY <1>1, <1>2, <1>3 DEF FileStays, IInv, FileKept
<1> QED
    BY <1>4, <1>5, <1>6, <1>7, StepIInv

\* What is known of a process that stores the header.
LEMMA StoreFacts ==
    ASSUME IInv, NEW p \in Processes, Storing(p)
    PROVE  /\ TypeOK /\ p \in Areas /\ File \in Areas /\ area(p) \in {File, p} /\ File # p
           /\ total(p) \in Nat /\ total(p) # 0 /\ ring[p] # 0
           /\ req[p].mode \in {"malloc", "shm"}
           /\ area(p) = File => size[File] # 0
           /\ totalSize[File] # 0 => size[File] # 0
           /\ area(p) = p =>
                  /\ pc[p] \in {"type", "fd"} => totalSize[p] = total(p)
                  /\ pc[p] = "fd" => mapType[p] = req[p].mode
                  /\ pc[p] # "sync" => (block(p) => sync[p] = "ready")
           /\ IF req[p].mode = "malloc"
              THEN fd[p] = -9999 ELSE fd[p] \in Fds /\ table[p][fd[p]] = "ring"
<1>1. TypeOK /\ Calls(p) /\ OwnHeader(p) /\ Descriptors(p)
    BY DEF IInv
<1>2. req[p] \in Requests /\ Refusal(req[p]) = "none"
    BY <1>1, AreaFacts DEF Calls, Storing
<1>3. req[p].mode \in {"malloc", "shm"}
    BY <1>2 DEF Requests, Refusal, Modes
<1>4. ring[p] # 0
    BY <1>1 DEF Calls
<1> QED
    BY <1>1, <1>3, <1>4, AreaFacts DEF IInv, FileKept, OwnHeader, Descriptors

LEMMA InitSyncIInv == ASSUME IInv, NEW p \in Processes, InitSync(p) PROVE IInv'
<1>1. /\ Step(p) /\ Storing(p) /\ pc[p] = "sync"
      /\ UNCHANGED <<size, head, totalSize, mapType, fdOf, table>>
    BY DEF InitSync, Step, Get, Storing
<1>2. /\ TypeOK /\ p \in Areas /\ area(p) \in {File, p} /\ File \in Areas
      /\ totalSize[File] # 0 => size[File] # 0
    BY <1>1, StoreFacts
<1>3. CASE /\ sync' = [sync EXCEPT ![area(p)] = "ready"]
           /\ Continue(p, "indices") /\ UNCHANGED ring
    <2>1. "indices" \in Labels
        BY DEF Labels
    <2>2. sync' \in [Areas -> {"zero", "ready", "destroyed"}]
        BY <1>2, <1>3 DEF TypeOK
    <2>3. TypeOK'
        BY <1>1, <1>2, <1>3, <2>1, <2>2, ContinueType DEF TypeOK
    <2>4. area(p) = p => sync'[p] = "ready"
        BY <1>2, <1>3 DEF TypeOK
    <2> QED
        BY <1>1, <1>2, <1>3, <2>1, <2>3, <2>4, StoreIInv
<1>4. CASE /\ sync' \in {sync, [sync EXCEPT ![area(p)] = "destroyed"]}
           /\ Return(p, "stale_errno") /\ ring' = [ring EXCEPT ![p] = 0]
    <2>1. "stale_errno" \in Codes
        BY DEF Codes
    <2>2. sync' \in [Areas -> {"zero", "ready", "destroyed"}]
        <3>1. CASE sync' = sync
            BY <1>2, <3>1 DEF TypeOK
        <3>2. CASE sync' = [sync EXCEPT ![area(p)] = "destroyed"]
            BY <1>2, <3>2 DEF TypeOK
        <3> QED
            BY <1>4, <3>1, <3>2
    <2>3. ring' \in [Processes -> Nat] /\ ring'[p] = 0
        <3>1. ring \in [Processes -> Nat] /\ ring' = [ring EXCEPT ![p] = 0]
            BY <1>2, <1>4 DEF TypeOK
        <3> QED
            BY <3>1
    <2>4. TypeOK' /\ pc'[p] = "idle"
        <3>1. /\ pc' \in [Processes -> Labels] /\ rc' \in [Processes -> Codes]
              /\ fd' \in [Processes -> Fds \cup {-1, -9999}] /\ req' \in [Processes -> Requests]
              /\ pc'[p] = "idle"
            <4>1. TypeOK /\ Return(p, "stale_errno")
                BY <1>2, <1>4
            <4> QED
                BY <2>1, <4>1, ReturnType
        <3> QED
            BY <1>1, <1>2, <2>2, <2>3, <3>1 DEF TypeOK
    <2> QED
        BY <1>1, <2>3, <2>4, GoneIInv
<1>5. NextStore[pc[p]] = "indices"
    BY <1>1 DEF NextStore
<1> QED
    BY <1>3, <1>4, <1>5 DEF InitSync

LEMMA InitIndicesIInv == ASSUME IInv, NEW p \in Processes, InitIndices(p) PROVE IInv'
<1>1. /\ Step(p) /\ Storing(p) /\ pc[p] = "indices" /\ Continue(p, "total")
      /\ head' = [head EXCEPT ![area(p)] = 0]
      /\ UNCHANGED <<size, totalSize, mapType, fdOf, sync, table, ring>>
    BY DEF InitIndices, Step, Get, Storing, NextStore
<1>2. /\ TypeOK /\ p \in Areas /\ File \in Areas /\ area(p) \in {File, p}
      /\ totalSize[File] # 0 => size[File] # 0
      /\ area(p) = p => (block(p) => sync[p] = "ready")
    BY <1>1, StoreFacts
<1>3. "total" \in Labels
    BY DEF Labels
<1>4. head' \in [Areas -> 0 .. MaxHead]
    BY <1>1, <1>2, TypeFacts DEF TypeOK
<1>5. TypeOK'
    BY <1>1, <1>2, <1>3, <1>4, ContinueType DEF TypeOK
<1> QED
    BY <1>1, <1>2, <1>3, <1>5, StoreIInv

LEMMA InitTotalIInv == ASSUME IInv, NEW p \in Processes, InitTotal(p) PROVE IInv'
<1>1. /\ Step(p) /\ Storing(p) /\ pc[p] = "total" /\ Continue(p, "type")
      /\ totalSize' = [totalSize EXCEPT ![area(p)] = total(p)]
      /\ UNCHANGED <<size, head, mapType, fdOf, sync, table, ring>>
    BY DEF InitTotal, Step, Get, Storing, NextStore
<1>2. /\ TypeOK /\ p \in Areas /\ File \in Areas /\ area(p) \in {File, p} /\ File # p
      /\ total(p) \in Nat
      /\ totalSize[File] # 0 => size[File] # 0
      /\ area(p) = File => size[File] # 0
      /\ area(p) = p => (block(p) => sync[p] = "ready")
    BY <1>1, StoreFacts
<1>3. "type" \in Labels
    BY DEF Labels
<1>4. totalSize' \in [Areas -> Nat]
    BY <1>1, <1>2 DEF TypeOK
<1>5. TypeOK'
    BY <1>1, <1>2, <1>3, <1>4, ContinueType DEF TypeOK
<1>6. totalSize'[File] # 0 => size'[File] # 0
    BY <1>1, <1>2 DEF TypeOK
<1>7. area(p) = p => totalSize'[p] = total(p)
    BY <1>1, <1>2 DEF TypeOK
<1> QED
    BY <1>1, <1>2, <1>3, <1>5, <1>6, <1>7, StoreIInv

LEMMA InitTypeIInv == ASSUME IInv, NEW p \in Processes, InitType(p) PROVE IInv'
<1>1. /\ Step(p) /\ Storing(p) /\ pc[p] = "type" /\ Continue(p, "fd")
      /\ mapType' = [mapType EXCEPT ![area(p)] = req[p].mode]
      /\ UNCHANGED <<size, head, totalSize, fdOf, sync, table, ring>>
    BY DEF InitType, Step, Get, Storing, NextStore
<1>2. /\ TypeOK /\ p \in Areas /\ File \in Areas /\ area(p) \in {File, p}
      /\ req[p].mode \in {"malloc", "shm"}
      /\ totalSize[File] # 0 => size[File] # 0
      /\ area(p) = p => totalSize[p] = total(p) /\ (block(p) => sync[p] = "ready")
    BY <1>1, StoreFacts
<1>3. "fd" \in Labels
    BY DEF Labels
<1>4. mapType' \in [Areas -> {"zero", "malloc", "shm"}]
    BY <1>1, <1>2 DEF TypeOK
<1>5. TypeOK'
    BY <1>1, <1>2, <1>3, <1>4, ContinueType DEF TypeOK
<1>6. area(p) = p => mapType'[p] = req[p].mode
    BY <1>1, <1>2 DEF TypeOK
<1> QED
    BY <1>1, <1>2, <1>3, <1>5, <1>6, StoreIInv

\* The last store: the ring is given to the caller.
LEMMA InitFdIInv == ASSUME IInv, NEW p \in Processes, InitFd(p) PROVE IInv'
<1>1. /\ Step(p) /\ Storing(p) /\ pc[p] = "fd" /\ Return(p, "SUCCESS")
      /\ fdOf' = [fdOf EXCEPT ![area(p)] = fd[p]]
      /\ UNCHANGED <<size, head, totalSize, mapType, sync, table, ring>>
    BY DEF InitFd, Step, Get, Storing
<1>2. /\ TypeOK /\ p \in Areas /\ File \in Areas /\ area(p) \in {File, p} /\ ring[p] # 0
      /\ req[p].mode \in {"malloc", "shm"}
      /\ totalSize[File] # 0 => size[File] # 0
      /\ area(p) = File => size[File] # 0
      /\ area(p) = p => /\ totalSize[p] = total(p) /\ mapType[p] = req[p].mode
                        /\ block(p) => sync[p] = "ready"
      /\ IF req[p].mode = "malloc"
              THEN fd[p] = -9999 ELSE fd[p] \in Fds /\ table[p][fd[p]] = "ring"
    BY <1>1, StoreFacts
<1>3. "SUCCESS" \in Codes /\ Calls(p)
    BY DEF Codes, IInv
<1>4. fdOf' \in [Areas -> Fds \cup {0, -9999}]
    <2>1. fd[p] \in Fds \cup {0, -9999}
        BY <1>2
    <2> QED
        BY <1>1, <1>2, <2>1 DEF TypeOK
<1>5. TypeOK'
    BY <1>1, <1>2, <1>3, <1>4, ReturnType DEF TypeOK
<1>6. /\ pc'[p] = "idle" /\ ring'[p] = ring[p] /\ req'[p] = req[p] /\ table'[p] = table[p]
    BY <1>1, <1>2 DEF TypeOK, Goto, Return
<1>7. /\ area(p)' = area(p) /\ total(p)' = total(p) /\ block(p)' = block(p)
      /\ needNew(p)' = needNew(p)
    BY <1>6 DEF area, total, needNew, block
<1>8. Calls(p)'
    BY <1>1, <1>3, <1>6, <1>7 DEF Calls, Storing
<1>9. Descriptors(p)'
    <2>1. area(p) = p => fdOf'[p] = fd[p]
        BY <1>1, <1>2 DEF TypeOK
    <2> QED
        BY <1>2, <1>6, <1>7, <2>1 DEF Descriptors, Has, Storing
<1>10. OwnHeader(p)'
    BY <1>1, <1>2, <1>6, <1>7 DEF OwnHeader, Has, Storing
<1>11. FileStays(p)
    BY <1>1, <1>2, <1>6, <1>7 DEF FileStays
<1> QED
    BY <1>1, <1>5, <1>8, <1>9, <1>10, <1>11, StepIInv

-----------------------------------------------------------------------------
(* The processes that have a ring, and those that end. *)

LEMMA DelIInv == ASSUME IInv, NEW p \in Processes, Del(p) PROVE IInv'
<1>1. /\ TypeOK /\ Step(p) /\ p \in Areas /\ File \in Areas /\ File # p
      /\ pc[p] = "idle"
    BY AreaFacts DEF Del, Step, IInv, Has
<1>2. /\ ring' = [ring EXCEPT ![p] = 0] /\ req' = [req EXCEPT ![p] = NoRequest]
      /\ UNCHANGED <<pc, fd, rc>>
      /\ table' = table \/ \E n \in Fds : table' = [table EXCEPT ![p][n] = "closed"]
    BY DEF Del, Unmap
<1>3. ring' \in [Processes -> Nat] /\ ring'[p] = 0
    BY <1>1, <1>2 DEF TypeOK
<1>4. req' \in [Processes -> Requests]
    BY <1>1, <1>2, TypeFacts DEF TypeOK
<1>5. table' \in [Processes -> [Fds -> {"closed", "ring", "other"}]]
    <2>1. table \in [Processes -> [Fds -> {"closed", "ring", "other"}]]
        BY <1>1 DEF TypeOK
    <2>2. ASSUME NEW n \in Fds, table' = [table EXCEPT ![p][n] = "closed"]
          PROVE  table' \in [Processes -> [Fds -> {"closed", "ring", "other"}]]
        BY <2>1, <2>2
    <2> QED
        BY <1>2, <2>1, <2>2
<1>6. /\ size' \in [Areas -> Nat] /\ totalSize' \in [Areas -> Nat]
      /\ head' \in [Areas -> 0 .. MaxHead] /\ mapType' \in [Areas -> {"zero", "malloc", "shm"}]
      /\ fdOf' \in [Areas -> Fds \cup {0, -9999}]
      /\ sync' \in [Areas -> {"zero", "ready", "destroyed"}]
      /\ size'[File] = size[File] /\ totalSize'[File] = totalSize[File]
    <2>1. CASE EmptyArea(p)
        <3>1. size'[File] = size[File] /\ totalSize'[File] = totalSize[File]
            BY <1>1, <2>1 DEF EmptyArea, TypeOK
        <3> QED
            BY <1>1, <2>1, <3>1, EmptyAreaType
    <2>2. CASE /\ UNCHANGED <<size, head, totalSize, mapType, fdOf>>
               /\ sync' = sync \/ sync' = [sync EXCEPT ![File] = "destroyed"]
        <3>1. sync' \in [Areas -> {"zero", "ready", "destroyed"}]
            BY <1>1, <2>2 DEF TypeOK
        <3> QED
            BY <1>1, <2>2, <3>1 DEF TypeOK
    <2> QED
        BY <2>1, <2>2 DEF Del
<1>7. TypeOK'
    BY <1>1, <1>2, <1>3, <1>4, <1>5, <1>6 DEF TypeOK
<1> QED
    BY <1>1, <1>2, <1>3, <1>6, <1>7, GoneIInv

LEMMA PushIInv == ASSUME IInv, NEW p \in Processes, Push(p) PROVE IInv'
<1>1. TypeOK /\ Step(p) /\ area(p) \in Areas /\ Calls(p) /\ Descriptors(p) /\ OwnHeader(p)
    BY AreaFacts DEF Push, Step, IInv
<1>2. /\ head' = [head EXCEPT ![area(p)] = head[area(p)] + 1] /\ head[area(p)] < MaxHead
      /\ UNCHANGED <<size, totalSize, mapType, fdOf, sync, pc, req, fd, table, ring, rc>>
    BY DEF Push
<1>3. head' \in [Areas -> 0 .. MaxHead]
    <2>1. head[area(p)] + 1 \in 0 .. MaxHead
        BY <1>1, <1>2, AreasAssumption DEF TypeOK
    <2> QED
        BY <1>1, <1>2, <2>1 DEF TypeOK
<1>4. TypeOK'
    BY <1>1, <1>2, <1>3 DEF TypeOK
<1>5. Calls(p)' /\ Descriptors(p)' /\ OwnHeader(p)'
    BY <1>1, <1>2 DEF Calls, Descriptors, OwnHeader, Has, Storing, area, total, needNew, block
<1>6. FileStays(p)
    BY <1>1, <1>2 DEF FileStays, IInv, FileKept, area
<1> QED
    BY <1>1, <1>4, <1>5, <1>6, StepIInv

LEMMA ExitIInv == ASSUME IInv, NEW p \in Processes, Exit(p) PROVE IInv'
<1>1. TypeOK /\ Step(p) /\ Return(p, "none") /\ EmptyArea(p)
    BY DEF Exit, Step, IInv
<1>2. ring' \in [Processes -> Nat] /\ ring'[p] = 0
    BY <1>1 DEF TypeOK, Exit
<1>3. table' \in [Processes -> [Fds -> {"closed", "ring", "other"}]]
    BY <1>1 DEF TypeOK, Exit
<1>4. /\ pc' \in [Processes -> Labels] /\ rc' \in [Processes -> Codes]
      /\ fd' \in [Processes -> Fds \cup {-1, -9999}] /\ req' \in [Processes -> Requests]
      /\ pc'[p] = "idle"
    <2>1. "none" \in Codes
        BY DEF Codes
    <2> QED
        BY <1>1, <2>1, ReturnType
<1>5. TypeOK'
    BY <1>1, <1>2, <1>3, <1>4, EmptyAreaType DEF TypeOK
<1>6. size'[File] = size[File] /\ totalSize'[File] = totalSize[File]
    BY <1>1, AreaFacts DEF EmptyArea, TypeOK
<1> QED
    BY <1>1, <1>2, <1>4, <1>5, <1>6, GoneIInv

LEMMA InitIInv == ASSUME Init PROVE IInv
<1> USE DEF Init
<1>1. TypeOK
    <2>1. table \in [Processes -> [Fds -> {"closed", "ring", "other"}]]
        OBVIOUS
    <2>2. /\ head \in [Areas -> 0 .. MaxHead] /\ size \in [Areas -> Nat]
          /\ totalSize \in [Areas -> Nat] /\ req \in [Processes -> Requests]
        BY TypeFacts
    <2>3. /\ mapType \in [Areas -> {"zero", "malloc", "shm"}]
          /\ fdOf \in [Areas -> Fds \cup {0, -9999}]
          /\ sync \in [Areas -> {"zero", "ready", "destroyed"}]
        OBVIOUS
    <2>4. /\ pc \in [Processes -> Labels] /\ rc \in [Processes -> Codes]
          /\ fd \in [Processes -> Fds \cup {-1, -9999}] /\ ring \in [Processes -> Nat]
        BY DEF Labels, Codes
    <2> QED
        BY <2>1, <2>2, <2>3, <2>4 DEF TypeOK
<1>2. ASSUME NEW p \in Processes PROVE Calls(p) /\ Descriptors(p) /\ OwnHeader(p)
    BY DEF Calls, Descriptors, OwnHeader, Has, Storing
<1>3. FileKept
    BY DEF FileKept, Areas
<1> QED
    BY <1>1, <1>2, <1>3 DEF IInv

LEMMA NextIInv == ASSUME IInv, [Next]_vars PROVE IInv'
<1>1. CASE UNCHANGED vars
    BY <1>1 DEF vars, IInv, TypeOK, Calls, Descriptors, OwnHeader, FileKept, Has, Storing,
                area, total, needNew, block
<1>2. ASSUME NEW p \in Processes, Get(p) PROVE IInv'
    BY <1>2, GetBeginIInv, MallocIInv, OpenIInv, TruncateIInv, CheckSizeIInv, MmapIInv,
       InitSyncIInv, InitIndicesIInv, InitTotalIInv, InitTypeIInv, InitFdIInv DEF Get
<1> QED
    BY <1>1, <1>2, DelIInv, PushIInv, ExitIInv DEF Next

-----------------------------------------------------------------------------
(* The theorems. *)

\* Whatever processes ask for, whatever system call fails and whoever ends.
THEOREM Invariance == Spec => []IInv
BY InitIInv, NextIInv, PTL DEF Spec

\* Every variable of Mapping keeps its type: header, descriptors and answers.
THEOREM TypeCorrect == Spec => []TypeOK
<1>1. IInv => TypeOK
    BY DEF IInv
<1> QED
    BY <1>1, Invariance, PTL

\* A ring that get_buf or get_block_buf made for the process alone has a complete
\* header when the process gets it, and keeps it until Del.
THEOREM OwnRings == Spec => []OwnRingWhole
<1>1. ASSUME IInv PROVE OwnRingWhole
    <2>1. SUFFICES ASSUME NEW p \in Processes, Has(p), area(p) = p
                   PROVE  /\ totalSize[p] = ring[p]
                          /\ mapType[p] = req[p].mode
                          /\ mapType[p] = "shm" => table[p][fdOf[p]] = "ring"
                          /\ block(p) => sync[p] = "ready"
        BY DEF OwnRingWhole
    <2>2. Calls(p) /\ Descriptors(p) /\ OwnHeader(p)
        BY <1>1 DEF IInv
    <2> QED
        BY <2>1, <2>2 DEF Has, Calls, Descriptors, OwnHeader
<1> QED
    BY <1>1, Invariance, PTL

\* The test of MAP_EXISTS answers MAPPING_NOT_EXISTS only if nobody has stored the
\* size of a ring in the file.
THEOREM NotExistsHonest == Spec => NotExistsIsHonest
<1>1. ASSUME IInv, [Next]_vars, NEW p \in Processes,
             pc[p] = "size", rc'[p] = "MAPPING_NOT_EXISTS"
      PROVE  totalSize[File] = 0
    <2>1. rc[p] = "none" /\ TypeOK /\ Calls(p) /\ Refusal(req[p]) = "none"
        BY <1>1 DEF IInv, Calls
    <2>2. ~ UNCHANGED vars
        BY <1>1, <2>1 DEF vars
    <2>3. PICK q \in Processes : Step(q)
        BY <1>1, <2>2 DEF Next, Step
    <2>4. q = p
        BY <1>1, <2>1, <2>3, Elsewhere
    <2>5. CheckSize(p) \/ Truncate(p) \/ Exit(p)
        BY <1>1, <2>3, <2>4 DEF Step, Get, GetBegin, Malloc, Open, Mmap, InitSync, InitIndices,
                                InitTotal, InitType, InitFd, Del, Push, Has
    <2>6. ~ Truncate(p) /\ ~ Exit(p)
        BY <1>1, <2>1 DEF Truncate, Exit, Return, Continue, TypeOK
    <2>7. ~ needNew(p) /\ size[area(p)] = 0
        BY <1>1, <2>1, <2>5, <2>6 DEF CheckSize, Return, Continue, TypeOK
    <2>8. area(p) = File
        BY <2>1, <2>7, AreaFacts
    <2> QED
        BY <1>1, <2>7, <2>8 DEF IInv, FileKept
<1>2. IInv /\ [Next]_vars =>
        [\A p \in Processes :
            pc[p] = "size" /\ rc'[p] = "MAPPING_NOT_EXISTS" => totalSize[File] = 0]_vars
    BY <1>1
<1> QED
    BY <1>2, Invariance, PTL DEF Spec, NotExistsIsHonest

-----------------------------------------------------------------------------
(* Sizes in the file. *)

\* Who changes what in the file, and how a process comes to its mapping.
FileStep(p) ==
    /\ \/ size'[File] = size[File]
       \/ pc[p] = "size" /\ needNew(p) /\ area(p) = File /\ size'[File] = total(p)
    /\ \/ totalSize'[File] = totalSize[File]
       \/ pc[p] = "total" /\ area(p) = File /\ totalSize'[File] = total(p)
    /\ \/ mapType'[File] = mapType[File]
       \/ pc[p] = "type" /\ area(p) = File
    /\ pc'[p] = "type" /\ area(p)' = File => totalSize'[File] = total(p)

MapStep(p) ==
    Maps(p)' =>
        /\ req'[p] = req[p]
        /\ Maps(p) \/ size'[area(p)] = total(p)
        /\ Maps(p) => size' = size /\ (pc[p] = "idle" => pc'[p] = "idle")
        /\ ~ Maps(p) /\ area(p) = File =>
               pc[p] = "size" /\ pc'[p] = "mmap" /\ totalSize' = totalSize
        /\ BeforeTotal(p) /\ area(p) = File => BeforeTotal(p)' \/ totalSize'[File] = total(p)

LEMMA FileChanges ==
    ASSUME IInv, NEW p \in Processes, Step(p)
    PROVE  FileStep(p) /\ MapStep(p)
<1> USE DEF header, FileStep, MapStep, Maps
<1>1. /\ TypeOK /\ p \in Areas /\ File \in Areas /\ area(p) \in {File, p} /\ File # p
      /\ total(p) \in Nat /\ total(p) # 0 /\ Calls(p)
    BY AreaFacts DEF IInv
<1>2. req'[p] = req[p] => area(p)' = area(p) /\ total(p)' = total(p) /\ needNew(p)' = needNew(p)
    BY DEF area, total, needNew
<1>3. CASE GetBegin(p) \/ Del(p) \/ Exit(p)
    <2>1. ring'[p] = 0 /\ pc'[p] \in {"idle", "malloc", "open"}
        BY <1>1, <1>3 DEF GetBegin, Del, Exit, Unmap, Return, Goto, TypeOK, Has
    <2>2. /\ size'[File] = size[File] /\ totalSize'[File] = totalSize[File]
          /\ mapType'[File] = mapType[File]
        <3>1. UNCHANGED <<size, totalSize, mapType>> \/ EmptyArea(p)
            BY <1>3 DEF GetBegin, Del, Exit
        <3> QED
            BY <1>1, <3>1 DEF EmptyArea, TypeOK
    <2> QED
        BY <2>1, <2>2
<1>4. CASE Malloc(p)
    <2>1. /\ UNCHANGED <<totalSize, mapType>> /\ size'[File] = size[File]
          /\ pc'[p] \in {"idle", "sync", "indices"} /\ ring[p] = 0 /\ pc[p] = "malloc"
          /\ ring'[p] # 0 => size'[p] = total(p) /\ req'[p] = req[p]
          /\ area(p) = p
        BY <1>1, <1>4 DEF Malloc, Return, Goto, TypeOK, FirstStore, Calls, area
    <2> QED
        BY <1>1, <1>2, <2>1
<1>5. CASE Open(p)
    <2>1. /\ size'[File] = size[File] /\ totalSize'[File] = totalSize[File]
          /\ mapType'[File] = mapType[File]
        <3>1. UNCHANGED <<size, header>> \/ EmptyArea(p)
            BY <1>5 DEF Open, OpenedFile
        <3> QED
            BY <1>1, <3>1 DEF EmptyArea, TypeOK
    <2>2. ring'[p] = 0 /\ pc'[p] \in {"idle", "size"}
        BY <1>1, <1>5 DEF Open, Return, Goto, TypeOK, Calls
    <2> QED
        BY <2>1, <2>2
<1>6. CASE Truncate(p)
    <2>1. /\ UNCHANGED <<totalSize, mapType, ring>> /\ ring[p] = 0 /\ pc[p] = "size" /\ needNew(p)
          /\ \/ size' = size /\ pc'[p] = "idle"
             \/ /\ size' = [size EXCEPT ![area(p)] = total(p)]
                /\ pc'[p] = "mmap" /\ req'[p] = req[p]
        BY <1>1, <1>6 DEF Truncate, Return, Continue, Goto, TypeOK, Calls
    <2>3. /\ area(p) # File => size'[File] = size[File]
          /\ area(p) = File => size'[File] \in {size[File], total(p)}
        BY <1>1, <2>1 DEF TypeOK
    <2>4. pc'[p] = "mmap" => size'[area(p)] = total(p)
        BY <1>1, <2>1 DEF TypeOK
    <2> QED
        BY <1>2, <2>1, <2>3, <2>4 DEF BeforeTotal
<1>7. CASE CheckSize(p)
    <2>1. /\ UNCHANGED <<size, totalSize, mapType, ring>> /\ ring[p] = 0 /\ pc[p] = "size"
          /\ pc'[p] \in {"idle", "mmap"}
          /\ pc'[p] = "mmap" => req'[p] = req[p] /\ size[area(p)] = total(p)
        BY <1>1, <1>7 DEF CheckSize, WrongSize, Return, Continue, Goto, TypeOK, Calls
    <2> QED
        BY <1>2, <2>1 DEF BeforeTotal
<1>8. CASE Mmap(p)
    <2>1. /\ UNCHANGED <<size, totalSize, mapType>> /\ pc[p] = "mmap" /\ ring[p] = 0
          /\ pc'[p] \in {"idle", "sync", "indices"}
          /\ ring'[p] # 0 => req'[p] = req[p]
          /\ ring'[p] # 0 /\ needNew(p) => pc'[p] \in {"sync", "indices"}
        BY <1>1, <1>8 DEF Mmap, FirstStore, Return, Continue, Goto, TypeOK, Calls
    <2> QED
        BY <1>2, <2>1 DEF BeforeTotal
<1>9. CASE InitSync(p) \/ InitIndices(p) \/ InitFd(p)
    <2>1. /\ UNCHANGED <<size, totalSize, mapType>>
          /\ pc'[p] \in {"idle", "indices", "total"} /\ pc[p] \in {"sync", "indices", "fd"}
          /\ ring'[p] # 0 => ring[p] # 0 /\ req'[p] = req[p]
          /\ ring'[p] # 0 /\ pc[p] # "fd" => pc'[p] \in {"indices", "total"}
        <3>1. CASE InitSync(p)
            BY <1>1, <3>1 DEF InitSync, NextStore, Return, Continue, Goto, TypeOK
        <3>2. CASE InitIndices(p) \/ InitFd(p)
            BY <1>1, <3>2 DEF InitIndices, InitFd, NextStore, Return, Continue, Goto, TypeOK
        <3> QED
            BY <1>9, <3>1, <3>2
    <2> QED
        BY <1>2, <2>1 DEF BeforeTotal
<1>10. CASE InitTotal(p)
    <2>1. /\ UNCHANGED <<size, mapType, ring, req>> /\ pc[p] = "total" /\ pc'[p] = "type"
          /\ totalSize' = [totalSize EXCEPT ![area(p)] = total(p)]
        BY <1>1, <1>10 DEF InitTotal, NextStore, Continue, Goto, TypeOK
    <2>2. area(p) # File => totalSize'[File] = totalSize[File]
        BY <1>1, <2>1 DEF TypeOK
    <2>3. area(p) = File => totalSize'[File] = total(p)
        BY <1>1, <2>1 DEF TypeOK
    <2>4. ring[p] # 0
        BY <1>1, <2>1 DEF Calls, Storing
    <2> QED
        BY <1>2, <2>1, <2>2, <2>3, <2>4
<1>11. CASE InitType(p)
    <2>1. /\ UNCHANGED <<size, totalSize, ring, req>> /\ pc[p] = "type" /\ pc'[p] = "fd"
          /\ mapType' = [mapType EXCEPT ![area(p)] = req[p].mode]
        BY <1>1, <1>11 DEF InitType, NextStore, Continue, Goto, TypeOK
    <2>2. mapType'[File] = mapType[File] \/ area(p) = File
        BY <1>1, <2>1 DEF TypeOK
    <2> QED
        BY <1>2, <2>1, <2>2 DEF BeforeTotal
<1>12. CASE Push(p)
    <2>1. UNCHANGED <<size, totalSize, mapType, ring, req, pc>> /\ pc[p] = "idle"
        BY <1>12 DEF Push, Has
    <2> QED
        BY <1>2, <2>1 DEF BeforeTotal
<1> QED
    BY <1>3, <1>4, <1>5, <1>6, <1>7, <1>8, <1>9, <1>10, <1>11, <1>12 DEF Step, Get

\* What the step of p does not change of another process.
LEMMA OtherMaps ==
    ASSUME IInv, NEW p \in Processes, Step(p), NEW q \in Processes, q # p
    PROVE  /\ Maps(q)' = Maps(q) /\ area(q)' = area(q) /\ total(q)' = total(q)
           /\ needNew(q)' = needNew(q) /\ Making(q)' = Making(q)
           /\ BeforeTotal(q)' = BeforeTotal(q) /\ pc'[q] = pc[q] /\ size'[q] = size[q]
<1>1. pc'[q] = pc[q] /\ req'[q] = req[q] /\ ring'[q] = ring[q] /\ size'[q] = size[q]
    BY Elsewhere DEF IInv
<1>2. area(q)' = area(q) /\ total(q)' = total(q) /\ needNew(q)' = needNew(q)
    BY <1>1 DEF area, total, needNew
<1> QED
    BY <1>1, <1>2 DEF Maps, Making, BeforeTotal

LEMMA HeadersFitNext == ASSUME IInv, HeadersFit, [Next]_vars PROVE HeadersFit'
<1>1. CASE UNCHANGED vars
    BY <1>1 DEF vars, HeadersFit, Maps, area, total
<1>2. ASSUME NEW p \in Processes, Step(p) PROVE HeadersFit'
    <2>1. /\ FileStep(p) /\ MapStep(p) /\ TypeOK
          /\ \A q \in Processes : area(q) \in {File, q}
        BY <1>2, FileChanges, AreaFacts DEF IInv
    <2>2. size'[File] # 0 => size'[File] >= HeaderSize
        <3>1. total(p) >= HeaderSize
            BY <2>1, GeometryAssumption DEF total, TypeOK, Requests
        <3> QED
            BY <2>1, <3>1 DEF FileStep, HeadersFit
    <2>3. ASSUME NEW q \in Processes, Maps(q)', area(q)' # File
          PROVE  size'[area(q)'] = total(q)'
        <3>1. CASE q = p
            <4>1. area(p)' = area(p) /\ total(p)' = total(p)
                BY <2>1, <2>3, <3>1 DEF MapStep, area, total
            <4> QED
                BY <2>1, <2>3, <3>1, <4>1 DEF MapStep, HeadersFit
        <3>2. CASE q # p
            <4>1. /\ Maps(q) /\ area(q)' = area(q) /\ total(q)' = total(q) /\ size'[q] = size[q]
                BY <1>2, <2>3, <3>2, OtherMaps
            <4> QED
                BY <2>1, <2>3, <4>1 DEF HeadersFit
        <3> QED
            BY <3>1, <3>2
    <2> QED
        BY <2>2, <2>3 DEF HeadersFit
<1> QED
    BY <1>1, <1>2 DEF Next, Step

\* The header is in the file whatever sizes other processes have given it and are
\* giving it: ftruncate never makes it shorter than a header, and nobody maps it empty.
THEOREM HeadersBacked == Spec => []HeaderBacked
<1>1. Init => HeadersFit
    BY DEF Init, HeadersFit, Maps, Areas
<1>2. IInv /\ HeadersFit /\ [Next]_vars => HeadersFit'
    BY HeadersFitNext
<1>3. ASSUME IInv, HeadersFit, NEW p \in Processes, ring[p] # 0
      PROVE  size[area(p)] >= HeaderSize
    <2>1. total(p) >= HeaderSize
        BY <1>3, GeometryAssumption DEF IInv, total, TypeOK, Requests
    <2>2. CASE area(p) = File
        BY <1>3, <2>2 DEF IInv, FileKept, HeadersFit
    <2>3. CASE area(p) # File
        BY <1>3, <2>1, <2>3 DEF HeadersFit, Maps
    <2> QED
        BY <2>2, <2>3
<1>4. IInv /\ HeadersFit => HeaderBacked
    BY <1>3 DEF HeaderBacked
<1> QED
    BY <1>1, <1>2, <1>4, Invariance, PTL DEF Spec

LEMMA HeaderTotalNext == ASSUME IInv, HeaderTotal, [Next]_vars PROVE HeaderTotal'
<1>1. CASE UNCHANGED vars
    BY <1>1 DEF vars, HeaderTotal, area
<1>2. ASSUME NEW p \in Processes, Step(p) PROVE HeaderTotal'
    <2>1. FileStep(p) /\ total(p) # 0
        BY <1>2, FileChanges, AreaFacts DEF IInv
    <2>2. totalSize[File] # 0 => totalSize'[File] # 0
        BY <2>1 DEF FileStep
    <2>3. mapType'[File] # "zero" => totalSize'[File] # 0
        BY <2>1, <2>2 DEF FileStep, HeaderTotal
    <2>4. ASSUME NEW q \in Processes, pc'[q] = "type", area(q)' = File
          PROVE  totalSize'[File] # 0
        <3>1. CASE q = p
            BY <2>1, <2>4, <3>1 DEF FileStep
        <3>2. CASE q # p
            <4>1. pc[q] = "type" /\ area(q) = File
                BY <1>2, <2>4, <3>2, OtherMaps
            <4> QED
                BY <2>2, <4>1 DEF HeaderTotal
        <3> QED
            BY <3>1, <3>2
    <2> QED
        BY <2>3, <2>4 DEF HeaderTotal
<1> QED
    BY <1>1, <1>2 DEF Next, Step

-----------------------------------------------------------------------------
(* The processes that no other size has disturbed. *)

\* A process is calm after a step if its file keeps its size, or if it comes to its
\* mapping now, undisturbed.
CalmStep(q) ==
    /\ q \in Processes /\ Maps(q)'
    /\ IF Maps(q) THEN q \in calm ELSE Undisturbed(q)
    /\ size'[File] = size[File] \/ ~ Maps(q)

\* A step that leaves a process calm leaves it its call, and the file its size.
LEMMA CalmFile ==
    ASSUME IInv, CalmRings, NEW p \in Processes, Step(p), NEW q \in Processes, CalmStep(q),
           area(q)' = File
    PROVE  /\ area(q) = File /\ total(q)' = total(q) /\ needNew(q)' = needNew(q)
           /\ size'[File] = total(q)
           /\ \A m \in Processes : Making(m) => total(m) = total(q)
<1>1. MapStep(p)
    BY FileChanges
<1>2. req'[q] = req[q]
    <2>1. CASE q = p
        BY <1>1, <2>1 DEF CalmStep, MapStep
    <2>2. CASE q # p
        BY <2>2, Elsewhere DEF IInv
    <2> QED
        BY <2>1, <2>2
<1>3. area(q) = File /\ total(q)' = total(q) /\ needNew(q)' = needNew(q)
    BY <1>2 DEF area, total, needNew
<1>4. size'[File] = total(q)
    <2>1. CASE Maps(q)
        BY <1>3, <2>1 DEF CalmStep, CalmRings, CalmRing
    <2>2. CASE ~ Maps(q)
        <3>1. q = p
            BY <2>2, OtherMaps DEF CalmStep
        <3> QED
            BY <1>1, <1>3, <2>2, <3>1 DEF CalmStep, MapStep
    <2> QED
        BY <2>1, <2>2
<1>5. \A m \in Processes : Making(m) => total(m) = total(q)
    BY <1>3 DEF CalmStep, CalmRings, CalmRing, Undisturbed
<1> QED
    BY <1>3, <1>4, <1>5

\* Whoever makes a ring in the file makes one of the size of a calm process.
LEMMA CalmMaking ==
    ASSUME IInv, CalmRings, NEW p \in Processes, Step(p), NEW q \in Processes, CalmStep(q),
           area(q)' = File, NEW o \in Processes, Making(o)'
    PROVE  total(o)' = total(q)'
<1>1. /\ MapStep(p) /\ Calls(p) /\ pc[p] \in Labels
      /\ total(q)' = total(q) /\ size'[File] = total(q)
      /\ \A m \in Processes : Making(m) => total(m) = total(q)
    BY FileChanges, CalmFile DEF IInv, TypeOK
<1>2. CASE o # p
    BY <1>1, <1>2, OtherMaps
<1>3. CASE o = p
    <2>1. Calls(p)'
        BY NextIInv DEF IInv, Next, Step
    <2>2. Maps(p)'
        BY <1>3, <2>1 DEF Making, Maps, Calls, Storing
    <2>3. area(p) = File /\ total(p)' = total(p) /\ needNew(p)
        BY <1>1, <1>3, <2>2 DEF MapStep, Making, area, total, needNew
    <2>4. CASE ~ Maps(p)
        BY <1>1, <1>3, <2>2, <2>3, <2>4 DEF MapStep
    <2>5. CASE Maps(p)
        <3>1. pc[p] # "idle"
            BY <1>1, <1>3, <2>2, <2>5 DEF MapStep, Making
        <3>2. Making(p)
            BY <1>1, <2>3, <2>5, <3>1 DEF Maps, Making, Calls, Labels
        <3> QED
            BY <1>1, <1>3, <2>3, <3>2
    <2> QED
        BY <2>4, <2>5
<1> QED
    BY <1>2, <1>3

\* What the header says of the size of a calm process.
LEMMA CalmTotal ==
    ASSUME IInv, CalmRings, NEW p \in Processes, Step(p), NEW q \in Processes, CalmStep(q),
           area(q)' = File
    PROVE  BeforeTotal(q)' \/ totalSize'[File] \in {0, total(q)'}
<1>1. /\ FileStep(p) /\ MapStep(p) /\ Calls(p)
      /\ area(q) = File /\ total(q)' = total(q) /\ needNew(q)' = needNew(q)
      /\ \A m \in Processes : Making(m) => total(m) = total(q)
    BY FileChanges, CalmFile DEF IInv
<1>2. CASE totalSize'[File] # totalSize[File]
    <2>1. pc[p] = "total" /\ area(p) = File /\ totalSize'[File] = total(p)
        BY <1>1, <1>2 DEF FileStep
    <2>2. Making(p)
        BY <1>1, <2>1 DEF Making, Calls, Storing
    <2> QED
        BY <1>1, <2>1, <2>2
<1>3. CASE totalSize'[File] = totalSize[File] /\ Maps(q)
    <2>1. BeforeTotal(q) \/ totalSize[File] \in {0, total(q)}
        BY <1>1, <1>3 DEF CalmStep, CalmRings, CalmRing
    <2>2. BeforeTotal(q) => BeforeTotal(q)' \/ totalSize'[File] = total(q)
        <3>1. CASE q = p
            BY <1>1, <3>1 DEF CalmStep, MapStep
        <3>2. CASE q # p
            BY <3>2, OtherMaps
        <3> QED
            BY <3>1, <3>2
    <2> QED
        BY <1>1, <1>3, <2>1, <2>2
<1>4. CASE totalSize'[File] = totalSize[File] /\ ~ Maps(q)
    <2>1. q = p
        BY <1>4, OtherMaps DEF CalmStep
    <2>2. pc'[q] = "mmap"
        BY <1>1, <1>4, <2>1 DEF CalmStep, MapStep
    <2>3. CASE needNew(q)
        BY <1>1, <2>2, <2>3 DEF BeforeTotal
    <2>4. CASE ~ needNew(q)
        BY <1>1, <1>4, <2>4 DEF CalmStep, Undisturbed
    <2> QED
        BY <2>3, <2>4
<1> QED
    BY <1>2, <1>3, <1>4

LEMMA CalmRingsNext == ASSUME IInv, CalmRings, [HistNext]_histVars PROVE CalmRings'
<1>1. CASE UNCHANGED histVars
    BY <1>1 DEF histVars, vars, CalmRings, CalmRing, Maps, Making, BeforeTotal, area, total, needNew
<1>2. ASSUME NEW p \in Processes, Step(p), HistNext, NEW q \in calm'
      PROVE  q \in Processes /\ Maps(q)' /\ (area(q)' = File => CalmRing(q)')
    <2>1. CalmStep(q)
        BY <1>2 DEF HistNext, CalmStep
    <2>2. q \in Processes /\ Maps(q)'
        BY <2>1 DEF CalmStep
    <2>3. ASSUME area(q)' = File PROVE CalmRing(q)'
        <3>1. size'[File] = total(q)'
            BY <1>2, <2>1, <2>2, <2>3, CalmFile
        <3>2. \A o \in Processes : Making(o)' => total(o)' = total(q)'
            BY <1>2, <2>1, <2>2, <2>3, CalmMaking
        <3>3. BeforeTotal(q)' \/ totalSize'[File] \in {0, total(q)'}
            BY <1>2, <2>1, <2>2, <2>3, CalmTotal
        <3> QED
            BY <3>1, <3>2, <3>3 DEF CalmRing
    <2> QED
        BY <2>2, <2>3
<1>3. HistNext => \E p \in Processes : Step(p)
    BY DEF HistNext, Next, Step
<1> QED
    BY <1>1, <1>2, <1>3 DEF CalmRings

\* Del_*RingBuf unmaps the length of its own mapping, although it reads it from a
\* header that another process may be storing, totalSize_ before mapType_, as long as
\* no ring of another size has come into the file under it.
THEOREM DelOwnLength == HistSpec => []DelUnmapsItsRing
<1>1. HistSpec => Spec
    <2>1. [HistNext]_histVars => [Next]_vars
        BY DEF HistNext, histVars
    <2> QED
        BY <2>1, PTL DEF HistSpec, HistInit, Spec
<1>2. HistSpec => []HeaderTotal
    <2>1. Init => HeaderTotal
        BY DEF Init, HeaderTotal, Areas
    <2>2. IInv /\ HeaderTotal /\ [Next]_vars => HeaderTotal'
        BY HeaderTotalNext
    <2> QED
        BY <1>1, <2>1, <2>2, Invariance, PTL DEF Spec
<1>3. HistSpec => []CalmRings
    <2>1. HistInit => CalmRings
        BY DEF HistInit, CalmRings
    <2>2. IInv /\ CalmRings /\ [HistNext]_histVars => CalmRings'
        BY CalmRingsNext
    <2> QED
        BY <1>1, <2>1, <2>2, Invariance, PTL DEF HistSpec
<1>4. ASSUME IInv, HeaderTotal, CalmRings, NEW p \in Processes, Has(p),
             mapType[area(p)] = "shm", p \in calm \/ area(p) = p
      PROVE  totalSize[area(p)] = ring[p]
    <2>1. area(p) \in {File, p} /\ Calls(p) /\ OwnHeader(p) /\ ring[p] = total(p)
        BY <1>4, AreaFacts DEF IInv, Has, Calls
    <2>2. CASE area(p) = p
        BY <1>4, <2>1, <2>2 DEF OwnHeader
    <2>3. CASE area(p) # p
        <3>1. area(p) = File /\ CalmRing(p)
            BY <1>4, <2>1, <2>3 DEF CalmRings
        <3>2. ~ BeforeTotal(p) /\ totalSize[File] # 0
            BY <1>4, <3>1 DEF BeforeTotal, Has, HeaderTotal
        <3> QED
            BY <2>1, <3>1, <3>2 DEF CalmRing
    <2> QED
        BY <2>2, <2>3
<1>5. IInv /\ HeaderTotal /\ CalmRings => DelUnmapsItsRing
    BY <1>4 DEF DelUnmapsItsRing
<1> QED
    BY <1>1, <1>2, <1>3, <1>5, Invariance, PTL
=============================================================================
