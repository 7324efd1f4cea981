------------------------------- MODULE Mapping -------------------------------
(***************************************************************************)
(* How processes come by a ring and give it back: get_buf, get_block_buf,  *)
(* get_buf_shm, get_buf_malloc, del_buf and del_block_buf of               *)
(* src/src/RingBuf_common.c, behind Get_*RingBuf_e and Del_*RingBuf.       *)
(*                                                                         *)
(* The memory areas are the file at the agreed path, which every process   *)
(* may map, and for each process the anonymous file or heap block it made  *)
(* last.  The header of a ring is inside its area: what one process stores *)
(* there (the total size, the kind of mapping, a descriptor number, and in *)
(* the blocking ring the mutex and the condition variables) others read or *)
(* use, Del included.  Each system call, and each group of header          *)
(* stores that another process can tell apart, is a step.  A process has   *)
(* at most one ring at a time.  The stores of the header are taken in the  *)
(* order of the source.  The headers of lock-free and of blocking rings    *)
(* are laid out differently, so that the file has rings of one kind only.  *)
(***************************************************************************)
EXTENDS Integers, FiniteSets

CONSTANTS
    Processes,
    Geometries,     (* objNum, objSize and kind of ring                    *)
    BadGeometries,  (* those with objNum < 2 or not a power of two         *)
    Blocking,       (* those of the blocking ring                          *)
    Total,          (* info.total_size of each geometry                    *)
    HeaderSize,     (* the size of the header of the rings in the file     *)
    MayAsk,         (* the requests each process makes                     *)
    Fds,            (* descriptor numbers                                  *)
    File,           (* the area at the agreed path                         *)
    MaxHead         (* bound on head_                                      *)

Modes == {"none", "malloc", "shm"}
Requests == [mode : Modes, exists : BOOLEAN, path : BOOLEAN, geo : Geometries]

ASSUME GeometryAssumption ==
    /\ Geometries # {}
    /\ BadGeometries \subseteq Geometries
    /\ Blocking \subseteq Geometries
    /\ HeaderSize \in Nat \ {0}
    /\ Total \in [Geometries -> Nat] /\ \A g \in Geometries : Total[g] >= HeaderSize
    /\ MayAsk \in [Processes -> SUBSET Requests]
ASSUME OneKindAssumption ==
    \A p, o \in Processes : \A q \in MayAsk[p], r \in MayAsk[o] :
        q.path /\ r.path => (q.geo \in Blocking <=> r.geo \in Blocking)
ASSUME FdsAssumption == Fds \subseteq Nat /\ IsFiniteSet(Fds)
ASSUME AreasAssumption == File \notin Processes /\ MaxHead \in Nat

Areas == {File} \cup Processes

VARIABLES
    size,           (* the size of each area; 0 if there is no such file   *)
    head,           (* the header of the ring in each area: head_ ...      *)
    totalSize,      (* ... totalSize_, 0 while the memory is zero ...      *)
    mapType,        (* ... mapType_, "zero" while the memory is zero ...   *)
    fdOf,           (* ... fd, and the mutex and the condition variables   *)
    sync,           (* of the blocking ring, taken together                *)
    pc,             (* where each process is in get_buf                    *)
    req,            (* the arguments of its call                           *)
    fd,             (* the local variable fd of its call                   *)
    table,          (* what its descriptors are open on                    *)
    ring,           (* the size of its mapping: the pointer it was given,  *)
                    (* or 0                                                *)
    rc              (* what its last call returned                         *)

header == <<head, totalSize, mapType, fdOf, sync>>
vars == <<size, head, totalSize, mapType, fdOf, sync, pc, req, fd, table, ring, rc>>

Labels == {"idle", "malloc", "open", "size", "mmap", "sync",
           "indices", "total", "type", "fd"}
Codes == {"none", "SUCCESS", "CAPACITY_WRONG", "NO_MAPPING_TYPE", "INVALID_PARAM",
          "MAPPING_NOT_EXISTS", "MAPPING_SIZE_ERROR", "errno", "stale_errno"}

\* The arguments of no call: those of a process that has no ring.
NoRequest ==
    [mode |-> "none", exists |-> FALSE, path |-> FALSE,
     geo |-> CHOOSE g \in Geometries : TRUE]

\* No process is attached.  A process may have its standard input open.
Init ==
    /\ size = [a \in Areas |-> 0]
    /\ head = [a \in Areas |-> 0]
    /\ totalSize = [a \in Areas |-> 0]
    /\ mapType = [a \in Areas |-> "zero"]
    /\ fdOf = [a \in Areas |-> 0]
    /\ pc = [p \in Processes |-> "idle"]
    /\ sync = [a \in Areas |-> "zero"]
    /\ req = [p \in Processes |-> NoRequest]
    /\ fd = [p \in Processes |-> -1]
    /\ table \in [Processes -> {[n \in Fds |-> "closed"],
                               [n \in Fds |-> IF n = 0 THEN "other" ELSE "closed"]}]
    /\ ring = [p \in Processes |-> 0]
    /\ rc = [p \in Processes |-> "none"]

needNew(p) == req[p].mode = "malloc" \/ ~ req[p].exists
area(p) == IF req[p].mode = "shm" /\ req[p].path THEN File ELSE p
total(p) == Total[req[p].geo]

block(p) == req[p].geo \in Blocking

Goto(p, label) == pc' = [pc EXCEPT ![p] = label]

\* The call goes on at label.
Continue(p, label) == Goto(p, label) /\ UNCHANGED <<req, fd, rc>>

\* The call is over, and its local variable fd with it; if it failed, nothing is
\* left of its arguments.
Return(p, code) ==
    /\ Goto(p, "idle")
    /\ rc' = [rc EXCEPT ![p] = code]
    /\ fd' = [fd EXCEPT ![p] = -1]
    /\ IF code = "SUCCESS" THEN UNCHANGED req ELSE req' = [req EXCEPT ![p] = NoRequest]

-----------------------------------------------------------------------------
\* What get_buf, get_block_buf and get_buf_shm refuse before they ask the system
\* for anything.
Refusal(q) ==
    IF q.geo \in BadGeometries THEN "CAPACITY_WRONG"
    ELSE IF q.mode = "none" THEN "NO_MAPPING_TYPE"
    ELSE IF q.mode = "shm" /\ q.exists /\ ~ q.path THEN "INVALID_PARAM"
    ELSE "none"

GetBegin(p) ==
    /\ pc[p] = "idle"
    /\ ring[p] = 0
    /\ \E q \in MayAsk[p] :
          \/ /\ Refusal(q) # "none"
             /\ Return(p, Refusal(q))
          \/ /\ Refusal(q) = "none"
             /\ Goto(p, IF q.mode = "malloc" THEN "malloc" ELSE "open")
             /\ req' = [req EXCEPT ![p] = q]
             /\ rc' = [rc EXCEPT ![p] = "none"]
             /\ UNCHANGED fd
    /\ UNCHANGED <<size, header, table, ring>>

\* Where the header of a new ring begins to be stored.
FirstStore(p) == IF block(p) THEN "sync" ELSE "indices"

\* Mutant of MallocFd: fd as get_buf initialises it.
MallocFdUnset == -1

MallocFd == -9999

\* get_buf_malloc; the content of the block is arbitrary, and stored to before
\* it is read, so that it may as well be what it was.
Malloc(p) ==
    /\ pc[p] = "malloc"
    /\ \/ /\ Return(p, "errno")
          /\ UNCHANGED <<size, ring>>
       \/ /\ size' = [size EXCEPT ![p] = total(p)]
          /\ ring' = [ring EXCEPT ![p] = total(p)]
          /\ fd' = [fd EXCEPT ![p] = MallocFd]
          /\ Goto(p, FirstStore(p))
          /\ UNCHANGED <<req, rc>>
    /\ UNCHANGED <<header, table>>

\* A descriptor number is free, and it is the lowest.
LowestFree(p, n) ==
    /\ table[p][n] = "closed"
    /\ \A m \in Fds : m < n => table[p][m] # "closed"

\* memfd_create gives a process an empty file of its own, and a ring of its own is
\* gone with its mapping.
EmptyArea(a) ==
    /\ size' = [size EXCEPT ![a] = 0]
    /\ head' = [head EXCEPT ![a] = 0]
    /\ totalSize' = [totalSize EXCEPT ![a] = 0]
    /\ mapType' = [mapType EXCEPT ![a] = "zero"]
    /\ fdOf' = [fdOf EXCEPT ![a] = 0]
    /\ sync' = [sync EXCEPT ![a] = "zero"]

\* Mutant of OpenedFile: open with O_TRUNC.
OpenedFileTruncated == size' = [size EXCEPT ![File] = 0] /\ UNCHANGED header

OpenedFile == UNCHANGED <<size, header>>

\* open with O_CREAT, or memfd_create.
Open(p) ==
    /\ pc[p] = "open"
    /\ \/ /\ Return(p, "errno")
          /\ UNCHANGED <<size, header, table>>
       \/ \E n \in Fds :
             /\ LowestFree(p, n)
             /\ table' = [table EXCEPT ![p][n] = "ring"]
             /\ fd' = [fd EXCEPT ![p] = n]
             /\ IF area(p) = File THEN OpenedFile ELSE EmptyArea(p)
             /\ Goto(p, "size")
             /\ UNCHANGED <<req, rc>>
    /\ UNCHANGED ring

\* ftruncate: the file has the size of the new ring, and what was in it stays.
Truncate(p) ==
    /\ pc[p] = "size"
    /\ needNew(p)
    /\ \/ Return(p, "errno") /\ UNCHANGED size
       \/ size' = [size EXCEPT ![area(p)] = total(p)] /\ Continue(p, "mmap")
    /\ UNCHANGED <<header, table, ring>>

WrongSize(p) == size[area(p)] # total(p)

\* fstat and the tests of MAP_EXISTS.
CheckSize(p) ==
    /\ pc[p] = "size"
    /\ ~ needNew(p)
    /\ \/ Return(p, "errno")
       \/ size[area(p)] = 0 /\ Return(p, "MAPPING_NOT_EXISTS")
       \/ size[area(p)] # 0 /\ WrongSize(p) /\ Return(p, "MAPPING_SIZE_ERROR")
       \/ size[area(p)] # 0 /\ ~ WrongSize(p) /\ Continue(p, "mmap")
    /\ UNCHANGED <<size, header, table, ring>>

CloseFd(p) == table' = [table EXCEPT ![p][fd[p]] = "closed"]

\* Mutant of AfterMmap: the descriptor is closed once the file is mapped.
AfterMmapClosed(p) == CloseFd(p)

AfterMmap(p) == UNCHANGED table

\* mmap; the only failure after which the descriptor is closed.
Mmap(p) ==
    /\ pc[p] = "mmap"
    /\ \/ /\ Return(p, "errno")
          /\ CloseFd(p)
          /\ UNCHANGED ring
       \/ /\ ring' = [ring EXCEPT ![p] = total(p)]
          /\ IF needNew(p) THEN Continue(p, FirstStore(p)) ELSE Return(p, "SUCCESS")
          /\ AfterMmap(p)
    /\ UNCHANGED <<size, header>>

-----------------------------------------------------------------------------
(* The header of a new ring, in the order of the source.                   *)

\* Mutant of NextStore: mapType_ is stored before totalSize_.
NextStoreTypeFirst ==
    [sync |-> "indices", indices |-> "type", type |-> "total", total |-> "fd"]

NextStore ==
    [sync |-> "indices", indices |-> "total", total |-> "type", type |-> "fd"]

\* get_block_buf initialises the mutex and the two condition variables, without a
\* look at what is there.  If the first call fails nothing has changed; if a later
\* one does, those before it are undone.  Either way the memory is not given back,
\* and errno, which Get_BlockRingBuf_e returns, is not set.
InitSync(p) ==
    /\ pc[p] = "sync"
    /\ \/ /\ sync' = [sync EXCEPT ![area(p)] = "ready"]
          /\ Continue(p, NextStore[pc[p]])
          /\ UNCHANGED ring
       \/ /\ sync' \in {sync, [sync EXCEPT ![area(p)] = "destroyed"]}
          /\ Return(p, "stale_errno")
          /\ ring' = [ring EXCEPT ![p] = 0]
    /\ UNCHANGED <<size, head, totalSize, mapType, fdOf, table>>

InitIndices(p) ==
    /\ pc[p] = "indices"
    /\ head' = [head EXCEPT ![area(p)] = 0]
    /\ Continue(p, NextStore[pc[p]])
    /\ UNCHANGED <<size, totalSize, mapType, fdOf, sync, table, ring>>

InitTotal(p) ==
    /\ pc[p] = "total"
    /\ totalSize' = [totalSize EXCEPT ![area(p)] = total(p)]
    /\ Continue(p, NextStore[pc[p]])
    /\ UNCHANGED <<size, head, mapType, fdOf, sync, table, ring>>

InitType(p) ==
    /\ pc[p] = "type"
    /\ mapType' = [mapType EXCEPT ![area(p)] = req[p].mode]
    /\ Continue(p, NextStore[pc[p]])
    /\ UNCHANGED <<size, head, totalSize, fdOf, sync, table, ring>>

\* fd; in the lock-free rings also buffer_offset_, slot_offset_ and the slots.
InitFd(p) ==
    /\ pc[p] = "fd"
    /\ fdOf' = [fdOf EXCEPT ![area(p)] = fd[p]]
    /\ Return(p, "SUCCESS")
    /\ UNCHANGED <<size, head, totalSize, mapType, sync, table, ring>>

Get(p) ==
    \/ GetBegin(p) \/ Malloc(p) \/ Open(p) \/ Truncate(p) \/ CheckSize(p) \/ Mmap(p)
    \/ InitSync(p) \/ InitIndices(p) \/ InitTotal(p) \/ InitType(p) \/ InitFd(p)

-----------------------------------------------------------------------------
Has(p) == pc[p] = "idle" /\ ring[p] # 0

\* del_buf: the kind of mapping, the descriptor to close and the length to unmap
\* are what the header says now.
Unmap(p) ==
    /\ ring' = [ring EXCEPT ![p] = 0]
    /\ LET n == fdOf[area(p)] IN
       IF mapType[area(p)] = "shm" /\ n \in Fds
       THEN table' = [table EXCEPT ![p][n] = "closed"]
       ELSE UNCHANGED table

\* del_block_buf first destroys the mutex and the condition variables, for every
\* process that has the ring.
Del(p) ==
    /\ Has(p)
    /\ Unmap(p)
    /\ IF area(p) = File
       THEN /\ sync' = IF block(p) THEN [sync EXCEPT ![File] = "destroyed"] ELSE sync
            /\ UNCHANGED <<size, head, totalSize, mapType, fdOf>>
       ELSE EmptyArea(p)
    /\ req' = [req EXCEPT ![p] = NoRequest]
    /\ UNCHANGED <<pc, fd, rc>>

\* The ring is in use: a push moves head_.
Push(p) ==
    /\ Has(p)
    /\ totalSize[area(p)] # 0
    /\ block(p) => sync[area(p)] = "ready"
    /\ head[area(p)] < MaxHead
    /\ head' = [head EXCEPT ![area(p)] = @ + 1]
    /\ UNCHANGED <<size, totalSize, mapType, fdOf, sync, pc, req, fd, table, ring, rc>>

\* The process ends, wherever it is: the system closes its descriptors and unmaps
\* its ring.  The file and its header stay.
Exit(p) ==
    /\ Return(p, "none")
    /\ ring' = [ring EXCEPT ![p] = 0]
    /\ table' = [table EXCEPT ![p] = [n \in Fds |-> "closed"]]
    /\ EmptyArea(p)

Next == \E p \in Processes : Get(p) \/ Del(p) \/ Push(p) \/ Exit(p)

Spec == Init /\ [][Next]_vars
=============================================================================
