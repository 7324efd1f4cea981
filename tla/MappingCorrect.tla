---------------------------- MODULE MappingCorrect ----------------------------
(***************************************************************************)
(* What Get_*RingBuf_e and Del_*RingBuf owe the processes that share a     *)
(* file, in which rings of different sizes may be made.                    *)
(*                                                                         *)
(* The code lets MAP_NEW truncate a file that is in use to another size    *)
(* and store its header anew.  The history variable `calm` has the         *)
(* processes whose ring no other size has disturbed, neither before their  *)
(* call nor since; it restricts nothing.                                   *)
(***************************************************************************)
EXTENDS Mapping

VARIABLE calm

histVars == <<vars, calm>>

\* p has truncated the file and has not yet returned its ring.
Making(p) ==
    /\ pc[p] \in {"mmap", "sync", "indices", "total", "type", "fd"}
    /\ needNew(p) /\ area(p) = File

\* No ring of another size is being made in the file, and no total of another size
\* is in the header if p is going to believe it.
Undisturbed(p) ==
    /\ \A q \in Processes : Making(q) => total(q) = total(p)
    /\ ~ needNew(p) => totalSize[File] \in {0, total(p)}

\* The process has its size step behind it, and perhaps its ring.
Maps(p) == pc[p] = "mmap" \/ ring[p] # 0

\* A process is calm from its ftruncate or its size test on, until the file gets
\* another size.
HistInit == Init /\ calm = {}

HistNext ==
    /\ Next
    /\ calm' = {p \in Processes :
                  /\ Maps(p)'
                  /\ IF Maps(p) THEN p \in calm ELSE Undisturbed(p)
                  /\ size'[File] = size[File] \/ ~ Maps(p)}

HistSpec == HistInit /\ [][HistNext]_histVars

\* Every variable of the calls and of the areas keeps its type.
TypeOK ==
    /\ size \in [Areas -> Nat]
    /\ head \in [Areas -> 0 .. MaxHead]
    /\ totalSize \in [Areas -> Nat]
    /\ mapType \in [Areas -> {"zero", "malloc", "shm"}]
    /\ fdOf \in [Areas -> Fds \cup {0, -9999}]
    /\ sync \in [Areas -> {"zero", "ready", "destroyed"}]
    /\ pc \in [Processes -> Labels]
    /\ req \in [Processes -> Requests]
    /\ fd \in [Processes -> Fds \cup {-1, -9999}]
    /\ table \in [Processes -> [Fds -> {"closed", "ring", "other"}]]
    /\ ring \in [Processes -> Nat]
    /\ rc \in [Processes -> Codes]

\* Whatever sizes other processes truncate the file to, before, during and after its
\* own call, a process that has a mapping finds a header in the file: Del, which
\* reads it, never faults.  (The cells behind it may be gone, and a copy to or from
\* them may fault, once the file is smaller than the mapping.)
HeaderBacked == \A p \in Processes : ring[p] # 0 => size[area(p)] >= HeaderSize

\* The length that Del reads from the shared header and unmaps is that of its own
\* mapping, whatever state of its creation the header is in, as long as all rings
\* made in the file since its own size step, or being made then, have its size.
DelUnmapsItsRing ==
    \A p \in Processes :
        Has(p) /\ mapType[area(p)] = "shm" /\ (p \in calm \/ area(p) = p) =>
            totalSize[area(p)] = ring[p]

\* MAPPING_NOT_EXISTS (public.h: "Use MAP_EXISTS but memory mapping does not
\* exist") is the answer only as long as no ring was made in the file, also while
\* MAP_NEW makes it again, and also after a MAP_EXISTS that created an empty file.
NotExistsIsHonest ==
    [][\A p \in Processes :
        pc[p] = "size" /\ rc'[p] = "MAPPING_NOT_EXISTS" => totalSize[File] = 0]_vars

\* A ring that is the process's own, anonymous or on the heap, is whole when it is
\* returned, its mutex and condition variables included, and Del closes its
\* descriptor and no other.
OwnRingWhole ==
    \A p \in Processes :
        Has(p) /\ area(p) = p =>
            /\ totalSize[p] = ring[p]
            /\ mapType[p] = req[p].mode
            /\ mapType[p] = "shm" => table[p][fdOf[p]] = "ring"
            /\ block(p) => sync[p] = "ready"

\* RingBufWrapper.hpp says of MAP_NEW: "create a new mapping (fails if already
\* exists)".  Then no position of a ring that a process has could go back.
PositionsNeverGoBack ==
    [][\A p \in Processes :
        Has(p) /\ Has(p)' /\ UNCHANGED req => head'[area(p)] >= head[area(p)]]_vars
=============================================================================
