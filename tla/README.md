# RingBuf: models, model checking and proofs

RingBuf is a C library of four ring buffers for threads and processes, with a
C++ wrapper. A ring is one block of memory, on the heap or in a file mapped by
several processes: a header, `objNum_` cells of equal size and, for two of the
rings, one slot word for each cell. This directory holds TLA+ modules of the
rings, of the way processes come by a ring and give it back, and of the layout
of its memory; TLC configurations that check them on small instances; and
theorems, proved with TLAPS, for every number of threads, cells and positions.

All paths below are those of the repository, under `src/`.

## 1. The system

| component | source | state | operations |
|---|---|---|---|
| SPSC ring | `src/RingBuf_Spsc.c` | `head_`, `tail_`, cells; thread-local `local_head`, `local_tail` | Push, Pop, Begin/End_push, Begin/End_pop, Is_full, Is_empty, Size |
| MPMC ring | `src/RingBuf_Mpmc.c` | `head_`, `tail_`, cells, one sequence number per cell | Push, Pop, Pop_w_cb, queries |
| MPSC ring | `src/RingBuf_Mpsc.c` | `head_`, `tail_`, cells, one EMPTY/VALID mark per cell; thread-local `local_head` | Push, Pop, Pop_w_cb, queries |
| blocking ring | `src/RingBuf_Block.c` | `head_`, `tail_`, cells, mutex, two condition variables | Push, Pop |
| allocation and mapping | `src/RingBuf_common.c` | the header of the ring, the file, descriptors, mappings | get_buf, get_buf_shm, get_buf_malloc, del_buf |
| ... of the blocking ring | `src/RingBuf_common.c` | the same, and the shared mutex and condition variables | get_block_buf, del_block_buf |
| sizes and offsets | `src/RingBuf_common.c` | none | get_aligned_offset, get_total_size |
| C++ wrapper | `cpp/RingBufWrapper.hpp` | `r_`, which the operations use, and `p_`, a shared pointer that owns the ring | Init, copy, move, destruction; Push, Pop, Pop_w_cb |
| error strings, debug hooks, tests | `src/RingBuf_debug.h`, `test/` | none that matters here | |

**How they interact.** Threads call the operations of a ring directly; all
communication is by the ring's shared words. The lock-free rings never wait:
they answer FULL, EMPTY, CONTENTION or WRITING_DATA and the caller retries. The
blocking ring waits on condition variables inside its mutex. Get makes a ring or
attaches to one; header fields stored by the creating process are read by all
others, by Del as well.

**What is hard, and what makes each part correct.**

* *SPSC.* Each side sees the other's index through a cached copy that belongs to
  the thread and not to the ring. The rings are right if no push gets a cell of
  a full ring and no pop a cell of an empty one, whatever the caches hold.
* *MPMC.* A thread may stop between any two accesses while others go round the
  ring. No two threads may copy on one cell; the objects must come out in the
  order of the claims although the copies finish in another; an error code must
  be true at some instant of the call; and retrying threads must get on.
* *MPSC.* `head_` and `tail_` are not read at one instant, and the
  compare-and-swap rechecks only the first. The mark of a cell, and not the
  cached head, says whether an object is there. A consumer may die between its
  copy and its store of `tail_`.
* *Blocking.* One signal per operation, spurious wakeups, indices that go past
  2^64: no wakeup may be lost.
* *Mapping.* System calls fail, processes die half-way, and another process may
  make the ring again while one attaches.
* *Wrapper.* Init stores `r_` before it knows that there is a ring, and `p_`
  after it; an object may be initialised again while copies of it live. A ring
  has to be there as long as somebody owns it, and no longer.
* *Layout.* Header, cells and slots must not overlap, for any sizes.

## 2. The modules

| module | models | used by |
|---|---|---|
| `BoundedFifo` | the abstract specification: a queue of at most `Capacity` objects and what each consumer got last | the four rings |
| `Mpmc`, `MpmcCorrect`, `MCMpmc` | the ring; its properties, refinement mapping and inductive invariant; the TLC instance | |
| `RingIndex` | lemmas on positions and cells (`k % ObjNum`), on subtraction that wraps round, and on the queue that the cells of a ring stand for | the four proofs of rings |
| `MpmcProofs` | the theorems of the MPMC ring | |
| `Spsc`, `SpscCorrect`, `MCSpsc`, `SpscProofs` | likewise | `SpscClients` |
| `SpscClients`, `MCSpscClients` | the SPSC ring with two more clients: the fast path of the wrapper's Pop_w_cb, and a third thread that asks for the size | `SpscProofs` |
| `Mpsc`, `MpscCorrect`, `MpscProofs` | the ring; its properties, refinement mapping and inductive invariant, which is also the module TLC runs; its theorems | |
| `Block`, `BlockCorrect`, `BlockProofs` | likewise | |
| `Mapping`, `MappingCorrect`, `MCMapping`, `MappingProofs` | Get and Del; their properties; the TLC instance with the sizes of x86-64; the theorems | |
| `Wrapper`, `WrapperCorrect`, `WrapperProofs` | the C++ objects of one process and the rings they own; what they owe the program; its theorems | |
| `Layout`, `LayoutProofs` | sizes and addresses, of the blocking ring as well; their theorems | `MCMapping` |

`X.tla` is only the code: variables, one action for each step, the
specification. `XCorrect.tla` extends it with what is claimed. A definition
whose comment begins *Mutant of* is not part of any specification: it is a
plausible mistake in one line of the code (a dropped test, an off-by-one, a
store out of order), kept to show that a property would notice it;
`PROJECT.json` says which property notices which. A helper such as `Full`,
`Mark` or `GiveUp` is the line that the mutant gets wrong.

**State and actions.** In the ring modules `pc[t]` says where thread `t` is in
its call, and the other per-thread variables are the C locals of the same name
(`expected`, `curr_head`, `local_head`, ...; `val` is the caller's `args` or
`buf`, `rc` what the last call returned). Every load, store or compare-and-swap
of shared memory is an action of its own, named for the operation and the
access: `PushLoadHead`, `PushLoadSlot`, `PushCas`, `PushCopy`, `PushPublish`;
`PopLoadTail`, ..., `PopRelease`. What a thread does between two accesses
belongs to the first of them. Thus all interleavings at the grain of the code's
atomics are explored.

* A copy (`memcpy` or the callback of Pop_w_cb) is one step but is *pending*
  from the moment its `pc` is reached; `CellsExclusive` says that no two pending
  copies are on one cell, which is what makes the single step sound.
* `Spsc` has a set of rings and a set of threads, and gives each side of each
  ring to a thread, because the caches belong to threads. `Restart(t)` replaces
  a thread by a new one, with caches of zero, at any point. Push and Pop and the
  Begin/End pairs make the same accesses and are the same actions.
* `SpscClients` adds steps to `Spsc` and changes none. `FastPopLoadHead` is
  Begin_pop in the fast path of Pop_w_cb, which goes on to the callback and to
  End_pop whatever Begin_pop returned; with `Unasked = FALSE` it is called only
  after Is_empty said no. `SizeStep` is the two loads of Size, in a thread that
  is neither side. They are `memory_order_relaxed`, so that either may take
  effect first.
* `Mpsc` replaces its consumer with `ConsumerRestart`, unless the variable
  `consumerEnds` is `"never"`. One run thus has the behaviours with and without
  replacement. The variable becomes `"stuck"` when a consumer ends after its
  EMPTY mark and before its store of `tail_`, which blocks the ring; the
  properties that a replacement costs say what it costs.
* `Block` gives the mutex and the condition variables their POSIX meaning:
  `CondWait` releases and waits in one step, `CondSignal` wakes any waiter,
  `SpuriousWakeup` wakes one for no reason, and a woken thread has to get the
  mutex (`Lock`) before it tests again. The indices count modulo `SizeMod`.
* `Mapping` has the file at the agreed path and one anonymous area per process;
  each system call may fail; the header is stored group by group, as other
  processes can see it; `Exit` ends a process anywhere. Get_BlockRingBuf is the
  same call with one more step, `InitSync`, before the header, and Del of a
  blocking ring destroys its mutex first. The arguments and locals of a call are
  forgotten when it is over, unless a ring was returned, and so is an anonymous
  area when its mapping goes. A file may be given another size at any time;
  `MappingCorrect` adds a history variable, `calm`, with the processes to whom
  that has not happened since their own `ftruncate` or size test (`HistSpec`),
  and restricts nothing by it.
* `Wrapper` has the objects of one process. `InitGet` is the first half of Init,
  the call of Get, which may fail and may leave a descriptor or an empty file
  behind; `InitOwn` is the second, in which `p_` changes and what the object
  owned before may be released. `Copy`, `Move` and `Destroy` are what the
  language generates. `Release` is the deleter with del_buf, which believes the
  header of the ring; `table` says what each descriptor of the process is open
  on. The program opens and closes files of its own, and other processes make
  rings in the file.

## 3. What is checked

Twelve runs; their full lists of properties are in `PROJECT.json`.

| run | instance | shows |
|---|---|---|
| `mpmc_safety` | 2 producers, 2 consumers, 2 cells, 3 positions, 2 values | Cells have one owner (`CellsExclusive`); FULL and EMPTY are true when found (`FullIsHonest`, `EmptyIsHonest`); CONTENTION only after somebody's progress; the ring implements `BoundedFifo`; the invariant that the proof uses holds |
| `mpmc_live` | the same, 1 value, fair | retrying threads get all objects through |
| `spsc_ring` | 1 ring, 2 cells, 5 positions, the producer replaced at any access, pops also through Pop_w_cb, a third thread that asks for the size, fair | room for each push and an object for each pop in spite of the caches; exclusive copies; FIFO; `Is_full`/`Is_empty` "no" answers stay true for the side that asked; `Size` is wrong by no more than what moved between its loads; once replacements stop everything is delivered |
| `spsc_consumer_restart` | the *consumer* is replaced | **violated**: see findings |
| `spsc_two_rings` | one thread pushes into two rings | **violated**: see findings |
| `spsc_callback_on_null` | the fast path of Pop_w_cb without a look at Is_empty | **violated**: see findings |
| `mpsc_ring` | 2 producers, 2 cells, 4 positions, with and without replacement of the consumer at any access, fair | copies stay exclusive, only published objects are popped, FULL only if full or overtaken, CONTENTION only after a claim, WRITING_DATA only while a producer writes or in the two cases that a replacement makes, FIFO up to the one object a dead consumer had in hand, everything is delivered once replacements stop, unless a consumer ended between its last two stores |
| `block_ring` | 2 producers, 2 consumers, 2 cells, indices modulo 4, no other bound, fair | `NoLostWakeup`, `BoundedFifo`; pushes and pops go on for ever |
| `mapping_safety` | 2 processes, one file in which they make lock-free rings of two sizes, private rings of both kinds, every call failing or not, death anywhere | the header that Del reads is in the file whatever sizes the file gets; Del unmaps what Get mapped unless a ring of the other size came under it; MAPPING_NOT_EXISTS is true; a private ring is whole |
| `mapping_new` | the same | **violated**: see findings |
| `wrapper_objects` | 3 objects, 2 addresses, 2 descriptors, rings of all four origins | an object that owns a ring can use it; a ring goes with its last owner |
| `wrapper_descriptors` | the same | **violated**: see findings |

**Bounds.** `ObjNum = 2` is the smallest ring the code accepts. `MaxPos` bounds
the positions that are handed out: three positions in two cells are a lap and a
half, so that a cell is used again while a thread that saw its first use is
still under way; MPSC, whose mark has no lap number, gets two laps, and SPSC two
and a half. `MaxPos` is a guard of the push alone: pops, and pushes under way,
are never cut short. `SizeMod` stands for 2^64. In `Spsc` and `Mpsc` it is
larger than any position, so that only subtractions below zero wrap round, which
is where the code can be wrong; in `Mpmc`, whose comparison of sequence numbers
is for equality, positions are plain numbers; in `Block` it is 4, and the
indices really go round; two threads on each side are the fewest of which one
can be woken while another gets the mutex first. In `Mapping` and `Wrapper`,
`Fds = {0, 3}` is two descriptor numbers, enough for two to be confused, and 0
among them because a header that is still zero names descriptor 0, with standard
input open or closed at first. `MaxHead = 1` is one push, enough to see a
position go back. One process makes rings of 576 bytes in the file and the other
of 576 or 704, so that the file grows and shrinks under both. Three objects are
the fewest in which two share a ring while the third replaces its own, and two
addresses let Init hold the old ring and the new one at once; with no address or
descriptor left Init fails, as it may anyway. Symmetry is used in `mpmc_safety`
only, for threads and values.

**Fairness.** The runs with liveness properties assume that a thread inside a
call, or between two calls, goes on (weak fairness of its steps). For the
scheduler that is the usual assumption. That a thread calls again after FULL,
EMPTY or CONTENTION is what the programs under `test/c` do
(`producer.c:91-134`, `consumer.c:91-130`: loops until N objects went through).
Weak fairness is enough for the lock-free rings. The mutex of the blocking ring
has strong fairness: a thread waiting for it while others take and release it
gets it in the end. There is none for spurious wakeups, thread replacement, the
third thread of `SpscClients` or the SIZE_TOO_LARGE call: nothing may depend on
them. A thread that dies in the middle of a call of a multi-producer ring blocks
it for good, which `RingBuf_public.h:65` documents.

**Deadlock** is checked in every run; no run switches it off. A thread can
always make a call that fails, so what this rules out in `Block`, together with
`NoLostWakeup` and `KeepsMoving`, is stated by those two properties rather than
by TLC's deadlock check.

## 4. What the violated runs show

* **A new SPSC consumer on a used ring** (`RingBuf_Spsc.c:53`). The pop reloads
  `head_` only if the thread-local `local_head` *equals* `tail_`. A consumer
  that attaches to a ring with `tail_ # 0` starts with zero, takes this for "not
  empty" and pops from an empty ring. A new *producer* is harmless
  (`spsc_ring`): it computes a size, and a cache that is behind only makes the
  ring look fuller than it is.
* **One thread, two SPSC rings** (`RingBuf_Spsc.c:31`). The caches belong to the
  thread; the `tail_` of one ring is tested with the `head_` of the other, and a
  push overwrites an object of a full ring.
* **Pop_w_cb on an empty SPSC ring** (`RingBufWrapper.hpp:425`). The fast path
  does not test what Begin_pop returned: the callback runs on NULL, and End_pop
  then moves `tail_` past `head_`. The path with a trampoline tests (471). With
  a look at Is_empty first the fast path is right (`spsc_ring`).
* **MAP_NEW on a ring in use** (`RingBuf_common.c:106`) resets it, where
  `RingBufWrapper.hpp:588` says that it fails.
* **The end of an attached object closes the wrong descriptor**
  (`RingBuf_common.c:224`). The number in the header is that of the process that
  made the ring. Del in another process closes whatever has that number there,
  and leaves open the descriptor its own Get opened.

Seen while reading and not the subject of a violated run:

* A push of the MPSC ring answers FULL when it is not, if `tail_` passes the
  `head_` it read (`RingBuf_Mpsc.c:37`); `FullOrOvertaken` states what does hold,
  and `AllDelivered` that a retry succeeds.
* After the replacement of an MPSC consumer between its EMPTY mark and its store
  of `tail_`, WRITING_DATA is answered for a producer that has long finished and
  the ring is stuck. Any replaced consumer answers WRITING_DATA for EMPTY on an
  empty ring that has been used, since its cached head of 0 is not `tail_`.
  `WritingDataIsHonest` says that these are the only two exceptions.
  `slot_stat & SLOT_UNKNOWN` (MPSC) is zero always.
* A third thread that asks an SPSC ring for its size may get a number below
  zero, huge as a `size_t` and "full" to Is_full, or one above the capacity.
  `SizeOffByMoves` bounds the error by what was pushed and popped between the two
  loads, and says that only a thread that asks while both sides move is told
  nonsense.
* MAP_NEW truncates a file that others have mapped to whatever size it is asked
  for (`RingBuf_common.c:117`). Their header stays (`HeaderBacked`), their cells
  need not, and Del then unmaps the length of the new ring
  (`DelUnmapsItsRing` is about the processes this did not happen to).
* The index popped from a blocking ring is stored in an `int`
  (`RingBufWrapper.hpp:419`, 464). After a failed Init, or a move, `r_` and `p_`
  of an object disagree, and only `p_` says whether there is a ring.
* Get_*_e returns a positive `errno` where `RingBuf_public.h:151` promises a
  negative code; several error paths of get_buf_shm leave the descriptor open; a
  process that attaches between `ftruncate` and the header's stores gets a ring
  of zeros, which Del leaves mapped.

Each is a hazard in `PROJECT.json`.

## 5. What is proved

TLAPS checks the following for all values of the constants that satisfy the
modules' assumptions (`ObjNum >= 2`, disjoint sets of threads, ...). Every
property of the passing runs that is not a liveness property is a theorem.

**MPMC** (`MpmcProofs`): `Invariance`, `TypeCorrect`, `NoOverrun`, `Exclusion`,
`FullHonest`, `EmptyHonest`, `LockFree`, `Refinement`. No operation compares `head_` with
`tail_`, so that even `head - tail <= ObjNum` is not inductive: it holds because
of the sequence numbers. The inductive invariant `IInv` therefore describes all
of them. `SlotStates` puts each of the last `ObjNum` positions in one of four
states (claimed by a producer, published, claimed by a consumer, free), told by
the number in its cell. `WritersOwn`, `ReadersOwn` and `OnePositionEach` tie
threads to cells. `StillTrueAtCas` says why a stale slot value is harmless: if
the compare-and-swap succeeds the index has not moved, and while it has not, the
slot keeps the number that was read. The lemmas of `RingIndex` (two positions
less than `ObjNum` apart have different cells, and so on) replace modular
arithmetic in all the steps.

**SPSC** (`SpscProofs`): `Invariance`, `TypeCorrect`, `RoomForEveryPush`,
`ObjectForEveryPop`, `CopiesApart`, `AnswersKept`, `Refinement`, for any number
of rings, *under* two conditions named in the module: `OneRingEach`, each thread is a side of one ring
only, and `ConsumersStay`, consumers are not replaced. The two violated runs
show that neither can be dropped. A cached index is a value the index had once:
`CachedTailBehind` is all the producer needs; the consumer, which tests for
equality, needs the stronger `CachedHeadBetween`. `PushNeedsRoom` is a part of
the invariant since the room must last until `head_` is stored. `PushInBound`
only carries the model's bound to the store. `AnswersKept` needs `AnswersTrue`:
the room or the object that a side was told of is there until it is used, for
each step moves one index of a ring and only forward. `ClientsAreSafe` and
`SizeErrsByTheMoves` are about `SpscClients`. A consumer that was told "not empty"
finds an object, so that its step on the fast path, which tests nothing, is the
step of Pop: with `Unasked = FALSE` every behaviour of the clients is one of the
ring (`ClientSpec => Spec`), and all other theorems hold for them.
`SizeErrsByTheMoves` takes the two loads in either order: the index that is
loaded first stays behind the real one (`SeenBehind`), and the difference lies
between the two that a single instant would have given. It also assumes
`2 * MaxPos < SizeMod`: positions stay in the lower half of `size_t`, for else a
number below zero could not be told from a size.

**MPSC** (`MpscProofs`): `Invariance`, `TypeCorrect`, `Exclusion`,
`OnlyPublished`, `FullMeans`, `LockFree`, `WritingDataMeans`, `Refinement`, for
any set of producers, with a consumer that may be replaced between any two of its accesses.
The mark of a cell is EMPTY or VALID and does not tell the lap, so `IInv` says
which positions the marks belong to: `FreeCells` and `WritersOwn` have the EMPTY
ones, `OnePositionEach` keeps the writers apart, `ConsumerKnows` the consumer.
A push compares its `head_` with a `tail_` loaded later, in `size_t`:
`StillTrueAtCas` keeps the room it saw until the compare-and-swap, and the lemma
`FullFacts` (on `ModularSubtraction` of `RingIndex`) says that a subtraction
that wraps round looks full. `ClaimedCells` says that a claimed cell without a
mark has a producer at work, unless the consumer is between its last two stores
or has ended there; `CachedHead` holds only while the consumer is not replaced.
`WritingDataMeans` needs the two, to tell the three causes of that answer.

**Blocking ring** (`BlockProofs`): `TypeCorrect`, `WakeupsSuffice`,
`NobodyWaitsForNothing`, `Refinement`, for all finite sets of producers and consumers. None of
the three parts of the invariant is inductive without the others: that a push
finds room needs the mutex (`OwnerInside`), and the count of wakeups needs the bounds of `Size`. `Size` is
`head_ - tail_` modulo `SizeMod`; `SizeFacts` shows that each increment changes
it by one, also when it goes round. `NoLostWakeup` is a count of threads, so its
steps are about cardinalities: a thread that is woken moves from the signals
that are due to the threads awake, and `CoveredAfterMove` shows that the sum
never falls behind. Spurious wakeups only add to it.

**The rings are queues.** In each of the four modules `Refinement` proves
`Spec => ImplementsFifo`: the ring implements `BoundedFifo` under the mapping of
the Correct module, every step being a push or a pop of the queue or nothing to
it. The step that counts is

| ring | a push enters the queue | a pop takes its object |
|---|---|---|
| MPMC | the compare-and-swap on `head_` | the compare-and-swap on `tail_` |
| MPSC | the compare-and-swap on `head_` | the copy |
| SPSC | the store of `head_` | the copy |
| blocking | the copy and the step of `head_`, inside the mutex | the copy and the step of `tail_` |

In MPMC and MPSC a position is in the queue before its object is in the cell, so
`Held` (`HeldOf` of `RingIndex`) takes the object of a position from the producer
that has claimed it, until its copy, and from the cell after that. `HeldFacts`
needs only that no two producers have claimed one position (`OnePositionEach`).
A pop of MPMC likewise has its object from its compare-and-swap on, while it is
still in the cell; `KeepsGot` says that it stays there until the copy.
The queue is `QueueOf(Held, first, length)`, and `QueueSteps` says once for all
rings what happens to it when the positions it has keep their objects: the same
queue, one more behind, one more in front, the first one gone. What is left for
each ring is that each step keeps those objects (`KeepsObjects`,
`CopyKeepsObjects`, `WriteKeepsObjects`: the cell written belongs to no other
position of the queue) and moves the two ends as it should. Three things needed
an invariant of their own:
in SPSC, `ObjectReady`, the object of a push is still the one its caller gave
when it is published; in MPSC, `InHand`, an object a consumer has copied is still
in its cell, so that a consumer that ends there puts back that object and no
other (`PutBack`); in the blocking ring, indices that go round, for which
`WholeLaps` says that a position moved by `SizeMod` keeps its cell, because
`SizeMod` is a multiple of `ObjNum`.

**Mapping** (`MappingProofs`): `Invariance`, `TypeCorrect`, `OwnRings`,
`NotExistsHonest`, `HeadersBacked`, `DelOwnLength`, for any processes, requests,
shapes and descriptors, whatever sizes are made in the file, whichever system
call fails and wherever a process ends. The inductive invariant says for each
process how far its call has got (`Calls`), which of its descriptors is open on
what (`Descriptors`), and how much of the header of its own ring is stored
(`OwnHeader`); and of the file (`FileKept`) that no size is in a header before
the file has one. None of this depends on what processes ask for, except that
the rings of the file are of one kind (`OneKindAssumption`: the headers of
lock-free and blocking rings differ, and the model has one). `HeadersFit` adds
that no area is smaller than a header once it has a size. `DelOwnLength` needs
two more invariants. `HeaderTotal`: the kind of mapping, without which Del does
nothing, is stored after the total size. `CalmRings`: while the file keeps the
size of a process, whoever is making a ring in it makes one of that size, for
else its `ftruncate` would have changed it, and so the header has that size or
none, but for the process that is itself about to store it.

**Wrapper** (`WrapperProofs`): `TypeCorrect`, `OwnersServed` and
`LastOwnerReleases`, for any sets of objects, addresses and descriptors. Init stores `r_` and later `p_`; the
invariant needs `NewRingApart`, that in between nobody owns the new ring, for
else giving up the old one could unmap it.

**Layout** (`LayoutProofs`): `PartsDisjoint` and, for the blocking ring,
`BlockPartsDisjoint`, for all sizes that satisfy `NoOverflow` or
`BlockNoOverflow`, which the code does not test: header, cells and slots lie one
after the other inside the total size, and a copy of a length that Push accepts
stays in its cell.

**Only model-checked:** liveness (`AllDelivered` of the three lock-free rings,
`KeepsMoving` of the blocking ring), which is beyond the prover: it needs ENABLED
and an induction on what is left to deliver. What a run shows is the property
for its own constants and the fairness of section 3. The violated runs are
counterexamples and need no proof.

## 6. What is left out

* Interleavings are sequentially consistent, but for the order of the two relaxed
  loads of Size. The C11 orderings of the code (acquire, release, relaxed) are
  otherwise not modelled; a missing barrier would not show.
* Positions that pass 2^64, except in the blocking ring.
* The queries of MPMC and MPSC, which change no state. Of those of SPSC, the
  two sides and the size asked by a third thread are modelled.
* `MAP_HUGETLB`, `MAP_PRIVATE` and `unlink`; header stores are taken in the order
  of the source. Several rings in one process are in `Wrapper` and not in
  `Mapping`; conversely a Get is one step in `Wrapper`.
* Blocking rings in a file that several processes use: `Mapping` has the steps,
  but the runs give blocking rings to one process, since MAP_NEW initialises
  again, and Del destroys, a mutex that others use, and no statement of the
  repository says who may call them when. The death of a thread that holds the
  mutex.
* Memory that is lost when get_block_buf cannot initialise the mutex, and the
  value of `errno` it then leaves.
* Of the C++ wrapper: the calls that hand their arguments to the C functions,
  the `int` for the index, what Init returns; objects that hold blocking rings;
  two threads that use or assign one object at a time.
* The error strings, the debug hooks, the tests.

## 7. Plan

Done, in this order: `BoundedFifo` and `Mpmc` with its proof; `Spsc` and its
proof; `Mpsc`; `Block`; `Layout` and its proof; `Mapping`; `SpscClients`;
`Wrapper`; the proofs of `Mpsc`, `Block` and `Wrapper`; the refinement proofs of
the four rings, the proofs of `Mapping` and of `SpscClients`.

1. *Model more.* Blocking rings in the shared file, with the mutex as an object
   of `Mapping`, and the `errno` that Get returns. In `Mapping`: MAP_HUGETLB
   rounding, attaching to a ring of zeros as far as the first push. A model of
   the SPSC and MPSC rings with store buffers, in which release and acquire
   matter.
2. *Prove more.* Nothing a run checks is left but liveness. Consequences that no
   run states yet: that positions never go back if no process makes the ring of
   the file a second time, the converse of the finding of `mapping_new`; that the
   addresses of `LayoutProofs` fit the mapping whose length `MappingProofs` is
   about; the safety half of progress, that a thread which cannot go on implies
   another that can, for the lock-free rings as `NobodyWaitsForNothing` has it
   for the blocking one.
