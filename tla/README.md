# A TLA+ verification of the PIM linked-list project

The repository holds the code of a study on concurrent data structures and
processing in memory (PIM): sorted linked lists, queues and skip lists executed
by several host threads (with locks, without locks, by flat combining) and by a
PIM processor inside a simulated memory cube (the SMC simulator, a modified gem5,
with its firmware, host library and driver). This directory holds TLA+ models of
that code, the TLC runs that check them on small instances, and proofs that TLAPS
checks for every instance. `PROJECT.json` maps each definition to the lines it
models and lists runs, mutants, findings, hazards and theorems.

## 1. Inventory

Paths are under `src/`; `TP` is `All_Summer2017/testProject`.

| Part | Source | State | Operations | What is hard |
|---|---|---|---|---|
| Host/PIM handshake | `SMC_original/SW/HOST/api/pim_api.cc`, `SMC_original/SW/PIM/resident/` | COMMAND, STATUS, INTR, SREG/VREG, two program counters | start_computation, wait_for_completion, the firmware's loop | interrupts that are not remembered, polling a status another processor resets, no acknowledgement of NOP |
| PIM list kernel | `SMC_original/SW/PIM/kernels/linked_list.c` | nodes and free stack in the register file | init, add, remove, contains | a word that is a key or a free link, full register file, sentinel keys |
| Flat combining list | `TP/test/MyFCLinkedList.h`, `TP/data_structures/ITest.h` | publication slots, slot list, combiner lock, nodes | singleFCOP, combinedFCOP, enq_slot, the two combiners | idle slots are dropped while their owners post, two ways out of waiting, a cursor carried across frees |
| Lazy list | `TP/test/MyFCLinkedList.h`, `TP/framework/cpp_framework.h` | nodes with key, next, mark, lock | parallelAdd, parallelDelete, parallelContain | optimistic search, validation, lock-free reader |
| Log generator | `host/gen_multi/host_generator_pthread.cpp`, `CoarseLinkedList.h` | list, lock, op_count, size, files | main, func_gen | check-then-act on two atomic counters |
| Consistency checker | `host/test_consistency/consist_test.cpp`, `LinkedList.h` | its own list, positions in the files, search state | states 1, 2, 3 | reconstructs an order from unordered logs |
| Fine-grained list | `host/gen_multi/FGLockLinkedList.h` | nodes with a mutex each, allocator | contains, add, remove | hand-over-hand locking, delete right after unlock, an uninitialised mutex |
| Spin-lock generator | `host/gen_multi/host_generator_thread.cpp` | as above, one exchange lock | func_gen | spinning |
| Single-thread generator | `host/gen_single/` | list with atomic_flag locks, listSize | add, remove, contains | a dangling else in remove |
| Other checkers | `host/test_consistency/timestamp_test.cpp`, `host/list_test.cpp` | sorted log, list | sort, replay | equal timestamps |
| Linked list application | `SMC_original/SW/HOST/app/linked_list/` | host list and PIM list in step | populate, operation loop | the handshake's hazards seen end to end |
| Driver and task | `SMC_original/SW/HOST/driver/pim.c`, `api/pim_task.cc` | pinned pages, slice table, data regions | ioctl, slice merging, updatePages | regions that share pages, bounds of the merge |
| PIM TLB | `SMC_original/GEM5/gem5/src/mem/ethz_tlb.cc` | rules, pending refills | timing, atomic and functional requests, refill | retries and misses during a refill |
| PIM DMA | `SMC_original/GEM5/gem5/src/dev/ethz_dma.cc` | requests, resources, done events | initiate_read/write, nextState, handle_packet | completion interrupt against `wfi` in DMA_WAIT, limits, out-of-order answers |
| PIM memory device | `SMC_original/GEM5/gem5/src/mem/ethz_pim_memory.cc` | registers | recvAtomic | interrupt posted and cleared at once |
| Other PIM kernels | `SMC_original/SW/PIM/kernels/` | graphs, matrices, double buffers | execute_kernel | DMA double buffering |
| Lock-free skip list | `TP/test/MyLFSkipList.h`, `TP/framework/cpp_framework.h` | nodes with a marked link per level | add, remove, contain, find, findAndClean | several levels, links prepared long before they are used, removals while a node is still being spliced in |
| FC queue and FC skip list | `TP/test/` | slots, queue, levels | add, remove, contain | the slot protocol again |
| Comparison structures | `TP/data_structures/` | queues, stacks, heaps | | published algorithms |
| Harness, gem5, scripts, trials | the rest | | | not part of the protocols |

How they interact: an application calls the handshake, which runs the kernel; the
kernel reaches memory through DMA and TLB, whose rules come from the slice table
the driver has written for the data of the task. The
generators write files that the checkers read. The lists of the test project are
called by its harness from many threads.

## 2. Modules

```
AtomicSet            what the lists promise: an atomic set with a capacity
  <- PimListKernel, FCLinkedList, LazyList, FGLockList  (INSTANCE, ImplementsSet)
LinearizableSet      the same promise for calls without a fixed linearization point
  <- LFSkipList                                         (INSTANCE, ImplementsSet)
PimHandshake         registers, host thread, firmware
SliceTable           pages, slices, the entry that covers an address
  <- PimTask         data sets, pages, pinning, the merge into slices
  <- PimTlb          accesses, refills, retries, replacement
       <- PimOffload    PimTask composed with PimTlb
       <- PimDma        PimTlb composed with the DMA engine and the firmware
SortedList           the sequential list as operators on sequences
  <- HostGenerator   threads, counters, files       -- implements --> LogRun
  <- LogRun          runs of atomic operations with their files
       <- ConsistTest   LogRun composed with the checker
*Proofs, LazyListInvariant, LazyListRefinement       theorems
MC*                  instances for TLC
```

**PimHandshake.** COMMAND, STATUS and the data registers; `host` and `pim` say where
the two processors are. One action per register access: WriteSreg, GiveCommand,
WakeUp, CheckStatus, GiveNop, ReadSreg for the host; NewCommandReceived, SetBusy,
ExecuteCommand, KernelReturns, SetDone, SeeNop, SetSleep, Wfi for the firmware.
Calls are numbered and registers hold numbers of calls, so that a result can be
told from an older one. `woken` and `runs` are history.

**PimListKernel.** The node words as functions on addresses; the first word is the
key of a linked node and the link of a free one, as in the code. The search is one
action per step; each operation ends in one action per return of its function.

**FCLinkedList.** The SlotInfo of each thread, `_tail_slot`, `_timestamp`,
`_fc_lock`, the nodes. `combined` selects flat_combining or
flat_combining_combined. Every access to a field that another thread may change is
a step, including the two of enq_slot and the order in which a dropped slot is
unlinked and flagged.

**LazyList.** Node fields as functions; `prev` and `curr` per thread; every read of
the unlocked searches is a step. Nodes are never freed in the code and never reused
in the model. `unlinked`, `stale`, `absent` and `present` are history: what was true
at some time of a call.

**SortedList, HostGenerator, LogRun, ConsistTest.** An operation on the coarse list
is lock, walk, change and unlock; the tests of op_count and size, the increments and
the line in the file are steps of their own. `LogRun` states the promise of a run,
and the checker is composed with it. Lines of a file are records of operation, key
and result; keys are natural numbers, which their decimal text and str2ulong_t
preserve (a negative key would not be; no default range has one). main draws its keys
from `InitKeys`: with the default range of 101 it can add right_bound + 1, which no
thread draws. When pthread_create fails, `CreateFails` stops main and all threads where
they are. In ConsistTest the history `order` is the order of the lines that the checker
has come to: what it found for a result of thread 0, with the changes before it in that
file, goes in front of the line it explains.

**FGLockList.** Mutex holders per node, `used` for the allocator, which may give a
deleted node out again at once. What happens between two lock operations is one
step, because a field is read only under its node's lock. The locals are reset when
a call returns. `TailLock` is what the uninitialised mutex of the tail can hold:
zero (free) or garbage (never free).

**LFSkipList.** Links and marks as functions of node and level, the locals of a
thread as a record. `Level`, `Marked`, `Snip`, `Forward` and `Down` are the loop that
find, findAndClean and contain share; `phase` says for whom it runs. Every access to
a link is a step, with two exceptions that the module explains: attemptMark, and the
preparation of a node nobody else can see yet. A new node's upper links stay as they
were prepared when add has to look for new neighbours, as in the code. The list may
start out filled in any way the constructor can fill it. An unsuccessful remove has no
fixed point at which it takes effect (the key may be added between the read of the
predecessor and that of the successor), so the abstract specification is
LinearizableSet, in which such a call may give any answer that was right at some time
since it began; `seen` is the history that says which answers were.

**SliceTable, PimTask.** `addData` keeps the data sets in the order of their
addresses; `UpdatePages` is one iteration of updatePages, which joins their pages;
`PinPages` chooses a frame for each page; `MergeSlice` is one iteration of the driver's
loop that joins neighbouring frames into slices, including its look at the word behind
the array of physical addresses, which may hold anything; `SendTable` announces the
table. The driver takes one range of pages; a task that ends with several is
`scattered`, one whose data overlap is `rejected`, and both end there. These two checks
are in the code under DEBUG_API, which UTILS/default_params.sh:529 turns on and
UTILS/models/gem5_perf_sim.sh:7 turns off; they change nothing but to end the program, so
that what is shown holds in a build without them for every task that would pass them.
Slices are merged, as UTILS/models/system/gem5_pim.sh:16 has it.

**PimTlb, PimOffload.** An access that hits is sent on with its physical address; a
miss stalls the processor and asks for the rule, in one step (`ideal`) or by a packet;
the crossbar may refuse either. An answer that the processor refuses (it does for the
second half of a split access) is put back unchanged, which is a stuttering step. `refills` are the refills pending and in flight.
`lastUsed` holds ranks instead of ticks: only their order matters, and no two uses have
the same tick. `PimOffload` runs kernels on the table that a task has built; the history
`recent` names the rule used last.

**PimDma.** The vector of requests, the index and the state of the engine, the packets
of dmaAction with the partial ones at both ends of an unaligned transfer, and the
firmware: DMA_REQUEST (a step, with the busy check), loads of the kernel, DMA_WAIT
(status, wfi, clear interrupt) and the way back to the main loop. The kernel is any
program: it may ask for a busy resource, which panics, for bytes that are under way,
or for more before earlier requests are sent. `current_index` is kept as in the code
while the vector changes under it; beyond the end it reads a request that erase left
there, or stops the simulator (`Designated`, `BeyondEnd`). Panics and failing assertions
lead to `pc = "panic"`, where a behaviour ends. History: `asked` and `moved` of a request
and `crowded`, which holds from a request that comes before all earlier ones are sent
until the engine stops.

## 3. Runs

| Run | Instance | Shows |
|---|---|---|
| handshake | 5 calls, 2 commands | assertions of the firmware, at most one execution, a call whose interrupt arrived returns its own result |
| handshake_stale (violation) | 2 calls | a second call can be answered by the DONE of the first |
| list_kernel | 3 blocks, 4 keys | sorted list, atomic bounded set, every search ends |
| fc | 2 threads, 2+1 calls, 2 keys, both combiners | the slot list stays a list, the linked flag is right, requests are executed exactly once, every call returns |
| lazy | 2 threads, 2 calls each, 2 keys | shape, locks protect, contains is linearizable, atomic updates, every call returns |
| generator | 2 threads, 2 operations, 2 keys and one more for main, room for 1 | size against list, overshoot of list and of op_count at most one for each other thread, atomic runs |
| consist_test | 3 threads, 1 key and one more for main, up to 5 operations | a verdict, and a list that an order of the lines explains all the way |
| consist_alarm (violation) | 3 threads, 1 key, up to 5 operations, list empty at first | a correct run fails the test |
| fine_grained | 2 threads, 4 calls, 2 keys, 3 spare nodes | atomic set, no access to a deleted node, every call returns |
| offload | up to 2 data sets on 3 pages, 4 frames, TLB of 3 | exact pages, maximal slices, every access reaches its byte and is answered, a stalled processor waits for the refill under way, the rule used last is kept |
| dma | 2 resources, 3 slices on 4 pages, 2 unaligned transfers over a border, loads, TLB of 3 | the right bytes are moved, a resource is free only when all are, none is lost unless requests crowd, the main loop is never disturbed, DMA_WAIT returns |
| skip_list | 2 threads, 2+1 calls, 2 keys, 2 levels, any initial list | no walk into a null pointer or a cycle, marks are final, linearizable set, every call returns |

Type invariants are not listed as properties of their own: `TypeOK` is proved for the
modules with proofs and is a conjunct of an invariant of the others (SlotListEnds,
NoUseAfterDelete, OvershootBounded, RightBytes).

Bounds. Two neighbouring keys are the least for which a change at one node can hit
the predecessor or the successor of another; two calls of a thread let it
meet, or remove, what its first call and the other thread's have left. Room for one
key with others in range makes the size test matter at once. STAMP_THRESHOLD = 0
drops an idle slot at the first opportunity, which includes every later one.
Three spare nodes hold every list of the fine-grained run together with the nodes
being deleted, and force reuse. In the skip list the initial list stands for earlier
calls; with two levels, the lowest decides and the other is a short cut, which is the
relation of any two levels. The same model was also explored once with two calls for
each thread, without the liveness property: 1.9 million states, no error.
Three pages are the least for which data sets can share a page, touch, or leave a page
between them; a TLB of three places has two dynamic rules and so replaces one. Two
resources let one request be put in front of another that is being served, and three
slices for two dynamic rules let a load replace the rule of a transfer.

The checker. That the files of a correct run pass is refuted by consist_alarm, and would
be with two threads and two keys too: thread 1 adds 1, removes 1 and adds 2; thread 0 adds
1 after that remove and then finds both keys. To explain key 2 the checker applies all of
thread 1's file, the remove after thread 0's own add, and then misses key 1. What it does
promise is `Explained`: state 1 changes the list before it knows better, state 3 makes up
for it (the flags dont_add and dont_rmv), and the list is then the one left by an order in
which all results of thread 0 so far are right. A verdict "Test passed." so has a witness,
for thread 0 alone: results of the other threads are believed. The run has three threads,
with which wrong choices and failing verdicts occur; two threads on two keys, up to
5 operations, were explored once: 1.2 million states, no error.

Time in the DMA model. The engine ticks every nanosecond; the clock of the processor is a
parameter that the scenarios vary. So the model assumes nothing about their pace: any
number of steps of the firmware and answers of the memory fall between two ticks. What
the engine does then:

* A load of the kernel between DMA_STATE_TLBREFILL and DMA_STATE_TRANSFER can replace the
  rule the engine has just looked up, and slice_vend, of which the code says "This method
  should never fail", panics; or the rule is one that the processor's own miss is
  fetching, and refillTLB_functional panics. Both ends are reached in the run.
* A request in front of one that is being served makes current_index designate the new
  one. Usually both are served in the end, but the rest of the first can be lost, and
  then DMA_WAIT for it does not return. `NothingLost` says that this needs a request that
  comes before earlier ones are sent, `WaitReturns` that nothing else makes it hang.
* Two requests for the same bytes, or bytes sent twice after a shift of the index, make
  an answer match two ranges, which panics, or are counted twice, which an assertion
  catches.

`RightBytes` and `DoneWhenFree` hold in all of these cases: the engine rather stops the
simulation than move a wrong byte or report a transfer complete that is not. The crossbar
refuses nothing in this model; refusals are those of `offload`. A kernel may return
without having waited for its last transfer, as the graph kernels do; command_done
(`Outlasted`) then waits for the host's NOP, which takes the host longer than the engine
needs to finish what it can. Transfers that leave one byte behind a border are left out
(section 5). A larger instance (two layouts, transfers of 5 bytes, 1.8 million states) was
explored once, no error.

Deadlock is checked in every passing run but two: in `handshake` an interrupt that finds
the firmware between its last look at COMMAND and its wfi is lost and really stops the
system, and in `offload` a rejected or scattered task ends. The other models end in a
stuttering step only when all calls are made.

Fairness. Weak fairness of each processor, thread or device: the operating system, and
gem5's event queue, run whoever can run. In `dma` it is one weak fairness condition for
all events of the simulator together, which is less than one for each. No lock is assumed fair: TASLock and
pthread mutexes are not, and a waiting thread gets the lock in the models only
because the number of calls is bounded and the others come to an end. So the
liveness runs show that nothing hangs, not that nobody can be overtaken forever; the
same holds for the retries of the skip list. In `offload` a retry that the crossbar
could accept is accepted in the end (strong fairness): traffic comes and goes, and the
crossbar serves the ports that wait. The calls of the callers themselves are not fair.

Memory order. LazyList, FCLinkedList and LFSkipList take accesses in program order. The
barriers in the source are commented out in places; on x86, where the experiments ran,
stores stay in order as far as the compiler leaves them so, and compareAndSet is a full
barrier.

## 4. Proofs

All theorems are about the safety part of a specification and hold for every value
of the constants that satisfies the named assumptions.

* **PimHandshakeProofs** (any number of calls). `IInv` adds to the properties which
  values COMMAND and STATUS can have for each pair of program counters, and how far
  the firmware can be with the current call. TypeCorrect, AssertsHold, Ownership,
  RunAtMostOnce, WokenServed, NoLateRunHolds.
* **PimListKernelProofs** (any register file, any keys but 0). The list is described
  by the set `linked` and the free stack by a sequence, both history: the invariant
  says that the next linked node has no linked key in between, so no reachability
  or induction over the list is needed. It is not inductive without where `pred`
  and `curr` stand. TypeCorrect, ShapeHolds, MemoryConserved, KernelImplementsSet
  (a refinement of AtomicSet).
* **LazyListInvariant, LazyListProofs, LazyListRefinement** (any number of threads,
  keys, nodes and calls). `IInv` is the properties and: facts on nodes not made yet,
  what each program counter says of the call, which nodes are marked and not yet
  unlinked and by whom, that a search that began at the head stands on nodes which
  are linked or were unlinked during the call (PathFacts), and what a reader's
  position says about the presence of its key since its call began (ReaderFacts).
  The central steps are MarkKeeps, UnlinkKeeps and LinkKeeps, one per change of the
  heap. TypeCorrect, ShapeHolds, LocksHold, ContainsCorrect; UpdatesImplementSet
  is the refinement of AtomicSet by the updates.

* **PimTlbProofs, PimTaskProofs, PimOffloadProofs** (any page and TLB size, any data,
  frames and content of the word behind the array). The inductive invariant is
  `TaskInv /\ TlbInv`, for exact pages also `PagesInv`. `TaskInv` says of every slice
  made so far that each of its addresses leads to the frame pinned for that page; a
  last slice that is a page too long does no harm because no data lie there.
  `TlbInv` says that each rule is a slice of the table, that none is there twice, and
  that a stalled access has no rule yet. `Ranked`, a permutation of the ranks, is what
  makes updateTLB find a rule to replace and keep the one used last. `PagesInv`
  describes updatePages in the middle of its loop: the ranges so far and the open one
  hold exactly the pages of the data sets looked at. Typing, PinnedBytesReached,
  RefillsMatchStalls, RulesDistinct, RecentRuleKept, ExactPages.

Proved and not the property of a run: the ownership of the data registers
(RegistersOwned) and NoLateRun of the handshake, BlocksConserved of the kernel,
OneRulePerSlice of the TLB, and the type invariants.

Only model-checked: everything under fairness; TableIsMaximal, which needs an induction
over the slices; FCLinkedList, HostGenerator, LogRun, ConsistTest, FGLockList, PimDma and
LFSkipList.

## 5. Findings

Two disagreements between code and text have a run; `PROJECT.json` quotes the lines.

* `handshake_stale`: wait_for_completion can return for a call that has not run.
* `consist_alarm`: the consistency checker can fail the files of a correct run.

Met while modelling, and left out of the models by a named assumption or bound:

* Key 0 is the key of the kernel list's head, and contains(0) answers 1 on every list;
  the scenarios draw keys from 1 (`KeysAssumption` of PimListKernel). With key 0 in its
  files the checker's own list refuses to add it.
* In the skip list, remove and contain return the key or `_NULL_VALUE`, which is 0, and
  the benchmark draws keys from 0; for key 0 the answer says nothing (`KeysAssumption`
  of LFSkipList). Nobody looks at the answers.
* The tail's mutex of the fine-grained list is not initialised; `TailLock` is what it
  may hold. With garbage the first call that reaches the tail can hang, so the run takes
  the zero that fresh memory usually has.
* The generator's list can exceed the maximum size it was given; OvershootBounded says
  by how much.
* The driver's merge reads one word behind the array of physical addresses and can make
  the last slice a page too long; PinnedBytesReached shows that no access goes there.
  The entry it then writes behind the table is not one that an address of the task leads
  to, and is left out. If several words happened to continue the frames, it would write
  further behind the table.
* slice_vend, of which the code says that it should never fail, and refillTLB_functional
  can panic, and a request can lose its rest, when the kernel loads or asks for more at
  the wrong moment (section 3, time in the DMA model).
* A DMA request with a single byte behind a slice border is never completed
  (nextSubRequest compares with `<`); the kernels transfer whole words.
* After a refused send the TLB keeps the remapped address as the original one of the
  packet that is retried. Nothing reads it.

## 6. Not modelled

* **Atomic mode and HMC commands of TLB and DMA.** In atomic mode a request is answered
  within the call, so nothing overlaps; the remapping of HMC commands is address
  arithmetic of the same form as that of an access.
* **Release of pages, mmap, failing allocations in the driver.** The release runs after
  the last task. Failed pinning is ignored by the code (its ASSERT only prints), and what
  follows depends on uninitialised memory.
* **The pool of done events.** It has 16 places; seven resource bits and at most two
  slices for a transfer of 512 bytes need 14.
* **Spin-lock generator.** One lock around each iteration of the loop that HostGenerator
  models leaves nothing to interleave.
* **Single-thread generator and its list.** One thread, whose locks are never contended.
  The dangling else of its remove (LockLinkedList.h:216) is a path for a unit test.
* **Timestamp checker and single-log checker.** A sort and a sequential replay. What
  timestamps of different processors promise is not in the source.
* **Linked list application.** A sequential loop over the handshake and the kernel, whose
  two sides are modelled.
* **Flat combining queue and skip list.** They copy the slot protocol of FCLinkedList over
  structures that only the combiner touches.
* **Kernels other than the list.** Only what they ask of DMA and TLB is modelled; their
  arithmetic is sequential.
* **Comparison structures.** Published algorithms that the study measures against.
* **Stock gem5, CACTI, scripts, statistics, trial programs.** No protocol of the project
  is in them; they are nearly all of the repository's lines.

Destructors, print and size are called when no other thread runs. Timing, thread
placement and random distributions are measurement; random choices are nondeterministic
in the models. After its loop a benchmark thread sleeps and deletes `local_slot` (in mode 2
one that was never enqueued, the slot in use being declared again inside); the model ends
before that.
