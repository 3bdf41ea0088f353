# A TLA+ verification project for miracle-2

miracle-2 is an arm64 kernel in the making, derived from Linux (the parts are cut
down and in places rewritten). This directory holds TLA+ models of its core, the TLC
configurations that check them on small instances, and TLAPS proofs for all
instances. `PROJECT.json` lists runs, mutants, the map from definitions to source
lines, findings, hazards and theorems.

    tlc -workers 2 -config MCQSpinLock.cfg MCQSpinLock     # a run
    tlapm QSpinLockProofs.tla                               # a proof

## 1. The system

`start_kernel` (init/main.c) runs on the boot CPU: `boot_cpu_init`, then `setup_arch`
(arch/arm64/kernel/setup.c) maps the device tree, tells memblock about memory,
reserves the kernel image, builds the page tables (`paging_init`) and lets memblock's
arrays grow. The page, slab, per-CPU and vmalloc allocators are written, and so is
their hand-over from memblock, but `start_kernel` does not call them yet. The locks
underneath are complete and SMP-safe (CONFIG_NR_CPUS is 8).

| component | state | operations | hard because |
|---|---|---|---|
| queued spin lock (kernel/locking/qspinlock.c) | 32-bit lock word; 4 queue nodes per CPU and their count | lock, trylock, unlock | CPUs and interrupt levels interleave between every two accesses; three ways to be next |
| queued rwlock (kernel/locking/qrwlock.c) | one counter, one spin lock | read/write lock, trylock, unlock | optimistic bias that is undone, byte store into an atomic word, starvation |
| page allocator (mm/page_alloc.c) | struct pages, buddy lists per zone and order, per-CPU lists | alloc, free, references, boot hand-over | state left behind by one path is trusted by another; pages change hands outside the locks |
| memblock (mm/memblock.c) | two sorted region arrays that live in the memory they describe | add, remove, reserve, free, flags, limits, find, alloc | an array grows in the middle of the call that changes it; partial failures |
| zone setup (mm/page_alloc.c) | zone sizes, memory map | `free_area_init_nodes` | arithmetic over memblock's regions |
| slab (mm/slub.c, slab_common.c) | per-CPU freelists with transaction ids, frozen pages, partial lists | alloc, free, cache create, bootstrap | lock-free fast paths |
| per-CPU allocator (mm/percpu.c) | chunks, bitmaps, block hints, slots | alloc, free, populate, reclaim | cached hints; lock dropped in the middle |
| vmalloc (mm/vmalloc.c) | area tree, search cache, lazy purge list, vmap blocks | alloc, free, purge | lazy reclaim, retry, cached hole |
| early ioremap, fixmap, page tables | slot table; page-table levels | map, unmap | ordering during boot |
| device tree scan (drivers/of/fdt.c) | feeds memblock | add memory | clipping arithmetic |
| lib: radix tree, XArray, IDR, rbtree, bitmaps, llist | data structures | insert, delete, search | rare shapes |
| printk, UART | one static text buffer | format and write | shared between CPUs |

Interactions: every allocator is built on the spin lock; rwlock contains one; memblock
feeds `memblock_free_pages` of the page allocator; the page allocator's real per-CPU
lists come from the per-CPU allocator, which itself needs slab and vmalloc; slab and
vmalloc take pages. There are no messages, no persistence and no timeouts; failure
means running out of memory, and concurrency means CPUs and nested interrupts.

What makes each part correct: exclusion, order and progress for the locks; "every page
(every object) is in exactly one place, and no internal check fires" for the page and
slab allocators; "the arrays say of every address what the calls made of it" for
memblock; disjoint areas, and no address reused before its TLB flush, for vmalloc;
cached hints that agree with the bitmap for the per-CPU allocator. `PROJECT.json`
lists the places where these could go wrong (`hazards`), each with the properties
that would notice; a hazard without a property says why.

Several primitives are stubs in this tree, and the models take them as they are:
mutexes exclude nobody (include/linux/mutex.h), `cond_resched_lock` never drops the
lock, `call_rcu` runs its callback at once, `kfree_rcu` and `schedule_work` do nothing
(a freed `vmap_area` is leaked; the balance work of the per-CPU allocator never runs).

## 2. Modules

| module | models | kind |
|---|---|---|
| `QSpinLock` | qspinlock.c, asm-generic/qspinlock.h, mcs_spinlock.h | component |
| `SpinLockSpec` | what a spin lock promises | abstract specification |
| `QSpinLockFifo` | the refinement mapping; `Fifo`: QSpinLock implements SpinLockSpec | refinement |
| `MCQSpinLock` | instances | model checking |
| `QSpinLockProofs` | theorems about `QSpinLock`, and the refinement step by step | proof |
| `QRwLock` | qrwlock.c, asm-generic/qrwlock.h, composed with `SpinLockSpec` as its wait_lock | component |
| `QRwLockProofs` | theorems about `QRwLock` | proof |
| `PageAlloc`, `MCPageAlloc` | page_alloc.c without zone setup, page reference helpers | component |
| `BuddyLemmas` | what freeing, taking and splitting blocks does to one zone | proof |
| `PageAllocProofs` | theorems about `PageAlloc` | proof |
| `Memblock`, `MCMemblock` | memblock.c, and the phases of boot that use it | component |
| `MemblockProofs` | theorems about `Memblock` | proof |
| `Slub`, `MCSlub` | one cache of slub.c | component |
| `SlubProofs` | theorems about `Slub` | proof |
| `RbTree` | lib/ulib/rbtree.c, rbree_augmented.h: operators on trees | algorithm |
| `RbSet` | keys inserted and erased in any order | algorithm |
| `Vmalloc`, `MCVmalloc` | vmalloc.c on top of `RbTree`, and llist | component |
| `Percpu`, `MCPercpu` | percpu.c, and the bit searches it uses | component |
| `PercpuLemmas` | what the bit searches, hint updates and the search for room compute | proof |
| `PercpuProofs` | theorems about `Percpu` | proof |

Operators whose name is that of a definition, followed by what is wrong with them
(`HeadWait_ignores_pending`), are mutants: plausible bugs that TLC must notice.

### QSpinLock

State: `word` is the lock word as its three fields, because the build writes the
locked byte, the pending byte and the tail halfword separately (`_Q_PENDING_BITS` is
8); `node` and `count` are the per-CPU `qnodes`; `pc`, `lk`, `idx`, `prev`, `next` are
a call's position and locals; `held` and `queue` are history. There is one action per
shared access of `queued_spin_lock_slowpath`; local computation belongs to the access
before it. `encode_tail` keeps the code's encoding. `node->count++` is two actions.

A context is one level (task, softirq, hardirq, nmi) of a CPU; a higher level that is
active freezes the lower ones (`Running`). What callers owe the lock is in `MayRun`
and `MayWait`: a lock that an interrupt level waits for is taken with that level
masked (`spin_lock_irqsave`), and nested locks are taken in increasing order.
`trylock` never waits, so any context may call it at any time. Memory is sequentially
consistent: the acquire/release annotations of the code are not examined.

### QRwLock

`cnts` is the counter as a number (readers * 512 + waiting 256 + locked byte 255), so
that byte stores and masks are arithmetic. `wait_lock` is an instance of
`SpinLockSpec`: the rwlock is checked against the promise of the spin lock, and the
`qspinlock` run checks that the spin lock keeps it. `in_interrupt()` is 0 in this
kernel (include/linux/preempt.h), so that branch of the read slow path is left out.

### PageAlloc

`page` keeps of a struct page what decisions depend on: PageBuddy, private (the
order), the reference count, PageHead, compound order and the tail mark. Buddy lists
are sequences, because the tail heuristic decides which block is taken next. Code
that runs under zone->lock or with interrupts off is one action; between the sections
(`rmqueue` and `prep_new_page`; `put_page_testzero` with `free_pages_prepare`, and
the freeing under the lock) other tasks run. `put_page_testzero` and
`free_pages_prepare` are one action because the block is private once its count is
zero. `bug` says that the last step ran into a `BUG_ON` or a `bad_page` check: the
model goes on only so that `NoBug` can be stated. The `BUG_ON`s of the merging loop, also
of each page of a batch, are `__free_one_page_BUG`; only the one about an initialized zone
(page_alloc.c:263) is left out with zone setup. Boot hands over `BootBlocks` and
gives every zone its own pagesets; other tasks start after that. `BootAssumption` is
what boot owes the allocator, since `memblock_free_pages` has no caller yet: the blocks
are aligned, lie in one zone each and do not overlap (`IsBlock`). The places of a frame
(`InFree`, `InPcp`, `InCalls`, `InHeld`, `InBoot`) are counted with their index, so that
a frame twice in one list is two places.

### Memblock

An address counts pages. memblock runs on the boot CPU alone, so a call is one step;
operators take and return the whole struct. `memblock_double_array` is modelled as it
nests: growing the memory array may grow the reserved array, and growing that leaves
room for its own bookkeeping (`DoubleNone` marks a bug if it did not). `phase` is the
place in boot: `setup` (fdt scan and `arm64_memblock_init`), `paging` (page tables
are being allocated, flags change), `resize` (after `paging_init`, which frees
`init_pg_dir` and calls `memblock_allow_resize`). `halted`: `BUG_ON(memblock_reserve)`
stops the kernel, so such a call has no successor. `marks`, `reservations` and `owned`
are the history of what callers were told, against which the arrays are checked.
`slab_is_available()` is false throughout.

The loops over an array are functions of the round, with the body as an operator of its
own (`MergeStep`, `PortionStep`, `Cut`, `SearchStep`, `MaxAddrStep`), so that they can be
reasoned about. `RangesAssumption` says that the ranges which callers name start in the
address space; they may reach beyond it (`memblock_cap_size`).

### Slub

One cache. `page` keeps freelist, inuse and frozen of each slab; `fp` is the word of every
object that links free ones (an object in use has its user's data there, so a link read
too late is visible as such); `cpu_slab`, `partial` and `list_lock` are the structures of
the same names. Contexts nest as in `QSpinLock`. The fast paths are two steps each, the
reads and the `cmpxchg_double`: an interrupt between two of the reads that changes
anything changes the transaction id and makes the cmpxchg fail. The slow paths are one
step per access that another CPU can see: the unlocked look at the partial list, the lock,
`acquire_slab`'s cmpxchg, the page allocation; on the free side, reading the slab, the
lock, the cmpxchg, the update of the list. The id is 64 bits and only compared, so what is
kept of an id that was read is whether the CPU still has it (`fresh`). `slub_cpu_partial`
is 0, so the per-CPU partial lists are absent from the build. `objects` gives the blocks
different sizes: `allocate_slab` falls back from `s->oo` to `s->min`, and either may fail
although this cache left memory. Boot runs alone first and may flush its slab, as
`bootstrap` does; a cache starts empty or, for the node cache, with the slab of
`early_kmem_cache_node_alloc`.

### RbTree and Vmalloc

`RbTree` writes each of the mirrored cases once, for a side and its opposite; loops over a
path are `Repeat`, a bounded iteration. Erasure includes the `RB_CLEAR_NODE` that its
users add. `RbSet` is a user with nothing but a tree, so that its run can afford trees in
which every case of the rebalancing occurs. `Vmalloc` uses the tree exactly where the code
does (lookup, insertion, first area above an address, neighbours) and the sorted list
where the code walks the list. A critical section of `vmap_area_lock` is one action.
Freeing is `remove_vm_area` (unmapping and counting, invisible to others until the next
step), then `llist_add`; purging is `llist_del_all` with the flush, then returning the
areas under the lock; with the mutex a stub, several CPUs purge at once. `stale` is the
history that makes `NoStaleTranslation` expressible: pages that were unmapped and not
flushed since. `Structures` models the failure of the first allocation of
`alloc_vmap_area` as a call that does not start. Wrap-around tests are left out:
VMALLOC_END is far below 2^64.

`FailsOnlyWhenFull` is about holes larger than the request: the code compares `size <
cached_hole_size`, so a hole of exactly the right size below the cached area is
missed, although the comment (vmalloc.c:397) speaks of a size that fits. It is also
only about a search that purged first; a purge that found the list already taken by
another CPU's purge still counts, and such a call may fail while that purge is about
to return its areas.

### Percpu

Bitmaps are sets of bits. `md_blocks` and the hints of the chunk are the code's cached
values, updated by the code's rules, with `pcpu_block_update_hint_alloc/free` split into
their cases. A loop of the code is a function of its round (or of the block it has come
to), with one operator for a round (`RefreshStep`, `MdStep`, `ChunkStep`, `FitStep`,
`FindStep`); the bound of the rounds is the length of what the loop walks over, and a
round after the loop has ended changes nothing. The walk over the slots in `pcpu_alloc` is
`Servers`, the places whose chunk has room, and `Found`, the first of them. `pcpu_alloc`
of a sleeping caller is `alloc_percpu` (the search and the area), `populate` per region
that lacks pages, `populated_all`, or the way through `look_for_free_chunk` (an unlocked
read), `pcpu_create_chunk` and `retry`; atomic allocations and frees happen between these.
One task sleeps at a time: the mutex that should ensure this is a stub, but there is one
task. `FindArea` lets a search past the end of the bitmap find clear bits, so that a wrong
hint shows as an area out of range. `nr_empty_pop_pages` may be too high in the code,
which recomputes it only when it refreshes the chunk's hint; `CountsExact` says it is
never too low.

## 3. Runs

| run | instance | states | shows |
|---|---|---|---|
| `qspinlock` | 3 CPUs, 1 lock, fair | 147,000 | `TypeOK`, `MutualExclusion`, `PendingOwned`; `Fifo`: nobody passes the pending waiter or the queue; `EventuallyAcquires` |
| `qspinlock_nested` | 2 CPUs, one with an interrupt level, 2 nested locks | 193,000 | `MutualExclusion`, `NodesDistinct`, `QueueLinked` |
| `qrwlock` | 4 CPUs, fair | 65,000 | `RwExclusion`, `CntsExact`, `CallsReturn` |
| `page_alloc` | 7 pages in 2 zones, orders 0-2, 2 CPUs | 390,000 | `NoPageLostOrShared`, `Coalesced`, `ZonesConsistent`, `NoBug`, `FreeBuddyExact` |
| `memblock` | 8 pages, arrays of 4 and 2 | 13,900 | `WellFormed`, `MemoryExact`, `ReservedExact`, `NoSharing`, `FreeRangesExact`, `FindExact` |
| `slub` | 2 CPUs, one with an interrupt level; slabs of 3 and 1 objects, min_partial 1 | 1,425,000 | `TypeOK`, `ObjectsExact`, `SlabsExact`, `PartialExact`, `NoBug` |
| `rbtree` | 10 keys | 14,000 | `TreeExact` |
| `vmalloc` | 2 CPUs, 8 pages, 5 areas, 3 kinds of requests, groups of 2 | 427,000 | `TypeOK`, `SortedDisjoint`, `NoStaleTranslation`, `LazyAccounted`, `NoBug`, `FailsOnlyWhenFull` |
| `percpu` | blocks of 4 bits, chunks of 2 pages, 2 chunks, 3 areas | 74,000 | `TypeOK`, `AreasExact`, `HintsExact`, `CountsExact`, `FreeChunkServes` |
| `memblock_arrays`, `slub_tid`, `percpu_hint` | | | the findings of section 6 |

Why the bounds are enough for the cases to happen:

* Three CPUs give an owner, a pending waiter and a queue; a fourth way in (trylock with a
  node) and the undo of the pending bit happen too. The nested run has the interrupt
  arrive between any two accesses, including the two halves of `count++`.
* Four CPUs for the rwlock: a writer with the lock, a waiting writer, a queued reader and
  one that undoes its bias.
* Seven page frames: blocks of orders 0 to 2 that split and merge, a buddy in the other
  zone, a buddy that is a hole, per-CPU lists that refill and overflow (`HighBatches` is 2
  instead of 6, `MAX_ORDER` 3 instead of 11, `zone_batchsize` 1), blocks shared by two
  tasks. `MaxHeld` bounds the blocks of a task.
* Memblock: the static arrays of 128 are scaled down so that they overflow. The reserved
  array of 2 grows twice, so that a grown array is outgrown and given back, and the free
  in `paging_init` fails for lack of room. The memory array grows at most once in the
  passing run: the second time is finding 1. `MaxOwned` bounds allocations.
* Slub: the interrupt arrives between any two steps of the task, and the other CPU works
  on the same slabs; slabs become full, partial, empty, kept (one) and discarded, and
  memory runs out, all within four objects. A third level on one CPU is finding 2.
* The red-black tree: ten keys are the fewest with which insertions make a tree of black
  height three, which erasure needs for its loop to go round (`continue` at rbtree.c:301
  and 391). With them every case of both loops is reached on both sides: the colour flip
  below the root and at it, the inner and the outer rotation; the red sibling, the flip
  with a red parent, at the root and with another round to come, the inner and the outer
  rotation. The second round reaches the flip at the root and both rotations.
* Vmalloc: five areas are enough for the searches, which walk trees of three levels; the
  rebalancing is the business of `rbtree`. Eight pages are full or fragmented after three
  allocations, so that searches fail, purge and start again; `lazy_max_pages` of 2 lets
  some frees purge and some not.
* Percpu: areas within a block, at its edges, across the two blocks of a chunk and as
  large as a chunk; the first chunk has hidden bits at both ends; `MaxChunks` makes
  creation fail.

Deadlock is checked for the locks, the tree, vmalloc and the per-CPU allocator. It is not
for memblock, the page and the slab allocator: with all memory in use and at the bounds,
they may stop.

Fairness (`FairSpec` of the locks) is weak fairness of each context's own next step
and of its unlock: a spinning CPU executes, and critical sections end. Nothing is
assumed of starting a call. The fair run of the spin lock has one level per CPU,
since an interrupt that never returns starves what it interrupted.

## 4. Proofs

`QSpinLockProofs` proves, for any number of CPUs (below 2^14 - 1, the code's
BUILD_BUG_ON), contexts and locks, from the assumptions `NrCpusAssumption`,
`CtxAssumption` (a context is determined by its CPU and level, and there are at most four
levels) and `LocksAssumption`: `TypeCorrect`, `Exclusion`, `Nodes` and `Linked`. The
inductive invariant is

* `CallInv`: which program points a call can be at, given what it holds, and that a
  context's calls obey the nesting of its CPU;
* `NodeInv`: a context's node index is the number of active contexts with a node below
  it, so `count` is the number of nodes in use; while `count++` is half done, every
  context above has given its node back. This bounds the index, which the code does
  not test;
* `LockInv`: the locked byte is set exactly when somebody holds the lock, the pending
  byte is owned by one context, and a context at the point of taking the lock excludes
  all others at such a point;
* `QueueInv`: the history queue against tail, next pointers and the MCS locked flags;
  exactly the contexts at the queue's program points are in it, the head alone may be
  past `mcs_wait`.

Exclusion needs all of them: `set_locked` stores without testing, which is right only
because a head that has seen owner and pending gone stays alone in its right to take
the lock, which is right only because pending can no longer be taken while the tail is
not empty, which needs the queue.

`QRwLockProofs` proves, for any finite set of CPUs, `RwTypeCorrect`, `RwExcludes` and
`RwCntsExact`. The invariant adds `WaitOwner` (who is between lock and unlock of
wait_lock owns it, so at most one CPU is there) to `CntsExact`, from which exclusion
follows by arithmetic: a cmpxchg that succeeds on 0 or on the waiting flag says that
the counted sets are empty.

For the refinement `QSpinLockProofs` adds two facts to the invariant of the lock,
`PendBound` (a set pending byte has a context that is bound to clear it) and `OwnerInv`
(between taking the lock and leaving the slow path a context owns the lock of its call,
and only then). From them follow `Pending` (`PendingOwned`) and `Implements`: every step
of the queued lock is a step of `SpinLockSpec` or a stutter, under the mapping of
`QSpinLockFifo`. The mapping reads the next in line off the program counters, so the proof
first shows that there is at most one context at those points, which is `LockInv`.

`SlubProofs` proves all five properties of `Slub`, for any finite set of pages with any
number of objects each, any CPUs and any contexts, from `SlubAssumption` (a context is
determined by its CPU and level; the constants that stand for no page, no object and a
user's data are none). An object is in one place, but the model, like the code, has no
variable that says where: lists are links in the objects. The invariant therefore says
that there *are* a place and a rank of every object such that

* `ListsInv`: the freelist of every page and of every CPU is the list of the objects at
  that place, in the order of their ranks (`IsList`), so it ends and does not cross any
  other;
* `PlaceInv`: the objects with a user are those handed out, an object being freed is in
  the hands of one call, the objects of a page that is no slab are nowhere;
* `PageInv`: `inuse` is the number of objects that are not on the page's list;
* `FrozenInv`: a page is frozen exactly while it is the slab of one CPU;
* `TidInv`: what a fast path that still has its CPU's transaction id may rely on, which
  makes its `cmpxchg_double` right;
* `SlowInv`, `OldInv`, `IrqInv`: the same for the slow paths: what their unlocked reads
  still mean when they are used, and that interrupts are off where they must be;
* `PartialInv`: the partial list against frozen and freelist, with the page that a call is
  about to move as the one exception; `BootInv`: nobody else runs before the other CPUs.

The theorems are `Types`, `NoAssertionFails`, `CountersExact`, `PartialListExact`,
`NeverShared` (no object is in two places, for any depth of nesting) and `ObjectsKept`
(`ObjectsExact`: none is lost either) under `TwoLevels`, tasks and one interrupt level.
That hypothesis is this kernel's: handlers run with interrupts masked and there are
no softirqs. It cannot be dropped: with three levels the run `slub_tid` loses an object
(finding 2), and the invariant has a place `Lost` for such objects. What the
list operators compute is shown without an induction theorem: a least counterexample
(`LeastNat`, the well-ordering of the naturals) has a predecessor that is none.

`PageAllocProofs` proves all five invariants of `PageAlloc`, for any set of page frames
and zones, any number of orders, any boot blocks that satisfy `BootAssumption`, any
finite set of tasks on any CPUs and any batch size. The invariant `IInv` says that there
is a function `own` from frames to owners (a free block, a page list, a call, a held
block, a block at boot, or nobody because boot never had it) such that

* `InvOwners`: exactly the frames of no boot block are outside;
* `InvZones`: for every zone, `ZoneInv` of `BuddyLemmas`: each list entry is a block of
  this zone whose frames are owned by that free block, each such owner is in its list,
  the buddy marks and orders of the struct pages are those of the free blocks and no
  others, counters are lengths, and no two free blocks could merge;
* `InvPcp`, `InvCalls`, `InvHeld`, `InvBoot`: the frames owned by a page list, a call, a
  held block or a boot block are exactly those it contains; the boot lists are empty
  between calls, so nothing is lost when they are replaced;
* `InvPool`, `InvBootPages`, `InvRefs`: what the struct page of a frame says, by owner:
  count, head and tail marks are clear in the pool, and in a held block the count is the
  number of holders and the tails point to the head.

Two tasks can not own one frame because `own` is a function; every step is one change of
`own`, and the lemma of its action shows that each part agrees with the new one. The
work is in `BuddyLemmas`: `FreeOne` (`__free_one_page` merges through buddies that are
free as a whole and leaves no pair behind, whichever other zones and holes are around it)
and `TakeOne` (`__rmqueue_smallest` with `expand`: the rests are aligned, marked and not
mergeable, because the buddy of each is in the part that was split off). `FreeBulk` and
`TakeBulk` carry them over `free_pcppages_bulk` and `rmqueue_bulk`, whose loops are
recursive functions, round by round: the rounds after which the claim holds are a set of
numbers that contains 0 and every successor, so a least round without it would have a
predecessor. `NoBugFires` is the reason the reference counts and marks are in the
invariant: the checks of allocation and freeing read them (`NewPageOk`, and for the merging
loop `MarkedUnreferenced`: what has a buddy mark was in the pool). The theorems are
`Invariance`, `NoBugFires`, `ListsAndMarksAgree`, `AlwaysCoalesced`, `ScanIsExact` and
`NoPageIsLost`.

`PercpuProofs` proves all five invariants of `Percpu`, for any number of pages per chunk
and bits per block, any split of the first chunk, any number of chunks and areas and any
set of requests, from `PercpuAssumption`: sizes are positive, the static and dynamic part
fit into a unit, and an alignment above the smallest divides the page size (the code
refuses others, which are no powers of two or larger than a page). The invariant `IInv`
is about the areas that somebody has, the held ones and the one that is being populated:

* per chunk, `Base`: the hints of every block are exact (`ChunkHints`), nothing is free
  below `first_bit`, the populated pages are counted;
* `ContigOk`: all that is true of the chunk's own hint, which may be too high (finding 3):
  it is in range, not 0 while a bit is free (a chunk with 0 goes to the list of full ones),
  and exact when the whole chunk is free. That no area goes wrong although the hint is
  out of date rests on the block hints;
* `EmptyOk` and `BytesOk`: no empty populated page is missing from the count, and the
  free bytes are exact;
* `MapOk`: the areas are apart and, with the hidden bits, all of `alloc_map`; the
  boundary map has no bit inside an area and one at its end (`BoundOk`). Bits left by
  earlier areas may be anywhere else; that allocation clears those under the new area is
  what makes a later free give back the right length;
* `SlotsOk`: every chunk is once in the list of its slot and in no other;
* `CallOk` and `HeldOk`: where the sleeping call is; every page of its area before the one
  it has come to is populated, and so is every page under a held area.

`AreasExact` needs the hints although it does not mention them: an area is where the
search by hints says, and `FindArea` would return bits beyond the chunk if a hint promised
too much. So the lemmas come first. `PercpuLemmas` shows what `find_next_bit` and its
relatives find, that the cases of `pcpu_block_update_hint_alloc` and `_free` leave the
hints of a block exact (`BlockTake`, `BlockFree`; the refresh loop by `Refresh`), that the
walk over the blocks meets every maximal free run of the chunk once (`NextRegion`,
`ChunkRefresh`), and that `pcpu_find_block_fit` and the search in the bitmap return only
free places inside the chunk, on populated pages for an atomic request, and in a chunk
without areas always one (`PlaceOk`). `PercpuProofs` lifts this to whole chunks
(`AllocOk`, `FreeAreaOk`, `PopulateOk`, `NewChunk`, `FirstChunk`), to the lists (`Moved`)
and to the actions. Loops are reasoned about as in `BuddyLemmas`, by the rounds up to
which a claim holds (`UpTo`). `FreeChunkAlwaysServes` is the safety half of the progress
of `pcpu_alloc`: an empty chunk, for which it starts again, can serve it. The theorems are
`Invariance`, `TypeCorrect`, `ExactAreas`, `ExactHints`, `ExactCounts` and
`FreeChunkAlwaysServes`.

`MemblockProofs` proves `MemoryAlwaysExact` (`MemoryExact`), for any address space, sizes
of the arrays, kernel image, ranges, limits and allocations, from `RangesAssumption` and
for `Flags` within {NOMAP, DMA}. The hypothesis is needed: `MEMBLOCK_MOVABLE` is 0x3, so
memory marked movable can not be told from memory marked NOMAP and DMA, and the property
is false of it (section 6). The proof looks at an array `s` as a relation, `Has(s, a, f)`:
address `a` is in a region with flags `f`. The invariant `Inv` is

* `MemArr`: `memblock.memory.regions` is the dummy entry alone, or nonempty regions in
  order and disjoint (`Arr`); nothing ends beyond `PHYS_ADDR_MAX`;
* `Says`: `Has(regions, a, f)` exactly if `a` was made memory and `f` is the bits of the
  flags it was given;
* `Dom`: the struct has its fields.

First comes what each loop does to the relation: merging changes nothing (`Merge`), the
first round of `memblock_add_range` adds what no region covers, with the new flags
(`PortionsOk`), cutting changes nothing and leaves no region across an end of the range
(`IsolateOk`), removal and flag changes hit exactly the regions inside (`KeptWithin`,
`SetFlagsOk`), the binary search finds the region of an address if there is one
(`SearchOk`; on the dummy entry, `SearchDummy`). Then, that whatever a call does to
`memblock.reserved`, and all that growing an array brings with it, leaves memory's
regions alone (`Keeps`, for each of the three depths of nesting: `GrowAny`, `AddAny`,
`RemoveAny`). So a call that had to grow an array, or failed to, changes memory exactly as
one with room or not at all (`AddMemory`, `RemoveMemory`, `FlagMemory`, `CapMemory`).
The loops are reasoned about as in `BuddyLemmas`.

Only model-checked:

* liveness (`EventuallyAcquires`, `CallsReturn`);
* the rest of `Memblock`. `NoSharing`, and with it `ReservedExact`, `FreeRangesExact` and
  `FindExact`, which build on it, fail with the constants of the run `memblock_arrays`
  (finding 1), where `MemoryExact` by the theorem does not: a theorem about them would need
  a hypothesis on how often the memory array grows. Of `WellFormed`, that memory's
  regions are nonempty, in order and disjoint is part of `Inv`; the counts are not;
* `Vmalloc` with `RbTree`: what the operators on trees compute for every input needs
  induction over trees, which is out of the prover's reach except where it can be turned
  into a least counterexample or an induction over a length.

## 5. Not modelled

* Zone setup: `free_area_init_nodes` has no caller, and could not return: the iterator
  `for_each_mem_pfn_range` (include/linux/memblock.h:285) starts a `u64` at -1 and loops
  while it is `>= 0`; `__next_mem_pfn_range` leaves it at ULLONG_MAX, and the loop body
  of `find_min_pfn_for_node` reads a `start_pfn` that was never set, for ever. A model
  of the intended loop would not be of this code.
* Slab: creation and merging of caches, `kmalloc` of more than a slab (page allocator
  calls), per-CPU partial lists (not in the build). `bootstrap` reads `s->node` of the
  zeroed copy (slub.c:1213), which fails whatever the state.
* Vmalloc: vmap blocks (nothing creates one), `set_iounmap_nonlazy` (no caller), the
  page-table functions (compiled out with `#if 0`).
* Percpu: the balance work, a reserved chunk, the layout of units over CPU groups.
* Memblock: `memblock_trim_memory` (no caller; it does not keep total_size), the
  reserved-region and pfn iterators, dumps.
* Early ioremap, page tables, fdt clipping: one CPU, straight-line code; see the plan.
* Radix tree, XArray, IDR: used by nothing modelled here.
* Text processing, assembly, device I/O, vendored code (libfdt, kconfig, dtc): nothing
  in them is a protocol, or they are not this program.
* Weak memory ordering is out of scope everywhere.

## 6. Findings

1. `memblock_double_array` frees the old array before the new one is reserved
   (mm/memblock.c:357, 364). When the memory array is outgrown a second time and that
   free needs a larger reserved array, the latter can be put where the new memory array
   is (run `memblock_arrays`). No caller in the tree grows the memory array twice.
2. `___slab_alloc` lets an exhausted slab go (mm/slub.c:810) without a new transaction
   id, against the comment at lines 895-898. An allocation that does this and finds no
   memory, in an interrupt of a free that has tested `c->page`, leaves that free to put
   its object on the list of a CPU without a slab; if the free itself interrupted an
   allocation in the slow path, that one overwrites the list and the object is lost (run
   `slub_tid`). With two levels nothing is lost: the next allocation takes it from there.
3. `chunk->contig_bits` can exceed every free run (mm/percpu.c:876, 1444), against the
   comment at 1357-1359 (run `percpu_hint`). The block hints keep the result right.

Met without a run: `put_page` (include/linux/page.h:104) puts the last reference and calls
`__free_pages`, which puts it again, against the assertion in `put_page_testzero`
(page.h:65); it has no caller and is not in the model. `MEMBLOCK_MOVABLE`
(include/linux/memblock.h:30) is 0x3, so marking memory movable makes it NOMAP (no caller;
put "MOVABLE" into `Flags` of `MCMemblock.cfg` and `MemoryExact` fails); the iterator of
zone setup, and `bootstrap` (section 5).

## 7. Plan

1. Proofs: `Vmalloc`'s address map and lazy frees, whose first step is that the search
   returns a hole, which rests on the order of the tree (`RbTree`'s `Repeat` would have to
   become a function of the round); `Memblock`'s reserved array up to the first growth.
2. `EarlyIoremap` (the slot table and its error paths), page-table construction, memory
   clipping in fdt.c.
3. A composition of `Percpu` with `Vmalloc`'s congruent areas, and of `Slub` with
   `PageAlloc`, once the boot sequence calls them.
4. Zone setup, when its iterator ends.
