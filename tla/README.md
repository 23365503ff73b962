# Formal models of the 64bit kernel

TLA+ modules that model the kernel in `../src`, TLC configurations that check
them on small instances, and TLAPS proofs for every size.  `PROJECT.json` maps
each definition to the source lines it models.

## The system

The repository is a small x86-64 kernel for one processor, with the beginnings
of an on-disk file system beside it.

| part | source | shared state | model |
|---|---|---|---|
| scheduler | `scheduler.c`, `threads.c`, `switch.S` | run queue, current thread, interrupt flag | `Sched` |
| threads | `threads.c` | pid tree, reference counts, states | `Threads` |
| sleeping locks | `locking.c`, `locking.h` | wait queues, mutex states | `Locking`, `LockingClient`, `MonitorSpec` |
| block layer | `ide.c` | request queue, bios, worker thread | `Bio` (registers abstracted) |
| interrupt dispatch | `interrupt.c`, `i8259a.c` | handlers, mask counts, masks | `Interrupts`; the timer in `Sched` |
| page allocator | `memory.c` | buddy lists, page flags | `Buddy` |
| boot allocator | `balloc.c` | two sorted pools | `Balloc` |
| slab allocator | `kmem_cache.c` | slab lists | `KmemCache` |
| page tables, kmap | `paging.c` | tables and their counts, kmap ranges | `PageTable`, `Kmap` |
| address spaces | `mm.c` | VMAs, page reference counts | `Mm` |
| program loading | `exec.c` | the address space being built | `Exec` |
| files | `vfs.c`, `ramfs.c` | entry cache, directories, file pages | `Vfs`, `RamfsFile` |
| initial file system | `initramfs.c` | none of its own | `Initramfs`, `RamfsFile` |
| red-black tree | `rbtree.c` | none of its own | `RBTree` |
| hwfs tools | `hwfs/` | block cache, B+ tree | `DiskCache`, `BTree` |
| console, formatting, C library, boot code | the rest | devices | not modelled |

How they interact: the timer interrupt and every blocking call end in
`schedule()`.  The sleeping locks block and activate threads through it.  The
block layer, the VFS and ramfs use the sleeping locks.  Every component
allocates from the slab and page allocators.  Several modules compose parts
that interact: `Threads`, `Locking` and `Bio` run on the scheduler of `Sched`, `Bio`
on the locks of `Locking`; `Exec` extends `Mm`; `DiskCache` works on the tree of
`RBTree`; `Vfs` has the operations of vfs.c together with those of ramfs.c that
they call.

## Atomicity

A spinlock of this kernel is a `cli`/`sti` pair.  A section with interrupts
disabled is therefore one action, and the timer may preempt the running thread
between any two actions taken with interrupts enabled.  Where the code reads
shared state with interrupts enabled (`__wait_thread`, the walk of
`wait_queue_notify_all`), each access is an action of its own.

## Modules

**Sched** has the state and the operators of scheduling: `current_thread`, the
thread states, `rr_active_list`, the time since the last switch, the interrupt
flag, and the flag that each thread restores when it is switched back in.
`switch_to` is the composition of `preempt_thread` and of the `place_thread`
that the *next* thread executes; that is where FINISHED becomes DEAD.
`TimerInterrupt` is `isr_common_handler` for the timer.

**Threads** extends it with `create_kthread`, `fork`, `wait`, `exit`,
`put_thread` and `release_thread`.  A thread has a program counter and the
`target` its call works on.  The pid tree is the set `threads`.  Objects are
memory: a released one is handed out again, so stale pointers show.  Whether
`copy_mm` fails is a free choice; an allocation that fails changes nothing.

**Locking** has the steps of `mutex_lock`, `mutex_unlock`, `condition_wait`,
`condition_notify` and `condition_notify_all`.  A queue of wait_heads is a
sequence of threads.  `parked` is the window between the `sti` of a wait and
the return of its `schedule()`.  `frame` says whose `condition_wait` a thread is
in, so that the lifetime of a wait_head on a stack can be stated.

**LockingClient** runs threads that use mutexes and conditions in every way the
kernel does.  **MonitorSpec** is the abstract specification: a monitor with one
thread inside and waiters woken first come first served.

**Bio** composes Locking with the request queue: clients allocate, submit, wait,
read the status and free; the worker dequeues, handles and finishes.  A disk
transfer is a free choice of success or failure, and fails when the length is
not a whole number of sectors.

**Interrupts** has one thread that registers and unregisters handlers.  Its
update of `pic_irq_mask` is a load, a store and an `out8`, and the interrupts of
open lines fall between them.  A handler runs with interrupts disabled, and
`LeaveIsr` restores what `EnterIsr` changed.  In the kernel only `setup_time`
registers a handler, so one registering thread is the general case.

**Buddy** cuts the boot allocator's regions into nodes at the end of low memory,
releases the free regions block by block, and serves callers that walk the nodes
of `__alloc_pages`.  Each step on a node is under its lock.

**Balloc** follows `setup_memory`: regions are added, then reserved, then
allocated.  Both bisections are modelled as in the code.

**KmemCache** has a cache of large objects and its caches of slab descriptors and
tags.  The nested calls are part of the action.  The two chains of a descriptor
are not initialised by the code; their content is a free choice between what the
memory can hold, and `wild` records a walk past the end of a chain.

**PageTable** names a table by the slot that holds it.  `pt_populate` and
`pt_release` follow the three levels with their counts and their failures, and
`pt_iter_next` is the loop over slots.

**Kmap** keeps the array of boundary tags, the links and the free lists as the
code does.  A tag inside of a range keeps its old value.  `kmap` and `kunmap`
are one action each, although the code takes no lock.

**Mm** has one thread per address space, with a step per access to shared
counts.  `get_page` and `put_page` are a load and a store, as the Makefile
compiles without optimisation.  When another thread's update falls between the
two, `raced` is set and the behaviour ends: the counts are then wrong in a way
the code has no remedy for.  `UsedAsSlab` gives free pages the stale count that
`copy_page` does not reset.  **Exec** adds `exec` with a failure possible at each
step; a thread that fails an assertion is `stuck`.

**Vfs** has a step for what runs under a directory's mutex or a spinlock.
`vfs_entry_put` is its two halves.  Three things the code does not handle end a
behaviour, recorded in `fault`: `uaf`, the first half of a put goes on with an
entry that a second put has freed; `null`, an entry that a failed create left in
the cache without a node is followed; `stale`, `unlink` or `rmdir` removes a name
that now belongs to another node.  The properties are about the states before.
An allocation of an entry (`Spare`) gives any free one, or fails.  `unlink` and
`rmdir` of the root end in an error, as its parent has no such operation.

**RamfsFile** has the pages of one file, several openers, and the loops of
`write_file` and `read_buf`.  **Initramfs** is the loop of `parse_cpio` over every
archive of a set, cut off at every byte.  **RBTree** is the tree with a direction
as a parameter where the code is written twice.

**DiskCache** has the cache, its LRU list and its tree.  `disk_get_block` finds
the place for a block before `disk_alloc_block` may evict another; when the place
is no longer the right one `misplaced` is set and the behaviour ends.  **BTree**
has insertion into a leaf.  When the leaf is full, `btree_grow` makes a root whose
first child is itself, and `btree_insert` does not return.  The code after that
point is never executed.

## Runs

| run | instance | shows |
|---|---|---|
| `threads` | 3 threads, 4 pids, HZ = 100 | `RunQueueExact`, `NoUseAfterFree`, `RefcountExact`, `AssertsHold`, `Preemptible` |
| `threads_live` | 3 threads, 3 pids, HZ = 10 | `ReadyRuns`, `WaitReturns`, `DeadIsReaped` |
| `locking` | 4 threads, 2 monitors, HZ = 10 | `RunQueueExact`, `MutualExclusion`, `NoLostWakeup`, `BlockedIsQueued`, `WaitHeadLive`, `ImplementsMonitor` |
| `locking_live` | 3 threads, 1 monitor, HZ = 10 | `LockProgress`, `NotifiedWakes` |
| `bio` | worker, 3 clients, 2 bios, HZ = 10 | `NoUseAfterFree`, `ServedOnce`, `StatusRead`, `WaitHeadLive`, `WorkerNotified` |
| `bio_live` | worker, 2 clients, 2 bios, whole sectors, HZ = 10 | `RequestAnswered` |
| `allocators` | see below | `BuddyExact`, `BallocExact`, `WindowExact`, `SlabsExact`, `TablesExact`, `SlotsCover` |
| `address_spaces` | see below | `CowIsolation`, `PagesCounted`, `NothingLeftBehind` |
| `vfs` | 2 threads, 2 entries and 2 nodes beside the root | `EntriesCounted`, `CacheCoherent` |
| `structures` | see below | `RedBlack`, `IterationExact`, `FileIsBytes`, `NothingLost`, `LeafExact`, `Extracted`, `InterruptsExact` |
| `munmap_assert` | as `address_spaces` | violates `MunmapAligned` |
| `vfs_cached_mux` | as `vfs` | violates `CachedUnderMux` |

`allocators`, `address_spaces` and `structures` each check several independent
models: the variable `part` chooses one at the start and the others rest.

Bounds.  With HZ = 100, the kernel's value, a thread is preempted on its third
tick; with HZ = 10 on every tick, which is the adversarial case and removes the
tick count from the state.  Three threads are enough for a thread with two
waiters.  `MaxPid` exceeds the number of objects in `threads`, so that an object
is reused under a new pid; once the pids are used up the threads still wait and
exit.  Two monitors let a notification for one meet waiters of the other, and
four threads let a notify_all with two waiters meet a thread that barges in.  In
`bio` there are fewer bios than clients, so that bios are reused.  The liveness
runs use no symmetry.

* `allocators`.  Buddy: six pages, of which two are above the end of low memory
  and one is reserved; three orders, two callers.  Balloc: 7 addresses, 4 calls,
  so that an area can touch two others and be split again.  Kmap: 5 slots, two
  orders, so that a list holds ranges of different lengths.  KmemCache: 5 pages,
  two objects, two descriptors or three tags per slab, so that tags of one large
  slab come from two pages.  PageTable: tables of two slots, four levels, pages
  3..11, 8 pages of memory: populating fails at every level.
* `address_spaces`.  Three address spaces, three addresses, two pages beside the
  zero page.  *cow*: map, write, fork and exit, with areas of the first page only.
  *exec*: fork and exec, of programs whose segment is aligned at both ends, at one,
  at the other, has nothing in the file, or is one of two.  *areas*: one address
  space, whose areas are cut.
* `vfs`.  The paths are a name, a name in a directory, a way through `..`, and one
  that ends with `..`, which the operations that make a name take for a name;
  `LEAKS` bounds the references to one entry that failed creates forget.
* `structures`.  Nine keys give red-black trees on which every case of
  `rb_erase_fix` occurs; two openers and files of three pages of two bytes; a
  cache of two of four blocks; leaves for up to six values, with data of 0, 1 or
  2 bytes; archives of up to two members and the trailer, whose names and files
  end on, before and after a multiple of four; two lines on the first interrupt
  controller and one on the second.

Fairness.  The timer ticks and `idle()` is executed: weak fairness.  For a
thread in the middle of kernel code: strong fairness of its next step.  It can
take that step only while it has the processor, which preemption takes away
again and again, but a time slice is many instructions long.  Nothing is assumed
of when threads make calls.

Deadlock is checked in the runs of `threads`, `locking` and `bio`.  The others may
stop: at a bound, when nothing is left to do, or where a flag of the model ends a
behaviour (`raced`, `fault`, `misplaced`, `wild`).

What the runs do not promise: two threads that wait for the same pid.  One reaps
it; the other, if it is in the loop of `__wait_thread` at that moment, sees
REAPED and never DEAD again and keeps yielding.  `WaitReturns` states exactly
this exception.  `wait` on the own pid behaves likewise.

Every property has a mutant: a plausible bug in a mapped definition that TLC
finds to violate it.  The mutants stand next to the definitions they change.

## Proofs

For any finite set of threads, any HZ, any number of monitors, bios, interrupt
lines, kmap slots, address spaces, addresses and pages, any size of pages and
files of ramfs, and any entries, nodes, names and paths of its directories.  The assumptions are the named ASSUMEs:

* `Sched`, `Threads`, `Locking`, `Bio`, `Interrupts`, `Kmap`: the distinguished
  values are distinct, `HZ` and `MaxPid` are naturals, `Thread` is finite, the
  monitors of `Bio` are the queue's and the bios', the window and its orders are
  not empty.
* `Mm`: address spaces and addresses are finite sets, the addresses are page
  numbers from 0 on, and the zero page is a page.
* `Exec`: programs are well formed, as the linker makes them: no segment has more
  bytes in the file than in memory, and all lie in the address space.
  `load_binary` relies on it without a check.
* `Vfs`: threads and entries are finite sets, no path is empty, and the value for
  "nothing" is none of the others.
* `RamfsFile`: pages and the longest file are not empty, and data are bytes.

The results, module by module:

* **SchedProof**: lemmas on sequences without repetition, and what `schedule`
  and `TimerInterrupt` do to the run queue.
* **ThreadsProof**: `[]TypeOK`, `[]RunQueueExact`, `[]RefcountExact`,
  `[]NoUseAfterFree`, `[]AssertsHold`, `[]Preemptible`.  `RefcountExact` alone is
  not inductive: dropping the last reference is safe only because a creator is
  alone with an unregistered thread (`Creating`), one waiter of a dead thread
  gets to erase it (`Reaping`), pids are distinct (`Pids`), and a count of zero
  is seen by one thread (`Releasing`).  `Flags` adds that every thread that can
  be switched to restores an enabled interrupt flag.  It also follows that
  `put_thread` in `reap_thread` never releases: the waiter has a reference.
* **LockingProof**: `[]TypeOK`, `[]RunQueueExact`, `[]MutualExclusion`,
  `[]NoLostWakeup`, `[]WaitHeadLive`, `[]BlockedIsQueued`.  The inductive
  invariant says for each queue who is in it (`MutexQueues`, `CondQueues`,
  `Walks`) and that every sleeper is reachable (`SleepersReached`).
  On top of it `Spec => ImplementsMonitor`: each step is mapped to a step of
  MonitorSpec or a stutter; the walk of notify_all is invisible.
* **BioProof**: `Spec => LC!Spec`, the block layer is a client of
  the locks.  The mapping takes the program counter of a thread in `ide.c` to its
  place in the lock operations (`LockPc`) and to the monitor it is at (`LockAt`).
  Each step of Bio is then a step of LockingClient or leaves the locks alone, and
  the invariant of LockingProof holds of the locks of the queue and of the bios,
  though their memory is freed and reused.  On top of it, `BioInv` says who owns a
  bio: a client alone (`Owned`), the queue or the worker (`Queued`), and whether
  it is answered (`Answered`).  `Reporting` is what makes freeing safe: while the
  worker is in `finish_bio` of a bio, its client has not got past `bio_wait`,
  because the worker holds the mutex.  From it: `[]NoUseAfterFree`,
  `[]ServedOnce`, `[]StatusRead`, `[]WaitHeadLive`, `[]WorkerNotified`,
  `[]TypeOK`.
* **MmProof** and **ExecProof**: `[]CowIsolation`, `[]PagesCounted`,
  `[]NothingLeftBehind`.  None of them is inductive.  The invariant `IInv` has one
  part that also holds after a lost update: who works on whose address space
  (`Owned`: a fork's child, the address space exec builds and the one a release
  takes apart belong to one thread), areas and entries (`Areas`), and what each
  operation in progress knows (`OpInv`).  `FaultInv` says that the old page of a
  fault stays the one in the table until it is replaced, `ForkInv` which pages
  `copy_vma` has yet to share, `ExecInv` how far a segment is loaded.  The other
  part, `PageInv`, holds until an update is lost: a writable entry is the only
  one of its page (`WriteInv`), a page that a fault has copied belongs to no other
  thread until it is mapped (`ReadyInv`), counts are exact (`Counted`), pages hold
  what was written (`SameContent`) and a fork's child sees what its parent does
  (`Blank`).  Isolation needs all of it: a write reaches nobody else because the
  entry is the only one, which holds because counts say when the last sharer is
  left.  MmProof has the steps of `Mm` up to fork; the rest of them, the steps of
  `Exec` and the theorems are in ExecProof.  What they need of finite sets is the
  operator `FiniteSetFacts`, which the lemmas assume and ExecProof proves from the
  library.
* **StructuresProof**: `[]InterruptsExact`.  `InterruptsExact` speaks of the masks
  when the thread is idle; the inductive invariant adds what the mask, the
  controllers and the value the thread has read are in the middle of a change
  (`MaskInv`).  The value stays good because an interrupt restores every bit that
  it changes.

  And `[]FileIsBytes`, for a ramfs file.  The invariant adds that what
  `write_file` has left to write ends within the bound (`Room`).  The argument is
  the arithmetic of `ramfs_write`: the bytes of one call lie in one page, so an
  offset is one of them exactly if it has that page's index and its place in the
  page is in the range copied (`InPage`).

  And `[]WindowExact`, for the kmap window.  The shape of the tiling is kept apart
  from the tags, links and lists that record it.  That each range but the first has
  one in front of it has to be part of the invariant (`WindowInv`): `kmap_free_range`
  finds its predecessor through the tag in front of it, and the tiling, which goes
  upwards, does not say that this tag is a current one.  `Loose` is the state in the
  middle of `kmap_free_range`, when a range is neither free nor used.
* **VfsProof**: `[]EntriesCounted`, `[]CacheCoherent`.  Neither is inductive, and
  each needs the other: an entry can be given up because its count is exact, and it
  is counted under the right parent because the cache is a tree.  The invariant has
  three parts.  `Counted` takes the counts as they are kept: what an entry's count
  has beyond its children (`Own`) is what the threads hold (`Uses`, summed over the
  threads) and what was forgotten, so that a step is accounted for by what it does to
  one thread and one entry (`CountStep`).  `Stages` says what each thread holds at
  every step of its operation, above all that an entry it is at has a node where
  the code follows it, and that what it has to put fits in the three places that
  `Holders` counts.  `Tree` says of entries, nodes and directories that every parent
  is in use and has a node (`Named`), that a name has one cached entry (`OneName`),
  with the node of the directory (`Agree`), that a directory has one name and one
  entry (`OneDir`, `OneEntry`), and that an entry taken out of the cache by `rmdir`
  leaves a directory which no name leads to (`Detached`).  The invariant is claimed
  until `fault` is set: `IInv` is the implication.  As in MmProof, what is needed of
  finite sets is an operator `FiniteSetFacts`, which the lemmas assume and which is
  proved from the library at the end of the module.

Only model-checked:

* every liveness property: fairness is outside of the prover's reach;
* `KmemCache`, `PageTable`, `RBTree` and `DiskCache`: recursive operators, which the
  prover does not support;
* `Balloc`, `BTree` and `Initramfs`: their properties rest on what a recursive
  function (a bisection, a sum, a walk) computes, and the prover has no induction
  over data;
* `Buddy`: not attempted, its blocks are powers of two of any size.

## What was found

* `munmap_assert`.  When a segment cannot be loaded, `map_elf_phdr` unmaps it with
  the unaligned addresses of the program header, and the thread hangs in the
  assertion of `mm.c:413`.
* `vfs_cached_mux`.  `vfs.h:130` says that `cached` is protected by the mutex of the
  parent's node; `vfs_entry_put` clears it without.  The `uaf` behaviours of `Vfs`
  come from this.

Other behaviours met while modelling, which no line of the repository contradicts,
are for the most part hazards in `PROJECT.json`: lost updates of page counts, an entry
left in the cache by a failed create, names removed through a stale entry, the
misplaced block of the block cache, the B+ tree's root that is its own child, the
uninitialised chains of a slab descriptor, the sector bits 24-31 that the disk
never gets, the interrupt lines from 8 on that are never delivered.

## Not modelled

* Mounting, unmounting and the registration of file systems, and the reading of
  directories (`vfs_readdir`, `ramfs_iterate`).  The kernel mounts one file system
  at start.
* Node counts of ramfs: `ramfs_node_create` takes a reference that nothing
  returns, so nodes are never freed.
* The IDE registers and the data transfer; `Bio` has only the outcome.
* Overlapping calls of `kmap`, lost updates of page counts and what follows them,
  and what follows the other events that end a behaviour.
* `kmem_cache_create` and `kmem_cache_destroy`: caches are made at start and none
  is destroyed.
* TLB flushes, large pages, and the layout of page table entries.  `__munmap`
  flushes nothing; that is below the level of this model.
* B+ tree splitting and inner nodes, which no execution reaches, and `mkfs`, a
  fixed sequence of insertions into one leaf.  Failing writes in
  `release_disk_io`, whose results the code ignores.
* Console, serial line, formatting, string functions, the multiboot parser and
  the boot code: output, pure functions on bytes and code that runs once.  ELF
  header checks and the layout of arguments in `exec.c` likewise.
