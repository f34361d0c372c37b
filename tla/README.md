# A TLA+ model of NowOS

NowOS is a small 32-bit x86 kernel with a multi-core preemptive scheduler. This directory
holds TLA+ modules that model its core, TLC configurations that check them on small
instances, and TLAPS proofs for every value of the constants. `PROJECT.json` is the index:
which lines each definition models (`map`), the runs, a faulty variant for every property
that a run checks (`mutants`), what the runs found (`findings`), what can go wrong in this
code (`hazards`), and the theorems.

## The system

| Part | Source | Concurrency | Module |
|---|---|---|---|
| Scheduler, context switch, timer interrupt, spinlock | `kernel/scheduler.c`, `kernel/thread.c`, `kernel/lock.c`, `arch/thread_switch.s`, `arch/irq*.{c,s}` | CPUs against each other and against their own timer | `Scheduler`, `RoundRobin` |
| Shared pool | `klib/shared_pool.c`, `arch/atomic.c` | lock-free | `SharedPool` |
| Linked list | `klib/linked_list.c` | under `sched_lock` | `LinkedList`, `ListContents` |
| Kernel heap and its free list | `kernel/kheap.c`, `klib/sorted_array_list.c` | under the heap's lock | `Kheap`, `SortedArrayList`, `Allocator` |
| Byte index list | `klib/byte_index_list.c` | under its callers' locks | `ByteIndexList` |
| Page heap | `kernel/kheap.c` | under the list's lock | `PageHeap` |
| Physical memory manager | `kernel/mm.c` | under the table's lock | `mem_alloc_region` in `ByteIndexList` |
| Early heap | `kernel/kheap.c`, `boot/boot.s` | boot processor only | `EarlyHeap` |
| Page directory and page tables | `kernel/paging.c`, `kernel/mm.c` | boot processor only | `Paging` |
| ACPI tables | `kernel/acpi.c` | boot processor only | `Acpi` |
| Start of the other processors | `arch/smp.c`, `boot/boot.s`, `arch/processor.c` | boot processor against the APs | `Smp` |
| I/O APIC routing | `arch/apic.c` | boot processor only | `IoApic` |
| Boot sequence | `kernel/kmain.c` | the APs run beside it | `Boot` |
| Interrupts and exceptions | `arch/irq_handle.c`, `arch/irq.s`, `arch/idt.c`, `arch/machine.c` | devices and exceptions against handlers | `Trap` |
| Registers across a switch | `arch/thread_switch.s`, `kernel/scheduler.c` | threads move between CPUs | `ContextSwitch` |
| Terminal and `kprint` | `kernel/tty.c`, `kernel/kprint.c` | unlocked | `Terminal` |
| Circular buffer | `klib/circ_buf.c` | under its callers' lock | `CircBuf`, `BoundedQueue` |
| Descriptor tables, port I/O, PIC, PIT, strings, tests | see `PROJECT.json` | none | not modelled |

`kmain` sets up memory, starts the other processors, and enters `scheduler_init`; each
application processor gets there through `init_ap` and `ap_kmain`. Thread control blocks
come from a shared pool, thread stacks from the page heap, the nodes of `ready_list` from
the list's own shared pool, and the pools' memory from the kernel heap.

## The modules

**Scheduler.** Each CPU has a program counter `pc`; a step is the code between two points
where another CPU or a timer interrupt on the same CPU can make a difference. `intr` is
where the timer interrupted. `sched_lock`, `ready_list`, `scheduler_ready`, `state`,
`is_active`, `in_scheduler`, `current_thread`, `from_thread` and `to_thread` are the
variables of the code. `context` reduces a thread's saved `cpu_state` to where it resumes.
`stack` says whose stack a CPU executes on. After the lock is released, `thread_switch_sync`
and `thread_switch_async` read `to_thread` again from the stack of a thread that is already
in `ready_list`; if another CPU has entered that stack, it is `smashed`, what is read is
anything, and the model stops there (`undefined`). Before that point both outcomes are
possible, since the other CPU need not have written to the words that are read.
The boot processor may queue any number of worker threads, where the code queues one.
`RoundRobin` is the abstract scheduler: a FIFO and a running thread for each CPU. A switch
takes effect when the thread is pulled; `readyBar` and `runningBar` are the mapping.

**SharedPool.** One action for each access to the bitmap in `set_next_index`,
`shared_pool_get_next` and `shared_pool_free_entry`. The compare-and-exchange compares a
word, as the code does. `lost` and `free_since` are auxiliary.

**LinkedList.** The nodes and pointers of the list, a call for a step. `ListSpec` has the
calls that add at the back and remove anywhere; `AnyListSpec` has every call. `ListContents` is the
sequence that the list stands for.

**Kheap.** The block headers in memory and the array of free blocks, with its binary
search, in 4-byte words. `Spec` has every call up to an expansion that starts from a
`heap_list_end_ptr` that is not the last block; `AnySpec` goes one step further, to the
overlap this causes. A freed header stays in memory, and the model keeps it while
`heap_list_end_ptr` points at it. `heap_split_node` reads a header that was never written;
what it finds there is a nondeterministic choice. The heap's own check,
`check_kheap_integrity`, is an operator over the headers. `Allocator` is the abstract allocator.

**ByteIndexList, PageHeap.** The bitmap as the set of its set bits, and `free_ptr`;
`table_size` is the list's `size`, and `holders` (auxiliary) counts the callers that have
each slot, so that a slot given twice is seen. The page heap instantiates the list with the size that
`init_page_heap` passes.

**EarlyHeap, Paging, Acpi, Smp, IoApic, Boot.** `Boot` is `kmain`, a call or a page at a
time, over the state of the other five; `boot` is the call it is at, and `fw` the machine.
`EarlyHeap` records who was given which bytes (`grants`, auxiliary). `Paging` keeps the
directory and the tables as pages of that heap. `Acpi` folds the entries of the MADT into
what the kernel keeps of them, with its limits. `Smp` interleaves the loop of `init_smp`
with the APs; a CPU may be missing and a STARTUP may be lost. `IoApic` is the redirection
table, pin after pin. An ACPI table in an unmapped page is a page fault, and so a PANIC.
`mem_alloc_region` sets a bit for the RSDT without looking at the size of the bitmap; if
the bit falls into memory that someone else was given, boot stops as `undefined`.

**Trap.** One processor: the requested and the in-service interrupts of its local APIC, the
interrupt and the exception being handled, and the thread's interrupt flag. The handlers
are grouped by what they do at the end: send an end of interrupt (`irq_handler`), send it
and enter the scheduler (`lapic_timer_handler`), neither (`default_handler`), stop or
return from an exception (`exception_handler`). Every gate is an interrupt gate: nothing is
accepted while a handler runs. The local APIC itself is external.

**ContextSwitch.** For each register of `cpu_state`, whether it is the thread's own value of
the moment it left, an old one, or another thread's. `Scheduler` has the order of threads;
here any ready thread may come next.

**Terminal.** `kprint`'s lock is commented out, so a step is one load or store of the
cursor, of `log_count` or of the number buffer. A message is a number, a character and a
newline. `overlapped` and `garbled` are auxiliary.

**CircBuf.** A call for a step, for entries as wide as a pointer (`buf` is `void **`
whatever `type_size` is). `BoundedQueue` is what it implements.

`MCKernel` puts `Boot`, `Trap`, `ContextSwitch`, `Terminal` and `CircBuf` side by side: they
share no state, so `part` picks one that moves while the others rest. `MCStorage` does the
same for `Kheap`, `ByteIndexList`, `SharedPool` and `LinkedList`.

## The runs

| Run | Result | What it shows |
|---|---|---|
| `scheduler` | pass | lock exclusion, and none uses `ready_list` before `scheduler_ready`, no thread lost or duplicated, queued threads are saved, no ASSERT fails, a CPU hangs on itself only in bring-up, stacks are shared only in a switch, the round robin is implemented, ready threads run |
| `scheduler_stack` | `StackExclusive` violated | the old stack is used after it was given away |
| `scheduler_boot` | `NoSelfDeadlock` violated | a tick between `timer_lapic_start` and `scheduler_leave` hangs an application processor |
| `storage` | pass | heap: blocks tile it, the free list is exact, neighbours are merged, an allocator is implemented; bitmap: no clear bit is missed, a held slot stays marked and has one holder; pool: no object handed out twice, NULL only when it is true, overrun only after a lost race; list: both chains and the pool of nodes agree, a sequence is implemented |
| `shared_pool_range` | `IndexInRange` violated | a lost race is not counted and the scan overruns the last object |
| `linked_list_push` | `PushedAtFront` violated | push goes behind the first node |
| `kheap_overlap` | `BlocksDisjoint` violated | an expansion after a merging free gives overlapping blocks |
| `kheap_integrity` | `IntegrityHolds` violated | after an expansion `check_kheap_integrity` reports a sound heap as damaged: the new block's size includes its header |
| `page_heap` | `PagesInHeap` violated | pages after `page_heap_top` are handed out |
| `early_heap_static` | `StaticStorageKept` violated | the stacks of the APs are given memory in which `free_node_list` lies |
| `context_registers` | `ResumesAsFromInterrupt` violated | a preempted thread comes back with another `esi` and another thread's flags |
| `kernel` | pass | boot: memory of the early heap is shared only with `free_node_list`, and then only by stacks, pages beyond its top are not handed out without a warning, mappings stay, every AP has its own stack, the BSP waits for the right CPU, interrupts are routed as listed, boot ends or is in one of the waits and stops that `BootEnds` names; interrupts: only `default_handler` leaves one in service, an end of interrupt dismisses the handler's own or, from `spurious_handler`, what `default_handler` left, a timer interrupt that is requested is taken unless the processor takes no more interrupts at all; switches: a preempted thread loses no register but `esi` and `eflags`; printing: nothing is garbled unless two printed at once; the circular buffer is a queue |

Some of these say how far a violated promise still holds: `Tiled` beside `IntegrityHolds`,
`SharedOnlyWithFreeList` and `OnlyStacksUnderFreeList` beside `StaticStorageKept`,
`PreemptedResumesIntact` beside `ResumesAsFromInterrupt`, `OverrunOnlyAfterLostRace` beside
`IndexInRange`, `SelfDeadlockOnlyAtBoot` beside `NoSelfDeadlock`, and
`StackSharedOnlyInSwitch` beside `StackExclusive`. `OverrunIsReported` is about
`early_kmalloc_pages`; the bitmap of the physical memory manager, which is taken without it,
can pass the top of the early heap in silence. `GarbledOnlyAfterOverlap` allows whatever two
printers at once do to the screen, since the lock of `kprint` is commented out.

Bounds. Two CPUs, their idle threads and up to two workers: a thread can be preempted,
queued behind another, and resumed on the other CPU. Two clients of the pool, more bits
than objects, and more than one word, so that full words, the last partial word and lost
races occur. Four list nodes and two data. The heap has room for two expansions, sizes
that leave a remainder above, at and below the split threshold, and a free list that two
blocks fill, so that insertions fail. The table has three bytes of three bits (a byte of
eight in `page_heap`), and regions of at most `RegionMax` pages, one of which can cross
the end of the table.

In `kernel`, pages of 4 bytes and tables of 8 entries keep the proportions of the real
layout: with the usual machine the early heap is exactly full after `init_smp`, as it is
with 128 MB and four CPUs. The machines vary memory (a bitmap that is smaller, larger than
the early heap has room for, larger than the early heap), the pages of the ACPI tables, the
checksums, the id of the boot processor, the list of CPUs (shorter and longer than
`MAX_CPU_COUNT`, the BSP first, in the middle, and cut off; ids at the limit), missing CPUs,
and up to two overrides of distinct sources onto distinct pins, of four. One I/O APIC
is routed, the last in the table, as `acpi.c` keeps the address of one. `FirmwareAssumption`
says of the tables, before they are parsed, that there is one MADT at most, with both APICs
in one page table (as in every PC), and that neither the RSDT nor the APICs are at a physical
address between 3 GB and 3 GB + 6 MB, where the identity mapping would replace the kernel's
pages.
`Trap` has a source that is acknowledged, one on the second PIC, one that is left to
`default_handler`, and the timer, and all 32 exceptions. Two CPUs and three threads switch.
Two printers write two messages to a screen of two by two, which wraps and scrolls. The
buffer has three slots.

Deadlock is not checked where the code can stop: a PANIC, a full pool, a smashed stack,
the end of boot. `storage` and `kernel` have parts that stop.

Fairness. `FairSpec` asks that a CPU that can take a step takes one (weak fairness of
`CpuStep`), and that an unmasked periodic timer ticks (weak fairness of `TimerInterrupt`).
`sched_lock` is a test-and-set lock: no CPU is promised to win it. `ReadyThreadRuns` holds
nevertheless, because every CPU serves the same FIFO.

In `kernel` the BSP and each AP take the steps they can (weak fairness of `BspMoves` and
`ApMoves`); a STARTUP may still be lost, and `BootEnds` names the wait that this leaves.
That is all that is assumed of the code. Of the local APIC and the processor it is assumed
that a processor that takes interrupts again and again takes the highest one that waits
(strong fairness of `Deliver` for the timer). Nothing is assumed of a thread that has turned
interrupts off or of a handler: `scheduler_yield` waits for `sched_lock` with interrupts off,
`scheduler_async_enter` waits for it in the timer's handler, and no CPU is
promised to win the lock. `TimerSurvives` therefore excepts a processor that takes no interrupts
from some moment on.

## The proofs

Every safety property, action property and refinement of a passing run is a theorem, for all
values of the constants that the named assumptions allow. `StorageTypeOK` is the conjunction
of four type invariants, each a theorem of its own (`HeapTypes`, `TableTypes`, `PoolTypes`,
`ListTypes`).

`SchedulerProofs` (any set of CPUs and threads, from `CpuAssumption`, `ThreadAssumption`,
`IdleAssumption`). The inductive invariant `IndInv` joins the properties with: which CPU may
be in bring-up (`BootInv`), where interrupts are on and in_scheduler set (`InterruptInv`),
what a switch's locals mean (`LocalInv`), that `state`, `is_active`, `ready_list` and the
CPUs agree on every thread (`PlaceInv`), that whatever is to be resumed has a context
(`ContextInv`), and whose stack a CPU is on (`StackInv`). The last four are what no
property says by itself: without them a step could pull a thread another CPU still has.
All invariants of the run `scheduler` follow, and `Refinement` proves the round robin.

Three more theorems say what the scheduler and the list are to each other. `MutualExclusion`
covers the boot processor too, which queues threads without the lock before it sets
`scheduler_ready`; so no two CPUs are in code that calls `linked_list.c` on `ready_list` at
once (`ListCallsExclude`), which is what lets `LinkedList` take a call as one step.
`ListUsedAsPromised` proves that `ready_list` only ever changes as `ListContents` allows, the
specification that `LinkedList` is proved to implement. And no thread overtakes another in
`ready_list`, across all CPUs (`FirstInFirstOut`), which is the safety half of
`ReadyThreadRuns`.

`LoopProofs` has what the proofs about loops share. The library's induction rules take an
operator, which the provers cannot instantiate; here induction is about a set of numbers
(`Induction`, from the well-founded order `Below`), and `Iteration` and `Recursion` say that
the function which gives the state of a loop after each pass exists and does what its
definition says.

`KheapChainProofs` and `KheapProofs` (any heap of at least two expansions, any expansion
larger than a header, any list of two entries or more and any sizes, from `HeapAssumption`).

- The binary search finds an item that is in the list within the passes that the loop makes,
  and inserting and removing keep the order (`SearchFinds`, `InsertKeepsOrder`,
  `RemoveKeepsOrder`).
- The walk from `heap_bottom` along `next` meets the blocks of a chain and no others
  (`WalkIs`). A block that is split off, merged or added leaves a chain in which both links
  of every block are right (`CarvedChain`, `AbsorbedChain`, `GrownChain`).
- `HeapInv` says that between two calls the headers form one chain up to the end of the heap,
  `free_node_list` lists free blocks of the chain, and all of them unless an insertion into
  the full list has failed, no two free blocks are neighbours, callers hold blocks in use
  that are large enough, and `top_heap_ptr` is a number of expansions above `heap_bottom`.
  Within a call this holds but for the block at hand, which `Listed` and `Apart` name.

The invariants of the heap in the run `storage` follow, and that the heap implements the allocator.

`KlibProofs` is about three data structures of klib.

- `ByteIndexList` (any table, from `TableAssumption`). The invariants are inductive together.
  That a slot has one holder (`HeldByOne`) needs that a held slot is marked, and that the
  search takes a clear bit.
- `SharedPool` (any clients, objects and word size, from `SizeAssumption`). A scan has passed
  exactly as many bits as it counted plus the races it lost (`Counted`), and what it passed
  without losing a race was taken at some time in the call (`Seen`).
- `LinkedList` (any finite pool and any data, from `NodeAssumption`). `LinkInv` says that
  `size` counts the nodes in use, and that there is a path through exactly these which
  `next_ptr` follows forwards and `prev_ptr` backwards. A loop over the list meets the nodes
  of the path (`PathIsFollowed`). Each call gives a new path: longer by one, without a node,
  or rotated. `WellLinked` follows, and that the list implements the sequence.

`KernelPartsProofs` is about four parts of the kernel.

- `Trap` (any sources, from `TrapAssumption`). The interrupt being handled is the highest in
  service, and everything else in service is stale; so an end of interrupt dismisses the
  handler's own (`EachHandlerItsOwn`).
- `ContextSwitch` (any processors and threads, from `ContextSwitchAssumption`). What is saved
  of a thread agrees with how it left, and no two processors have the same thread.
- `Terminal` (any screen, printers and number of messages, from `TerminalAssumption`). Unless
  two have printed at once, the cursor, the count and the number buffer are where the steps
  of the one printer left them (`ScreenInv`). However many print at once, `log_count` is
  never ahead of the messages (`CountBehindMessages`). That is not inductive: what a printer
  has loaded and not yet stored counts too, so `CountInv` leaves room for every printer that
  has yet to count its message.
- `CircBuf` (any size and entries, from `CircBufAssumption`). The slots from `curr_index` on,
  around the end, are distinct, so that a push changes no entry in the queue.

`BootProofs` is about the boot sequence and three parts of it.

- `EarlyHeap` (any users, sizes and order of calls, each user once, from
  `EarlyHeapAssumption`). Whatever was given away but `free_node_list` ends at or below
  `early_heap_ptr` (`AreasBehindPtr`), and what is given next starts there or above.
- `Smp` (any ids and any `MAX_CPU_COUNT`, from `SmpAssumption`; which CPUs are listed and
  present is arbitrary). Only the CPU that the loop is at can be started and not counted
  (`OneAtATime`), the CPUs after it in the list have no stack (`RestHasNone`), stacks are
  distinct and below `ap_cpu_id` (`SlotsBelowCount`), and while the BSP waits `ap_cpu_id` has
  caught up with `active_cpus` exactly when the current CPU has counted itself
  (`CountBehindLoop`): this is why the number that the BSP waits for identifies the CPU.
- `Acpi` (any tables, from `FirmwareAssumption`). The assumption is about the tables as the
  firmware has them: any number of tables, one MADT at most, and in it any entries in any
  order, as long as a CPU is listed once, sources and pins of the overrides are distinct,
  and the registers of the local APIC and of the last I/O APIC share a page table outside
  the kernel's (`SoundMadt`). `AcpiParsed` proves, by induction over tables and over entries,
  what the rest of boot needs of what was found: at most `MAX_CPU_COUNT` ids, all different,
  and overrides that are still one to one although the table of overrides may have cut some
  off.
- `Boot` (any machine and layout, from `PagingAssumption`, `IoApicAssumption`,
  `BootAssumption` and `FirmwareAssumption`). That `kmain` uses the early heap as `EarlyHeap`
  says is a refinement (`BootUsesEarlyHeap`), and so the theorems about it hold of boot. It
  needs that each user comes once (`OnceEach`), which for a page table needs that its
  directory entry was absent, and so the page tables: the directory and the tables are
  distinct pages below `early_heap_ptr`, each entry has a table of its own, and a page is
  mapped to its target or not at all (`PagingInv`). What was taken before `init_kheap` ends
  where `free_node_list` starts, or before (`BelowList`). The redirection table that the
  loop over the interrupt sources makes is shown, by induction over the passes, to be the
  one that gives each pin its override (`Routed`). The processors are where `Smp` says, and
  rest until `init_smp` (`ProcessorsInv`).

`KernelProofs` is about `MCKernel`. Each part makes only steps of its own specification
(`EachPartIsItself`), so every theorem about a part holds of the whole, and `KernelTypeOK`
follows from the parts' invariants (`KernelTypes`). For boot that takes `BootTypes`: the list
of CPUs is written before `init_smp` reads it and never again, so its limit also bounds
`ap_cpu_id`.

Many steps name `Zenon`: the default prover's translation of a step slows down over a module
as long as these.

Only model-checked: `ReadyThreadRuns`, `BootEnds` and `TimerSurvives`, because liveness is out
of the prover's reach. The properties that the runs refute have no theorem.

## Not modelled

- The descriptor tables, port I/O, the PIC and the PIT: constant tables and single
  instructions. The calibration of the local APIC timer only measures.
- Formats, colours and the text on the screen; the strings library; the tests, which `kmain`
  does not run.
- Functions without a caller: `early_kmalloc_sectors`, `mem_get_free_page_*`,
  `mem_release_page_*`, `spin_trylock`, `search_list`.
- What follows a bit that `mem_alloc_region` sets outside its bitmap, and what a kernel stack
  and `free_node_list` do to each other where they share memory.
- `linked_list_stat_init` and the pushes of the scheduler's bring-up as steps of their own.
