# A verification of the CSCE-611 kernels

The repository holds seven machine problems (MP1 to MP7), small x86 kernels in
C++ that grow out of each other. This directory holds TLA+ specifications of
the parts that have state and an interesting protocol, TLC configurations that
check them on small instances, and TLAPS proofs. `PROJECT.json` lists every run,
the source lines behind every definition, the hazards of the code and the
theorems.

## The system

| Part | Code | State | Operations |
|---|---|---|---|
| Contiguous frame pools | `MP2/cont_frame_pool.C` (same file in MP3, MP4) | two bits per frame, `nFreeFrames`, a static list of pools | constructor, `get_frames`, `mark_inaccessible`, `release_frames`, `needed_info_frames` |
| Page table with demand paging | `MP3/page_table.C` | directory, page table pages and data in the frames of two pools | constructor, `load`, `enable_paging`, `page_fault` |
| Page table with pools | `MP4/page_table.C` | directory and table entries, the list of registered pools, the TLB | `register_pool`, `page_fault`, `free_page`, `load` |
| Virtual memory pools | `MP4/vm_pool.C` | allocated and free regions, kept in the first page of the pool itself | constructor, `allocate`, `release`, `is_legitimate` |
| Ready queue | `MP6/queue.H` (inlined in `MP5/scheduler.C`) | ring buffer: array, `front`, `rear`, `queue_size` | `enqueue`, `dequeue`, `get_head`, `remove` |
| Round-robin scheduler, threads, timer | `MP5/scheduler.C`, `thread.C`, `threads_low.asm`, `simple_timer.C` | current thread, ready queue, the stacks, the interrupt flag, the tick count | `resume`, `yield`, `terminate`, thread start and shutdown, timer interrupt |
| Context switch and stubs | `threads_low.asm`, `idt_low.asm`, `irq_low.asm`, `thread.C` | registers, the words of every stack | `threads_low_switch_to`, `setup_context`, `isr0`..`isr31`, `irq0`..`irq15` |
| Blocking disk and its scheduler | `MP6/blocking_disk.C`, `MP6/scheduler.C` | ready and block queue, `wait_CPU`, `issued`, `done`, the interrupt flag, the drive | `read`, `write`, `yield`, `resume`, the handler of IRQ 14 |
| Mirrored disk | `MP6/blocking_disk.C` | two drives, the one that is selected | `read`, `write`, `wait_until_ready` |
| File system and files | `MP7/file_system.C`, `MP7/file.C` | inode list and free list in memory and on disk, index blocks, data blocks; per handle a position, a copy of the index block and a cached block | `CreateFile`, `DeleteFile`, open, close, `Reset`, `Read`, `Write` |
| Boot and interrupt dispatch | `start.asm`, `main()` of every kernel, `gdt.C`, `idt.C`, `irq.C`, `interrupts.C`, `exceptions.C` | descriptor tables, controllers, handler tables, what is set up | the steps of `main()`, `dispatch_interrupt` |
| Timer and keyboard | `simple_timer.C`, `simple_keyboard.C` | ticks and seconds, `key_pressed` | `handle_interrupt`, `wait` |
| Console | `console.C`, `utils.C` | text memory, cursor | `putch`, `scroll`, `puts`, `puti`, `putui` |
| Everything else | bump allocators, privileged instructions, build files | | not modelled, see below |

Every kernel has its own copy of the files below it (console, stubs,
dispatchers, boot); the copies differ little, and where they do the models do.

How the parts interact:

- A page fault walks the list of virtual memory pools (`is_legitimate`) and
  takes frames from the process frame pool; `VMPool::release` calls
  `free_page`, which calls the static `release_frames` and reloads CR3. The
  lists of a pool are in virtual memory themselves, so writing them faults.
- `release_frames` is static: it looks through the list of all pools.
- The MP5 timer handler calls `resume` and `yield` on the interrupted thread's
  stack: the scheduler is entered from two sides.
- The MP6 `yield` polls the disk and moves the head of the disk's block queue
  to the ready queue; `read` and `write` call `yield` twice.
- With `_INTERRUPT`, MP6 threads run with interrupts on and the disk's handler,
  not `yield`, makes the waiting thread ready.
- Every interrupt runs through the same chain: gate, stub, `dispatch_interrupt`,
  handler, end of interrupt, `iret`. Handlers print, so the console is entered
  from two sides as well, and it masks nothing.
- A `File` keeps a pointer into the inode list of its `FileSystem`, writes the
  shared inode list back as a whole, and has a private copy of its index block.

What is hard about them:

- interrupts between the assertion and the critical section of `resume` and
  `yield`, nested on one stack (MP5);
- two threads in the middle of a disk operation on one drive, an interrupt that
  may come before or after its thread has gone to sleep, and two drives that
  answer through one set of ports (MP6);
- stubs, `REGS`, `setup_context` and the switch, which must agree on the order
  of words on a stack, and a switch that keeps words below the stack pointer;
- boot steps that rest on each other while interrupts may come (all);
- a handler that switches threads, and so acknowledges its interrupt first (MP5);
- lengths that are stored only in neighbouring marks, ranges that touch, slack
  bits of an uninitialised bitmap (MP2);
- faults inside code that maintains the structures the fault handler reads (MP4);
- two copies of everything, in memory and on disk, and allocation that fails in
  the middle of an operation (MP7).

What makes each part correct: allocations never overlap and releasing one
touches no other (frame pools); every frame has one use and the TLB holds
nothing stale (page table); what is written to a page is there when it is
read, over memory nobody initialised (demand paging); the two lists partition the pool (VM pools); FIFO
order (queue); no thread is lost, duplicated or run after its end, and
everybody gets the CPU (scheduler); commands and data belong together, and
every operation completes (disk); both drives hold what was written
(mirrored disk); whoever is resumed finds the CPU it left (context switch); no
interrupt finds the kernel unprepared, and no line stays blocked (dispatch); the
screen shows the last lines printed (console); every block has one owner, memory and disk
agree, and a byte written stays written (file system).

## Modules

| Module | Models | Level |
|---|---|---|
| `FramePool` | several pools, an operation per step | bits of each entry |
| `FrameSet` | what paging takes a frame pool for: a set of free frames | abstract |
| `PagingFrames` | how the kernels of MP2, MP3 and MP4 use their pools; implements `FrameSet` for MP3 and MP4 | as `FramePool` |
| `FrameScan` | the search loop of `get_frames`, an entry per step | justifies the single step of `FramePool` |
| `FIFO` | what a ready queue promises | abstract |
| `RingQueue` | `queue.H` | the array; implements `FIFO` |
| `RRScheduler` | the MP5 kernel threads | steps cut where an interrupt can arrive |
| `VirtualMemory` | MP4 page table and VM pools | page numbers |
| `PageTable` | MP3 page table | words of frames |
| `BlockingDisk` | MP6 scheduler and disk, the builds that poll | what a thread does between two calls of `yield` |
| `InterruptDisk` | the same with `_INTERRUPT`; extends `BlockingDisk` | steps cut where an interrupt can arrive |
| `MirroredDisk` | the same with `_MIRRORED_DISK`; extends `BlockingDisk` | one command or transfer at a time |
| `CPUState`, `ContextSwitch` | stubs, thread switch, first context | words on the stacks |
| `MachineState`, `Platform` | boot, controllers, tables, handlers | steps of `main()` and of handlers |
| `ScreenState`, `Console` | console and number formatting | accesses of `putch` to cursor and screen |
| `Kernels` | the seven kernels: instances of the last three, and the parts of each by file | |
| `FileSystem` | MP7 | operations; `Read` and `Write` byte by byte |
| `MC...` | values of the constants, and which build or kernel is taken | |
| `FramePoolProofs`, `AlgorithmProofs` (of `FrameScan`, `RingQueue` and `Console`), `ContextSwitchProofs`, `RRSchedulerProofs`, `VirtualMemoryProofs`, `BlockingDiskProofs`, `FileSystemProofs`, `PlatformProofs` | theorems | |

Definitions have the names of the functions they model. Where a definition is
followed or preceded by one marked "Slip", the latter is a variant with a
plausible mistake in it; `PROJECT.json` pairs each property with a slip that
the property detects.

**FramePool.** An entry is the set of bits that are on, so `set_state`'s
or-ing is visible. The bitmap fills a frame and has more entries than the pool
has frames; the surplus, and everything the constructor does not clear, starts
with arbitrary contents (`Garbage`). `held` is a history variable: what callers
of `get_frames` still own. Pools are constructed and laid out as in `main()`.

**FrameSet and PagingFrames.** `PageTable` and `VirtualMemory` take frames from
plain sets, lowest first, and give single frames back. `PagingFrames` restricts
`FramePool` to the calls each kernel makes (the process pool of MP4 releases
single frames, but not its first two) and states that in MP3 and MP4 the bitmaps
behave as such sets (`FramesAreASet`), the length marks and the range test of
`release_frames` notwithstanding. `nFreeFrames` still counts the frames that
`mark_inaccessible` has taken away, so the assertion of `get_frames` does not
fail when a process pool with a hole runs out: the request returns frame 0. The
paging models stop there (`"frame 0"`); in the kernel pool of MP3, which has no
hole, the assertion fails (`"assert"`).

**FrameScan.** The nested loops with `frame_no`, `i` and the jump behind the
entry that stopped the inner loop. The result is compared with the definition
of a first fit.

**RingQueue.** The array with the shift of `remove` and the arithmetic modulo
`QUEUE_SIZE`. The mapping to `FIFO` reads the array from `front`.

**RRScheduler.** A thread is a stack of frames, one per interrupt it is inside
of. `resume` and `yield` are each cut into the assertion, which runs with
interrupts on, and the part that runs with interrupts off. The ready queue is
a sequence, as `RingQueue` allows. The assertions of `resume`, `yield` and
`terminate` set `status` when they fail. That of `terminate` asks for somebody in
the queue, whoever is to go; `VictimsStay` says that only threads that never
return are terminated by others, as in the run, and a victim has an entry of its
own then.

**VirtualMemory.** Between any two pools lies at least one whole page table page,
as in `main()` (`GapAssumption`). An access makes the page fault, the handler runs a step per
frame it takes, and the instruction is tried again; nothing else runs
meanwhile. The frame pool is its set of free frames, from which a request of
one frame gets the lowest. `release` is modelled as written, with the
assignment in its condition. `live` is a history variable: the regions callers
own.

**PageTable.** Directory, page table pages and data are words of one memory,
and every access, also those the fault handler makes by physical addresses, is
translated by the words that are there. At first any word may look like a valid
entry. A frame pool gives out its lowest free frame, as `FramePool` does for one
frame.

**BlockingDisk.** The builds with and without `_THREAD_SAFE`, both polling.
Threads are not preempted. The drive is external: it accepts a command at any
time (forgetting the one before), and raises DRQ at some later moment. `read`
and `write` take the same steps.

**InterruptDisk.** `read` sleeps in `block_queue` and `write` waits in a loop,
both with interrupts off; the CPU takes an interrupt as soon as it may. The
guards around `disable_interrupts` and `enable_interrupts` keep their local
variables, one per thread, because a switch comes between the two. Interrupts
other than the disk's touch none of this state and are left out.

**MirroredDisk.** Each drive answers in its own time; the ports show the drive
that was selected last, and a transfer while that drive is not ready reads
anything and stores nothing.

**ContextSwitch.** Stacks are arrays of words: flags, selectors, addresses of
code, register values, junk. The model pops what is there. An interrupt or an
exception pushes what the CPU and its stub push; what is below the stack pointer
does not survive it. Between `resume` and `yield` the timer's handler runs with
interrupts on (`end_of_quantum`), so that a second interrupt can switch away from
inside it; a thread that has returned from its function can be preempted in
`thread_shutdown` and is dispatched again to finish there, until its own `yield`
gives up the CPU for good (`terminate`, `gone`). Which thread comes next is left
open, except that nobody dispatches to one in `gone`, as `RRScheduler` shows of the
queue (`TerminatedStaysOut`). `left` is a history
variable: the CPU each thread must find again. The variables and the two
properties of them are in `CPUState`, shared with `Kernels`.

**Platform.** Its variables and the two invariants that hold whichever kernel
runs are in `MachineState`, shared with `Kernels`. `Main` lists the steps of a kernel's `main()`, each a call with
its effect on tables and controllers; a step whose preparations are missing ends
in `failure`. The 8259 controllers are external: priorities, nesting under a
line in service, non-specific end of interrupt. A frame of `frames` is an
interrupt or a switch in progress. Interrupts before `irq_remap` would come in at
the vectors of exceptions. Keys move once the controllers are set up. The timer
knows its frequency only once it is constructed. `BootOrder` is the order that
`main()` must keep, an assumption of the theorems that every kernel meets.

**Console.** `putch` one access at a time, as the unoptimised build makes them;
a handler may print a line in between. `Finish` is what `putch` still does when
nobody interrupts it: no character takes more than twelve accesses. A handler's
`puts` uses it, and the proofs. `meant` and `paper` are history variables: the
characters the call should still print, with numbers as their digits define
them and not as `int2str` computes them, and everything meant so far, typed on
paper that never ends. `ScreenState` has the variables and the properties, which
all kernels share; the size of the screen (`Rows`, `Cols`) is a constant of
`Kernels`, and `ScreensSuffice` says that the console of each kernel fits it
(`ConsoleAssumption`).

**Kernels** gives each kernel its constants and its own next-state relation by
file (`MP5_interrupts_C`, ...). Screen, CPU and machine share no state, so a
behaviour moves one of them; their composition would multiply states and add
nothing.

**FileSystem.** Bytes are model values; `Blank` stands for a byte the file was
never given, whatever the block held before. `written` and `dropped` are
history variables: what callers wrote, and the files whose handle has dropped a
modified block. `wild` marks a write at an index entry that was never set; the
model stops there, and `BlocksAccounted` and `WritesKept` are about what comes
before it. Callers follow the kernel's exercise: files are opened when
they exist, once, and closed before they are deleted. A disk transfer waits in
a loop and nothing runs concurrently, so transfers are part of the step that
makes them.

## Runs

Each finishes within three minutes on two workers. `memory` checks three parts
that share no state, one at a time (`part`); `disk` likewise the queue and the
four builds (`kind`), and `kernel` the parts of seven kernels.

| Run | Instance | Shows |
|---|---|---|
| `memory`: frames | the uses of MP2, MP3 and MP4; 2 adjacent pools of 4 and 5 frames, a hole in the second, 7 bitmap entries, requests of 1 and 2 frames, three kinds of garbage in each entry behind a pool and one of the three in all frames of the pools | held allocations keep exactly their marks (`HeldIntact`), do not overlap (`NoDoubleAllocation`), reserved frames stay reserved (`ReservedNeverGiven`), and the only frames lost are the first ones of a pool directly behind another, which `release_frames` looks for in the pool before (`OnlyBoundaryLeak`); for paging a pool is a set of frames (`FramesAreASet`) |
| `memory`: search | 4 frames, 7 entries, requests up to 3, every bitmap | the loop finds the first fit or rightly nothing (`FirstFit`), and ends (`SearchEnds`) |
| `memory`: paging | MP4: 2 pools of 4 and 2 pages, 2 pages per table page, 8 frames, 3 list entries. MP3: 6 words per page, 5 and 3 frames, 5 pages under 3 tables, 2 values, memory full of zeros or of valid entries | every frame has one use (`FramesAccounted`), the TLB agrees with the table (`CachedIsMapped`), the lists of a pool stay mapped (`ListsStayMapped`) and, until the first release, partition it (`ListsPartitionPool`); a page holds what was written to it (MP3, `MemoryHolds`); legitimate accesses complete unless frames run out (`EveryFaultResolves`) |
| `rrsched` | 3 threads (one returns, one is terminated by others, one runs for ever), quantum of 2 ticks, 2 nested interrupts | no assertion fails, that of `terminate` (somebody must be in the queue) included; each queue entry is matched by a frame that accounts for it, terminated threads stay out and killed ones run no code of their own, nobody starves |
| `disk`: builds | 4 threads, 3, 2 or 1 of them on the disk, in four builds: `_THREAD_SAFE`, default, `_INTERRUPT`, mirrored (2 blocks, 2 values) | no command is overwritten, data goes to its requester, the flags agree with the drive, every operation completes; interrupts are on exactly while threads compute; between calls both drives hold what was written, and reads return it |
| `disk`: queue | 3 threads, 4 slots, every history with duplicates | the ring implements `FIFO` (`ImplementsFIFO`) |
| `fs` | 2 files, 4 blocks to share, 2 blocks of 2 bytes per file, 2 byte values | blocks have one owner, disk follows memory, bytes written are kept (`WritesKept`) and every byte that `Read` hands out is the last one written at its position (`ReadsReturnWrites`) |
| `kernel` | the seven kernels; 2 threads, 2 frames per stack, quantum and second of 2 ticks, 3 key or disk events, 2 calls or messages (3 in MP1 and MP2) on a screen of 2 lines of 6 | the screen shows the last lines printed (`LaterScreensShowLastLines`, MP2 to MP7) and a handler's message never makes `putch` leave the screen (`CursorContained`); whoever goes on finds the CPU it left (`ContextsRestored`, `FramesWellFormed`); boot survives interrupts at any moment (`KernelSurvives`), no line waits for an end of interrupt (`NoneBlocked`), requests are served and the clock runs (`InterruptsServed`), a key ends `wait` (`KeyEndsWait`) |

Runs that show a disagreement between the code and what its headers say:

| Run | Disagreement |
|---|---|
| `frame_overrun` | `get_frames` bounds the candidate but not the run: it hands out frames behind the end of the pool when the slack bits look free |
| `rrsched_kill` | an interrupt between `resume` and `yield` queues a thread twice, and `terminate` takes out one entry: the thread runs again |
| `vm_release` | `release` assigns instead of comparing: a released region stays legitimate, and the first entry of the list is removed instead |
| `fs_lost` | `Read` replaces the cached block without writing it back: a byte written through the same handle is lost |
| `fs_read_on` | a `Write` that gets no further block leaves the position behind the size; `EoF` compares with `==` and `Read` goes on past the end |
| `mp1_scroll` | `scroll` of MP1 adds bytes where it means cells: the lines move by half their length (`Stride` is half of `Cols` in `MP1_Console`) |
| `mp6_timer` | the threads of MP6's default build run with interrupts off for ever: the timer is not served any more once the first is dispatched to |

In these runs the counterexample is the result. Those on MP1 and MP6 ask of one
kernel what the run `kernel` shows of the others (`LaterScreensShowLastLines`,
`InterruptsServed`); `ReadStaysInside` is about a state that `WritesKept` and
`ReadsReturnWrites` except: a handle that a failed `Write` has left behind.

Three more oddities are visible in the models without a run of their own.
`release_frames` compares with `<= base + n` (`OnlyBoundaryLeak`, above). The
assertion of `get_frames` counts the frames of the hole as free, so in MP3 and
MP4 a fault in an exhausted process pool maps frame 0: the paging models stop in
that outcome (`"frame 0"`), which `EveryFaultResolves` accepts and no property
forbids. And when a handler prints inside `putch`, characters may be lost or doubled:
`ShowsLastLines` is about the calls that were not interrupted so,
`CursorContained` about all.

**Bounds.** Capacity limits are part of the code and reached in the runs: the
frame pools and the disk blocks run out, the ring buffer fills up and wraps,
the region lists reach their assertion. `MaxRequest`, `MaxNest`, `MaxBytes` and
`MaxCount` bound inputs; each is large enough for the case it is about (a run
longer than the rest of a pool, an interrupt inside the handling of an
interrupt, a request of more than one page, a `Write` that crosses a block).
`Quantum` is 2 instead of 5, and `Hz` 2, so that a tick that ends nothing
exists. In `rrsched` `ticks` stops at `Quantum`, where the handler always
behaves the same. In `kernel`, `MaxNested` 2 allows an interrupt in a handler
that waits for its thread to be switched in again; `MaxEvents` 3 a key pressed,
released and pressed again; `MaxCalls` 2 a call with a handler's message in it,
and on the screens of MP1 and MP2, which no handler touches, 3 calls, enough to
scroll by two lines. The numbers printed take two places of base 2. Seconds are counted modulo 2:
the properties ask that they change. The timer does not fire twice while one
handler runs, as its period is far longer. Two symmetries are used, in `fs`
only: files and byte values are interchangeable; no liveness is checked there.
In `memory` the constructor of a frame pool overwrites what the frames of a pool contained, so
one content for all of them is enough; the entries behind, which it does not
clear, vary independently. Failed creation for want of an inode needs more files than inodes and is not
reached in `fs`, where it always lacks blocks; it takes the same path.

**Deadlock** is checked everywhere except in `fs`, `fs_lost` and `fs_read_on`, where the model
stops when `wild` is set; in the other modules a failed assertion is a state
that repeats (`Halted`), or an error by itself (`NothingFails`).

**Fairness.** `FrameScan`: the loop is executed. `RRScheduler`: the CPU executes
kernel code, and the timer fires again and again while interrupts are on; thread
functions get no fairness, they may compute for ever. `VirtualMemory`: the CPU
repeats the faulting instruction and runs its handler; callers get none.
`PageTable` likewise.
`BlockingDisk` and its extensions: threads loop over bursts of bounded length
(`fun1` to `fun4`), each drive answers a command, and the CPU takes a pending
interrupt. `Platform`: the CPU does not stop, and the timer fires; that a thread
keeps computing while it may is part of `Work`. Keys and disk interrupts need not
come. `FileSystem` and `FramePool` state no
liveness. All of it is weak fairness.

## Proofs

`tlapm` checks the theorems for all values of the constants that satisfy the
named assumptions, which TLC evaluates in the runs. Every safety property that
the runs `memory`, `rrsched`, `disk` and `fs` check is proved, and four of the run `kernel`; almost none of them is inductive,
so each component has an invariant that says more.

- `FramePoolProofs`: type correctness, `HeldIntact`, `NoDoubleAllocation` and
  `ReservedNeverGiven` are invariants of any number of pools. `HeldIntact`
  alone is not inductive, because `release_frame` finds the end of an
  allocation by walking to the first entry that is not `Used`. The inductive
  `IInv` adds that the list holds the pools in the order of `main()`, that an
  allocation starts inside a constructed pool whose hole has been marked, and
  that only constructed pools are marked. The key lemma is `RunIsPrivate`: the
  entries a release frees belong to no other allocation. `OnlyBoundaryLeak` needs
  in addition what a leaked run looks like (`Leaked`): it starts at the first
  entry of its pool, keeps its marks, and all the allocations of the pool lie
  behind it. `PoolsAreSets` is the refinement of `FrameSet`: with requests of
  one frame no entry is `Used`, so a release frees its own frame only, and a
  frame that two pools claim is the first one of the process pool, which MP4
  keeps. Assumptions:
  the pools do not overlap (`LayoutAssumption`) and the bitmap has room for the
  entries read past the end of a pool (`BitmapAssumption`).
- `AlgorithmProofs`, `FrameScan`: the scan's type correctness and `FirstFit`. The invariant
  says that no candidate in front of `frame_no` fits; the step that jumps
  relies on every candidate in between containing the entry that stopped it.
- `AlgorithmProofs`, `RingQueue`: the indices stay in range, front, rear and size agree,
  slots in use hold threads, and `Spec => FIFO!Spec` with the array read
  from `front` as the queue (`RingIsFIFO`). Reasoning about `%` is isolated in
  one lemma that holds for positions within one lap.
- `AlgorithmProofs`, `Console`: for every size of the screen, any control
  characters and any messages of handlers, nothing is written outside the text
  memory and the cursor is back on the screen after every call
  (`CursorStays`), and the screen shows the last lines of what was meant
  (`ScreenShowsLastLines`). `CursorFits` says where the cursor and the register
  may be before every access. A message that a handler prints where `putch` had
  the cursor at the edge or below the last line starts one cell outside the
  screen, so it is stated with a slack `s`: 0 outside handlers, 1 in them. The
  theorem about the screen looks ahead: `ScreenIInv` is about `Finish(con)`, the
  screen once `putch` has returned, which an access does not change
  (`FinishStep`), and `TypedShows` follows a character to its end, over the edge of
  the line (`EdgeShows`), to a new one (`LineShows`) and through `scroll`
  (`ScrollShows`), and compares it with the same character on paper.
  Assumptions (`ConsoleAssumption`): two lines or more, tab stops that divide a
  line, which is not shorter than what `scroll` takes it for, and no backspace
  where handlers print, since `putch` would take the column back that the
  handler has just set to 0; for what the screen shows, also that `scroll` knows
  the length of a line (`Stride = Cols`), which is not so in MP1. That `int2str`
  gives the numeral of a number, an induction over its digits, is part of
  `ConsoleAssumption` and evaluated by TLC for the numbers of the instances.
- `RRSchedulerProofs`: all the safety properties of `RRScheduler`, for any
  number of threads, any quantum and any depth of nesting. `IInv` describes the
  stack of every thread (`StackShape`: which frame may lie on which), where a
  thread that does not run has stopped and where interrupts are on
  (`SwitchPoints`), and counts (`EntriesCounted`): each thread has one queue
  entry per frame that waits inside `yield`, less one when it was killed while
  waiting (`Debt`). That no assertion fails follows by counting: entries map
  injectively to pairs of a thread and a depth, so the queue never outgrows
  `CapacityAssumption`; a thread that neither returns nor is killed
  (`SteadyAssumption`, as `fun3` and `fun4`) is the running one or has an entry,
  so `yield` finds one; and the victim of `terminate` has an entry of its own
  unless it has returned before (`VictimsStay`, a premise of `SchedulerNeverFails`
  only: without it the assertion of `terminate` does fail when the steady thread
  terminates the last one that has returned). `IInv` does without it, so the other
  theorems hold up to such a failure. `NobodyLost` is proved and not checked by a run: it
  follows from the other properties.
- `VirtualMemoryProofs`, MP4: the properties of `VirtualMemory`, for any number,
  place and size of pools. `FramesInv` (one use for every frame, nothing mapped
  under a missing page table page) carries `FramesAccounted` and
  `CachedIsMapped`. `release` may free the wrong number of pages, and may leave
  its pool; that it never reaches another pool's lists is `PoolsInv`: page
  table pages exist only under pools, so an overrunning release faults in the gap
  (`GapAssumption`) before it gets anywhere. Before the first release the
  allocated regions tile the pool up to a mark and the free list is the rest
  (`TilesInv`), which gives `ListsPartitionPool`.
- `VirtualMemoryProofs`, MP3: `MemoryHolds`. The invariant reads the page table
  out of memory (`Cell`): the directory and the page table pages have a frame of
  the kernel pool each (`DirectoryInv`), the first page table page maps the first
  4 MB to themselves, which is why the handler never faults (`IdentityInv`,
  `HandlerReaches`), and pages have a frame of the process pool each
  (`CellsInv`). So a write to a page changes no entry and no other page, and a
  new page table page, cleared, adds none. Assumptions: the kernel pool lies
  inside the pages mapped to themselves, the process pool and the addresses
  `main()` uses behind them (`PagingAssumption`).
- `BlockingDiskProofs`: all the safety properties of `BlockingDisk`, for any
  number of threads, any set of them that uses the disk, and both builds. None
  of them is inductive: that the drive is idle when a command is issued depends
  on which threads wait for what, and the flags only hint at it. `DInv` says so
  in full: every thread but the running one is in exactly one queue, the queue
  and the drive determine where it goes on (`Placed`), and the flags describe
  drive and head of `block_queue` (`Flags`). All that `yield` does is proved
  once, in `YieldInv`, from what holds when the running thread has gone where
  it waits (`Switching`). Assumptions: some thread never uses the disk, without
  which `yield` may find nobody to run, and without `_THREAD_SAFE` only one
  thread does, without which commands do overwrite each other
  (`BuildsAssumption`); `main()` creates every thread once
  (`ThreadsAssumption`). Then the specification of the run `disk`, with all four
  builds (and the queue, while the disk stands still). With `_INTERRUPT`, `MaskInv` proves `MaskedSections`; it adds what the locals of
  each suspended thread contain, because `yield` and `read` restore the flag from
  locals that were set before other threads ran. `WaitInv` adds who is in which
  queue and what an interrupt that is pending stands for: a read whose thread is
  still in `block_queue`, or the write that has just ended; so the handler finds
  the thread it wakes. For the mirrored disk, `MirrorInv` says what each drive
  holds at each step of a call, relative to what was written last; it gives
  `MirrorsHoldLatest` and the action property `ReadsReturnLatest`.
- `FileSystemProofs`: all the properties of run `fs`, for any number of files,
  inodes and blocks and any sequence of calls. `Sound` has five parts: blocks
  (each in one place), names and inodes, handles (what the copy of the index
  block agrees with), lengths, and contents, stated file by file. Each action has
  an effect lemma that says what it changes, and `OneFileStep` and `OtherFile`
  lift an argument about the file in use to all of them. `Sound` holds until
  `wild`; from then on only `DiskFollowsMemory` and the types
  do. Assumption: `SizeAssumption`.
- `PlatformProofs`: `KernelSurvives` and `NoneBlocked` of `Platform`, for any
  `main()` that keeps to `BootOrder`, any threads, any quantum and interrupts
  nested to any depth. `BootOrder` says which step of `main()` comes after which:
  the console before what prints, tables and controllers before interrupts are
  enabled, the handler of page faults before the first fault and not replaced
  after it; `Kernels` states it of each of the five kernels and TLC evaluates
  it (`BootOrders`). `BootInv` says that what is done has left its tables and
  objects behind, and that nobody runs with interrupts on before they were
  enabled. `StackInv` says what a stack may hold (under the frame on top only
  handlers that let interrupts in; a thread that does not run has a switch on
  top; `main()` is not switched), and `ServiceInv` what the controllers wait for
  given the frame on top: a handler's own lines, nothing while a thread is
  switched. `NoneBlocked` alone is not inductive, because the lines in service
  while interrupts are off decide what holds when the handler lets them in. The
  last end of interrupt may come twice (`AcknowledgedAll`): the end-of-quantum
  handler has sent its own, and other lines cannot be in service then.

- `ContextSwitchProofs`: `FramesWellFormed` and `ContextsRestored` of
  `ContextSwitch`, for any number of threads and any set of exceptions and
  interrupts. Neither is inductive: that a frame is restored rests on the words
  at its place, which the running thread might have overwritten since. `IInv`
  describes every stack from its history in `left`: frame i lies 17 words below
  the stack pointer of the code it belongs to and holds that code's registers,
  place and flags (`Restored`); frames do not overlap; and the code it belongs
  to has above it what it needs to go on (`Place`: a handler its stub's address
  and number, a thread function the address of `thread_shutdown`). While
  `threads_low_switch_to` works, with interrupts off, the frame on top is
  described word by word (`SwitchInPlace`). One lemma says that a push disturbs
  nothing above the stack pointer (`StackKept`), two what a new and a popped
  frame do to the others (`StackGrows`, `StackShrinks`), and
  `RegistersComeBack` that the registers come back in the order opposite to
  the pushes. Assumptions (`SwitchAssumption`): stacks of 20 words for
  every nested frame and 21 more; and no exceptions 17, 21, 29 and 30, for which the CPU
  pushes an error code and the stubs, which are older, push a zero as well.
  `Kernels` states it of its five instances (`StacksSuffice`).

Only model-checked: all liveness (fairness and ENABLED are beyond the proof
system), that `int2str` converts the numbers of the instances, and what the
screen of MP1 shows. The theorems of `AlgorithmProofs`, `PlatformProofs` and
`ContextSwitchProofs` are about `Console`, `Platform` and `ContextSwitch`
themselves, of which `Kernels` has an instance per kernel that meets their
assumptions (`ScreensSuffice`, `StacksSuffice`, and `BootOrder` for `main()`).

## Not modelled

- `Scheduler::yield` of MP5, which `RRScheduler::yield` overrides;
  `Scheduler::terminate` and the unreachable `thread_shutdown` of MP6.
- In MP4 the first 4 MB, which are mapped from the start.
- Crashes in MP7: `main()` formats the disk at every start, so nothing is ever
  mounted that a crash left behind. Unmounting, which no path reaches.
- A drive that finishes a write after the CPU has gone on (`_INTERRUPT`): its
  interrupt could meet the next command. Errors of a drive: the code looks for
  none.
- Overflow of the 1024-byte thread stacks, the arithmetic of the bump
  allocators (one addition per call, no release), `SimpleFramePool` (never
  constructed; its `mark_inaccessible` leaves `nFreeFrames` alone, so the
  assertion that guards its search would not hold it inside the bitmap).
- `deregister_handler`, `SimpleKeyboard::read`, `SimpleTimer::current` and `wait`,
  which nobody calls; in MP6's default build, what interrupts would do to
  threads, which never let them in.
- The hardware cursor, colours, the negative numbers that `int2str` does not
  format; the debug output on port 0xE9.
- Privileged instructions, build files and disk images.

## Plan

Done, in this order: `FramePool` and `FrameScan` (everything else stands on
frames), `RingQueue`, `RRScheduler` (interrupts), `VirtualMemory`,
`BlockingDisk`, `FileSystem`, `PageTable`, `InterruptDisk`, `MirroredDisk`,
`ContextSwitch`, `Console`, `Platform` and `Kernels`.

The proofs followed: the frame pools and the search, the ring queue, the disk
with polling, then the scheduler of MP5, both page tables, the other builds of
the disk, the file system, boot and interrupts, the context switch, and the
console.

Next, models: `SequentialFiles`, an abstract file that `FileSystem` with the
write-back restored implements.
