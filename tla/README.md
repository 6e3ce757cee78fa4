# LySystemOS: specification and verification

TLA+ models of the LySystem kernel, the TLC configurations that check them on
small instances, and TLAPS proofs of what matters most for every instance. File
names below are relative to `src/`.

Run from this directory:

    tlc -workers 2 -config MCSchedulerDiscipline.cfg MCScheduler
    tlapm SchedulerProofs.tla

`PROJECT.json` has the full list of runs, the source lines of each definition,
and for every checked property a mutant of the model (an operator marked
`\* mutant:` next to the one it replaces) that the property refutes.

Contents: [the system](#1-the-system), [the modules](#2-the-modules),
[the runs](#3-the-runs), [the findings](#4-what-the-code-does-otherwise-than-it-says),
[the proofs](#5-the-proofs), [limits](#6-what-is-not-modelled), [the plan](#7-the-plan).

## 1. The system

LySystemOS is a single-CPU x86-64 kernel booted by GRUB. `start_kernel`
(`init/init.c:24`) sets up memory, interrupts, the heap, the file system and the
scheduler, creates one thread and becomes the idle task. There is no user mode:
threads are kernel threads, calls are C calls, and the only concurrency is
interrupts. The parts:

| part | state it keeps | operations | correct when |
|---|---|---|---|
| scheduler (`kernel/sched`, `IRQ/timer.c`) | `TaskTable`, `TaskCount`, `CurrentTaskPID`, each task's saved `rsp` and stack, RFLAGS.IF | `CreateTask`, `TaskFork`, `Schedule`, `ExitTask`, `KillTask`, `msleep`, the timer tick, `switch_to` | every switch saves and loads the right stack; no stack has two owners or is freed under its user; a dead task stays dead; waiting tasks run, sleepers wake, zombies are reaped |
| interrupt entry (`IRQ/traps.c`, `IRQ/irq.asm`) | the IDT, the PIC, the interrupt flag | IRQ 0, 1, 12, 14; three exception handlers | the handlers leave the interrupted thread as they found it, or kill it |
| heap (`mem/heap.c`) | an address-ordered list of blocks | `kmalloc`, `kfree`, `heap_init` | blocks tile the heap, a pointer has a block of its own, free space is found again |
| physical memory (`mem/pmm.c`, `mbi.c`) | a bitmap of 4 KiB blocks, `used_blocks` | mark, free, allocate; two passes over the boot loader's memory map | a block has one use, the image is never handed out, the counter is right |
| paging (`mem/paging.c`) | the page tables, `kernel_pml4`, CR3 | `map_page`, `paging_init` | the tables are one function from pages to frames; what the kernel runs in stays mapped |
| Minix file system (`fs/minix`), VFS (`fs/vfs.c`) | the disk: superblock, two bitmaps, inodes, directories, file zones | create, write, read, copy, rename, delete, list | an entry names an inode of its own, a zone has one owner, a call changes what it was given and nothing else, the disk still mounts |
| IDE driver (`drivers/ide.c`) | the controller's registers, `ide_irq_fired` | read or write a sector, by polling and by IRQ 14 | the data of a command is that of its sector; a wait ends |
| terminal and input (`printk.c`, `IRQ/scancode.c`, `IRQ/mouse.c`, `GPU/screen.c`) | cursor, shift and caps, the mouse packet and position | print, scroll, key and mouse interrupts | the cursor stays on the screen, a packet is three bytes that belong together |
| clock, uptime (`time.c`, `IRQ/timer.c`) | boot time, `ticks` | `time_init`, `get_uptime`, `sleep` | BCD and 12-hour values are decoded to the right hour |
| string library, bitmaps, panic, symbols, headers, build files | `strtok`'s position only | – | – |

How they interact:

- the timer interrupt enters `Schedule()` in the middle of anything that runs
  with interrupts enabled, which may `kfree` a zombie's stack (`task.c:140`) and
  switch to another thread;
- `CreateTask` and `TaskFork` take their stacks from the heap, `heap_init` takes
  its pages from the physical allocator and maps them through paging;
- the file system is called by threads, with no lock, and calls the IDE driver,
  which waits for an interrupt that any thread may be resumed by;
- the keyboard interrupt prints and lists tasks in the middle of a thread's own
  `printk`.

What is hard to test here: where exactly a tick falls; whether a thread resumes
with interrupts on or off (`switch_to` does not save RFLAGS); what a statement of an
unmasked `Schedule()` may still rely on; who owns a stack between `ExitTask` and the reaping pass; long mixtures of `kmalloc` and `kfree`;
an order of four initialisation loops in which the second undoes the first; and
a machine that is switched off between two sector writes. `PROJECT.json` lists
these hazards one by one, at the line where each bites, with the property that
would notice.

## 2. The modules

| module | models | proofs |
|---|---|---|
| `Scheduler`, `MCScheduler` | scheduler, context switch, timer and fault handlers | `SchedulerProofs`, `SchedulerDiscipline` |
| `Allocator` | abstract: what an allocator owes its callers | |
| `Heap`, `MCHeap` | `kmalloc` and `kfree` step by step; implements `Allocator` | `HeapProofs` |
| `FlatMap` | abstract: an address space as one function | |
| `BootMemory`, `MCBootMemory` | `pmm_init`, `mbi_parse`, `paging_init`, `heap_init` in `start_kernel`'s order; implements `FlatMap` | `BootMemoryProofs` |
| `MinixFS`, `MCMinixFS` | the file system's operations, write by write, with resets | `MinixFSProofs` |
| `AtomicDisk` | abstract: a disk whose reads and writes are atomic | |
| `Ide`, `MCIde` | the disk driver, its interrupt handler and the drive, register access by register access; implements `AtomicDisk` | `IdeProofs` |
| `Terminal` | `putchar` and `scroll`, in a task step by step, in an interrupt as a whole | |
| `Input` | `irq_init`'s dialogue with the keyboard controller, `keyboard_handler`, `mouse_handler` | |
| `Clock` | `time_init` against a clock that goes on | |
| `Console`, `MCConsole` | `Terminal`, `Input` and `Clock` together, in the order `start_kernel` brings them up | `ConsoleProofs` |
| `BoundedSets` | – | least and greatest elements, induction and recursion up to a bound |

Composition. `Heap`'s `Init` is the two outcomes of `heap_init` that
`BootMemory` ends in. `Scheduler` uses the heap as a set of stack-sized blocks,
which is `Allocator` with one request size; that one thread's `kmalloc` may be
interrupted by another's is `Heap`'s own subject. `MinixFS` has one caller, and its
sector writes are the atomic ones of `AtomicDisk`. `Console` is `Terminal`, `Input` and
`Clock` in one state: its `KeyboardIrq` takes a byte from the controller and moves
the cursor in one step.

### 2.1 Scheduler

A thread is identified with its kernel stack, task 0 with the boot stack. `cpu`
is the stack `rsp` points into; a task's saved `rsp` is a stack or 0; what lies on
a stack is its thread's program point `pc`, its locals (`id`, `slot`, `blk`, `next_pid`, `prev`)
and `how` it left the CPU: through an `iretq` that will restore RFLAGS (or
`child_return`'s `sti`), or through the plain `ret` of `switch_to`, which leaves
the interrupt flag as whoever switched to it had it. `cpu = NULL` stands for a
machine whose stack pointer or return address is none.

*Where a tick may come.* Code that runs with interrupts off is one step. Where
`CreateTask` and `msleep`'s `Schedule()` run with interrupts on, the program
points between their statements are `Windows`, and a `Tick` may come at each window
that the constant `Preemptible` of the instance names. Nobody observes what a thread
does between two points at which this instance takes ticks, and so it is one step: a round of the scan
(`ScheduleScan`), the commit (`ScheduleCommit`) and `kmalloc` (`CreateAlloc`) are single
actions where `Preemptible` has no window inside them, and go statement by statement
(`ScheduleScanSteps`, `ScheduleCommitSteps`, `CreateAllocSteps`) where it has one. The finest
grain is the statement: no tick falls inside `TaskCount--` or `msleep--`, inside the
`memset` or `switch_to`, or inside the two loops that choose the next task
(`task.c:161-177`; a choice that is stale when it is used is the window `sc_commit`).

The code takes ticks in *all* windows. Most are not safe. Each of them, opened alone beside the
safe ones (three slots, two stacks, `MaxSleep` 2, the boot thread making the same calls as the
others), lets TLC refute:

| window | tick before | breaks |
|---|---|---|
| `ct_claim`, `ct_alloc` | `task.c:47`, `51` | a lost CPU (`rsp` 0), `CpuOnCurrentStack`, `StackOwnership`, `TaskCountExact`, `ExitNeverReturns`, the first also `SavedContexts` |
| `ct_kmalloc`, `ct_store` | `heap.c:46`, `task.c:51`'s store | the same and `SavedContexts`: two slots name one stack |
| `ct_frame` | `task.c:52` | a lost CPU, `CpuOnCurrentStack`, `TaskCountExact`, `ExitNeverReturns` |
| `sc_zombie`, `sc_kfree`, `sc_cleared`, `sc_erased` | `task.c:139`, `140`, `143`, `144` | `TaskCountExact`: two passes count one zombie |
| `sc_clear` | `task.c:142` | `TaskCountExact`, `StackOwnership`: the slot is in use again when it is erased |
| `sc_sleeper`, `sc_wake` | `task.c:149`, `153` | a lost CPU, `SavedContexts`, `TaskCountExact`, `ExitNeverReturns`: a reaped slot is made `TASK_WAITING` |
| `sc_dec` | `task.c:150` | `SleepBounded`: the counter underflows |
| `sc_test` | `task.c:152` | as `sc_sleeper`, and `CpuOnCurrentStack` |
| `sc_commit` | `task.c:186` | a lost CPU, `CpuOnCurrentStack`, `SavedContexts`, `TaskCountExact`, `ExitNeverReturns` |
| `sc_run` | `task.c:193` | as `sc_commit`, and `OneRunning` |
| `sc_current` | `task.c:194` | a lost CPU, `OneRunning`, `CpuOnCurrentStack`, `ExitNeverReturns` |
| `sc_switch` | `task.c:196` | a lost CPU, `CpuOnCurrentStack`, `SavedContexts`, `ExitNeverReturns` |

`SafeWindows` are the three that are left: between two rounds of the scan (`sc_scan`),
between the scan and the choice (`sc_pick`), and in a self-kill between `sti` and
`ExitTask`'s `cli` (`kt_exit`). It is the largest set of windows under which the discipline properties hold,
since each other window alone breaks one of them. So these properties do *not* hold of the kernel as it is. They are
conditional: they say what has to be masked (`CreateTask`, each round of the scan, and
everything from the choice to the switch) for the rest to be right. The run
`sched_scan_tick` and `MCSchedulerBootTick.cfg` show that the code as it is does go wrong;
`sched_open` shows what holds with the unsafe windows open.

`Calls` and `BootCalls` say what threads and the boot thread of an instance do;
`start_kernel` only calls `CreateTask`. The Makefile compiles without `-O`, so `TaskFork`'s
child, whose hand-made frame has 0 for `rbp`, is lost when it returns (`ForkReturn`, section 4);
discipline and liveness are about threads that do not fork. `msleep` is a word of
`SLEEP_WORD` values, 2^64 in the code, so an underflow is a large number and not -1.

Fairness. The PIC latches IRQ 0 until interrupts are enabled, so a tick that is
possible again and again is taken: `SF(Tick)`. Code between two windows goes on:
`WF(KernelStep)`. Nothing is assumed about what a thread calls, with one
exception, stated as a separate specification: `CoopSpec` supposes that a thread
that came back from `msleep` with interrupts masked sooner or later calls
`msleep` again. Without it `ReadyRuns` fails, see section 4.

### 2.2 Heap

`blk` maps the address of each header in the list to its three fields; a header
that `kfree` absorbs leaves the domain, so a dangling cursor shows as a value
outside `DOMAIN blk`. Every round of the two loops, the cut and the claim of a block is a
step of its own. `heap.c` masks nothing; who may be interrupted by whom depends
on the caller, and `Intrusions` says it. `SafeIntrusions` are the ones the list
survives: a whole or partial `kmalloc` between two rounds of another call's walk.
A `kfree` inside another call's walk may absorb the header its cursor is on, and a
second `kmalloc` between the test and the claim takes the same block.

The kernel does not enforce this. `TaskFork` and the timer's `Schedule()` call
with interrupts off; `CreateTask`'s `kmalloc`, the `kfree` of `msleep`'s
`Schedule()` and the bitmap code call with interrupts on, and a tick there may reap
a zombie with `kfree`. So here too the properties are a condition on the callers:
what they have to keep apart, and that nothing more is needed.

`Implements` is the refinement of `Allocator`: the bytes in used blocks are the
owned regions, a request is granted at the claim, refused only when no unowned
run of bytes is long enough for it, or while some `kfree` has not finished
merging. Fairness: a thread inside `kmalloc` goes on running
(`WF(KmallocStep(c))`), which is what `ReadyRuns` of `Scheduler` gives it.

### 2.3 BootMemory

`phase` is the loop `start_kernel` is in, `a` its variable, and each round of a loop,
each level of `map_page`'s walk and each block `safe_pmm_alloc` drops is a step.
Memory map and kernel image are in units of which `PAGE` make a page, so that
unaligned regions and an image that ends inside a page are possible; tables are
`table[block][index]`, as wide and deep as `FANOUT` and `LEVELS` say. Blocks not
yet cleared hold entries that look present, so a missing `memset` shows. When
memory is exhausted `safe_pmm_alloc` searches for ever: the model has no step then.

`MarkUsed` and `MarkFree` keep the counter as the code does, and block numbers
wrap at `UINT32`. The framebuffer is mapped at its physical address and at
`KERNEL_OFFSET` plus it, modulo the address space. `LoaderPasses` says what has to be
true of the boot loader's data, and `MCBootMemory` assumes it: available memory ends below
the address whose block number would wrap (16 TiB), and the second mapping of the framebuffer overlays
neither the identity map (a framebuffer physically at 2 GiB) nor the heap (at 1.25 GiB).
The code checks neither; beyond `LoaderPasses` nothing is claimed of the tables.

`Enough` counts exactly the tables the mapped pages need plus the heap's pages;
`Boots` says that with that many free blocks, and no more, the set-up ends with a
heap. Fairness is `WF(Next)`: sequential code, which no handler disturbs.

### 2.4 MinixFS

A disk is a record: the bits of sector 2 (`imap`), of sector 3 (`zmap`), the
inode table and the first sector of each zone in 32-byte slots. Every operation
is a function from a disk to its return value and the sequence of disks that its
sector writes lead through; `WriteSector` makes the next write, `Reset` may come at any
moment and mounts the disk as `fs_init` does, or panics. Zones that lie under
metadata are represented: once one is overwritten as data the model says only
whether the disk still mounts (`Intact`).

The driver reads its inode bitmap from sector 2, which is also the superblock's,
and its zone bitmap from sector 3. The passing runs presuppose a disk on
which sector 3 has the bits of the metadata's zones set. The repository's own
`disk.img` is not such a disk; section 4.

Deletion frees the wrong bit: `AllocateInode` takes bit n-1 for inode n, `DeleteFile`
and `DeleteDir` clear bit n. After a deletion an inode may be handed out twice, so
`EntriesBacked`, `FrameKept` and `CallsDoTheirJob` are claimed, checked and proved for
histories without deletions; the run with deletions checks what remains true.

Abstractions: a path is a sequence of names without `.` and `..`; file bytes never
look like an entry a path names; sizes are in slots; a call that fails before its first
write changes nothing and is not a step; inode number `BITS`, whose bit would be
cleared outside the buffer, is never deleted; `minix_ReadInode`, `minix_WriteInode`
and `minix_FreeInode` are called by nobody, `ListDir`, `minix_List` and
`minix_GetRootInode` only print. Renaming a directory into itself loses it, and
failed creations leak an inode or a zone: both are in the model, and the
properties are stated so that they are not hidden (`CallsDoTheirJob` exempts
`IsPrefix(p, q)` by name; a leak is visible as a set bit without an entry).

### 2.5 Ide

An action is one access to a register of the drive or to `ide_irq_fired`; a polling loop
is the step that leaves it. `pc[c]` is caller `c`'s place in the two functions,
`regs`, `xfer`, `pos` and `phase` are the drive's registers, its sector buffer, the
next word in it and what it is doing. The drive works on its own. It interrupts when it
has read, when it has written and when it has flushed, unless `nIEN` is set, which the firmware
may have left so; on a sector in `Bad` it reports an error, which neither function looks
at. `latched` is IRQ 14 in the PIC: it is taken before the next step of a caller that has
interrupts enabled, and waits while a call is made with interrupts masked. `medium`
includes the drive's cache.

The driver tests neither DRQ nor ERR. For a read it trusts `ide_irq_fired`, which the
interrupts of an earlier write may set at any time up to the next command: `ClearFired`
comes behind the wait for BSY, and that is why it works (`ide.c:20`, `28`).
FLUSH CACHE is sent while the drive may still be busy and is then ignored; what makes a
write safe is the BSY wait after it.

`Implements` refines `AtomicDisk`: a read happens when its last word is taken, a
write when the drive has carried it out. A buffer that is being filled maps to `Unread`.

Two conditions, which the driver does not enforce:

- `Serial`: a call begins when no other is in progress. Without it TLC finds a
  write that reaches another sector (two tasks between two register writes,
  `ide.c:22-26`), words taken from the other task's transfer, and a task that waits for the interrupt
  the other one consumed.
- `MaskedOps`: the calls made with interrupts masked. Writes may be, since they poll.
  With reads among them the machine halts for ever at `ide.c:13`, with interrupts off. A task
  resumed by the timer's `Schedule()` runs so: the run `ide_masked_read`, section 4.

An interrupt between the test of the flag and `hlt` is lost to `hlt` (`ide.c:12-13`).
`CallsReturn` holds all the same, because the timer ends the `hlt` and the flag is
tested again: it rests on `WF(Tick)`. The other fairness: the drive finishes what it was
told, a pending interrupt that can be taken is taken, and a caller that can run runs.

### 2.6 Terminal, Input, Clock, Console

*Terminal.* The kernel is built without optimisation, so `term_x += 8` is a load and a
store, and a task is interrupted between the two. `putting[p]` is task `p`'s place in
`putchar` and the register. The keyboard interrupt runs `putchar` whole. The task
acts on stale tests and stores stale values, and `CursorOnScreen` says that this never
leaves the cursor off the screen when the task is between two characters. Conditions:
one task prints; no task prints `\b` (none in the kernel does; the keyboard's is echoed). With a
second printer TLC finds a lost update of `term_y`; with a task's backspace, an
interrupt's line end between `term_x >= 8` and `term_x -= 8` (`printk.c:42-43`) underflows.
`term_x` and `term_y` are modulo `Word`.

*Input.* One buffer, port 0x60, serves the controller's answers, the keyboard and
the mouse; a byte that enters it raises IRQ 1 or 12, and the PIC remembers the edge.
`irq_init` polls for its two answers, whose interrupts stay pending and are taken at
`sti`. `keyboard_handler` reads whatever is in the buffer; `mouse_handler` asks the status
register first. `PacketsAligned` and `InputServed` hold for an idle keyboard and
mouse during start-up (`HandsOff`). With a key pressed before, TLC finds that
`irq_init` takes the scancode for the configuration, the configuration for the
acknowledgement, and that the acknowledgement becomes the first byte of the first mouse packet;
from then on every packet is shifted (`traps.c:218-228`, `134-136`).

*Clock.* `now` goes on while `ReadField` copies one register after the other; `shown`
remembers what the clock showed when the pass began. The registers change all at
once: `time_init` does not look at the update-in-progress bit, and a clock that
shows half an update is outside the model. `Decode` models all four formats.
The 12-hour ones are decoded wrongly: in BCD, `BCD_TO_BIN` destroys the
PM bit before line 36 tests it (one o'clock in the afternoon becomes 81), in binary
noon becomes 0 (`(12 + 12) % 24`, `time.c:37`). The run `console` has clocks of 24 hours,
`MCConsole12Hour.cfg` the others (section 4).

Fairness: the processor goes on with start-up and takes a pending interrupt
(`WF` of `Boot`, `KeyboardIrq`, `MouseIrq`), the controller hands on what it has
(`WF(Controller)`). Nothing is assumed about tasks and the user.

## 3. The runs

| run | module / cfg | shows |
|---|---|---|
| `sched_discipline` | `MCSchedulerDiscipline.cfg` | given ticks in `SafeWindows` only, a stack for every slot and threads that neither return nor fork: `SleepBounded`, `CpuOnCurrentStack`, `SavedContexts`, `StackOwnership`, `TaskCountExact`, `ExitNeverReturns`, `OneRunning`, `ZombiesStayDead`, and under fair ticks and cooperative threads `ReadyRuns`, `SleeperWakes`, `ZombieReaped` |
| `sched_open` | `MCSchedulerOpen.cfg` | `TypeOK`, `IdleAlive` with ticks between the statements of `CreateTask`, `kmalloc`, the scan, the commit and the switch |
| `sched_masked_spinner` | `MCSchedulerMasked.cfg` | violation of `ReadyRuns` |
| `sched_scan_tick` | `MCSchedulerScanTick.cfg` | violation of `DispatchedTaskRuns` in the scan of `msleep` |
| `heap` | `MCHeap.cfg` | `Tiled`, `LiveBacked`, `Coalesced`, `KmallocReturns`, refinement of `Allocator` |
| `boot` | `MCBootMemory.cfg` | `CounterExact`, `ImageReserved`, `Exclusive`, `KernelMapped`, `Boots`, refinement of `FlatMap` |
| `minix` | `MCMinixFS.cfg` | `EntriesBacked`, `ZonesOwned`, `CallsDoTheirJob`, `FrameKept`, with a reset between any two writes |
| `minix_delete` | `MCMinixFSDelete.cfg` | `NamesUnique`, `ZonesOwned`, `DeletedIsGone` with deletions |
| `minix_image` | `MCMinixFSImage.cfg` | violation of `Mountable` |
| `ide` | `MCIde.cfg` | `InStep`, `CallsReturn`, refinement of `AtomicDisk` |
| `ide_masked_read` | `MCIdeMasked.cfg` | violation of `CallsReturn` |
| `console` | `MCConsole.cfg` | `PacketsAligned`, `CursorOnScreen`, `TimeRead`, `InputServed` |

Beside them there are smaller instances that are kept for what they show and are no runs of `PROJECT.json`
(`tlc -workers 2 -config <cfg> <module>`):

| module / cfg | shows |
|---|---|
| `MCScheduler`, `MCSchedulerFourSlots.cfg` | the safety properties of `sched_discipline` with four slots and three stacks (1.7 million states) |
| `MCScheduler`, `MCSchedulerBootTick.cfg` | violation of `DispatchedTaskRuns` in `start_kernel`'s `CreateTask` |
| `MCScheduler`, `MCSchedulerNoMemory.cfg` | violation of `DispatchedTaskRuns` after a failed `CreateTask` |
| `MCScheduler`, `MCSchedulerFork.cfg` | violation of `ForkedChildRuns` |
| `MCScheduler`, `MCSchedulerReturn.cfg` | violation of `ReturnIsCaught` |
| `MCConsole`, `MCConsole12Hour.cfg` | violation of `TimeRead` for 12-hour clocks |

Bounds, and why they are enough:

- *Scheduler*: a table of three slots and two stacks: the idle task, a thread that runs and one
  that is created, sleeps, is killed or waits meanwhile. It is enough to show what each unsafe window
  breaks (section 2.1); the four slots of `MCSchedulerFourSlots.cfg` show nothing more, and the safety properties
  are proved for any number. In `sched_discipline` the boot thread kills as well as creates: with three slots a slot
  is then reaped and given out again while another still waits to be reaped. Sleeps of 0 (below 10 ms), 1 and 2: a sleep of 1 is over in the pass of
  `Schedule()` that `msleep` itself makes, so only a sleep of 2 takes the thread off the CPU
  and is counted by somebody else. `sched_open` has sleeps up to 1 (with 2 it takes
  minutes): its sleepers wake in their own pass or, when a tick
  comes in the middle of it, in another's. It has no tick in `ct_claim`, whose states are too many, and
  no `KillTask` and faults, which `sched_discipline` has; in it stacks get lost, so that `kmalloc` fails.
  `SLEEP_WORD` is 3 or 4, larger than any sleep. `NoDrift` cuts `sched_open` where `TaskCount`, which is wrong there
  (it is decremented for slots that were never counted, or twice), has drifted
  out of `1 .. MAX_TASK_COUNT`: states behind that are not searched.
- *Heap*: 160 bytes and requests of 0, 10 and 40 give at most three blocks, some
  mixtures fit and some do not, a rest is split off or not, and runs of three free
  blocks come up for merging; two callers are enough for one to be inside the other's call.
- *BootMemory*: three levels of four entries and 20 blocks, image and memory regions
  with ends inside pages, regions that overlap, a framebuffer that wraps, and maps
  with exactly enough blocks, one too few, and far too few.
- *MinixFS*: 6 or 7 bits, 4 slots a sector (two names a directory beside `.` and
  `..`), 6 zones of which the driver may take two, two names, three paths with one below a
  directory: directories and disks fill up, and a path goes through a directory that is
  created, renamed or a file. The superblock sets one bit below its magic number and the magic
  number's lowest bit may be either, as in `superblock.c`'s test for 0x2478 and 0x2479.
- *Ide*: two callers, so that a call meets what the other's left behind; sector numbers of two
  registers, two good sectors that differ in both and a bad one; sectors of two words,
  the fewest with a word that is not the last.
- *Console*: a screen of two columns and three lines, where every third character wraps or
  scrolls; one key of each kind that moves the cursor differently; one byte or packet held back by each
  device beside the one in the buffer and the replies to CapsLock; a second that passes anywhere in
  time_init, at the last second of an hour (BCD) and of a day (binary).

Deadlock is checked except where the system really stops: a lost machine
(`MCSchedulerOpen` and the runs that look for a lost machine; `MCIdeMasked`,
whose processor halts), the end of the set-up or its endless
search (`MCBootMemory`), a full disk on which every call fails at once
(`MCMinixFSDelete`).

## 4. What the code does otherwise than it says

- **A thread can keep the CPU for ever** (`switch.asm:19`, run
  `sched_masked_spinner`). `switch_to` does not save RFLAGS. A thread that called
  `msleep` is resumed by the timer's `Schedule()` with interrupts masked, returns to
  its code like that, and if it then computes without a call no tick is taken any more.
  `updatenotes.txt:3` announces real multitasking.
- **A tick in `msleep`'s pass revives a dead task** (`task.c:153`, run `sched_scan_tick`). The thread
  interrupted between the test for `TASK_SLEEPING` and the write of `TASK_WAITING` writes after
  the sleeper has woken, exited and been reaped. The erased slot holds the `rsp` that `ExitTask`'s
  `switch_to` stored; it is dispatched again, on a stack the heap has back.
- **A masked read halts the machine** (`ide.c:13`, run `ide_masked_read`). `hlt` waits for IRQ 14 with
  interrupts off, in a task that `msleep` returned to through the timer's `Schedule()`.
- **The shipped disk image loses its superblock** (`file.c:325`, run `minix_image`).
  Sector 3 of `disk.img` has only bit 0 set, so the first zone handed out is zone 1, whose
  sector is sector 2, the superblock. One new directory or file body later
  `fs_init` fails and `start_kernel` panics (`init.c:38-40`).

With the instances that are no runs of their own:

- **A tick in `CreateTask` starts a task that is not there** (`task.c:47`, `MCSchedulerBootTick.cfg`).
  The slot is `TASK_WAITING` before it has a stack and an `rsp`, and
  `start_kernel` makes the call with interrupts on (`init.c:42`). The next `Schedule()` loads an `rsp` of 0.
- **A failed `CreateTask` creates a task** (`task.c:52`, `MCSchedulerNoMemory.cfg`). It returns `-ENOMEM` and
  leaves the slot `TASK_WAITING` with `rsp` 0.
- **The child of `TaskFork` does not return** (`task.c:115`, `MCSchedulerFork.cfg`). Its frame has 0 for
  `rbp`, and the build has no `-O` (`Makefile:26`): `return 0` (`task.c:131`) is `leave; ret` from there.
- **A thread function that returns is not caught** (`switch.asm:30`, `MCSchedulerReturn.cfg`). The call of
  `ExitTask` and the panic "Thread Leaked!" stand behind an `iretq` that never comes back; the thread has no
  return address on its stack.
- **Afternoons of a 12-hour clock** (`time.c:30`, `37`, `MCConsole12Hour.cfg`). Lines 36-37 mean to turn
  them into hours up to 23; the PM bit is lost in `BCD_TO_BIN`, and noon of a binary clock becomes 0.

Smaller cases noticed on the way and not modelled: `sleep()`'s product wraps
(`timer.c:24`); every thread's `msleep` counts down all sleepers, so sleeps are shorter
when others sleep (`task.c:149`); a lone task of priority 1 is preempted by task 0,
because the running task is not among the candidates (`task.c:162`); `pmm_alloc_block`
answers 0 both for block 0 and for none (`pmm.c:89`); an unaligned region's first
block is freed whole (`pmm.c:61`); a zone number of 0 means "none" (`file.c:238`);
`WriteFile` writes over a directory (`file.c:257`); the case for ESC falls through
(`scancode.c:159`); `keyboard_handler` enables interrupts before its `iretq`
(`traps.c:100`). What the models show under other conditions than the runs' is said
in sections 2.2, 2.5 and 2.6.

## 5. The proofs

All are safety properties, for every value of the constants that the `ASSUME`s
admit.

**SchedulerProofs.** For any table size of at least two, any finite heap and any workload. `TypeCorrect`
and `IdleAliveHolds` suppose nothing of where ticks are taken. The others name the windows they need
closed: `OneRunningHolds` those between the assignments of the commit (`CommitWindows`),
`SleepBoundedHolds` those inside a round of the scan (`RoundWindows`), `StacksNotSharedHolds` those inside a
round or `kmalloc` (`RoundWindows`, `AllocWindows`). In the kernel as it is these windows are open, and section 2.1 says
what TLC finds there. `TypeOK` is inductive: it includes that a
thread inside a call has the locals the rest of the call will use. Each of the
others is inductive together with `TypeOK`. The lemmas say what a pass of `Schedule()` does
to the table (`ScannedFacts`, `PickFacts`, `CommitStates`), so that a tick, an
unmasked `Schedule()` and `ExitTask` share one argument. `OneRunning`
rests on `Commit`: the old current task is parked before the new one is marked.
`StacksNotShared` rests on a round erasing the slot whose stack it frees
(`task.c:141-144`), and on `kmalloc` drawing from the free stacks only.

**SchedulerDiscipline.** `CpuOnCurrentStackHolds`, `SavedContextsHolds`,
`StackOwnershipHolds`, `TaskCountExactHolds`, `ExitNeverReturnsHolds`, and
`ZombiesStayDeadHolds`, which is about steps. All assume `Disciplined`, which the kernel does not
ensure: ticks only in `SafeWindows`, no thread function that returns, none that forks, and a stack in the heap for every slot
but the idle task's. What is proved is that these conditions are enough, for any number of slots and threads. Each of them is
needed: every other window breaks something (section 2.1), a thread that returns or a forked child
has no stack to go on with, and a failed `kmalloc` leaves a claimed slot without one (`task.c:52`). The inductive invariant `IInv` adds three parts to the properties: `OwnStacks`
(who has a stack at all), `ThreadPlaces` (only the executing thread is in a window
closed to ticks, and nobody is behind `ExitTask`) and `LocalsFresh` (the slot, the next and the
previous task that a thread found at an earlier step are still what they were). TLC checked
`IInv` on the constants of `sched_discipline` before it was proved. `StackLeft`
counts: a slot without a stack leaves one in the heap. `MaskedKeeps` is the one argument
for every pass of `Schedule()` with interrupts off.

**HeapProofs.** `TypeCorrect`, `HeapTiled`, `PointersBacked`, `FreeNeighboursMerged`, under the
assumption `Intrusions \subseteq SafeIntrusions`. The inductive invariant `IInv` is
`TypeOK`, `Tiled`, `LiveBacked`, `Coalesced` and `CallsInv`: what a call in progress
knows. Without `CallsInv` none is inductive: that the block found at the test still
fits at the claim, and that at most one call is between test and claim, and at most one
inside `kfree`, is just what the claim and the merge need. `HeapImplements` is the
refinement, `Spec => Implements`: every step of the heap is a
step of `Allocator` or changes nothing there. To `IInv` it adds `FirstFit`: what
kmalloc's cursor has passed was too small. With `Coalesced` it follows that a refused
request has no room (`NoRoom`): a run of unowned bytes that is long enough lies in
one free block, because two free blocks are not side by side.

**BootMemoryProofs.** `CounterExactHolds` and `ImageReservedHolds`, for any memory map. The
first is the counter together with the finiteness of the set; the second needs that once the root
table exists no loop frees a block any more (`phase \in Mapping`), and that
`pmm_alloc_block` searches from the bottom: its first answer beyond the kernel's end
shows that every block below is taken (`LowestBeyondKernel`).

`TypeCorrect`, `ExclusiveHolds`, `KernelMappedHolds` and `ImplementsHolds`, the refinement of
`FlatMap`, suppose `LoaderPasses` (section 2.3), and nothing of how much memory there is. They share the
inductive invariant `IInv`:

- `Tree(T)`: `T[k]` are the tables `k` steps below the root. `Shape` says that each
  is entered in one place, and in one level only; all are blocks that were free, and the walk under way has come
  down from the root on the way of its page. `T` is a witness, because the levels change at one
  place when a table is added; `LevelsAre` shows that they are `TablesAt`.
- `MapInv`: what the loops have mapped so far. `Will` is the frame that a page has once the call
  under way is over: the loop's variable is one ahead of the entry.
- `LoopInv`: how far each loop has come, and what has to have happened before.

None of the properties is inductive without them. `Translate` is a walk, and a step writes one
entry, so the argument is about ways: two pages with the same indices are the same page
(`IndexFacts` and `SamePage`, from what division does, `DivDiv`), in a tree a way from the root to one table uses
one prefix of indices (`SameWay`), and so writing one entry changes the last step of one way
(`WriteEntryShape`), and entering a new, cleared table changes none (`NewTableShape`). Zeroing
a block that is no table changes none either, which needs that a free block is no table:
`Taken`. There is one lemma per action, and `InvNext` also says what each does to
the translation: `Stays`, `Asks` or `Answers`, from which the refinement follows.

**IdeProofs.** `InStepHolds` and `ImplementsHolds`, for any number of callers, registers,
words and values, any bad sectors and any calls made with interrupts masked, assuming `Serial`.
The inductive invariant `IInv` (theorem `Invariant`) says for each place of a call what the
registers, the drive's phase, its buffer and the flag are. The core of it is one
line: while a read is seeking, `ide_irq_fired` is clear, and nothing that could set
it is pending unless the call is masked. It is established at `ClearFired`, where the drive is idle and
a pending interrupt would have been taken first. `Quiet` (between two calls the drive has
finished) carries it from call to call, and `Settle` is what establishes that.

**ConsoleProofs.** `CursorOnScreenHolds`, for one printing task, any screen of at least three
lines, any glyph height, any keys, controller and clock. `AtPlace` says for each place of `putchar` how stale
the register or the last test may be: an interrupt may have scrolled since the test in
`scroll?`, but then the cursor is at most two lines from the bottom, so one more scroll
does not take it off the top. That a whole `putchar` preserves each of these conditions is
`PutCharKeeps`.

`TimeReadHolds` assumes clocks of 24 hours (`TwentyFourHours`; section 2.6 says what
happens to the others). Its invariant counts the seconds that have passed since the pass began
(`Passed`): the seconds show what they showed only if none has, for a pass of at most
`MaxTicks` seconds, so what was read meanwhile was one time. `Decoded` says that
`BCD_TO_BIN` undoes the clock's code for any number. `PacketsAlignedHolds`
assumes `HandsOff` and that keys are told from the mouse's bytes (`KeysAreKeys`). Before
start-up has ended `irq_init` has taken each answer it asked for (`Booting`); after it the packet
begun, the byte in the buffer and the mouse's queue are whole packets one after the other
(`Served`).

**MinixFSProofs.** `TypeOKHolds`, `NamesUniqueHolds`, `ZonesOwnedHolds`,
`DeletedIsGoneHolds` and, where nothing is deleted, `EntriesBackedHolds`,
`CallsDoTheirJobHolds` and `FrameKeptHolds`, for a disk of any size, any names and paths, any
workload and, except with deletions, resets at any moment. The assumptions:
`WellNamed`, that a name is no file contents and none of the driver's own entries; and `Cared`, that the
zone bitmap has bit 0 and the root directory's bit set, and that no reset cuts a
deletion short, which would leave an inode whose zone is free. So none of these theorems is about any
disk whatever: `Cared` is where the shipped disk fails, in whose bitmap the root directory is not
marked (section 4).

The invariant is about the disk and about every disk that the writes still to come
lead through. `Typed` holds of all of them: numbers in range, the names of a sector distinct (in
any sector, since what was a directory may be a file's zone tomorrow), the root inode in its
place. `Steady` adds `Owned` and, without deletions, `Backed`, both stronger than the
properties: they speak of every formatted inode and every directory, also those that no
path reaches, because a later write may enter them; and `Backed` says that a free
zone has no entries, because a new directory's zone is cleared only after its inode is written. In the middle of a deletion only `Typed` holds:
the zone is freed before its inode. `Final` says what the last disk of a deletion owes.

There is one lemma per write (`TakeZoneKeeps`, `SetInodeKeeps`, `EnterKeeps`, ...) and one per operation,
which follows its writes in order (`CreateFileSteps`, `RenameSteps`, ...).
The walk down a path is a recursive function; `WalkExists` gets it from `BoundedRecursion`,
and `SameWalk` says that a write which leaves the directories of a path alone does not divert it.
`CopyFileSteps` needs that what was just created is found there (`EnterFound`).
`DeletedIsGone` follows from `SameWalk`, taken backwards from the last disk, and from `Tidy`: the entry
unlinked was the only one of its name.

`CallsDoTheirJob` and `FrameKept` are about what a path shows, and follow from two more
conjuncts of the invariant. `Promise`: if the call will report success, what
it is to bring about is already true of `Final`, the disk its writes end in. `Alike`: every disk still
to come looks like the present one at the paths the call is not to change and that do not lie below
one it is. A write shortens what is to come, and so keeps both; what remains is to
prove them of each operation when it is called, from a disk that is `Steady`.

For `Alike`, `Differs(d, w, E, F)` says where a disk of the operation may differ from the first, among
the inodes and directories in use: at the entries of the paths `E`, at the inode and the contents of
what the paths `F` lead to. Each operation has a lemma that its disks do (`RenameDiffers`, ...), and
`SameView` concludes, for any two such disks, that other paths show the same. It rests on
`OnePath`: two paths to one directory are one path, because an inode in use has one
entry and one zone, and the root has none (`Backed`, `Owned`, `Tidy`). Without that, a change
at one path could show at another. `CopyFile` makes two such differences in a row, and the second
starts from the disk the first ends in.

For `Promise`, each operation has a lemma on what its last disk holds (`CreateFileJob`, `WriteFileJob`, `RenameJob`, ...).
The hard ones are `CopyFile`, whose source must still read the same once the copy is created and written,
and `Rename`, whose new entry must be found by a path that may pass the directory of the old
one (`PrefixFound`, `Deeper`): both need that the second path
is not below the first, which is `CallsDoTheirJob`'s exception.

TLC checked `IInv`, on the constants of `minix` and `minix_delete`, and `Promise` and `Alike`,
on those of `minix`, as invariants before they were proved.

**BoundedSets.** What the others share: a bounded set of numbers has a least and a greatest
element, induction up to a bound (`BoundedInduction`, about a set, not an operator), and that
a function defined by recursion over `0 .. N` exists and satisfies its equations
(`BoundedRecursion`).

Model-checked only:

- all liveness (`ReadyRuns`, `SleeperWakes`, `ZombieReaped`, `KmallocReturns`, `Boots`,
  `CallsReturn`, `InputServed`): fairness and `ENABLED` are out of the prover's reach.

Every invariant and action property of a passing run is stated by a theorem.

A recursive operator could not be reasoned about at all, so the modules
under proof use recursive functions. Induction over data other than up to a bound
(paths without a longest one, say) is not needed by any of the properties.

## 6. What is not modelled

- Of the console: pixels, the letter a scancode stands for, shift and the
  CapsLock state, the pointer's coordinates and drawing, `vsprintk`'s number formats.
- The second ATA channel, whose interrupt would set the same flag.
- Ticks inside a statement of an unmasked `Schedule()` or `CreateTask`, and inside the two loops of
  `Schedule()` that choose the next task (section 2.1).
- Two callers in the file system at once: planned. `strtok` keeps one static
  position, so their path walks would mix.
- The string library, bitmaps and the panic screen: pure functions or output.
- The switch to long mode (`boot/*.asm`): straight-line code without a second actor.
- IDT and PIC programming, ports, the GDT reload, page-entry flags: register writes
  nothing here depends on.
- The depth of a stack and what callers keep in heap blocks.
- `include/img/lysyslogo.h`, 22511 lines of numbers, is the picture shown at start-up: it is most of
  the repository's lines and has no behaviour.

## 7. The plan

Done, in the order of how much depends on them: Scheduler, Allocator and Heap,
MinixFS, FlatMap and BootMemory, AtomicDisk and Ide, Terminal, Input, Clock and Console, with the theorems above.

Next: a second caller in `MinixFS`, with the driver's sector reads as steps, for the smallest disk.

It would need theorems of its own: the second caller breaks `Promise` as it stands, since a disk to
come is then no longer known when the call is made.
