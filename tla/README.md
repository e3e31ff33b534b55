# A TLA+ model of the DANA kernel

DANA ("DANA is Almost Not Apple") is a small x86_64 kernel in the style of Mach.
This directory models it in TLA+ (boot, the scheduler under the timer interrupt, IPC,
system calls, physical memory, zones, page tables, address maps, program loading and the
console), checks the models with TLC on small instances,
and proves with TLAPS, for every size, what is central about the scheduler, the timer
interrupt, IPC, physical memory, zones, page tables, address maps, program loading, the
console and system calls. Every definition follows the C code; `PROJECT.json` maps each one to the
lines it stands for.

## The system

The kernel is uniprocessor. Kernel code is entered by the boot path (`main.c`), by
running threads (system calls) and by interrupts, and a kernel function runs to its
end, to the `sched_run()` inside it, or to the timer interrupt, whose handler calls
`thread_yield()` as well. There are no locks.

| Part | State | Operations | Uses |
|---|---|---|---|
| scheduler (`kern/sched.c`) | run queue (a doubly linked list through the threads), thread states, current and idle thread | enqueue, dequeue, choose, run, yield, block, unblock, idle loop | threads |
| threads (`kern/thread.c`, `thread_switch.S`) | zone slots, stack page, saved stack pointer, task list | create, destroy, switch | PMM, zones |
| tasks (`kern/task.c`) | the one `kernel_task`: thread list, port space, map | stubs only | |
| ports (`kern/ipc_port.c`) | ring of messages, waiting thread, reference count | alloc, release, enqueue, dequeue | scheduler, kmsgs |
| spaces (`kern/ipc_space.c`) | table from names to ports | create, destroy, insert, lookup, remove | ports |
| messages (`kern/ipc_msg.c`, `ipc_kmsg.c`) | kernel messages | `mach_msg` with send and receive halves, copy in and out | all of the above |
| system calls (`kern/syscall.c`, `syscall.S`) | table of handlers, the caller's registers on its stack | enter, dispatch, wrappers, return | threads, IPC, exec |
| PMM (`vm/pmm.c`) | bitmap of pages, `free_count`, `total_pages` | init from the memory map, alloc, free | |
| zones (`vm/zalloc.c`) | free list, counters, limit of each zone | zinit, grow, zalloc, zfree | PMM |
| page tables (`hal/x86_64/pmap.c`) | four-level tables in physical frames, the kernel's half shared | create, reference, destroy, map, unmap, protect, query | PMM |
| address maps (`vm/vm_map.c`) | sorted list of entries | create, destroy, enter, page_range, remove, lookup | page tables, PMM, zones |
| page faults (`vm/vm_fault.c`, `idt.c`) | | resolve a fault in `kernel_map` | maps, page tables, PMM |
| program loading (`kern/exec.c`, `macho.c`) | map of the task, the image | load, unload | maps, page tables |
| clock and timer interrupt (`kern/clock.c`, `pit.c`, `idt.c`) | tick counter, interrupt frames on the stacks | tick, delay, preemption | scheduler |
| console (`libkern/printf.c`, `fb.c`, `serial.c`) | cursor and contents of the screen, serial line | print | |
| CPU (`cpu.c`, `gdt.c`, `idt.c`, `syscall_setup.c`) | CPU data, descriptor tables, MSRs | set up once; exceptions | console |
| boot (`main.c`, `hal.c`) | how far it is | sets everything up in order, reports and halts | all |

What is hard here, and where a test would hardly look: the run queue is intrusive,
so one call too many corrupts it much later; a thread may be switched away from on
a stack that its exit has just freed; receivers block between the test of a port
and its use; names, ports and messages outlive each other in the wrong order;
every allocation may fail in the middle of a call that has already changed
something; the kernel's page tables are shared by copies; address arithmetic wraps; the
timer switches threads with interrupts off, and in the middle of `sched_run()`; a program is
mapped in one address space and copied in another.
`PROJECT.json` lists these hazards at their lines, with the properties that watch
them. Smaller ones are left to the text: a destroyed thread stays in its task's list,
which no code follows (`MCSchedExit`); `gdt_init()` resets the `fs` base that no code
reads through; a tab near the right edge draws outside the cells of the screen
(`ConsoleFaithful` exempts such a screen, `spoilt`); two threads that print at once share
the cursor, while the model prints a message in one step.

## Modules

| Module | Models | Checked by |
|---|---|---|
| `Sched` | scheduler, threads, switching, boot order | `Irq`, `SchedProofs` |
| `RoundRobin` | abstract: a line of threads served in turn | |
| `SchedRefinement` | the linked list implements the line | `Irq`, `RoundRobinProofs` |
| `Irq` (extends `Sched`) | timer interrupt, interrupt flag, clock, preemption | TLC, `RoundRobinProofs` |
| `Ipc` (extends `Sched`) | ports, spaces, kernel messages, `mach_msg` | `MCIpc`, `IpcProofs` |
| `Mailbox` | abstract: bounded first-in first-out mailboxes | |
| `IpcRefinement` | the rings implement the mailboxes | `MCIpc`, `IpcProofs` |
| `Pmm` | bitmap allocator and its initialisation | `MCZone`, `MemoryProofs` |
| `Zone` (extends `Pmm`) | zone allocator on top of the PMM | `MCZone`, `MemoryProofs` |
| `Pmap` | page tables in physical frames | `MCPmap`, `PmapProofs` |
| `VmMap` (extends `Pmap`) | address maps and page faults on top of them | `MCVmMap`, `VmMapProofs` |
| `Exec` (extends `VmMap`) | `exec_load()`, the Mach-O loader, bytes of physical memory | `MCExec`, `VmMapProofs` |
| `Console` | `kprintf()`, serial line, screen | `MCBoot`, `BootProofs` |
| `SyscallEntry` | entry and exit of system calls, dispatch, wrappers | `MCBoot`, `BootProofs` |
| `Cpu` | CPU data, descriptor tables, MSRs, timer divisor | `MCBoot` |
| `Boot` (extends the three) | `kmain()` and `hal_init()`, exceptions, threads that print and call | `MCBoot`, `BootProofs` |

Definitions keep the names of the C functions. An operator with a C name and a
state as its argument (`sched_enqueue(q, t)`, `pmap_map(s, ...)`) is the function on
that state; an action is one call, with the guard taken from the conditions and early
returns. A call that is refused changes nothing and so is no step. Operators whose
comment begins with "Mutant:" are deliberate errors: each is a plausible bug in the
definition that follows it, and shows that a property notices.

### Scheduler

`rq` is the run queue with the `next` and `prev` of every thread, so wrong pointers
are wrong states. `rsp`, `saved` and `rsp0` say on which stack the CPU executes, where
each thread would resume and where the CPU would enter the kernel. `kmain` itself
becomes the idle thread: `sched_create_idle()` makes the new thread current, but the CPU
stays on the boot stack, so idle's own stack page and entry are never used
(`OwnStack`). `halted = "idle"` is `cli; hlt`, from which nothing returns.

Two Boolean constants open behaviours the code allows and does not survive:
`LateCreate` (boot code creates threads after the idle thread exists) and
`ExitedKeepsCalling` (a thread goes on calling the kernel after its exit returned).

### Timer interrupt

`Irq` takes every call of `Sched` as a step of code that may be interrupted, and adds
`irq_0`: the tick, and `thread_yield()` inside the handler. When that switches, a frame
stays on the old thread's stack (`frames`) and interrupts stay off in the new one
(`iflag`), since `machine_switch_context()` does not save the flags; a new thread's
trampoline turns them on. `IrqReturn` is the `iretq` of a handler that was resumed.
`pic` is the interrupt controller, which no code programs: it may acknowledge interrupts
by itself or not, and may be masked from the start. `delay` counts the ticks a thread
in `clock_delay_ms()` still waits for, `ended` is the `.spin` loop a thread falls into when its
entry function returns. `IrqCutSpec` lets the interrupt also hit `sched_run()` between its
choice and its writes; the choice is then a stale local variable (`cut`).

### IPC

`port` is `struct ipc_port` of every slot, `space` the table of names, `kmsg` and `kfree`
the kernel messages, `call` where each thread is in `mach_msg()`. A call is one step up
to where it blocks, one from there, and the receive half is a step of its own.
`SharedReceive` and `BusyRemove` allow several receivers on a port and the removal of a port
that a thread waits on; `Alias` allows a port under two names; `ViaTrap` calls
`mach_msg()` through the system call wrapper. There is one space, and it starts out
empty although `ipc_space_create()` cannot succeed (`MCZoneLarge`): the boot code of the
future is assumed to provide one.

### Memory

`Pmm` keeps the bitmap as the set of its 1 bits; the placement of the bitmap and the
rounding of regions are in bytes. `Zone` keeps a free list as the sequence of its
addresses, in the order of the code; a zone whose elements are larger than a page takes pages and
gives none, and `fault` is the null pointer that `zalloc()` then follows. `Pmap` keeps the contents of every frame and
follows entries as the code does; the number of levels and the entries per table are
constants. `VmMap` works on byte addresses that wrap around at the end of the
address space and threads the machine (memory and free frames) through its loops, so
that a call that runs out of memory half way does exactly what the code does.
`WholeEntries` keeps callers from cutting entries; `VmTaskSpec` adds the maps of
tasks; `LastRelease` lets address spaces be destroyed. The identity mapping that
`pmap_create()` relies on (pmap.c:8-11) is assumed.

### Program loading

`Exec` adds the bytes of physical memory. A loaded segment is mapped by
`vm_map_page_range()` in the task's page tables, but `kmemcpy()` writes to its virtual
address in the address space the CPU is in, which stays the boot loader's (nothing calls
`pmap_switch()`): up to `IDENTITY` that is physical memory of the same number.
`PhysBase` says how far the allocator's pages are from there: images lie below them and among them. `CopyRanges(image)` is the physical memory that the addresses of an image name.
A copy over a table that the kernel follows ends the behaviour (`stopped = "wrecked"`), and so does a copy beyond the
identity mapping (`"fault"`). When a task gets page tables but no map, `exec_load_no_map` frees those tables, the
kernel's among them; what the kernel does without them is not followed (`"released"`). What a file holds at an
offset is that offset, so a byte tells where it came from.

### Boot, CPU, console and system calls

`Boot` runs `kmain()` step by step with every answer the boot loader may give. `Cpu` keeps
what the CPU is programmed with: kinds of descriptors, selectors, gates, MSRs and the
timer's divisor. `Console` keeps the screen by character cells, with cursor, wrap, tab, backspace and
scrolling; a message is one character of its own followed by the number that is printed and a
new line. `printed` is the history of characters, and `ConsoleFaithful` compares the screen with
that of an endless one.

`SyscallEntry` has the registers and the interrupt flag of the one CPU, and the stacks of the callers. Registers and
words are numbers that say whose register they were. A system call pushes and pops in the order of
`syscall.S`, masks the flags that `syscall_arch_init()` chose and reads the arguments at the offsets of
the code; C code leaves only the registers that the ABI makes it keep (`AfterC`). A handler that blocks or yields, and a timer interrupt, hand the CPU to
another caller or to a thread that makes no calls (`SwitchTo`): what `machine_switch_context()` and the prologue of `irq_0`
push goes on the stack of the outgoing thread, everything else in the registers is lost. So a caller's `rbx`, which `syscall.S`
does not save, comes back only if the switch takes care of it.

## Runs

`tlc -config <cfg> <module>`; each takes at most about three minutes. A configuration `MCX...cfg` belongs to
the module `MCX`; those of the scheduler and the timer, `MCSched...cfg` and `MCIrq...cfg`, need no
definitions of their own and are run on `Sched` and `Irq` themselves.

| Run | Shows |
|---|---|
| `sched_irq` | 3 threads, timer interrupts between calls, delays: list, states and stacks are consistent, the scheduler implements `RoundRobin`, only runnable threads are switched to, every runnable thread runs and interrupts come back, except in the cases the properties name |
| `ipc_safety` | 2 threads besides idle, ring of 2, 3 kernel messages, one receiver per port: conservation, no lost wake-up, woken receivers find their message, names stay valid; implements `Mailbox` |
| `ipc_live` | a waiting receiver to whose port a message is sent leaves `mach_msg()` |
| `zone` | memory maps with unaligned, adjacent, small and too large regions, 2 zones of different sizes and limits, one of them perhaps of elements larger than a page, and other users of pages: pages and counters are exact, only safe pages are handed out, elements conserved and disjoint, and `zalloc()` fails with a null pointer only where it must |
| `pmap` | 2 address spaces and the kernel's, which begins to use a second PML4 slot before or after they are made, 3 levels, memory running out inside walks: no frame lost or shared, one address changes at a time, and an old space lacks the late slot and nothing else |
| `vm_map` | the kernel map with aligned ranges and whole removals: map and tables agree, wired pages are mapped, nothing leaks |
| `exec` | images with several segments, with the head first, late, empty or absent, refused images, images that run out of memory or get no map, and images at the physical addresses of pages that others hold, loaded into 2 tasks while the kernel uses its map: a load that succeeds is mapped as asked and starts inside the image; the translations of others stay, and their bytes change only where the segments' addresses say |
| `boot` | every answer of the boot loader: the kernel comes up with working tables or reports, and uses nothing before it is set up; console and serial line agree, numbers read back |
| `syscall` | 3 callers that block, yield to each other and are interrupted inside and outside of calls: stacks and registers come back, interrupts are on again, no call goes outside the table |

`RunnableRunsOrStuck` names the states from which nothing runs again (`Stuck`): a thread's entry
function returned, a thread delays while interrupts are off or the timer is shut, or the idle
thread halted at the head of a queue that holds others. `InterruptsComeBack` excepts an
interrupt frame that an exited thread took with it (`FrameLost`).

Some documents, comments and headers say what the code does not do. These runs find
the shortest behaviour; `PROJECT.json` quotes the line:

| Run | Finds |
|---|---|
| `irq_cut` | a timer interrupt inside `sched_run()` lets it switch to a thread that is no longer runnable |
| `vm_map_fault` | a write to a mapped read-only page is reported as resolved, although vm_fault.c:9 says that the protection is verified |
| `exec_copy` | the pages of a program that was loaded do not hold its segments |

The passing runs restrict their environment where a property would not hold without it. Theorems reach further
where they can: `IpcMessages`, `IpcWaiter` and `IpcImplementsSched` allow several receivers on a port and ports removed
in use, `VmMapSorted` and `VmTaskMapSorted` any range and any removal.
What happens outside, and what the code does not keep of its own promises, is there as configurations
of the same modules, each of which ends in a counterexample; where two or three properties are listed,
each fails by itself:

| Configuration | Property | Finds |
|---|---|---|
| `MCSchedLateCreate` | `RunnableRuns` | a thread created after the idle thread is never run: the idle loop sees itself at the head of the queue and halts |
| `MCSchedExit` | `StackOwnership`, `TaskListLive` | a thread that goes on after `thread_exit` executes on a stack that is free or somebody else's; the task's thread list still leads to a thread that exited |
| `MCIpcAlias` | `NamesAreLive` | a port under two names is freed under the second when the first is removed |
| `MCIpcSharedWake` | `BlockedWillBeWoken` | a second receiver takes the first one's place in the port, and nobody wakes the first |
| `MCIpcBusyWake` | `BlockedWillBeWoken` | a port is freed under the thread that waits on it, which sleeps for ever |
| `MCIpcTrap` | `ReceiveTakesMessage` | through the trap, a receive always looks up name 0 |
| `MCZoneLarge` | `NoZoneFault` | a zone of elements larger than a page, which `struct ipc_space` with its 24584 bytes is (ipc_space.c:15), makes `zalloc()` follow a null pointer |
| `MCPmapSlots` | `KernelVisible` | a PML4 slot that the kernel begins to use is missing in older address spaces, although pmap.c:140 says that kernel memory is visible from any |
| `MCPmapDestroy` | `BootTablesKept` | destroying an address space, as `exec_load()` does when there is no map, frees the kernel's own tables (and loses the page of the `pmap_t`), although pmap.c:9 says that they are kept |
| `MCVmMapCut` | `MappedIsCovered` | cutting an entry leaves pages mapped that no entry covers |
| `MCVmMapUnaligned` | `WiredIsMapped`, `CallsReturn` | the last page of an unaligned wired entry is not mapped, although vm_fault.c:13 says that wired pages never fault; calls on the last page of the kernel map do not return |
| `MCVmMapUnload` | `DestroyFreesPages` | pages mapped by `vm_map_page_range()` are not freed with the map |
| `MCExecOblique` | `LoadedIsMapped` | the last page of an unaligned segment is not mapped |
| `MCExecTables` | `TablesKept` | an image whose addresses are those of the kernel's page tables in physical memory is copied over them |
| `MCExecUnload` | `LoadIsolated` | `macho_unload()` and `exec_unload()`, which no code calls, change address spaces other than the image's |
| `MCBootConvention` | `ArgumentsArrive`, `ResultReturned`, `ErrorFlagged` | `syscall.S` keeps none of the promises of its lines 9 to 12: each argument is read from a wrong word (the caller's `rdi` is at `rsp + 48` and its `r9` at `rsp + 8`, the loads go from `rsp + 56` upwards, and find the saved `rbp`, `r11`, `rcx`, `rax` and words of the caller's stack); `pop rax` puts the number of the call over its result; and `pop rdx` brings the caller's own `rdx` back where an error flag is promised |

Other disagreements met on the way, which no property states: fb.c:20 says that the most
significant bit is the leftmost pixel, while `draw_char()` takes the least significant one; kern/syscall.h:6 speaks of
negative system call numbers, which `syscall_dispatch()` rejects; syscall.S ends in `sysret`
without a 64-bit operand size, and the GDT has no user segments; `ROADMAP.md` lists
`LC_UNIXTHREAD`, for which `macho_find_entry()` does not look (the entry point is then 0 and the load
succeeds); an image with a `__PAGEZERO` segment is always refused, since the user map begins at
0x1000.

Deadlock is not checked: a halted kernel (`cli; hlt`, a fault, memory exhausted, all
threads exited) has no further step, and that is the code's behaviour.

### Bounds

With three threads under the timer there are idle, the one that runs and one more, and a slot
is used again after an exit; that a thread may also leave the middle of a longer queue is
covered by the proofs, which have no bound. Two frames per stack let an interrupt hit a thread that was
resumed in the handler. `MaxTaskCount` only bounds the counter that
nothing decrements. A ring of two slots with three messages makes it full, empty and
wrap around; two names make one of them be removed and the table run out.
`RefModulus` is larger than any count reached. Memory has enough frames for every
operation to succeed and few enough for each to fail half way. With three levels of
tables a walk can fail between two of them, and four entries to a table give the kernel a slot of the PML4 that boot filled
and an empty one, which it fills before, between or after the copies. Element sizes are 3, 6, 7 and 9 bytes for pages of 8 and pointers of 2: rounding
takes 7 to a full page, and 9 is beyond one. Slots, pages and message bodies are
interchangeable and used as symmetry sets in safety runs only.

A screen of one column wraps with every character and one of three has a tab beyond its last
column; both have two rows and scroll. Numbers have 4 bits, with the most negative one among
them; ints have 6, and 65 is a system call number that is cut to 1, 8 the first beyond the table. With three callers one can
be inside a call that blocks, one be interrupted by the timer and one enter or return; the stack of each is bounded by its being in one call at a time.
`MaxPrinted` leaves room for a line after the messages of boot. Images have up to three segments of one or two
pages; 12 frames let one image be loaded and run out in the middle of another. Those that lie
among the allocator's pages hit the kernel image's, one that the kernel map may hold, and those of another program.

### Fairness

The scheduler is cooperative (sched.h:5), and the timer cannot be relied on: `irq_0` sends
no end-of-interrupt and the interrupt controller is never programmed. So `FairSpec`
assumes what a cooperative kernel must: `kmain` and the idle loop do not stop between
their calls, and a thread that holds the CPU yields sooner or later. In `IpcFairSpec` a
thread inside `mach_msg()` that has the CPU goes on, and because a thread may yield
only between two calls of `mach_msg()`, its yielding is strongly fair. Nothing is
assumed about threads creating, sending or exiting. `IrqFairSpec` adds that a handler that was
resumed returns and that an interrupt which the CPU and the controller let through is
taken; it does not assume that they do. `BootSpec` assumes that `kmain()`, alone on the CPU with
interrupts off, goes on.

## Proofs

`tlapm <module>` checks the proofs of a module. What they establish holds for every value of
the constants that the named assumptions of the modules (`SchedAssumption`, `IpcAssumption`,
`PmmAssumption`, ...) allow. A Boolean constant that opens a behaviour the code does not
survive is a hypothesis of the theorems it matters to: the configurations above show that they
fail without it.

| Theorem | States | Under |
|---|---|---|
| `SchedQueue`, `SchedStacks`, `SchedFault` | `TypeOK`, `QueueWF`, `OneRunning`, `StackOwnership`, `KernelEntryStack`, `FaultOnlyWithoutIdle` of `Spec` | no calls after exit |
| `SchedImplementsRoundRobin` | `Spec` implements `RoundRobin` | no calls after exit |
| `IrqImplementsSched` | the machine with its timer implements `Spec` | |
| `IrqImplementsRoundRobin`, `IrqQueue`, `IrqOneRunning`, `IrqEntryStack`, `IrqChosen` | the same with the timer, and `ChosenIsRunnable` | no calls after exit |
| `IpcMessages`, `IpcWaiter`, `IpcNames`, `IpcNamesNotReused` | `MessagesConserved`, `WaiterIsBlocked`, `NamesAreLive`, `NamesNotReused` | no calls after exit, no aliases |
| `IpcImplementsSched`, `IpcImplementsMailbox` | IPC implements `Sched` and `Mailbox` | no calls after exit, no aliases |
| `IpcWakeUp`, `IpcWoken` | `BlockedWillBeWoken`, `WokenFindsMessage` | and one receiver per port, no busy port removed |
| `PmmFreeCount`, `PmmPagesAccounted`, `PmmHandedOut` | `FreeCountExact`, `PagesAccounted`, `HandedOutIsSafe` | |
| `ZoneUsesPmm` | the zones use the page allocator by its calls alone | |
| `ZoneConserved`, `ZoneApart` | `ElementsConserved`, `ElementsApart` | |
| `ZoneTooLarge` | `TooLargeFaults` | |
| `PmapFrames`, `PmapOneAddress` | `PmapTypeOK`, `FramesAccounted`, `OneAddressChanges` | no address space destroyed |
| `PmapSharedSinceCopy` | `KernelSharedSinceCopy` | the same |
| `VmMapSorted`, `VmTaskMapSorted` | `MapSorted`, for `VmSpec` and with tasks | |
| `VmTypeCorrect`, `VmFrames`, `VmMappedIsCovered`, `VmWiredIsMapped`, `VmCallsReturn` | `VmTypeOK`, `FramesAccounted`, `MappedIsCovered`, `WiredIsMapped`, `CallsReturn` | whole pages, whole entries removed |
| `ExecLoadedIsMapped` | `LoadedIsMapped` | and ranges of the kernel map in the upper half, segments of whole pages |
| `ExecLoadIsolated` | `LoadIsolated` | as `ExecLoadedIsMapped` |
| `ExecEntryInImage` | `EntryInImage` | as `ExecLoadedIsMapped`, and images that enter where their segments are executable |
| `SyscallKeepsCaller`, `CallersKeepInterrupts`, `SyscallNotWild` | `SyscallTransparent`, `CallersInterruptible`, `NoWildCall` of the booted kernel | |
| `ConsoleShowsAll`, `PrintedNumbersReadBack` | `ConsoleFaithful`, `NumbersReadBack`, from the first message of the kernel on | |

"No calls after exit" is `~ ExitedKeepsCalling`, "no aliases" `~ Alias`; the last two hypotheses
of IPC are `~ SharedReceive` and `~ BusyRemove` (`MCIpcSharedWake`, `MCIpcBusyWake`). "No address space destroyed" is `~ LastRelease`
(`MCPmapDestroy` shows why), whole pages `WholePages` (`MCVmMapUnaligned`), whole entries `WholeEntries` (`MCVmMapCut`), segments of whole pages
`WholeImages` (`MCExecOblique`). `KernelRanges` says that the calls on
maps are those on `kernel_map`: no code enters a range in the map of a task. `EntryInText` is about the
image alone, not about the loader. None of them says where images lie in memory, where the kernel maps, or how large
elements are: those cases are inside the theorems. The constants of the passing runs `ipc_safety`, `pmap`, `vm_map` and
`exec` satisfy the hypotheses of the theorems about them.

### Arguments

*Scheduler.* The inductive invariant `IInv` joins the properties with `CpuInv`, which ties the phase
of boot, the current thread and the stack in use to each other: without it a state with a
current thread in the boot phase, or with two stacks exchanged, would satisfy the
properties and lead to one that does not. The argument rests on two lemmas about the
linked list, for any list and any thread: `EnqueueList` (appending a thread that is
not linked gives a list of one more) and `DequeueList` (unlinking a thread of the list gives
a list of the others). Acyclicity is stated by subsets ("every non-empty part of
the list has a thread whose successor is outside") because that needs no
induction. Each action then has a lemma of its own.

*Round robin.* `Follows(q, s)` says that the links of the queue `q` are those of the line `s`; a line that
follows the list is the one the refinement mapping walks (`FollowsOrder`), and holds exactly
the threads of the list (`FollowsCovers`, from acyclicity). `EnqueueFollows` and `DequeueFollows` say
what the two list operations do to the line, wherever the thread stands in it. The
timer adds no step: a switch in `irq_0` is a yield, or a turn of the idle loop (`IrqYieldStep`).

*IPC.* `IpcInv` adds to the scheduler's `IInv` three parts: `StoreInv` (the rings: which slots are occupied, by
messages that are not free and in no other ring), `NameInv` (no two names for a port, none for a port that is gone) and
`ThreadInv` (where each thread is in `mach_msg()` against its scheduler state). They need each other: that a
port's waiter is blocked depends on the scheduler, that the scheduler is called properly
(`IpcImplementsSched`) depends on the waiter. `WakeInv` is on top of it: whoever waits is
registered with his port, and whoever was woken has a message there that nobody else can take.
`IpcImplementsMailbox` reads the line of a port off its ring and shows what each step does to it.

*Memory.* `PmmInv` is about sets of pages; `PmmHandedOut` then goes down to bytes: where `find_bitmap()`
places the bitmap and how regions are rounded to pages. It assumes of the boot loader what
`LoaderAssumption` says: sizes and addresses are natural numbers, and the kernel image and the memory below
`LowMemory` begin or end at a page. `ZoneInv` says of each zone which
elements were cut from its pages and that lists and counters agree (`ZoneWF`), and of all zones that
their pages are apart; lemmas about popping, pushing and cutting the elements of a page carry it.
`ZoneAssumption` asks that pointers divide a page. `TooLargeFaults` is an equivalence and needs both directions at every
step: a page that is cut gives an element exactly when the element size, rounded as `zinit()` does, is no larger than the page, and
only an allocation that has just grown its zone can find the list empty.

*Page tables.* `FramesAccounted` counts what is reached from the roots; it is not inductive, and a
recursion over levels is a bad hypothesis. `PmapInv` says the same without one: there is a level for every frame in use
(`Tree`) such that links go down exactly one level (`LinksDown`), no frame has two links outside the kernel's half
(`LinksApart`), every frame below the roots that is not somebody's `pmap_t` has one (`AllLinked`), and the
copies of the kernel's half agree with the kernel's (`CopiesAgree`). A walk that takes
frames, a mapping, an unmapping and a new PML4 each change this forest in one place (`LinkFrame`, `UnlinkPage`, `NewRoot`),
and a walk that fails half way leaves a forest with empty tables in it. What an entry that
was written changes for a walk from any root is `LeafWritten` and `SamePath`: pages with the same
indices on every level are the same page (`SameIndices`). Back at `FramesAccounted`, the recursive definitions
give the same frames (`AllTables`), and as many links as frames (`OneToOne`). For `KernelSharedSinceCopy` the invariant says that a copy
of the kernel's PML4 has each entry of its upper half as the kernel has it or not at all (`CopiesAgree`); two walks that start from equal entries
see the same tables for good (`SharedBelow`, `SeenBelow`), and a slot becomes `Late` only by the write that fills it in the kernel's PML4 (`LateStep`). The provers know nothing of
powers: `PmapAssumption` spells out those of `FANOUT`.

*Address maps.* `MapsInv` says that every entry ends before *each* later one starts, where `MapSorted`
speaks of neighbours: the stronger form is the one that survives taking entries out (`KeptListOK`). An
insertion is at the first entry that does not start below the new one, and the check for
overlaps makes that the right place on both sides (`InsertedListOK`). The list never depends on the page
tables except for whether memory ran out, so both outcomes are covered. That the sum of start and
size, which wraps around, gives a range with an address in it is `WrapDiffers`.

`VmInv` adds to `MapsInv` and `PmapInv` that the tables follow the entries (`Follows`): a mapped page of the kernel map lies in an
entry and has its rights, and a wired entry is mapped throughout. Neither is inductive alone, since
removing an entry unmaps what its neighbour may not share (`PagesApart`), and entering one
relies on its pages being absent (`NewPagesAbsent`). The loops are followed turn by turn: `MapPagesMap` says how far a loop that
runs out of memory got, `UnmapPagesUnmap` and `RemovedPages` what the roll-back and `vm_map_remove()` take away,
`FollowsUndo` that both together restore the tables up to empty ones. `NoLoopWraps` shows that whole pages keep the loops from
the last address, where the addition wraps around.

*Program loading.* The maps of tasks have no entries, so `ExecInv` cannot say what is mapped by them: it says of each
loaded program that its segments are (`SegmentsMapped`), the last segment over a page deciding about its rights, as the
loop maps one over the other. A page that is mapped over is lost to the allocator; in the forest it waits
for ever in the set `D` that nothing links (`Treed`). `LoadTurn` and `LoadLoop` carry this, the base found so far
(`BaseFound`) and the bytes of frames in use through the loop over the segments with its early
return. Other tasks keep their pages because a load writes to its own
root and frames that were free, the kernel's calls because they change the upper half alone (`KernelKept`). That
bytes stay too, but for those in the segments' ranges (`BytesBut`, `CopiesOf`), rests on `MappedInUse`: what is mapped is not free,
so that no page of others is zeroed. A load that finds no map frees tables that are in use; nothing comes after it, and the invariant
holds up to there (`ExecHolds`, `NoMapStep`). An image without a segment at file offset 0 leaves the base at 0 through
the loop (`Headed`, `EntryBare`).

*System calls.* `SyscallInv` says of every caller what is on its stack, by the place where it lost the CPU: its own words, those of
`syscall_entry` above them if it is in a call, those of the handler's switch or of `irq_0` and its switch on top; and of the one that has the CPU
what is in the registers. Pops reverse pushes (`PopsReversePushes`), so a switch to a caller rebuilds just the registers that
the place needs: all of them for an interrupt, the callee-saved ones for a call, from which `syscall_entry` pops the rest.
`CallersInterruptible` follows the flag along the same places: it is off in handlers, `sysret` and `iretq` bring it back from
words that were saved when it was on. `SyscallNotWild` is arithmetic with remainders; the provers know
nothing of powers, so `SyscallAssumption` spells out that the two powers of two are
natural numbers and one twice the other.

*Console.* `ConsoleInv` says that the screen and the endless one are alike (`Alike`): same column, the rows of the one
are the last rows of the other, and all rows of the endless one below its cursor are blank, without
which the blank row that `scroll_up()` brings in would match nothing. `PutcAlike` shows that a
character keeps this, whether it scrolls or not; that the endless screen is high enough, because a character moves the
cursor down one row at most, is part of the invariant. The number of characters is bounded only by `MaxPrinted`,
which is any natural number. The loops over the characters of a text are followed with `UpRecursion`.
For numbers, the value of the first `i` of `n` digits is the number divided by `base^(n-i)` (`PrintedReadsBack`), so that of all
digits is the number; no two digits look the same (`DigitsDiffer`); and the most negative number is its own
negation in the machine's arithmetic (`Negated`). `ConsoleAssumption` spells out the powers, and `BootAssumption` says what the
code passes to a conversion: numbers to those of numbers, within the range of the type where that is signed.

`NaturalLemmas` collects what the arithmetic needs. `LeastNatural` (a non-empty set of natural numbers has
a least element, from the theorems about finite sets) gives `SetInduction`, the form
of induction used where a definition is a recursive function (the walk along the run queue,
the loop of `vm_map_remove()`). From it follow induction over an interval (`UpInduction`), and that a
function defined by recursion along one exists (`UpRecursion`, and downwards `DownRecursion` in `PmapProofs`): walks over levels,
loops over pages, over segments and over characters are all instances.

`KernelEntryStack` and `VmTypeOK` are proved and belong to no run.

### Only model-checked

* Liveness (`RunnableRunsOrStuck`, `InterruptsComeBack`, `SentIsReceived`, `BootOutcome`): it needs
  fairness and `ENABLED`, which the prover does not support.
* `BootOrdered`: the boot sequence has no parameter that matters to it, so that TLC sees all of it.

## Not modelled

The vendored Limine files; `vga.c`, which no code calls; pixels and the colours of the frame
buffer; bits of descriptors beyond their kind; user mode, which the GDT has no segments for; large
pages in the boot loader's tables and the TLB; `pmap_switch()`, `machine_halt()`, `serial_puts()`,
`kstrlen()` and `kstrcmp()`, which have no caller; the timer inside kernel functions other than
`sched_run()` (a message is printed, and a page mapped, in one step).

## State of the work

Every part of the kernel that changes state is modelled. Every safety property of the
passing runs but `BootOrdered` is proved for all sizes; liveness stays with TLC. When
the kernel grows, the hypotheses of the theorems are the list to look at: destroying address spaces,
unaligned ranges, cut entries, several receivers on a port and the removal of ports in use are where the code is not ready yet, and
each has a run or a configuration that shows it.
