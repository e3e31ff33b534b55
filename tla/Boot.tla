-------------------------------- MODULE Boot --------------------------------
(***************************************************************************)
(* From the boot loader to the idle loop: kmain() of main.c with hal_init()*)
(* of hal.c, and what it sets up - the console, the descriptor tables, the *)
(* system call table, memory, the timer - or reports when it cannot go on. *)
(* Afterwards threads print and make system calls, and an exception stops  *)
(* the machine with a report (idt.c).  The answers of the boot loader are  *)
(* chosen as they are looked at.  A message is one character of its own    *)
(* and a new line, with a number where one varies: the others are like it. *)
(***************************************************************************)
EXTENDS Console, SyscallEntry, Cpu

CONSTANTS
  Screens,    \* columns and rows of the frame buffers there may be
  Numerals,   \* the numbers that kmain() prints
  Prints,     \* conversions and arguments with which kernel code prints
  Texts,      \* the other texts that kernel code prints
  Faults      \* vectors of the exceptions that kernel code may cause

ASSUME BootAssumption ==
  /\ Screens \subseteq (Nat \ {0}) \X (Nat \ {0}) /\ Numerals \subseteq Int
  /\ \A p \in Prints :
       /\ p[1] \in STRING
       /\ p[1] \in Signed => p[2] \in -(2^(IntBits - 1)) .. 2^(IntBits - 1) - 1
       /\ p[1] \in {"u", "lu", "x", "lx", "X", "p"} => p[2] \in Int
       /\ p[1] \in {"c", "s"} => p[2] \in STRING
  /\ Texts \subseteq Seq(STRING)
  /\ Faults \subseteq 0..31

VARIABLES
  stage,   \* where kmain() is; "idle" when it is in sched_idle()
  cpu,     \* what the CPU and the timer are programmed with
  ready,   \* what else has been set up
  halted   \* cli; hlt for good

bootVars == <<stage, cpu, ready, iflag, halted>>

Message(m) == <<m, "\n">>

Errors == {"E revision", "E hhdm", "E memmap", "E pmm", "E fault", "E exception"}

-----------------------------------------------------------------------------
\* kmain() gets from one stage to the next.
Advance(from, to) ==
  /\ stage = from /\ ~ halted
  /\ stage' = to
  /\ UNCHANGED <<iflag, halted, syscallVars>>

\* It finds or sets up a part, and prints a text.
SetUp(from, to, part, text) ==
  Advance(from, to) /\ ready' = ready \cup part /\ kputs(text) /\ UNCHANGED cpu

\* It leaves the CPU as in d.
Program(from, to, d) == Advance(from, to) /\ cpu' = d /\ UNCHANGED <<ready, consoleVars>>

\* hal_halt(), and the end of exception_handler() and isr_14, after a report.
hal_halt(text) ==
  /\ kputs(text)
  /\ halted' = TRUE /\ iflag' = FALSE
  /\ UNCHANGED <<stage, cpu, ready, syscallVars>>

Fails(at, message) == stage = at /\ ~ halted /\ hal_halt(Message(message))

early_console ==
  SetUp("start", "revision", {"serial"}, <<"M booting", "\n", "M dana", "\n">>)

base_revision ==
  \/ SetUp("revision", "hhdm", {}, << >>)
  \/ Fails("revision", "E revision")

hhdm_response ==
  \/ /\ Advance("hhdm", "screen") /\ UNCHANGED <<cpu, ready>>
     /\ \E n \in Numerals : kprintf(fb, "M hhdm", "lx", n)
  \/ Fails("hhdm", "E hhdm")

\* There may be no frame buffer, or one that is not RGB.
framebuffer_response ==
  \/ SetUp("screen", "memmap", {}, << >>)
  \/ /\ Advance("screen", "memmap") /\ UNCHANGED <<cpu, ready>>
     /\ \E s \in Screens : kprintf(fb_init(s[1], s[2]), "M screen", "u", s[1])

memmap_response ==
  \/ /\ Advance("memmap", "cpu") /\ UNCHANGED <<cpu, ready>>
     /\ \E n \in Numerals : kprintf(fb, "M memmap", "u", n)
  \/ Fails("memmap", "E memmap")

\* Mutant: the task register is loaded before the table is.
hal_init_swapped ==
  \/ Program("cpu", "gdt", cpu_init_self(cpu))
  \/ Program("gdt", "tss", gdt_load_tss(cpu))
  \/ Program("tss", "idt", gdt_init(cpu))
  \/ Program("idt", "lstar", idt_init(cpu))
  \/ Program("lstar", "table", syscall_arch_init(cpu))
  \/ SetUp("table", "pmm", {"table"}, Message("M table") \o Message("M tables"))

hal_init ==
  \/ Program("cpu", "gdt", cpu_init_self(cpu))
  \/ Program("gdt", "tss", gdt_init(cpu))
  \/ Program("tss", "idt", gdt_load_tss(cpu))
  \/ Program("idt", "lstar", idt_init(cpu))
  \/ Program("lstar", "table", syscall_arch_init(cpu))
  \/ SetUp("table", "pmm", {"table"}, Message("M table") \o Message("M tables"))

-----------------------------------------------------------------------------
\* Mutant: the failure is not reported.
pmm_init_silent ==
  \/ SetUp("pmm", "pmap", {"pmm"}, Message("M pmm"))
  \/ SetUp("pmm", "pmap", {}, << >>)

\* When no region fits the bitmap, kmain() goes on without one.
pmm_init ==
  \/ SetUp("pmm", "pmap", {"pmm"}, Message("M pmm"))
  \/ SetUp("pmm", "pmap", {}, Message("E pmm"))

pmap_init   == SetUp("pmap", "vm", {"pmap"}, Message("M pmap"))
vm_map_init == SetUp("vm", "sched", {"vm"}, Message("M vm") \o Message("M task"))
sched_init  == SetUp("sched", "clock", {"sched"}, << >>)
clock_init  == Program("clock", "threads", pit_init(cpu, CLOCK_HZ))

\* The first allocation: without a bitmap it reads address 0, which is a page
\* fault, or what lies there is taken for the bitmap.  kmain() ignores the
\* result.
sched_create_idle ==
  \/ SetUp("threads", "sti", {"idle"}, Message("M complete"))
  \/ SetUp("threads", "sti", {}, Message("M complete"))
  \/ "pmm" \notin ready /\ Fails("threads", "E fault")

cpu_enable_interrupts ==
  /\ stage = "sti" /\ ~ halted
  /\ stage' = "idle" /\ iflag' = TRUE
  /\ UNCHANGED <<cpu, ready, halted, consoleVars, syscallVars>>

-----------------------------------------------------------------------------
(* Threads.                                                                *)

Up == stage = "idle" /\ ~ halted

\* exec_load() reports a failure (%d) or the task (%p), and so may others.
ThreadPrints ==
  /\ Up
  /\ \/ \E p \in Prints : kprintf(fb, "M exec", p[1], p[2])
     \/ \E text \in Texts : kputs(text)
  /\ UNCHANGED <<bootVars, syscallVars>>

ThreadCalls ==
  /\ Up
  /\ \/ \E rax \in Numbers : SyscallEnter(rax, cpu.fmask)
     \/ \E result \in Results : SyscallReturn(result)
     \/ \E d \in Callers \cup {Nobody}, how \in {"call", "irq_0"} : SwitchTo(d, how)
  /\ UNCHANGED <<stage, cpu, ready, halted, consoleVars>>

\* exception_handler(), or isr_14 when vm_fault() does not resolve the fault;
\* without a gate that works the machine resets and shows nothing.
Exception ==
  /\ Up
  /\ \E v \in Faults :
       hal_halt(IF ~ Delivers(cpu, v) THEN << >>
                ELSE Message(IF cpu.idt[v].handler = "isr_14" THEN "E fault" ELSE "E exception"))

BootInit ==
  /\ fb = NoScreen /\ serial = << >> /\ printed = << >>
  /\ last = [conv |-> "none", arg |-> 0, text |-> << >>]
  /\ SyscallInit
  /\ stage = "start" /\ cpu = BootCpu /\ ready = {} /\ halted = FALSE

kmain ==
  \/ early_console \/ base_revision \/ hhdm_response \/ framebuffer_response \/ memmap_response
  \/ hal_init \/ pmm_init \/ pmap_init \/ vm_map_init \/ sched_init \/ clock_init
  \/ sched_create_idle \/ cpu_enable_interrupts

BootNext == kmain \/ ThreadPrints \/ ThreadCalls \/ Exception

allVars == <<consoleVars, syscallVars, bootVars>>

\* kmain() is alone on the CPU, with interrupts off, until it is done.
BootSpec == BootInit /\ [][BootNext]_allVars /\ WF_allVars(kmain)

-----------------------------------------------------------------------------
(* Properties                                                              *)

Reported == \E i \in 1..Len(printed) : printed[i] \in Errors

(* Whatever the boot loader answers, kmain() comes to an end: it reaches   *)
(* the idle loop with interrupts on, the CPU's tables fit to take every    *)
(* exception, the timer and system calls, and every part set up, the idle  *)
(* thread possibly excepted (main.c:127); or the console shows what failed *)
(* (main.c:67-133, hal.c:36-44, pmm.c:65-68, idt.c:88-99).                 *)
BootOutcome ==
  /\ <>[](\/ /\ stage = "idle" /\ CpuSetUp(cpu)
             /\ {"serial", "table", "pmm", "pmap", "vm", "sched"} \subseteq ready
          \/ (halted \/ stage = "idle") /\ Reported)
  /\ <>((stage = "idle" /\ iflag) \/ Reported)

(* On the way there every part finds what it uses: nothing is printed      *)
(* before the serial line is set up, no register of the CPU and no gate    *)
(* that the kernel loads names a segment that is not in the table in use,  *)
(* memory is set up before what allocates from it, or reported missing,    *)
(* and interrupts come on only when tables, timer and scheduler are there  *)
(* for them (main.c:67-133, hal.c:36-44).                                  *)
BootOrdered ==
  /\ printed # << >> => "serial" \in ready
  /\ cpu.cs # BootCpu.cs => KindOf(cpu, cpu.cs) = "code" /\ KindOf(cpu, cpu.ds) = "data"
  /\ cpu.tr # 0 => KindOf(cpu, cpu.tr) = "tss"
  /\ \A v \in DOMAIN cpu.idt : Delivers(cpu, v)
  /\ "pmap" \in ready => "pmm" \in ready \/ Reported
  /\ "idle" \in ready => {"pmap", "vm", "sched"} \subseteq ready
  /\ iflag => CpuSetUp(cpu) /\ {"table", "sched"} \subseteq ready

(* Interrupts are on for a caller that is back from its calls, although    *)
(* the syscall instruction turns them off, handlers block with them off,   *)
(* and a switch does not save the flags (syscall_setup.c:21, syscall.S:64, *)
(* thread_switch.S:26-43).                                                 *)
CallersInterruptible ==
  Up /\ current # Nobody /\ ~ call[current].in => iflag
=============================================================================
