-------------------------------- MODULE Cpu --------------------------------
(***************************************************************************)
(* What hal_init() and clock_init() program the CPU and the timer with:    *)
(* the data of the CPU (cpu.c), the descriptor tables (gdt.c, idt.c), the  *)
(* registers of the syscall instruction (syscall_setup.c) and the divisor  *)
(* of the timer (pit.c).  The operators take and return this state d.  A   *)
(* descriptor is its kind: the bits of base and limit are those of a flat  *)
(* segment.                                                                *)
(***************************************************************************)
EXTENDS Integers

GDT_KERNEL_CODE == 8
GDT_KERNEL_DATA == 16
GDT_TSS         == 24
IRQ_BASE        == 32
KERNEL_CS       == 8
USER_CS         == 27
CLOCK_HZ        == 100
PIT_FREQUENCY   == 1193182

\* gdt[], idt[] and cpu_data_store[] are zero; the segment registers hold
\* selectors of the boot loader's table, and the task register none.  gdtr tells
\* whose table the CPU looks descriptors up in.
BootCpu ==
  [ cpus |-> 0, cpu_data_ptr |-> "null", fsbase |-> "boot loader",
    gdt |-> [i \in 0..4 |-> "empty"], gdtr |-> "boot loader", cs |-> 40, ds |-> 48, tr |-> 0,
    idt |-> << >>, lstar |-> "none", star |-> [kernel |-> 0, user |-> 0],
    fmask |-> {}, sce |-> FALSE, pit_freq |-> 0, divisor |-> 0 ]

-----------------------------------------------------------------------------
cpu_init_self(d) ==
  [d EXCEPT !.cpus = @ + 1, !.cpu_data_ptr = "cpu_data", !.fsbase = "cpu_data"]

gdt_set(table, i, kind) == [table EXCEPT ![i] = kind]

\* A descriptor of 16 bytes takes two entries.
gdt_set_tss(table, i) == [table EXCEPT ![i] = "tss", ![i + 1] = "tss upper half"]

\* Loading fs undoes the base that cpu_init_self() wrote.
gdt_init(d) ==
  [d EXCEPT !.gdt = gdt_set(gdt_set(gdt_set(@, 0, "null"), 1, "code"), 2, "data"),
            !.gdtr = "gdt", !.cs = GDT_KERNEL_CODE, !.ds = GDT_KERNEL_DATA, !.fsbase = "zero"]

gdt_load_tss(d) == [d EXCEPT !.gdt = gdt_set_tss(@, 3), !.tr = GDT_TSS]

\* An interrupt gate to handler.
idt_set(handler) == [selector |-> GDT_KERNEL_CODE, handler |-> handler]

idt_init(d) ==
  [d EXCEPT !.idt = [v \in 0 .. IRQ_BASE |->
     idt_set(CASE v = 14 -> "isr_14" [] v = IRQ_BASE -> "irq_0" [] OTHER -> "isr")]]

\* The mask 0x200600 has the bits of the interrupt flag, the direction flag
\* and the identification flag.
syscall_arch_init(d) ==
  [d EXCEPT !.lstar = "syscall_entry", !.sce = TRUE,
            !.star = [kernel |-> KERNEL_CS, user |-> USER_CS],
            !.fmask = {"IF", "DF", "ID"}]

\* The divisor goes out in two bytes.
pit_init(d, frequency) ==
  LET divisor == PIT_FREQUENCY \div frequency
  IN  [d EXCEPT !.pit_freq = frequency,
                !.divisor = (divisor % 256) + 256 * ((divisor \div 256) % 256)]

-----------------------------------------------------------------------------
KindOf(d, selector) ==
  IF d.gdtr = "gdt" /\ selector \div 8 \in DOMAIN d.gdt THEN d.gdt[selector \div 8]
                                                      ELSE "not the kernel's"

\* Vector v can be delivered: it has a gate, and the gate a code segment.
Delivers(d, v) == v \in DOMAIN d.idt /\ KindOf(d, d.idt[v].selector) = "code"

(* Every selector the CPU uses in kernel mode, in its registers, in a gate *)
(* or on the syscall instruction, names a descriptor of the kind needed;   *)
(* the data of the CPU is there, and the timer counts what was asked.      *)
CpuSetUp(d) ==
  /\ d.cpu_data_ptr = "cpu_data" /\ d.cpus = 1
  /\ KindOf(d, d.cs) = "code" /\ KindOf(d, d.ds) = "data"
  /\ KindOf(d, d.tr) = "tss" /\ KindOf(d, d.tr + 8) = "tss upper half"
  /\ \A v \in 0 .. IRQ_BASE : Delivers(d, v)
  /\ d.lstar = "syscall_entry" /\ d.sce /\ "IF" \in d.fmask
  /\ KindOf(d, d.star.kernel) = "code" /\ KindOf(d, d.star.kernel + 8) = "data"
  /\ d.divisor = PIT_FREQUENCY \div d.pit_freq
=============================================================================
