---------------------------- MODULE SyscallEntry ----------------------------
(***************************************************************************)
(* The way of a system call: syscall_entry of hal/x86_64/syscall.S saves   *)
(* the caller's registers on the stack the caller was using, loads the     *)
(* arguments of syscall_dispatch() from there and calls it; it looks the   *)
(* number up and a wrapper passes some of the arguments on (syscall.c).    *)
(* There is one CPU: a handler that blocks, and a timer interrupt, hand    *)
(* its registers to another thread, and of the thread that has lost them   *)
(* only its stack remains (thread_switch.S, irq_0).                        *)
(*                                                                         *)
(* Registers and stack words are numbers; every register of every caller   *)
(* starts with a number of its own, so that it can be told where a value   *)
(* came from.  A stack is a sequence of words, its top first; the return   *)
(* addresses of calls are left out.                                        *)
(***************************************************************************)
EXTENDS Integers, Sequences, SequencesExt

CONSTANTS
  Callers,      \* the threads that execute the syscall instruction, numbers
  Numbers,      \* what callers put in rax
  IntWidth,     \* bits of an int, and of an uint32_t
  MAX_SYSCALL,  \* entries of syscall_table
  Results       \* the kern_return_t values

\* What the proofs use of powers of two is spelt out: the provers know none.
ASSUME SyscallAssumption ==
  /\ Callers \subseteq Nat \ {0} /\ Numbers \subseteq Int
  /\ IntWidth \in Nat \ {0} /\ 2^(IntWidth - 1) > MAX_SYSCALL
  /\ 2^(IntWidth - 1) \in Nat /\ 2^IntWidth = 2 * 2^(IntWidth - 1)
  /\ MAX_SYSCALL \in Nat /\ MAX_SYSCALL > 7
  /\ Results \subseteq Nat

VARIABLES
  regs,    \* the registers of the CPU
  iflag,   \* are interrupts on?
  current, \* the caller that has the CPU, or Nobody: another thread has it
  stk,     \* the stack of each caller
  way,     \* how a caller lost the CPU, in a "call" of sched_run() or in "irq_0";
           \* "new" if it never had it
  call     \* the call it is in: number, arguments of syscall_dispatch() and
           \* the handler with what the wrapper passes it; or the result of its
           \* last one

syscallVars == <<regs, current, stk, way, call>>

Nobody == 0

\* syscall.S: the order of the pushes and of the pops.
PushOrder == <<"rax", "rcx", "r11", "rbp", "rdi", "rsi", "rdx", "r10", "r8", "r9">>
PopOrder  == <<"r9", "r8", "r10", "rdx", "rsi", "rdi", "rbp", "r11", "rcx", "rax">>

\* Mutant: rbx is neither pushed nor popped.
SwitchOrderShort == <<"rbp", "r12", "r13", "r14", "r15">>

\* machine_switch_context(): its pushes; the pops go the other way.
SwitchOrder == <<"rbp", "rbx", "r12", "r13", "r14", "r15">>

\* irq_0: the registers that the compiler saves in an interrupt function which
\* calls others.
InterruptOrder == <<"rax", "rcx", "rdx", "rsi", "rdi", "r8", "r9", "r10", "r11">>

\* The offsets from rsp at which the arguments are read.
ArgOffset == <<56, 64, 72, 80, 88, 96>>

\* The registers that a C function leaves as they were; rsp is the top of stk.
CalleeSaved == {"rbp", "rbx", "r12", "r13", "r14", "r15"}
Registers   == Range(PushOrder) \cup CalleeSaved
Numbering   == PushOrder \o <<"rbx", "r12", "r13", "r14", "r15">>

\* What caller c has in its registers and on its stack; the flags it came with
\* tell whether interrupts were on.
Own(c, r)     == 1000 * c + CHOOSE i \in 1..15 : Numbering[i] = r
Rip(c)        == 1000 * c + 100
Rflags(c, on) == 1000 * c + IF on THEN 101 ELSE 102
UserStack(c)  == [i \in 1..3 |-> 1000 * c + 200 + i]
Outside(result) == [in |-> FALSE, result |-> result]

KERN_SUCCESS       == 0
KERN_NOT_SUPPORTED == 46

-----------------------------------------------------------------------------
(* syscall.c                                                               *)

\* The first parameter of syscall_dispatch() is an int.
AsInt(rax) == ((rax + 2^(IntWidth - 1)) % 2^IntWidth) - 2^(IntWidth - 1)

\* syscall_table as syscall_init() leaves it, and what is beyond it.
TableAt(n) ==
  CASE n = 1 -> "mach_msg"
    [] n = 2 -> "thread_create"
    [] n = 3 -> "thread_exit"
    [] n = 7 -> "exec"
    [] n \in (0 .. MAX_SYSCALL - 1) \ {1, 2, 3, 7} -> "null"
    [] OTHER -> "wild"

\* Mutant: the limit is taken for the last entry.
HandlerOfOff(rax) ==
  IF AsInt(rax) < 0 \/ AsInt(rax) > MAX_SYSCALL THEN "null" ELSE TableAt(AsInt(rax))

\* syscall_dispatch(): "null" is answered KERN_NOT_SUPPORTED.
HandlerOf(rax) ==
  IF AsInt(rax) < 0 \/ AsInt(rax) >= MAX_SYSCALL THEN "null" ELSE TableAt(AsInt(rax))

\* The wrappers; mach_msg() gets 32-bit sizes, no name to receive from, and no
\* timeout.
PassedOn(handler, arg) ==
  CASE handler = "mach_msg"      -> <<arg[1]>> \o [i \in 1..3 |-> arg[i + 1] % 2^IntWidth] \o <<0, 0, 0>>
    [] handler = "thread_create" -> <<arg[1], arg[3], arg[4]>>
    [] handler = "exec"          -> SubSeq(arg, 1, 3)
    [] OTHER                     -> << >>

-----------------------------------------------------------------------------
(* The stack.                                                              *)

\* s with registers of r pushed in an order, r with registers popped from s
\* in an order, and what remains of s without its first n words.
Pushed(order, r, s) == Reverse([i \in 1..Len(order) |-> r[order[i]]]) \o s
Popped(order, r, s) ==
  [x \in Registers |-> IF x \in Range(order) THEN s[CHOOSE i \in 1..Len(order) : order[i] = x] ELSE r[x]]
Rest(n, s) == SubSeq(s, n + 1, Len(s))

\* After C code ran, only these registers are as they were.
AfterC(r) == [x \in Registers |-> IF x \in CalleeSaved THEN r[x] ELSE 0]

SyscallInit ==
  /\ regs = [r \in Registers |-> 0] /\ iflag = FALSE /\ current = Nobody
  /\ stk = [c \in Callers |-> UserStack(c)] /\ way = [c \in Callers |-> "new"]
  /\ call = [c \in Callers |-> Outside({})]

\* From the syscall instruction, which leaves the return address in rcx and
\* the flags in r11 and clears those of fmask, to the handler.
SyscallEnter(rax, fmask) ==
  LET c     == current
      r     == [regs EXCEPT !["rax"] = rax, !["rcx"] = Rip(c), !["r11"] = Rflags(c, iflag)]
      frame == <<0>> \o Pushed(PushOrder, r, stk[c])
      arg   == [i \in 1..6 |-> frame[ArgOffset[i] \div 8 + 1]]
  IN  /\ c # Nobody /\ ~ call[c].in
      /\ regs' = [r EXCEPT !["rdi"] = rax, !["rsi"] = arg[1], !["rdx"] = arg[2],
                           !["rcx"] = arg[3], !["r8"] = arg[4], !["r9"] = arg[5]]
      /\ iflag' = (iflag /\ "IF" \notin fmask)
      /\ stk' = [stk EXCEPT ![c] = <<arg[6]>> \o frame]
      /\ call' = [call EXCEPT ![c] = [in |-> TRUE, rax |-> rax, args |-> arg,
                                      handler |-> HandlerOf(rax),
                                      passed |-> PassedOn(HandlerOf(rax), arg)]]
      /\ UNCHANGED <<current, way>>

\* Mutant: sysret leaves the flags as they are.
SysretFlagsKept(c, r11) == iflag

\* sysret takes the flags from r11.
SysretFlags(c, r11) == r11 = Rflags(c, TRUE)

\* The handler returns, and the registers of the caller are popped up to sysret.
SyscallReturn(result) ==
  LET c        == current
      returned == [AfterC(regs) EXCEPT !["rax"] = result]
      words    == Rest(2, stk[c])
      popped   == Popped(PopOrder, returned, words)
  IN  /\ c # Nobody /\ call[c].in
      /\ call[c].handler = "null" => result = KERN_NOT_SUPPORTED
      /\ regs' = popped
      /\ iflag' = SysretFlags(c, popped["r11"])
      /\ stk' = [stk EXCEPT ![c] = Rest(10, words)]
      /\ call' = [call EXCEPT ![c] = Outside({result})]
      /\ UNCHANGED <<current, way>>

\* machine_switch_context() leaves registers on the stack of the outgoing thread,
\* above those that irq_0 saved; the flags are not among them.
Left(c, how) ==
  Pushed(SwitchOrder, regs, IF how = "irq_0" THEN Pushed(InterruptOrder, regs, stk[c]) ELSE stk[c])

\* What it takes from the stack s of the incoming one.
Taken(s) == Popped(Reverse(SwitchOrder), AfterC(regs), s)

\* How caller d goes on: a new one starts in its own code by thread_trampoline,
\* which turns interrupts on; iretq restores the flags of what was interrupted,
\* and in a handler that had called sched_run() they are as the last thread
\* left them.
Resumed(d, how) ==
  LET rest == Rest(Len(SwitchOrder), stk[d])
  IN  CASE way[d] = "new"   -> [regs |-> [r \in Registers |-> Own(d, r)], iflag |-> TRUE, stk |-> stk[d]]
        [] way[d] = "irq_0" -> [regs |-> Popped(Reverse(InterruptOrder), Taken(stk[d]), rest),
                                iflag |-> TRUE, stk |-> Rest(Len(InterruptOrder), rest)]
        [] OTHER            -> [regs |-> Taken(stk[d]), iflag |-> how = "call" /\ iflag, stk |-> rest]

\* The CPU goes to another thread: in a handler that blocks or yields, or in
\* irq_0, whose gate turns interrupts off.
SwitchTo(d, how) ==
  LET c  == current
      to == IF d = Nobody
              THEN [regs |-> [r \in Registers |-> 0], iflag |-> how = "call" /\ iflag, stk |-> << >>]
              ELSE Resumed(d, how)
  IN  /\ d # c
      /\ IF how = "irq_0" THEN iflag ELSE c # Nobody => call[c].in /\ call[c].handler # "null"
      /\ current' = d /\ regs' = to.regs /\ iflag' = to.iflag
      /\ way' = [x \in Callers |-> IF x = c THEN how ELSE way[x]]
      /\ stk' = [x \in Callers |-> IF x = c THEN Left(c, how) ELSE IF x = d THEN to.stk ELSE stk[x]]
      /\ UNCHANGED call

-----------------------------------------------------------------------------
(* Properties                                                              *)

(* A caller that is back from its calls finds its stack and its registers  *)
(* as they were, but for rcx and r11, in which the return address and the  *)
(* flags come back, and rax and rdx, which are the kernel's to set: however *)
(* long its handler blocked, whoever had the registers of the CPU          *)
(* meanwhile, and wherever the timer interrupted (syscall.S:22-64, which   *)
(* leaves rbx and r12 to r15 to thread_switch.S:26-43).                    *)
SyscallTransparent ==
  current # Nobody /\ ~ call[current].in =>
    /\ \A r \in Registers \ {"rax", "rdx", "rcx", "r11"} : regs[r] = Own(current, r)
    /\ regs["rcx"] \in {Own(current, "rcx"), Rip(current)}
    /\ regs["r11"] \in {Own(current, "r11"), Rflags(current, TRUE)}
    /\ stk[current] = UserStack(current)

(* Whatever number is in rax, negative, beyond the table or wider than the *)
(* int it is passed as, no handler is taken from outside syscall_table,    *)
(* and one that is called was asked for by the low bits of the number      *)
(* (syscall.c:95-107).                                                     *)
NoWildCall ==
  \A c \in Callers : call[c].in =>
    /\ call[c].handler # "wild"
    /\ call[c].handler # "null" => TableAt(call[c].rax % 2^IntWidth) = call[c].handler

(* syscall_dispatch() gets the caller's arguments: "rdi, rsi, rdx, r10,    *)
(* r8, r9 = arguments" (syscall.S:9), as the comments of syscall.S:40-45   *)
(* say of the loads.                                                       *)
ArgumentsArrive ==
  \A c \in Callers : call[c].in =>
    call[c].args = <<Own(c, "rdi"), Own(c, "rsi"), Own(c, "rdx"),
                     Own(c, "r10"), Own(c, "r8"), Own(c, "r9")>>

(* "on exit: rax = return value" (syscall.S:10-11).                        *)
ResultReturned ==
  current # Nobody /\ ~ call[current].in =>
    \A result \in call[current].result : regs["rax"] = result

(* "on exit: ... rdx = error flag (0 = success)" (syscall.S:10-12).        *)
ErrorFlagged ==
  current # Nobody /\ ~ call[current].in =>
    \A result \in call[current].result : regs["rdx"] = 0 <=> result = KERN_SUCCESS
=============================================================================
