-------------------------------- MODULE Irq --------------------------------
(***************************************************************************)
(* The timer interrupt under the scheduler: irq_0 of idt.c, the tick of    *)
(* pit.c, clock_delay_ms() of clock.c, and the interrupt flag as           *)
(* machine_switch_context() and thread_trampoline leave it.  The gate of   *)
(* irq_0 is an interrupt gate, so the handler runs with interrupts off and *)
(* its iretq puts them back on; but the handler itself calls               *)
(* thread_yield(), and a switch keeps the flag of whoever switches.  A     *)
(* thread may therefore be resumed inside irq_0 with interrupts on, or in  *)
(* its own code with interrupts off.                                       *)
(*                                                                         *)
(* The module extends the scheduler: every call of Sched is made here by   *)
(* code that may be interrupted between two calls.  In IrqCutSpec the      *)
(* timer may also hit sched_run() after it chose and before it wrote.      *)
(***************************************************************************)
EXTENDS SchedRefinement

CONSTANTS
  CLOCK_HZ,  \* the frequency clock_init() gives the timer
  Delays,    \* the delays asked of clock_delay_ms(), in ms
  MaxFrames  \* bound: interrupt frames on one kernel stack

ASSUME IrqAssumption ==
  /\ CLOCK_HZ \in Nat \ {0} /\ 1000 % CLOCK_HZ = 0
  /\ Delays \subseteq Nat \ {0}
  /\ MaxFrames \in Nat \ {0}

VARIABLES
  iflag,   \* RFLAGS.IF
  pic,     \* the interrupt controller, as the boot loader leaves it: does it
           \* acknowledge by itself, and is IRQ 0 shut, masked from the start
           \* or still in service
  frames,  \* interrupt frames of irq_0 on each thread's stack
  fresh,   \* the threads that have not reached thread_trampoline yet
  delay,   \* ticks clock_delay_ms() still waits for, in each thread
  ended,   \* has a thread's entry function returned into .spin?
  cut      \* the local variable next of an interrupted sched_run()

irqVars == <<iflag, pic, frames, fresh, delay, ended, cut>>

-----------------------------------------------------------------------------
(* What a switch does to the interrupt flag.                               *)

\* A thread's first instruction is sti, whatever the flag was.
thread_trampoline(flag) == TRUE

\* machine_switch_context() pushes and pops registers, not the flags.
FlagAfterSwitch(flag) ==
  IF current' # current /\ current' \in fresh THEN thread_trampoline(flag) ELSE flag

\* The code on the CPU is a thread's own (or kmain's), not the end of irq_0.
OwnCode ==
  /\ ~ended
  /\ current # NULL => frames[current] = 0 /\ delay[current] = 0 /\ cut[current] = NULL

\* A kernel call made from there and taken to its end.
Call(A) ==
  /\ OwnCode
  /\ A
  /\ fresh' = (fresh \cup (live' \ live)) \ {current'}
  /\ frames' = [t \in Threads |-> IF t \in live' \ live THEN 0 ELSE frames[t]]
  /\ iflag' = (halted' = "no" /\ FlagAfterSwitch(iflag))
  /\ UNCHANGED <<pic, delay, ended, cut>>

\* kmain turns interrupts on before it enters sched_idle() (main.c:131).
EnterIdleLoop ==
  /\ EnterSchedIdle
  /\ iflag' = TRUE
  /\ UNCHANGED <<pic, frames, fresh, delay, ended, cut>>

-----------------------------------------------------------------------------
(* The timer.                                                              *)

\* irq_0 is taken: the controller has a request it may deliver and the CPU
\* accepts it.  No code sends an end of interrupt.
TimerFires ==
  /\ phase = "run" /\ halted = "no"
  /\ iflag /\ ~pic.shut
  /\ pic' = [pic EXCEPT !.shut = ~pic.autoEOI]

pit_increment_tick == [t \in Threads |-> IF delay[t] > 0 THEN delay[t] - 1 ELSE 0]

\* thread_yield() inside the handler: either nothing else can run and the
\* handler returns, or it switches and the frame stays on the old stack.
YieldInHandler ==
  IF sched_choose(rq) \in {NULL, current}
    THEN UNCHANGED <<rq, state, saved, cpuVars, iflag, frames, fresh>>
    ELSE /\ sched_run(rq, state)
         /\ fresh' = fresh \ {current'}
         /\ frames' = IF current = NULL THEN frames ELSE [frames EXCEPT ![current] = @ + 1]
         /\ iflag' = FlagAfterSwitch(FALSE)

irq_0 ==
  /\ TimerFires
  /\ current # NULL => frames[current] < MaxFrames
  /\ delay' = pit_increment_tick
  /\ YieldInHandler
  /\ UNCHANGED <<memVars, phase, ended, cut>>

\* The same interrupt while the thread is in sched_run(), its next chosen.
irq_0_in_sched_run ==
  /\ OwnCode /\ ThreadRuns /\ current \in live
  /\ sched_choose(rq) \notin {NULL, current}
  /\ TimerFires
  /\ delay' = pit_increment_tick
  /\ cut' = [cut EXCEPT ![current] = sched_choose(rq)]
  /\ YieldInHandler
  /\ UNCHANGED <<memVars, phase, ended>>

\* Mutant: the handler ends with ret instead of iretq.
IrqReturnPlain ==
  /\ phase = "run" /\ halted = "no" /\ current # NULL
  /\ frames[current] > 0
  /\ frames' = [frames EXCEPT ![current] = @ - 1]
  /\ UNCHANGED <<vars, iflag, pic, fresh, delay, ended, cut>>

\* The handler returns on the stack it was taken on: iretq restores the
\* flags, in which interrupts were on.
IrqReturn ==
  /\ phase = "run" /\ halted = "no" /\ current # NULL
  /\ frames[current] > 0
  /\ frames' = [frames EXCEPT ![current] = @ - 1]
  /\ iflag' = TRUE
  /\ UNCHANGED <<vars, pic, fresh, delay, ended, cut>>

\* The interrupted sched_run() goes on with the thread it had chosen.
SchedRunResumed ==
  /\ current # NULL /\ cut[current] # NULL /\ frames[current] = 0
  /\ LET next == cut[current]
     IN  /\ state' = [state EXCEPT ![current] = IF @ = "RUNNING" THEN "RUNNABLE" ELSE @,
                                   ![next] = "RUNNING"]
         /\ rq' = IF LooksQueued(rq, next) THEN sched_enqueue(sched_dequeue(rq, next), next)
                                           ELSE rq
         /\ current' = next
         /\ thread_switch(current, next)
  /\ cut' = [cut EXCEPT ![current] = NULL]
  /\ fresh' = fresh \ {current'}
  /\ iflag' = FlagAfterSwitch(iflag)
  /\ UNCHANGED <<idle, memVars, phase, pic, frames, delay, ended>>

-----------------------------------------------------------------------------
(* What a thread may do with its time.                                     *)

pit_get_uptime_ms(ticks) == (ticks * 1000) \div CLOCK_HZ

\* clock_delay_ms(): the loop ends with the first tick at which the uptime
\* has advanced by ms.
clock_delay_ms(ms) ==
  /\ OwnCode /\ ThreadRuns /\ current \in live
  /\ delay' = [delay EXCEPT ![current] =
                 CHOOSE n \in 1..ms : /\ pit_get_uptime_ms(n) >= ms
                                       /\ pit_get_uptime_ms(n - 1) < ms]
  /\ UNCHANGED <<vars, iflag, pic, frames, fresh, ended, cut>>

\* The entry function returns: thread_trampoline masks interrupts and halts.
EntryReturns ==
  /\ OwnCode /\ ThreadRuns /\ current \in live
  /\ ended' = TRUE
  /\ iflag' = FALSE
  /\ UNCHANGED <<vars, pic, frames, fresh, delay, cut>>

-----------------------------------------------------------------------------
IrqInit ==
  /\ Init
  /\ iflag = FALSE
  /\ pic \in [autoEOI : BOOLEAN, shut : BOOLEAN]
  /\ ended = FALSE
  /\ frames = [t \in Threads |-> 0]
  /\ fresh = {}
  /\ delay = [t \in Threads |-> 0]
  /\ cut = [t \in Threads |-> NULL]

IrqNext ==
  \/ \E t \in Threads, p \in Pages, b \in BOOLEAN : Call(ThreadCreate(t, p, b))
  \/ Call(SchedCreateIdle)
  \/ EnterIdleLoop
  \/ Call(SchedIdle)
  \/ Call(ThreadYield)
  \/ Call(BlockCurrent)
  \/ \E t \in Threads : Call(Unblock(t))
  \/ Call(ThreadExit)
  \/ irq_0
  \/ IrqReturn
  \/ \E ms \in Delays : clock_delay_ms(ms)
  \/ EntryReturns

IrqSpec == IrqInit /\ [][IrqNext]_<<vars, irqVars>>

\* The timer may also cut sched_run().
IrqCutSpec ==
  IrqInit /\ [][IrqNext \/ irq_0_in_sched_run \/ SchedRunResumed]_<<vars, irqVars>>

(* As in FairSpec; besides, a handler that is resumed returns, and a timer *)
(* whose interrupt can be taken is taken.                                  *)
IrqFairSpec ==
  /\ IrqSpec
  /\ WF_<<vars, irqVars>>(Call(SchedCreateIdle)) /\ WF_<<vars, irqVars>>(EnterIdleLoop)
  /\ WF_<<vars, irqVars>>(Call(SchedIdle)) /\ WF_<<vars, irqVars>>(Call(ThreadYield))
  /\ WF_<<vars, irqVars>>(irq_0) /\ WF_<<vars, irqVars>>(IrqReturn)

-----------------------------------------------------------------------------
(* Properties                                                              *)

(* The CPU goes from one thread to another only to a live thread that is   *)
(* runnable (sched.h:6), whether a call or the timer made the switch.      *)
ChosenIsRunnable ==
  [][phase = "run" /\ current' # current =>
       current' \in live /\ state[current'] = "RUNNABLE"]_<<vars, irqVars>>

(* Nothing runs again: the running thread waits for a tick that cannot     *)
(* come, a thread's entry function returned, or the idle loop halted, with *)
(* interrupts off, at the head of a queue that holds other threads.        *)
Stuck ==
  \/ ended
  \/ current # NULL /\ delay[current] > 0 /\ (~iflag \/ pic.shut)
  \/ halted = "idle" /\ rq.head = idle /\ rq.next[idle] # NULL

(* Every runnable thread gets the CPU, with the timer interrupting and     *)
(* threads delaying, unless a thread's entry function returned, a thread   *)
(* delays with the timer shut out, or one was created behind the idle      *)
(* thread (sched.h:6, clock.c:29, idt.c:150, thread_switch.S:50).          *)
RunnableRunsOrStuck ==
  \A t \in Threads :
    (idle # NULL /\ t \in live /\ state[t] = "RUNNABLE") ~> (current = t \/ t \notin live \/ Stuck)

\* An exited thread that still ran was interrupted: nobody returns from the
\* handler on its stack.
FrameLost == \E t \in Threads \ live : frames[t] > 0

(* Interrupts that irq_0 leaves off over a switch are turned on again: the *)
(* interrupted thread is resumed and its iretq does it - unless that       *)
(* thread had exited, or nothing runs (idt.c:155, thread_switch.S:26-47).  *)
InterruptsComeBack ==
  (phase = "run" /\ ~iflag) ~> (iflag \/ Stuck \/ FrameLost \/ halted # "no")
=============================================================================
