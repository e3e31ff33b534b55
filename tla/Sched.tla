------------------------------- MODULE Sched -------------------------------
(***************************************************************************)
(* The DANA scheduler: the run queue of kern/sched.c, the creation, exit   *)
(* and switching of threads of kern/thread.c, and the boot order of        *)
(* main.c.  The run queue is kept as the code keeps it, a doubly linked    *)
(* list threaded through struct thread (head, tail, next, prev, count), so *)
(* that a wrong pointer is a wrong state here too.                         *)
(*                                                                         *)
(* One step is one call of a kernel function made by whoever holds the     *)
(* CPU: the kernel is uniprocessor, the scheduler is cooperative           *)
(* (sched.h:5), and a call runs to its end or to its sched_run().  The     *)
(* timer interrupt irq_0 (idt.c:150) also ends in thread_yield(); taken    *)
(* between two calls it is the same step as a voluntary yield, and that is *)
(* the only place this module lets it happen.                              *)
(*                                                                         *)
(* Code outside this repository's boot path that uses the scheduler (the   *)
(* init code of a future kernel, the body of a thread) is the environment: *)
(* it may make any of these calls from a context in which the code allows  *)
(* it.                                                                     *)
(***************************************************************************)
EXTENDS Integers, FiniteSets

CONSTANTS
  Threads,             \* the struct thread slots of the thread zone
  Pages,               \* the physical pages usable as kernel stacks
  NULL,                \* THREAD_NULL, and the null page
  BootStack,           \* the stack on which the boot loader enters kmain
  MaxTaskCount,        \* bound: kernel_task.thread_count is not taken beyond it
  LateCreate,          \* may boot code call thread_create after sched_create_idle?
  ExitedKeepsCalling   \* may a thread go on making calls after thread_exit returned?

ASSUME SchedAssumption ==
  /\ IsFiniteSet(Threads)
  /\ NULL \notin Threads
  /\ NULL \notin Pages
  /\ BootStack \notin Pages
  /\ BootStack # NULL
  /\ MaxTaskCount \in Nat
  /\ LateCreate \in BOOLEAN
  /\ ExitedKeepsCalling \in BOOLEAN

VARIABLES
  rq,        \* struct sched_runqueue, and sched.next / sched.prev of every thread
  state,     \* sched.state of every thread
  live,      \* the slots handed out by the thread zone; nothing increments
             \* ref_count, so ref_count is 1 exactly for these
  stack,     \* kernel_stack_phys of every thread
  saved,     \* saved_state.rsp of every thread: the stack it points into
  freePages, \* the pages pmm_alloc_page() may still return
  current,   \* cpu_current_thread
  idle,      \* cpu_idle_thread
  rsp,       \* the stack the CPU is executing on
  rsp0,      \* the stack TSS.rsp0 names
  halted,    \* "no", "idle" (cli; hlt in sched_idle) or "fault"
  phase,     \* where kmain is: "init", "late" (idle created) or "run"
  task       \* kernel_task.threads, task_next of every thread, thread_count

queueVars == <<rq, state>>
memVars   == <<live, stack, freePages, task>>
cpuVars   == <<current, idle, rsp, rsp0, halted>>
vars      == <<rq, state, live, stack, saved, freePages, current, idle, rsp,
               rsp0, halted, phase, task>>

Pointer == Threads \cup {NULL}

ThreadState == {"RUNNABLE", "RUNNING", "BLOCKED", "TERMINATED"}

-----------------------------------------------------------------------------
(* The run queue: kern/sched.c.  The operators take and return the queue,  *)
(* as the C functions work on the one static runqueue.                     *)

\* The assignments in the order of the code: when the thread is already the
\* tail, the write through runqueue.tail comes after its own next was cleared.
sched_enqueue(q, t) ==
  [ head  |-> IF q.tail = NULL THEN t ELSE q.head,
    tail  |-> t,
    count |-> q.count + 1,
    next  |-> [u \in Threads |-> IF u = q.tail THEN t
                                 ELSE IF u = t THEN NULL ELSE q.next[u]],
    prev  |-> [q.prev EXCEPT ![t] = q.tail] ]

\* Mutant: the back pointer of the successor is not corrected.
sched_dequeue_one_way(q, t) ==
  [ head  |-> IF q.prev[t] = NULL THEN q.next[t] ELSE q.head,
    tail  |-> IF q.next[t] = NULL THEN q.prev[t] ELSE q.tail,
    count |-> q.count - 1,
    next  |-> [u \in Threads |-> IF u = t THEN NULL
                                 ELSE IF u = q.prev[t] THEN q.next[t] ELSE q.next[u]],
    prev  |-> [q.prev EXCEPT ![t] = NULL] ]

\* Unlinks t by its own pointers.  The code does not ask whether t is queued:
\* for a thread that is not, prev = next = NULL and head and tail are lost.
sched_dequeue(q, t) ==
  [ head  |-> IF q.prev[t] = NULL THEN q.next[t] ELSE q.head,
    tail  |-> IF q.next[t] = NULL THEN q.prev[t] ELSE q.tail,
    count |-> q.count - 1,
    next  |-> [u \in Threads |-> IF u = t THEN NULL
                                 ELSE IF u = q.prev[t] THEN q.next[t] ELSE q.next[u]],
    prev  |-> [u \in Threads |-> IF u = t THEN NULL
                                 ELSE IF u = q.next[t] THEN q.prev[t] ELSE q.prev[u]] ]

\* Mutant: the newest thread is chosen.
sched_choose_newest(q) == IF q.tail # NULL THEN q.tail ELSE idle

sched_choose(q) == IF q.head # NULL THEN q.head ELSE idle

\* Mutant: a thread at either end of the list counts as not queued.
LooksQueuedInside(q, t) == q.prev[t] # NULL /\ q.next[t] # NULL

\* The test sched_run makes before it rotates the chosen thread to the tail.
LooksQueued(q, t) == q.prev[t] # NULL \/ q.next[t] # NULL \/ q.head = t

-----------------------------------------------------------------------------
(* Switching: thread_switch() of kern/thread.c with machine_set_rsp0() and *)
(* machine_switch_context().  With no old thread the store through         *)
(* &old_thread->saved_state.rsp goes to page 0 and the page-fault handler  *)
(* stops the machine.                                                      *)

\* Mutant: the stack pointer is saved in the thread that comes in.
thread_switch_swapped(old, new) ==
  /\ rsp0' = stack[new]
  /\ IF old = NULL
       THEN /\ halted' = "fault"
            /\ UNCHANGED <<saved, rsp>>
       ELSE /\ saved' = [saved EXCEPT ![new] = rsp]
            /\ rsp' = saved[new]
            /\ UNCHANGED halted

thread_switch(old, new) ==
  /\ rsp0' = stack[new]
  /\ IF old = NULL
       THEN /\ halted' = "fault"
            /\ UNCHANGED <<saved, rsp>>
       ELSE /\ saved' = [saved EXCEPT ![old] = rsp]
            /\ rsp' = saved[new]
            /\ UNCHANGED halted

\* Mutant: the outgoing thread stays marked RUNNING.
sched_run_undemoted(q, st) ==
  LET next == sched_choose(q)
  IN  IF next \in {NULL, current}
        THEN /\ rq' = q
             /\ state' = st
             /\ UNCHANGED <<saved, cpuVars>>
        ELSE /\ state' = [st EXCEPT ![next] = "RUNNING"]
             /\ rq' = IF LooksQueued(q, next)
                        THEN sched_enqueue(sched_dequeue(q, next), next)
                        ELSE q
             /\ current' = next
             /\ thread_switch(current, next)
             /\ UNCHANGED idle

\* sched_run() started with run queue q and thread states st.
sched_run(q, st) ==
  LET next == sched_choose(q)
  IN  IF next \in {NULL, current}
        THEN /\ rq' = q
             /\ state' = st
             /\ UNCHANGED <<saved, cpuVars>>
        ELSE /\ state' = [t \in Threads |->
                            IF t = next THEN "RUNNING"
                            ELSE IF t = current /\ st[t] = "RUNNING" THEN "RUNNABLE"
                            ELSE st[t]]
             /\ rq' = IF LooksQueued(q, next)
                        THEN sched_enqueue(sched_dequeue(q, next), next)
                        ELSE q
             /\ current' = next
             /\ thread_switch(current, next)
             /\ UNCHANGED idle

-----------------------------------------------------------------------------
(* Who holds the CPU.                                                      *)

BootRuns == phase = "init" \/ (phase = "late" /\ LateCreate)

ThreadRuns == phase = "run" /\ halted = "no" /\ rsp # BootStack

\* After sys_thread_exit_wrapper returned, the thread is still executing.
CallerRuns == ThreadRuns /\ (current \in live \/ ExitedKeepsCalling)

-----------------------------------------------------------------------------
(* kern/thread.c                                                           *)

\* thread_create() that succeeds: slot t from the zone, page p as its stack,
\* pushed on the task's list when a task is given, and made runnable.  With
\* no slot or no page it returns KERN_NO_SPACE and leaves nothing changed.
\* (It clears the thread's links first; sched_enqueue writes both again.)
thread_create(t, p, intoTask) ==
  /\ t \in Threads \ live
  /\ p \in freePages
  /\ intoTask => task.count < MaxTaskCount
  /\ live' = live \cup {t}
  /\ freePages' = freePages \ {p}
  /\ stack' = [stack EXCEPT ![t] = p]
  /\ saved' = [saved EXCEPT ![t] = p]
  /\ rq' = sched_enqueue(rq, t)
  /\ task' = IF intoTask
               THEN [threads |-> t, next |-> [task.next EXCEPT ![t] = task.threads],
                     count |-> task.count + 1]
               ELSE [task EXCEPT !.next[t] = NULL]

\* A call of thread_create, from boot code or from the running thread
\* (sys_thread_create_wrapper).
ThreadCreate(t, p, intoTask) ==
  /\ BootRuns \/ CallerRuns
  /\ thread_create(t, p, intoTask)
  /\ state' = [state EXCEPT ![t] = "RUNNABLE"]
  /\ UNCHANGED <<cpuVars, phase>>

\* sys_thread_exit_wrapper: thread_destroy(current).  The slot and the stack
\* are freed, the CPU goes on executing on that stack, current still points
\* to the slot, and the task's list still links it.
ThreadExit ==
  /\ CallerRuns
  /\ current \in live
  /\ rq' = sched_dequeue(rq, current)
  /\ freePages' = freePages \cup {stack[current]}
  /\ live' = live \ {current}
  /\ UNCHANGED <<state, stack, saved, cpuVars, phase, task>>

-----------------------------------------------------------------------------
(* main.c: sched_init() is Init; sched_create_idle(), whose result kmain   *)
(* ignores; then sched_idle().                                             *)

\* Mutant: the boot context is not made the idle thread.
SchedCreateIdleUnadopted ==
  /\ phase = "init"
  /\ phase' = "late"
  /\ \/ \E t \in Threads, p \in Pages :
          /\ thread_create(t, p, FALSE)
          /\ state' = [state EXCEPT ![t] = "RUNNING"]
          /\ idle' = t
          /\ UNCHANGED <<current, rsp, rsp0, halted>>
     \/ /\ Threads \ live = {} \/ freePages = {}
        /\ UNCHANGED <<queueVars, memVars, saved, cpuVars>>

SchedCreateIdle ==
  /\ phase = "init"
  /\ phase' = "late"
  /\ \/ \E t \in Threads, p \in Pages :
          /\ thread_create(t, p, FALSE)
          /\ state' = [state EXCEPT ![t] = "RUNNING"]
          /\ idle' = t
          /\ current' = t
          /\ UNCHANGED <<rsp, rsp0, halted>>
     \/ /\ Threads \ live = {} \/ freePages = {}
        /\ UNCHANGED <<queueVars, memVars, saved, cpuVars>>

EnterSchedIdle ==
  /\ phase = "late"
  /\ phase' = "run"
  /\ UNCHANGED <<queueVars, memVars, saved, cpuVars>>

\* One turn of the loop in sched_idle().  kmain itself runs it on the boot
\* stack, as the idle thread; cpu_halt() is "cli; hlt", which no timer
\* interrupt ends.
SchedIdle ==
  /\ phase = "run" /\ halted = "no" /\ rsp = BootStack
  /\ IF sched_choose(rq) \notin {NULL, current}
       THEN sched_run(rq, state)
       ELSE /\ halted' = "idle"
            /\ UNCHANGED <<queueVars, saved, current, idle, rsp, rsp0>>
  /\ UNCHANGED <<memVars, phase>>

-----------------------------------------------------------------------------
(* What a running thread asks of the scheduler.                            *)

\* thread_yield(), called by the thread or by irq_0.
ThreadYield ==
  /\ ThreadRuns
  /\ sched_choose(rq) \notin {NULL, current}
  /\ sched_run(rq, state)
  /\ UNCHANGED <<memVars, phase>>

\* Mutant: sched_block() does not take the thread out of the queue.
BlockCurrentQueued ==
  /\ CallerRuns
  /\ sched_run(rq, [state EXCEPT ![current] = "BLOCKED"])
  /\ UNCHANGED <<memVars, phase>>

\* sched_block(current); sched_run(), as in mach_msg_receive().
BlockCurrent ==
  /\ CallerRuns
  /\ sched_run(sched_dequeue(rq, current), [state EXCEPT ![current] = "BLOCKED"])
  /\ UNCHANGED <<memVars, phase>>

\* sched_unblock() of a waiting thread, as in ipc_port_enqueue().
Unblock(t) ==
  /\ CallerRuns
  /\ t \in live /\ state[t] = "BLOCKED"
  /\ state' = [state EXCEPT ![t] = "RUNNABLE"]
  /\ rq' = sched_enqueue(rq, t)
  /\ UNCHANGED <<memVars, saved, cpuVars, phase>>

-----------------------------------------------------------------------------
Init ==
  /\ rq = [head |-> NULL, tail |-> NULL, count |-> 0,
           next |-> [t \in Threads |-> NULL], prev |-> [t \in Threads |-> NULL]]
  /\ state = [t \in Threads |-> "RUNNABLE"]
  /\ live = {}
  /\ stack = [t \in Threads |-> NULL]
  /\ saved = [t \in Threads |-> NULL]
  /\ freePages = Pages
  /\ current = NULL /\ idle = NULL
  /\ rsp = BootStack /\ rsp0 = NULL
  /\ halted = "no"
  /\ phase = "init"
  /\ task = [threads |-> NULL, next |-> [t \in Threads |-> NULL], count |-> 0]

Next ==
  \/ \E t \in Threads, p \in Pages, b \in BOOLEAN : ThreadCreate(t, p, b)
  \/ SchedCreateIdle
  \/ EnterSchedIdle
  \/ SchedIdle
  \/ ThreadYield
  \/ BlockCurrent
  \/ \E t \in Threads : Unblock(t)
  \/ ThreadExit

Spec == Init /\ [][Next]_vars

(* kmain never stops between its calls; the idle loop turns; and, as a     *)
(* cooperative scheduler must assume, a thread that keeps the CPU calls    *)
(* thread_yield() sooner or later.                                         *)
FairSpec ==
  /\ Spec
  /\ WF_vars(SchedCreateIdle) /\ WF_vars(EnterSchedIdle)
  /\ WF_vars(SchedIdle) /\ WF_vars(ThreadYield)

-----------------------------------------------------------------------------
(* Properties                                                              *)

(* Every variable has a value of the type of the C object it stands for;   *)
(* in particular the unsigned runqueue.count never goes below zero.        *)
TypeOK ==
  /\ rq \in [head : Pointer, tail : Pointer, count : Nat,
             next : [Threads -> Pointer], prev : [Threads -> Pointer]]
  /\ state \in [Threads -> ThreadState]
  /\ live \subseteq Threads
  /\ stack \in [Threads -> Pages \cup {NULL}]
  /\ saved \in [Threads -> Pages \cup {BootStack, NULL}]
  /\ freePages \subseteq Pages
  /\ current \in Pointer /\ idle \in Pointer
  /\ rsp \in Pages \cup {BootStack, NULL} /\ rsp0 \in Pages \cup {NULL}
  /\ halted \in {"no", "idle", "fault"}
  /\ phase \in {"init", "late", "run"}
  /\ task \in [threads : Pointer, next : [Threads -> Pointer], count : Nat]

\* The threads that should be in the run queue.
Queued == {t \in live : state[t] \in {"RUNNABLE", "RUNNING"}}

\* What it means for the linked list q to hold exactly the threads Q.
EndsOf(q, Q) ==
  /\ q.head \in Q \cup {NULL} /\ q.tail \in Q \cup {NULL}
  /\ q.head = NULL <=> Q = {}
  /\ q.tail = NULL <=> Q = {}

LinksOf(q, Q) ==
  \A t \in Q :
    /\ q.prev[t] = NULL <=> t = q.head
    /\ q.next[t] = NULL <=> t = q.tail
    /\ q.next[t] # NULL => q.next[t] \in Q /\ q.prev[q.next[t]] = t
    /\ q.prev[t] # NULL => q.prev[t] \in Q /\ q.next[q.prev[t]] = t

\* No part of the list is a cycle cut off from the tail.
Acyclic(q, Q) == \A S \in SUBSET Q : S # {} => \E t \in S : q.next[t] \notin S

UnlinkedOutside(q, Q) ==
  \A t \in Threads \ Q : q.next[t] = NULL /\ q.prev[t] = NULL

ListOf(q, Q) ==
  /\ EndsOf(q, Q)
  /\ LinksOf(q, Q)
  /\ Acyclic(q, Q)
  /\ UnlinkedOutside(q, Q)
  /\ q.count = Cardinality(Q)

(* The run queue that sched_enqueue and sched_dequeue leave behind is one  *)
(* well-formed list of exactly the runnable and running threads: its ends  *)
(* are head and tail, next and prev mirror each other, no part of it is a  *)
(* cycle cut off from the tail, count is its length, and a thread outside  *)
(* it has no links (sched.c:21-60).                                        *)
QueueWF == ListOf(rq, Queued)

(* The thread marked RUNNING is the one the CPU runs, whatever mix of      *)
(* create, yield, block, unblock and exit led there (sched.c:135-159).     *)
OneRunning ==
  \A t \in live : state[t] = "RUNNING" <=> t = current

(* Each thread runs, and is resumed, on the stack thread_create allocated  *)
(* for it, which no other thread and not the allocator owns; kmain's stack *)
(* belongs to the idle thread (thread.c:5-8, 54-82, 111-116).              *)
OwnStack(t) == IF t = idle THEN BootStack ELSE stack[t]

StackOwnership ==
  /\ \A t \in live : stack[t] \notin freePages
  /\ \A t, u \in live : stack[t] = stack[u] => t = u
  /\ \A t \in live \ {current} : saved[t] = OwnStack(t)
  /\ current \in live /\ halted # "fault" => rsp = OwnStack(current)

(* While a thread other than idle runs, the CPU would enter the kernel on  *)
(* that thread's own kernel stack (thread.c:113).                          *)
KernelEntryStack ==
  ThreadRuns /\ current \in live => rsp0 = stack[current]

(* A switch faults only when sched_create_idle failed and kmain went on    *)
(* regardless (main.c:127, sched.c:143, thread.c:114).                     *)
FaultOnlyWithoutIdle == halted = "fault" => idle = NULL

(* kernel_task.threads links exactly the live threads created in the task  *)
(* and thread_count counts them (task.h:5, thread.c:84-88).                *)
InTaskList ==
  LET reach[n \in 0..Cardinality(Threads)] ==
        IF n = 0 THEN {task.threads} ELSE reach[n-1] \cup {task.next[t] : t \in reach[n-1] \ {NULL}}
  IN  reach[Cardinality(Threads)] \ {NULL}

TaskListLive == InTaskList \subseteq live /\ task.count = Cardinality(InTaskList)

(* Every runnable thread gets the CPU (sched.h:6, round-robin policy).     *)
RunnableRuns ==
  \A t \in Threads :
    (idle # NULL /\ t \in live /\ state[t] = "RUNNABLE") ~> (current = t \/ t \notin live)
=============================================================================
