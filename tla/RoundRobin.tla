----------------------------- MODULE RoundRobin -----------------------------
(***************************************************************************)
(* What the scheduler promises ("a simple round-robin policy among         *)
(* runnable threads", sched.h:6), without lists, pointers or stacks: a     *)
(* line of threads, and the thread that was given the CPU last.  Newcomers *)
(* join at the end; the CPU goes to the front of the line, and the thread  *)
(* that gets it moves to the end; only the running thread leaves.          *)
(***************************************************************************)
EXTENDS Naturals, Sequences

CONSTANTS Threads, NULL

VARIABLES
  queue,     \* the threads that can run, the next one to run first
  running    \* the thread that got the CPU last, or NULL

rrVars == <<queue, running>>

InLine(t) == \E i \in 1..Len(queue) : queue[i] = t

Rotate(q) == Append(Tail(q), Head(q))

\* The line when t, who stands in it once, stepped out.
Without(q, t) ==
  LET k == CHOOSE i \in 1..Len(q) : q[i] = t
  IN  [i \in 1..Len(q)-1 |-> IF i < k THEN q[i] ELSE q[i+1]]

-----------------------------------------------------------------------------
RRInit == queue = << >> /\ running = NULL

\* A thread is created or woken.
Admit(t) ==
  /\ ~ InLine(t)
  /\ queue' = Append(queue, t)
  /\ UNCHANGED running

\* The boot context takes thread t as its own: t joins the line running.
Adopt(t) ==
  /\ running = NULL
  /\ ~ InLine(t)
  /\ queue' = Append(queue, t)
  /\ running' = t

Dispatch ==
  /\ queue # << >>
  /\ Head(queue) # running
  /\ running' = Head(queue)
  /\ queue' = Rotate(queue)

\* The running thread waits, and hands the CPU to the front of the line.
Block ==
  LET rest == Without(queue, running)
  IN  /\ InLine(running)
      /\ rest # << >>
      /\ running' = Head(rest)
      /\ queue' = Rotate(rest)

\* The running thread is destroyed; the CPU is handed over later.
Leave ==
  /\ InLine(running)
  /\ queue' = Without(queue, running)
  /\ UNCHANGED running

RRNext ==
  \/ \E t \in Threads : Admit(t) \/ Adopt(t)
  \/ Dispatch
  \/ Block
  \/ Leave

RRSpec == RRInit /\ [][RRNext]_rrVars
=============================================================================
