-------------------------- MODULE SchedRefinement --------------------------
(* The linked run queue of kern/sched.c implements the line of RoundRobin. *)
EXTENDS Sched, Sequences

\* The threads met when the list of run queue q is followed from its head
\* for q.count steps.
OrderOf(q) ==
  LET walk[i \in 0..q.count] ==
        IF i = 0 THEN q.head
        ELSE IF walk[i-1] = NULL THEN NULL ELSE q.next[walk[i-1]]
  IN  [i \in 1..q.count |-> walk[i-1]]

QueueOrder == OrderOf(rq)

RR == INSTANCE RoundRobin WITH queue <- QueueOrder, running <- current

(* Every call of the scheduler is a step of the round-robin policy, or     *)
(* leaves the line alone: newcomers join behind everyone, the CPU goes to  *)
(* the thread that waited longest, and nobody but the running thread is    *)
(* ever dropped (sched.h:6, sched.c:21-72, 135-159).                       *)
RefinesRoundRobin == RR!RRSpec
=============================================================================
