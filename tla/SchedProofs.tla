---------------------------- MODULE SchedProofs ----------------------------
(***************************************************************************)
(* Proofs about the scheduler, for every number of threads and pages.      *)
(* First what one sched_enqueue and one sched_dequeue do to a well-formed  *)
(* list, then the inductive invariant of the specification.                *)
(***************************************************************************)
EXTENDS Sched, FiniteSetTheorems, TLAPS

\* The type of struct sched_runqueue.
RunQueue == [head : Pointer, tail : Pointer, count : Nat,
             next : [Threads -> Pointer], prev : [Threads -> Pointer]]

(* sched_enqueue() of a thread that is not queued appends it: the list     *)
(* stays well formed and holds one thread more (sched.c:21-38).            *)
LEMMA EnqueueList ==
  ASSUME NEW q \in RunQueue, NEW Q \in SUBSET Threads, NEW t \in Threads,
         t \notin Q, ListOf(q, Q)
  PROVE  /\ sched_enqueue(q, t) \in RunQueue
         /\ ListOf(sched_enqueue(q, t), Q \cup {t})
<1> DEFINE e == sched_enqueue(q, t)
           R == Q \cup {t}
<1>a. NULL \notin Threads
  BY SchedAssumption
<1>b. /\ q.head \in Pointer /\ q.tail \in Pointer /\ q.count \in Nat
      /\ q.next \in [Threads -> Pointer] /\ q.prev \in [Threads -> Pointer]
  BY DEF RunQueue
<1>c. /\ EndsOf(q, Q) /\ LinksOf(q, Q) /\ Acyclic(q, Q) /\ UnlinkedOutside(q, Q)
      /\ q.count = Cardinality(Q)
  BY DEF ListOf
<1>1. /\ e.head = IF q.tail = NULL THEN t ELSE q.head
      /\ e.tail = t
      /\ e.count = q.count + 1
      /\ e.next = [u \in Threads |-> IF u = q.tail THEN t
                                     ELSE IF u = t THEN NULL ELSE q.next[u]]
      /\ e.prev = [q.prev EXCEPT ![t] = q.tail]
  BY DEF sched_enqueue
<1>2. e \in RunQueue
  BY <1>b DEF sched_enqueue, RunQueue, Pointer
<1>3. q.tail # t /\ q.head # t
  BY <1>a, <1>c DEF EndsOf
<1>4. /\ e.next[t] = NULL /\ e.prev[t] = q.tail
      /\ \A u \in Q : /\ e.next[u] = IF u = q.tail THEN t ELSE q.next[u]
                      /\ e.prev[u] = q.prev[u]
      /\ \A u \in Threads \ R : e.next[u] = q.next[u] /\ e.prev[u] = q.prev[u]
  <2>1. e.next[t] = NULL
    BY <1>1, <1>3
  <2>2. e.prev[t] = q.tail
    BY <1>1, <1>b
  <2>3. ASSUME NEW u \in Threads, u # t
        PROVE  e.next[u] = (IF u = q.tail THEN t ELSE q.next[u]) /\ e.prev[u] = q.prev[u]
    BY <1>1, <1>b, <2>3
  <2>4. ASSUME NEW u \in Threads \ R
        PROVE  e.next[u] = q.next[u] /\ e.prev[u] = q.prev[u]
    BY <2>3, <1>a, <1>c DEF EndsOf
  <2> QED
    BY <2>1, <2>2, <2>3, <2>4
<1>5. EndsOf(e, R)
  BY <1>1, <1>a, <1>c DEF EndsOf
<1>6. LinksOf(e, R)
  <2> SUFFICES ASSUME NEW u \in R
               PROVE  /\ e.prev[u] = NULL <=> u = e.head
                      /\ e.next[u] = NULL <=> u = e.tail
                      /\ e.next[u] # NULL => e.next[u] \in R /\ e.prev[e.next[u]] = u
                      /\ e.prev[u] # NULL => e.prev[u] \in R /\ e.next[e.prev[u]] = u
    BY DEF LinksOf
  <2>1. CASE u = t
    BY <2>1, <1>1, <1>3, <1>4, <1>a, <1>c DEF EndsOf
  <2>2. CASE u \in Q
    <3>1. u # t
      BY <2>2
    <3>2. u = q.tail => q.next[u] = NULL
      BY <2>2, <1>c DEF LinksOf
    <3>3. e.prev[u] = NULL <=> u = e.head
      BY <2>2, <3>1, <1>1, <1>4, <1>a, <1>c DEF EndsOf, LinksOf
    <3>4. e.next[u] = NULL <=> u = e.tail
      BY <2>2, <3>1, <1>1, <1>4, <1>a, <1>c DEF LinksOf
    <3>5. e.next[u] # NULL => e.next[u] \in R /\ e.prev[e.next[u]] = u
      BY <2>2, <3>1, <1>4, <1>c DEF LinksOf
    <3>6. e.prev[u] # NULL => e.prev[u] \in R /\ e.next[e.prev[u]] = u
      BY <2>2, <3>1, <3>2, <1>4, <1>a, <1>c DEF LinksOf
    <3> QED
      BY <3>3, <3>4, <3>5, <3>6
  <2> QED
    BY <2>1, <2>2
<1>7. Acyclic(e, R)
  <2> SUFFICES ASSUME NEW S \in SUBSET R, S # {}
               PROVE  \E u \in S : e.next[u] \notin S
    BY DEF Acyclic
  <2>1. CASE t \in S
    BY <2>1, <1>4, <1>a
  <2>2. CASE t \notin S
    <3>1. PICK u \in S : q.next[u] \notin S
      BY <2>2, <1>c DEF Acyclic
    <3>2. e.next[u] \notin S
      BY <2>2, <3>1, <1>4
    <3> QED
      BY <3>2
  <2> QED
    BY <2>1, <2>2
<1>8. UnlinkedOutside(e, R)
  BY <1>4, <1>c DEF UnlinkedOutside
<1>9. e.count = Cardinality(R)
  <2>1. IsFiniteSet(Q)
    BY FS_Subset, SchedAssumption
  <2>2. Cardinality(R) = Cardinality(Q) + 1
    BY <2>1, FS_AddElement
  <2> QED
    BY <2>2, <1>1, <1>c
<1> QED
  BY <1>2, <1>5, <1>6, <1>7, <1>8, <1>9 DEF ListOf

(* sched_dequeue() of a queued thread takes out that thread and nothing    *)
(* else, wherever it stands in the list (sched.c:40-60).                   *)
LEMMA DequeueList ==
  ASSUME NEW q \in RunQueue, NEW Q \in SUBSET Threads, NEW t \in Q, ListOf(q, Q)
  PROVE  /\ sched_dequeue(q, t) \in RunQueue
         /\ ListOf(sched_dequeue(q, t), Q \ {t})
<1> DEFINE d == sched_dequeue(q, t)
           R == Q \ {t}
           n == q.next[t]
           p == q.prev[t]
<1>a. NULL \notin Threads
  BY SchedAssumption
<1>b. /\ q.head \in Pointer /\ q.tail \in Pointer /\ q.count \in Nat
      /\ q.next \in [Threads -> Pointer] /\ q.prev \in [Threads -> Pointer]
  BY DEF RunQueue
<1>c. /\ EndsOf(q, Q) /\ LinksOf(q, Q) /\ Acyclic(q, Q) /\ UnlinkedOutside(q, Q)
      /\ q.count = Cardinality(Q)
  BY DEF ListOf
<1>1. /\ d.head = IF p = NULL THEN n ELSE q.head
      /\ d.tail = IF n = NULL THEN p ELSE q.tail
      /\ d.count = q.count - 1
      /\ d.next = [u \in Threads |-> IF u = t THEN NULL
                                     ELSE IF u = p THEN n ELSE q.next[u]]
      /\ d.prev = [u \in Threads |-> IF u = t THEN NULL
                                     ELSE IF u = n THEN p ELSE q.prev[u]]
  BY DEF sched_dequeue
<1>2. d.count = Cardinality(R) /\ d.count \in Nat
  <2>1. IsFiniteSet(Q)
    BY FS_Subset, SchedAssumption
  <2>2. Cardinality(R) = Cardinality(Q) - 1
    BY <2>1, FS_RemoveElement
  <2>3. IsFiniteSet(R)
    BY <2>1, FS_RemoveElement
  <2>4. Cardinality(R) \in Nat
    BY <2>3, FS_CardinalityType
  <2> QED
    BY <2>2, <2>4, <1>1, <1>c
<1>3. d \in RunQueue
  <2>1. n \in Pointer /\ p \in Pointer
    BY <1>b
  <2>2. d.head \in Pointer /\ d.tail \in Pointer
    BY <2>1, <1>1, <1>b
  <2>3. d.next \in [Threads -> Pointer] /\ d.prev \in [Threads -> Pointer]
    BY <2>1, <1>1, <1>b DEF Pointer
  <2>4. d = [head |-> d.head, tail |-> d.tail, count |-> d.count,
             next |-> d.next, prev |-> d.prev]
    BY DEF sched_dequeue
  <2> QED
    BY <2>2, <2>3, <2>4, <1>2 DEF RunQueue
<1>4. n # t /\ p # t
  <2>1. n # t
    <3>1. \E u \in {t} : q.next[u] \notin {t}
      BY <1>c DEF Acyclic
    <3> QED
      BY <3>1
  <2>2. p # t
    BY <2>1, <1>a, <1>c DEF LinksOf
  <2> QED
    BY <2>1, <2>2
<1>5. /\ n \in R \cup {NULL} /\ p \in R \cup {NULL}
      /\ n # NULL => q.prev[n] = t
      /\ p # NULL => q.next[p] = t
      /\ n = NULL <=> t = q.tail
      /\ p = NULL <=> t = q.head
  BY <1>4, <1>c DEF LinksOf
<1>6. \A u \in R : /\ d.next[u] = IF u = p THEN n ELSE q.next[u]
                   /\ d.prev[u] = IF u = n THEN p ELSE q.prev[u]
  BY <1>1
<1>7. (n = NULL /\ p = NULL) <=> R = {}
  <2>1. ASSUME n = NULL, p = NULL, R # {}
        PROVE  FALSE
    <3>1. PICK u \in R : q.next[u] \notin R
      BY <2>1, <1>c DEF Acyclic
    <3>2. q.next[u] = NULL \/ q.next[u] = t
      BY <3>1, <1>c DEF LinksOf
    <3>3. q.next[u] # NULL
      BY <2>1, <1>5, <1>c DEF LinksOf
    <3>4. q.next[u] = t /\ q.prev[t] = u
      BY <3>2, <3>3, <1>c DEF LinksOf
    <3> QED
      BY <3>4, <2>1, <1>a
  <2>2. ASSUME R = {}
        PROVE  n = NULL /\ p = NULL
    BY <2>2, <1>5
  <2> QED
    BY <2>1, <2>2
<1>8. EndsOf(d, R)
  <2>1. q.head \in Q /\ q.tail \in Q
    BY <1>c DEF EndsOf
  <2>2. d.head \in R \cup {NULL} /\ d.tail \in R \cup {NULL}
    BY <2>1, <1>1, <1>5
  <2>3. d.head = NULL <=> (n = NULL /\ p = NULL)
    BY <2>1, <1>1, <1>5, <1>a
  <2>4. d.tail = NULL <=> (n = NULL /\ p = NULL)
    BY <2>1, <1>1, <1>5, <1>a
  <2> QED
    BY <2>2, <2>3, <2>4, <1>7 DEF EndsOf
<1>9. LinksOf(d, R)
  <2> SUFFICES ASSUME NEW u \in R
               PROVE  /\ d.prev[u] = NULL <=> u = d.head
                      /\ d.next[u] = NULL <=> u = d.tail
                      /\ d.next[u] # NULL => d.next[u] \in R /\ d.prev[d.next[u]] = u
                      /\ d.prev[u] # NULL => d.prev[u] \in R /\ d.next[d.prev[u]] = u
    BY DEF LinksOf
  <2>0. u \in Q /\ u # t /\ u # NULL
    BY <1>a
  <2>1. /\ q.prev[u] = NULL <=> u = q.head
        /\ q.next[u] = NULL <=> u = q.tail
        /\ q.next[u] # NULL => q.next[u] \in Q /\ q.prev[q.next[u]] = u
        /\ q.prev[u] # NULL => q.prev[u] \in Q /\ q.next[q.prev[u]] = u
    BY <2>0, <1>c DEF LinksOf
  <2>2. q.next[u] = t <=> u = p
    BY <2>0, <2>1, <1>5, <1>a
  <2>3. q.prev[u] = t <=> u = n
    BY <2>0, <2>1, <1>5, <1>a
  <2>4. d.prev[u] = NULL <=> u = d.head
    <3>1. t # NULL
      BY <1>a
    <3>2. CASE u = n
      BY <3>1, <3>2, <2>0, <2>1, <2>3, <1>1, <1>5, <1>6
    <3>3. CASE u # n
      BY <3>3, <2>0, <2>1, <1>1, <1>5, <1>6
    <3> QED
      BY <3>2, <3>3
  <2>5. d.next[u] = NULL <=> u = d.tail
    <3>1. t # NULL
      BY <1>a
    <3>2. CASE u = p
      BY <3>1, <3>2, <2>0, <2>1, <2>2, <1>1, <1>5, <1>6
    <3>3. CASE u # p
      BY <3>3, <2>0, <2>1, <1>1, <1>5, <1>6
    <3> QED
      BY <3>2, <3>3
  <2>6. d.next[u] # NULL => d.next[u] \in R /\ d.prev[d.next[u]] = u
    <3>1. CASE u = p
      BY <3>1, <1>5, <1>6
    <3>2. CASE u # p
      BY <3>2, <2>0, <2>1, <2>2, <1>5, <1>6
    <3> QED
      BY <3>1, <3>2
  <2>7. d.prev[u] # NULL => d.prev[u] \in R /\ d.next[d.prev[u]] = u
    <3>1. CASE u = n
      BY <3>1, <1>5, <1>6
    <3>2. CASE u # n
      BY <3>2, <2>0, <2>1, <2>3, <1>5, <1>6
    <3> QED
      BY <3>1, <3>2
  <2> QED
    BY <2>4, <2>5, <2>6, <2>7
<1>10. Acyclic(d, R)
  <2> SUFFICES ASSUME NEW S \in SUBSET R, S # {}
               PROVE  \E u \in S : d.next[u] \notin S
    BY DEF Acyclic
  <2>1. CASE p \notin S
    <3>1. PICK u \in S : q.next[u] \notin S
      BY <1>c DEF Acyclic
    <3> QED
      BY <2>1, <3>1, <1>6
  <2>2. CASE p \in S
    <3>1. PICK u \in S \cup {t} : q.next[u] \notin S \cup {t}
      <4>1. S \cup {t} \in SUBSET Q /\ S \cup {t} # {}
        OBVIOUS
      <4> QED
        BY <4>1, <1>c DEF Acyclic
    <3>2. CASE u = t
      <4>1. d.next[p] = n
        BY <2>2, <1>6
      <4> QED
        BY <2>2, <3>1, <3>2, <4>1
    <3>3. CASE u # t
      <4>1. u # p
        BY <3>1, <2>2, <1>5, <1>a
      <4> QED
        BY <3>1, <3>3, <4>1, <1>6
    <3> QED
      BY <3>2, <3>3
  <2> QED
    BY <2>1, <2>2
<1>11. UnlinkedOutside(d, R)
  <2> SUFFICES ASSUME NEW u \in Threads \ R
               PROVE  d.next[u] = NULL /\ d.prev[u] = NULL
    BY DEF UnlinkedOutside
  <2>1. CASE u = t
    BY <2>1, <1>1
  <2>2. CASE u \notin Q
    <3>1. q.next[u] = NULL /\ q.prev[u] = NULL
      BY <2>2, <1>c DEF UnlinkedOutside
    <3>2. u # n /\ u # p /\ u # t
      BY <2>2, <1>5, <1>a
    <3> QED
      BY <3>1, <3>2, <1>1
  <2> QED
    BY <2>1, <2>2
<1> QED
  BY <1>2, <1>3, <1>8, <1>9, <1>10, <1>11 DEF ListOf

-----------------------------------------------------------------------------
(* The inductive invariant.  OneRunning and StackOwnership are not         *)
(* inductive alone: they rest on where the idle thread and kmain's own     *)
(* stack are, which CpuInv records.                                        *)

CpuInv ==
  /\ phase = "init" => idle = NULL
  /\ phase # "run" => halted = "no" /\ rsp = BootStack /\ current = idle
  /\ idle # NULL => idle \in Queued
  /\ idle # NULL => current # NULL /\ (rsp = BootStack <=> current = idle)
  /\ idle = NULL => rsp = BootStack
  /\ idle = NULL /\ halted # "fault" => current = NULL
  /\ \A t \in live : stack[t] \in Pages

IInv ==
  /\ TypeOK
  /\ QueueWF
  /\ OneRunning
  /\ StackOwnership
  /\ KernelEntryStack
  /\ FaultOnlyWithoutIdle
  /\ CpuInv

LEMMA TypeRunQueue == TypeOK => rq \in RunQueue
  BY DEF TypeOK, RunQueue

LEMMA InitIInv == Init => IInv
<1> SUFFICES ASSUME Init PROVE IInv
  OBVIOUS
<1> USE DEF Init
<1>1. TypeOK
  BY SchedAssumption DEF TypeOK, Pointer, ThreadState
<1>2. Queued = {}
  BY DEF Queued
<1>3. QueueWF
  <2>1. Cardinality({}) = 0
    BY FS_EmptySet
  <2> QED
    BY <1>2, <2>1 DEF QueueWF, ListOf, EndsOf, LinksOf, Acyclic, UnlinkedOutside
<1>4. OneRunning /\ StackOwnership /\ KernelEntryStack /\ FaultOnlyWithoutIdle
  BY SchedAssumption DEF OneRunning, StackOwnership, KernelEntryStack, FaultOnlyWithoutIdle, ThreadRuns
<1>5. CpuInv
  BY <1>2 DEF CpuInv
<1> QED
  BY <1>1, <1>3, <1>4, <1>5 DEF IInv

\* What a step that creates thread t on page p, in state s, leaves behind.
Created(t, p, s) ==
  /\ t \notin live /\ t \notin Queued
  /\ Queued' = Queued \cup {t}
  /\ QueueWF'
  /\ rq' \in RunQueue
  /\ state' \in [Threads -> ThreadState]
  /\ live' \in SUBSET Threads
  /\ stack' \in [Threads -> Pages \cup {NULL}]
  /\ saved' \in [Threads -> Pages \cup {BootStack, NULL}]
  /\ freePages' \in SUBSET Pages
  /\ task' \in [threads : Pointer, next : [Threads -> Pointer], count : Nat]
  /\ \A u \in live : state'[u] = state[u] /\ stack'[u] = stack[u] /\ saved'[u] = saved[u]
  /\ state'[t] = s /\ stack'[t] = p /\ saved'[t] = p

(* A new thread joins the run queue and nothing else of it changes.        *)
LEMMA CreateList ==
  ASSUME TypeOK, QueueWF, NEW t \in Threads, NEW p \in Pages, NEW b \in BOOLEAN,
         NEW s \in {"RUNNABLE", "RUNNING"},
         thread_create(t, p, b), state' = [state EXCEPT ![t] = s]
  PROVE  Created(t, p, s)
<1> USE DEF thread_create
<1>1. t \notin live /\ t \notin Queued
  BY DEF Queued
<1>2. state' \in [Threads -> ThreadState]
  BY DEF TypeOK, ThreadState
<1>3. Queued' = Queued \cup {t}
  BY <1>1 DEF Queued, TypeOK
<1>4. QueueWF' /\ rq' \in RunQueue
  <2>1. Queued \in SUBSET Threads
    BY DEF Queued, TypeOK
  <2>2. /\ sched_enqueue(rq, t) \in RunQueue
        /\ ListOf(sched_enqueue(rq, t), Queued \cup {t})
    BY <1>1, <2>1, TypeRunQueue, EnqueueList DEF QueueWF
  <2> QED
    BY <2>2, <1>3 DEF QueueWF
<1>5. task' \in [threads : Pointer, next : [Threads -> Pointer], count : Nat]
  BY DEF TypeOK, Pointer
<1>6. /\ live' \in SUBSET Threads
      /\ stack' \in [Threads -> Pages \cup {NULL}]
      /\ saved' \in [Threads -> Pages \cup {BootStack, NULL}]
      /\ freePages' \in SUBSET Pages
  BY DEF TypeOK
<1>7. /\ \A u \in live : state'[u] = state[u] /\ stack'[u] = stack[u] /\ saved'[u] = saved[u]
      /\ state'[t] = s /\ stack'[t] = p /\ saved'[t] = p
  BY <1>1 DEF TypeOK
<1> QED
  BY <1>1, <1>2, <1>3, <1>4, <1>5, <1>6, <1>7 DEF Created

LEMMA ThreadCreateInv ==
  ASSUME ~ ExitedKeepsCalling, IInv,
         NEW t \in Threads, NEW p \in Pages, NEW b \in BOOLEAN, ThreadCreate(t, p, b)
  PROVE  IInv'
<1>1. TypeOK /\ QueueWF /\ OneRunning /\ StackOwnership /\ KernelEntryStack
      /\ FaultOnlyWithoutIdle /\ CpuInv
  BY DEF IInv
<1>2. /\ thread_create(t, p, b)
      /\ state' = [state EXCEPT ![t] = "RUNNABLE"]
      /\ UNCHANGED <<current, idle, rsp, rsp0, halted, phase>>
  BY DEF ThreadCreate, cpuVars
<1>3. Created(t, p, "RUNNABLE")
  BY <1>1, <1>2, CreateList
<1>4. live' = live \cup {t} /\ freePages' = freePages \ {p} /\ p \in freePages
  BY <1>2 DEF thread_create
<1>5. current # t /\ idle # t
  <2>1. CASE BootRuns
    BY <2>1, <1>1, <1>3, SchedAssumption DEF BootRuns, CpuInv, Created
  <2>2. CASE CallerRuns
    BY <2>2, <1>1, <1>3, SchedAssumption DEF CallerRuns, CpuInv, Created
  <2> QED
    BY <2>1, <2>2 DEF ThreadCreate
<1>6. TypeOK'
  BY <1>1, <1>2, <1>3 DEF TypeOK, RunQueue, Created
<1>7. OneRunning'
  BY <1>1, <1>2, <1>3, <1>4, <1>5 DEF OneRunning, Created
<1>8. StackOwnership'
  <2>1. \A u \in live : stack[u] # p
    BY <1>1, <1>4 DEF StackOwnership
  <2> QED
    BY <2>1, <1>1, <1>2, <1>3, <1>4, <1>5 DEF StackOwnership, OwnStack, Created
<1>9. KernelEntryStack'
  BY <1>1, <1>2, <1>3, <1>4, <1>5 DEF KernelEntryStack, ThreadRuns, Created
<1>10. CpuInv'
  BY <1>1, <1>2, <1>3, <1>4 DEF CpuInv, Created
<1>11. FaultOnlyWithoutIdle'
  BY <1>1, <1>2 DEF FaultOnlyWithoutIdle
<1> QED
  BY <1>3, <1>6, <1>7, <1>8, <1>9, <1>10, <1>11 DEF IInv, Created

LEMMA SchedCreateIdleInv ==
  ASSUME IInv, SchedCreateIdle
  PROVE  IInv'
<1>1. TypeOK /\ QueueWF /\ OneRunning /\ StackOwnership /\ KernelEntryStack
      /\ FaultOnlyWithoutIdle /\ CpuInv
  BY DEF IInv
<1>2. phase = "init" /\ phase' = "late"
  BY DEF SchedCreateIdle
<1>3. /\ idle = NULL /\ current = NULL /\ halted = "no" /\ rsp = BootStack
  BY <1>1, <1>2 DEF CpuInv
<1>4. CASE \E t \in Threads, p \in Pages :
             /\ thread_create(t, p, FALSE)
             /\ state' = [state EXCEPT ![t] = "RUNNING"]
             /\ idle' = t
             /\ current' = t
             /\ UNCHANGED <<rsp, rsp0, halted>>
  <2>1. PICK t \in Threads, p \in Pages :
             /\ thread_create(t, p, FALSE)
             /\ state' = [state EXCEPT ![t] = "RUNNING"]
             /\ idle' = t
             /\ current' = t
             /\ UNCHANGED <<rsp, rsp0, halted>>
    BY <1>4
  <2>2. Created(t, p, "RUNNING")
    BY <1>1, <2>1, CreateList
  <2>3. live' = live \cup {t} /\ freePages' = freePages \ {p} /\ p \in freePages
    BY <2>1 DEF thread_create
  <2>4. t # NULL
    BY SchedAssumption
  <2>5. TypeOK'
    BY <1>1, <1>2, <2>1, <2>2 DEF TypeOK, RunQueue, Pointer, Created
  <2>6. OneRunning'
    BY <1>1, <1>3, <2>1, <2>2, <2>3, SchedAssumption DEF OneRunning, TypeOK, Created
  <2>7. StackOwnership'
    <3>1. \A u \in live : stack[u] # p
      BY <1>1, <2>3 DEF StackOwnership
    <3>2. \A u \in live : u # NULL /\ u # t
      BY <1>1, <2>2, SchedAssumption DEF TypeOK, Created
    <3> QED
      BY <3>1, <3>2, <1>1, <1>3, <2>1, <2>2, <2>3 DEF StackOwnership, OwnStack, Created
  <2>8. KernelEntryStack' /\ FaultOnlyWithoutIdle'
    BY <1>2, <1>3, <2>1 DEF KernelEntryStack, ThreadRuns, FaultOnlyWithoutIdle
  <2>9. CpuInv'
    BY <1>1, <1>2, <1>3, <2>1, <2>2, <2>3, <2>4 DEF CpuInv, Created
  <2> QED
    BY <2>2, <2>5, <2>6, <2>7, <2>8, <2>9 DEF IInv, Created
<1>5. CASE UNCHANGED <<queueVars, memVars, saved, cpuVars>>
  <2>1. UNCHANGED <<rq, state, live, stack, saved, freePages, task, current, idle, rsp, rsp0, halted>>
    BY <1>5 DEF queueVars, memVars, cpuVars
  <2>2. Queued' = Queued
    BY <2>1 DEF Queued
  <2>3. QueueWF'
    BY <1>1, <2>1, <2>2 DEF QueueWF
  <2>4. TypeOK' /\ OneRunning' /\ StackOwnership' /\ FaultOnlyWithoutIdle'
    BY <1>1, <1>2, <2>1 DEF TypeOK, OneRunning, StackOwnership, OwnStack, FaultOnlyWithoutIdle
  <2>5. CpuInv' /\ KernelEntryStack'
    BY <1>1, <1>2, <1>3, <2>1, <2>2 DEF CpuInv, KernelEntryStack, ThreadRuns
  <2> QED
    BY <2>3, <2>4, <2>5 DEF IInv
<1> QED
  BY <1>4, <1>5 DEF SchedCreateIdle

(* sched_run() that switches: the head of the queue becomes current and    *)
(* moves to the tail, whether the outgoing thread still waits in the queue *)
(* (a yield), has just blocked, or no longer exists (sched.c:135-159).     *)
LEMMA DispatchInv ==
  ASSUME IInv, phase = "run", halted = "no",
         NEW q \in RunQueue, NEW Q \in SUBSET Queued, ListOf(q, Q),
         NEW st \in [Threads -> ThreadState],
         Q # {}, q.head # current,
         Queued \ {current} \subseteq Q,
         idle # NULL => idle \in Q,
         \A t \in Threads \ {current} : st[t] = state[t],
         current \in live => st[current] = IF current \in Q THEN "RUNNING" ELSE "BLOCKED",
         sched_run(q, st), UNCHANGED <<memVars, phase>>
  PROVE  IInv'
<1> DEFINE h == q.head
<1>1. TypeOK /\ QueueWF /\ OneRunning /\ StackOwnership /\ CpuInv
  BY DEF IInv
<1>2. UNCHANGED <<live, stack, freePages, task, phase>>
  BY DEF memVars
<1>3. /\ Queued \subseteq live /\ live \subseteq Threads
      /\ h \in Q /\ h # NULL /\ h \in live /\ h \in Threads
  BY <1>1, SchedAssumption DEF Queued, TypeOK, ListOf, EndsOf
<1>4. sched_choose(q) = h /\ h \notin {NULL, current}
  BY <1>3 DEF sched_choose
<1>5. /\ state' = [t \in Threads |->
                     IF t = h THEN "RUNNING"
                     ELSE IF t = current /\ st[t] = "RUNNING" THEN "RUNNABLE"
                     ELSE st[t]]
      /\ rq' = IF LooksQueued(q, h) THEN sched_enqueue(sched_dequeue(q, h), h) ELSE q
      /\ current' = h
      /\ thread_switch(current, h)
      /\ idle' = idle
  BY <1>4 DEF sched_run
<1>6. rq' \in RunQueue /\ ListOf(rq', Q)
  <2>0. Q \in SUBSET Threads /\ Q \ {h} \in SUBSET Threads
    BY <1>3
  <2>1. /\ sched_dequeue(q, h) \in RunQueue
        /\ ListOf(sched_dequeue(q, h), Q \ {h})
    BY <1>3, <2>0, DequeueList
  <2>2. /\ sched_enqueue(sched_dequeue(q, h), h) \in RunQueue
        /\ ListOf(sched_enqueue(sched_dequeue(q, h), h), (Q \ {h}) \cup {h})
    BY <1>3, <2>0, <2>1, EnqueueList
  <2>3. (Q \ {h}) \cup {h} = Q
    BY <1>3
  <2> QED
    BY <2>2, <2>3, <1>5
<1>7. \A t \in Threads : state'[t] = IF t = h THEN "RUNNING"
                                     ELSE IF t = current /\ st[t] = "RUNNING" THEN "RUNNABLE"
                                     ELSE st[t]
  BY <1>5
<1>8. Queued' = Q
  <2>1. ASSUME NEW t \in live
        PROVE  state'[t] \in {"RUNNABLE", "RUNNING"} <=> t \in Q
    <3>1. CASE t = h
      BY <3>1, <1>3, <1>7
    <3>2. CASE t # h /\ t = current
      BY <3>2, <1>3, <1>7
    <3>3. CASE t # h /\ t # current
      BY <3>3, <1>3, <1>7 DEF Queued
    <3> QED
      BY <3>1, <3>2, <3>3
  <2> QED
    BY <2>1, <1>2, <1>3 DEF Queued
<1>9. QueueWF'
  BY <1>6, <1>8 DEF QueueWF
<1>10. OneRunning'
  <2> SUFFICES ASSUME NEW t \in live
               PROVE  state'[t] = "RUNNING" <=> t = h
    BY <1>2, <1>5 DEF OneRunning
  <2>1. CASE t = h
    BY <2>1, <1>3, <1>7
  <2>2. CASE t # h /\ t = current
    BY <2>2, <1>3, <1>7
  <2>3. CASE t # h /\ t # current
    BY <2>3, <1>1, <1>3, <1>7 DEF OneRunning
  <2> QED
    BY <2>1, <2>2, <2>3
<1>11. current = NULL <=> idle = NULL
  BY <1>1 DEF CpuInv
<1>12. saved[h] = OwnStack(h)
  BY <1>1, <1>3, <1>4 DEF StackOwnership
<1>13. CASE idle = NULL
  <2>1. current = NULL /\ halted' = "fault" /\ UNCHANGED <<saved, rsp, idle>> /\ rsp0' = stack[h]
    BY <1>5, <1>11, <1>13 DEF thread_switch
  <2>2. TypeOK'
    BY <2>1, <1>1, <1>2, <1>3, <1>5, <1>6 DEF TypeOK, RunQueue, Pointer, ThreadState
  <2>3. StackOwnership'
    <3>1. \A t \in live : saved[t] = OwnStack(t)
      BY <2>1, <1>1, <1>3, SchedAssumption DEF StackOwnership
    <3>2. \A t : OwnStack(t)' = OwnStack(t)
      BY <2>1, <1>2 DEF OwnStack
    <3> QED
      BY <3>1, <3>2, <2>1, <1>1, <1>2 DEF StackOwnership
  <2>4. KernelEntryStack' /\ FaultOnlyWithoutIdle'
    BY <2>1, <1>13 DEF KernelEntryStack, ThreadRuns, FaultOnlyWithoutIdle
  <2>5. CpuInv'
    BY <2>1, <1>1, <1>2, <1>13 DEF CpuInv
  <2> QED
    BY <2>2, <2>3, <2>4, <2>5, <1>9, <1>10 DEF IInv
<1>14. CASE idle # NULL
  <2>1. /\ current # NULL /\ current \in Threads
        /\ saved' = [saved EXCEPT ![current] = rsp]
        /\ rsp' = saved[h] /\ rsp0' = stack[h]
        /\ UNCHANGED <<halted, idle>>
    BY <1>1, <1>5, <1>11, <1>14 DEF thread_switch, TypeOK, Pointer
  <2>2. TypeOK'
    <3>1. saved' \in [Threads -> Pages \cup {BootStack, NULL}]
      BY <2>1, <1>1 DEF TypeOK
    <3>2. rsp' \in Pages \cup {BootStack, NULL} /\ rsp0' \in Pages \cup {NULL}
      BY <2>1, <1>1, <1>3 DEF TypeOK
    <3>3. state' \in [Threads -> ThreadState]
      BY <1>5 DEF ThreadState
    <3> QED
      BY <3>1, <3>2, <3>3, <2>1, <1>1, <1>2, <1>3, <1>5, <1>6 DEF TypeOK, RunQueue, Pointer
  <2>3. stack[h] # BootStack
    BY <1>1, <1>3, SchedAssumption DEF CpuInv
  <2>4. rsp' = BootStack <=> h = idle
    BY <2>1, <2>3, <1>12 DEF OwnStack
  <2>5. StackOwnership'
    <3>1. \A t \in live \ {h} : saved'[t] = OwnStack(t)
      <4> SUFFICES ASSUME NEW t \in live, t # h
                   PROVE  saved'[t] = OwnStack(t)
        OBVIOUS
      <4>1. CASE t = current
        BY <4>1, <2>1, <1>1, <1>3 DEF StackOwnership, TypeOK
      <4>2. CASE t # current
        BY <4>2, <2>1, <1>1, <1>3 DEF StackOwnership, TypeOK
      <4> QED
        BY <4>1, <4>2
    <3>2. \A t : OwnStack(t)' = OwnStack(t)
      BY <2>1, <1>2 DEF OwnStack
    <3> QED
      BY <3>1, <3>2, <2>1, <1>1, <1>2, <1>5, <1>12 DEF StackOwnership, OwnStack
  <2>6. KernelEntryStack' /\ FaultOnlyWithoutIdle'
    BY <2>1, <1>2, <1>5, <1>14 DEF KernelEntryStack, ThreadRuns, FaultOnlyWithoutIdle
  <2>7. CpuInv'
    <3>1. phase' = "run"
      BY <1>2
    <3> QED
      BY <3>1, <2>1, <2>4, <1>1, <1>2, <1>3, <1>5, <1>8, <1>14 DEF CpuInv
  <2> QED
    BY <2>2, <2>5, <2>6, <2>7, <1>9, <1>10 DEF IInv
<1> QED
  BY <1>13, <1>14

LEMMA SchedIdleInv == ASSUME IInv, SchedIdle PROVE IInv'
<1>1. TypeOK /\ QueueWF /\ OneRunning /\ StackOwnership /\ KernelEntryStack
      /\ FaultOnlyWithoutIdle /\ CpuInv
  BY DEF IInv
<1>2. phase = "run" /\ halted = "no" /\ rsp = BootStack /\ UNCHANGED <<memVars, phase>>
  BY DEF SchedIdle
<1>3. CASE sched_choose(rq) \notin {NULL, current}
  <2>1. Queued # {} /\ rq.head # current
    BY <1>1, <1>3 DEF sched_choose, QueueWF, ListOf, EndsOf, CpuInv
  <2>2. current \in live => current \in Queued /\ state[current] = "RUNNING"
    BY <1>1 DEF OneRunning, Queued
  <2>3. /\ rq \in RunQueue /\ state \in [Threads -> ThreadState]
        /\ Queued \ {current} \subseteq Queued
        /\ idle # NULL => idle \in Queued
        /\ sched_run(rq, state)
    BY <1>1, <1>3, TypeRunQueue DEF TypeOK, CpuInv, SchedIdle
  <2> QED
    BY <1>1, <1>2, <2>1, <2>2, <2>3, DispatchInv DEF QueueWF
<1>4. CASE sched_choose(rq) \in {NULL, current}
  <2>1. halted' = "idle" /\ UNCHANGED <<rq, state, saved, current, idle, rsp, rsp0,
                                        live, stack, freePages, task, phase>>
    BY <1>2, <1>4 DEF SchedIdle, queueVars, memVars
  <2>2. Queued' = Queued
    BY <2>1 DEF Queued
  <2>3. QueueWF'
    BY <1>1, <2>1, <2>2 DEF QueueWF
  <2>4. TypeOK' /\ OneRunning' /\ FaultOnlyWithoutIdle' /\ KernelEntryStack'
    BY <1>1, <2>1 DEF TypeOK, OneRunning, FaultOnlyWithoutIdle, KernelEntryStack, ThreadRuns
  <2>5. StackOwnership'
    BY <1>1, <1>2, <2>1 DEF StackOwnership, OwnStack
  <2>6. CpuInv'
    BY <1>1, <1>2, <2>1, <2>2 DEF CpuInv
  <2> QED
    BY <2>3, <2>4, <2>5, <2>6 DEF IInv
<1> QED
  BY <1>3, <1>4

LEMMA ThreadYieldInv == ASSUME IInv, ThreadYield PROVE IInv'
<1>1. TypeOK /\ QueueWF /\ OneRunning /\ CpuInv
  BY DEF IInv
<1>2. /\ phase = "run" /\ halted = "no" /\ UNCHANGED <<memVars, phase>>
      /\ sched_choose(rq) \notin {NULL, current} /\ sched_run(rq, state)
  BY DEF ThreadYield, ThreadRuns
<1>3. Queued # {} /\ rq.head # current
  BY <1>1, <1>2 DEF sched_choose, QueueWF, ListOf, EndsOf, CpuInv
<1>4. current \in live => current \in Queued /\ state[current] = "RUNNING"
  BY <1>1 DEF OneRunning, Queued
<1>5. /\ rq \in RunQueue /\ state \in [Threads -> ThreadState]
      /\ idle # NULL => idle \in Queued
  BY <1>1, TypeRunQueue DEF TypeOK, CpuInv
<1> QED
  BY <1>1, <1>2, <1>3, <1>4, <1>5, DispatchInv DEF QueueWF

\* A thread that makes a call is a live one other than idle.
LEMMA CallerFacts ==
  ASSUME ~ ExitedKeepsCalling, IInv, CallerRuns
  PROVE  /\ phase = "run" /\ halted = "no"
         /\ current \in live /\ current \in Queued /\ current \in Threads
         /\ state[current] = "RUNNING"
         /\ idle # NULL /\ current # idle /\ idle \in Queued
<1>1. TypeOK /\ OneRunning /\ CpuInv
  BY DEF IInv
<1>2. phase = "run" /\ halted = "no" /\ rsp # BootStack /\ current \in live
  BY DEF CallerRuns, ThreadRuns
<1> QED
  BY <1>1, <1>2 DEF TypeOK, OneRunning, CpuInv, Queued

LEMMA BlockCurrentInv == ASSUME ~ ExitedKeepsCalling, IInv, BlockCurrent PROVE IInv'
<1> DEFINE q == sched_dequeue(rq, current)
           Q == Queued \ {current}
           st == [state EXCEPT ![current] = "BLOCKED"]
<1>1. TypeOK /\ QueueWF
  BY DEF IInv
<1>2. CallerRuns /\ sched_run(q, st) /\ UNCHANGED <<memVars, phase>>
  BY DEF BlockCurrent
<1>3. /\ phase = "run" /\ halted = "no"
      /\ current \in live /\ current \in Queued /\ current \in Threads
      /\ idle # NULL /\ current # idle /\ idle \in Queued
  BY <1>2, CallerFacts
<1>4. Queued \in SUBSET Threads
  BY <1>1 DEF Queued, TypeOK
<1>5. q \in RunQueue /\ ListOf(q, Q)
  BY <1>1, <1>3, <1>4, TypeRunQueue, DequeueList DEF QueueWF
<1>6. Q # {} /\ q.head # current /\ Q \in SUBSET Queued /\ idle \in Q
  <2>1. Q # {} /\ idle \in Q
    BY <1>3
  <2>2. q.head \in Q \cup {NULL} /\ q.head # NULL
    BY <2>1, <1>5 DEF ListOf, EndsOf
  <2> QED
    BY <2>1, <2>2
<1>7. /\ st \in [Threads -> ThreadState]
      /\ \A t \in Threads \ {current} : st[t] = state[t]
      /\ st[current] = "BLOCKED"
  BY <1>1, <1>3 DEF TypeOK, ThreadState
<1>8. current \notin Q
  OBVIOUS
<1> HIDE DEF q, Q, st
<1>9. Queued \ {current} \subseteq Q
  BY DEF Q
<1> QED
  BY <1>2, <1>3, <1>5, <1>6, <1>7, <1>8, <1>9, DispatchInv

LEMMA UnblockInv ==
  ASSUME IInv, NEW t \in Threads, Unblock(t)
  PROVE  IInv'
<1>1. TypeOK /\ QueueWF /\ OneRunning /\ StackOwnership /\ KernelEntryStack
      /\ FaultOnlyWithoutIdle /\ CpuInv
  BY DEF IInv
<1>2. /\ t \in live /\ state[t] = "BLOCKED"
      /\ state' = [state EXCEPT ![t] = "RUNNABLE"]
      /\ rq' = sched_enqueue(rq, t)
      /\ UNCHANGED <<live, stack, freePages, task, saved, current, idle, rsp, rsp0, halted, phase>>
  BY DEF Unblock, memVars, cpuVars
<1>3. t \notin Queued /\ Queued \in SUBSET Threads
  BY <1>1, <1>2 DEF Queued, TypeOK
<1>4. Queued' = Queued \cup {t}
  BY <1>1, <1>2 DEF Queued, TypeOK
<1>5. rq' \in RunQueue /\ ListOf(rq', Queued \cup {t})
  BY <1>1, <1>2, <1>3, TypeRunQueue, EnqueueList DEF QueueWF
<1>6. QueueWF'
  BY <1>4, <1>5 DEF QueueWF
<1>7. TypeOK'
  BY <1>1, <1>2, <1>5 DEF TypeOK, RunQueue, ThreadState
<1>8. OneRunning'
  BY <1>1, <1>2 DEF OneRunning, TypeOK
<1>9. StackOwnership' /\ KernelEntryStack' /\ FaultOnlyWithoutIdle'
  BY <1>1, <1>2 DEF StackOwnership, OwnStack, KernelEntryStack, ThreadRuns, FaultOnlyWithoutIdle
<1>10. CpuInv'
  BY <1>1, <1>2, <1>4 DEF CpuInv
<1> QED
  BY <1>6, <1>7, <1>8, <1>9, <1>10 DEF IInv

LEMMA ThreadExitInv == ASSUME ~ ExitedKeepsCalling, IInv, ThreadExit PROVE IInv'
<1>1. TypeOK /\ QueueWF /\ OneRunning /\ StackOwnership /\ KernelEntryStack
      /\ FaultOnlyWithoutIdle /\ CpuInv
  BY DEF IInv
<1>2. /\ CallerRuns
      /\ rq' = sched_dequeue(rq, current)
      /\ freePages' = freePages \cup {stack[current]}
      /\ live' = live \ {current}
      /\ UNCHANGED <<state, stack, saved, current, idle, rsp, rsp0, halted, phase, task>>
  BY DEF ThreadExit, cpuVars
<1>3. /\ phase = "run" /\ halted = "no"
      /\ current \in live /\ current \in Queued /\ current \in Threads
      /\ idle # NULL /\ current # idle /\ idle \in Queued
  BY <1>2, CallerFacts
<1>4. Queued' = Queued \ {current} /\ Queued \in SUBSET Threads
  BY <1>1, <1>2 DEF Queued, TypeOK
<1>5. rq' \in RunQueue /\ ListOf(rq', Queued \ {current})
  BY <1>1, <1>2, <1>3, <1>4, TypeRunQueue, DequeueList DEF QueueWF
<1>6. QueueWF'
  BY <1>4, <1>5 DEF QueueWF
<1>7. TypeOK'
  BY <1>1, <1>2, <1>3, <1>5 DEF TypeOK, RunQueue, CpuInv
<1>8. OneRunning'
  BY <1>1, <1>2 DEF OneRunning
<1>9. StackOwnership' /\ KernelEntryStack' /\ FaultOnlyWithoutIdle'
  BY <1>1, <1>2, <1>3 DEF StackOwnership, OwnStack, KernelEntryStack, ThreadRuns, FaultOnlyWithoutIdle
<1>10. CpuInv'
  BY <1>1, <1>2, <1>3, <1>4 DEF CpuInv
<1> QED
  BY <1>6, <1>7, <1>8, <1>9, <1>10 DEF IInv

LEMMA EnterSchedIdleInv == ASSUME IInv, EnterSchedIdle PROVE IInv'
<1>1. TypeOK /\ QueueWF /\ OneRunning /\ StackOwnership /\ KernelEntryStack
      /\ FaultOnlyWithoutIdle /\ CpuInv
  BY DEF IInv
<1>2. /\ phase = "late" /\ phase' = "run"
      /\ UNCHANGED <<rq, state, live, stack, saved, freePages, task, current, idle, rsp, rsp0, halted>>
  BY DEF EnterSchedIdle, queueVars, memVars, cpuVars
<1>3. Queued' = Queued
  BY <1>2 DEF Queued
<1>4. QueueWF'
  BY <1>1, <1>2, <1>3 DEF QueueWF
<1>5. TypeOK' /\ OneRunning' /\ StackOwnership' /\ FaultOnlyWithoutIdle'
  BY <1>1, <1>2 DEF TypeOK, OneRunning, StackOwnership, OwnStack, FaultOnlyWithoutIdle
<1>6. CpuInv' /\ KernelEntryStack'
  BY <1>1, <1>2, <1>3 DEF CpuInv, KernelEntryStack, ThreadRuns
<1> QED
  BY <1>4, <1>5, <1>6 DEF IInv

LEMMA NextIInv == ASSUME ~ ExitedKeepsCalling, IInv, [Next]_vars PROVE IInv'
<1>1. CASE Next
  BY <1>1, ThreadCreateInv, SchedCreateIdleInv, EnterSchedIdleInv, SchedIdleInv,
     ThreadYieldInv, BlockCurrentInv, UnblockInv, ThreadExitInv DEF Next
<1>2. CASE UNCHANGED vars
  <2>1. UNCHANGED <<rq, state, live, stack, saved, freePages, task, current, idle,
                    rsp, rsp0, halted, phase>>
    BY <1>2 DEF vars
  <2>2. Queued' = Queued
    BY <2>1 DEF Queued
  <2> QED
    BY <2>1, <2>2 DEF IInv, TypeOK, QueueWF, OneRunning, StackOwnership, OwnStack,
       KernelEntryStack, ThreadRuns, FaultOnlyWithoutIdle, CpuInv
<1> QED
  BY <1>1, <1>2

-----------------------------------------------------------------------------
(* As long as a thread that exited makes no further call, the scheduler's  *)
(* state is well typed and its run queue is one well-formed list of the    *)
(* runnable and running threads, whatever calls are made in which order.   *)
THEOREM SchedQueue ==
  ASSUME ~ ExitedKeepsCalling
  PROVE  Spec => [](TypeOK /\ QueueWF)
<1>1. IInv => TypeOK /\ QueueWF
  BY DEF IInv
<1> QED
  BY <1>1, InitIInv, NextIInv, PTL DEF Spec

(* Exactly the current thread is marked RUNNING, it runs on its own stack, *)
(* every other thread will resume on its own, and no stack is shared or    *)
(* back in the allocator.                                                  *)
THEOREM SchedStacks ==
  ASSUME ~ ExitedKeepsCalling
  PROVE  Spec => [](OneRunning /\ StackOwnership /\ KernelEntryStack)
<1>1. IInv => OneRunning /\ StackOwnership /\ KernelEntryStack
  BY DEF IInv
<1> QED
  BY <1>1, InitIInv, NextIInv, PTL DEF Spec

(* A context switch faults only on a machine whose idle thread could not   *)
(* be created.                                                             *)
THEOREM SchedFault ==
  ASSUME ~ ExitedKeepsCalling
  PROVE  Spec => []FaultOnlyWithoutIdle
<1>1. IInv => FaultOnlyWithoutIdle
  BY DEF IInv
<1> QED
  BY <1>1, InitIInv, NextIInv, PTL DEF Spec
=============================================================================
