----------------------------- MODULE IpcProofs -----------------------------
(***************************************************************************)
(* Proofs about Mach IPC, for every number of threads, ports, messages and *)
(* ring slots.  First what one enqueue and one dequeue do to a message     *)
(* ring, then two inductive invariants: what holds whoever shares a port   *)
(* or removes it (IpcInv), and the wake-up protocol of a port that one     *)
(* thread receives from and nobody removes under it (WakeInv).  Last, the  *)
(* rings implement the abstract ports of Mailbox.                          *)
(***************************************************************************)
EXTENDS IpcRefinement, SchedProofs, SequenceTheorems

\* The types of struct ipc_port and of the state of a call.
Port == [refs : 0..RefModulus-1, waiter : Pointer, msgs : [Slots -> Kmsgs \cup {NULL}],
         first : Slots, last : Slots, count : 0..IPC_PORT_QUEUE_MAX]

CallState == [pc : {"run", "rcv", "wait"}, local : Names, name : Names,
              size : Sizes \cup {0}, port : Ports \cup {NULL}]

-----------------------------------------------------------------------------
(* The ring, without division: the slot c places after f, and how far slot *)
(* i is from f.                                                            *)

After(f, c) == IF f + c < IPC_PORT_QUEUE_MAX THEN f + c ELSE f + c - IPC_PORT_QUEUE_MAX

Distance(f, i) == IF f <= i THEN i - f ELSE i + IPC_PORT_QUEUE_MAX - f

\* The occupied slots are the count ones from first, each message is in one
\* slot, and last is the slot after them.
RingOK(pt) ==
  /\ pt.last = After(pt.first, pt.count)
  /\ \A i \in Slots : pt.msgs[i] # NULL <=> Distance(pt.first, i) < pt.count
  /\ \A i, j \in Slots : pt.msgs[i] = pt.msgs[j] /\ pt.msgs[i] # NULL => i = j
  /\ IsFiniteSet(InRing(pt)) /\ Cardinality(InRing(pt)) = pt.count

(* The index arithmetic modulo IPC_PORT_QUEUE_MAX of ipc_port.c.           *)
LEMMA RingIndex ==
  ASSUME NEW f \in Slots, NEW c \in 0..IPC_PORT_QUEUE_MAX
  PROVE  /\ (f + c) % IPC_PORT_QUEUE_MAX = After(f, c)
         /\ After(f, c) \in Slots
         /\ c < IPC_PORT_QUEUE_MAX => Distance(f, After(f, c)) = c
<1>1. IPC_PORT_QUEUE_MAX \in Nat \ {0}
  BY IpcAssumption
<1>2. CASE f + c < IPC_PORT_QUEUE_MAX
  BY <1>1, <1>2 DEF Slots, After, Distance
<1>3. CASE f + c >= IPC_PORT_QUEUE_MAX
  BY <1>1, <1>3 DEF Slots, After, Distance
<1> QED
  BY <1>1, <1>2, <1>3 DEF Slots

LEMMA RingDistance ==
  ASSUME NEW f \in Slots, NEW i \in Slots
  PROVE  Distance(f, i) \in Slots /\ After(f, Distance(f, i)) = i
  BY IpcAssumption DEF Slots, After, Distance

LEMMA RingNext ==
  ASSUME NEW f \in Slots, NEW c \in 0..IPC_PORT_QUEUE_MAX
  PROVE  /\ c < IPC_PORT_QUEUE_MAX => After(After(f, c), 1) = After(f, c + 1)
         /\ c # 0 => After(After(f, 1), c - 1) = After(f, c)
         /\ Distance(f, f) = 0
         /\ Distance(After(f, 1), f) = IPC_PORT_QUEUE_MAX - 1
         /\ \A i \in Slots \ {f} : Distance(After(f, 1), i) = Distance(f, i) - 1
  BY IpcAssumption DEF Slots, After, Distance

(* ipc_port_enqueue() into a ring that is not full appends one message and *)
(* leaves the ring in order, across the wrap too (ipc_port.c:56-75).       *)
LEMMA EnqueueRing ==
  ASSUME NEW pt \in Port, RingOK(pt), pt.count < IPC_PORT_QUEUE_MAX,
         NEW k \in Kmsgs, k \notin InRing(pt)
  PROVE  LET e == ipc_port_enqueue(pt, k)
         IN  /\ e \in Port
             /\ RingOK(e)
             /\ InRing(e) = InRing(pt) \cup {k}
             /\ e.refs = pt.refs /\ e.waiter = NULL /\ e.count = pt.count + 1
             /\ e.first = pt.first
             /\ e.msgs = [pt.msgs EXCEPT ![pt.last] = k]
<1> DEFINE e == ipc_port_enqueue(pt, k)
<1>a. IPC_PORT_QUEUE_MAX \in Nat \ {0} /\ k # NULL
  BY IpcAssumption
<1>b. /\ pt.refs \in 0..RefModulus-1 /\ pt.first \in Slots /\ pt.last \in Slots
      /\ pt.count \in 0..IPC_PORT_QUEUE_MAX /\ pt.msgs \in [Slots -> Kmsgs \cup {NULL}]
  BY DEF Port
<1>1. /\ e.refs = pt.refs /\ e.waiter = NULL /\ e.count = pt.count + 1
      /\ e.first = pt.first
      /\ e.msgs = [pt.msgs EXCEPT ![pt.last] = k]
      /\ e.last = (pt.last + 1) % IPC_PORT_QUEUE_MAX
  BY DEF ipc_port_enqueue, Port
<1>2. e.last = After(pt.last, 1) /\ e.last \in Slots
  BY <1>1, <1>a, <1>b, RingIndex
<1>3. e \in Port
  <2>1. e.msgs \in [Slots -> Kmsgs \cup {NULL}]
    BY <1>1, <1>b
  <2>2. e.count \in 0..IPC_PORT_QUEUE_MAX
    BY <1>1, <1>a, <1>b
  <2> QED
    BY <1>1, <1>2, <1>b, <2>1, <2>2 DEF ipc_port_enqueue, Port, Pointer
<1>4. Distance(pt.first, pt.last) = pt.count /\ pt.msgs[pt.last] = NULL
  <2>1. pt.last = After(pt.first, pt.count)
    BY DEF RingOK
  <2>2. Distance(pt.first, pt.last) = pt.count
    BY <1>b, <2>1, RingIndex
  <2>3. ~ (pt.count < pt.count)
    BY <1>a, <1>b
  <2> QED
    BY <1>b, <2>2, <2>3 DEF RingOK
<1>5. e.last = After(e.first, e.count)
  <2>1. pt.last = After(pt.first, pt.count)
    BY DEF RingOK
  <2> QED
    BY <1>1, <1>2, <1>b, <2>1, RingNext
<1>6. \A i \in Slots : e.msgs[i] = IF i = pt.last THEN k ELSE pt.msgs[i]
  BY <1>1, <1>b
<1>7. \A i \in Slots : e.msgs[i] # NULL <=> Distance(e.first, i) < e.count
  <2> SUFFICES ASSUME NEW i \in Slots
               PROVE  e.msgs[i] # NULL <=> Distance(e.first, i) < e.count
    OBVIOUS
  <2>1. CASE i = pt.last
    BY <2>1, <1>1, <1>4, <1>6, <1>a, <1>b
  <2>2. CASE i # pt.last
    <3>1. Distance(pt.first, i) # pt.count
      BY <2>2, <1>b, <1>4, RingDistance
    <3>2. Distance(pt.first, i) \in Int /\ pt.count \in Int
      <4>1. Distance(pt.first, i) \in Slots
        BY <1>b, RingDistance
      <4> QED
        BY <1>a, <1>b, <4>1 DEF Slots
    <3> QED
      BY <2>2, <3>1, <3>2, <1>1, <1>6 DEF RingOK
  <2> QED
    BY <2>1, <2>2
<1>8. InRing(e) = InRing(pt) \cup {k}
  BY <1>4, <1>6, <1>a, <1>b DEF InRing
<1>9. \A i, j \in Slots : e.msgs[i] = e.msgs[j] /\ e.msgs[i] # NULL => i = j
  <2>1. \A i \in Slots : pt.msgs[i] # k
    BY <1>a DEF InRing
  <2> QED
    BY <2>1, <1>6 DEF RingOK
<1>10. IsFiniteSet(InRing(e)) /\ Cardinality(InRing(e)) = e.count
  BY <1>1, <1>8, FS_AddElement DEF RingOK
<1> QED
  BY <1>1, <1>3, <1>5, <1>7, <1>8, <1>9, <1>10 DEF RingOK

(* ipc_port_dequeue() of a ring that holds a message takes out the oldest  *)
(* one and leaves the ring in order (ipc_port.c:77-88).                    *)
LEMMA DequeueRing ==
  ASSUME NEW pt \in Port, RingOK(pt), pt.count # 0
  PROVE  LET d == ipc_port_dequeue(pt)
             k == pt.msgs[pt.first]
         IN  /\ d \in Port
             /\ RingOK(d)
             /\ k \in Kmsgs /\ k \in InRing(pt)
             /\ InRing(d) = InRing(pt) \ {k}
             /\ d.refs = pt.refs /\ d.waiter = pt.waiter /\ d.count = pt.count - 1
             /\ d.first = After(pt.first, 1)
             /\ d.msgs = [pt.msgs EXCEPT ![pt.first] = NULL]
<1> DEFINE d == ipc_port_dequeue(pt)
           k == pt.msgs[pt.first]
<1>a. IPC_PORT_QUEUE_MAX \in Nat \ {0} /\ NULL \notin Kmsgs
  BY IpcAssumption
<1>b. /\ pt.refs \in 0..RefModulus-1 /\ pt.first \in Slots /\ pt.last \in Slots
      /\ pt.waiter \in Pointer
      /\ pt.count \in 0..IPC_PORT_QUEUE_MAX /\ pt.msgs \in [Slots -> Kmsgs \cup {NULL}]
  BY DEF Port
<1>1. /\ d.refs = pt.refs /\ d.waiter = pt.waiter /\ d.count = pt.count - 1
      /\ d.last = pt.last
      /\ d.msgs = [pt.msgs EXCEPT ![pt.first] = NULL]
      /\ d.first = (pt.first + 1) % IPC_PORT_QUEUE_MAX
  BY DEF ipc_port_dequeue, Port
<1>2. d.first = After(pt.first, 1) /\ d.first \in Slots
  BY <1>1, <1>a, <1>b, RingIndex
<1>3. d \in Port
  <2>1. d.msgs \in [Slots -> Kmsgs \cup {NULL}]
    BY <1>1, <1>b
  <2>2. d.count \in 0..IPC_PORT_QUEUE_MAX
    BY <1>1, <1>a, <1>b
  <2> QED
    BY <1>1, <1>2, <1>b, <2>1, <2>2 DEF ipc_port_dequeue, Port
<1>4. Distance(pt.first, pt.first) = 0
  BY <1>a, <1>b DEF Distance, Slots
<1>5. k # NULL /\ k \in Kmsgs /\ k \in InRing(pt)
  BY <1>4, <1>a, <1>b DEF RingOK, InRing
<1>6. d.last = After(d.first, d.count)
  <2>1. pt.last = After(pt.first, pt.count)
    BY DEF RingOK
  <2> QED
    BY <1>1, <1>2, <1>b, <2>1, RingNext
<1>7. \A i \in Slots : d.msgs[i] = IF i = pt.first THEN NULL ELSE pt.msgs[i]
  BY <1>1, <1>b
<1>8. \A i \in Slots : d.msgs[i] # NULL <=> Distance(d.first, i) < d.count
  <2> SUFFICES ASSUME NEW i \in Slots
               PROVE  d.msgs[i] # NULL <=> Distance(d.first, i) < d.count
    OBVIOUS
  <2>1. CASE i = pt.first
    <3>1. Distance(d.first, i) = IPC_PORT_QUEUE_MAX - 1
      BY <2>1, <1>2, <1>b, RingNext
    <3>2. ~ (IPC_PORT_QUEUE_MAX - 1 < pt.count - 1)
      BY <1>a, <1>b
    <3> QED
      BY <2>1, <3>1, <3>2, <1>1, <1>7
  <2>2. CASE i # pt.first
    <3>1. Distance(d.first, i) = Distance(pt.first, i) - 1
      BY <2>2, <1>2, <1>b, RingNext
    <3>2. Distance(pt.first, i) \in Int /\ pt.count \in Int
      <4>1. Distance(pt.first, i) \in Slots
        BY <1>b, RingDistance
      <4> QED
        BY <1>a, <1>b, <4>1 DEF Slots
    <3> QED
      BY <2>2, <3>1, <3>2, <1>1, <1>7 DEF RingOK
  <2> QED
    BY <2>1, <2>2
<1>9. InRing(d) = InRing(pt) \ {k}
  BY <1>5, <1>7, <1>b DEF InRing, RingOK
<1>10. \A i, j \in Slots : d.msgs[i] = d.msgs[j] /\ d.msgs[i] # NULL => i = j
  BY <1>7 DEF RingOK
<1>11. IsFiniteSet(InRing(d)) /\ Cardinality(InRing(d)) = d.count
  BY <1>1, <1>5, <1>9, FS_RemoveElement DEF RingOK
<1> QED
  BY <1>1, <1>2, <1>3, <1>5, <1>6, <1>8, <1>9, <1>10, <1>11 DEF RingOK

(* A ring whose slots are all empty.                                       *)
LEMMA EmptyRing ==
  ASSUME NEW pt \in Port, pt.count = 0, pt.first = 0, pt.last = 0,
         pt.msgs = [i \in Slots |-> NULL]
  PROVE  RingOK(pt) /\ InRing(pt) = {}
<1>1. IPC_PORT_QUEUE_MAX \in Nat \ {0} /\ 0 \in Slots
  BY IpcAssumption DEF Slots
<1>2. InRing(pt) = {}
  BY DEF InRing
<1>3. pt.last = After(pt.first, pt.count)
  BY <1>1 DEF After
<1>4. \A i \in Slots : Distance(0, i) \in Slots
  BY <1>1, RingDistance
<1>5. \A i \in Slots : pt.msgs[i] # NULL <=> Distance(pt.first, i) < pt.count
  BY <1>1, <1>4 DEF Slots
<1>6. IsFiniteSet(InRing(pt)) /\ Cardinality(InRing(pt)) = pt.count
  BY <1>2, FS_EmptySet
<1> QED
  BY <1>2, <1>3, <1>5, <1>6 DEF RingOK

(* count tells whether the ring holds a message.                           *)
LEMMA CountIsZero ==
  ASSUME NEW pt \in Port, RingOK(pt)
  PROVE  pt.count = 0 <=> InRing(pt) = {}
  BY FS_EmptySet DEF RingOK

-----------------------------------------------------------------------------
(* What holds of ports, names and messages whoever shares a port and       *)
(* whoever removes it.  MessagesConserved alone is not inductive: an       *)
(* enqueue keeps it only if the slot at last is empty, and a release only  *)
(* if the port it frees was live and under no other name.                  *)

\* A kernel message is free or in one ring.
KmsgInv ==
  /\ \A p \in Ports : InRing(port[p]) \cap kfree = {}
  /\ \A p, q \in Ports : p # q => InRing(port[p]) \cap InRing(port[q]) = {}
  /\ \A k \in Kmsgs : k \in kfree \/ \E p \in Ports : k \in InRing(port[p])

\* A port has one reference while it exists; afterwards it holds nothing.
PortInv ==
  \A p \in Ports :
    /\ p \in portLive => port[p].refs = 1
    /\ p \notin portLive => port[p].count = 0

\* No port has two names.
NamesUnique ==
  space # NULL =>
    \A m, n \in 1..Len(space) : space[m] = space[n] /\ space[m] # NULL => m = n

\* Only a live thread is inside mach_msg(), and until it waits it keeps the CPU.
CallInv ==
  \A t \in Threads :
    /\ t \notin live => call[t].pc = "run"
    /\ call[t].pc = "rcv" => t = current /\ ThreadRuns
    /\ call[t].pc = "wait" => call[t].port \in Ports

IpcInv ==
  /\ IInv
  /\ IpcTypeOK
  /\ \A p \in Ports : RingOK(port[p])
  /\ KmsgInv
  /\ PortInv
  /\ NamesAreLive
  /\ NamesUnique
  /\ CallInv
  /\ WaiterIsBlocked

\* With one receiver per port and no removal under it: who waits on a port is
\* the thread the port will wake, or has been woken and finds a message.
WakeInv ==
  /\ \A t, u \in Threads :
       call[t].pc = "wait" /\ call[u].pc = "wait" /\ call[t].port = call[u].port => t = u
  /\ \A t \in Threads :
       call[t].pc = "rcv" => WaitingOn(ipc_space_lookup(call[t].name)) = {}
  /\ BlockedWillBeWoken
  /\ WokenFindsMessage

LEMMA PortType == IpcTypeOK => \A p \in Ports : port[p] \in Port
  BY DEF IpcTypeOK, Port

(* What a name denotes is a live port.                                     *)
LEMMA LookupLive ==
  ASSUME IpcTypeOK, NamesAreLive, NEW n, ipc_space_lookup(n) # NULL
  PROVE  /\ space # NULL /\ n \in 1..Len(space) /\ ipc_space_lookup(n) = space[n]
         /\ space[n] \in portLive /\ space[n] \in Ports
  BY DEF ipc_space_lookup, NamesAreLive, IpcTypeOK

LEMMA IpcInitInv == IpcInit => IpcInv
<1> SUFFICES ASSUME IpcInit PROVE IpcInv
  OBVIOUS
<1> USE DEF IpcInit
<1>a. /\ IPC_PORT_QUEUE_MAX \in Nat \ {0} /\ IPC_SPACE_MAX_PORTS \in Nat /\ RefModulus \in Nat \ {0, 1}
      /\ 0 \in Slots /\ 0 \in Names
  BY IpcAssumption DEF Slots, Names
<1>1. IInv
  BY InitIInv
<1>2. \A p \in Ports : /\ port[p] \in Port /\ port[p].refs = 0 /\ port[p].waiter = NULL
                       /\ port[p].count = 0 /\ port[p].first = 0 /\ port[p].last = 0
                       /\ port[p].msgs = [i \in Slots |-> NULL]
  BY <1>a DEF NewPort, Port, Pointer
<1>3. IpcTypeOK
  <2>1. port \in [Ports -> Port]
    BY <1>2
  <2>2. call \in [Threads -> CallState]
    BY <1>a DEF NotCalling, CallState
  <2>3. space \in Seq(Ports \cup {NULL}) /\ Len(space) = 0
    OBVIOUS
  <2>4. kmsg \in [Kmsgs -> [size : Sizes \cup {0}, body : Bodies \cup {NULL}]]
    BY DEF NoMessage
  <2> QED
    BY <1>a, <2>1, <2>2, <2>3, <2>4 DEF IpcTypeOK, Port, CallState
<1>4. \A p \in Ports : RingOK(port[p]) /\ InRing(port[p]) = {}
  BY <1>2, EmptyRing
<1>5. KmsgInv /\ PortInv
  BY <1>2, <1>4 DEF KmsgInv, PortInv
<1>6. NamesAreLive /\ NamesUnique
  <2>1. Len(space) = 0
    OBVIOUS
  <2> QED
    BY <2>1 DEF NamesAreLive, NamesUnique
<1>7. CallInv /\ WaiterIsBlocked
  BY DEF CallInv, WaiterIsBlocked, NotCalling
<1> QED
  BY <1>1, <1>3, <1>4, <1>5, <1>6, <1>7 DEF IpcInv

-----------------------------------------------------------------------------
(* IPC and the scheduler.                                                  *)

(* Each IPC step is a step of the scheduler or leaves it alone: a send     *)
(* unblocks a thread that is blocked, a receive blocks the thread that     *)
(* runs (ipc_port.c:68-72, ipc_msg.c:73-76).                               *)
LEMMA IpcSchedStep ==
  ASSUME IpcInv, [IpcNext]_allVars
  PROVE  [Next]_vars
<1>1. CASE UNCHANGED allVars
  BY <1>1 DEF allVars
<1>2. CASE ThreadStep
  BY <1>2 DEF ThreadStep, Next
<1>3. ASSUME NEW p \in Ports, IpcPortAlloc(p) \/ IpcSpaceInsert(p)
      PROVE  UNCHANGED vars
  BY <1>3 DEF IpcPortAlloc, IpcSpaceInsert
<1>4. ASSUME NEW n \in Names, IpcSpaceRemove(n)
      PROVE  UNCHANGED vars
  BY <1>4 DEF IpcSpaceRemove
<1>5. CASE IpcSpaceDestroy
  BY <1>5 DEF IpcSpaceDestroy
<1>6. ASSUME NEW send \in BOOLEAN, NEW receive \in BOOLEAN, NEW n \in Names, NEW m \in Names,
             NEW s \in Sizes, NEW r \in Sizes, NEW b \in Bodies,
             MachMsg(send, receive, n, s, b, m, r)
      PROVE  [Next]_vars
  <2> DEFINE p == ipc_space_lookup(n)
             w == port[p].waiter
  <2>1. CallerRuns /\ UNCHANGED <<memVars, saved, cpuVars, phase>>
    BY <1>6 DEF MachMsg
  <2>2. CASE ~ send \/ w = NULL
    <3>1. UNCHANGED queueVars
      BY <1>6, <2>2 DEF MachMsg, mach_msg_send
    <3> QED
      BY <2>1, <3>1 DEF queueVars, memVars, cpuVars, vars
  <2>3. CASE send /\ w # NULL
    <3>1. mach_msg_send(n, s, b)
      BY <1>6, <2>3 DEF MachMsg
    <3>2. p \in portLive
      BY <3>1, LookupLive DEF mach_msg_send, IpcInv
    <3>3. w \in live /\ state[w] = "BLOCKED" /\ w \in Threads
      BY <2>3, <3>2 DEF IpcInv, WaiterIsBlocked, WaitingOn, IInv, TypeOK
    <3>4. state' = [state EXCEPT ![w] = "RUNNABLE"] /\ rq' = sched_enqueue(rq, w)
      BY <2>3, <3>1 DEF mach_msg_send
    <3> QED
      BY <2>1, <3>3, <3>4 DEF Unblock, Next
  <2> QED
    BY <2>2, <2>3
<1>7. CASE MachMsgReceive
  <2> DEFINE p == ipc_space_lookup(call[current].name)
  <2>1. CASE WaitForMessage(p)
    BY <1>7, <2>1 DEF MachMsgReceive, WaitForMessage, BlockCurrent, Next
  <2>2. CASE ReturnError \/ TakeMessage(p, call[current].size)
    BY <2>2 DEF ReturnError, TakeMessage
  <2> QED
    BY <1>7, <2>1, <2>2 DEF MachMsgReceive
<1>8. CASE MachMsgResume
  BY <1>8 DEF MachMsgResume, ReturnError, TakeMessage
<1> QED
  BY <1>1, <1>2, <1>3, <1>4, <1>5, <1>6, <1>7, <1>8 DEF IpcNext

LEMMA IpcIInv ==
  ASSUME ~ ExitedKeepsCalling, IpcInv, [IpcNext]_allVars
  PROVE  IInv'
  BY IpcSchedStep, NextIInv DEF IpcInv

(* A switch changes who runs, and never who is blocked.                    *)
LEMMA RunKeepsBlocked ==
  ASSUME IInv, sched_run(rq, state)
  PROVE  \A t \in Threads : state'[t] = "BLOCKED" <=> state[t] = "BLOCKED"
<1>1. TypeOK /\ QueueWF /\ CpuInv
  BY DEF IInv
<1> DEFINE next == sched_choose(rq)
<1>2. CASE next \in {NULL, current}
  BY <1>2 DEF sched_run
<1>3. CASE next \notin {NULL, current}
  <2>1. next \in Queued
    BY <1>1, <1>3 DEF sched_choose, QueueWF, ListOf, EndsOf, CpuInv
  <2>2. \A t \in Threads : state'[t] = IF t = next THEN "RUNNING"
                                       ELSE IF t = current /\ state[t] = "RUNNING" THEN "RUNNABLE"
                                       ELSE state[t]
    BY <1>3 DEF sched_run
  <2> QED
    BY <2>1, <2>2 DEF Queued
<1> QED
  BY <1>2, <1>3

LEMMA BlockKeepsBlocked ==
  ASSUME ~ ExitedKeepsCalling, IInv, BlockCurrent
  PROVE  /\ live' = live
         /\ \A t \in Threads : state'[t] = "BLOCKED" <=> state[t] = "BLOCKED" \/ t = current
<1> DEFINE q == sched_dequeue(rq, current)
           Q == Queued \ {current}
           st == [state EXCEPT ![current] = "BLOCKED"]
           next == sched_choose(q)
<1>1. TypeOK /\ QueueWF
  BY DEF IInv
<1>2. CallerRuns /\ sched_run(q, st) /\ live' = live
  BY DEF BlockCurrent, memVars
<1>3. /\ current \in Queued /\ current \in Threads /\ state[current] = "RUNNING"
      /\ current # idle /\ idle \in Queued
  BY <1>2, CallerFacts
<1>4. ListOf(q, Q)
  <2>1. Queued \in SUBSET Threads /\ rq \in RunQueue
    BY <1>1, TypeRunQueue DEF Queued, TypeOK
  <2> QED
    BY <1>1, <1>3, <2>1, DequeueList DEF QueueWF
<1>5. next \in Q /\ next \notin {NULL, current}
  <2>1. Q # {} /\ q.head \in Q
    BY <1>3, <1>4 DEF ListOf, EndsOf
  <2>2. NULL \notin Queued
    BY <1>1, SchedAssumption DEF Queued, TypeOK
  <2> QED
    BY <2>1, <2>2 DEF sched_choose
<1>6. \A t \in Threads : state'[t] = IF t = next THEN "RUNNING"
                                     ELSE IF t = current /\ st[t] = "RUNNING" THEN "RUNNABLE"
                                     ELSE st[t]
  BY <1>2, <1>5 DEF sched_run
<1>7. \A t \in Threads : st[t] = IF t = current THEN "BLOCKED" ELSE state[t]
  BY <1>1 DEF TypeOK
<1> QED
  BY <1>2, <1>3, <1>5, <1>6, <1>7 DEF Queued

(* The calls that do not concern IPC neither block nor unblock a thread,   *)
(* and end none that is inside mach_msg().                                 *)
LEMMA ThreadStepKeeps ==
  ASSUME ~ ExitedKeepsCalling, IInv, CallInv, ThreadStep
  PROVE  /\ \A t \in Threads : t \in live' /\ state'[t] = "BLOCKED" <=> t \in live /\ state[t] = "BLOCKED"
         /\ \A t \in Threads : call[t].pc # "run" => t \in live'
         /\ \A t \in Threads : call[t].pc # "rcv"
         /\ hasTask \subseteq Threads => hasTask' \subseteq Threads
<1> DEFINE Keeps ==
      /\ \A t \in Threads : t \in live' /\ state'[t] = "BLOCKED" <=> t \in live /\ state[t] = "BLOCKED"
      /\ \A t \in Threads : call[t].pc # "run" => t \in live'
      /\ \A t \in Threads : call[t].pc # "rcv"
      /\ hasTask \subseteq Threads => hasTask' \subseteq Threads
<1>1. TypeOK
  BY DEF IInv
<1>2. \A t \in Threads : call[t].pc = "rcv" => t = current /\ ThreadRuns /\ current \in live
  BY DEF CallInv
<1>3. ASSUME NEW t \in Threads, NEW p \in Pages, NEW b \in BOOLEAN, KernelCode,
             ThreadCreate(t, p, b), hasTask' = IF b THEN hasTask \cup {t} ELSE hasTask \ {t}
      PROVE  Keeps
  <2>1. t \notin live /\ live' = live \cup {t} /\ state' = [state EXCEPT ![t] = "RUNNABLE"]
    BY <1>3 DEF ThreadCreate, thread_create
  <2>2. \A u \in Threads : state'[u] = IF u = t THEN "RUNNABLE" ELSE state[u]
    BY <1>1, <2>1 DEF TypeOK
  <2>3. \A u \in Threads : call[u].pc # "rcv"
    BY <1>2, <1>3 DEF KernelCode, BootRuns, CallerRuns, ThreadRuns
  <2> QED
    BY <1>3, <2>1, <2>2, <2>3 DEF CallInv
<1>4. CASE SchedCreateIdle /\ hasTask' = hasTask \ (live' \ live)
  <2>1. \A u \in Threads : call[u].pc # "rcv"
    BY <1>2, <1>4 DEF SchedCreateIdle, ThreadRuns
  <2>2. CASE UNCHANGED <<queueVars, memVars, saved, cpuVars>>
    BY <1>4, <2>1, <2>2 DEF CallInv, queueVars, memVars
  <2>3. ASSUME NEW t \in Threads, NEW p \in Pages, thread_create(t, p, FALSE),
               state' = [state EXCEPT ![t] = "RUNNING"]
        PROVE  Keeps
    <3>1. t \notin live /\ live' = live \cup {t}
      BY <2>3 DEF thread_create
    <3>2. \A u \in Threads : state'[u] = IF u = t THEN "RUNNING" ELSE state[u]
      BY <1>1, <2>3 DEF TypeOK
    <3> QED
      BY <1>4, <2>1, <3>1, <3>2 DEF CallInv
  <2> QED
    BY <1>4, <2>2, <2>3 DEF SchedCreateIdle
<1>5. CASE EnterSchedIdle /\ UNCHANGED hasTask
  <2>1. \A u \in Threads : call[u].pc # "rcv"
    BY <1>2, <1>5 DEF EnterSchedIdle, ThreadRuns
  <2> QED
    BY <1>5, <2>1 DEF EnterSchedIdle, CallInv, queueVars, memVars
<1>6. CASE SchedIdle /\ UNCHANGED hasTask
  <2>1. \A u \in Threads : call[u].pc # "rcv"
    BY <1>2, <1>6 DEF SchedIdle, ThreadRuns
  <2>2. live' = live
    BY <1>6 DEF SchedIdle, memVars
  <2>3. \A u \in Threads : state'[u] = "BLOCKED" <=> state[u] = "BLOCKED"
    BY <1>6, RunKeepsBlocked DEF SchedIdle, queueVars
  <2> QED
    BY <1>6, <2>1, <2>2, <2>3 DEF CallInv
<1>7. CASE ThreadYield /\ call[current].pc = "run" /\ UNCHANGED hasTask
  <2>1. \A u \in Threads : call[u].pc # "rcv"
    BY <1>2, <1>7
  <2>2. live' = live
    BY <1>7 DEF ThreadYield, memVars
  <2>3. \A u \in Threads : state'[u] = "BLOCKED" <=> state[u] = "BLOCKED"
    BY <1>7, RunKeepsBlocked DEF ThreadYield
  <2> QED
    BY <1>7, <2>1, <2>2, <2>3 DEF CallInv
<1>8. CASE ThreadExit /\ call[current].pc = "run" /\ UNCHANGED hasTask
  <2>1. \A u \in Threads : call[u].pc # "rcv"
    BY <1>2, <1>8
  <2>2. live' = live \ {current} /\ state' = state
    BY <1>8 DEF ThreadExit
  <2>3. state[current] = "RUNNING"
    BY <1>8, CallerFacts DEF ThreadExit
  <2> QED
    BY <1>8, <2>1, <2>2, <2>3 DEF CallInv
<1> QED
  BY <1>3, <1>4, <1>5, <1>6, <1>7, <1>8 DEF ThreadStep

-----------------------------------------------------------------------------
(* Each action keeps IpcInv.                                               *)

\* The part of IpcInv about rings, messages and references.
StoreInv ==
  /\ port \in [Ports -> Port]
  /\ portLive \subseteq Ports
  /\ kmsg \in [Kmsgs -> [size : Sizes \cup {0}, body : Bodies \cup {NULL}]]
  /\ kfree \subseteq Kmsgs
  /\ \A p \in Ports : RingOK(port[p])
  /\ KmsgInv
  /\ PortInv

\* The part of IpcInv about names.
NameInv ==
  /\ space # NULL => space \in Seq(Ports \cup {NULL}) /\ Len(space) <= IPC_SPACE_MAX_PORTS
  /\ NamesAreLive
  /\ NamesUnique

\* The part of IpcInv about the threads inside mach_msg().
ThreadInv ==
  /\ buf \in [Threads -> Bodies \cup {NULL}]
  /\ call \in [Threads -> CallState]
  /\ hasTask \subseteq Threads
  /\ CallInv
  /\ WaiterIsBlocked

LEMMA IpcInvParts == IpcInv <=> IInv /\ StoreInv /\ NameInv /\ ThreadInv
  BY DEF IpcInv, StoreInv, NameInv, ThreadInv, IpcTypeOK, Port, CallState

LEMMA StoreUnchanged ==
  ASSUME StoreInv, UNCHANGED <<port, portLive, kmsg, kfree>>
  PROVE  StoreInv'
  BY DEF StoreInv, KmsgInv, PortInv

LEMMA NameUnchanged ==
  ASSUME NameInv, UNCHANGED <<portLive, space>>
  PROVE  NameInv'
  BY DEF NameInv, NamesAreLive, NamesUnique

LEMMA ThreadStepInv ==
  ASSUME ~ ExitedKeepsCalling, IpcInv, ThreadStep
  PROVE  StoreInv' /\ NameInv' /\ ThreadInv'
<1>1. IInv /\ StoreInv /\ NameInv /\ ThreadInv
  BY IpcInvParts
<1>2. UNCHANGED <<port, portLive, space, kmsg, kfree, buf, call>>
  BY DEF ThreadStep
<1>3. /\ \A t \in Threads : t \in live' /\ state'[t] = "BLOCKED" <=> t \in live /\ state[t] = "BLOCKED"
      /\ \A t \in Threads : call[t].pc # "run" => t \in live'
      /\ \A t \in Threads : call[t].pc # "rcv"
      /\ hasTask' \subseteq Threads
  BY <1>1, ThreadStepKeeps DEF ThreadInv
<1>4. CallInv'
  BY <1>1, <1>2, <1>3 DEF ThreadInv, CallInv
<1>5. WaiterIsBlocked'
  <2> SUFFICES ASSUME NEW p \in portLive, port[p].waiter # NULL
               PROVE  /\ port[p].waiter \in WaitingOn(p)'
                      /\ state'[port[p].waiter] = "BLOCKED"
                      /\ port[p].count = 0
    BY <1>2 DEF WaiterIsBlocked
  <2>1. /\ port[p].waiter \in WaitingOn(p)
        /\ state[port[p].waiter] = "BLOCKED"
        /\ port[p].count = 0
    BY <1>1 DEF ThreadInv, WaiterIsBlocked
  <2>2. port[p].waiter \in Threads
    BY <1>1, <2>1 DEF WaitingOn, IInv, TypeOK
  <2> QED
    BY <1>2, <1>3, <2>1, <2>2 DEF WaitingOn
<1> QED
  BY <1>1, <1>2, <1>3, <1>4, <1>5, StoreUnchanged, NameUnchanged DEF ThreadInv

(* An action that leaves threads and calls alone keeps ThreadInv if every  *)
(* port that stays has its waiter and count.                               *)
LEMMA ThreadsUnchanged ==
  ASSUME ThreadInv, UNCHANGED <<vars, buf, call, hasTask>>,
         \A p \in portLive' : port'[p].waiter # NULL =>
            p \in portLive /\ port'[p].waiter = port[p].waiter /\ port'[p].count = port[p].count
  PROVE  ThreadInv'
<1>1. UNCHANGED <<live, state, current, phase, halted, rsp>>
  BY DEF vars
<1>2. CallInv'
  BY <1>1 DEF ThreadInv, CallInv, ThreadRuns
<1>3. WaiterIsBlocked'
  BY <1>1 DEF ThreadInv, WaiterIsBlocked, WaitingOn
<1> QED
  BY <1>2, <1>3 DEF ThreadInv

LEMMA NewPortOK ==
  ASSUME NEW pt, NEW r \in {0, 1}, NEW w \in Pointer,
         pt = [refs |-> r, waiter |-> w, msgs |-> [i \in Slots |-> NULL],
               first |-> 0, last |-> 0, count |-> 0]
  PROVE  /\ pt \in Port /\ RingOK(pt) /\ InRing(pt) = {}
         /\ pt.refs = r /\ pt.waiter = w /\ pt.count = 0
<1>1. 0 \in Slots /\ 0 \in 0..IPC_PORT_QUEUE_MAX /\ r \in 0..RefModulus-1
  BY IpcAssumption DEF Slots
<1>2. /\ pt.refs = r /\ pt.waiter = w /\ pt.count = 0 /\ pt.first = 0 /\ pt.last = 0
      /\ pt.msgs = [i \in Slots |-> NULL]
  OBVIOUS
<1>3. pt \in Port
  BY <1>1 DEF Port
<1> QED
  BY <1>2, <1>3, EmptyRing

LEMMA PortAllocInv ==
  ASSUME IpcInv, NEW p \in Ports, IpcPortAlloc(p)
  PROVE  StoreInv' /\ NameInv' /\ ThreadInv'
<1>1. StoreInv /\ NameInv /\ ThreadInv
  BY IpcInvParts
<1>2. /\ p \notin portLive
      /\ portLive' = portLive \cup {p}
      /\ port' = [port EXCEPT ![p] = NewPort]
      /\ UNCHANGED <<vars, space, kmsg, kfree, buf, call, hasTask>>
  BY DEF IpcPortAlloc
<1>3. /\ NewPort \in Port /\ RingOK(NewPort) /\ InRing(NewPort) = {}
      /\ NewPort.refs = 1 /\ NewPort.waiter = NULL /\ NewPort.count = 0
  BY NewPortOK DEF Pointer, NewPort
<1>4. \A q \in Ports : port'[q] = IF q = p THEN NewPort ELSE port[q]
  BY <1>1, <1>2 DEF StoreInv
<1>5. InRing(port[p]) = {}
  BY <1>1, <1>2, CountIsZero DEF StoreInv, PortInv
<1>6. \A q \in Ports : InRing(port'[q]) = InRing(port[q]) /\ RingOK(port'[q])
  BY <1>1, <1>3, <1>4, <1>5 DEF StoreInv
<1>7. StoreInv'
  <2>1. port' \in [Ports -> Port]
    BY <1>1, <1>2, <1>3 DEF StoreInv
  <2>2. KmsgInv'
    BY <1>1, <1>2, <1>6 DEF StoreInv, KmsgInv
  <2>3. PortInv'
    BY <1>1, <1>2, <1>3, <1>4 DEF StoreInv, PortInv
  <2> QED
    BY <1>1, <1>2, <1>6, <2>1, <2>2, <2>3 DEF StoreInv
<1>8. NameInv'
  BY <1>1, <1>2 DEF NameInv, NamesAreLive, NamesUnique
<1>9. ThreadInv'
  BY <1>1, <1>2, <1>3, <1>4, ThreadsUnchanged DEF StoreInv
<1> QED
  BY <1>7, <1>8, <1>9

LEMMA SpaceInsertInv ==
  ASSUME ~ Alias, IpcInv, NEW p \in Ports, IpcSpaceInsert(p)
  PROVE  StoreInv' /\ NameInv' /\ ThreadInv'
<1>1. StoreInv /\ NameInv /\ ThreadInv
  BY IpcInvParts
<1>2. /\ p \in portLive /\ space # NULL /\ Len(space) < IPC_SPACE_MAX_PORTS
      /\ \A n \in 1..Len(space) : space[n] # p
      /\ space' = Append(space, p)
      /\ UNCHANGED <<vars, port, portLive, kmsg, kfree, buf, call, hasTask>>
  BY DEF IpcSpaceInsert
<1>3. space \in Seq(Ports \cup {NULL})
  BY <1>1, <1>2 DEF NameInv
<1>4. /\ space' \in Seq(Ports \cup {NULL})
      /\ Len(space) \in Nat /\ Len(space') = Len(space) + 1
      /\ \A n \in 1..Len(space) : space'[n] = space[n]
      /\ space'[Len(space) + 1] = p
  BY <1>2, <1>3
<1>5. \A n \in 1..Len(space') : n \in 1..Len(space) \/ n = Len(space) + 1
  BY <1>4
<1>6. Len(space') <= IPC_SPACE_MAX_PORTS
  BY <1>2, <1>4, IpcAssumption
<1>7. NamesAreLive'
  BY <1>1, <1>2, <1>4, <1>5 DEF NameInv, NamesAreLive
<1>8. NamesUnique'
  BY <1>1, <1>2, <1>4, <1>5 DEF NameInv, NamesUnique
<1>9. ThreadInv'
  BY <1>1, <1>2, ThreadsUnchanged
<1> QED
  BY <1>1, <1>2, <1>4, <1>6, <1>7, <1>8, <1>9, StoreUnchanged DEF NameInv

\* The last reference to the ports in P is released.
Released(P) ==
  /\ portLive' = portLive \ P
  /\ port' = [p \in Ports |->
                IF p \in P THEN [NewPort EXCEPT !.refs = 0, !.waiter = port[p].waiter] ELSE port[p]]
  /\ ipc_kmsg_free(UNION {InRing(port[p]) : p \in P})

(* ipc_port_release() frees every message of the ring, and only those.     *)
LEMMA ReleasedInv ==
  ASSUME StoreInv, NEW P \in SUBSET portLive, Released(P)
  PROVE  /\ StoreInv'
         /\ \A p \in portLive' : p \in portLive \ P /\ port'[p] = port[p]
<1>1. /\ portLive' = portLive \ P /\ portLive \subseteq Ports
      /\ kfree' = kfree \cup UNION {InRing(port[p]) : p \in P}
      /\ kmsg' = [k \in Kmsgs |-> IF k \in UNION {InRing(port[p]) : p \in P} THEN NoMessage ELSE kmsg[k]]
  BY DEF Released, ipc_kmsg_free, StoreInv
<1>2. \A p \in Ports : port'[p] = IF p \in P THEN [NewPort EXCEPT !.refs = 0, !.waiter = port[p].waiter]
                                             ELSE port[p]
  BY DEF Released
<1>3. ASSUME NEW p \in Ports, p \in P
      PROVE  /\ port'[p] \in Port /\ RingOK(port'[p]) /\ InRing(port'[p]) = {}
             /\ port'[p].count = 0
  <2>1. port'[p] = [refs |-> 0, waiter |-> port[p].waiter, msgs |-> [i \in Slots |-> NULL],
                    first |-> 0, last |-> 0, count |-> 0]
    BY <1>2, <1>3 DEF NewPort
  <2>2. port[p].waiter \in Pointer
    BY DEF StoreInv, Port
  <2> QED
    BY <2>1, <2>2, NewPortOK
<1>4. ASSUME NEW p \in Ports, p \notin P
      PROVE  port'[p] = port[p] /\ port'[p] \in Port /\ RingOK(port'[p])
  BY <1>2, <1>4 DEF StoreInv
<1>5. port' \in [Ports -> Port]
  BY <1>3, <1>4 DEF Released
<1>6. \A p \in Ports : InRing(port[p]) \subseteq Kmsgs
  BY DEF StoreInv, Port, InRing
<1>7. kfree' \subseteq Kmsgs
  BY <1>1, <1>6 DEF StoreInv
<1>8. kmsg' \in [Kmsgs -> [size : Sizes \cup {0}, body : Bodies \cup {NULL}]]
  BY <1>1 DEF StoreInv, NoMessage
<1>9. KmsgInv'
  <2>1. ASSUME NEW p \in Ports PROVE InRing(port'[p]) \cap kfree' = {}
    <3>1. CASE p \in P
      BY <1>3, <3>1
    <3>2. CASE p \notin P
      BY <1>1, <1>4, <3>2 DEF StoreInv, KmsgInv
    <3> QED
      BY <3>1, <3>2
  <2>2. ASSUME NEW p \in Ports, NEW q \in Ports, p # q
        PROVE  InRing(port'[p]) \cap InRing(port'[q]) = {}
    <3>1. InRing(port'[p]) \subseteq InRing(port[p]) /\ InRing(port'[q]) \subseteq InRing(port[q])
      BY <1>3, <1>4
    <3> QED
      BY <2>2, <3>1 DEF StoreInv, KmsgInv
  <2>3. ASSUME NEW k \in Kmsgs PROVE k \in kfree' \/ \E p \in Ports : k \in InRing(port'[p])
    BY <1>1, <1>4 DEF StoreInv, KmsgInv
  <2> QED
    BY <2>1, <2>2, <2>3 DEF KmsgInv
<1>10. PortInv'
  BY <1>1, <1>3, <1>4 DEF StoreInv, PortInv
<1> QED
  BY <1>1, <1>3, <1>4, <1>5, <1>7, <1>8, <1>9, <1>10 DEF StoreInv

LEMMA SpaceRemoveReleases ==
  ASSUME IpcInv, NEW n \in Names, IpcSpaceRemove(n)
  PROVE  /\ space # NULL /\ n \in 1..Len(space) /\ space[n] \in portLive
         /\ Released({space[n]})
         /\ space' = [space EXCEPT ![n] = NULL]
         /\ UNCHANGED <<vars, buf, call, hasTask>>
<1> DEFINE p == space[n]
<1>1. space # NULL /\ n \in 1..Len(space) /\ p \in portLive /\ p \in Ports
  BY LookupLive DEF IpcSpaceRemove, IpcInv
<1>2. /\ ipc_port_release(p) /\ space' = [space EXCEPT ![n] = NULL]
      /\ UNCHANGED <<vars, buf, call, hasTask>>
  BY DEF IpcSpaceRemove
<1>3. ~ ((port[p].refs + RefModulus - 1) % RefModulus > 0)
  <2>1. port[p].refs = 1
    BY <1>1 DEF IpcInv, PortInv
  <2>2. \A r \in Nat \ {0, 1} : (1 + r - 1) % r = 0
    OBVIOUS
  <2> QED
    BY <2>1, <2>2, IpcAssumption
<1>4. /\ port' = [port EXCEPT ![p] = [NewPort EXCEPT !.refs = 0, !.waiter = port[p].waiter]]
      /\ portLive' = portLive \ {p}
      /\ ipc_kmsg_free(InRing(port[p]))
  BY <1>2, <1>3 DEF ipc_port_release
<1>5. UNION {InRing(port[q]) : q \in {p}} = InRing(port[p])
  OBVIOUS
<1>6. port' = [q \in Ports |->
                IF q \in {p} THEN [NewPort EXCEPT !.refs = 0, !.waiter = port[q].waiter] ELSE port[q]]
  BY <1>1, <1>4 DEF IpcInv, IpcTypeOK
<1> QED
  BY <1>1, <1>2, <1>4, <1>5, <1>6 DEF Released

LEMMA SpaceRemoveInv ==
  ASSUME IpcInv, NEW n \in Names, IpcSpaceRemove(n)
  PROVE  StoreInv' /\ NameInv' /\ ThreadInv'
<1>1. StoreInv /\ NameInv /\ ThreadInv
  BY IpcInvParts
<1>2. /\ space # NULL /\ n \in 1..Len(space) /\ space[n] \in portLive
      /\ Released({space[n]})
      /\ space' = [space EXCEPT ![n] = NULL]
      /\ UNCHANGED <<vars, buf, call, hasTask>>
  BY SpaceRemoveReleases
<1>3. StoreInv' /\ \A p \in portLive' : p \in portLive /\ port'[p] = port[p]
  BY <1>1, <1>2, ReleasedInv
<1>4. space \in Seq(Ports \cup {NULL}) /\ Len(space) <= IPC_SPACE_MAX_PORTS
  BY <1>1, <1>2 DEF NameInv
<1>5. /\ space' \in Seq(Ports \cup {NULL}) /\ Len(space') = Len(space)
      /\ \A m \in 1..Len(space) : space'[m] = IF m = n THEN NULL ELSE space[m]
  BY <1>2, <1>4
<1>6. portLive' = portLive \ {space[n]}
  BY <1>2 DEF Released
<1>7. NamesAreLive'
  BY <1>1, <1>2, <1>5, <1>6 DEF NameInv, NamesAreLive, NamesUnique
<1>8. NamesUnique'
  BY <1>1, <1>2, <1>5 DEF NameInv, NamesUnique
<1>9. ThreadInv'
  BY <1>1, <1>2, <1>3, ThreadsUnchanged
<1> QED
  BY <1>3, <1>4, <1>5, <1>7, <1>8, <1>9 DEF NameInv

LEMMA SpaceDestroyReleases ==
  ASSUME IpcInv, IpcSpaceDestroy
  PROVE  LET held == {space[n] : n \in 1..Len(space)} \ {NULL}
         IN  held \in SUBSET portLive /\ Released(held)
<1> DEFINE held == {space[n] : n \in 1..Len(space)} \ {NULL}
<1>1. held \subseteq portLive
  BY DEF IpcInv, NamesAreLive, IpcSpaceDestroy
<1> QED
  BY <1>1 DEF IpcSpaceDestroy, Released

LEMMA SpaceDestroyInv ==
  ASSUME IpcInv, IpcSpaceDestroy
  PROVE  StoreInv' /\ NameInv' /\ ThreadInv'
<1>1. StoreInv /\ NameInv /\ ThreadInv
  BY IpcInvParts
<1>2. space' = NULL /\ UNCHANGED <<vars, buf, call, hasTask>>
  BY DEF IpcSpaceDestroy
<1>3. StoreInv' /\ \A p \in portLive' : p \in portLive /\ port'[p] = port[p]
  BY <1>1, SpaceDestroyReleases, ReleasedInv
<1>4. NameInv'
  BY <1>2 DEF NameInv, NamesAreLive, NamesUnique
<1>5. ThreadInv'
  BY <1>1, <1>2, <1>3, ThreadsUnchanged
<1> QED
  BY <1>3, <1>4, <1>5

(* What a send that succeeds does to the port it names.                    *)
LEMMA SendStores ==
  ASSUME IpcInv, NEW n \in Names, NEW s \in Sizes, NEW b \in Bodies, mach_msg_send(n, s, b)
  PROVE  LET p == ipc_space_lookup(n)
         IN  /\ p \in Ports /\ p \in portLive /\ port[p].count < IPC_PORT_QUEUE_MAX
             /\ \E k \in kfree :
                  /\ k \in Kmsgs /\ k \notin InRing(port[p])
                  /\ kfree' = kfree \ {k}
                  /\ kmsg' = [kmsg EXCEPT ![k] = [size |-> s, body |-> b]]
                  /\ port' = [port EXCEPT ![p] = ipc_port_enqueue(port[p], k)]
<1> DEFINE p == ipc_space_lookup(n)
<1>1. p \in Ports /\ p \in portLive
  BY LookupLive DEF mach_msg_send, IpcInv
<1>2. kfree \subseteq Kmsgs /\ InRing(port[p]) \cap kfree = {}
  BY <1>1 DEF IpcInv, IpcTypeOK, KmsgInv
<1> QED
  BY <1>1, <1>2 DEF mach_msg_send, ipc_kmsg_copyin

LEMMA SendStoreInv ==
  ASSUME StoreInv, NEW p \in portLive, port[p].count < IPC_PORT_QUEUE_MAX,
         NEW k \in kfree, k \in Kmsgs, k \notin InRing(port[p]),
         NEW s \in Sizes, NEW b \in Bodies,
         kfree' = kfree \ {k},
         kmsg' = [kmsg EXCEPT ![k] = [size |-> s, body |-> b]],
         port' = [port EXCEPT ![p] = ipc_port_enqueue(port[p], k)],
         UNCHANGED portLive
  PROVE  /\ StoreInv'
         /\ port'[p].waiter = NULL /\ port'[p].count = port[p].count + 1
         /\ \A q \in Ports \ {p} : port'[q] = port[q]
<1> DEFINE e == ipc_port_enqueue(port[p], k)
<1>1. p \in Ports /\ port[p] \in Port /\ RingOK(port[p])
  BY DEF StoreInv
<1>2. /\ e \in Port /\ RingOK(e) /\ InRing(e) = InRing(port[p]) \cup {k}
      /\ e.refs = port[p].refs /\ e.waiter = NULL /\ e.count = port[p].count + 1
  BY <1>1, EnqueueRing
<1>3. port'[p] = e /\ \A q \in Ports \ {p} : port'[q] = port[q]
  BY <1>1 DEF StoreInv
<1>4. port' \in [Ports -> Port]
  BY <1>2 DEF StoreInv
<1>5. kmsg' \in [Kmsgs -> [size : Sizes \cup {0}, body : Bodies \cup {NULL}]]
  BY DEF StoreInv
<1>6. KmsgInv'
  <2>1. ASSUME NEW q \in Ports PROVE InRing(port'[q]) \cap kfree' = {}
    BY <1>2, <1>3 DEF StoreInv, KmsgInv
  <2>2. ASSUME NEW q \in Ports, NEW r \in Ports, q # r
        PROVE  InRing(port'[q]) \cap InRing(port'[r]) = {}
    <3>1. \A x \in Ports : k \notin InRing(port[x])
      BY DEF StoreInv, KmsgInv
    <3>2. InRing(port[q]) \cap InRing(port[r]) = {}
      BY <2>2 DEF StoreInv, KmsgInv
    <3>3. /\ InRing(port'[q]) = IF q = p THEN InRing(port[q]) \cup {k} ELSE InRing(port[q])
          /\ InRing(port'[r]) = IF r = p THEN InRing(port[r]) \cup {k} ELSE InRing(port[r])
      BY <1>2, <1>3
    <3> QED
      BY <2>2, <3>1, <3>2, <3>3
  <2>3. ASSUME NEW m \in Kmsgs PROVE m \in kfree' \/ \E q \in Ports : m \in InRing(port'[q])
    BY <1>1, <1>2, <1>3 DEF StoreInv, KmsgInv
  <2> QED
    BY <2>1, <2>2, <2>3 DEF KmsgInv
<1>7. PortInv'
  BY <1>1, <1>2, <1>3 DEF StoreInv, PortInv
<1>8. \A q \in Ports : RingOK(port'[q])
  BY <1>2, <1>3 DEF StoreInv
<1> QED
  BY <1>2, <1>3, <1>4, <1>5, <1>6, <1>7, <1>8 DEF StoreInv

(* Who is a waiter of which port.                                          *)
LEMMA WaiterFacts ==
  ASSUME ~ ExitedKeepsCalling, IInv, ThreadInv, CallerRuns
  PROVE  /\ current \in Threads /\ current \in live
         /\ \A p \in portLive : port[p].waiter # NULL =>
              /\ port[p].waiter \in Threads /\ port[p].waiter \in live
              /\ port[p].waiter # current
              /\ call[port[p].waiter].pc = "wait" /\ call[port[p].waiter].port = p
              /\ state[port[p].waiter] = "BLOCKED" /\ port[p].count = 0
<1>1. current \in Threads /\ current \in live /\ state[current] = "RUNNING"
  BY CallerFacts
<1> QED
  BY <1>1 DEF ThreadInv, WaiterIsBlocked, WaitingOn, IInv, TypeOK

LEMMA MachMsgInv ==
  ASSUME ~ ExitedKeepsCalling, IpcInv,
         NEW send \in BOOLEAN, NEW receive \in BOOLEAN, NEW n \in Names, NEW m \in Names,
         NEW s \in Sizes, NEW r \in Sizes, NEW b \in Bodies,
         MachMsg(send, receive, n, s, b, m, r)
  PROVE  StoreInv' /\ NameInv' /\ ThreadInv'
<1> DEFINE p == ipc_space_lookup(n)
<1>1. IInv /\ StoreInv /\ NameInv /\ ThreadInv
  BY IpcInvParts
<1>2. /\ CallerRuns
      /\ UNCHANGED <<live, current, phase, halted, rsp, portLive, space, buf, hasTask>>
  BY DEF MachMsg, memVars, cpuVars
<1>3. /\ current \in Threads /\ current \in live
      /\ \A q \in portLive : port[q].waiter # NULL =>
           /\ port[q].waiter \in Threads /\ port[q].waiter \in live
           /\ port[q].waiter # current
           /\ call[port[q].waiter].pc = "wait" /\ call[port[q].waiter].port = q
           /\ state[port[q].waiter] = "BLOCKED" /\ port[q].count = 0
  BY <1>1, <1>2, WaiterFacts
<1>4. call' \in [Threads -> CallState] /\ \A t \in Threads \ {current} : call'[t] = call[t]
  <2>1. 0 \in Names
    BY IpcAssumption DEF Names
  <2>2. [ pc |-> "rcv", local |-> m, name |-> IF ViaTrap THEN 0 ELSE m,
          size |-> r, port |-> NULL ] \in CallState
    BY <2>1 DEF CallState
  <2> QED
    BY <1>1, <2>2 DEF MachMsg, ThreadInv
<1>5. receive => call'[current].pc = "rcv"
  BY <1>1, <1>3 DEF MachMsg, ThreadInv
<1>6. ~ receive => call' = call
  BY DEF MachMsg
<1>7. CallInv'
  <2> SUFFICES ASSUME NEW t \in Threads
               PROVE  /\ t \notin live' => call'[t].pc = "run"
                      /\ call'[t].pc = "rcv" => t = current' /\ ThreadRuns'
                      /\ call'[t].pc = "wait" => call'[t].port \in Ports
    BY DEF CallInv
  <2>1. CASE t = current /\ receive
    BY <1>2, <1>3, <1>5, <2>1 DEF CallerRuns, ThreadRuns
  <2>2. CASE ~ (t = current /\ receive)
    BY <1>1, <1>2, <1>4, <1>6, <2>2 DEF ThreadInv, CallInv, ThreadRuns
  <2> QED
    BY <2>1, <2>2
<1>8. NameInv'
  BY <1>1, <1>2, NameUnchanged
<1>9. CASE ~ send
  <2>1. UNCHANGED <<port, kmsg, kfree, state>>
    BY <1>9 DEF MachMsg, queueVars
  <2>2. WaiterIsBlocked'
    BY <1>2, <1>3, <1>4, <2>1 DEF WaiterIsBlocked, WaitingOn
  <2> QED
    BY <1>1, <1>2, <1>4, <1>7, <1>8, <2>1, <2>2, StoreUnchanged DEF ThreadInv
<1>10. CASE send
  <2>1. mach_msg_send(n, s, b)
    BY <1>10 DEF MachMsg
  <2>2. p \in Ports /\ p \in portLive
    BY <2>1, SendStores
  <2>3. /\ StoreInv' /\ port'[p].waiter = NULL
        /\ \A q \in Ports \ {p} : port'[q] = port[q]
    BY <1>1, <1>2, <2>1, SendStores, SendStoreInv
  <2>4. ASSUME NEW q \in portLive, q # p, port[q].waiter # NULL
        PROVE  state'[port[q].waiter] = "BLOCKED"
    <3>1. CASE port[p].waiter = NULL
      BY <1>3, <2>1, <2>4, <3>1 DEF mach_msg_send, queueVars
    <3>2. CASE port[p].waiter # NULL
      <4>1. state' = [state EXCEPT ![port[p].waiter] = "RUNNABLE"]
        BY <2>1, <3>2 DEF mach_msg_send
      <4>2. port[q].waiter # port[p].waiter
        BY <1>3, <2>2, <2>4, <3>2
      <4> QED
        BY <1>1, <1>3, <2>4, <4>1, <4>2 DEF IInv, TypeOK
    <3> QED
      BY <3>1, <3>2
  <2>5. WaiterIsBlocked'
    <3> SUFFICES ASSUME NEW q \in portLive, port'[q].waiter # NULL
                 PROVE  /\ port'[q].waiter \in WaitingOn(q)'
                        /\ state'[port'[q].waiter] = "BLOCKED"
                        /\ port'[q].count = 0
      BY <1>2 DEF WaiterIsBlocked
    <3>1. q # p /\ port'[q] = port[q]
      BY <1>1, <2>3 DEF StoreInv
    <3> QED
      BY <1>2, <1>3, <1>4, <2>4, <3>1 DEF WaitingOn
  <2> QED
    BY <1>1, <1>2, <1>4, <1>7, <1>8, <2>3, <2>5 DEF ThreadInv
<1> QED
  BY <1>9, <1>10

(* mach_msg() returns to a thread that is no port's waiter.                *)
LEMMA CallEnds ==
  ASSUME ~ ExitedKeepsCalling, IInv, ThreadInv, CallerRuns,
         call' = [call EXCEPT ![current] = NotCalling],
         buf' \in [Threads -> Bodies \cup {NULL}],
         UNCHANGED <<vars, portLive, hasTask>>,
         \A p \in portLive : port[p].waiter # NULL => port'[p] = port[p],
         \A p \in portLive : port'[p].waiter = port[p].waiter
  PROVE  /\ ThreadInv'
         /\ call'[current] = NotCalling /\ current \in Threads
         /\ \A t \in Threads \ {current} : call'[t] = call[t]
<1>1. UNCHANGED <<live, state, current, phase, halted, rsp>>
  BY DEF vars
<1>2. /\ current \in Threads /\ current \in live
      /\ \A p \in portLive : port[p].waiter # NULL =>
           /\ port[p].waiter \in Threads /\ port[p].waiter \in live
           /\ port[p].waiter # current
           /\ call[port[p].waiter].pc = "wait" /\ call[port[p].waiter].port = p
           /\ state[port[p].waiter] = "BLOCKED" /\ port[p].count = 0
  BY WaiterFacts
<1>3. call'[current] = NotCalling /\ \A t \in Threads \ {current} : call'[t] = call[t]
  BY <1>2 DEF ThreadInv
<1>4. NotCalling \in CallState
  BY IpcAssumption DEF NotCalling, CallState, Names
<1>5. call' \in [Threads -> CallState]
  BY <1>4 DEF ThreadInv
<1>6. CallInv'
  BY <1>1, <1>2, <1>3 DEF ThreadInv, CallInv, NotCalling, ThreadRuns
<1>7. WaiterIsBlocked'
  BY <1>1, <1>2, <1>3 DEF WaiterIsBlocked, WaitingOn
<1> QED
  BY <1>2, <1>3, <1>5, <1>6, <1>7 DEF ThreadInv

(* A receive that finds a message takes it out of the ring and frees it.   *)
LEMMA TakeInv ==
  ASSUME ~ ExitedKeepsCalling, IpcInv, CallerRuns, NEW p \in Ports, port[p].count # 0,
         NEW size, TakeMessage(p, size)
  PROVE  /\ StoreInv' /\ NameInv' /\ ThreadInv'
         /\ p \in portLive
         /\ call'[current] = NotCalling
         /\ \A t \in Threads \ {current} : call'[t] = call[t]
         /\ port'[p].waiter = port[p].waiter
         /\ \A q \in Ports \ {p} : port'[q] = port[q]
<1> DEFINE k == port[p].msgs[port[p].first]
           d == ipc_port_dequeue(port[p])
<1>1. IInv /\ StoreInv /\ NameInv /\ ThreadInv
  BY IpcInvParts
<1>2. /\ port' = [port EXCEPT ![p] = d]
      /\ kfree' = kfree \cup {k}
      /\ kmsg' = [j \in Kmsgs |-> IF j \in {k} THEN NoMessage ELSE kmsg[j]]
      /\ buf' = IF kmsg[k].size > size THEN buf ELSE [buf EXCEPT ![current] = kmsg[k].body]
      /\ call' = [call EXCEPT ![current] = NotCalling]
      /\ UNCHANGED <<vars, portLive, space, hasTask>>
  BY DEF TakeMessage, ipc_kmsg_free
<1>3. port[p] \in Port /\ RingOK(port[p])
  BY <1>1 DEF StoreInv
<1>4. /\ d \in Port /\ RingOK(d) /\ k \in Kmsgs /\ k \in InRing(port[p])
      /\ InRing(d) = InRing(port[p]) \ {k}
      /\ d.refs = port[p].refs /\ d.waiter = port[p].waiter
  BY <1>3, DequeueRing
<1>5. p \in portLive
  BY <1>1 DEF StoreInv, PortInv
<1>6. port'[p] = d /\ \A q \in Ports \ {p} : port'[q] = port[q]
  BY <1>1, <1>2 DEF StoreInv
<1>7. StoreInv'
  <2>1. port' \in [Ports -> Port]
    BY <1>1, <1>2, <1>4 DEF StoreInv
  <2>2. kmsg' \in [Kmsgs -> [size : Sizes \cup {0}, body : Bodies \cup {NULL}]]
    BY <1>1, <1>2 DEF StoreInv, NoMessage
  <2>3. KmsgInv'
    <3>1. \A q \in Ports \ {p} : k \notin InRing(port[q])
      BY <1>1, <1>4 DEF StoreInv, KmsgInv
    <3>2. \A q \in Ports : InRing(port'[q]) = InRing(port[q]) \ {k}
      BY <1>4, <1>6, <3>1
    <3>3. ASSUME NEW q \in Ports PROVE InRing(port'[q]) \cap kfree' = {}
      BY <1>1, <1>2, <3>2 DEF StoreInv, KmsgInv
    <3>4. ASSUME NEW q \in Ports, NEW r \in Ports, q # r
          PROVE  InRing(port'[q]) \cap InRing(port'[r]) = {}
      BY <1>1, <3>2, <3>4 DEF StoreInv, KmsgInv
    <3>5. ASSUME NEW j \in Kmsgs PROVE j \in kfree' \/ \E q \in Ports : j \in InRing(port'[q])
      BY <1>1, <1>2, <3>2 DEF StoreInv, KmsgInv
    <3> QED
      BY <3>3, <3>4, <3>5 DEF KmsgInv
  <2>4. PortInv'
    BY <1>1, <1>2, <1>4, <1>5, <1>6 DEF StoreInv, PortInv
  <2>5. \A q \in Ports : RingOK(port'[q])
    BY <1>1, <1>4, <1>6 DEF StoreInv
  <2> QED
    BY <1>1, <1>2, <1>4, <2>1, <2>2, <2>3, <2>4, <2>5 DEF StoreInv
<1>8. NameInv'
  BY <1>1, <1>2, NameUnchanged
<1>9. buf' \in [Threads -> Bodies \cup {NULL}]
  <2>1. kmsg[k].body \in Bodies \cup {NULL}
    BY <1>1, <1>4 DEF StoreInv
  <2> QED
    BY <1>1, <1>2, <2>1 DEF ThreadInv
<1>10. port[p].waiter = NULL
  BY <1>1, <1>5 DEF ThreadInv, WaiterIsBlocked
<1>11. /\ \A q \in portLive : port[q].waiter # NULL => port'[q] = port[q]
       /\ \A q \in portLive : port'[q].waiter = port[q].waiter
  BY <1>1, <1>4, <1>6, <1>10 DEF StoreInv
<1>12. /\ ThreadInv' /\ call'[current] = NotCalling
       /\ \A t \in Threads \ {current} : call'[t] = call[t]
  BY <1>1, <1>2, <1>9, <1>11, CallEnds
<1> QED
  BY <1>4, <1>5, <1>6, <1>7, <1>8, <1>12

LEMMA ErrorInv ==
  ASSUME ~ ExitedKeepsCalling, IpcInv, CallerRuns, ReturnError
  PROVE  /\ StoreInv' /\ NameInv' /\ ThreadInv'
         /\ call'[current] = NotCalling
         /\ \A t \in Threads \ {current} : call'[t] = call[t]
<1>1. IInv /\ StoreInv /\ NameInv /\ ThreadInv
  BY IpcInvParts
<1>2. /\ call' = [call EXCEPT ![current] = NotCalling]
      /\ UNCHANGED <<vars, port, portLive, space, kmsg, kfree, buf, hasTask>>
  BY DEF ReturnError
<1>3. buf' \in [Threads -> Bodies \cup {NULL}]
  BY <1>1, <1>2 DEF ThreadInv
<1> QED
  BY <1>1, <1>2, <1>3, CallEnds, StoreUnchanged, NameUnchanged

(* A receive that finds no message registers and blocks.                   *)
LEMMA WaitChanges ==
  ASSUME ~ ExitedKeepsCalling, IpcInv, CallerRuns, NEW p \in Ports, WaitForMessage(p)
  PROVE  /\ current \in Threads /\ current \in live
         /\ port' \in [Ports -> Port]
         /\ \A q \in Ports \ {p} : port'[q] = port[q]
         /\ /\ port'[p].waiter = current /\ port'[p].refs = port[p].refs
            /\ port'[p].msgs = port[p].msgs /\ port'[p].first = port[p].first
            /\ port'[p].last = port[p].last /\ port'[p].count = port[p].count
         /\ call' \in [Threads -> CallState]
         /\ \A t \in Threads \ {current} : call'[t] = call[t]
         /\ call'[current].pc = "wait" /\ call'[current].port = p
         /\ live' = live
         /\ \A t \in Threads : state'[t] = "BLOCKED" <=> state[t] = "BLOCKED" \/ t = current
         /\ UNCHANGED <<portLive, space, kmsg, kfree, buf, hasTask>>
<1>1. IInv /\ StoreInv /\ ThreadInv
  BY IpcInvParts
<1>2. current \in Threads /\ current \in live
  BY <1>1, CallerFacts
<1>3. /\ port' = [port EXCEPT ![p].waiter = current]
      /\ call' = [call EXCEPT ![current].pc = "wait", ![current].port = p]
      /\ UNCHANGED <<portLive, space, kmsg, kfree, buf, hasTask>>
  BY DEF WaitForMessage
<1>4. /\ \A q \in Ports \ {p} : port'[q] = port[q]
      /\ port'[p] = [port[p] EXCEPT !.waiter = current]
  BY <1>1, <1>3 DEF StoreInv
<1>5. port[p] \in Port
  BY <1>1 DEF StoreInv
<1>6. /\ [port[p] EXCEPT !.waiter = current] \in Port
      /\ /\ port'[p].waiter = current /\ port'[p].refs = port[p].refs
         /\ port'[p].msgs = port[p].msgs /\ port'[p].first = port[p].first
         /\ port'[p].last = port[p].last /\ port'[p].count = port[p].count
  BY <1>2, <1>4, <1>5 DEF Port, Pointer
<1>7. port' \in [Ports -> Port]
  BY <1>1, <1>3, <1>6 DEF StoreInv
<1>8. /\ \A t \in Threads \ {current} : call'[t] = call[t]
      /\ call'[current] = [call[current] EXCEPT !.pc = "wait", !.port = p]
  BY <1>1, <1>2, <1>3 DEF ThreadInv
<1>9. call[current] \in CallState
  BY <1>1, <1>2 DEF ThreadInv
<1>10. /\ call'[current] \in CallState
       /\ call'[current].pc = "wait" /\ call'[current].port = p
  BY <1>8, <1>9 DEF CallState
<1>11. call' \in [Threads -> CallState]
  BY <1>1, <1>3, <1>8, <1>10 DEF ThreadInv
<1>12. BlockCurrent
  BY DEF WaitForMessage, BlockCurrent
<1> QED
  BY <1>1, <1>2, <1>3, <1>4, <1>6, <1>7, <1>8, <1>10, <1>11, <1>12, BlockKeepsBlocked

LEMMA WaitInv ==
  ASSUME ~ ExitedKeepsCalling, IpcInv, CallerRuns, NEW p \in portLive, port[p].count = 0,
         WaitForMessage(p)
  PROVE  StoreInv' /\ NameInv' /\ ThreadInv'
<1>1. IInv /\ StoreInv /\ NameInv /\ ThreadInv /\ p \in Ports
  BY IpcInvParts DEF StoreInv
<1>2. /\ current \in Threads /\ current \in live
      /\ port' \in [Ports -> Port]
      /\ \A q \in Ports \ {p} : port'[q] = port[q]
      /\ /\ port'[p].waiter = current /\ port'[p].refs = port[p].refs
         /\ port'[p].msgs = port[p].msgs /\ port'[p].first = port[p].first
         /\ port'[p].last = port[p].last /\ port'[p].count = port[p].count
      /\ call' \in [Threads -> CallState]
      /\ \A t \in Threads \ {current} : call'[t] = call[t]
      /\ call'[current].pc = "wait" /\ call'[current].port = p
      /\ live' = live
      /\ \A t \in Threads : state'[t] = "BLOCKED" <=> state[t] = "BLOCKED" \/ t = current
      /\ UNCHANGED <<portLive, space, kmsg, kfree, buf, hasTask>>
  BY <1>1, WaitChanges
<1>3. \A q \in Ports : InRing(port'[q]) = InRing(port[q])
  BY <1>2 DEF InRing
<1>4. \A q \in Ports : RingOK(port'[q])
  BY <1>1, <1>2, <1>3 DEF StoreInv, RingOK
<1>5. KmsgInv' /\ PortInv'
  BY <1>1, <1>2, <1>3 DEF StoreInv, KmsgInv, PortInv
<1>6. StoreInv'
  BY <1>1, <1>2, <1>4, <1>5 DEF StoreInv
<1>7. NameInv'
  BY <1>1, <1>2, NameUnchanged
<1>8. CallInv'
  BY <1>1, <1>2 DEF ThreadInv, CallInv
<1>9. WaiterIsBlocked'
  <2>1. \A q \in portLive : port[q].waiter # NULL =>
           /\ port[q].waiter \in Threads /\ port[q].waiter \in live
           /\ port[q].waiter # current
           /\ call[port[q].waiter].pc = "wait" /\ call[port[q].waiter].port = q
           /\ state[port[q].waiter] = "BLOCKED" /\ port[q].count = 0
    BY <1>1, WaiterFacts
  <2> SUFFICES ASSUME NEW q \in portLive, port'[q].waiter # NULL
               PROVE  /\ port'[q].waiter \in WaitingOn(q)'
                      /\ state'[port'[q].waiter] = "BLOCKED"
                      /\ port'[q].count = 0
    BY <1>2 DEF WaiterIsBlocked
  <2>2. CASE q = p
    BY <1>2, <2>2 DEF WaitingOn
  <2>3. CASE q # p
    <3>1. port'[q] = port[q]
      BY <1>1, <1>2, <2>3 DEF StoreInv
    <3> QED
      BY <1>2, <2>1, <3>1 DEF WaitingOn
  <2> QED
    BY <2>2, <2>3
<1> QED
  BY <1>1, <1>2, <1>6, <1>7, <1>8, <1>9 DEF ThreadInv

(* The cases of mach_msg_receive() and what is known in each.              *)
LEMMA ReceiveCases ==
  ASSUME IpcInv, MachMsgReceive \/ MachMsgResume
  PROVE  /\ CallerRuns
         /\ \/ ReturnError
            \/ \E p \in portLive :
                 \/ /\ port[p].count # 0 /\ TakeMessage(p, call[current].size)
                    /\ \/ call[current].pc = "rcv" /\ p = ipc_space_lookup(call[current].name)
                       \/ call[current].pc = "wait" /\ p = call[current].port
                 \/ /\ port[p].count = 0 /\ WaitForMessage(p)
                    /\ call[current].pc = "rcv" /\ p = ipc_space_lookup(call[current].name)
<1>1. CASE MachMsgReceive
  <2> DEFINE p == ipc_space_lookup(call[current].name)
  <2>1. CASE current \notin hasTask \/ p = NULL
    BY <1>1, <2>1 DEF MachMsgReceive
  <2>2. CASE ~ (current \notin hasTask \/ p = NULL)
    <3>1. p \in portLive
      BY <2>2, LookupLive DEF IpcInv
    <3> QED
      BY <1>1, <2>2, <3>1 DEF MachMsgReceive
  <2> QED
    BY <2>1, <2>2
<1>2. CASE MachMsgResume
  <2> DEFINE p == call[current].port
  <2>1. CASE port[p].count = 0
    BY <1>2, <2>1 DEF MachMsgResume
  <2>2. CASE port[p].count # 0
    <3>1. current \in Threads \/ current = NULL
      BY DEF IpcInv, IInv, TypeOK, Pointer
    <3>2. current \in Threads
      BY <1>2, <3>1, SchedAssumption DEF MachMsgResume, CallerRuns, ThreadRuns, IpcInv, IInv, CpuInv
    <3>3. p \in Ports
      BY <1>2, <3>2 DEF MachMsgResume, IpcInv, CallInv
    <3>4. p \in portLive
      BY <2>2, <3>3 DEF IpcInv, PortInv
    <3> QED
      BY <1>2, <2>2, <3>4 DEF MachMsgResume
  <2> QED
    BY <2>1, <2>2
<1> QED
  BY <1>1, <1>2

LEMMA IpcStepInv ==
  ASSUME ~ ExitedKeepsCalling, ~ Alias, IpcInv, [IpcNext]_allVars
  PROVE  IpcInv'
<1>1. IInv'
  BY IpcIInv
<1> SUFFICES StoreInv' /\ NameInv' /\ ThreadInv'
  <2>1. IInv' /\ StoreInv' /\ NameInv' /\ ThreadInv' => IpcInv'
    BY IpcInvParts, PTL
  <2> QED
    BY <1>1, <2>1
<1>2. CASE UNCHANGED allVars
  <2>1. StoreInv /\ NameInv /\ ThreadInv
    BY IpcInvParts
  <2> QED
    BY <1>2, <2>1, StoreUnchanged, NameUnchanged, ThreadsUnchanged DEF allVars, ipcVars
<1>3. CASE MachMsgReceive \/ MachMsgResume
  <2>1. portLive \subseteq Ports
    BY DEF IpcInv, IpcTypeOK
  <2> QED
    BY <1>3, <2>1, ReceiveCases, TakeInv, ErrorInv, WaitInv
<1> QED
  BY <1>2, <1>3, ThreadStepInv, PortAllocInv, SpaceInsertInv, SpaceRemoveInv,
     SpaceDestroyInv, MachMsgInv DEF IpcNext

(* The inductive invariant holds of every state of IPC.                    *)
LEMMA IpcInvariant ==
  ASSUME ~ ExitedKeepsCalling, ~ Alias
  PROVE  IpcSpec => []IpcInv
  BY IpcInitInv, IpcStepInv, PTL DEF IpcSpec

-----------------------------------------------------------------------------
(* What the ring holds, in order.                                          *)

LEMMA PendingAt ==
  ASSUME NEW pt \in Port, RingOK(pt), NEW j \in 1..pt.count
  PROVE  /\ Pending(pt)[j] = pt.msgs[After(pt.first, j - 1)]
         /\ After(pt.first, j - 1) \in Slots
         /\ Distance(pt.first, After(pt.first, j - 1)) = j - 1
         /\ Pending(pt)[j] \in InRing(pt) /\ Pending(pt)[j] \in Kmsgs
<1>1. /\ IPC_PORT_QUEUE_MAX \in Nat \ {0} /\ pt.first \in Slots
      /\ pt.count \in 0..IPC_PORT_QUEUE_MAX /\ pt.msgs \in [Slots -> Kmsgs \cup {NULL}]
  BY IpcAssumption DEF Port
<1>2. j \in Int /\ j - 1 \in 0..IPC_PORT_QUEUE_MAX /\ j - 1 < IPC_PORT_QUEUE_MAX /\ j - 1 < pt.count
  BY <1>1
<1>3. /\ (pt.first + (j - 1)) % IPC_PORT_QUEUE_MAX = After(pt.first, j - 1)
      /\ After(pt.first, j - 1) \in Slots
      /\ Distance(pt.first, After(pt.first, j - 1)) = j - 1
  BY <1>1, <1>2, RingIndex
<1>4. pt.first + j - 1 = pt.first + (j - 1)
  BY <1>1, <1>2 DEF Slots
<1>5. Pending(pt)[j] = pt.msgs[After(pt.first, j - 1)]
  BY <1>3, <1>4 DEF Pending
<1>6. pt.msgs[After(pt.first, j - 1)] # NULL
  BY <1>2, <1>3 DEF RingOK
<1> QED
  BY <1>1, <1>3, <1>5, <1>6 DEF InRing

LEMMA PendingCovers ==
  ASSUME NEW pt \in Port, RingOK(pt), NEW k \in InRing(pt)
  PROVE  \E j \in 1..pt.count : Pending(pt)[j] = k
<1>1. /\ IPC_PORT_QUEUE_MAX \in Nat \ {0} /\ pt.first \in Slots /\ pt.count \in 0..IPC_PORT_QUEUE_MAX
  BY IpcAssumption DEF Port
<1>2. PICK i \in Slots : pt.msgs[i] = k /\ k # NULL
  BY DEF InRing
<1>3. Distance(pt.first, i) < pt.count /\ Distance(pt.first, i) \in Slots
      /\ After(pt.first, Distance(pt.first, i)) = i
  BY <1>1, <1>2, RingDistance DEF RingOK
<1> DEFINE j == Distance(pt.first, i) + 1
<1>4. j \in 1..pt.count /\ j - 1 = Distance(pt.first, i)
  BY <1>1, <1>3 DEF Slots
<1> QED
  BY <1>2, <1>3, <1>4, PendingAt

(* An enqueue adds the message behind all others.                          *)
LEMMA EnqueuePending ==
  ASSUME NEW pt \in Port, RingOK(pt), pt.count < IPC_PORT_QUEUE_MAX,
         NEW k \in Kmsgs, k \notin InRing(pt)
  PROVE  /\ \A j \in 1..pt.count : Pending(ipc_port_enqueue(pt, k))[j] = Pending(pt)[j]
         /\ Pending(ipc_port_enqueue(pt, k))[pt.count + 1] = k
<1> DEFINE e == ipc_port_enqueue(pt, k)
<1>1. /\ IPC_PORT_QUEUE_MAX \in Nat \ {0} /\ pt.first \in Slots /\ pt.last \in Slots
      /\ pt.count \in 0..IPC_PORT_QUEUE_MAX /\ pt.msgs \in [Slots -> Kmsgs \cup {NULL}]
  BY IpcAssumption DEF Port
<1>2. /\ e \in Port /\ RingOK(e) /\ e.count = pt.count + 1 /\ e.first = pt.first
      /\ e.msgs = [pt.msgs EXCEPT ![pt.last] = k]
  BY EnqueueRing
<1>3. pt.last = After(pt.first, pt.count)
  BY DEF RingOK
<1>4. \A i \in Slots : e.msgs[i] = IF i = pt.last THEN k ELSE pt.msgs[i]
  BY <1>1, <1>2
<1>5. ASSUME NEW j \in 1..pt.count PROVE Pending(e)[j] = Pending(pt)[j]
  <2>1. j \in 1..e.count /\ j - 1 # pt.count
    BY <1>1, <1>2
  <2>2. /\ Pending(e)[j] = e.msgs[After(pt.first, j - 1)]
        /\ Pending(pt)[j] = pt.msgs[After(pt.first, j - 1)]
        /\ After(pt.first, j - 1) \in Slots
        /\ Distance(pt.first, After(pt.first, j - 1)) = j - 1
    BY <1>2, <2>1, PendingAt
  <2>3. Distance(pt.first, pt.last) = pt.count
    BY <1>1, <1>3, RingIndex
  <2>4. After(pt.first, j - 1) # pt.last
    BY <2>1, <2>2, <2>3
  <2> QED
    BY <1>4, <2>2, <2>4
<1>6. Pending(e)[pt.count + 1] = k
  <2>1. pt.count + 1 \in 1..e.count /\ (pt.count + 1) - 1 = pt.count
    BY <1>1, <1>2
  <2>2. Pending(e)[pt.count + 1] = e.msgs[After(e.first, (pt.count + 1) - 1)]
    BY <1>2, <2>1, PendingAt
  <2> QED
    BY <1>1, <1>2, <1>3, <1>4, <2>1, <2>2
<1> QED
  BY <1>5, <1>6

(* A dequeue takes the first message and moves the others up.              *)
LEMMA DequeuePending ==
  ASSUME NEW pt \in Port, RingOK(pt), pt.count # 0
  PROVE  /\ \A j \in 1..(pt.count - 1) : Pending(ipc_port_dequeue(pt))[j] = Pending(pt)[j + 1]
         /\ Pending(pt)[1] = pt.msgs[pt.first]
<1> DEFINE d == ipc_port_dequeue(pt)
<1>1. /\ IPC_PORT_QUEUE_MAX \in Nat \ {0} /\ pt.first \in Slots
      /\ pt.count \in 0..IPC_PORT_QUEUE_MAX /\ pt.msgs \in [Slots -> Kmsgs \cup {NULL}]
  BY IpcAssumption DEF Port
<1>2. /\ d \in Port /\ RingOK(d) /\ d.count = pt.count - 1 /\ d.first = After(pt.first, 1)
      /\ d.msgs = [pt.msgs EXCEPT ![pt.first] = NULL]
  BY DequeueRing
<1>3. ASSUME NEW j \in 1..(pt.count - 1) PROVE Pending(d)[j] = Pending(pt)[j + 1]
  <2>1. /\ j \in 1..d.count /\ j + 1 \in 1..pt.count /\ (j + 1) - 1 = j
        /\ j \in 0..IPC_PORT_QUEUE_MAX /\ j # 0 /\ j \in Int
    BY <1>1, <1>2
  <2>2. Pending(d)[j] = d.msgs[After(After(pt.first, 1), j - 1)]
    BY <1>2, <2>1, PendingAt
  <2>3. After(After(pt.first, 1), j - 1) = After(pt.first, j)
    BY <1>1, <2>1, RingNext
  <2>4. /\ Pending(pt)[j + 1] = pt.msgs[After(pt.first, (j + 1) - 1)]
        /\ After(pt.first, (j + 1) - 1) \in Slots
        /\ Distance(pt.first, After(pt.first, (j + 1) - 1)) = (j + 1) - 1
    BY <2>1, PendingAt
  <2>5. After(pt.first, j) # pt.first
    <3>1. Distance(pt.first, pt.first) = 0
      BY <1>1, <2>1, RingNext
    <3> QED
      BY <2>1, <2>4, <3>1
  <2> QED
    BY <1>1, <1>2, <2>1, <2>2, <2>3, <2>4, <2>5
<1>4. Pending(pt)[1] = pt.msgs[pt.first]
  <2>1. 1 \in 1..pt.count /\ 1 - 1 = 0
    BY <1>1
  <2>2. Pending(pt)[1] = pt.msgs[After(pt.first, 1 - 1)]
    BY <2>1, PendingAt
  <2>3. \A f \in Slots : After(f, 0) = f
    BY <1>1 DEF After, Slots
  <2> QED
    BY <1>1, <2>1, <2>2, <2>3
<1> QED
  BY <1>3, <1>4

-----------------------------------------------------------------------------
(* No message is lost, duplicated or left behind on any path of            *)
(* mach_msg() or by the release of a port, whatever the number of ports,   *)
(* messages and ring slots (MessagesConserved: ipc_port.c:39-88,           *)
(* ipc_msg.c:32-51, 81-88).                                                *)
THEOREM IpcMessages ==
  ASSUME ~ ExitedKeepsCalling, ~ Alias
  PROVE  IpcSpec => []MessagesConserved
<1>1. ASSUME IpcInv PROVE MessagesConserved
  <2>1. StoreInv
    BY <1>1, IpcInvParts
  <2>2. ASSUME NEW p \in Ports
        PROVE  /\ port[p].last = (port[p].first + port[p].count) % IPC_PORT_QUEUE_MAX
               /\ Cardinality(InRing(port[p])) = port[p].count
               /\ InRing(port[p]) = {Pending(port[p])[i] : i \in 1..port[p].count}
    <3>1. port[p] \in Port /\ RingOK(port[p])
      BY <2>1 DEF StoreInv
    <3>2. port[p].first \in Slots /\ port[p].count \in 0..IPC_PORT_QUEUE_MAX
      BY <3>1 DEF Port
    <3>3. port[p].last = (port[p].first + port[p].count) % IPC_PORT_QUEUE_MAX
      BY <3>1, <3>2, RingIndex DEF RingOK
    <3>4. \A k \in InRing(port[p]) : \E j \in 1..port[p].count : Pending(port[p])[j] = k
      BY <3>1, PendingCovers
    <3>5. \A j \in 1..port[p].count : Pending(port[p])[j] \in InRing(port[p])
      BY <3>1, PendingAt
    <3>6. InRing(port[p]) = {Pending(port[p])[i] : i \in 1..port[p].count}
      BY <3>4, <3>5
    <3> QED
      BY <3>1, <3>3, <3>6 DEF RingOK
  <2>3. /\ \A p \in Ports : InRing(port[p]) \cap kfree = {}
        /\ \A p \in Ports : \A q \in Ports \ {p} : InRing(port[p]) \cap InRing(port[q]) = {}
    BY <2>1 DEF StoreInv, KmsgInv
  <2>4. kfree \cup UNION {InRing(port[p]) : p \in Ports} = Kmsgs
    <3>1. \A p \in Ports : InRing(port[p]) \subseteq Kmsgs
      BY <2>1 DEF StoreInv, Port, InRing
    <3> QED
      BY <2>1, <3>1 DEF StoreInv, KmsgInv
  <2> QED
    BY <2>2, <2>3, <2>4 DEF MessagesConserved
<1> QED
  BY <1>1, IpcInvariant, PTL

(* The thread a send wakes is blocked in a receive on that port            *)
(* (WaiterIsBlocked: ipc_port.c:68-72, ipc_msg.c:72-76).                   *)
THEOREM IpcWaiter ==
  ASSUME ~ ExitedKeepsCalling, ~ Alias
  PROVE  IpcSpec => []WaiterIsBlocked
<1>1. IpcInv => WaiterIsBlocked
  BY DEF IpcInv
<1> QED
  BY <1>1, IpcInvariant, PTL

(* A name never denotes a port that was released (NamesAreLive:            *)
(* ipc_space.c:84-100).                                                    *)
THEOREM IpcNames ==
  ASSUME ~ ExitedKeepsCalling, ~ Alias
  PROVE  IpcSpec => []NamesAreLive
<1>1. IpcInv => NamesAreLive
  BY DEF IpcInv
<1> QED
  BY <1>1, IpcInvariant, PTL

(* A name is never given to another port (NamesNotReused:                  *)
(* ipc_space.c:57-61, 94-98).                                              *)
THEOREM IpcNamesNotReused ==
  ASSUME ~ ExitedKeepsCalling, ~ Alias
  PROVE  IpcSpec => NamesNotReused
<1>1. ASSUME IpcInv, [IpcNext]_allVars, space # NULL, space' # NULL
      PROVE  /\ Len(space') >= Len(space)
             /\ \A n \in 1..Len(space) : space'[n] \in {space[n], NULL}
  <2>1. space \in Seq(Ports \cup {NULL}) /\ Len(space) \in Nat
    BY <1>1 DEF IpcInv, IpcTypeOK
  <2>2. CASE UNCHANGED space
    BY <2>1, <2>2
  <2>3. ASSUME NEW p \in Ports, IpcSpaceInsert(p)
        PROVE  /\ Len(space') >= Len(space)
               /\ \A n \in 1..Len(space) : space'[n] \in {space[n], NULL}
    BY <2>1, <2>3 DEF IpcSpaceInsert
  <2>4. ASSUME NEW n \in Names, IpcSpaceRemove(n)
        PROVE  /\ Len(space') >= Len(space)
               /\ \A i \in 1..Len(space) : space'[i] \in {space[i], NULL}
    BY <2>1, <2>4 DEF IpcSpaceRemove
  <2>5. IpcSpaceDestroy => space' = NULL
    BY DEF IpcSpaceDestroy
  <2>6. MachMsgReceive \/ MachMsgResume => UNCHANGED space
    BY DEF MachMsgReceive, MachMsgResume, ReturnError, TakeMessage, WaitForMessage
  <2>7. ThreadStep \/ UNCHANGED allVars \/ (\E p \in Ports : IpcPortAlloc(p)) => UNCHANGED space
    BY DEF ThreadStep, IpcPortAlloc, allVars, ipcVars
  <2>8. (\E send, receive \in BOOLEAN, n, m \in Names, s, r \in Sizes, b \in Bodies :
           MachMsg(send, receive, n, s, b, m, r)) => UNCHANGED space
    BY DEF MachMsg
  <2> QED
    BY <1>1, <2>2, <2>3, <2>4, <2>5, <2>6, <2>7, <2>8 DEF IpcNext
<1> QED
  BY <1>1, IpcInvariant, PTL DEF IpcSpec, NamesNotReused

(* IPC uses the scheduler as the scheduler's own proofs assume, so all     *)
(* they establish holds under IPC too (IpcUsesSched: ipc_msg.c:73-76,      *)
(* ipc_port.c:68-72).                                                      *)
THEOREM IpcImplementsSched ==
  ASSUME ~ ExitedKeepsCalling, ~ Alias
  PROVE  IpcSpec => IpcUsesSched
<1>1. IpcInit => Init
  BY DEF IpcInit
<1> QED
  BY <1>1, IpcSchedStep, IpcInvariant, PTL DEF IpcSpec, IpcUsesSched, Spec

-----------------------------------------------------------------------------
(* Wake-ups.  Here a port has one receiver and is not removed under it, as *)
(* BlockedWillBeWoken needs.                                               *)

(* Kernel code that is not in mach_msg() runs while nobody is between the  *)
(* two halves of a call.                                                   *)
LEMMA NobodyReceives ==
  ASSUME IpcInv, KernelCode
  PROVE  \A t \in Threads : call[t].pc # "rcv"
  BY DEF IpcInv, CallInv, KernelCode, BootRuns, CallerRuns, ThreadRuns

LEMMA WakeInit == IpcInit => WakeInv
  BY DEF IpcInit, Init, WakeInv, BlockedWillBeWoken, WokenFindsMessage, NotCalling

LEMMA ThreadStepWake ==
  ASSUME ~ ExitedKeepsCalling, IpcInv, WakeInv, ThreadStep
  PROVE  WakeInv'
<1>1. IInv /\ CallInv
  BY DEF IpcInv
<1>2. UNCHANGED <<port, portLive, space, call>>
  BY DEF ThreadStep
<1>3. /\ \A t \in Threads : t \in live' /\ state'[t] = "BLOCKED" <=> t \in live /\ state[t] = "BLOCKED"
      /\ \A t \in Threads : call[t].pc # "run" => t \in live'
      /\ \A t \in Threads : call[t].pc # "rcv"
  BY <1>1, ThreadStepKeeps
<1>4. live' \subseteq Threads
  BY IpcIInv DEF IInv, TypeOK, IpcNext
<1>5. BlockedWillBeWoken'
  BY <1>2, <1>3, <1>4 DEF WakeInv, BlockedWillBeWoken
<1>6. WokenFindsMessage'
  BY <1>1, <1>2, <1>3, <1>4 DEF WakeInv, WokenFindsMessage, CallInv
<1> QED
  BY <1>2, <1>3, <1>5, <1>6 DEF WakeInv

(* An action on ports and names keeps the wake-ups when every port that    *)
(* somebody waits on stays as it is.                                       *)
LEMMA WakeUnchanged ==
  ASSUME IpcInv, WakeInv, UNCHANGED <<vars, call>>,
         \A t \in Threads : call[t].pc = "rcv" => UNCHANGED space,
         \A p \in portLive : WaitingOn(p) # {} => p \in portLive' /\ port'[p] = port[p]
  PROVE  WakeInv'
<1>1. UNCHANGED <<live, state>>
  BY DEF vars
<1>2. \A t \in Threads : call[t].pc = "wait" => t \in live
  BY DEF IpcInv, CallInv
<1>3. \A t \in live : call[t].pc = "wait" /\ call[t].port \in portLive =>
         call[t].port \in portLive' /\ port'[call[t].port] = port[call[t].port]
  BY DEF WaitingOn
<1>4. BlockedWillBeWoken' /\ WokenFindsMessage'
  BY <1>1, <1>3 DEF WakeInv, BlockedWillBeWoken, WokenFindsMessage
<1>5. ASSUME NEW t \in Threads, call'[t].pc = "rcv"
      PROVE  (WaitingOn(ipc_space_lookup(call[t].name)) = {})'
  BY <1>1, <1>5 DEF WakeInv, WaitingOn, ipc_space_lookup
<1> QED
  BY <1>4, <1>5 DEF WakeInv

LEMMA NamesWake ==
  ASSUME ~ BusyRemove, IpcInv, WakeInv,
         \/ \E p \in Ports : IpcPortAlloc(p) \/ IpcSpaceInsert(p)
         \/ \E n \in Names : IpcSpaceRemove(n)
         \/ IpcSpaceDestroy
  PROVE  WakeInv'
<1>1. StoreInv
  BY IpcInvParts
<1>2. ASSUME NEW p \in Ports, IpcPortAlloc(p) PROVE WakeInv'
  <2>1. /\ UNCHANGED <<vars, call, space>> /\ portLive' = portLive \cup {p} /\ p \notin portLive
        /\ \A q \in portLive : port'[q] = port[q]
    BY <1>1, <1>2 DEF IpcPortAlloc, StoreInv
  <2> QED
    BY <2>1, WakeUnchanged
<1>3. ASSUME NEW p \in Ports, IpcSpaceInsert(p) PROVE WakeInv'
  <2>1. KernelCode /\ UNCHANGED <<vars, call, port, portLive>>
    BY <1>3 DEF IpcSpaceInsert
  <2> QED
    BY <2>1, NobodyReceives, WakeUnchanged
<1>4. ASSUME NEW n \in Names, IpcSpaceRemove(n) PROVE WakeInv'
  <2>1. KernelCode /\ WaitingOn(space[n]) = {}
    BY <1>4 DEF IpcSpaceRemove
  <2>2. Released({space[n]}) /\ UNCHANGED <<vars, call>>
    BY <1>4, SpaceRemoveReleases
  <2>3. \A p \in portLive : p # space[n] => p \in portLive' /\ port'[p] = port[p]
    BY <1>1, <2>2 DEF Released, StoreInv
  <2> QED
    BY <2>1, <2>2, <2>3, NobodyReceives, WakeUnchanged
<1>5. CASE IpcSpaceDestroy
  <2> DEFINE held == {space[n] : n \in 1..Len(space)} \ {NULL}
  <2>1. KernelCode /\ UNCHANGED <<vars, call>> /\ \A p \in held : WaitingOn(p) = {}
    BY <1>5 DEF IpcSpaceDestroy
  <2>2. Released(held)
    BY <1>5, SpaceDestroyReleases
  <2>3. \A p \in portLive : p \notin held => p \in portLive' /\ port'[p] = port[p]
    BY <1>1, <2>2 DEF Released, StoreInv
  <2> QED
    BY <2>1, <2>2, <2>3, NobodyReceives, WakeUnchanged
<1> QED
  BY <1>2, <1>3, <1>4, <1>5

(* A send wakes the waiter of the port and counts its message in one step. *)
LEMMA MachMsgWake ==
  ASSUME ~ ExitedKeepsCalling, ~ SharedReceive, IpcInv, WakeInv,
         NEW send \in BOOLEAN, NEW receive \in BOOLEAN, NEW n \in Names, NEW m \in Names,
         NEW s \in Sizes, NEW r \in Sizes, NEW b \in Bodies,
         MachMsg(send, receive, n, s, b, m, r)
  PROVE  WakeInv'
<1> DEFINE p == ipc_space_lookup(n)
           w == port[p].waiter
<1>1. IInv /\ StoreInv /\ ThreadInv /\ CallInv
  BY IpcInvParts DEF ThreadInv
<1>2. /\ CallerRuns /\ call[current].pc = "run"
      /\ receive => WaitingOn(ipc_space_lookup(m)) = {}
      /\ UNCHANGED <<live, portLive, space>>
  BY DEF MachMsg, memVars
<1>3. current \in Threads /\ current \in live /\ state[current] = "RUNNING"
  BY <1>1, <1>2, CallerFacts
<1>4. \A t \in Threads : call'[t].pc = "wait" => t # current /\ call'[t] = call[t]
  BY <1>1, <1>2, <1>3 DEF MachMsg, ThreadInv
<1>5. \A t \in Threads : call[t].pc = "wait" => t # current /\ call'[t] = call[t]
  BY <1>1, <1>2, <1>3 DEF MachMsg, ThreadInv
<1>6. \A t \in Threads : call'[t].pc = "rcv" =>
         /\ receive /\ t = current
         /\ call'[t].name = IF ViaTrap THEN 0 ELSE m
  BY <1>1, <1>2, <1>3 DEF MachMsg, ThreadInv, CallInv
<1>7. live \subseteq Threads
  BY <1>1 DEF IInv, TypeOK
<1>8. ASSUME NEW t \in Threads, call'[t].pc = "rcv"
      PROVE  (WaitingOn(ipc_space_lookup(call[t].name)) = {})'
  <2>1. WaitingOn(ipc_space_lookup(0)) = {}
    <3>1. ipc_space_lookup(0) = NULL
      BY DEF ipc_space_lookup
    <3> QED
      BY <1>1, <1>7, <3>1, IpcAssumption DEF WaitingOn, CallInv
  <2>2. WaitingOn(ipc_space_lookup(call'[t].name)) = {}
    BY <1>2, <1>6, <1>8, <2>1
  <2>3. ipc_space_lookup(call[t].name)' = ipc_space_lookup(call'[t].name)
    BY <1>2 DEF ipc_space_lookup
  <2> QED
    BY <1>2, <1>4, <1>7, <2>2, <2>3 DEF WaitingOn
<1>9. BlockedWillBeWoken' /\ WokenFindsMessage'
  <2>1. CASE ~ send
    <3>1. UNCHANGED <<port, state>>
      BY <2>1 DEF MachMsg, queueVars
    <3> QED
      BY <1>2, <1>4, <1>5, <1>7, <3>1 DEF WakeInv, BlockedWillBeWoken, WokenFindsMessage
  <2>2. CASE send
    <3>1. mach_msg_send(n, s, b)
      BY <2>2 DEF MachMsg
    <3>2. p \in Ports /\ p \in portLive
      BY <3>1, SendStores
    <3>3. /\ port'[p].count = port[p].count + 1
          /\ \A q \in Ports \ {p} : port'[q] = port[q]
      BY <1>1, <1>2, <3>1, SendStores, SendStoreInv
    <3>4. port[p].count \in Nat /\ port'[p].count > 0 /\ portLive \subseteq Ports
      BY <1>1, <3>2, <3>3, IpcAssumption DEF StoreInv, Port
    <3>5. w # NULL => w \in Threads /\ call[w].pc = "wait" /\ call[w].port = p
      BY <1>1, <1>2, <3>2, WaiterFacts
    <3>6. \A t \in Threads : state'[t] = IF w # NULL /\ t = w THEN "RUNNABLE" ELSE state[t]
      BY <1>1, <3>1 DEF mach_msg_send, queueVars, IInv, TypeOK
    <3>7. NULL \notin Threads
      BY SchedAssumption
    <3>8. BlockedWillBeWoken'
      <4> SUFFICES ASSUME NEW t \in live, state'[t] = "BLOCKED"
                   PROVE  /\ call'[t].pc = "wait"
                          /\ call'[t].port \in portLive
                          /\ port'[call'[t].port].waiter = t
        BY <1>2 DEF BlockedWillBeWoken
      <4>1. state[t] = "BLOCKED" /\ t # w
        BY <1>7, <3>6, <3>7
      <4>2. call[t].pc = "wait" /\ call[t].port \in portLive /\ port[call[t].port].waiter = t
        BY <4>1 DEF WakeInv, BlockedWillBeWoken
      <4> QED
        BY <1>5, <1>7, <3>3, <3>4, <4>1, <4>2
    <3>9. WokenFindsMessage'
      <4> SUFFICES ASSUME NEW t \in live, call'[t].pc = "wait", state'[t] # "BLOCKED"
                   PROVE  call'[t].port \in portLive /\ port'[call'[t].port].count > 0
        BY <1>2 DEF WokenFindsMessage
      <4>1. call[t].pc = "wait" /\ call'[t] = call[t]
        BY <1>4, <1>7
      <4>2. CASE state[t] = "BLOCKED"
        BY <1>7, <3>2, <3>4, <3>5, <3>6, <4>1, <4>2
      <4>3. CASE state[t] # "BLOCKED"
        BY <3>3, <3>4, <4>1, <4>3 DEF WakeInv, WokenFindsMessage
      <4> QED
        BY <4>2, <4>3
    <3> QED
      BY <3>8, <3>9
  <2> QED
    BY <2>1, <2>2
<1> QED
  BY <1>4, <1>8, <1>9 DEF WakeInv

(* A receive ends, or begins to wait on a port nobody else waits on.       *)
LEMMA ReceiveWake ==
  ASSUME ~ ExitedKeepsCalling, IpcInv, WakeInv, MachMsgReceive \/ MachMsgResume
  PROVE  WakeInv'
<1>1. IInv /\ CallInv /\ portLive \subseteq Ports
  BY DEF IpcInv, IpcTypeOK
<1>2. CallerRuns
  BY ReceiveCases
<1>3. current \in Threads /\ state[current] = "RUNNING"
  BY <1>1, <1>2, CallerFacts
<1>4. live \subseteq Threads /\ \A t \in Threads : call[t].pc = "wait" => t \in live
  BY <1>1 DEF IInv, TypeOK, CallInv
<1>5. \A t \in Threads : call[t].pc = "rcv" => t = current
  BY <1>1 DEF CallInv
<1>6. CASE ReturnError
  <2>1. /\ call'[current] = NotCalling
        /\ \A t \in Threads \ {current} : call'[t] = call[t]
    BY <1>2, <1>6, ErrorInv
  <2>2. UNCHANGED <<port, portLive, live, state>>
    BY <1>6 DEF ReturnError, vars
  <2>3. \A t \in Threads : call'[t].pc # "rcv"
    BY <1>5, <2>1 DEF NotCalling
  <2>4. BlockedWillBeWoken' /\ WokenFindsMessage'
    BY <1>3, <1>4, <2>1, <2>2 DEF WakeInv, BlockedWillBeWoken, WokenFindsMessage, NotCalling
  <2>5. \A t, u \in Threads :
          call'[t].pc = "wait" /\ call'[u].pc = "wait" /\ call'[t].port = call'[u].port => t = u
    BY <2>1 DEF WakeInv, NotCalling
  <2> QED
    BY <2>3, <2>4, <2>5 DEF WakeInv
<1>7. ASSUME NEW p \in portLive, port[p].count # 0, TakeMessage(p, call[current].size),
             \/ call[current].pc = "rcv" /\ p = ipc_space_lookup(call[current].name)
             \/ call[current].pc = "wait" /\ p = call[current].port
      PROVE  WakeInv'
  <2>1. /\ call'[current] = NotCalling
        /\ \A t \in Threads \ {current} : call'[t] = call[t]
        /\ port'[p].waiter = port[p].waiter
        /\ \A q \in Ports \ {p} : port'[q] = port[q]
    BY <1>1, <1>2, <1>7, TakeInv
  <2>2. UNCHANGED <<portLive, live, state>>
    BY <1>7 DEF TakeMessage, vars
  <2>3. \A t \in Threads : call'[t].pc # "rcv"
    BY <1>5, <2>1 DEF NotCalling
  <2>4. \A t \in live : t # current /\ call[t].pc = "wait" => call[t].port # p
    BY <1>3, <1>4, <1>7 DEF WakeInv, WaitingOn
  <2>5. BlockedWillBeWoken'
    BY <1>1, <1>3, <1>4, <2>1, <2>2 DEF WakeInv, BlockedWillBeWoken
  <2>6. WokenFindsMessage'
    BY <1>1, <1>4, <2>1, <2>2, <2>4 DEF WakeInv, WokenFindsMessage, NotCalling
  <2>7. \A t, u \in Threads :
          call'[t].pc = "wait" /\ call'[u].pc = "wait" /\ call'[t].port = call'[u].port => t = u
    BY <2>1 DEF WakeInv, NotCalling
  <2> QED
    BY <2>3, <2>5, <2>6, <2>7 DEF WakeInv
<1>8. ASSUME NEW p \in portLive, port[p].count = 0, WaitForMessage(p),
             call[current].pc = "rcv", p = ipc_space_lookup(call[current].name)
      PROVE  WakeInv'
  <2>1. /\ \A q \in Ports \ {p} : port'[q] = port[q]
        /\ port'[p].waiter = current
        /\ \A t \in Threads \ {current} : call'[t] = call[t]
        /\ call'[current].pc = "wait" /\ call'[current].port = p
        /\ live' = live
        /\ \A t \in Threads : state'[t] = "BLOCKED" <=> state[t] = "BLOCKED" \/ t = current
        /\ UNCHANGED portLive
    BY <1>1, <1>2, <1>8, WaitChanges
  <2>2. \A t \in Threads : call[t].pc = "wait" => call[t].port # p
    BY <1>3, <1>4, <1>8 DEF WakeInv, WaitingOn
  <2>3. \A t \in Threads : call'[t].pc # "rcv"
    BY <1>5, <2>1
  <2>4. BlockedWillBeWoken'
    <3> SUFFICES ASSUME NEW t \in live, state'[t] = "BLOCKED"
                 PROVE  /\ call'[t].pc = "wait"
                        /\ call'[t].port \in portLive
                        /\ port'[call'[t].port].waiter = t
      BY <2>1 DEF BlockedWillBeWoken
    <3>1. CASE t = current
      BY <1>8, <2>1, <3>1
    <3>2. CASE t # current
      BY <1>1, <1>4, <2>1, <2>2, <3>2 DEF WakeInv, BlockedWillBeWoken
    <3> QED
      BY <3>1, <3>2
  <2>5. WokenFindsMessage'
    BY <1>1, <1>4, <2>1, <2>2 DEF WakeInv, WokenFindsMessage
  <2>6. \A t, u \in Threads :
          call'[t].pc = "wait" /\ call'[u].pc = "wait" /\ call'[t].port = call'[u].port => t = u
    BY <2>1, <2>2 DEF WakeInv
  <2> QED
    BY <2>3, <2>4, <2>5, <2>6 DEF WakeInv
<1> QED
  BY <1>6, <1>7, <1>8, ReceiveCases

LEMMA WakeInvariant ==
  ASSUME ~ ExitedKeepsCalling, ~ Alias, ~ SharedReceive, ~ BusyRemove
  PROVE  IpcSpec => []WakeInv
<1>1. ASSUME IpcInv, WakeInv, UNCHANGED allVars PROVE WakeInv'
  BY <1>1, WakeUnchanged DEF allVars, ipcVars
<1>2. ASSUME IpcInv, WakeInv, [IpcNext]_allVars PROVE WakeInv'
  BY <1>1, <1>2, ThreadStepWake, NamesWake, MachMsgWake, ReceiveWake DEF IpcNext
<1> QED
  BY <1>2, WakeInit, IpcInvariant, PTL DEF IpcSpec

(* No wake-up is lost: whoever is blocked is the registered waiter of a    *)
(* port that exists (BlockedWillBeWoken: ipc_msg.c:72-77,                  *)
(* ipc_port.c:68-72).                                                      *)
THEOREM IpcWakeUp ==
  ASSUME ~ ExitedKeepsCalling, ~ Alias, ~ SharedReceive, ~ BusyRemove
  PROVE  IpcSpec => []BlockedWillBeWoken
<1>1. WakeInv => BlockedWillBeWoken
  BY DEF WakeInv
<1> QED
  BY <1>1, WakeInvariant, PTL

(* Whoever was woken finds a message (WokenFindsMessage:                   *)
(* ipc_msg.c:77-83).                                                       *)
THEOREM IpcWoken ==
  ASSUME ~ ExitedKeepsCalling, ~ Alias, ~ SharedReceive, ~ BusyRemove
  PROVE  IpcSpec => []WokenFindsMessage
<1>1. WakeInv => WokenFindsMessage
  BY DEF WakeInv
<1> QED
  BY <1>1, WakeInvariant, PTL
-----------------------------------------------------------------------------
(* The message rings of ipc_port.c implement the abstract ports of         *)
(* Mailbox, for every number of threads, ports, messages and ring slots:   *)
(* a send posts, a receive reads or loses the oldest message, a release    *)
(* closes, and everything else leaves the lines alone.                     *)

\* What a port whose ring is pt holds, when the messages are km.
LineOf(pt, km) == [i \in 1..pt.count |-> km[Pending(pt)[i]].body]

Words == Bodies \cup {NULL}

MessageTable == [Kmsgs -> [size : Sizes \cup {0}, body : Words]]

LEMMA LineFacts ==
  ASSUME NEW pt \in Port, RingOK(pt), NEW km \in MessageTable
  PROVE  /\ LineOf(pt, km) \in Seq(Words)
         /\ Len(LineOf(pt, km)) = pt.count
         /\ \A i \in 1..pt.count : LineOf(pt, km)[i] = km[Pending(pt)[i]].body
<1>1. pt.count \in Nat
  BY IpcAssumption DEF Port
<1>2. \A i \in 1..pt.count : Pending(pt)[i] \in Kmsgs
  BY PendingAt
<1>3. LineOf(pt, km) \in [1..pt.count -> Words]
  BY <1>2 DEF LineOf, MessageTable
<1>4. LineOf(pt, km) \in Seq(Words)
  BY <1>1, <1>3, SeqDef
<1>5. Len(LineOf(pt, km)) = pt.count
  BY <1>1, <1>3, <1>4, LenProperties
<1> QED
  BY <1>4, <1>5 DEF LineOf

LEMMA LineSame ==
  ASSUME NEW pt \in Port, RingOK(pt), NEW km, NEW km2,
         \A k \in InRing(pt) : km[k] = km2[k]
  PROVE  LineOf(pt, km) = LineOf(pt, km2)
<1>1. \A i \in 1..pt.count : Pending(pt)[i] \in InRing(pt)
  BY PendingAt
<1> QED
  BY <1>1 DEF LineOf

LEMMA LineEmpty ==
  ASSUME NEW pt \in Port, RingOK(pt), NEW km \in MessageTable, pt.count = 0
  PROVE  LineOf(pt, km) = << >>
<1>1. LineOf(pt, km) \in Seq(Words) /\ Len(LineOf(pt, km)) = 0
  BY LineFacts
<1> QED
  BY <1>1, EmptySeq

LEMMA LineAppend ==
  ASSUME NEW pt \in Port, RingOK(pt), pt.count < IPC_PORT_QUEUE_MAX,
         NEW k \in Kmsgs, k \notin InRing(pt),
         NEW km \in MessageTable, NEW s \in Sizes, NEW b \in Bodies
  PROVE  LineOf(ipc_port_enqueue(pt, k), [km EXCEPT ![k] = [size |-> s, body |-> b]])
           = Append(LineOf(pt, km), b)
<1> DEFINE e == ipc_port_enqueue(pt, k)
           km2 == [km EXCEPT ![k] = [size |-> s, body |-> b]]
<1>1. e \in Port /\ RingOK(e) /\ e.count = pt.count + 1
  BY EnqueueRing
<1>2. km2 \in MessageTable
  BY DEF MessageTable, Words
<1>3. pt.count \in Nat /\ b \in Words
  BY IpcAssumption DEF Port, Words
<1>4. /\ LineOf(e, km2) \in Seq(Words) /\ Len(LineOf(e, km2)) = pt.count + 1
      /\ \A i \in 1..(pt.count + 1) : LineOf(e, km2)[i] = km2[Pending(e)[i]].body
  BY <1>1, <1>2, LineFacts
<1>5. /\ LineOf(pt, km) \in Seq(Words) /\ Len(LineOf(pt, km)) = pt.count
      /\ \A i \in 1..pt.count : LineOf(pt, km)[i] = km[Pending(pt)[i]].body
  BY LineFacts
<1>6. ASSUME NEW i \in 1..pt.count PROVE LineOf(e, km2)[i] = LineOf(pt, km)[i]
  <2>1. Pending(e)[i] = Pending(pt)[i] /\ i \in 1..(pt.count + 1)
    BY <1>3, EnqueuePending
  <2>2. Pending(pt)[i] \in InRing(pt) /\ Pending(pt)[i] \in Kmsgs
    BY PendingAt
  <2>3. km2[Pending(pt)[i]] = km[Pending(pt)[i]]
    BY <2>2 DEF MessageTable
  <2> QED
    BY <1>4, <1>5, <2>1, <2>3
<1>7. LineOf(e, km2)[pt.count + 1] = b
  <2>1. Pending(e)[pt.count + 1] = k
    BY EnqueuePending
  <2>2. km2[k].body = b
    BY DEF MessageTable
  <2>3. pt.count + 1 \in 1..(pt.count + 1)
    BY <1>3
  <2>4. LineOf(e, km2)[pt.count + 1] = km2[Pending(e)[pt.count + 1]].body
    BY <1>4, <2>3
  <2> QED
    BY <2>1, <2>2, <2>4
<1>8. /\ Append(LineOf(pt, km), b) \in Seq(Words)
      /\ Len(Append(LineOf(pt, km), b)) = pt.count + 1
      /\ \A i \in 1..pt.count : Append(LineOf(pt, km), b)[i] = LineOf(pt, km)[i]
      /\ Append(LineOf(pt, km), b)[pt.count + 1] = b
  BY <1>3, <1>5
<1>9. \A i \in 1..(pt.count + 1) : LineOf(e, km2)[i] = Append(LineOf(pt, km), b)[i]
  <2>1. \A i \in 1..(pt.count + 1) : i \in 1..pt.count \/ i = pt.count + 1
    BY <1>3
  <2> QED
    BY <1>6, <1>7, <1>8, <2>1
<1> QED
  BY <1>4, <1>8, <1>9, SeqEqual

LEMMA LineTail ==
  ASSUME NEW pt \in Port, RingOK(pt), pt.count # 0,
         NEW km \in MessageTable, NEW km2 \in MessageTable,
         \A j \in Kmsgs \ {pt.msgs[pt.first]} : km2[j] = km[j]
  PROVE  /\ LineOf(pt, km) # << >>
         /\ Head(LineOf(pt, km)) = km[pt.msgs[pt.first]].body
         /\ LineOf(ipc_port_dequeue(pt), km2) = Tail(LineOf(pt, km))
<1> DEFINE d == ipc_port_dequeue(pt)
           k == pt.msgs[pt.first]
           line == LineOf(pt, km)
<1>1. d \in Port /\ RingOK(d) /\ d.count = pt.count - 1 /\ InRing(d) = InRing(pt) \ {k}
  BY DequeueRing
<1>2. pt.count \in Nat /\ pt.count >= 1
  BY IpcAssumption DEF Port
<1>3. /\ line \in Seq(Words) /\ Len(line) = pt.count
      /\ \A i \in 1..pt.count : line[i] = km[Pending(pt)[i]].body
  BY LineFacts
<1>4. line # << >>
  BY <1>2, <1>3, EmptySeq
<1>5. Head(line) = km[k].body
  <2>1. line[1] = km[Pending(pt)[1]].body
    BY <1>2, <1>3
  <2>2. Pending(pt)[1] = k
    BY DequeuePending
  <2> QED
    BY <1>3, <1>4, <2>1, <2>2
<1>6. /\ Tail(line) \in Seq(Words) /\ Len(Tail(line)) = pt.count - 1
      /\ \A i \in 1..(pt.count - 1) : Tail(line)[i] = line[i + 1]
  BY <1>3, <1>4, HeadTailProperties
<1>7. /\ LineOf(d, km2) \in Seq(Words) /\ Len(LineOf(d, km2)) = pt.count - 1
      /\ \A i \in 1..(pt.count - 1) : LineOf(d, km2)[i] = km2[Pending(d)[i]].body
  BY <1>1, LineFacts
<1>8. ASSUME NEW i \in 1..(pt.count - 1) PROVE LineOf(d, km2)[i] = Tail(line)[i]
  <2>1. Pending(d)[i] = Pending(pt)[i + 1]
    BY DequeuePending
  <2>2. Pending(d)[i] \in InRing(d) /\ Pending(d)[i] \in Kmsgs
    BY <1>1, PendingAt
  <2>3. km2[Pending(d)[i]] = km[Pending(d)[i]]
    BY <1>1, <2>2
  <2>4. i + 1 \in 1..pt.count
    BY <1>2
  <2> QED
    BY <1>3, <1>6, <1>7, <2>1, <2>3, <2>4
<1>9. LineOf(d, km2) = Tail(line)
  BY <1>6, <1>7, <1>8, SeqEqual
<1> QED
  BY <1>4, <1>5, <1>9

-----------------------------------------------------------------------------
(* The steps.                                                              *)

LEMMA ContentsLine ==
  /\ Contents = [p \in Ports |-> LineOf(port[p], kmsg)]
  /\ Contents' = [p \in Ports |-> LineOf(port'[p], kmsg')]
  BY DEF Contents, LineOf

LEMMA StoreFacts ==
  ASSUME StoreInv
  PROVE  /\ kmsg \in MessageTable
         /\ \A p \in Ports : port[p] \in Port /\ RingOK(port[p])
         /\ \A p \in Ports : \A k \in InRing(port[p]) : k \in Kmsgs
         /\ \A p, q \in Ports : p # q => InRing(port[p]) \cap InRing(port[q]) = {}
<1>1. kmsg \in MessageTable
  BY DEF StoreInv, MessageTable, Words
<1>2. \A p \in Ports : \A k \in InRing(port[p]) : k \in Kmsgs
  BY DEF StoreInv, InRing, Port
<1> QED
  BY <1>1, <1>2 DEF StoreInv, KmsgInv

(* Steps that move no message.                                             *)
LEMMA QuietStep ==
  ASSUME IpcInv,
         \/ ThreadStep \/ UNCHANGED allVars
         \/ \E p \in Ports : IpcPortAlloc(p) \/ IpcSpaceInsert(p)
         \/ ReturnError
  PROVE  UNCHANGED <<Contents, buf>>
<1>1. CASE ThreadStep \/ UNCHANGED allVars \/ ReturnError
  BY <1>1 DEF ThreadStep, allVars, ipcVars, ReturnError, Contents
<1>2. ASSUME NEW p \in Ports, IpcSpaceInsert(p) PROVE UNCHANGED <<Contents, buf>>
  BY <1>2 DEF IpcSpaceInsert, Contents
<1>3. ASSUME NEW p \in Ports, IpcPortAlloc(p) PROVE UNCHANGED <<Contents, buf>>
  <2>1. StoreInv /\ StoreInv' /\ port[p].count = 0
    BY <1>3, IpcInvParts, PortAllocInv DEF IpcPortAlloc, StoreInv, PortInv
  <2>2. UNCHANGED <<buf, kmsg>> /\ \A q \in Ports : port'[q] = IF q = p THEN NewPort ELSE port[q]
    BY <1>3, <2>1 DEF IpcPortAlloc, StoreInv
  <2>3. NewPort \in Port /\ RingOK(NewPort) /\ NewPort.count = 0
    BY NewPortOK DEF NewPort, Pointer
  <2>4. LineOf(NewPort, kmsg) = << >> /\ LineOf(port[p], kmsg) = << >>
    BY <2>1, <2>3, StoreFacts, LineEmpty
  <2>5. \A q \in Ports : LineOf(port'[q], kmsg') = LineOf(port[q], kmsg)
    BY <2>2, <2>4
  <2> QED
    BY <2>2, <2>5, ContentsLine
<1> QED
  BY <1>1, <1>2, <1>3

LEMMA WaitQuiet ==
  ASSUME ~ ExitedKeepsCalling, IpcInv, CallerRuns, NEW p \in Ports, WaitForMessage(p)
  PROVE  UNCHANGED <<Contents, buf>>
<1>1. /\ \A q \in Ports \ {p} : port'[q] = port[q]
      /\ port'[p].msgs = port[p].msgs /\ port'[p].first = port[p].first
      /\ port'[p].count = port[p].count
      /\ UNCHANGED <<kmsg, buf>>
  BY WaitChanges
<1>2. \A q \in Ports : LineOf(port'[q], kmsg') = LineOf(port[q], kmsg)
  BY <1>1 DEF LineOf, Pending
<1> QED
  BY <1>1, <1>2, ContentsLine

LEMMA CloseStep ==
  ASSUME IpcInv, NEW P \in SUBSET portLive, Released(P), UNCHANGED buf
  PROVE  \E Q \in SUBSET Ports : MB!Close(Q)
<1>1. StoreInv /\ StoreInv' /\ portLive \subseteq Ports
  BY IpcInvParts, ReleasedInv DEF StoreInv
<1>2. ASSUME NEW q \in Ports
      PROVE  LineOf(port'[q], kmsg') = IF q \in P THEN << >> ELSE LineOf(port[q], kmsg)
  <2>1. CASE q \in P
    <3>1. port'[q].count = 0
      BY <2>1 DEF Released, NewPort
    <3>2. port'[q] \in Port /\ RingOK(port'[q]) /\ kmsg' \in MessageTable
      BY <1>1 DEF StoreInv, MessageTable, Words
    <3> QED
      BY <2>1, <3>1, <3>2, LineEmpty
  <2>2. CASE q \notin P
    <3>1. port'[q] = port[q]
      BY <2>2 DEF Released
    <3>2. \A k \in InRing(port[q]) : k \in Kmsgs /\ k \notin UNION {InRing(port[p]) : p \in P}
      BY <1>1, <2>2, StoreFacts
    <3>3. \A k \in InRing(port[q]) : kmsg[k] = kmsg'[k]
      BY <3>2 DEF Released, ipc_kmsg_free
    <3> QED
      BY <1>1, <2>2, <3>1, <3>3, StoreFacts, LineSame
  <2> QED
    BY <2>1, <2>2
<1>3. Contents' = [q \in Ports |-> IF q \in P THEN << >> ELSE Contents[q]]
  BY <1>2, ContentsLine
<1> QED
  BY <1>1, <1>3 DEF MB!Close

LEMMA PostStep ==
  ASSUME IpcInv, NEW n \in Names, NEW s \in Sizes, NEW b \in Bodies,
         mach_msg_send(n, s, b), UNCHANGED buf
  PROVE  \E p \in Ports, m \in Bodies : MB!Post(p, m)
<1> DEFINE p == ipc_space_lookup(n)
<1>1. StoreInv
  BY IpcInvParts
<1>2. p \in Ports /\ port[p].count < IPC_PORT_QUEUE_MAX
  BY SendStores
<1>3. PICK k \in kfree :
        /\ k \in Kmsgs /\ k \notin InRing(port[p])
        /\ kmsg' = [kmsg EXCEPT ![k] = [size |-> s, body |-> b]]
        /\ port' = [port EXCEPT ![p] = ipc_port_enqueue(port[p], k)]
  BY SendStores
<1>4. LineOf(port'[p], kmsg') = Append(LineOf(port[p], kmsg), b)
  <2>1. port'[p] = ipc_port_enqueue(port[p], k)
    BY <1>1, <1>2, <1>3 DEF StoreInv
  <2>2. kmsg \in MessageTable /\ port[p] \in Port /\ RingOK(port[p])
    BY <1>1, <1>2, StoreFacts
  <2>3. LineOf(ipc_port_enqueue(port[p], k), [kmsg EXCEPT ![k] = [size |-> s, body |-> b]])
          = Append(LineOf(port[p], kmsg), b)
    BY <1>2, <1>3, <2>2, LineAppend
  <2> QED
    BY <1>3, <2>1, <2>3
<1>5. ASSUME NEW q \in Ports, q # p PROVE LineOf(port'[q], kmsg') = LineOf(port[q], kmsg)
  <2>1. port'[q] = port[q]
    BY <1>1, <1>3, <1>5 DEF StoreInv
  <2>2. \A j \in InRing(port[q]) : j # k /\ j \in Kmsgs
    BY <1>1, StoreFacts DEF StoreInv, KmsgInv
  <2>3. \A j \in InRing(port[q]) : kmsg[j] = kmsg'[j]
    BY <1>1, <1>3, <2>2 DEF StoreInv
  <2> QED
    BY <1>1, <2>1, <2>3, StoreFacts, LineSame
<1>6. Contents' = [Contents EXCEPT ![p] = Append(Contents[p], b)]
  BY <1>2, <1>4, <1>5, ContentsLine
<1>7. Len(Contents[p]) < IPC_PORT_QUEUE_MAX
  BY <1>1, <1>2, ContentsLine, StoreFacts, LineFacts
<1> QED
  BY <1>2, <1>6, <1>7 DEF MB!Post

LEMMA ReadStep ==
  ASSUME IpcInv, NEW p \in Ports, port[p].count # 0, NEW size, current \in Threads,
         TakeMessage(p, size)
  PROVE  (\E q \in Ports, t \in Threads : MB!Read(q, t)) \/ (\E q \in Ports : MB!Lose(q))
<1> DEFINE k == port[p].msgs[port[p].first]
<1>1. StoreInv
  BY IpcInvParts
<1>2. /\ port' = [port EXCEPT ![p] = ipc_port_dequeue(port[p])]
      /\ kmsg' = [j \in Kmsgs |-> IF j \in {k} THEN NoMessage ELSE kmsg[j]]
      /\ buf' = IF kmsg[k].size > size THEN buf ELSE [buf EXCEPT ![current] = kmsg[k].body]
  BY DEF TakeMessage, ipc_kmsg_free
<1>3. k \in InRing(port[p])
  BY <1>1, StoreFacts, DequeueRing
<1>4. kmsg' \in MessageTable
  BY <1>1, <1>2, StoreFacts DEF MessageTable, Words, NoMessage
<1>5. /\ LineOf(port[p], kmsg) # << >>
      /\ Head(LineOf(port[p], kmsg)) = kmsg[k].body
      /\ LineOf(port'[p], kmsg') = Tail(LineOf(port[p], kmsg))
  <2>1. port'[p] = ipc_port_dequeue(port[p])
    BY <1>1, <1>2 DEF StoreInv
  <2>2. \A j \in Kmsgs \ {k} : kmsg'[j] = kmsg[j]
    BY <1>2
  <2> QED
    BY <1>1, <1>4, <2>1, <2>2, StoreFacts, LineTail
<1>6. ASSUME NEW q \in Ports, q # p PROVE LineOf(port'[q], kmsg') = LineOf(port[q], kmsg)
  <2>1. port'[q] = port[q]
    BY <1>1, <1>2, <1>6 DEF StoreInv
  <2>2. \A j \in InRing(port[q]) : j # k /\ j \in Kmsgs
    BY <1>1, <1>3, <1>6, StoreFacts
  <2>3. \A j \in InRing(port[q]) : kmsg[j] = kmsg'[j]
    BY <1>2, <2>2
  <2> QED
    BY <1>1, <2>1, <2>3, StoreFacts, LineSame
<1>7. /\ Contents[p] # << >> /\ Head(Contents[p]) = kmsg[k].body
      /\ Contents' = [Contents EXCEPT ![p] = Tail(Contents[p])]
  BY <1>5, <1>6, ContentsLine
<1> QED
  BY <1>2, <1>7 DEF MB!Read, MB!Lose

LEMMA MailboxStep ==
  ASSUME ~ ExitedKeepsCalling, IpcInv, [IpcNext]_allVars
  PROVE  [MB!MbNext]_(MB!mbVars)
<1>1. CASE \/ ThreadStep \/ UNCHANGED allVars
           \/ \E p \in Ports : IpcPortAlloc(p) \/ IpcSpaceInsert(p)
  BY <1>1, QuietStep DEF MB!mbVars
<1>2. ASSUME NEW n \in Names, IpcSpaceRemove(n) PROVE MB!MbNext
  <2>1. {space[n]} \in SUBSET portLive /\ Released({space[n]}) /\ UNCHANGED buf
    BY <1>2, SpaceRemoveReleases
  <2> QED
    BY <2>1, CloseStep DEF MB!MbNext
<1>3. CASE IpcSpaceDestroy
  <2>1. UNCHANGED buf
    BY <1>3 DEF IpcSpaceDestroy
  <2> QED
    BY <1>3, <2>1, SpaceDestroyReleases, CloseStep DEF MB!MbNext
<1>4. ASSUME NEW send \in BOOLEAN, NEW receive \in BOOLEAN, NEW n \in Names, NEW m \in Names,
             NEW s \in Sizes, NEW r \in Sizes, NEW b \in Bodies,
             MachMsg(send, receive, n, s, b, m, r)
      PROVE  [MB!MbNext]_(MB!mbVars)
  <2>1. CASE send
    <3>1. mach_msg_send(n, s, b) /\ UNCHANGED buf
      BY <1>4, <2>1 DEF MachMsg
    <3> QED
      BY <3>1, PostStep DEF MB!MbNext
  <2>2. CASE ~ send
    BY <1>4, <2>2 DEF MachMsg, Contents, MB!mbVars
  <2> QED
    BY <2>1, <2>2
<1>5. CASE MachMsgReceive \/ MachMsgResume
  <2>1. CallerRuns
    BY <1>5, ReceiveCases
  <2>2. current \in Threads /\ portLive \subseteq Ports
    BY <2>1, CallerFacts DEF IpcInv, IpcTypeOK
  <2>3. CASE ReturnError
    BY <2>3, QuietStep DEF MB!mbVars
  <2>4. ASSUME NEW p \in portLive, port[p].count # 0, TakeMessage(p, call[current].size)
        PROVE  MB!MbNext
    BY <2>2, <2>4, ReadStep DEF MB!MbNext
  <2>5. ASSUME NEW p \in portLive, WaitForMessage(p) PROVE UNCHANGED MB!mbVars
    BY <2>1, <2>2, <2>5, WaitQuiet DEF MB!mbVars
  <2> QED
    BY <1>5, <2>3, <2>4, <2>5, ReceiveCases
<1> QED
  BY <1>1, <1>2, <1>3, <1>4, <1>5 DEF IpcNext

(* Whatever threads send, block, are woken and receive in whatever order,  *)
(* each port delivers the messages accepted for it in order and once each, *)
(* and loses one only to a buffer that is too small or to the end of the   *)
(* port (RefinesMailbox: ipc_port.c:56-88, ipc_kmsg.c:51-89).              *)
THEOREM IpcImplementsMailbox ==
  ASSUME ~ ExitedKeepsCalling, ~ Alias
  PROVE  IpcSpec => RefinesMailbox
<1>1. IpcInit => MB!MbInit
  <2> SUFFICES ASSUME IpcInit PROVE \A p \in Ports : Contents[p] = << >>
    BY DEF MB!MbInit
  <2>1. StoreInv
    BY IpcInitInv, IpcInvParts
  <2>2. \A p \in Ports : port[p].count = 0
    BY DEF IpcInit, NewPort
  <2> QED
    BY <2>1, <2>2, StoreFacts, LineEmpty, ContentsLine
<1> QED
  BY <1>1, MailboxStep, IpcInvariant, PTL DEF IpcSpec, RefinesMailbox, MB!MbSpec
=============================================================================
