-------------------------------- MODULE Ipc --------------------------------
(***************************************************************************)
(* Mach IPC on top of the scheduler: ports and their message rings         *)
(* (ipc_port.c), the port names of the one task the kernel has             *)
(* (ipc_space.c), kernel messages (ipc_kmsg.c) and mach_msg() with the     *)
(* receiver that blocks and is woken (ipc_msg.c).                          *)
(*                                                                         *)
(* A call of mach_msg() is one step up to the point where it blocks, one   *)
(* step from there, and a step of its own between its send half and its    *)
(* receive half.  Only kernel_task exists (task_create is not supported),  *)
(* so there is one space; it starts out empty, as a space that the boot    *)
(* code provides: ipc_space_create() itself cannot succeed, because its    *)
(* zone's elements do not fit into a page (see Zone).                      *)
(***************************************************************************)
EXTENDS Sched, Sequences

CONSTANTS
  Ports,               \* the struct ipc_port slots of the port zone
  Kmsgs,               \* the struct ipc_kmsg slots of the kmsg zone
  Bodies,              \* what a message may say
  Sizes,               \* the sizes callers pass
  HeaderSize,          \* sizeof(struct mach_msg_header)
  KMSG_ZONE_SIZE,      \* the largest message
  IPC_PORT_QUEUE_MAX,  \* slots in a port's ring
  IPC_SPACE_MAX_PORTS, \* names in a space
  RefModulus,          \* ip_ref_count counts modulo this (2^32)
  SharedReceive,       \* may two threads receive from one port?
  BusyRemove,          \* may a port be removed while a thread waits on it?
  Alias,               \* may a port be inserted under two names?
  ViaTrap              \* is mach_msg() called through sys_mach_msg_wrapper?

ASSUME IpcAssumption ==
  /\ IPC_PORT_QUEUE_MAX \in Nat \ {0}
  /\ IPC_SPACE_MAX_PORTS \in Nat
  /\ RefModulus \in Nat \ {0, 1}
  /\ HeaderSize \in Nat /\ KMSG_ZONE_SIZE \in Nat /\ Sizes \subseteq Nat
  /\ NULL \notin Ports \cup Kmsgs
  /\ {SharedReceive, BusyRemove, Alias, ViaTrap} \subseteq BOOLEAN

VARIABLES
  port,      \* struct ipc_port of every slot
  portLive,  \* the slots the port zone has handed out
  space,     \* is_entries[0..is_port_count-1].ie_port of kernel_task.itk_space,
             \* or NULL once the space is destroyed
  kmsg,      \* ikm_size and the message, of every kmsg slot in use; zalloc()
             \* zeroes a slot before it is used again
  kfree,     \* the kmsg slots that are free
  buf,       \* what mach_msg() last copied out to each thread
  call,      \* where each thread is in mach_msg(), with its receive arguments
  hasTask    \* the threads whose t->task is kernel_task

ipcVars  == <<port, portLive, space, kmsg, kfree, buf, call, hasTask>>
allVars  == <<vars, ipcVars>>

Slots == 0 .. IPC_PORT_QUEUE_MAX - 1

NewPort == [ refs |-> 1, waiter |-> NULL, msgs |-> [i \in Slots |-> NULL],
             first |-> 0, last |-> 0, count |-> 0 ]

NoMessage == [size |-> 0, body |-> NULL]

NotCalling == [pc |-> "run", local |-> 0, name |-> 0, size |-> 0, port |-> NULL]

-----------------------------------------------------------------------------
(* ipc_port.c on one port                                                  *)

\* Mutant: the waiting thread stays registered after it was woken.
ipc_port_enqueue_sticky(pt, k) ==
  [pt EXCEPT !.msgs[pt.last] = k, !.count = @ + 1,
             !.last = (@ + 1) % IPC_PORT_QUEUE_MAX]

\* Mutant: the receiver is woken before the message counts.
ipc_port_enqueue_uncounted(pt, k) ==
  [pt EXCEPT !.msgs[pt.last] = k, !.waiter = NULL,
             !.last = (@ + 1) % IPC_PORT_QUEUE_MAX]

\* The port after ipc_port_enqueue() put k into its ring; the waiter it
\* forgets is the one the caller unblocks.
ipc_port_enqueue(pt, k) ==
  [pt EXCEPT !.msgs[pt.last] = k, !.waiter = NULL, !.count = @ + 1,
             !.last = (@ + 1) % IPC_PORT_QUEUE_MAX]

\* Mutant: the write index steps back, last in first out.
ipc_port_dequeue_lifo(pt) ==
  [pt EXCEPT !.msgs[(pt.last + IPC_PORT_QUEUE_MAX - 1) % IPC_PORT_QUEUE_MAX] = NULL,
             !.count = @ - 1,
             !.last = (@ + IPC_PORT_QUEUE_MAX - 1) % IPC_PORT_QUEUE_MAX]

ipc_port_dequeue(pt) ==
  [pt EXCEPT !.msgs[pt.first] = NULL, !.count = @ - 1,
             !.first = (@ + 1) % IPC_PORT_QUEUE_MAX]

\* The messages in the ring, oldest first.
Pending(pt) ==
  [i \in 1..pt.count |-> pt.msgs[(pt.first + i - 1) % IPC_PORT_QUEUE_MAX]]

InRing(pt) == {pt.msgs[i] : i \in Slots} \ {NULL}

\* What ipc_kmsg_alloc() and ipc_kmsg_copyin() leave in a kernel message.
ipc_kmsg_copyin(size, body) == [size |-> size, body |-> body]

\* ipc_kmsg_free() of the slots in K.
ipc_kmsg_free(K) ==
  /\ kfree' = kfree \cup K
  /\ kmsg' = [k \in Kmsgs |-> IF k \in K THEN NoMessage ELSE kmsg[k]]

-----------------------------------------------------------------------------
(* ipc_space.c: a name is an index into the space, from 1; 0 is            *)
(* MACH_PORT_NULL.  The result NULL is KERN_INVALID_ARGUMENT.              *)

ipc_space_lookup(name) ==
  IF space # NULL /\ name \in 1..Len(space) THEN space[name] ELSE NULL

\* Code that is not itself inside mach_msg(): boot code or a thread.
KernelCode == BootRuns \/ (CallerRuns /\ call[current].pc = "run")

\* A thread is inside mach_msg_receive(), waiting on port p.
WaitingOn(p) == {t \in live : call[t].pc = "wait" /\ call[t].port = p}

IpcPortAlloc(p) ==
  /\ KernelCode
  /\ p \in Ports \ portLive
  /\ portLive' = portLive \cup {p}
  /\ port' = [port EXCEPT ![p] = NewPort]
  /\ UNCHANGED <<vars, space, kmsg, kfree, buf, call, hasTask>>

\* Mutant: an entry that was removed is filled again.
IpcSpaceInsertReusing(p) ==
  /\ KernelCode
  /\ p \in portLive
  /\ space # NULL
  /\ \A n \in 1..Len(space) : space[n] # p
  /\ \/ \E n \in 1..Len(space) : space[n] = NULL /\ space' = [space EXCEPT ![n] = p]
     \/ Len(space) < IPC_SPACE_MAX_PORTS /\ space' = Append(space, p)
  /\ UNCHANGED <<vars, port, portLive, kmsg, kfree, buf, call, hasTask>>

\* No reference is taken for the entry.
IpcSpaceInsert(p) ==
  /\ KernelCode
  /\ p \in portLive
  /\ space # NULL
  /\ Len(space) < IPC_SPACE_MAX_PORTS
  /\ Alias \/ \A n \in 1..Len(space) : space[n] # p
  /\ space' = Append(space, p)
  /\ UNCHANGED <<vars, port, portLive, kmsg, kfree, buf, call, hasTask>>

\* Mutant: the messages still queued are not freed with the port.
ipc_port_release_undrained(p) ==
  IF (port[p].refs + RefModulus - 1) % RefModulus > 0
    THEN /\ port' = [port EXCEPT ![p].refs = (@ + RefModulus - 1) % RefModulus]
         /\ UNCHANGED <<portLive, kfree, kmsg>>
    ELSE /\ port' = [port EXCEPT ![p] = [NewPort EXCEPT !.refs = 0, !.waiter = port[p].waiter]]
         /\ portLive' = portLive \ {p}
         /\ UNCHANGED <<kfree, kmsg>>

\* ipc_port_release(): the last reference drains the ring and frees the port.
\* The thread that waits on the port is left as it is.  (A freed port keeps
\* its fields until it is allocated again; which slot the empty ring would
\* use next is forgotten here, since ipc_port_alloc() clears it.)
ipc_port_release(p) ==
  IF (port[p].refs + RefModulus - 1) % RefModulus > 0
    THEN /\ port' = [port EXCEPT ![p].refs = (@ + RefModulus - 1) % RefModulus]
         /\ UNCHANGED <<portLive, kfree, kmsg>>
    ELSE /\ port' = [port EXCEPT ![p] = [NewPort EXCEPT !.refs = 0, !.waiter = port[p].waiter]]
         /\ portLive' = portLive \ {p}
         /\ ipc_kmsg_free(InRing(port[p]))

\* Mutant: the entry keeps its pointer.
IpcSpaceRemoveKept(name) ==
  /\ KernelCode
  /\ ipc_space_lookup(name) # NULL
  /\ BusyRemove \/ WaitingOn(space[name]) = {}
  /\ ipc_port_release(space[name])
  /\ UNCHANGED <<vars, space, buf, call, hasTask>>

IpcSpaceRemove(name) ==
  /\ KernelCode
  /\ ipc_space_lookup(name) # NULL
  /\ BusyRemove \/ WaitingOn(space[name]) = {}
  /\ ipc_port_release(space[name])
  /\ space' = [space EXCEPT ![name] = NULL]
  /\ UNCHANGED <<vars, buf, call, hasTask>>

\* ipc_space_destroy(): every entry releases its port (each port once, as
\* only Alias puts one under two names), then the space is freed and the
\* caller clears itk_space.
IpcSpaceDestroy ==
  LET held == {space[n] : n \in 1..Len(space)} \ {NULL}
  IN  /\ KernelCode
      /\ space # NULL /\ ~ Alias
      /\ BusyRemove \/ \A p \in held : WaitingOn(p) = {}
      /\ portLive' = portLive \ held
      /\ port' = [p \in Ports |->
                    IF p \in held THEN [NewPort EXCEPT !.refs = 0, !.waiter = port[p].waiter]
                                  ELSE port[p]]
      /\ ipc_kmsg_free(UNION {InRing(port[p]) : p \in held})
      /\ space' = NULL
      /\ UNCHANGED <<vars, buf, call, hasTask>>

-----------------------------------------------------------------------------
(* ipc_msg.c                                                               *)

\* mach_msg_send() that succeeds: a kernel message is filled from the
\* caller's and put into the port's ring, and the thread waiting there, if
\* any, is made runnable.
mach_msg_send(name, size, body) ==
  LET p == ipc_space_lookup(name)
      waiter == port[p].waiter
  IN  /\ size >= HeaderSize
      /\ current \in hasTask
      /\ p # NULL
      /\ size <= KMSG_ZONE_SIZE
      /\ port[p].count < IPC_PORT_QUEUE_MAX
      /\ \E k \in kfree :
           /\ kfree' = kfree \ {k}
           /\ kmsg' = [kmsg EXCEPT ![k] = ipc_kmsg_copyin(size, body)]
           /\ port' = [port EXCEPT ![p] = ipc_port_enqueue(@, k)]
      /\ IF waiter = NULL
           THEN UNCHANGED queueVars
           ELSE /\ state' = [state EXCEPT ![waiter] = "RUNNABLE"]
                /\ rq' = sched_enqueue(rq, waiter)

\* The send half of mach_msg(): option & 1 asks for it, option & 2 asks for
\* the receive half, whose arguments are rcv_name and rcv_size.  A send that
\* fails ends the call and leaves nothing behind.  Through the trap,
\* rcv_name is always 0, whatever msgh_local_port the caller wrote.
MachMsg(send, receive, name, size, body, rcv_name, rcv_size) ==
  LET rcv == [ pc |-> "rcv", local |-> rcv_name,
               name |-> IF ViaTrap THEN 0 ELSE rcv_name, size |-> rcv_size, port |-> NULL ]
  IN  /\ CallerRuns /\ call[current].pc = "run"
      /\ send \/ receive
      /\ receive => SharedReceive \/ WaitingOn(ipc_space_lookup(rcv_name)) = {}
      /\ IF send
           THEN mach_msg_send(name, size, body)
           ELSE UNCHANGED <<port, kmsg, kfree, queueVars>>
      /\ call' = IF receive THEN [call EXCEPT ![current] = rcv] ELSE call
      /\ UNCHANGED <<memVars, saved, cpuVars, phase, portLive, space, buf, hasTask>>

\* ipc_port_dequeue(), ipc_kmsg_copyout() into a buffer of the given size,
\* ipc_kmsg_free(): a message that does not fit is lost.
TakeMessage(p, size) ==
  LET k == port[p].msgs[port[p].first]
  IN  /\ port' = [port EXCEPT ![p] = ipc_port_dequeue(@)]
      /\ ipc_kmsg_free({k})
      /\ buf' = IF kmsg[k].size > size THEN buf ELSE [buf EXCEPT ![current] = kmsg[k].body]
      /\ call' = [call EXCEPT ![current] = NotCalling]
      /\ UNCHANGED <<vars, portLive, space, hasTask>>

\* The call returns an error.
ReturnError ==
  /\ call' = [call EXCEPT ![current] = NotCalling]
  /\ UNCHANGED <<vars, port, portLive, space, kmsg, kfree, buf, hasTask>>

\* Mutant: the thread blocks without having registered with the port.
WaitForMessageUnregistered(p) ==
  /\ port' = port
  /\ call' = [call EXCEPT ![current].pc = "wait", ![current].port = p]
  /\ sched_run(sched_dequeue(rq, current), [state EXCEPT ![current] = "BLOCKED"])
  /\ UNCHANGED <<memVars, phase, portLive, space, kmsg, kfree, buf, hasTask>>

\* ip_waiting_thread = current; sched_block(current); sched_run().
WaitForMessage(p) ==
  /\ port' = [port EXCEPT ![p].waiter = current]
  /\ call' = [call EXCEPT ![current].pc = "wait", ![current].port = p]
  /\ sched_run(sched_dequeue(rq, current), [state EXCEPT ![current] = "BLOCKED"])
  /\ UNCHANGED <<memVars, phase, portLive, space, kmsg, kfree, buf, hasTask>>

\* mach_msg_receive() up to its end or to the sched_run() in it.
MachMsgReceive ==
  LET p == ipc_space_lookup(call[current].name)
  IN  /\ CallerRuns /\ call[current].pc = "rcv"
      /\ IF current \notin hasTask \/ p = NULL
           THEN ReturnError
           ELSE IF port[p].count = 0
                  THEN WaitForMessage(p)
                  ELSE TakeMessage(p, call[current].size)

\* mach_msg_receive() after sched_run() returned.
MachMsgResume ==
  LET p == call[current].port
  IN  /\ CallerRuns /\ call[current].pc = "wait"
      /\ IF port[p].count = 0
           THEN ReturnError
           ELSE TakeMessage(p, call[current].size)

-----------------------------------------------------------------------------
(* The steps of the scheduler that IPC has no part in.  A thread inside    *)
(* mach_msg() does nothing else.                                           *)

ThreadStep ==
  /\ \/ \E t \in Threads, p \in Pages, b \in BOOLEAN :
          /\ KernelCode
          /\ ThreadCreate(t, p, b)
          /\ hasTask' = IF b THEN hasTask \cup {t} ELSE hasTask \ {t}
     \/ SchedCreateIdle /\ hasTask' = hasTask \ (live' \ live)
     \/ (EnterSchedIdle \/ SchedIdle) /\ UNCHANGED hasTask
     \/ (ThreadYield \/ ThreadExit) /\ call[current].pc = "run" /\ UNCHANGED hasTask
  /\ UNCHANGED <<port, portLive, space, kmsg, kfree, buf, call>>

IpcInit ==
  /\ Init
  /\ port = [p \in Ports |-> [NewPort EXCEPT !.refs = 0]]
  /\ portLive = {}
  /\ space = << >>
  /\ kfree = Kmsgs
  /\ kmsg = [k \in Kmsgs |-> NoMessage]
  /\ buf = [t \in Threads |-> NULL]
  /\ call = [t \in Threads |-> NotCalling]
  /\ hasTask = {}

Names == 0 .. IPC_SPACE_MAX_PORTS

IpcNext ==
  \/ ThreadStep
  \/ \E p \in Ports : IpcPortAlloc(p) \/ IpcSpaceInsert(p)
  \/ \E n \in Names : IpcSpaceRemove(n)
  \/ IpcSpaceDestroy
  \/ \E send, receive \in BOOLEAN, n, m \in Names, s, r \in Sizes, b \in Bodies :
       MachMsg(send, receive, n, s, b, m, r)
  \/ MachMsgReceive
  \/ MachMsgResume

IpcSpec == IpcInit /\ [][IpcNext]_allVars

(* The scheduler is as fair as FairSpec says, and a thread that is in      *)
(* mach_msg() and has the CPU goes on.  A thread that keeps calling        *)
(* mach_msg() can yield only between two calls; that it does so sooner or  *)
(* later, as a cooperative scheduler must assume, is strong fairness.      *)
IpcFairSpec ==
  /\ IpcSpec
  /\ WF_allVars(SchedCreateIdle /\ ThreadStep) /\ WF_allVars(EnterSchedIdle /\ ThreadStep)
  /\ WF_allVars(SchedIdle /\ ThreadStep) /\ SF_allVars(ThreadYield /\ ThreadStep)
  /\ WF_allVars(MachMsgReceive) /\ WF_allVars(MachMsgResume)

-----------------------------------------------------------------------------
(* Properties                                                              *)

(* Every IPC variable has a value of the type of its C object.             *)
IpcTypeOK ==
  /\ port \in [Ports -> [refs : 0..RefModulus-1, waiter : Pointer,
                         msgs : [Slots -> Kmsgs \cup {NULL}],
                         first : Slots, last : Slots, count : 0..IPC_PORT_QUEUE_MAX]]
  /\ portLive \subseteq Ports
  /\ space # NULL => space \in Seq(Ports \cup {NULL}) /\ Len(space) <= IPC_SPACE_MAX_PORTS
  /\ kmsg \in [Kmsgs -> [size : Sizes \cup {0}, body : Bodies \cup {NULL}]]
  /\ kfree \subseteq Kmsgs
  /\ buf \in [Threads -> Bodies \cup {NULL}]
  /\ call \in [Threads -> [pc : {"run", "rcv", "wait"}, local : Names, name : Names,
                           size : Sizes \cup {0}, port : Ports \cup {NULL}]]
  /\ hasTask \subseteq Threads

(* Kernel messages are conserved through every path of mach_msg() and      *)
(* through the release of a port: each one is free or waits in exactly one *)
(* slot, the occupied slots of a ring are the count ones from first, and   *)
(* last is the slot after them (ipc_port.c:39-88, ipc_msg.c:32-51, 81-88). *)
MessagesConserved ==
  /\ \A p \in Ports :
       /\ port[p].last = (port[p].first + port[p].count) % IPC_PORT_QUEUE_MAX
       /\ Cardinality(InRing(port[p])) = port[p].count
       /\ InRing(port[p]) = {Pending(port[p])[i] : i \in 1..port[p].count}
       /\ InRing(port[p]) \cap kfree = {}
       /\ \A q \in Ports \ {p} : InRing(port[p]) \cap InRing(port[q]) = {}
  /\ kfree \cup UNION {InRing(port[p]) : p \in Ports} = Kmsgs

(* The thread a port will wake is blocked in a receive on that very port,  *)
(* which holds no message: sched_unblock() never enqueues a thread that is *)
(* already queued (ipc_port.c:68-72, ipc_msg.c:72-76).                     *)
WaiterIsBlocked ==
  \A p \in portLive :
    port[p].waiter # NULL =>
      /\ port[p].waiter \in WaitingOn(p)
      /\ state[port[p].waiter] = "BLOCKED"
      /\ port[p].count = 0

(* No wake-up is lost: a thread blocked in mach_msg_receive() is the one   *)
(* the port it waits on will wake, and that port exists (ipc_msg.c:72-77,  *)
(* ipc_port.c:68-72).  Needs one receiver per port and no removal of a     *)
(* port somebody waits on.                                                 *)
BlockedWillBeWoken ==
  \A t \in live :
    state[t] = "BLOCKED" =>
      /\ call[t].pc = "wait"
      /\ call[t].port \in portLive
      /\ port[call[t].port].waiter = t

(* A thread woken in mach_msg_receive() finds the message it was woken for *)
(* and does not return KERN_FAILURE (ipc_msg.c:77-83).                     *)
WokenFindsMessage ==
  \A t \in live :
    call[t].pc = "wait" /\ state[t] # "BLOCKED" =>
      call[t].port \in portLive /\ port[call[t].port].count > 0

(* A name of the space denotes a port that exists, never one that was      *)
(* released (ipc_space.h:5, ipc_port.h:5-6, ipc_space.c:84-100).           *)
NamesAreLive ==
  space # NULL =>
    \A n \in 1..Len(space) : space[n] # NULL => space[n] \in portLive

(* A name never comes to denote another port: once removed it stays dead,  *)
(* for as long as the space exists (ipc_space.c:57-61, 94-98).             *)
NamesNotReused ==
  [][space # NULL /\ space' # NULL =>
       /\ Len(space') >= Len(space)
       /\ \A n \in 1..Len(space) : space'[n] \in {space[n], NULL}]_allVars

(* IPC calls the scheduler only as the scheduler expects: it blocks the    *)
(* running thread and unblocks threads that are blocked (ipc_msg.c:73-76,  *)
(* ipc_port.c:68-72).                                                      *)
IpcUsesSched == Spec

(* A receive call whose msgh_local_port names a port with a message takes  *)
(* a message (ROADMAP.md:40, syscall.c:19-31, ipc_msg.c:103-110).          *)
ReceiveTakesMessage ==
  [][\A t \in hasTask :
       LET p == ipc_space_lookup(call[t].local)
       IN  call[t].pc = "rcv" /\ call'[t].pc = "run" /\ p # NULL /\ port[p].count > 0
             => port'[p].count = port[p].count - 1]_allVars

(* A message sent to a port on which a thread waits gets that thread out   *)
(* of mach_msg() (ipc_port.c:68-72, ipc_msg.c:76-88).                      *)
SentIsReceived ==
  \A t \in Threads :
    (call[t].pc = "wait" /\ port[call[t].port].count > 0) ~> (call[t].pc = "run")
=============================================================================
