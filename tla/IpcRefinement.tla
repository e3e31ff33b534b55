--------------------------- MODULE IpcRefinement ---------------------------
(* The message rings of kern/ipc_port.c implement the lines of Mailbox.    *)
EXTENDS Ipc

Contents ==
  [p \in Ports |-> [i \in 1..port[p].count |-> kmsg[Pending(port[p])[i]].body]]

MB == INSTANCE Mailbox WITH line <- Contents, inbox <- buf,
                            Messages <- Bodies, Capacity <- IPC_PORT_QUEUE_MAX

(* Whatever threads send, block, are woken and receive in whatever order,  *)
(* each port delivers the messages accepted for it in order, once each, to *)
(* the thread that reads them, and loses one only to a buffer that is too  *)
(* small or to the end of the port (ipc_port.c:56-88, ipc_kmsg.c:51-89).   *)
RefinesMailbox == MB!MbSpec
=============================================================================
