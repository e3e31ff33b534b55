------------------------------ MODULE Mailbox ------------------------------
(***************************************************************************)
(* What ports promise ("a port is a protected message queue",              *)
(* ipc_port.h:5-6), without rings, kernel messages or blocking: each port  *)
(* holds a bounded line of messages, read in the order they were written,  *)
(* and a thread that reads gets the oldest one, or loses it when its       *)
(* buffer is too small.                                                    *)
(***************************************************************************)
EXTENDS Naturals, Sequences

CONSTANTS Ports, Threads, Messages, Capacity

VARIABLES
  line,     \* the messages waiting in each port, oldest first
  inbox     \* what each thread read last

mbVars == <<line, inbox>>

Post(p, m) ==
  /\ Len(line[p]) < Capacity
  /\ line' = [line EXCEPT ![p] = Append(@, m)]
  /\ UNCHANGED inbox

Read(p, t) ==
  /\ line[p] # << >>
  /\ line' = [line EXCEPT ![p] = Tail(@)]
  /\ inbox' = [inbox EXCEPT ![t] = Head(line[p])]

Lose(p) ==
  /\ line[p] # << >>
  /\ line' = [line EXCEPT ![p] = Tail(@)]
  /\ UNCHANGED inbox

\* The ports in P cease to exist, with all they hold.
Close(P) ==
  /\ line' = [p \in Ports |-> IF p \in P THEN << >> ELSE line[p]]
  /\ UNCHANGED inbox

MbInit == \A p \in Ports : line[p] = << >>

MbNext ==
  \/ \E p \in Ports, m \in Messages : Post(p, m)
  \/ \E p \in Ports, t \in Threads : Read(p, t)
  \/ \E p \in Ports : Lose(p)
  \/ \E P \in SUBSET Ports : Close(P)

MbSpec == MbInit /\ [][MbNext]_mbVars
=============================================================================
