------------------------------- MODULE MCIpc -------------------------------
(* IPC on a small instance.                                                *)
EXTENDS IpcRefinement, TLC

\* Slots, pages and the words of messages are interchangeable.
IpcSymmetry ==
  Permutations(Threads) \cup Permutations(Pages) \cup Permutations(Ports)
    \cup Permutations(Kmsgs) \cup Permutations(Bodies)
=============================================================================
