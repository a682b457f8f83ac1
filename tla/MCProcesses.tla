---------------------------- MODULE MCProcesses ----------------------------
(* A new process gets the lowest id that is free, so that ids are reused as *)
(* soon as they can be.                                                     *)
EXTENDS Processes

LowestFirst ==
  \A p \in Pids : proc[p] = Free /\ proc'[p] # Free => \A q \in Pids : q < p => proc[q] # Free
=============================================================================
