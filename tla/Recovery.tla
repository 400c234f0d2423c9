------------------------------ MODULE Recovery ------------------------------
(***************************************************************************)
(* Recovery of a process without mutexes (fault_recovery.c,                *)
(* fault_dispatch.c): what a restart does to it in each of its states, and *)
(* what becomes of the context that the handler was to return to, for a    *)
(* fault of the process on the CPU and for a deadline miss of any other.   *)
(***************************************************************************)
EXTENDS Services

RestartStates(k, i) ==
  IF k.state[i] = "RUNNING" THEN RestartRunning(k, i)
  ELSE IF k.state[i] = "BLOCKED"
  THEN ReadyProcess(ClearBlocked(LeaveAny(k, i), i), i) ELSE k

\* h.table is the table and h.cpu the context that the handler will return to;
\* k is the table with process i restarted.
Restarted(h, k, i) ==
  IF i # h.cpu THEN [h EXCEPT !.table = k]
  ELSE [table |-> PartitionYield(k, PartitionOf[i]), cpu |-> NoProcess]

Halted(h, p) ==
  [table |-> HaltPartition(h.table, p),
   cpu   |-> IF h.cpu # NoProcess /\ PartitionOf[h.cpu] = p THEN NoProcess ELSE h.cpu]
=============================================================================
