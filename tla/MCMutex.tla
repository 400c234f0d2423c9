------------------------------ MODULE MCMutex -------------------------------
(* Four processes of one partition, two of the same priority, and two       *)
(* mutexes: nested ownership, chains of owners and deadlock cycles.         *)
EXTENDS Mutex

MCPartitionOf    == [i \in 0 .. 3 |-> 0]
MCBasePriority   == [i \in 0 .. 3 |-> IF i = 3 THEN 2 ELSE i]
\* Three processes, each of another priority.
MCThreePartitionOf  == [i \in 0 .. 2 |-> 0]
MCThreeBasePriority == [i \in 0 .. 2 |-> i]

MCMutexPartition == [m \in 0 .. 1 |-> 0]
=============================================================================
