----------------------- MODULE MCPartitionScheduling ------------------------
(* Three processes share partition 0, one of them of lower priority; one    *)
(* process is alone in partition 1.                                         *)
EXTENDS PartitionScheduling

MCPartitionOf  == [i \in 0 .. 3 |-> IF i = 3 THEN 1 ELSE 0]
MCBasePriority == [i \in 0 .. 3 |-> IF i = 2 THEN 1 ELSE 0]
=============================================================================
