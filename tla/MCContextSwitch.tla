--------------------------- MODULE MCContextSwitch ---------------------------
(* Two processes of equal priority share partition 0, one is alone in the   *)
(* privileged partition 1.  Memory is 16 words: 4 to 7 belong to partition  *)
(* 0 and 8 to 11 to partition 1.                                            *)
EXTENDS ContextSwitch

MCPartitionOf  == [i \in 0 .. 2 |-> IF i = 2 THEN 1 ELSE 0]
MCBasePriority == [i \in 0 .. 2 |-> 0]
MCRegionBase   == [p \in 0 .. 1 |-> IF p = 0 THEN 4 ELSE 8]
MCRegionSize   == [p \in 0 .. 1 |-> 4]

\* A buffer of either partition, one that crosses the regions, and one whose
\* end wraps around to the region's.
MCBuffers == {<<4, 2>>, <<9, 3>>, <<7, 2>>, <<7, 15>>}
=============================================================================
