----------------------------- MODULE MCChannel ------------------------------
(* Three processes of one partition, of two priorities, and one of another   *)
(* share an object: a buffer of the first partition or a port between both.  *)
EXTENDS Channel, TLC

MCPartitionOf  == [i \in 0 .. 3 |-> IF i = 3 THEN 1 ELSE 0]
MCBasePriority == [i \in 0 .. 3 |-> IF i = 1 THEN 0 ELSE 1]
MCChannelCapacity == [c \in 0 .. 0 |-> 1]

\* Messages are only stored and compared.
MessageSymmetry == Permutations(Message)

MCPorts ==
  {[senders |-> {0, 1}, receivers |-> {0, 1}, order |-> "FIFO"],
   [senders |-> {0}, receivers |-> {0}, order |-> "PRIORITY"]}
=============================================================================
