---------------------------- MODULE SamplingPort ----------------------------
(***************************************************************************)
(* A sampling port: the last message written to it, for any number of      *)
(* reads.  A call never blocks and wakes nobody.                           *)
(***************************************************************************)
EXTENDS PartitionTable

CONSTANTS
  Writers,      \* partitions of the port's writer_mask
  ReadersOf,    \* partitions of its reader_mask
  MessageSize   \* message_size

ASSUME PortAssumption ==
  /\ Writers \subseteq Partition /\ ReadersOf \subseteq Partition
  /\ MessageSize \in Nat \ {0}

\* What a process of partition p is told when it writes size bytes.
WriteStatus(p, size) ==
  IF p \notin Writers THEN "INVALID_ID"
  ELSE IF size # MessageSize THEN "INVALID_ARG" ELSE "OK"

\* What it is told when it reads into a buffer of size bytes, of a port that
\* has, or has not, been written to.
ReadStatus(p, size, hasMessage) ==
  IF p \notin ReadersOf THEN "INVALID_ID"
  ELSE IF size < MessageSize THEN "INVALID_ARG"
  ELSE IF ~hasMessage THEN "QUEUE_EMPTY" ELSE "OK"
=============================================================================
