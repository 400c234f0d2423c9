--------------------------- MODULE MCTimedSystem ----------------------------
(* Two partitions: one with a periodic process of the best priority and an   *)
(* aperiodic one, the other with one periodic process.  A semaphore in the   *)
(* first.                                                                    *)
EXTENDS TimedSystem

MCPartitionOf   == [i \in 0 .. 2 |-> IF i = 2 THEN 1 ELSE 0]
MCBasePriority  == [i \in 0 .. 2 |-> IF i = 1 THEN 1 ELSE 0]
MCPeriod        == [i \in 0 .. 2 |-> CASE i = 0 -> 3 [] i = 1 -> 0 [] i = 2 -> 4]
MCCapacity      == [i \in 0 .. 2 |-> CASE i = 0 -> 2 [] i = 1 -> 0 [] i = 2 -> 4]
MCSlots         == <<[partition |-> 0, ticks |-> 2], [partition |-> 1, ticks |-> 1]>>
MCSemaphorePartition == [s \in 0 .. 0 |-> 0]
MCSemaphoreMax       == [s \in 0 .. 0 |-> 1]
MCSemaphoreInitial   == [s \in 0 .. 0 |-> 0]

MCPolicies ==
  {[p \in 0 .. 1 |-> [EXCEPTION |-> "RESTART_PROCESS", DEADLINE_EXCEEDED |-> a]] :
     a \in {"RESTART_PROCESS", "HALT_PARTITION"}}
    \cup {[p \in 0 .. 1 |-> [EXCEPTION |-> "HALT_PARTITION",
                             DEADLINE_EXCEEDED |-> "IGNORE"]]}

\* Without periods and deadlines, for the clock that wraps.
MCNoPeriod      == [i \in 0 .. 2 |-> 0]
MCFaultPolicies ==
  {[p \in 0 .. 1 |-> [EXCEPTION |-> a, DEADLINE_EXCEEDED |-> "HALT_PARTITION"]] :
     a \in {"RESTART_PROCESS", "HALT_PARTITION"}}

\* FairSpec for a clock without a bound.  OnTick is then enabled in every state
\* and is the only action that moves the clock, so its weak fairness says that
\* the clock moves again and again, which TLC evaluates faster than ENABLED.
MCFairSpec == Spec /\ []<><<sys'.now # sys.now>>_vars
=============================================================================
