------------------------------ MODULE Services ------------------------------
(***************************************************************************)
(* What every service call has in common (svc.c): the process that makes   *)
(* it, the preemption check at its end and the switch to the process that  *)
(* runs next.                                                              *)
(*                                                                         *)
(* Every handler (service call, fault, tick) is one action: handlers do    *)
(* not interleave, and the switch a handler asks for is done before any    *)
(* process runs again.                                                     *)
(***************************************************************************)
EXTENDS IpcBlock

VARIABLES
  sys,  \* the record of IpcBlock with the fields of the services
  cpu   \* the process on the CPU, or NoProcess

vars == <<sys, cpu>>

\* Every process is registered and each partition has yet to be dispatched.
Registered ==
  LET upTo[n \in 0 .. NumProcesses] ==
        IF n = 0 THEN CreatedTable ELSE AddProcess(upTo[n - 1], n - 1)
  IN  upTo[NumProcesses]

Merge(f, g) ==
  [x \in DOMAIN f \cup DOMAIN g |-> IF x \in DOMAIN f THEN f[x] ELSE g[x]]

-----------------------------------------------------------------------------
\* A caller that still runs gives way at once to what outranks it.
PreemptCheck(k, i) ==
  IF NeedsPreemption(k, i)
  THEN PartitionDispatch(k, PartitionOf[i]) ELSE k

\* The end of a call: the process its partition now runs is restored.
Resume(k, p) ==
  /\ cpu' = k.current[p]
  /\ sys' = IF cpu' = cpu THEN k ELSE Deliver(k, cpu')

Return(k) ==
  \E after \in {PreemptCheck(k, cpu)} : Resume(after, PartitionOf[cpu])

Yield ==
  /\ cpu # NoProcess
  /\ \E k \in {PartitionYield(sys, PartitionOf[cpu])} : Resume(k, PartitionOf[cpu])
=============================================================================
