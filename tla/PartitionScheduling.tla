------------------------ MODULE PartitionScheduling -------------------------
(***************************************************************************)
(* Two-level scheduling: the frame schedule gives the CPU to one partition *)
(* per tick, and each partition runs the best of its READY processes.      *)
(*                                                                         *)
(* The kernel runs in exception handlers that exclude each other, so a     *)
(* handler is a sequence of steps during which no process executes: a      *)
(* service call ("svc"), the tick ("tick"), a recovery ("fault").  What    *)
(* the services do to the partition table (wake a process, change a        *)
(* priority, block the caller) is left to the environment: every handler   *)
(* is some sequence of these operations, ended the way the code ends it,   *)
(* by the preemption check of a service call, the dispatch of the tick or  *)
(* the restart.  The modules of the services use the same operators with   *)
(* the conditions of the service.                                          *)
(***************************************************************************)
EXTENDS PartitionTable

VARIABLES
  sys,        \* the partition table and PCB states, see PartitionTable
  cpu,        \* the process whose context the CPU has, NoProcess for idle
  mode,       \* "boot", "thread" (no handler runs), "svc", "tick", "fault"
  registered, \* how many processes start-up has registered
  faulty      \* the process that a recovery is restarting, or NoProcess

vars == <<sys, cpu, mode, registered, faulty>>

TypeOK ==
  /\ sys \in TableType
  /\ cpu \in Process \cup {NoProcess}
  /\ mode \in {"boot", "thread", "svc", "tick", "fault"}
  /\ registered \in 0 .. NumProcesses
  /\ faulty \in Process \cup {NoProcess}

Init ==
  /\ sys = CreatedTable
  /\ cpu = NoProcess
  /\ mode = "boot"
  /\ registered = 0
  /\ faulty = NoProcess

-----------------------------------------------------------------------------
(* Start-up: every created process is registered, in the order of the ids, *)
(* then the first tick is taken before any process runs.                   *)

Register ==
  /\ mode = "boot" /\ registered < NumProcesses
  /\ AddStatus(sys, registered) = "OK"
  /\ sys' = AddProcess(sys, registered)
  /\ registered' = registered + 1
  /\ UNCHANGED <<cpu, mode, faulty>>

StartScheduler(p) ==
  /\ mode = "boot" /\ registered = NumProcesses
  /\ SelectStatus(sys, p, FALSE) = "OK"
  /\ sys' = PartitionDispatch(sys, p)
  /\ cpu' = sys'.current[p]
  /\ mode' = "thread"
  /\ UNCHANGED <<registered, faulty>>

-----------------------------------------------------------------------------
(* The tick: wake-ups, priority changes and recoveries of processes, then  *)
(* the dispatch of the partition whose slot begins or goes on.             *)

TickBegin ==
  /\ mode = "thread"
  /\ mode' = "tick"
  /\ UNCHANGED <<sys, cpu, registered, faulty>>

\* A halted partition, or one with nothing to run, leaves the CPU idle.
TickDispatch(p) ==
  /\ mode = "tick"
  /\ mode' = "thread"
  /\ sys' = PartitionDispatch(sys, p)
  /\ cpu' = CASE SelectStatus(sys, p, FALSE) = "OK" -> sys'.current[p]
              [] SelectStatus(sys, p, FALSE)
                   \in {"PARTITION_HALTED", "QUEUE_EMPTY"} -> NoProcess
              [] OTHER -> cpu
  /\ UNCHANGED <<registered, faulty>>

-----------------------------------------------------------------------------
(* Service calls of the process on the CPU. *)

SvcBegin ==
  /\ mode = "thread" /\ cpu # NoProcess
  /\ mode' = "svc"
  /\ UNCHANGED <<sys, cpu, registered, faulty>>

Yield ==
  /\ mode = "svc"
  /\ sys' = PartitionYield(sys, PartitionOf[cpu])
  /\ cpu' = IF SelectStatus(sys, PartitionOf[cpu], TRUE) = "OK"
            THEN sys'.current[PartitionOf[cpu]] ELSE cpu
  /\ mode' = "thread"
  /\ UNCHANGED <<registered, faulty>>

Block ==
  /\ mode = "svc"
  /\ BlockStatus(sys, PartitionOf[cpu], cpu) = "OK"
  /\ sys' = BlockAndDispatch(sys, PartitionOf[cpu], cpu)
  /\ cpu' = sys'.current[PartitionOf[cpu]]
  /\ mode' = "thread"
  /\ UNCHANGED <<registered, faulty>>

\* periodic_wait and timed_wait when no other process of the partition is
\* READY.
WaitIdle ==
  /\ mode = "svc"
  /\ BlockStatus(sys, PartitionOf[cpu], cpu) = "QUEUE_EMPTY"
  /\ sys' = BlockIdle(sys, PartitionOf[cpu], cpu)
  /\ cpu' = NoProcess
  /\ mode' = "thread"
  /\ UNCHANGED <<registered, faulty>>

\* The end of every service call that did not block: the caller is preempted
\* at once by what the call made READY.
PreemptCheck ==
  /\ mode = "svc"
  /\ mode' = "thread"
  /\ IF NeedsPreemption(sys, cpu)
     THEN /\ sys' = PartitionDispatch(sys, PartitionOf[cpu])
          /\ cpu' = IF SelectStatus(sys, PartitionOf[cpu], FALSE) = "OK"
                    THEN sys'.current[PartitionOf[cpu]] ELSE cpu
     ELSE UNCHANGED <<sys, cpu>>
  /\ UNCHANGED <<registered, faulty>>

\* A service, the tick, or a restart that releases mutexes of its partition,
\* makes a waiting process READY ...
Reaches(i) ==
  \/ mode \in {"svc", "tick"}
  \/ mode = "fault" /\ PartitionOf[i] = PartitionOf[faulty]

Wake(i) ==
  /\ Reaches(i)
  /\ sys.state[i] = "BLOCKED"
  /\ sys' = ReadyProcess(sys, i)
  /\ UNCHANGED <<cpu, mode, registered, faulty>>

\* ... or changes the priority it has inherited through a mutex.
ChangePriority(i, q) ==
  /\ Reaches(i)
  /\ sys' = SetProcessPriority(sys, i, q)
  /\ UNCHANGED <<cpu, mode, registered, faulty>>

-------------------------------------------------------------------------------
(* Recovery.  A fault exception concerns the process on the CPU; a stack   *)
(* that the context switch finds unusable, the process that is leaving the *)
(* CPU; a deadline miss, handled by the tick before its dispatch, any      *)
(* process.                                                                *)

FaultBegin(i) ==
  /\ mode = "thread" /\ ~sys.halted[PartitionOf[i]]
  /\ mode' = "fault"
  /\ faulty' = i
  /\ UNCHANGED <<sys, cpu, registered>>

\* The process starts afresh and its partition yields; the CPU goes to what
\* the yield names, unless it was going to another partition or to idle.
RestartFaulting ==
  /\ mode = "fault"
  /\ LET restarted == RestartProcess(sys, faulty)
         p == PartitionOf[faulty]
     IN  /\ SelectStatus(restarted, p, TRUE) = "OK"
         /\ sys' = PartitionYield(restarted, p)
         /\ cpu' = IF cpu # NoProcess /\ PartitionOf[cpu] = p
                   THEN sys'.current[p] ELSE cpu
  /\ mode' = "thread"
  /\ faulty' = NoProcess
  /\ UNCHANGED registered

\* A miss of the process that the tick has interrupted drops its context; the
\* dispatch of the tick names the next one.
RestartMissed(i) ==
  /\ mode = "tick"
  /\ LET restarted == RestartProcess(sys, i)
     IN  IF i = cpu
         THEN /\ SelectStatus(restarted, PartitionOf[i], TRUE) = "OK"
              /\ sys' = PartitionYield(restarted, PartitionOf[i])
              /\ cpu' = NoProcess
         ELSE sys' = restarted /\ UNCHANGED cpu
  /\ UNCHANGED <<mode, registered, faulty>>

\* Faulty variant: the halted partition's process goes on until the next slot.
HaltInSlot(i) ==
  /\ mode \in {"thread", "tick"}
  /\ sys' = HaltPartition(sys, PartitionOf[i])
  /\ UNCHANGED <<cpu, mode, registered, faulty>>

\* The partition is stopped; its process leaves the CPU to idle.
HaltOn(i) ==
  /\ mode \in {"thread", "tick"}
  /\ sys' = HaltPartition(sys, PartitionOf[i])
  /\ cpu' = IF cpu # NoProcess /\ PartitionOf[cpu] = PartitionOf[i]
            THEN NoProcess ELSE cpu
  /\ UNCHANGED <<mode, registered, faulty>>

-----------------------------------------------------------------------------
Next ==
  \/ Register
  \/ \E p \in Partition : StartScheduler(p) \/ TickDispatch(p)
  \/ TickBegin \/ SvcBegin \/ Yield \/ Block \/ WaitIdle \/ PreemptCheck
  \/ RestartFaulting
  \/ \E i \in Process :
       \/ Wake(i)
       \/ \E q \in Priority : ChangePriority(i, q)
       \/ FaultBegin(i) \/ RestartMissed(i) \/ HaltOn(i)

Spec == Init /\ [][Next]_vars

-----------------------------------------------------------------------------
(* What the scheduler must guarantee.                                      *)

\* The table and the PCBs agree on what runs, one process per partition at
\* most: current_id and pcb->state are written in different functions
\* (partition.c, dispatch.c, timing.c, fault_recovery.c).
CurrentIsRunning == RunningIsCurrent(sys)

\* The ready queues hold READY processes only, each once and at its effective
\* priority: the dispatcher never runs one that is blocked or already running
\* (dispatch.c, maxrtos_dispatch_select).
OnlyReadyQueued == QueuesSound(sys)

\* No READY process is lost: one that start-up has registered is in the queue
\* of its effective priority, whatever woke it, restarted it, preempted it or
\* changed its priority (partition_ready_process sets the state first).
NoneLost == NoneLostOf(sys, 0 .. registered - 1)

\* Between handlers nothing READY in the running process's partition outranks
\* it: preemption is immediate (svc.c, maxrtos_arch_svc_preempt_check), also of
\* a caller that unlocks a mutex, of which another comment in svc.c says that it
\* keeps the CPU until the next tick or yield.
NotOutranked ==
  mode = "thread" /\ cpu # NoProcess =>
    ~HasHigher(sys, PartitionOf[cpu], sys.priority[cpu])

\* The context on the CPU is the one its partition records, and never that of
\* a partition the health monitor has halted (idle.c, systick.c).
CpuIsCurrent ==
  mode = "thread" /\ cpu # NoProcess =>
    /\ sys.current[PartitionOf[cpu]] = cpu
    /\ ~sys.halted[PartitionOf[cpu]]

\* Every dispatch the code can ask for succeeds, finds nothing to run or finds
\* the partition halted: the error returns that would leave the CPU with a
\* stale process (systick.c, "any other status") are never taken.
DispatchConsistent ==
  \A p \in Partition, yield \in BOOLEAN :
    SelectStatus(sys, p, yield) \in {"OK", "QUEUE_EMPTY", "PARTITION_HALTED"}

CanRestart(i) ==
  SelectStatus(RestartProcess(sys, i), PartitionOf[i], TRUE) = "OK"

\* Recovering a process whose context is lost always finds a process to go on
\* with, whatever the mutexes it releases do to its peers: the handler's only
\* other way out is to stop the system (fault_dispatch.c,
\* maxrtos_arch_handle_process_fault).
RestartCanDispatch ==
  /\ mode = "fault" => CanRestart(faulty)
  /\ mode = "tick" /\ cpu # NoProcess => CanRestart(cpu)

Restarts == RestartFaulting \/ \E i \in Process : RestartMissed(i)

\* There is no time slice: a RUNNING process that stays READY loses the CPU of
\* its partition only to a process that outranks it, unless it yields or is
\* restarted (dispatch.c, maxrtos_dispatch_takes_over).
NoTimeSlice ==
  [][\A p \in Partition :
       LET old == sys.current[p]
           new == sys'.current[p]
       IN  old # NoProcess /\ new # NoProcess /\ new # old
             /\ sys'.state[old] = "READY"
           => \/ sys'.priority[new] < sys'.priority[old]
              \/ Yield \/ Restarts]_vars

\* Position of i in the ready queue of its priority.
Place(k, i) == IndexIn(k.ready[PartitionOf[i]][k.priority[i]], i)

\* Peers keep their order: of two READY processes of equal priority, the one
\* ahead stays ahead in every step but a change of its own priority.  So
\* equals run in the order they became READY, a preempted one first.
PeersKeepOrder ==
  [][\A i, j \in Process :
       /\ i # j /\ PartitionOf[i] = PartitionOf[j]
       /\ Queued(sys, i) /\ Queued(sys, j)
       /\ Queued(sys', i) /\ Queued(sys', j)
       /\ sys.priority[i] = sys.priority[j]
       /\ sys'.priority[i] = sys'.priority[j]
       /\ Place(sys, i) < Place(sys, j)
       /\ ~ \E q \in Priority : ChangePriority(i, q)
       => Place(sys', i) < Place(sys', j)]_vars

\* A process that was preempted is the first of its peers to run again, one
\* that yielded the last (dispatch.c, dispatch_select).
PreemptedFirstYieldedLast ==
  [][\A p \in Partition :
       LET old == sys.current[p]
           q   == sys'.ready[p][sys'.priority[old]]
       IN  old # NoProcess /\ sys'.current[p] # old /\ Queued(sys', old)
           => IF Yield \/ Restarts
              THEN q[Len(q)] = old ELSE q[1] = old]_vars
=============================================================================
