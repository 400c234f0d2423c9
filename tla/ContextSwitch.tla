--------------------------- MODULE ContextSwitch ----------------------------
(***************************************************************************)
(* The switch as the hardware does it.  A handler only names the process   *)
(* that runs next and makes the PendSV exception pending; PendSV saves the *)
(* context of the current process, prepares the next one (its memory       *)
(* region, its privilege, the result of the call it was blocked in) and    *)
(* restores it.  PendSV comes before a pending tick, and a process executes*)
(* nothing in between; but PendSV may find that the stack of the current   *)
(* process cannot hold its context, and recovers it in the middle of the   *)
(* switch.                                                                 *)
(*                                                                         *)
(* Of a context the model keeps whose registers they are and r0: "entry",  *)
(* the argument of a process that starts; the result of a call that had to *)
(* wait; or "args", whatever the process or a call that returned at once   *)
(* has put there since.                                                    *)
(***************************************************************************)
EXTENDS Mpu, SamplingPort

CONSTANTS
  Result,      \* results of calls that had to wait
  Privileged,  \* partitions declared privileged
  Buffers      \* the <<address, size>> that processes pass to the kernel

\* g_maxrtos_current_pcb and g_maxrtos_next_pcb point to the PCB of a process,
\* to that of the idle loop, or to nothing.
Idle == NoProcess
Null == NumProcesses + 1

\* pcb->partition_id, MAXRTOS_INVALID_PARTITION_ID for the idle loop.
PartitionIdOf(x) == IF x \in Process THEN PartitionOf[x] ELSE NumPartitions

ASSUME SwitchAssumption ==
  /\ Privileged \subseteq Partition
  /\ Buffers \subseteq Address \X Address
  /\ "none" \notin Result

VARIABLES
  sys, mode, registered, faulty,  \* as in PartitionScheduling
  current,       \* g_maxrtos_current_pcb
  next,          \* g_maxrtos_next_pcb
  switching,     \* PendSV is pending or, in a recovery, running
  slot,          \* the partition that the last tick dispatched
  context,       \* context[i]: what is saved on the stack of process i
  regs,          \* the registers of the CPU
  pending,       \* ipc_result while ipc_result_pending, or "none"
  unprivileged,  \* CONTROL.nPRIV
  mapped,        \* the partition whose memory the MPU region opens
  memory,        \* memory[p]: the partition that wrote to p's region last,
                 \* privileged ones with their own accesses excepted
  sample,        \* has_message of the sampling port
  answer         \* history: what each process must find in r0

kernelVars   == <<sys, mode, registered, faulty>>
switchVars   == <<current, next, switching, slot>>
contextVars  == <<context, regs, pending, answer>>
hardwareVars == <<unprivileged, mapped>>
memoryVars   == <<memory, sample>>

vars == <<kernelVars, switchVars, contextVars, hardwareVars, memoryVars>>

\* The frame that init_stack builds, and what is left when it is restored.
Fresh(i) == [of |-> i, r0 |-> "entry"]
Popped   == [of |-> Null, r0 |-> "popped"]

Init ==
  /\ sys = CreatedTable /\ mode = "boot" /\ registered = 0
  /\ faulty = NoProcess
  /\ current = Null /\ next = Null /\ switching = FALSE
  /\ slot = NumPartitions
  /\ context = [i \in Process |-> Fresh(i)] /\ regs = Popped
  /\ pending = [i \in Process |-> "none"]
  /\ answer = [i \in Process |-> "entry"]
  /\ unprivileged = FALSE /\ mapped = NumPartitions
  /\ memory = [p \in Partition |-> p] /\ sample = FALSE

\* set_next_pcb and request_context_switch.
SwitchTo(x) == next' = x /\ switching' = TRUE

\* A process executes: no handler runs and none is pending.
Executes == mode = "thread" /\ ~switching /\ current \in Process

\* The process, or a call that returns at once, puts something else into r0.
UsesR0 ==
  /\ regs' = [regs EXCEPT !.r0 = "args"]
  /\ answer' = [answer EXCEPT ![current] = "args"]

-----------------------------------------------------------------------------
(* Start-up and ticks. *)

Register ==
  /\ mode = "boot" /\ registered < NumProcesses
  /\ AddStatus(sys, registered) = "OK"
  /\ sys' = AddProcess(sys, registered)
  /\ registered' = registered + 1
  /\ UNCHANGED <<mode, faulty, switchVars, contextVars, hardwareVars, memoryVars>>

StartScheduler(p) ==
  /\ mode = "boot" /\ registered = NumProcesses
  /\ SelectStatus(sys, p, FALSE) = "OK"
  /\ sys' = PartitionDispatch(sys, p)
  /\ mode' = "thread" /\ slot' = p
  /\ SwitchTo(sys'.current[p])
  /\ UNCHANGED <<registered, faulty, current, contextVars, hardwareVars, memoryVars>>

\* SysTick has the priority of PendSV and the higher exception number.
TickBegin ==
  /\ mode = "thread" /\ ~switching
  /\ mode' = "tick"
  /\ UNCHANGED <<sys, registered, faulty,
                 switchVars, contextVars, hardwareVars, memoryVars>>

\* Faulty variant: the process of the last slot keeps the CPU if this one has
\* nothing to run.
DispatchedOrCurrent(p) ==
  IF SelectStatus(sys, p, FALSE) = "OK"
  THEN PartitionDispatch(sys, p).current[p] ELSE current

\* Whom the tick of a slot of partition p gives the CPU.
Dispatched(p) ==
  CASE SelectStatus(sys, p, FALSE) = "OK" -> PartitionDispatch(sys, p).current[p]
    [] SelectStatus(sys, p, FALSE) \in {"PARTITION_HALTED", "QUEUE_EMPTY"} -> Idle
    [] OTHER -> current

TickDispatch(p) ==
  /\ mode = "tick"
  /\ mode' = "thread" /\ slot' = p
  /\ sys' = PartitionDispatch(sys, p)
  /\ IF Dispatched(p) # current THEN SwitchTo(Dispatched(p))
     ELSE UNCHANGED <<next, switching>>
  /\ UNCHANGED <<registered, faulty, current, contextVars, hardwareVars, memoryVars>>

-----------------------------------------------------------------------------
(* Service calls. *)

\* The process puts its arguments into the registers and calls.
SvcBegin ==
  /\ Executes
  /\ mode' = "svc"
  /\ UsesR0
  /\ UNCHANGED <<sys, registered, faulty, switchVars,
                 context, pending, hardwareVars, memoryVars>>

Yield ==
  /\ mode = "svc"
  /\ mode' = "thread"
  /\ sys' = PartitionYield(sys, PartitionOf[current])
  /\ IF /\ SelectStatus(sys, PartitionOf[current], TRUE) = "OK"
        /\ sys'.current[PartitionOf[current]] # current
     THEN SwitchTo(sys'.current[PartitionOf[current]])
     ELSE UNCHANGED <<next, switching>>
  /\ UNCHANGED <<registered, faulty, current, slot,
                 contextVars, hardwareVars, memoryVars>>

\* The caller's r0 is left alone: its result comes when it is resumed.
Block ==
  /\ mode = "svc"
  /\ BlockStatus(sys, PartitionOf[current], current) = "OK"
  /\ mode' = "thread"
  /\ sys' = BlockAndDispatch(sys, PartitionOf[current], current)
  /\ SwitchTo(sys'.current[PartitionOf[current]])
  /\ UNCHANGED <<registered, faulty, current, slot,
                 contextVars, hardwareVars, memoryVars>>

WaitIdle ==
  /\ mode = "svc"
  /\ BlockStatus(sys, PartitionOf[current], current) = "QUEUE_EMPTY"
  /\ mode' = "thread"
  /\ sys' = BlockIdle(sys, PartitionOf[current], current)
  /\ SwitchTo(Idle)
  /\ UNCHANGED <<registered, faulty, current, slot,
                 contextVars, hardwareVars, memoryVars>>

\* A call that did not block stores its status and checks for preemption.
Return ==
  /\ mode = "svc"
  /\ mode' = "thread"
  /\ UsesR0
  /\ IF NeedsPreemption(sys, current)
     THEN /\ sys' = PartitionDispatch(sys, PartitionOf[current])
          /\ IF /\ SelectStatus(sys, PartitionOf[current], FALSE) = "OK"
                /\ sys'.current[PartitionOf[current]] # current
             THEN SwitchTo(sys'.current[PartitionOf[current]])
             ELSE UNCHANGED <<next, switching>>
     ELSE UNCHANGED <<sys, next, switching>>
  /\ UNCHANGED <<registered, faulty, current, slot,
                 context, pending, hardwareVars, memoryVars>>

Reaches(i) ==
  \/ mode \in {"svc", "tick"}
  \/ mode = "fault" /\ PartitionOf[i] = PartitionOf[faulty]

\* A waiting process is made READY with the result of its call.
Wake(i, r) ==
  /\ Reaches(i)
  /\ sys.state[i] = "BLOCKED"
  /\ sys' = ReadyProcess(sys, i)
  /\ pending' = [pending EXCEPT ![i] = r]
  /\ answer' = [answer EXCEPT ![i] = r]
  /\ UNCHANGED <<mode, registered, faulty, switchVars, context, regs,
                 hardwareVars, memoryVars>>

ChangePriority(i, q) ==
  /\ Reaches(i)
  /\ sys' = SetProcessPriority(sys, i, q)
  /\ UNCHANGED <<mode, registered, faulty,
                 switchVars, contextVars, hardwareVars, memoryVars>>

-----------------------------------------------------------------------------
(* Sampling ports: complete in the call, and without a preemption check.   *)
(* The kernel accesses the caller's buffer with privilege.                 *)

Holds(p, b) == OwnsRange(p, b[1], b[2])

SamplingWrite(b) ==
  LET p      == PartitionOf[current]
      status == IF ~Holds(p, b) THEN "INVALID_ARG" ELSE WriteStatus(p, b[2])
  IN  /\ Executes
      /\ UsesR0
      /\ sample' = (sample \/ status = "OK")
      /\ UNCHANGED <<kernelVars, switchVars, context, pending,
                     hardwareVars, memory>>

\* A message is copied to the buffer, whatever the size of the buffer.
SamplingRead(b) ==
  LET p      == PartitionOf[current]
      status == IF ~Holds(p, b) THEN "INVALID_ARG"
                ELSE ReadStatus(p, b[2], sample)
      copied == IF status = "OK" THEN b[1] .. b[1] + MessageSize - 1 ELSE {}
  IN  /\ Executes
      /\ UsesR0
      /\ memory' = [q \in Partition |->
                      IF Region(q) \cap copied # {} THEN p ELSE memory[q]]
      /\ UNCHANGED <<kernelVars, switchVars, context, pending,
                     hardwareVars, sample>>

\* Whether the MPU lets the CPU write to the memory of partition q.
Admits(q) == ~unprivileged \/ (mapped = q /\ q \in Writable)

\* A process writes to the memory of partition q; an access the MPU refuses is
\* a fault exception.  Privileged partitions may write anywhere and are trusted
\* not to.
Store(q) ==
  /\ Executes /\ PartitionOf[current] \notin Privileged
  /\ Admits(q)
  /\ memory' = [memory EXCEPT ![q] = PartitionOf[current]]
  /\ UNCHANGED <<kernelVars, switchVars, contextVars, hardwareVars, sample>>

-----------------------------------------------------------------------------
(* Recovery. *)

\* The current process causes a fault exception or, if a switch is under way,
\* PendSV finds its stack unusable.
FaultBegin ==
  /\ mode = "thread" /\ current \in Process
  /\ mode' = "fault" /\ faulty' = current
  /\ UNCHANGED <<sys, registered,
                 switchVars, contextVars, hardwareVars, memoryVars>>

\* Faulty variant: the result of the call that the restart ended stays.
AfreshResultStays(i) ==
  /\ context' = [context EXCEPT ![i] = Fresh(i)]
  /\ answer'  = [answer EXCEPT ![i] = "entry"]
  /\ UNCHANGED pending

\* init_stack of a restarted process.
Afresh(i) ==
  /\ context' = [context EXCEPT ![i] = Fresh(i)]
  /\ pending' = [pending EXCEPT ![i] = "none"]
  /\ answer'  = [answer EXCEPT ![i] = "entry"]

\* Faulty variant: always what the recovery has named.
AfterRecoveryNamed(p, x) == x

\* Whom the CPU goes to when the recovery of a process of partition p has
\* named x: a switch that was leaving p goes where it was going.
AfterRecovery(p, x) == IF switching /\ PartitionIdOf(next) # p THEN next ELSE x

RestartFaulting ==
  /\ mode = "fault"
  /\ mode' = "thread" /\ faulty' = NoProcess
  /\ LET p == PartitionOf[faulty]
         restarted == RestartProcess(sys, faulty)
     IN  /\ SelectStatus(restarted, p, TRUE) = "OK"
         /\ sys' = PartitionYield(restarted, p)
         /\ SwitchTo(AfterRecovery(p, sys'.current[p]))
  /\ current' = Null
  /\ Afresh(faulty)
  /\ UNCHANGED <<registered, slot, regs, hardwareVars, memoryVars>>

HaltFaulting ==
  /\ mode = "thread" /\ current \in Process
  /\ sys' = HaltPartition(sys, PartitionOf[current])
  /\ current' = Null
  /\ SwitchTo(AfterRecovery(PartitionOf[current], Idle))
  /\ UNCHANGED <<mode, registered, faulty, slot,
                 contextVars, hardwareVars, memoryVars>>

\* The tick recovers a process that has missed its deadline, which need not be
\* the one it has interrupted.
RestartMissed(i) ==
  /\ mode = "tick"
  /\ Afresh(i)
  /\ LET restarted == RestartProcess(sys, i)
     IN  IF i = current
         THEN /\ SelectStatus(restarted, PartitionOf[i], TRUE) = "OK"
              /\ sys' = PartitionYield(restarted, PartitionOf[i])
              /\ current' = Null
              /\ SwitchTo(sys'.current[PartitionOf[i]])
         ELSE sys' = restarted /\ UNCHANGED <<current, next, switching>>
  /\ UNCHANGED <<mode, registered, faulty, slot, regs, hardwareVars, memoryVars>>

HaltMissed(i) ==
  /\ mode = "tick"
  /\ sys' = HaltPartition(sys, PartitionOf[i])
  /\ IF PartitionIdOf(current) = PartitionOf[i]
     THEN current' = Null /\ SwitchTo(Idle)
     ELSE UNCHANGED <<current, next, switching>>
  /\ UNCHANGED <<mode, registered, faulty, slot,
                 contextVars, hardwareVars, memoryVars>>

-----------------------------------------------------------------------------
(* PendSV. *)

\* Faulty variant: nothing to do if the partition's region is there already.
PrepareUnlessMapped(x) ==
  IF x \in Process /\ mapped = PartitionOf[x] THEN UNCHANGED hardwareVars
  ELSE /\ unprivileged' = (x \in Process /\ PartitionOf[x] \notin Privileged)
       /\ mapped' = IF x \in Process THEN PartitionOf[x] ELSE mapped

\* prepare_next_pcb: the idle loop is privileged and keeps the region of the
\* last partition.
Prepare(x) ==
  /\ unprivileged' = (x \in Process /\ PartitionOf[x] \notin Privileged)
  /\ mapped' = IF x \in Process THEN PartitionOf[x] ELSE mapped

\* The context that restoring process x loads, its result delivered.
Restored(saved, x) ==
  IF x = Idle THEN [of |-> Idle, r0 |-> "entry"]
  ELSE IF pending[x] # "none" THEN [saved[x] EXCEPT !.r0 = pending[x]]
  ELSE saved[x]

PendSV ==
  /\ mode = "thread" /\ switching
  /\ LET saved == IF current \in Process
                  THEN [context EXCEPT ![current] = regs] ELSE context
     IN  /\ regs' = Restored(saved, next)
         /\ context' = [i \in Process |-> IF i = next THEN Popped ELSE saved[i]]
  /\ pending' = [i \in Process |-> IF i = next THEN "none" ELSE pending[i]]
  /\ Prepare(next)
  /\ current' = next /\ switching' = FALSE
  /\ UNCHANGED <<kernelVars, next, slot, answer, memoryVars>>

-----------------------------------------------------------------------------
Next ==
  \/ Register
  \/ \E p \in Partition : StartScheduler(p) \/ TickDispatch(p) \/ Store(p)
  \/ TickBegin \/ SvcBegin \/ Yield \/ Block \/ WaitIdle \/ Return
  \/ \E b \in Buffers : SamplingWrite(b) \/ SamplingRead(b)
  \/ FaultBegin \/ RestartFaulting \/ HaltFaulting \/ PendSV
  \/ \E i \in Process :
       \/ \E r \in Result : Wake(i, r)
       \/ \E q \in Priority : ChangePriority(i, q)
       \/ RestartMissed(i) \/ HaltMissed(i)

Spec == Init /\ [][Next]_vars

-----------------------------------------------------------------------------
(* Handler and switch may be thought of as one step: the process that is   *)
(* about to be switched to has the CPU already.  During a tick it is still *)
(* the one the tick has interrupted, as the dispatch decides once more.    *)

OnCpuNow ==
  LET x == IF switching /\ mode # "tick" THEN next ELSE current
  IN  IF x = Null THEN NoProcess ELSE x

Scheduling == INSTANCE PartitionScheduling WITH cpu <- OnCpuNow

\* Two-level scheduling as PartitionScheduling has it, although the CPU only
\* follows when PendSV runs (context_switch.S) and a recovery can come in
\* between (fault_dispatch.c, maxrtos_arch_context_invalid).
Implements == Scheduling!Spec

\* The process that executes has its own registers, with the result of the
\* call it was blocked in, or its entry arguments if it was restarted since: a
\* result is neither lost, nor delivered twice, nor to the wrong process
\* (context_switch.c, maxrtos_arch_apply_resume_result and init_stack).
AnswersArrive == Executes => regs = [of |-> current, r0 |-> answer[current]]

\* The process that executes is of the partition whose slot it is, also if the
\* switch at the slot boundary met a bad stack, and it is not halted: a
\* faulting partition takes no time of the next one.
OwnSlot == Executes => PartitionOf[current] = slot /\ ~sys.halted[slot]

\* A partition's memory is written by its own processes only, after every
\* sequence of switches to and from idle and privileged partitions, recoveries
\* and copies made by the kernel (mpu_hw.c, privilege.c, svc.c).
MemoryIsolated == \A p \in Partition : memory[p] = p

\* What fault_dispatch.c:94 says of a restart: no peer that is ready to run
\* finds the restarted process before it.
RestartedGoesBehindPeers ==
  [][RestartFaulting =>
       \A j \in Process :
         /\ j # faulty /\ PartitionOf[j] = PartitionOf[faulty]
         /\ Queued(sys', j) /\ sys'.priority[j] = sys'.priority[faulty]
         => /\ Queued(sys', faulty)
            /\ LET q == sys'.ready[PartitionOf[j]][sys'.priority[j]]
               IN  IndexIn(q, j) < IndexIn(q, faulty)]_vars
=============================================================================
