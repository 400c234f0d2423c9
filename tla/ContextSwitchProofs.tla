-------------------------- MODULE ContextSwitchProofs --------------------------
(***************************************************************************)
(* The switch by PendSV implements two-level scheduling, delivers the      *)
(* results of calls and keeps the partitions' memories apart, for any      *)
(* number of processes, partitions and priorities and any memory map.      *)
(***************************************************************************)
EXTENDS ContextSwitch, PartitionTableProofs

-----------------------------------------------------------------------------
(* The refinement mapping replaces the variable cpu only, so the operators *)
(* of the partition table are the same under it.                           *)

LEMMA SameOperators ==
  /\ Scheduling!Process = Process
  /\ Scheduling!Partition = Partition
  /\ Scheduling!Priority = Priority
  /\ Scheduling!NoProcess = NoProcess
  /\ \A k, i : Scheduling!AddStatus(k, i) = AddStatus(k, i)
  /\ \A k, i : Scheduling!AddProcess(k, i) = AddProcess(k, i)
  /\ \A k, i : Scheduling!ReadyProcess(k, i) = ReadyProcess(k, i)
  /\ \A k, i, q : Scheduling!SetProcessPriority(k, i, q) = SetProcessPriority(k, i, q)
  /\ \A k, p, y : Scheduling!SelectStatus(k, p, y) = SelectStatus(k, p, y)
  /\ \A k, p : Scheduling!PartitionDispatch(k, p) = PartitionDispatch(k, p)
  /\ \A k, p : Scheduling!PartitionYield(k, p) = PartitionYield(k, p)
  /\ \A k, p, i : Scheduling!BlockStatus(k, p, i) = BlockStatus(k, p, i)
  /\ \A k, p, i : Scheduling!BlockAndDispatch(k, p, i) = BlockAndDispatch(k, p, i)
  /\ \A k, p, i : Scheduling!BlockIdle(k, p, i) = BlockIdle(k, p, i)
  /\ \A k, i : Scheduling!RestartProcess(k, i) = RestartProcess(k, i)
  /\ \A k, p : Scheduling!HaltPartition(k, p) = HaltPartition(k, p)
  /\ \A k, i : Scheduling!NeedsPreemption(k, i) = NeedsPreemption(k, i)
  /\ Scheduling!CreatedTable = CreatedTable
<1>1. Scheduling!Process = Process
  BY DEF Scheduling!Process, Process
<1>2. Scheduling!Partition = Partition
  BY DEF Scheduling!Partition, Partition
<1>3. Scheduling!Priority = Priority
  BY DEF Scheduling!Priority, Priority
<1>4. Scheduling!NoProcess = NoProcess
  BY DEF Scheduling!NoProcess, NoProcess
<1>5. \A k, p : Scheduling!ReadyMask(k, p) = ReadyMask(k, p)
  BY <1>3 DEF Scheduling!ReadyMask, ReadyMask
<1>6. \A k, p : Scheduling!BestPriority(k, p) = BestPriority(k, p)
  BY <1>5 DEF Scheduling!BestPriority, BestPriority
<1>7. \A k, p : Scheduling!NextReady(k, p) = NextReady(k, p)
  BY <1>6 DEF Scheduling!NextReady, NextReady
<1>8. \A k, p, q : Scheduling!HasHigher(k, p, q) = HasHigher(k, p, q)
  BY <1>5 DEF Scheduling!HasHigher, HasHigher
<1>9. \A k, p, i : Scheduling!Enqueue(k, p, i) = Enqueue(k, p, i)
  BY DEF Scheduling!Enqueue, Enqueue
<1>10. \A k, p, i : Scheduling!EnqueueFront(k, p, i) = EnqueueFront(k, p, i)
  BY DEF Scheduling!EnqueueFront, EnqueueFront
<1>11. \A k, p, i : Scheduling!HasRoom(k, p, i) = HasRoom(k, p, i)
  BY DEF Scheduling!HasRoom, HasRoom
<1>12. \A k, p : Scheduling!PopBest(k, p) = PopBest(k, p)
  BY <1>6 DEF Scheduling!PopBest, PopBest
<1>13. \A s, i : Scheduling!IndexIn(s, i) = IndexIn(s, i)
  BY DEF Scheduling!IndexIn, IndexIn
<1>14. \A s, i : Scheduling!Without(s, i) = Without(s, i)
  BY <1>13 DEF Scheduling!Without, Without
<1>15. \A s, i : Scheduling!IsIn(s, i) = IsIn(s, i)
  BY DEF Scheduling!IsIn, IsIn
<1>16. \A k, i : Scheduling!Queued(k, i) = Queued(k, i)
  BY <1>15 DEF Scheduling!Queued, Queued
<1>17. \A k, i : Scheduling!RemoveProcess(k, i) = RemoveProcess(k, i)
  BY <1>14 DEF Scheduling!RemoveProcess, RemoveProcess
<1>18. \A k, i, x : Scheduling!SetState(k, i, x) = SetState(k, i, x)
  BY DEF Scheduling!SetState, SetState
<1>19. \A k, i, q : Scheduling!SetPriority(k, i, q) = SetPriority(k, i, q)
  BY DEF Scheduling!SetPriority, SetPriority
<1>20. \A k, i : Scheduling!AddStatus(k, i) = AddStatus(k, i)
  BY <1>11 DEF Scheduling!AddStatus, AddStatus
<1>21. \A k, i : Scheduling!AddProcess(k, i) = AddProcess(k, i)
  BY <1>20, <1>9 DEF Scheduling!AddProcess, AddProcess
<1>22. \A k, i : Scheduling!ReadyProcess(k, i) = ReadyProcess(k, i)
  BY <1>21, <1>18 DEF Scheduling!ReadyProcess, ReadyProcess
<1>23. \A k, i, q : Scheduling!SetProcessPriority(k, i, q) = SetProcessPriority(k, i, q)
  BY <1>16, <1>19, <1>17, <1>11, <1>9 DEF Scheduling!SetProcessPriority, SetProcessPriority
<1>24. \A q, r, y : Scheduling!TakesOver(q, r, y) = TakesOver(q, r, y)
  BY DEF Scheduling!TakesOver, TakesOver
<1>25. \A k, p, y : Scheduling!Switches(k, p, y) = Switches(k, p, y)
  BY <1>5, <1>4, <1>24, <1>6 DEF Scheduling!Switches, Switches
<1>26. \A k, p, i, y : Scheduling!Requeue(k, p, i, y) = Requeue(k, p, i, y)
  BY <1>18, <1>9, <1>10 DEF Scheduling!Requeue, Requeue
<1>27. \A k, p, y : Scheduling!SelectStatus(k, p, y) = SelectStatus(k, p, y)
  BY <1>4, <1>5, <1>7, <1>25, <1>11, <1>12 DEF Scheduling!SelectStatus, SelectStatus
<1>28. \A k, p, n : Scheduling!Run(k, p, n) = Run(k, p, n)
  BY DEF Scheduling!Run, Run
<1>29. \A k, p, y : Scheduling!PartitionSelect(k, p, y) = PartitionSelect(k, p, y)
  BY <1>27, <1>25, <1>7, <1>12, <1>4, <1>26, <1>28 DEF Scheduling!PartitionSelect, PartitionSelect
<1>30. \A k, p : Scheduling!PartitionDispatch(k, p) = PartitionDispatch(k, p)
  BY <1>29 DEF Scheduling!PartitionDispatch, PartitionDispatch
<1>31. \A k, p : Scheduling!PartitionYield(k, p) = PartitionYield(k, p)
  BY <1>29 DEF Scheduling!PartitionYield, PartitionYield
<1>32. \A k, p, i : Scheduling!BlockStatus(k, p, i) = BlockStatus(k, p, i)
  BY <1>5, <1>7 DEF Scheduling!BlockStatus, BlockStatus
<1>33. \A k, p, i : Scheduling!BlockAndDispatch(k, p, i) = BlockAndDispatch(k, p, i)
  BY <1>32, <1>28, <1>18, <1>12, <1>7 DEF Scheduling!BlockAndDispatch, BlockAndDispatch
<1>34. \A k, p : Scheduling!Leave(k, p) = Leave(k, p)
  BY <1>4 DEF Scheduling!Leave, Leave
<1>35. \A k, p, i : Scheduling!BlockIdle(k, p, i) = BlockIdle(k, p, i)
  BY <1>34, <1>18 DEF Scheduling!BlockIdle, BlockIdle
<1>36. \A k, i : Scheduling!RestartRunning(k, i) = RestartRunning(k, i)
  BY <1>34, <1>21, <1>18 DEF Scheduling!RestartRunning, RestartRunning
<1>37. \A k, i : Scheduling!RestartProcess(k, i) = RestartProcess(k, i)
  BY <1>36, <1>22 DEF Scheduling!RestartProcess, RestartProcess
<1>38. \A k, p : Scheduling!HaltPartition(k, p) = HaltPartition(k, p)
  BY DEF Scheduling!HaltPartition, HaltPartition
<1>39. \A k, i : Scheduling!NeedsPreemption(k, i) = NeedsPreemption(k, i)
  BY <1>8 DEF Scheduling!NeedsPreemption, NeedsPreemption
<1>40. Scheduling!CreatedTable = CreatedTable
  BY <1>1, <1>2, <1>3, <1>4 DEF Scheduling!CreatedTable, CreatedTable
<1> QED BY <1>1, <1>2, <1>3, <1>4, <1>20, <1>21, <1>22, <1>23, <1>27, <1>30,
           <1>31, <1>32, <1>33, <1>35, <1>37, <1>38, <1>39, <1>40

-----------------------------------------------------------------------------
(* The part of the inductive invariant about the kernel and the switch.    *)

\* Until the scheduler starts nothing has run or blocked, and a process is in
\* a queue only once it is registered.
StartUp ==
  /\ mode \in {"boot", "thread", "svc", "tick", "fault"}
  /\ registered \in 0 .. NumProcesses
  /\ mode = "boot" =>
       /\ current = Null /\ ~switching
       /\ \A i \in Process : sys.state[i] = "READY"
       /\ \A i \in Process : registered <= i => InNoQueue(sys, i)

\* No switch is under way when a service call or a tick begins; one that the
\* tick has asked for so far comes from a recovery that dropped the context of
\* the interrupted process.
Turns ==
  /\ current \in Process \cup {Idle, Null}
  /\ switching => next \in Process \cup {Idle}
  /\ mode = "svc" => ~switching /\ current \in Process
  /\ mode = "tick" /\ switching => current = Null
  /\ mode = "fault" => current \in Process /\ faulty = current

\* The process on its way to the CPU is the current one of its partition,
\* which is not halted and has the slot.
OnCpu ==
  /\ current \in Process => ~sys.halted[PartitionOf[current]]
  /\ OnCpuNow \in Process =>
       /\ sys.current[PartitionOf[OnCpuNow]] = OnCpuNow
       /\ ~sys.halted[PartitionOf[OnCpuNow]]
       /\ mode # "tick" => PartitionOf[OnCpuNow] = slot

KInv == Consistent(sys) /\ StartUp /\ Turns /\ OnCpu

LEMMA Ids ==
  /\ Idle = NoProcess /\ Idle # Null /\ Null # NoProcess
  /\ Idle \notin Process /\ Null \notin Process
  /\ NumPartitions \notin Partition
  /\ \A i \in Process : PartitionOf[i] \in Partition
BY ConfigAssumption DEF Idle, Null, NoProcess, Process, Partition

\* The process whose registers the CPU has, or that no process has them.
LEMMA OnCpuIs ==
  ASSUME Turns
  PROVE  /\ switching /\ mode # "tick" => OnCpuNow = next
         /\ ~(switching /\ mode # "tick") /\ current # Null => OnCpuNow = current
         /\ ~(switching /\ mode # "tick") /\ current = Null => OnCpuNow = NoProcess
         /\ OnCpuNow \in Process \cup {NoProcess}
BY Ids DEF Turns, OnCpuNow

\* A step that touches neither the kernel's state nor the switch.
LEMMA KernelUntouched ==
  ASSUME UNCHANGED <<kernelVars, switchVars>>
  PROVE  /\ KInv => KInv'
         /\ UNCHANGED Scheduling!vars
<1>1. /\ sys' = sys /\ mode' = mode /\ registered' = registered
      /\ faulty' = faulty /\ current' = current /\ next' = next
      /\ switching' = switching /\ slot' = slot
  BY DEF kernelVars, switchVars
<1>2. OnCpuNow' = OnCpuNow
  BY <1>1 DEF OnCpuNow
<1> QED BY <1>1, <1>2 DEF KInv, StartUp, Turns, OnCpu, Scheduling!vars

\* What table m is to k if partition p has dispatched or yielded with status x.
Selected(k, p, x, m) ==
  /\ Consistent(m) /\ m.halted = k.halted
  /\ \A r \in Partition : r # p => m.current[r] = k.current[r]
  /\ x = "OK" => /\ m.current[p] \in Process /\ PartitionOf[m.current[p]] = p
                 /\ ~m.halted[p]
  /\ x # "OK" => m = k

LEMMA Selects ==
  ASSUME NEW k, Consistent(k), NEW p \in Partition, NEW y \in {FALSE, TRUE}
  PROVE  Selected(k, p, SelectStatus(k, p, y), PartitionSelect(k, p, y))
<1>1. y \in BOOLEAN
  OBVIOUS
<1>2. /\ Consistent(PartitionSelect(k, p, y))
      /\ PartitionSelect(k, p, y).halted = k.halted
      /\ \A r \in Partition : r # p =>
           PartitionSelect(k, p, y).current[r] = k.current[r]
  BY <1>1, SelectKeeps
<1>3. SelectStatus(k, p, y) # "OK" => PartitionSelect(k, p, y) = k
  BY DEF PartitionSelect
<1>4. SelectStatus(k, p, y) = "OK" =>
        /\ PartitionSelect(k, p, y).current[p] \in Process
        /\ PartitionOf[PartitionSelect(k, p, y).current[p]] = p
        /\ ~PartitionSelect(k, p, y).halted[p]
  BY <1>1, SelectRuns
<1> QED BY <1>2, <1>3, <1>4 DEF Selected

-----------------------------------------------------------------------------
(* Every step keeps the invariant and is a step of PartitionScheduling or  *)
(* leaves its variables as they are.                                       *)

LEMMA Initially == Init => KInv /\ Scheduling!Init
<1> SUFFICES ASSUME Init PROVE KInv /\ Scheduling!Init
  OBVIOUS
<1>1. /\ sys = CreatedTable /\ mode = "boot" /\ registered = 0
      /\ faulty = NoProcess /\ current = Null /\ next = Null
      /\ switching = FALSE
  BY DEF Init
<1>2. /\ CreatedTable \in TableType
      /\ CreatedTable.state = [i \in Process |-> "READY"]
      /\ CreatedTable.ready = [p \in Partition |-> [q \in Priority |-> <<>>]]
      /\ CreatedTable.current = [p \in Partition |-> NoProcess]
  BY ConfigAssumption DEF CreatedTable, TableType, ProcessState
<1>3. \A i : ~IsIn(<<>>, i)
  BY DEF IsIn
<1>4. NoRepeats(<<>>)
  BY DEF NoRepeats
<1>5. QueuesSound(CreatedTable) /\ \A i \in Process : InNoQueue(CreatedTable, i)
  BY <1>2, <1>3, <1>4 DEF QueuesSound, InNoQueue
<1>6. RunningIsCurrent(CreatedTable)
  BY <1>2, Ids DEF RunningIsCurrent
<1>7. Consistent(sys) /\ StartUp /\ Turns
  BY <1>1, <1>2, <1>5, <1>6, ConfigAssumption DEF Consistent, StartUp, Turns
<1>8. OnCpuNow = NoProcess
  BY <1>1 DEF OnCpuNow
<1>9. OnCpu
  BY <1>1, <1>8, Ids DEF OnCpu
<1>10. Scheduling!Init
  BY <1>1, <1>8, SameOperators DEF Scheduling!Init
<1> QED BY <1>7, <1>9, <1>10 DEF KInv

LEMMA RegisterStep ==
  ASSUME KInv, Register
  PROVE  KInv' /\ Scheduling!Register
<1> DEFINE i == registered
           m == AddProcess(sys, i)
<1>1. /\ mode = "boot" /\ registered < NumProcesses /\ sys' = m
      /\ AddStatus(sys, i) = "OK"
      /\ registered' = registered + 1 /\ mode' = mode /\ faulty' = faulty
      /\ UNCHANGED <<current, next, switching, slot>>
  BY DEF Register, switchVars
<1>2. /\ sys \in TableType /\ QueuesSound(sys) /\ RunningIsCurrent(sys)
      /\ i \in Process /\ registered \in 0 .. NumProcesses
  BY <1>1, ConfigAssumption DEF KInv, StartUp, Consistent, Process
<1>3. sys.state[i] = "READY" /\ InNoQueue(sys, i) /\ current = Null /\ ~switching
      /\ \A j \in Process : sys.state[j] = "READY"
  BY <1>1, <1>2 DEF KInv, StartUp, Process
<1>4. Added(sys, m, i)
  BY <1>2, <1>3, AddProcessAdds
<1> HIDE DEF m
<1>5. /\ m \in TableType /\ QueuesSound(m) /\ SameButQueues(sys, m)
      /\ \A j \in Process : Queued(m, j) <=> Queued(sys, j) \/ j = i
  BY <1>4 DEF Added
<1>6. Consistent(sys')
  BY <1>1, <1>2, <1>5 DEF Consistent, RunningIsCurrent, SameButQueues
<1>7. ASSUME NEW j \in Process, registered + 1 <= j PROVE InNoQueue(m, j)
  <2>1. registered <= j /\ j # i
    BY <1>2, <1>7 DEF Process
  <2>2. InNoQueue(sys, j)
    BY <1>1, <2>1 DEF KInv, StartUp
  <2>3. ~Queued(sys, j)
    BY <1>2, <2>2, ConfigAssumption DEF InNoQueue, Queued, TableType
  <2> QED BY <1>5, <2>1, <2>3, NotQueuedInNoQueue
<1>8. \A j \in Process : m.state[j] = "READY"
  BY <1>3, <1>5 DEF SameButQueues
<1>9. StartUp'
  BY <1>1, <1>2, <1>3, <1>7, <1>8, ConfigAssumption DEF StartUp
<1>10. OnCpuNow = NoProcess /\ OnCpuNow' = NoProcess
  BY <1>1, <1>3 DEF OnCpuNow
<1>11. Turns' /\ OnCpu'
  BY <1>1, <1>3, <1>10, Ids DEF Turns, OnCpu
<1>12. Scheduling!Register
  BY <1>1, <1>10, SameOperators DEF Scheduling!Register, m
<1> QED BY <1>6, <1>9, <1>11, <1>12 DEF KInv

LEMMA StartSchedulerStep ==
  ASSUME KInv, NEW p \in Partition, StartScheduler(p)
  PROVE  KInv' /\ Scheduling!StartScheduler(p)
<1> DEFINE m == PartitionSelect(sys, p, FALSE)
<1>1. /\ mode = "boot" /\ registered = NumProcesses /\ mode' = "thread"
      /\ SelectStatus(sys, p, FALSE) = "OK" /\ sys' = m /\ slot' = p
      /\ next' = m.current[p] /\ switching' = TRUE /\ current' = current
      /\ registered' = registered /\ faulty' = faulty
  BY DEF StartScheduler, PartitionDispatch, SwitchTo
<1>2. Selected(sys, p, "OK", m)
  BY <1>1, Selects DEF KInv
<1> HIDE DEF m
<1>3. current = Null
  BY <1>1 DEF KInv, StartUp
<1>4. OnCpuNow = NoProcess /\ OnCpuNow' = m.current[p]
  BY <1>1, <1>2, <1>3, Ids DEF OnCpuNow, KInv, StartUp, Selected
<1>5. StartUp'
  BY <1>1 DEF KInv, StartUp
<1>6. Turns' /\ OnCpu'
  BY <1>1, <1>2, <1>3, <1>4, Ids DEF Turns, OnCpu, Selected
<1>7. Scheduling!StartScheduler(p)
  BY <1>1, <1>4, SameOperators DEF Scheduling!StartScheduler, PartitionDispatch, m
<1> QED BY <1>1, <1>2, <1>5, <1>6, <1>7 DEF KInv, Selected

LEMMA TickBeginStep ==
  ASSUME KInv, TickBegin
  PROVE  KInv' /\ Scheduling!TickBegin
<1>1. /\ mode = "thread" /\ ~switching /\ mode' = "tick"
      /\ UNCHANGED <<sys, registered, faulty, current, next, switching, slot>>
  BY DEF TickBegin, switchVars
<1>2. OnCpuNow' = OnCpuNow
  BY <1>1 DEF OnCpuNow
<1> QED BY <1>1, <1>2 DEF KInv, StartUp, Turns, OnCpu, Scheduling!TickBegin

LEMMA TickDispatchStep ==
  ASSUME KInv, NEW p \in Partition, TickDispatch(p)
  PROVE  KInv' /\ Scheduling!TickDispatch(p)
<1> DEFINE m == PartitionSelect(sys, p, FALSE)
           status == SelectStatus(sys, p, FALSE)
           x == IF status = "OK" THEN m.current[p] ELSE Idle
<1>1. status \in {"OK", "PARTITION_HALTED", "QUEUE_EMPTY"}
  BY SelectStatusOf DEF KInv
<1>2. /\ mode = "tick" /\ mode' = "thread" /\ sys' = m /\ slot' = p
      /\ registered' = registered /\ faulty' = faulty /\ current' = current
  BY DEF TickDispatch, PartitionDispatch
<1>3. Dispatched(p) = x
  BY <1>1 DEF Dispatched, PartitionDispatch
<1>4. /\ x # current => next' = x /\ switching' = TRUE
      /\ x = current => next' = next /\ switching' = switching
  BY <1>3 DEF TickDispatch, SwitchTo
<1>5. Selected(sys, p, status, m)
  BY Selects DEF KInv
<1>6. x \in Process \cup {Idle}
  BY <1>5 DEF Selected
<1>7. x = current => ~switching
  BY <1>2, <1>6, Ids DEF KInv, Turns
<1>8. OnCpuNow' = x
  BY <1>2, <1>4, <1>6, <1>7, Ids DEF OnCpuNow, KInv, Turns
<1>9. Scheduling!TickDispatch(p)
  <2>1. x = CASE status = "OK" -> m.current[p]
              [] status \in {"PARTITION_HALTED", "QUEUE_EMPTY"} -> NoProcess
              [] OTHER -> OnCpuNow
    BY <1>1, Ids
  <2> QED BY <1>2, <1>8, <2>1, SameOperators
          DEF Scheduling!TickDispatch, PartitionDispatch
<1> HIDE DEF m
<1>10. x \in Process => m.current[p] = x /\ PartitionOf[x] = p /\ ~m.halted[p]
  BY <1>5, Ids DEF Selected
<1> HIDE DEF x
<1>11. StartUp'
  BY <1>2 DEF KInv, StartUp
<1>12. Turns'
  BY <1>2, <1>4, <1>6, <1>7, Ids DEF KInv, Turns
<1>13. OnCpu'
  BY <1>2, <1>5, <1>8, <1>10 DEF KInv, OnCpu, Selected
<1> QED BY <1>2, <1>5, <1>9, <1>11, <1>12, <1>13 DEF KInv, Selected

\* The process that makes a call has the CPU and runs.
LEMMA Caller ==
  ASSUME KInv, mode = "svc"
  PROVE  /\ current \in Process /\ PartitionOf[current] \in Partition
         /\ ~switching /\ current # Null /\ OnCpuNow = current
         /\ sys.current[PartitionOf[current]] = current
         /\ sys.state[current] = "RUNNING"
         /\ ~sys.halted[PartitionOf[current]]
         /\ PartitionOf[current] = slot
<1>1. current \in Process /\ ~switching
  BY DEF KInv, Turns
<1>2. current # Null /\ OnCpuNow = current
  BY <1>1, Ids DEF OnCpuNow
<1>3. /\ sys.current[PartitionOf[current]] = current
      /\ ~sys.halted[PartitionOf[current]] /\ PartitionOf[current] = slot
  BY <1>1, <1>2 DEF KInv, OnCpu
<1>4. sys.state[current] = "RUNNING"
  BY <1>1, <1>3 DEF KInv, Consistent, RunningIsCurrent
<1> QED BY <1>1, <1>2, <1>3, <1>4, Ids

\* A call of the current process ends with table m and the CPU going to x.
LEMMA CallEnds ==
  ASSUME KInv, mode = "svc", mode' = "thread", registered' = registered,
         current' = current, slot' = slot,
         Consistent(sys'), sys'.halted = sys.halted,
         NEW x \in Process \cup {Idle},
         x \in Process => sys'.current[slot] = x /\ PartitionOf[x] = slot,
         \/ next' = x /\ switching' = TRUE
         \/ x = current /\ UNCHANGED <<next, switching>>
  PROVE  KInv' /\ OnCpuNow' = x
<1>1. /\ current \in Process /\ ~switching /\ current # Null
      /\ ~sys.halted[PartitionOf[current]] /\ PartitionOf[current] = slot
  BY Caller
<1>2. OnCpuNow' = x
  BY <1>1, Ids DEF OnCpuNow
<1>3. StartUp'
  BY DEF KInv, StartUp
<1>4. Turns'
  BY <1>1 DEF Turns
<1>5. OnCpu'
  BY <1>1, <1>2 DEF OnCpu
<1> QED BY <1>2, <1>3, <1>4, <1>5 DEF KInv

LEMMA SvcBeginStep ==
  ASSUME KInv, SvcBegin
  PROVE  KInv' /\ Scheduling!SvcBegin
<1>1. /\ mode = "thread" /\ ~switching /\ current \in Process /\ mode' = "svc"
      /\ UNCHANGED <<sys, registered, faulty, current, next, switching, slot>>
  BY DEF SvcBegin, Executes, switchVars
<1>2. OnCpuNow' = OnCpuNow /\ OnCpuNow = current
  BY <1>1, Ids DEF OnCpuNow
<1>3. KInv'
  BY <1>1, <1>2 DEF KInv, StartUp, Turns, OnCpu
<1>4. Scheduling!SvcBegin
  BY <1>1, <1>2, Ids, SameOperators DEF Scheduling!SvcBegin
<1> QED BY <1>3, <1>4

LEMMA YieldStep ==
  ASSUME KInv, Yield
  PROVE  KInv' /\ Scheduling!Yield
<1> DEFINE p == PartitionOf[current]
           m == PartitionSelect(sys, p, TRUE)
           status == SelectStatus(sys, p, TRUE)
           x == IF status = "OK" THEN m.current[p] ELSE current
<1>1. /\ mode = "svc" /\ mode' = "thread" /\ sys' = m
      /\ registered' = registered /\ faulty' = faulty
      /\ current' = current /\ slot' = slot
  BY DEF Yield, PartitionYield
<1>2. \/ next' = x /\ switching' = TRUE
      \/ x = current /\ UNCHANGED <<next, switching>>
  BY DEF Yield, PartitionYield, SwitchTo
<1>3. /\ current \in Process /\ p \in Partition /\ p = slot
      /\ sys.current[p] = current /\ OnCpuNow = current
  BY <1>1, Caller
<1>4. Selected(sys, p, status, m)
  BY <1>3, Selects DEF KInv
<1>5. x \in Process /\ m.current[slot] = x /\ PartitionOf[x] = slot
  BY <1>3, <1>4 DEF Selected
<1>6. KInv' /\ OnCpuNow' = x
  <2> HIDE DEF m, x
  <2> QED BY <1>1, <1>2, <1>4, <1>5, CallEnds DEF Selected
<1>7. Scheduling!Yield
  BY <1>1, <1>3, <1>6, SameOperators DEF Scheduling!Yield, PartitionYield
<1> QED BY <1>6, <1>7

LEMMA BlockStep ==
  ASSUME KInv, Block
  PROVE  KInv' /\ Scheduling!Block
<1> DEFINE p == PartitionOf[current]
           m == BlockAndDispatch(sys, p, current)
<1>1. /\ mode = "svc" /\ mode' = "thread" /\ sys' = m
      /\ BlockStatus(sys, p, current) = "OK"
      /\ registered' = registered /\ faulty' = faulty
      /\ current' = current /\ slot' = slot
      /\ next' = m.current[p] /\ switching' = TRUE
  BY DEF Block, SwitchTo
<1>2. /\ current \in Process /\ p \in Partition /\ p = slot
      /\ sys.current[p] = current /\ OnCpuNow = current
  BY <1>1, Caller
<1>3. /\ Consistent(m) /\ m.halted = sys.halted /\ m.current[p] \in Process
  BY <1>1, <1>2, BlockKeeps DEF KInv
<1>4. PartitionOf[m.current[p]] = p
  BY <1>2, <1>3, Ids DEF Consistent, RunningIsCurrent
<1>5. KInv' /\ OnCpuNow' = m.current[p]
  <2> HIDE DEF m
  <2> QED BY <1>1, <1>2, <1>3, <1>4, CallEnds
<1>6. Scheduling!Block
  BY <1>1, <1>2, <1>5, SameOperators DEF Scheduling!Block
<1> QED BY <1>5, <1>6

LEMMA WaitIdleStep ==
  ASSUME KInv, WaitIdle
  PROVE  KInv' /\ Scheduling!WaitIdle
<1> DEFINE p == PartitionOf[current]
           m == BlockIdle(sys, p, current)
<1>1. /\ mode = "svc" /\ mode' = "thread" /\ sys' = m
      /\ BlockStatus(sys, p, current) = "QUEUE_EMPTY"
      /\ registered' = registered /\ faulty' = faulty
      /\ current' = current /\ slot' = slot
      /\ next' = Idle /\ switching' = TRUE
  BY DEF WaitIdle, SwitchTo
<1>2. current \in Process /\ sys.state[current] = "RUNNING" /\ OnCpuNow = current
  BY <1>1, Caller
<1>3. Consistent(m) /\ m.halted = sys.halted
  BY <1>2, BlockIdleKeeps DEF KInv
<1>4. KInv' /\ OnCpuNow' = Idle
  <2> HIDE DEF m
  <2> QED BY <1>1, <1>3, Ids, CallEnds
<1>5. Scheduling!WaitIdle
  BY <1>1, <1>2, <1>4, Ids, SameOperators DEF Scheduling!WaitIdle
<1> QED BY <1>4, <1>5

LEMMA ReturnStep ==
  ASSUME KInv, Return
  PROVE  KInv' /\ Scheduling!PreemptCheck
<1> DEFINE p == PartitionOf[current]
           m == PartitionSelect(sys, p, FALSE)
           status == SelectStatus(sys, p, FALSE)
           x == IF status = "OK" THEN m.current[p] ELSE current
<1>1. /\ mode = "svc" /\ mode' = "thread"
      /\ registered' = registered /\ faulty' = faulty
      /\ current' = current /\ slot' = slot
  BY DEF Return
<1>2. /\ current \in Process /\ p \in Partition /\ p = slot
      /\ sys.current[p] = current /\ OnCpuNow = current
  BY <1>1, Caller
<1>3. CASE NeedsPreemption(sys, current)
  <2>1. /\ sys' = m
        /\ \/ next' = x /\ switching' = TRUE
           \/ x = current /\ UNCHANGED <<next, switching>>
    BY <1>3 DEF Return, PartitionDispatch, SwitchTo
  <2>2. Selected(sys, p, status, m)
    BY <1>2, Selects DEF KInv
  <2>3. x \in Process /\ m.current[slot] = x /\ PartitionOf[x] = slot
    BY <1>2, <2>2 DEF Selected
  <2>4. KInv' /\ OnCpuNow' = x
    <3> HIDE DEF m, x
    <3> QED BY <1>1, <2>1, <2>2, <2>3, CallEnds DEF Selected
  <2>5. Scheduling!PreemptCheck
    BY <1>1, <1>2, <1>3, <2>1, <2>4, SameOperators
       DEF Scheduling!PreemptCheck, PartitionDispatch
  <2> QED BY <2>4, <2>5
<1>4. CASE ~NeedsPreemption(sys, current)
  <2>1. UNCHANGED <<sys, next, switching>>
    BY <1>4 DEF Return
  <2>2. KInv' /\ OnCpuNow' = current
    BY <1>1, <1>2, <2>1, CallEnds DEF KInv
  <2>3. Scheduling!PreemptCheck
    BY <1>1, <1>2, <1>4, <2>1, <2>2, SameOperators DEF Scheduling!PreemptCheck
  <2> QED BY <2>2, <2>3
<1> QED BY <1>3, <1>4

\* What a handler does to a process leaves what runs and the switch alone.
LEMMA RunningUntouched ==
  ASSUME KInv, mode # "boot", Consistent(sys'),
         sys'.current = sys.current, sys'.halted = sys.halted,
         UNCHANGED <<mode, registered, faulty, switchVars>>
  PROVE  KInv' /\ OnCpuNow' = OnCpuNow
<1>1. UNCHANGED <<current, next, switching, slot>>
  BY DEF switchVars
<1>2. OnCpuNow' = OnCpuNow
  BY <1>1 DEF OnCpuNow
<1> QED BY <1>1, <1>2 DEF KInv, StartUp, Turns, OnCpu

\* The condition on a process that a handler works on is the same one.
LEMMA SameReaches ==
  ASSUME NEW i \in Process
  PROVE  Reaches(i) <=> Scheduling!Reaches(i)
BY DEF Reaches, Scheduling!Reaches

LEMMA WakeStep ==
  ASSUME KInv, NEW i \in Process, NEW r \in Result, Wake(i, r)
  PROVE  KInv' /\ Scheduling!Wake(i)
<1> DEFINE m == ReadyProcess(sys, i)
<1>1. /\ Reaches(i) /\ sys.state[i] = "BLOCKED" /\ sys' = m
      /\ UNCHANGED <<mode, registered, faulty, switchVars>>
  BY DEF Wake
<1>2. Consistent(m) /\ m.current = sys.current /\ m.halted = sys.halted
  BY <1>1, ReadyProcessKeeps DEF KInv
<1>3. KInv' /\ OnCpuNow' = OnCpuNow
  <2> HIDE DEF m
  <2> QED BY <1>1, <1>2, RunningUntouched DEF Reaches
<1>4. Scheduling!Wake(i)
  BY <1>1, <1>3, SameReaches, SameOperators DEF Scheduling!Wake
<1> QED BY <1>3, <1>4

LEMMA ChangePriorityStep ==
  ASSUME KInv, NEW i \in Process, NEW q \in Priority, ChangePriority(i, q)
  PROVE  KInv' /\ Scheduling!ChangePriority(i, q)
<1> DEFINE m == SetProcessPriority(sys, i, q)
<1>1. /\ Reaches(i) /\ sys' = m
      /\ UNCHANGED <<mode, registered, faulty, switchVars>>
  BY DEF ChangePriority
<1>2. Consistent(m) /\ m.current = sys.current /\ m.halted = sys.halted
  <2>1. Consistent(sys)
    BY DEF KInv
  <2>2. LET z == SetProcessPriority(sys, i, q) IN
        /\ Consistent(z) /\ z.current = sys.current /\ z.halted = sys.halted
        /\ z.state = sys.state
        /\ z.priority = [sys.priority EXCEPT ![i] = q]
        /\ \A j \in Process : Queued(z, j) <=> Queued(sys, j)
    BY <2>1, SetPriorityKeeps
  <2> QED BY <2>2
<1>3. KInv' /\ OnCpuNow' = OnCpuNow
  <2> HIDE DEF m
  <2> QED BY <1>1, <1>2, RunningUntouched DEF Reaches
<1>4. Scheduling!ChangePriority(i, q)
  BY <1>1, <1>3, SameReaches, SameOperators DEF Scheduling!ChangePriority
<1> QED BY <1>3, <1>4

LEMMA FaultBeginStep ==
  ASSUME KInv, FaultBegin
  PROVE  KInv' /\ \E i \in Process : Scheduling!FaultBegin(i)
<1>1. /\ mode = "thread" /\ current \in Process /\ mode' = "fault"
      /\ faulty' = current /\ ~sys.halted[PartitionOf[current]]
      /\ UNCHANGED <<sys, registered, current, next, switching, slot>>
  BY DEF FaultBegin, switchVars, KInv, OnCpu
<1>2. OnCpuNow' = OnCpuNow
  BY <1>1 DEF OnCpuNow
<1>3. KInv'
  BY <1>1, <1>2 DEF KInv, StartUp, Turns, OnCpu
<1>4. Scheduling!FaultBegin(current)
  BY <1>1, <1>2 DEF Scheduling!FaultBegin
<1> QED BY <1>1, <1>3, <1>4

\* A restart and the yield of the partition.
LEMMA RestartAndYield ==
  ASSUME NEW k, Consistent(k), NEW i \in Process,
         SelectStatus(RestartProcess(k, i), PartitionOf[i], TRUE) = "OK"
  PROVE  LET p == PartitionOf[i]
             m == PartitionYield(RestartProcess(k, i), p)
         IN  /\ Consistent(m) /\ m.halted = k.halted
             /\ m.current[p] \in Process /\ PartitionOf[m.current[p]] = p
             /\ ~m.halted[p]
             /\ \A r \in Partition : r # p => m.current[r] = k.current[r]
<1> DEFINE p == PartitionOf[i]
           l == RestartProcess(k, i)
           m == PartitionSelect(l, p, TRUE)
<1>1. p \in Partition /\ SelectStatus(l, p, TRUE) = "OK"
  BY Ids
<1>2. /\ Consistent(l) /\ l.halted = k.halted
      /\ \A r \in Partition : l.current[r] = k.current[r] \/ k.current[r] = i
  BY RestartProcessKeeps
<1>3. PartitionYield(RestartProcess(k, i), p) = m
  BY DEF PartitionYield
<1>4. \A r \in Partition : r # p => k.current[r] # i
  BY Ids DEF Consistent, RunningIsCurrent
<1> HIDE DEF l
<1>5. Selected(l, p, "OK", m)
  BY <1>1, <1>2, Selects
<1> HIDE DEF m
<1> QED BY <1>2, <1>3, <1>4, <1>5 DEF Selected

LEMMA RestartFaultingStep ==
  ASSUME KInv, RestartFaulting
  PROVE  KInv' /\ Scheduling!RestartFaulting
<1> DEFINE p == PartitionOf[faulty]
           m == PartitionYield(RestartProcess(sys, faulty), p)
           x == AfterRecovery(p, m.current[p])
<1>1. /\ mode = "fault" /\ mode' = "thread" /\ faulty' = NoProcess /\ sys' = m
      /\ SelectStatus(RestartProcess(sys, faulty), p, TRUE) = "OK"
      /\ next' = x /\ switching' = TRUE /\ current' = Null
      /\ registered' = registered /\ slot' = slot
  BY DEF RestartFaulting, SwitchTo
<1>2. current \in Process /\ faulty = current /\ p \in Partition
  BY <1>1, Ids DEF KInv, Turns
<1>3. /\ Consistent(m) /\ m.halted = sys.halted
      /\ m.current[p] \in Process /\ PartitionOf[m.current[p]] = p
      /\ ~m.halted[p]
      /\ \A r \in Partition : r # p => m.current[r] = sys.current[r]
  BY <1>1, <1>2, RestartAndYield DEF KInv
<1> DEFINE goesOn == switching /\ PartitionIdOf(next) # p
<1>4. x = IF goesOn THEN next ELSE m.current[p]
  BY DEF AfterRecovery
<1>5. goesOn => next \in Process \cup {Idle} /\ OnCpuNow = next
  BY <1>1, Ids DEF KInv, Turns, OnCpuNow
<1>6. ~goesOn => OnCpuNow \in Process /\ PartitionOf[OnCpuNow] = p
  BY <1>1, <1>2, Ids DEF KInv, Turns, OnCpuNow, PartitionIdOf
<1>7. goesOn /\ next \in Process => PartitionOf[next] # p
  BY DEF PartitionIdOf
<1>8. x \in Process \cup {Idle}
  BY <1>3, <1>4, <1>5
<1>9. OnCpuNow' = x
  BY <1>1, <1>8, Ids DEF OnCpuNow
<1>10. x = IF OnCpuNow # NoProcess /\ PartitionOf[OnCpuNow] = p
           THEN m.current[p] ELSE OnCpuNow
  BY <1>4, <1>5, <1>6, <1>7, Ids
<1>11. Scheduling!RestartFaulting
  BY <1>1, <1>9, <1>10, SameOperators DEF Scheduling!RestartFaulting
<1> HIDE DEF m, x
<1>12. StartUp'
  BY <1>1 DEF KInv, StartUp
<1>13. Turns'
  BY <1>1, <1>8 DEF Turns
<1>14. OnCpu'
  <2>1. CASE goesOn
    <3>1. x = next /\ OnCpuNow = next
      BY <1>4, <1>5, <2>1
    <3>2. next \in Process =>
            /\ PartitionOf[next] \in Partition /\ PartitionOf[next] # p
            /\ m.current[PartitionOf[next]] = next
            /\ ~m.halted[PartitionOf[next]] /\ PartitionOf[next] = slot
      BY <1>1, <1>3, <1>7, <2>1, <3>1, Ids DEF KInv, OnCpu
    <3> QED BY <1>1, <1>9, <3>1, <3>2, Ids DEF OnCpu
  <2>2. CASE ~goesOn
    <3>1. p = slot
      BY <1>1, <1>6, <2>2 DEF KInv, OnCpu
    <3> QED BY <1>1, <1>3, <1>4, <1>9, <2>2, <3>1, Ids DEF OnCpu
  <2> QED BY <2>1, <2>2
<1> QED BY <1>1, <1>3, <1>11, <1>12, <1>13, <1>14 DEF KInv

\* Halting a partition changes nothing else in the table.
LEMMA HaltKeeps ==
  ASSUME NEW k, Consistent(k), NEW p \in Partition
  PROVE  LET m == HaltPartition(k, p) IN
         /\ Consistent(m) /\ m.current = k.current
         /\ \A r \in Partition : r # p => m.halted[r] = k.halted[r]
<1> DEFINE m == HaltPartition(k, p)
<1>1. k \in TableType /\ QueuesSound(k) /\ RunningIsCurrent(k)
  BY DEF Consistent
<1>2. /\ m \in TableType /\ m.state = k.state /\ m.priority = k.priority
      /\ m.ready = k.ready /\ m.current = k.current
      /\ m.halted = [k.halted EXCEPT ![p] = TRUE]
  BY <1>1 DEF HaltPartition, TableType
<1> HIDE DEF m
<1>3. Consistent(m)
  BY <1>1, <1>2 DEF Consistent, RunningIsCurrent, QueuesSound
<1>4. k.halted \in [Partition -> BOOLEAN]
  BY <1>1 DEF TableType
<1> QED BY <1>2, <1>3, <1>4 DEF m

LEMMA HaltFaultingStep ==
  ASSUME KInv, HaltFaulting
  PROVE  KInv' /\ \E i \in Process : Scheduling!HaltOn(i)
<1> DEFINE p == PartitionOf[current]
           m == HaltPartition(sys, p)
           x == AfterRecovery(p, Idle)
<1>1. /\ mode = "thread" /\ mode' = mode /\ current \in Process /\ sys' = m
      /\ next' = x /\ switching' = TRUE /\ current' = Null
      /\ registered' = registered /\ faulty' = faulty /\ slot' = slot
  BY DEF HaltFaulting, SwitchTo
<1>2. p \in Partition
  BY <1>1, Ids
<1>3. /\ Consistent(m) /\ m.current = sys.current
      /\ \A r \in Partition : r # p => m.halted[r] = sys.halted[r]
  BY <1>2, HaltKeeps DEF KInv
<1> DEFINE goesOn == switching /\ PartitionIdOf(next) # p
<1>4. x = IF goesOn THEN next ELSE Idle
  BY DEF AfterRecovery
<1>5. goesOn => next \in Process \cup {Idle} /\ OnCpuNow = next
  BY <1>1, Ids DEF KInv, Turns, OnCpuNow
<1>6. ~goesOn => OnCpuNow \in Process /\ PartitionOf[OnCpuNow] = p
  BY <1>1, <1>2, Ids DEF KInv, Turns, OnCpuNow, PartitionIdOf
<1>7. goesOn /\ next \in Process => PartitionOf[next] # p
  BY DEF PartitionIdOf
<1>8. x \in Process \cup {Idle}
  BY <1>4, <1>5
<1>9. OnCpuNow' = x
  BY <1>1, <1>8, Ids DEF OnCpuNow
<1>10. x = IF OnCpuNow # NoProcess /\ PartitionOf[OnCpuNow] = p
           THEN NoProcess ELSE OnCpuNow
  BY <1>4, <1>5, <1>6, <1>7, Ids
<1>11. Scheduling!HaltOn(current)
  BY <1>1, <1>9, <1>10, SameOperators DEF Scheduling!HaltOn
<1> HIDE DEF m, x
<1>12. StartUp'
  BY <1>1 DEF KInv, StartUp
<1>13. Turns'
  BY <1>1, <1>8 DEF Turns
<1>14. OnCpu'
  <2>1. ASSUME x \in Process
        PROVE  /\ m.current[PartitionOf[x]] = x /\ ~m.halted[PartitionOf[x]]
               /\ PartitionOf[x] = slot
    <3>1. x = OnCpuNow /\ PartitionOf[x] # p /\ PartitionOf[x] \in Partition
      BY <1>4, <1>5, <1>7, <2>1, Ids
    <3> QED BY <1>1, <1>3, <2>1, <3>1 DEF KInv, OnCpu
  <2> QED BY <1>1, <1>9, <2>1, Ids DEF OnCpu
<1> QED BY <1>1, <1>3, <1>11, <1>12, <1>13, <1>14 DEF KInv

\* During a tick the process on the CPU is the one it has interrupted.
LEMMA InTick ==
  ASSUME KInv, mode = "tick"
  PROVE  /\ OnCpuNow = IF current = Null THEN NoProcess ELSE current
         /\ current \in Process => OnCpuNow = current
BY Ids DEF OnCpuNow

LEMMA RestartMissedStep ==
  ASSUME KInv, NEW i \in Process, RestartMissed(i)
  PROVE  KInv' /\ Scheduling!RestartMissed(i)
<1> DEFINE p == PartitionOf[i]
           l == RestartProcess(sys, i)
           m == PartitionYield(l, p)
<1>1. /\ mode = "tick" /\ mode' = "tick" /\ registered' = registered
      /\ faulty' = faulty /\ slot' = slot /\ p \in Partition
  BY Ids DEF RestartMissed
<1>2. i = current <=> i = OnCpuNow
  BY <1>1, InTick, Ids
<1>3. CASE i = current
  <2>1. /\ sys' = m /\ current' = Null /\ next' = m.current[p] /\ switching' = TRUE
        /\ SelectStatus(RestartProcess(sys, i), p, TRUE) = "OK"
    BY <1>3 DEF RestartMissed, SwitchTo
  <2>2. Consistent(m) /\ m.halted = sys.halted /\ m.current[p] \in Process
    BY <2>1, RestartAndYield DEF KInv
  <2>3. OnCpuNow' = NoProcess
    BY <1>1, <2>1 DEF OnCpuNow
  <2>4. Scheduling!RestartMissed(i)
    BY <1>1, <1>2, <1>3, <2>1, <2>3, SameOperators DEF Scheduling!RestartMissed
  <2> HIDE DEF m
  <2>5. StartUp' /\ Turns' /\ OnCpu'
    BY <1>1, <2>1, <2>2, <2>3, Ids DEF KInv, StartUp, Turns, OnCpu
  <2> QED BY <2>1, <2>2, <2>4, <2>5 DEF KInv
<1>4. CASE i # current
  <2>1. sys' = l /\ UNCHANGED <<current, next, switching>>
    BY <1>4 DEF RestartMissed
  <2>2. /\ Consistent(l) /\ l.halted = sys.halted
        /\ \A r \in Partition : l.current[r] = sys.current[r] \/ sys.current[r] = i
    BY RestartProcessKeeps DEF KInv
  <2>3. OnCpuNow' = OnCpuNow
    BY <1>1, <2>1 DEF OnCpuNow
  <2>4. Scheduling!RestartMissed(i)
    BY <1>1, <1>2, <1>4, <2>1, <2>3, SameOperators DEF Scheduling!RestartMissed
  <2> HIDE DEF l
  <2>5. OnCpuNow \in Process =>
          /\ l.current[PartitionOf[OnCpuNow]] = OnCpuNow
          /\ ~l.halted[PartitionOf[OnCpuNow]]
    BY <1>2, <1>4, <2>2, Ids DEF KInv, OnCpu
  <2>6. StartUp' /\ Turns' /\ OnCpu'
    BY <1>1, <2>1, <2>2, <2>3, <2>5 DEF KInv, StartUp, Turns, OnCpu
  <2> QED BY <2>1, <2>2, <2>4, <2>6 DEF KInv
<1> QED BY <1>3, <1>4

LEMMA HaltMissedStep ==
  ASSUME KInv, NEW i \in Process, HaltMissed(i)
  PROVE  KInv' /\ Scheduling!HaltOn(i)
<1> DEFINE p == PartitionOf[i]
           m == HaltPartition(sys, p)
<1>1. /\ mode = "tick" /\ mode' = "tick" /\ registered' = registered /\ sys' = m
      /\ faulty' = faulty /\ slot' = slot /\ p \in Partition
  BY Ids DEF HaltMissed
<1>2. /\ Consistent(m) /\ m.current = sys.current
      /\ \A r \in Partition : r # p => m.halted[r] = sys.halted[r]
  BY <1>1, HaltKeeps DEF KInv
<1>3. CASE PartitionIdOf(current) = p
  <2>1. current' = Null /\ next' = Idle /\ switching' = TRUE
    BY <1>3 DEF HaltMissed, SwitchTo
  <2>2. current \in Process /\ PartitionOf[current] = p
    BY <1>1, <1>3, Ids DEF PartitionIdOf
  <2>3. OnCpuNow = current /\ OnCpuNow' = NoProcess
    BY <1>1, <2>1, <2>2, InTick DEF OnCpuNow
  <2>4. Scheduling!HaltOn(i)
    BY <1>1, <2>2, <2>3, Ids, SameOperators DEF Scheduling!HaltOn
  <2> HIDE DEF m
  <2>5. StartUp' /\ Turns' /\ OnCpu'
    BY <1>1, <2>1, <2>3, Ids DEF KInv, StartUp, Turns, OnCpu
  <2> QED BY <1>1, <1>2, <2>4, <2>5 DEF KInv
<1>4. CASE PartitionIdOf(current) # p
  <2>1. UNCHANGED <<current, next, switching>>
    BY <1>4 DEF HaltMissed
  <2>2. OnCpuNow' = OnCpuNow
    BY <1>1, <2>1 DEF OnCpuNow
  <2>3. current \in Process => PartitionOf[current] # p
    BY <1>4 DEF PartitionIdOf
  <2>4. /\ OnCpuNow \in Process <=> current \in Process
        /\ OnCpuNow # NoProcess => OnCpuNow = current /\ current \in Process
    BY <1>1, InTick, Ids DEF KInv, Turns
  <2>5. Scheduling!HaltOn(i)
    BY <1>1, <2>2, <2>3, <2>4, SameOperators DEF Scheduling!HaltOn
  <2> HIDE DEF m
  <2>6. StartUp' /\ Turns'
    BY <1>1, <2>1 DEF KInv, StartUp, Turns
  <2>7. OnCpu'
    BY <1>1, <1>2, <2>1, <2>2, <2>3, <2>4, Ids DEF KInv, OnCpu
  <2> QED BY <1>1, <1>2, <2>5, <2>6, <2>7 DEF KInv
<1> QED BY <1>3, <1>4

\* The switch itself is no step of the scheduler: the process that it resumes
\* has had the CPU there since the decision.
LEMMA PendSVStep ==
  ASSUME KInv, PendSV
  PROVE  KInv' /\ UNCHANGED Scheduling!vars
<1>1. /\ mode = "thread" /\ switching /\ current' = next /\ switching' = FALSE
      /\ UNCHANGED <<sys, mode, registered, faulty, next, slot>>
  BY DEF PendSV, kernelVars
<1>2. next \in Process \cup {Idle} /\ OnCpuNow = next /\ OnCpuNow' = next
  BY <1>1, Ids DEF KInv, Turns, OnCpuNow
<1>3. StartUp' /\ Turns' /\ OnCpu'
  BY <1>1, <1>2 DEF KInv, StartUp, Turns, OnCpu
<1> QED BY <1>1, <1>2, <1>3 DEF KInv, Scheduling!vars

LEMMA Simulates ==
  ASSUME KInv, [Next]_vars
  PROVE  KInv' /\ [Scheduling!Next]_(Scheduling!vars)
<1> USE SameOperators DEF Scheduling!Next
<1>1. CASE Register
  BY <1>1, RegisterStep
<1>2. ASSUME NEW p \in Partition, StartScheduler(p)
      PROVE  KInv' /\ [Scheduling!Next]_(Scheduling!vars)
  BY <1>2, StartSchedulerStep
<1>3. ASSUME NEW p \in Partition, TickDispatch(p)
      PROVE  KInv' /\ [Scheduling!Next]_(Scheduling!vars)
  BY <1>3, TickDispatchStep
<1>4. CASE TickBegin
  BY <1>4, TickBeginStep
<1>5. CASE SvcBegin
  BY <1>5, SvcBeginStep
<1>6. CASE Yield
  BY <1>6, YieldStep
<1>7. CASE Block
  BY <1>7, BlockStep
<1>8. CASE WaitIdle
  BY <1>8, WaitIdleStep
<1>9. CASE Return
  BY <1>9, ReturnStep
<1>10. ASSUME NEW i \in Process, NEW r \in Result, Wake(i, r)
       PROVE  KInv' /\ [Scheduling!Next]_(Scheduling!vars)
  BY <1>10, WakeStep
<1>11. ASSUME NEW i \in Process, NEW q \in Priority, ChangePriority(i, q)
       PROVE  KInv' /\ [Scheduling!Next]_(Scheduling!vars)
  BY <1>11, ChangePriorityStep
<1>12. CASE FaultBegin
  BY <1>12, FaultBeginStep
<1>13. CASE RestartFaulting
  BY <1>13, RestartFaultingStep
<1>14. CASE HaltFaulting
  BY <1>14, HaltFaultingStep
<1>15. ASSUME NEW i \in Process, RestartMissed(i)
       PROVE  KInv' /\ [Scheduling!Next]_(Scheduling!vars)
  BY <1>15, RestartMissedStep
<1>16. ASSUME NEW i \in Process, HaltMissed(i)
       PROVE  KInv' /\ [Scheduling!Next]_(Scheduling!vars)
  BY <1>16, HaltMissedStep
<1>17. CASE PendSV
  BY <1>17, PendSVStep
<1>18. ASSUME UNCHANGED <<kernelVars, switchVars>>
       PROVE  KInv' /\ [Scheduling!Next]_(Scheduling!vars)
  BY <1>18, KernelUntouched
<1>19. CASE \E p \in Partition : Store(p)
  BY <1>18, <1>19 DEF Store
<1>20. CASE \E b \in Buffers : SamplingWrite(b) \/ SamplingRead(b)
  BY <1>18, <1>20 DEF SamplingWrite, SamplingRead
<1>21. CASE UNCHANGED vars
  BY <1>18, <1>21 DEF vars
<1> QED BY <1>1, <1>2, <1>3, <1>4, <1>5, <1>6, <1>7, <1>8, <1>9, <1>10, <1>11,
           <1>12, <1>13, <1>14, <1>15, <1>16, <1>17, <1>19, <1>20, <1>21
        DEF Next

LEMMA KInvariance == Spec => []KInv
<1>1. Init => KInv
  BY Initially
<1>2. KInv /\ [Next]_vars => KInv'
  BY Simulates
<1> QED BY <1>1, <1>2, PTL DEF Spec

\* The kernel that only names the next process, and the PendSV that gets there
\* later and may meet a bad stack on the way, are together the two-level
\* scheduler: what was proved of that holds here.
THEOREM Refines == Spec => Implements
<1>1. Init => Scheduling!Init
  BY Initially
<1>2. KInv /\ [Next]_vars => [Scheduling!Next]_(Scheduling!vars)
  BY Simulates
<1> QED BY <1>1, <1>2, KInvariance, PTL DEF Spec, Implements, Scheduling!Spec

\* A switch at the end of a slot, also one that meets a bad stack, ends with a
\* process of the partition whose slot begins, and of none that is halted.
THEOREM SlotsKept == Spec => []OwnSlot
<1>1. KInv => OwnSlot
  BY Ids DEF KInv, OnCpu, OnCpuNow, OwnSlot, Executes
<1> QED BY <1>1, KInvariance, PTL

-----------------------------------------------------------------------------
(* Memory protection.                                                      *)

LEMMA SmallModulus ==
  ASSUME NEW n \in Nat \ {0}, NEW a \in Nat, a < n + n
  PROVE  a % n = IF a < n THEN a ELSE a - n
  OBVIOUS

\* No region crosses the end of the address space.
LEMMA MultiplesBelow ==
  ASSUME NEW b \in Nat, NEW s \in Nat, s > 0, NEW n \in Nat,
         b < n, b % s = 0, n % s = 0
  PROVE  b + s <= n
<1> DEFINE k == b \div s
           m == n \div s
<1>1. k \in Int /\ m \in Int /\ b = s * k /\ n = s * m
  OBVIOUS
<1> HIDE DEF k, m
<1>2. k < m
  BY <1>1
<1>3. s * (k + 1) <= s * m
  BY <1>1, <1>2
<1>4. s * (k + 1) = s * k + s
  BY <1>1
<1> QED BY <1>1, <1>3, <1>4

\* A buffer that passes the kernel's check lies in the caller's region, also
\* when its end, or the end of the region, is the end of the address space.
LEMMA OwnedIsInside ==
  ASSUME NEW p \in Partition, NEW a \in Address, NEW s \in Address,
         OwnsRange(p, a, s)
  PROVE  a .. a + s - 1 \subseteq Region(p)
<1> DEFINE base == RegionBase[p]
           top  == RegionBase[p] + RegionSize[p]
           sum  == a + s
           n    == AddressLimit
<1>1. /\ n \in Nat \ {0} /\ base \in Nat /\ RegionSize[p] \in Nat
      /\ top \in Nat /\ top <= n
  <2>1. /\ n \in Nat \ {0} /\ base \in Nat /\ RegionSize[p] \in Nat /\ base < n
    BY MpuAssumption DEF Address
  <2>2. RegionSize[p] > 0 /\ n % RegionSize[p] = 0 /\ base % RegionSize[p] = 0
    BY MpuAssumption DEF GeometryValid
  <2>3. base + RegionSize[p] <= n
    BY <2>1, <2>2, MultiplesBelow
  <2> QED BY <2>1, <2>3
<1>2. /\ a \in Nat /\ s \in Nat /\ sum \in Nat
      /\ a < n /\ s < n /\ sum < n + n
  BY <1>1 DEF Address
<1>3. s > 0 /\ sum % n > a /\ a >= base /\ sum % n <= top % n
  BY DEF OwnsRange
<1>4. sum % n = IF sum < n THEN sum ELSE sum - n
  <2> HIDE DEF sum, n
  <2> QED BY <1>1, <1>2, SmallModulus
<1>5. top % n = IF top < n THEN top ELSE top - n
  <2>1. top < n + n
    BY <1>1
  <2> HIDE DEF top, n
  <2> QED BY <1>1, <2>1, SmallModulus
<1>6. sum < n
  <2>1. sum - n <= a
    BY <1>1, <1>2
  <2> HIDE DEF sum, top, n
  <2> QED BY <1>1, <1>2, <1>3, <1>4, <2>1
<1>7. sum <= top
  <2> HIDE DEF sum, top, n
  <2> QED BY <1>1, <1>2, <1>3, <1>4, <1>5, <1>6
<1> QED BY <1>1, <1>2, <1>3, <1>7 DEF Region

\* Between two switches the current process runs with the protection that its
\* partition is to have.
Protected ==
  ~switching /\ current \in Process =>
    /\ unprivileged <=> PartitionOf[current] \notin Privileged
    /\ mapped = PartitionOf[current]

MInv == Protected /\ memory = [p \in Partition |-> p]

\* Only PendSV completes a switch.
LEMMA OnlyPendSVSwitches ==
  ASSUME [Next]_vars, ~PendSV
  PROVE  ~switching' => ~switching /\ current' = current
BY DEF Next, vars, switchVars, Register, StartScheduler, TickBegin, TickDispatch,
       SvcBegin, Yield, Block, WaitIdle, Return, Wake, ChangePriority,
       SamplingWrite, SamplingRead, Store, FaultBegin, RestartFaulting,
       HaltFaulting, RestartMissed, HaltMissed, SwitchTo

LEMMA MInitially == Init => MInv
BY Ids DEF Init, MInv, Protected

LEMMA ProtectedStep ==
  ASSUME KInv, Protected, [Next]_vars
  PROVE  Protected'
<1>1. CASE PendSV
  BY <1>1 DEF PendSV, Prepare, Protected
<1>2. CASE ~PendSV
  <2>1. UNCHANGED hardwareVars
    BY <1>2 DEF Next, vars, Register, StartScheduler, TickBegin, TickDispatch,
       SvcBegin, Yield, Block, WaitIdle, Return, Wake, ChangePriority,
       SamplingWrite, SamplingRead, Store, FaultBegin, RestartFaulting,
       HaltFaulting, RestartMissed, HaltMissed
  <2> QED BY <1>2, <2>1, OnlyPendSVSwitches DEF Protected, hardwareVars
<1> QED BY <1>1, <1>2

\* An unprivileged process reaches its own partition's memory only.
LEMMA StoreStep ==
  ASSUME KInv, MInv, NEW q \in Partition, Store(q)
  PROVE  memory' = memory
<1>1. /\ ~switching /\ current \in Process /\ PartitionOf[current] \notin Privileged
      /\ ~unprivileged \/ mapped = q
      /\ memory' = [memory EXCEPT ![q] = PartitionOf[current]]
  BY DEF Store, Admits, Executes
<1>2. q = PartitionOf[current]
  BY <1>1 DEF MInv, Protected
<1> QED BY <1>1, <1>2 DEF MInv

\* The kernel copies a message to memory of the caller only.
LEMMA SamplingReadStep ==
  ASSUME KInv, MInv, NEW b \in Buffers, SamplingRead(b)
  PROVE  memory' = memory
<1> DEFINE p == PartitionOf[current]
           status == IF ~Holds(p, b) THEN "INVALID_ARG"
                     ELSE ReadStatus(p, b[2], sample)
           copied == IF status = "OK" THEN b[1] .. b[1] + MessageSize - 1 ELSE {}
<1>1. /\ current \in Process
      /\ memory' = [q \in Partition |->
                      IF Region(q) \cap copied # {} THEN p ELSE memory[q]]
  BY DEF SamplingRead, Executes
<1>2. p \in Partition /\ b[1] \in Address /\ b[2] \in Address
  BY <1>1, Ids, SwitchAssumption
<1>3. copied \subseteq Region(p)
  <2>1. CASE status = "OK"
    <3>1. OwnsRange(p, b[1], b[2]) /\ ~(b[2] < MessageSize)
      BY <2>1 DEF Holds, ReadStatus
    <3>2. b[1] .. b[1] + b[2] - 1 \subseteq Region(p)
      BY <1>2, <3>1, OwnedIsInside
    <3>3. b[1] \in Nat /\ b[2] \in Nat /\ MessageSize \in Nat
      BY <1>2, MpuAssumption, PortAssumption DEF Address
    <3>4. b[1] .. b[1] + MessageSize - 1 \subseteq b[1] .. b[1] + b[2] - 1
      BY <3>1, <3>3
    <3> QED BY <2>1, <3>2, <3>4
  <2> QED BY <2>1
<1> HIDE DEF copied
<1>4. \A q \in Partition : Region(q) \cap copied # {} => q = p
  BY <1>2, <1>3, MpuAssumption
<1> QED BY <1>1, <1>4 DEF MInv

LEMMA MemoryStep ==
  ASSUME KInv, MInv, [Next]_vars
  PROVE  memory' = memory
<1>1. CASE \E q \in Partition : Store(q)
  BY <1>1, StoreStep
<1>2. CASE \E b \in Buffers : SamplingRead(b)
  BY <1>2, SamplingReadStep
<1>3. ASSUME ~ \E q \in Partition : Store(q), ~ \E b \in Buffers : SamplingRead(b)
      PROVE  memory' = memory
  BY <1>3 DEF Next, vars, memoryVars, Register, StartScheduler, TickBegin,
     TickDispatch, SvcBegin, Yield, Block, WaitIdle, Return, Wake,
     ChangePriority, SamplingWrite, FaultBegin, RestartFaulting,
     HaltFaulting, RestartMissed, HaltMissed, PendSV
<1> QED BY <1>1, <1>2, <1>3

\* Partitions are isolated in memory, for any map that the configuration can
\* declare: MPU region, privilege and the kernel's check of buffers suffice.
THEOREM Isolation == Spec => []MemoryIsolated
<1>1. Init => MInv
  BY MInitially
<1>2. KInv /\ MInv /\ [Next]_vars => MInv'
  BY ProtectedStep, MemoryStep DEF MInv
<1>3. MInv => MemoryIsolated
  BY DEF MInv, MemoryIsolated
<1> QED BY <1>1, <1>2, <1>3, KInvariance, PTL DEF Spec

-----------------------------------------------------------------------------
(* Results of blocked calls.                                               *)

Value   == Result \cup {"entry", "args", "popped"}
Context == [of : Process \cup {Idle, Null}, r0 : Value]

\* What is saved of process i brings the answer it is owed, once the pending
\* result has been written to r0.
Kept(i, c) == c.of = i /\ (pending[i] = "none" => c.r0 = answer[i])

\* The processes of halted partitions are never resumed; nor is one that a
\* recovery is restarting, whose registers are then dropped.
Contexts ==
  /\ pending \in [Process -> Result \cup {"none"}]
  /\ answer \in [Process -> Value]
  /\ context \in [Process -> Context] /\ regs \in Context
  /\ \A i \in Process : pending[i] # "none" => pending[i] = answer[i]
  /\ \A i \in Process :
       i # current /\ ~sys.halted[PartitionOf[i]] => Kept(i, context[i])
  /\ mode # "fault" /\ current \in Process =>
       regs = [of |-> current, r0 |-> answer[current]] /\ pending[current] = "none"

\* No partition that was halted runs again.
LEMMA HaltedForGood ==
  ASSUME KInv, [Next]_vars
  PROVE  \A p \in Partition : ~sys'.halted[p] => ~sys.halted[p]
<1> DEFINE Goal == \A p \in Partition : ~sys'.halted[p] => ~sys.halted[p]
<1>1. ASSUME sys' = sys PROVE Goal
  BY <1>1
<1>2. ASSUME NEW m, m.halted = sys.halted, sys' = m PROVE Goal
  BY <1>2
<1>3. ASSUME NEW p \in Partition, NEW y \in {FALSE, TRUE},
             sys' = PartitionSelect(sys, p, y)
      PROVE  Goal
  <2>1. Selected(sys, p, SelectStatus(sys, p, y), PartitionSelect(sys, p, y))
    BY Selects DEF KInv
  <2> QED BY <1>2, <1>3, <2>1 DEF Selected
<1>4. CASE Register
  <2>1. sys' = Enqueue(sys, PartitionOf[registered], registered)
    BY <1>4 DEF Register, AddProcess
  <2>2. sys \in TableType
    BY DEF KInv, Consistent
  <2> QED BY <2>1, <2>2 DEF Enqueue, TableType
<1>5. CASE \E p \in Partition : StartScheduler(p) \/ TickDispatch(p)
  BY <1>3, <1>5 DEF StartScheduler, TickDispatch, PartitionDispatch, KInv
<1>6. CASE Yield
  <2>1. sys' = PartitionSelect(sys, PartitionOf[current], TRUE) /\ mode = "svc"
    BY <1>6 DEF Yield, PartitionYield
  <2> QED BY <1>3, <2>1, Caller DEF KInv
<1>7. CASE Return
  <2>1. /\ mode = "svc"
        /\ \/ sys' = PartitionSelect(sys, PartitionOf[current], FALSE)
           \/ sys' = sys
    BY <1>7 DEF Return, PartitionDispatch
  <2> QED BY <1>1, <1>3, <2>1, Caller DEF KInv
<1>8. CASE Block
  <2>1. /\ sys' = BlockAndDispatch(sys, PartitionOf[current], current)
        /\ BlockStatus(sys, PartitionOf[current], current) = "OK"
        /\ mode = "svc"
    BY <1>8 DEF Block
  <2> QED BY <2>1, Caller, BlockKeeps DEF KInv
<1>9. CASE WaitIdle
  <2>1. sys' = BlockIdle(sys, PartitionOf[current], current) /\ mode = "svc"
    BY <1>9 DEF WaitIdle
  <2>2. BlockIdle(sys, PartitionOf[current], current).halted = sys.halted
    BY <2>1, Caller, BlockIdleKeeps DEF KInv
  <2> QED BY <1>2, <2>1, <2>2
<1>10. CASE \E i \in Process, r \in Result : Wake(i, r)
  <2> PICK i \in Process : sys.state[i] = "BLOCKED" /\ sys' = ReadyProcess(sys, i)
    BY <1>10 DEF Wake
  <2>1. ReadyProcess(sys, i).halted = sys.halted
    BY ReadyProcessKeeps DEF KInv
  <2> QED BY <1>2, <2>1
<1>11. CASE \E i \in Process, q \in Priority : ChangePriority(i, q)
  <2> PICK i \in Process, q \in Priority : sys' = SetProcessPriority(sys, i, q)
    BY <1>11 DEF ChangePriority
  <2>1. Consistent(sys)
    BY DEF KInv
  <2>2. LET z == SetProcessPriority(sys, i, q) IN
        /\ Consistent(z) /\ z.current = sys.current /\ z.halted = sys.halted
        /\ z.state = sys.state
        /\ z.priority = [sys.priority EXCEPT ![i] = q]
        /\ \A j \in Process : Queued(z, j) <=> Queued(sys, j)
    BY <2>1, SetPriorityKeeps
  <2>3. SetProcessPriority(sys, i, q).halted = sys.halted
    BY <2>2
  <2> QED BY <1>2, <2>3
<1>12. ASSUME NEW i \in Process,
              SelectStatus(RestartProcess(sys, i), PartitionOf[i], TRUE) = "OK",
              sys' = PartitionYield(RestartProcess(sys, i), PartitionOf[i])
       PROVE  Goal
  <2>1. PartitionYield(RestartProcess(sys, i), PartitionOf[i]).halted = sys.halted
    BY <1>12, RestartAndYield DEF KInv
  <2> QED BY <1>2, <1>12, <2>1
<1>13. CASE RestartFaulting
  <2>1. faulty \in Process
    BY <1>13 DEF RestartFaulting, KInv, Turns
  <2> QED BY <1>12, <1>13, <2>1 DEF RestartFaulting
<1>14. CASE \E i \in Process : RestartMissed(i)
  <2> PICK i \in Process : RestartMissed(i)
    BY <1>14
  <2>1. CASE i = current
    BY <1>12, <2>1 DEF RestartMissed
  <2>2. CASE i # current
    <3>1. RestartProcess(sys, i).halted = sys.halted
      BY RestartProcessKeeps DEF KInv
    <3>2. sys' = RestartProcess(sys, i)
      BY <2>2 DEF RestartMissed
    <3> QED BY <1>2, <3>1, <3>2
  <2> QED BY <2>1, <2>2
<1>15. ASSUME NEW p \in Partition, sys' = HaltPartition(sys, p) PROVE Goal
  <2>1. sys \in TableType
    BY DEF KInv, Consistent
  <2> QED BY <1>15, <2>1 DEF HaltPartition, TableType
<1>16. CASE HaltFaulting \/ \E i \in Process : HaltMissed(i)
  BY <1>15, <1>16, Ids DEF HaltFaulting, HaltMissed
<1>17. CASE TickBegin \/ SvcBegin \/ FaultBegin \/ PendSV \/ UNCHANGED vars
  BY <1>1, <1>17 DEF TickBegin, SvcBegin, FaultBegin, PendSV, vars, kernelVars
<1>18. CASE \E p \in Partition : Store(p)
  BY <1>1, <1>18 DEF Store, kernelVars
<1>19. CASE \E b \in Buffers : SamplingWrite(b) \/ SamplingRead(b)
  BY <1>1, <1>19 DEF SamplingWrite, SamplingRead, kernelVars
<1> QED BY <1>4, <1>5, <1>6, <1>7, <1>8, <1>9, <1>10, <1>11, <1>13,
           <1>14, <1>16, <1>17, <1>18, <1>19 DEF Next

LEMMA ContextsInitially == Init => Contexts
BY Ids DEF Init, Contexts, Context, Value, Fresh, Popped, Kept

\* Steps that touch no context: the current process stays, or its context is
\* dropped as its partition is halted.
LEMMA ContextsUntouched ==
  ASSUME KInv, Contexts, [Next]_vars, UNCHANGED contextVars,
         mode' = "fault" \/ mode # "fault" \/ mode' = mode,
         \/ current' = current
         \/ /\ current' = Null
            /\ current \in Process => sys'.halted[PartitionOf[current]]
  PROVE  Contexts'
<1>1. \A p \in Partition : ~sys'.halted[p] => ~sys.halted[p]
  BY HaltedForGood
<1>2. UNCHANGED <<context, regs, pending, answer>>
  BY DEF contextVars
<1>3. ASSUME NEW i \in Process, i # current', ~sys'.halted[PartitionOf[i]]
      PROVE  Kept(i, context[i])'
  <2>1. i # current /\ ~sys.halted[PartitionOf[i]]
    BY <1>1, <1>3, Ids
  <2> QED BY <1>2, <2>1 DEF Contexts, Kept
<1>4. mode' # "fault" /\ current' \in Process =>
        mode # "fault" /\ current' = current /\ current \in Process
  BY Ids
<1> QED BY <1>2, <1>3, <1>4 DEF Contexts

\* The process puts something else into r0.
LEMMA UsesR0Step ==
  ASSUME KInv, Contexts, [Next]_vars, UsesR0, current \in Process,
         mode # "fault", UNCHANGED <<current, context, pending>>
  PROVE  Contexts'
<1>1. \A p \in Partition : ~sys'.halted[p] => ~sys.halted[p]
  BY HaltedForGood
<1>2. /\ regs' = [regs EXCEPT !.r0 = "args"]
      /\ answer' = [answer EXCEPT ![current] = "args"]
      /\ UNCHANGED <<current, context, pending>>
  BY DEF UsesR0
<1>3. regs = [of |-> current, r0 |-> answer[current]] /\ pending[current] = "none"
  BY DEF Contexts
<1>4. /\ regs' = [of |-> current, r0 |-> "args"]
      /\ regs' \in Context /\ answer' \in [Process -> Value]
      /\ answer'[current] = "args"
      /\ \A i \in Process : i # current => answer'[i] = answer[i]
  BY <1>2, <1>3 DEF Contexts, Context, Value
<1>5. ASSUME NEW i \in Process, i # current', ~sys'.halted[PartitionOf[i]]
      PROVE  Kept(i, context[i])'
  <2>1. i # current /\ ~sys.halted[PartitionOf[i]]
    BY <1>1, <1>2, <1>5, Ids
  <2> QED BY <1>2, <1>4, <2>1 DEF Contexts, Kept
<1> QED BY <1>2, <1>3, <1>4, <1>5 DEF Contexts

LEMMA WakeContexts ==
  ASSUME KInv, Contexts, [Next]_vars, NEW j \in Process, NEW r \in Result, Wake(j, r)
  PROVE  Contexts'
<1>1. \A p \in Partition : ~sys'.halted[p] => ~sys.halted[p]
  BY HaltedForGood
<1>2. /\ Reaches(j) /\ sys.state[j] = "BLOCKED"
      /\ pending' = [pending EXCEPT ![j] = r]
      /\ answer' = [answer EXCEPT ![j] = r]
      /\ UNCHANGED <<mode, current, context, regs>>
  BY DEF Wake, switchVars
<1>3. r # "none" /\ r \in Value
  BY SwitchAssumption DEF Value
<1>4. /\ pending' \in [Process -> Result \cup {"none"}]
      /\ answer' \in [Process -> Value]
      /\ pending'[j] = r /\ answer'[j] = r
      /\ \A i \in Process : i # j => pending'[i] = pending[i] /\ answer'[i] = answer[i]
  BY <1>2, <1>3 DEF Contexts
<1>5. ASSUME NEW i \in Process, i # current', ~sys'.halted[PartitionOf[i]]
      PROVE  Kept(i, context[i])'
  <2>1. Kept(i, context[i])
    BY <1>1, <1>2, <1>5, Ids DEF Contexts
  <2> QED BY <1>2, <1>3, <1>4, <2>1 DEF Kept
<1>6. ASSUME mode # "fault", current \in Process PROVE current # j
  <2>1. OnCpuNow = current
    BY <1>2, <1>6, Ids DEF Reaches, KInv, Turns, OnCpuNow
  <2>2. sys.state[current] = "RUNNING"
    BY <1>6, <2>1 DEF KInv, OnCpu, Consistent, RunningIsCurrent
  <2> QED BY <1>2, <2>2
<1> QED BY <1>2, <1>3, <1>4, <1>5, <1>6 DEF Contexts

\* A restarted process has a fresh context and no result; if it was the one on
\* the CPU its registers are dropped.
LEMMA RestartContexts ==
  ASSUME KInv, Contexts, [Next]_vars, NEW j \in Process, Afresh(j),
         UNCHANGED regs,
         \/ j = current /\ current' = Null
         \/ j # current /\ current' = current /\ mode # "fault"
  PROVE  Contexts'
<1>1. \A p \in Partition : ~sys'.halted[p] => ~sys.halted[p]
  BY HaltedForGood
<1>2. /\ context' = [context EXCEPT ![j] = Fresh(j)]
      /\ pending' = [pending EXCEPT ![j] = "none"]
      /\ answer'  = [answer EXCEPT ![j] = "entry"]
  BY DEF Afresh
<1>3. /\ context' \in [Process -> Context] /\ answer' \in [Process -> Value]
      /\ pending' \in [Process -> Result \cup {"none"}]
      /\ context'[j] = Fresh(j) /\ pending'[j] = "none" /\ answer'[j] = "entry"
      /\ \A i \in Process : i # j =>
           /\ context'[i] = context[i] /\ pending'[i] = pending[i]
           /\ answer'[i] = answer[i]
  BY <1>2 DEF Contexts, Context, Value, Fresh
<1>4. ASSUME NEW i \in Process, i # current', ~sys'.halted[PartitionOf[i]]
      PROVE  Kept(i, context[i])'
  <2>1. CASE i = j
    BY <1>3, <2>1 DEF Kept, Fresh
  <2>2. CASE i # j
    <3>1. Kept(i, context[i])
      BY <1>1, <1>4, <2>2, Ids DEF Contexts
    <3> QED BY <1>3, <2>2, <3>1 DEF Kept
  <2> QED BY <2>1, <2>2
<1>5. current' \in Process => current' = current /\ current # j /\ mode # "fault"
  BY Ids
<1> QED BY <1>3, <1>4, <1>5 DEF Contexts

\* The switch saves one context and restores another, with its result.
LEMMA PendSVContexts ==
  ASSUME KInv, Contexts, PendSV
  PROVE  Contexts'
<1> DEFINE saved == IF current \in Process
                    THEN [context EXCEPT ![current] = regs] ELSE context
<1>1. /\ mode = "thread" /\ switching /\ current' = next /\ mode' = mode
      /\ sys' = sys /\ answer' = answer
      /\ regs' = Restored(saved, next)
      /\ context' = [i \in Process |-> IF i = next THEN Popped ELSE saved[i]]
      /\ pending' = [i \in Process |-> IF i = next THEN "none" ELSE pending[i]]
  BY DEF PendSV, kernelVars
<1>2. saved \in [Process -> Context]
  BY DEF Contexts
<1>3. ASSUME NEW i \in Process, ~sys.halted[PartitionOf[i]]
      PROVE  Kept(i, saved[i])
  <2>1. CASE i = current
    BY <1>1, <2>1 DEF Contexts, Kept
  <2>2. CASE i # current
    BY <1>3, <2>2 DEF Contexts
  <2> QED BY <2>1, <2>2
<1> HIDE DEF saved
<1>4. Popped \in Context
  BY DEF Popped, Context, Value
<1>5. /\ context' \in [Process -> Context]
      /\ pending' \in [Process -> Result \cup {"none"}]
      /\ \A i \in Process : pending'[i] # "none" => pending'[i] = answer[i]
  BY <1>1, <1>2, <1>4 DEF Contexts
<1>6. ASSUME NEW i \in Process, i # current', ~sys'.halted[PartitionOf[i]]
      PROVE  Kept(i, context[i])'
  <2>1. i # next /\ Kept(i, saved[i])
    BY <1>1, <1>3, <1>6
  <2>2. context'[i] = saved[i] /\ pending'[i] = pending[i]
    BY <1>1, <2>1
  <2> QED BY <1>1, <2>1, <2>2 DEF Kept
<1>7. CASE next = Idle
  <2>1. regs' = [of |-> Idle, r0 |-> "entry"]
    BY <1>1, <1>7 DEF Restored
  <2>2. regs' \in Context /\ current' \notin Process
    BY <1>1, <1>7, <2>1, Ids DEF Context, Value
  <2> QED BY <1>1, <1>5, <1>6, <2>2 DEF Contexts
<1>8. CASE next \in Process
  <2>1. ~sys.halted[PartitionOf[next]]
    BY <1>1, <1>8, Ids DEF KInv, OnCpu, OnCpuNow
  <2>2. Kept(next, saved[next]) /\ saved[next] \in Context
    BY <1>2, <1>3, <1>8, <2>1
  <2>3. regs' = IF pending[next] # "none"
                THEN [saved[next] EXCEPT !.r0 = pending[next]] ELSE saved[next]
    BY <1>1, <1>8, Ids DEF Restored
  <2>4. regs' = [of |-> next, r0 |-> answer[next]]
    BY <1>8, <2>2, <2>3 DEF Kept, Context, Contexts
  <2>5. regs' \in Context
    BY <1>8, <2>4 DEF Context, Contexts
  <2>6. pending'[next] = "none"
    BY <1>1, <1>8
  <2> QED BY <1>1, <1>5, <1>6, <2>4, <2>5, <2>6 DEF Contexts
<1> QED BY <1>1, <1>7, <1>8 DEF KInv, Turns

LEMMA ContextsStep ==
  ASSUME KInv, Contexts, [Next]_vars
  PROVE  Contexts'
<1>1. CASE PendSV
  BY <1>1, PendSVContexts
<1>2. CASE \E i \in Process, r \in Result : Wake(i, r)
  BY <1>2, WakeContexts
<1>3. CASE RestartFaulting
  <2>1. faulty = current /\ current \in Process /\ Afresh(faulty)
    BY <1>3 DEF RestartFaulting, KInv, Turns
  <2> QED BY <1>3, <2>1, RestartContexts DEF RestartFaulting
<1>4. CASE \E i \in Process : RestartMissed(i)
  BY <1>4, RestartContexts DEF RestartMissed
<1>5. CASE SvcBegin \/ \E b \in Buffers : SamplingWrite(b) \/ SamplingRead(b)
  BY <1>5, UsesR0Step DEF SvcBegin, SamplingWrite, SamplingRead, Executes, switchVars
<1>6. CASE Return
  BY <1>6, Caller, UsesR0Step DEF Return
<1>7. CASE HaltFaulting
  <2>1. sys'.halted[PartitionOf[current]]
    BY <1>7, Ids DEF HaltFaulting, HaltPartition, KInv, Consistent, TableType
  <2> QED BY <1>7, <2>1, ContextsUntouched DEF HaltFaulting
<1>8. CASE \E i \in Process : HaltMissed(i)
  <2> PICK i \in Process : HaltMissed(i)
    BY <1>8
  <2>1. sys'.halted[PartitionOf[i]]
    BY Ids DEF HaltMissed, HaltPartition, KInv, Consistent, TableType
  <2> QED BY <2>1, ContextsUntouched DEF HaltMissed, PartitionIdOf
<1>9. CASE \/ Register \/ TickBegin \/ Yield \/ Block \/ WaitIdle \/ FaultBegin
           \/ \E p \in Partition : StartScheduler(p) \/ TickDispatch(p) \/ Store(p)
           \/ \E i \in Process, q \in Priority : ChangePriority(i, q)
  BY <1>9, ContextsUntouched
     DEF Register, TickBegin, Yield, Block, WaitIdle, FaultBegin, StartScheduler,
         TickDispatch, Store, ChangePriority, switchVars, kernelVars
<1>10. CASE UNCHANGED vars
  BY <1>10, ContextsUntouched DEF vars, kernelVars, switchVars
<1> QED BY <1>1, <1>2, <1>3, <1>4, <1>5, <1>6, <1>7, <1>8, <1>9, <1>10 DEF Next

\* Every process that is resumed finds the answer that it is owed in r0, after
\* any sequence of switches, wake-ups and recoveries.
THEOREM ResultsDelivered == Spec => []AnswersArrive
<1>1. Init => Contexts
  BY ContextsInitially
<1>2. KInv /\ Contexts /\ [Next]_vars => Contexts'
  BY ContextsStep
<1>3. Contexts => AnswersArrive
  BY DEF Contexts, AnswersArrive, Executes
<1> QED BY <1>1, <1>2, <1>3, KInvariance, PTL DEF Spec
=============================================================================
