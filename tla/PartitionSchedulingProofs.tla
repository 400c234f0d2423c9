----------------------- MODULE PartitionSchedulingProofs -----------------------
(***************************************************************************)
(* The safety invariants of two-level scheduling, for any number of        *)
(* processes, partitions and priorities.  The inductive invariant adds to  *)
(* the properties of PartitionScheduling what start-up has done so far and *)
(* that the process on the CPU is its partition's, whatever handler runs.  *)
(***************************************************************************)
EXTENDS PartitionScheduling, PartitionTableProofs

\* Until the scheduler starts nothing has run or blocked, and a process is in
\* a queue only once it is registered.
StartUp ==
  /\ mode = "boot" =>
       /\ cpu = NoProcess
       /\ \A i \in Process : sys.state[i] = "READY"
       /\ \A i \in Process : registered <= i => InNoQueue(sys, i)
  /\ mode # "boot" => registered = NumProcesses

\* During a handler, too, the CPU has its partition's current process, and a
\* service call has a caller.
OnCpu ==
  /\ cpu # NoProcess =>
       sys.current[PartitionOf[cpu]] = cpu /\ ~sys.halted[PartitionOf[cpu]]
  /\ mode = "svc" => cpu # NoProcess

\* A recovery concerns a process of an active partition; if the CPU was going
\* to another partition, nothing READY there outranks the process it goes to.
Recovering ==
  mode = "fault" =>
    /\ faulty \in Process /\ ~sys.halted[PartitionOf[faulty]]
    /\ cpu # NoProcess /\ PartitionOf[cpu] # PartitionOf[faulty] =>
         BestRuns(sys, PartitionOf[cpu])

IInv ==
  /\ TypeOK /\ Consistent(sys) /\ NoneLost
  /\ StartUp /\ OnCpu /\ NotOutranked /\ Recovering

-----------------------------------------------------------------------------
\* A step that keeps every READY process queued loses no registered one.
LEMMA KeepsNoneLost ==
  ASSUME NEW k, NEW m, NEW S \in SUBSET Process, NoneLostOf(k, S), KeepsReady(k, m)
  PROVE  NoneLostOf(m, S)
BY DEF NoneLostOf, KeepsReady

LEMMA RegisteredAreProcesses ==
  ASSUME NEW n \in 0 .. NumProcesses
  PROVE  0 .. n - 1 \in SUBSET Process
BY ConfigAssumption DEF Process

\* The process on the CPU is a RUNNING one of an active partition.
LEMMA OnCpuRuns ==
  ASSUME IInv, cpu # NoProcess
  PROVE  /\ cpu \in Process /\ PartitionOf[cpu] \in Partition
         /\ sys.state[cpu] = "RUNNING"
         /\ sys.current[PartitionOf[cpu]] = cpu
         /\ ~sys.halted[PartitionOf[cpu]]
BY ConfigAssumption DEF IInv, TypeOK, OnCpu, Consistent, RunningIsCurrent

\* Recovering a process of an active partition leaves one for the dispatcher
\* to run: the process itself, if no other.
LEMMA RestartDispatches ==
  ASSUME Consistent(sys), NoneLostOf(sys, Process),
         NEW i \in Process, ~sys.halted[PartitionOf[i]]
  PROVE  CanRestart(i)
<1> DEFINE m == RestartProcess(sys, i)
           p == PartitionOf[i]
<1>1. p \in Partition /\ sys \in TableType /\ TRUE \in BOOLEAN
  BY ConfigAssumption DEF Consistent
<1>2. Consistent(m) /\ m.halted = sys.halted
  BY RestartProcessKeeps
<1>3. Queued(m, i)
  <2>1. CASE sys.state[i] = "RUNNING"
    BY <2>1, RestartRunningKeeps DEF RestartProcess
  <2>2. CASE sys.state[i] = "BLOCKED"
    BY <2>2, ReadyProcessKeeps DEF RestartProcess
  <2>3. CASE sys.state[i] = "READY"
    BY <2>3 DEF RestartProcess, NoneLostOf
  <2> QED BY <1>1, <2>1, <2>2, <2>3 DEF TableType, ProcessState
<1> HIDE DEF m
<1>4. ReadyMask(m, p) # {}
  BY <1>1, <1>2, <1>3, MaskHolds DEF Consistent
<1>5. SelectStatus(m, p, TRUE) = "OK"
  BY <1>1, <1>2, <1>4, SelectStatusOf
<1> QED BY <1>5 DEF CanRestart, m

-----------------------------------------------------------------------------
(* What an operation on a process of one partition leaves alone in others. *)

SameElsewhere(k, m, p) ==
  \A r \in Partition \ {p} :
    /\ m.ready[r] = k.ready[r] /\ m.current[r] = k.current[r]
    /\ \A j \in Process : PartitionOf[j] = r => m.priority[j] = k.priority[j]

LEMMA BestRunsElsewhere ==
  ASSUME NEW k, Consistent(k), NEW m, NEW p \in Partition,
         SameElsewhere(k, m, p), NEW r \in Partition \ {p}, BestRuns(k, r)
  PROVE  BestRuns(m, r)
<1>1. k.current[r] # NoProcess =>
        k.current[r] \in Process /\ PartitionOf[k.current[r]] = r
  BY DEF Consistent, RunningIsCurrent, TableType
<1> QED BY <1>1 DEF SameElsewhere, BestRuns, HasHigher, ReadyMask

LEMMA ElsewhereTransitive ==
  ASSUME NEW k, NEW l, NEW m, NEW p,
         SameElsewhere(k, l, p), SameElsewhere(l, m, p)
  PROVE  SameElsewhere(k, m, p)
BY DEF SameElsewhere

LEMMA AddProcessElsewhere ==
  ASSUME NEW k \in TableType, NEW i \in Process
  PROVE  SameElsewhere(k, AddProcess(k, i), PartitionOf[i])
BY DEF AddProcess, Enqueue, SameElsewhere, TableType

LEMMA SetStateElsewhere ==
  ASSUME NEW k \in TableType, NEW i \in Process, NEW x \in ProcessState, NEW p
  PROVE  SameElsewhere(k, SetState(k, i, x), p) /\ SetState(k, i, x) \in TableType
BY DEF SetState, SameElsewhere, TableType

LEMMA ReadyProcessElsewhere ==
  ASSUME NEW k \in TableType, NEW i \in Process
  PROVE  SameElsewhere(k, ReadyProcess(k, i), PartitionOf[i])
<1> DEFINE l == SetState(k, i, "READY")
<1>1. SameElsewhere(k, l, PartitionOf[i]) /\ l \in TableType
  BY SetStateElsewhere DEF ProcessState
<1>2. ReadyProcess(k, i) = AddProcess(l, i)
  BY DEF ReadyProcess
<1> HIDE DEF l
<1>3. SameElsewhere(l, AddProcess(l, i), PartitionOf[i])
  BY <1>1, AddProcessElsewhere
<1> QED BY <1>1, <1>2, <1>3, ElsewhereTransitive

LEMMA SetPriorityElsewhere ==
  ASSUME NEW k \in TableType, NEW i \in Process, NEW q \in Priority
  PROVE  SameElsewhere(k, SetProcessPriority(k, i, q), PartitionOf[i])
<1> DEFINE p   == PartitionOf[i]
           out == RemoveProcess(k, i)
           new == SetPriority(out, i, q)
<1>1. CASE ~Queued(k, i)
  BY <1>1 DEF SetProcessPriority, SetPriority, SameElsewhere, TableType
<1>2. CASE Queued(k, i)
  <2>1. SetProcessPriority(k, i, q) \in {Enqueue(new, p, i), Enqueue(out, p, i)}
    BY <1>2 DEF SetProcessPriority
  <2>2. SameElsewhere(k, Enqueue(new, p, i), p)
    BY DEF Enqueue, SetPriority, RemoveProcess, SameElsewhere, TableType
  <2>3. SameElsewhere(k, Enqueue(out, p, i), p)
    BY DEF Enqueue, RemoveProcess, SameElsewhere, TableType
  <2> QED BY <2>1, <2>2, <2>3
<1> QED BY <1>1, <1>2

LEMMA RestartProcessElsewhere ==
  ASSUME NEW k \in TableType, NEW i \in Process
  PROVE  SameElsewhere(k, RestartProcess(k, i), PartitionOf[i])
<1>1. CASE k.state[i] = "RUNNING"
  <2> DEFINE l == SetState(k, i, "READY")
             b == AddProcess(l, i)
  <2>1. RestartProcess(k, i) = Leave(b, PartitionOf[i])
    BY <1>1 DEF RestartProcess, RestartRunning
  <2>2. SameElsewhere(k, l, PartitionOf[i]) /\ l \in TableType
    BY SetStateElsewhere DEF ProcessState
  <2> HIDE DEF l
  <2>3. SameElsewhere(l, b, PartitionOf[i])
    BY <2>2, AddProcessElsewhere
  <2>4. b.current = l.current
    BY DEF AddProcess, Enqueue
  <2> HIDE DEF b
  <2>5. SameElsewhere(b, Leave(b, PartitionOf[i]), PartitionOf[i])
    BY <2>2, <2>4 DEF Leave, SameElsewhere, TableType
  <2> QED BY <2>1, <2>2, <2>3, <2>5, ElsewhereTransitive
<1>2. CASE k.state[i] = "BLOCKED"
  BY <1>2, ReadyProcessElsewhere DEF RestartProcess
<1>3. CASE k.state[i] \notin {"RUNNING", "BLOCKED"}
  BY <1>3 DEF RestartProcess, SameElsewhere
<1> QED BY <1>1, <1>2, <1>3

LEMMA SelectElsewhere ==
  ASSUME NEW k \in TableType, NEW p \in Partition, NEW y \in BOOLEAN
  PROVE  SameElsewhere(k, PartitionSelect(k, p, y), p)
<1> DEFINE popped == PopBest(k, p)
           cur    == k.current[p]
           back   == IF cur = NoProcess THEN popped
                     ELSE Requeue(popped, p, cur, y)
<1>1. CASE SelectStatus(k, p, y) # "OK" \/ ~Switches(k, p, y)
  BY <1>1 DEF PartitionSelect, SameElsewhere
<1>2. CASE ~(SelectStatus(k, p, y) # "OK" \/ ~Switches(k, p, y))
  <2>1. PartitionSelect(k, p, y) = Run(back, p, NextReady(k, p))
    BY <1>2 DEF PartitionSelect
  <2>2. /\ \A r \in Partition \ {p} : back.ready[r] = k.ready[r]
        /\ back.current = k.current /\ back.priority = k.priority
    BY DEF PopBest, Requeue, Enqueue, EnqueueFront, SetState, TableType
  <2> HIDE DEF back
  <2>3. SameElsewhere(k, Run(back, p, NextReady(k, p)), p)
    BY <2>2 DEF Run, SameElsewhere, TableType
  <2> QED BY <2>1, <2>3
<1> QED BY <1>1, <1>2

-----------------------------------------------------------------------------
LEMMA Initially == Init => IInv
<1> SUFFICES ASSUME Init PROVE IInv
  OBVIOUS
<1>1. /\ sys = CreatedTable /\ cpu = NoProcess /\ mode = "boot"
      /\ registered = 0 /\ faulty = NoProcess
  BY DEF Init
<1>2. sys \in TableType
  BY <1>1, ConfigAssumption DEF CreatedTable, TableType, ProcessState
<1>3. TypeOK
  BY <1>1, <1>2, ConfigAssumption DEF TypeOK
<1>4. /\ \A i \in Process : sys.state[i] = "READY" /\ InNoQueue(sys, i)
      /\ \A p \in Partition : sys.current[p] = NoProcess
      /\ \A p \in Partition, q \in Priority : sys.ready[p][q] = <<>>
  BY <1>1 DEF CreatedTable, InNoQueue, IsIn
<1>5. \A i \in Process : i # NoProcess /\ PartitionOf[i] \in Partition
  BY ConfigAssumption DEF Process, NoProcess
<1>6. RunningIsCurrent(sys)
  BY <1>4, <1>5 DEF RunningIsCurrent
<1>7. QueuesSound(sys)
  BY <1>4 DEF QueuesSound, NoRepeats, InNoQueue
<1>8. NoneLost
  BY <1>1 DEF NoneLost, NoneLostOf
<1> QED BY <1>1, <1>2, <1>3, <1>4, <1>6, <1>7, <1>8
        DEF IInv, Consistent, StartUp, OnCpu, NotOutranked, Recovering

\* Start-up registers each process with success: its partition's queue of its
\* priority cannot be full.
LEMMA RegisterStep == IInv /\ Register => IInv'
<1> SUFFICES ASSUME IInv, Register PROVE IInv'
  OBVIOUS
<1> DEFINE i == registered
           m == AddProcess(sys, i)
<1>1. /\ mode = "boot" /\ registered < NumProcesses /\ sys' = m
      /\ registered' = registered + 1 /\ cpu' = cpu /\ mode' = mode
      /\ faulty' = faulty
  BY DEF Register
<1>2. /\ sys \in TableType /\ QueuesSound(sys) /\ RunningIsCurrent(sys)
      /\ i \in Process /\ registered \in 0 .. NumProcesses
  BY <1>1, ConfigAssumption DEF IInv, TypeOK, Consistent, Process
<1>3. sys.state[i] = "READY" /\ InNoQueue(sys, i) /\ cpu = NoProcess
      /\ \A j \in Process : sys.state[j] = "READY"
  BY <1>1, <1>2 DEF IInv, StartUp, Process
<1>4. Added(sys, m, i)
  BY <1>2, <1>3, AddProcessAdds
<1> HIDE DEF m
<1>5. /\ m \in TableType /\ QueuesSound(m) /\ SameButQueues(sys, m)
      /\ \A j \in Process : Queued(m, j) <=> Queued(sys, j) \/ j = i
  BY <1>4 DEF Added
<1>6. Consistent(m)
  BY <1>2, <1>5 DEF Consistent, RunningIsCurrent, SameButQueues
<1>7. TypeOK'
  BY <1>1, <1>2, <1>5, ConfigAssumption DEF IInv, TypeOK
<1>8. NoneLost'
  <2> SUFFICES ASSUME NEW j \in 0 .. registered PROVE Queued(m, j)
    BY <1>1, <1>2 DEF NoneLost, NoneLostOf
  <2>1. j \in Process
    BY <1>1, <1>2, ConfigAssumption DEF Process
  <2>2. CASE j = i
    BY <1>5, <2>1, <2>2
  <2>3. CASE j # i
    <3>1. j \in 0 .. registered - 1
      BY <1>2, <2>3
    <3> QED BY <1>3, <1>5, <2>1, <3>1 DEF IInv, NoneLost, NoneLostOf
  <2> QED BY <2>2, <2>3
<1>9. StartUp'
  <2>1. ASSUME NEW j \in Process, registered + 1 <= j PROVE InNoQueue(m, j)
    <3>1. registered <= j /\ j # i
      BY <1>2, <2>1 DEF Process
    <3>2. InNoQueue(sys, j)
      BY <1>1, <3>1 DEF IInv, StartUp
    <3>3. ~Queued(sys, j)
      BY <1>2, <3>2, ConfigAssumption DEF InNoQueue, Queued, TableType
    <3> QED BY <1>5, <3>1, <3>3, NotQueuedInNoQueue
  <2>2. \A j \in Process : m.state[j] = "READY"
    BY <1>3, <1>5 DEF SameButQueues
  <2> QED BY <1>1, <1>3, <2>1, <2>2 DEF StartUp
<1>10. OnCpu' /\ NotOutranked' /\ Recovering'
  BY <1>1, <1>3 DEF OnCpu, NotOutranked, Recovering
<1> QED BY <1>1, <1>6, <1>7, <1>8, <1>9, <1>10 DEF IInv

\* The invariant of a state with table m in which handler h runs and the CPU
\* has process c, once start-up is over.
LEMMA AfterStartUp ==
  ASSUME IInv, mode' \in {"thread", "svc", "tick", "fault"},
         registered' = NumProcesses,
         faulty' \in Process \cup {faulty, NoProcess},
         NoneLostOf(sys, Process),
         Consistent(sys'), KeepsReady(sys, sys'),
         cpu' \in Process \cup {NoProcess},
         cpu' # NoProcess =>
           /\ sys'.current[PartitionOf[cpu']] = cpu'
           /\ ~sys'.halted[PartitionOf[cpu']]
           /\ mode' = "thread" => BestRuns(sys', PartitionOf[cpu']),
         mode' = "svc" => cpu' # NoProcess,
         mode' = "fault" => Recovering'
  PROVE  IInv'
<1>1. 0 .. registered' - 1 = Process
  BY DEF Process
<1>2. NoneLost'
  BY <1>1, KeepsNoneLost DEF NoneLost
<1>3. TypeOK'
  BY ConfigAssumption DEF IInv, TypeOK, Consistent
<1>4. StartUp' /\ OnCpu'
  BY DEF StartUp, OnCpu
<1>5. NotOutranked'
  <2> SUFFICES ASSUME mode' = "thread", cpu' # NoProcess
               PROVE  ~HasHigher(sys', PartitionOf[cpu'], sys'.priority[cpu'])
    BY DEF NotOutranked
  <2>1. /\ BestRuns(sys', PartitionOf[cpu'])
        /\ sys'.current[PartitionOf[cpu']] = cpu'
    OBVIOUS
  <2> QED BY <2>1 DEF BestRuns
<1>6. Recovering'
  BY DEF Recovering
<1> QED BY <1>2, <1>3, <1>4, <1>5, <1>6 DEF IInv

\* Once start-up is over every process is registered.
LEMMA AllRegistered ==
  ASSUME IInv, mode # "boot"
  PROVE  registered = NumProcesses /\ NoneLostOf(sys, Process)
<1>1. registered = NumProcesses
  BY DEF IInv, StartUp
<1>2. 0 .. registered - 1 = Process
  BY <1>1 DEF Process
<1> QED BY <1>1, <1>2 DEF IInv, NoneLost

LEMMA StartSchedulerStep ==
  ASSUME IInv, NEW p \in Partition, StartScheduler(p)
  PROVE  IInv'
<1> DEFINE m == PartitionSelect(sys, p, FALSE)
<1>1. /\ registered = NumProcesses /\ SelectStatus(sys, p, FALSE) = "OK"
      /\ sys' = m /\ cpu' = sys'.current[p] /\ mode' = "thread"
      /\ registered' = NumProcesses /\ faulty' = faulty
  BY DEF StartScheduler, PartitionDispatch
<1>2. NoneLostOf(sys, Process)
  <2>1. 0 .. registered - 1 = Process
    BY <1>1 DEF Process
  <2> QED BY <2>1 DEF IInv, NoneLost
<1>3. Consistent(sys) /\ FALSE \in BOOLEAN
  BY DEF IInv
<1>4. Consistent(m) /\ KeepsReady(sys, m)
  BY <1>3, SelectKeeps
<1>5. /\ m.current[p] \in Process /\ PartitionOf[m.current[p]] = p
      /\ ~m.halted[p] /\ BestRuns(m, p)
  BY <1>1, <1>3, SelectRuns
<1> HIDE DEF m
<1> QED BY <1>1, <1>2, <1>4, <1>5, AfterStartUp

LEMMA TickDispatchStep ==
  ASSUME IInv, NEW p \in Partition, TickDispatch(p)
  PROVE  IInv'
<1> DEFINE m  == PartitionSelect(sys, p, FALSE)
           st == SelectStatus(sys, p, FALSE)
<1>1. /\ mode = "tick" /\ mode' = "thread" /\ sys' = m
      /\ registered' = registered /\ faulty' = faulty
  BY DEF TickDispatch, PartitionDispatch
<1>2. /\ registered' = NumProcesses /\ NoneLostOf(sys, Process)
  BY <1>1, AllRegistered
<1>3. Consistent(sys) /\ FALSE \in BOOLEAN
  BY DEF IInv
<1>4. Consistent(m) /\ KeepsReady(sys, m)
  BY <1>3, SelectKeeps
<1>5. st \in {"OK", "QUEUE_EMPTY", "PARTITION_HALTED"}
  BY <1>3, SelectStatusOf
<1>6. CASE st = "OK"
  <2>1. /\ m.current[p] \in Process /\ PartitionOf[m.current[p]] = p
        /\ ~m.halted[p] /\ BestRuns(m, p)
    BY <1>3, <1>6, SelectRuns
  <2>2. cpu' = sys'.current[p]
    BY <1>6 DEF TickDispatch
  <2> HIDE DEF m
  <2> QED BY <1>1, <1>2, <1>4, <2>1, <2>2, AfterStartUp
<1>7. CASE st \in {"QUEUE_EMPTY", "PARTITION_HALTED"}
  <2>1. cpu' = NoProcess
    BY <1>7 DEF TickDispatch
  <2> HIDE DEF m
  <2> QED BY <1>1, <1>2, <1>4, <2>1, AfterStartUp
<1> QED BY <1>5, <1>6, <1>7

LEMMA BeginStep ==
  ASSUME IInv, TickBegin \/ SvcBegin
  PROVE  IInv'
<1>1. /\ mode = "thread" /\ sys' = sys /\ cpu' = cpu /\ registered' = registered
      /\ mode' \in {"tick", "svc"} /\ (mode' = "svc" => cpu # NoProcess)
      /\ faulty' = faulty
  BY DEF TickBegin, SvcBegin
<1>2. registered = NumProcesses /\ NoneLostOf(sys, Process)
  BY <1>1, AllRegistered
<1>3. Consistent(sys) /\ KeepsReady(sys, sys) /\ cpu \in Process \cup {NoProcess}
  BY DEF IInv, TypeOK, KeepsReady
<1>4. cpu # NoProcess =>
        sys.current[PartitionOf[cpu]] = cpu /\ ~sys.halted[PartitionOf[cpu]]
  BY DEF IInv, OnCpu
<1> QED BY <1>1, <1>2, <1>3, <1>4, AfterStartUp

\* A recovery begins while the process on the CPU, if any, is the best.
LEMMA FaultBeginStep ==
  ASSUME IInv, NEW i \in Process, FaultBegin(i)
  PROVE  IInv'
<1>1. /\ mode = "thread" /\ sys' = sys /\ cpu' = cpu /\ registered' = registered
      /\ mode' = "fault" /\ faulty' = i /\ ~sys.halted[PartitionOf[i]]
  BY DEF FaultBegin
<1>2. registered = NumProcesses /\ NoneLostOf(sys, Process)
  BY <1>1, AllRegistered
<1>3. Consistent(sys) /\ KeepsReady(sys, sys) /\ cpu \in Process \cup {NoProcess}
  BY DEF IInv, TypeOK, KeepsReady
<1>4. cpu # NoProcess =>
        sys.current[PartitionOf[cpu]] = cpu /\ ~sys.halted[PartitionOf[cpu]]
  BY DEF IInv, OnCpu
<1>5. cpu # NoProcess => BestRuns(sys, PartitionOf[cpu])
  BY <1>1, <1>4 DEF IInv, NotOutranked, BestRuns
<1>6. Recovering'
  BY <1>1, <1>5 DEF Recovering
<1> QED BY <1>1, <1>2, <1>3, <1>4, <1>6, AfterStartUp

\* A service call is made by the RUNNING process of an active partition.
LEMMA Caller ==
  ASSUME IInv, mode = "svc"
  PROVE  /\ cpu \in Process /\ PartitionOf[cpu] \in Partition
         /\ cpu # NoProcess /\ sys.state[cpu] = "RUNNING"
         /\ sys.current[PartitionOf[cpu]] = cpu /\ ~sys.halted[PartitionOf[cpu]]
         /\ Consistent(sys) /\ NoneLostOf(sys, Process)
         /\ registered = NumProcesses
<1>1. cpu # NoProcess
  BY DEF IInv, OnCpu
<1> QED BY <1>1, OnCpuRuns, AllRegistered DEF IInv

\* The end of a service call by a dispatch or a yield.
LEMMA CallerSelects ==
  ASSUME IInv, mode = "svc", NEW y \in BOOLEAN,
         sys' = PartitionSelect(sys, PartitionOf[cpu], y),
         cpu' = IF SelectStatus(sys, PartitionOf[cpu], y) = "OK"
                THEN sys'.current[PartitionOf[cpu]] ELSE cpu,
         mode' = "thread", registered' = registered, faulty' = faulty
  PROVE  IInv'
<1> DEFINE p == PartitionOf[cpu]
           m == PartitionSelect(sys, p, y)
<1>1. /\ p \in Partition /\ sys.current[p] # NoProcess /\ ~sys.halted[p]
      /\ Consistent(sys) /\ NoneLostOf(sys, Process)
      /\ registered = NumProcesses
  BY Caller
<1>2. SelectStatus(sys, p, y) = "OK"
  BY <1>1, SelectStatusOf
<1>3. Consistent(m) /\ KeepsReady(sys, m)
  BY <1>1, SelectKeeps
<1>4. /\ m.current[p] \in Process /\ PartitionOf[m.current[p]] = p
      /\ ~m.halted[p] /\ BestRuns(m, p)
  BY <1>1, <1>2, SelectRuns
<1>5. sys' = m /\ cpu' = m.current[p]
  BY <1>2
<1> HIDE DEF m
<1> QED BY <1>1, <1>3, <1>4, <1>5, AfterStartUp

LEMMA YieldStep == IInv /\ Yield => IInv'
<1> SUFFICES ASSUME IInv, Yield PROVE IInv'
  OBVIOUS
<1>1. /\ mode = "svc" /\ TRUE \in BOOLEAN
      /\ sys' = PartitionSelect(sys, PartitionOf[cpu], TRUE)
      /\ cpu' = IF SelectStatus(sys, PartitionOf[cpu], TRUE) = "OK"
                THEN sys'.current[PartitionOf[cpu]] ELSE cpu
      /\ mode' = "thread" /\ registered' = registered /\ faulty' = faulty
  BY DEF Yield, PartitionYield
<1> QED BY <1>1, CallerSelects

LEMMA PreemptCheckStep == IInv /\ PreemptCheck => IInv'
<1> SUFFICES ASSUME IInv, PreemptCheck PROVE IInv'
  OBVIOUS
<1>1. /\ mode = "svc" /\ mode' = "thread"
      /\ registered' = registered /\ faulty' = faulty
  BY DEF PreemptCheck
<1>2. CASE NeedsPreemption(sys, cpu)
  <2>1. /\ FALSE \in BOOLEAN
        /\ sys' = PartitionSelect(sys, PartitionOf[cpu], FALSE)
        /\ cpu' = IF SelectStatus(sys, PartitionOf[cpu], FALSE) = "OK"
                  THEN sys'.current[PartitionOf[cpu]] ELSE cpu
    BY <1>2 DEF PreemptCheck, PartitionDispatch
  <2> QED BY <1>1, <2>1, CallerSelects
<1>3. CASE ~NeedsPreemption(sys, cpu)
  <2>1. sys' = sys /\ cpu' = cpu
    BY <1>3 DEF PreemptCheck
  <2>2. /\ cpu \in Process /\ sys.state[cpu] = "RUNNING"
        /\ sys.current[PartitionOf[cpu]] = cpu
        /\ ~sys.halted[PartitionOf[cpu]]
        /\ Consistent(sys) /\ NoneLostOf(sys, Process)
        /\ registered = NumProcesses
    BY <1>1, Caller
  <2>3. BestRuns(sys, PartitionOf[cpu])
    BY <1>3, <2>2 DEF NeedsPreemption, BestRuns
  <2>4. KeepsReady(sys, sys)
    BY DEF KeepsReady
  <2> QED BY <1>1, <2>1, <2>2, <2>3, <2>4, AfterStartUp
<1> QED BY <1>2, <1>3

LEMMA BlockStep == IInv /\ Block => IInv'
<1> SUFFICES ASSUME IInv, Block PROVE IInv'
  OBVIOUS
<1> DEFINE p == PartitionOf[cpu]
           m == BlockAndDispatch(sys, p, cpu)
<1>1. /\ mode = "svc" /\ BlockStatus(sys, p, cpu) = "OK"
      /\ sys' = m /\ cpu' = sys'.current[p]
      /\ mode' = "thread" /\ registered' = registered /\ faulty' = faulty
  BY DEF Block
<1>2. /\ cpu \in Process /\ p \in Partition /\ sys.current[p] = cpu
      /\ Consistent(sys) /\ NoneLostOf(sys, Process)
      /\ registered = NumProcesses
  BY <1>1, Caller
<1>3. /\ Consistent(m) /\ m.halted = sys.halted /\ ~sys.halted[p]
      /\ KeepsReady(sys, m) /\ m.current[p] \in Process /\ BestRuns(m, p)
  BY <1>1, <1>2, BlockKeeps
<1> HIDE DEF m
<1>4. PartitionOf[m.current[p]] = p
  <2>1. m.current[p] # NoProcess
    BY <1>3, ConfigAssumption DEF Process, NoProcess
  <2> QED BY <1>2, <1>3, <2>1 DEF Consistent, RunningIsCurrent
<1> QED BY <1>1, <1>2, <1>3, <1>4, AfterStartUp

LEMMA WaitIdleStep == IInv /\ WaitIdle => IInv'
<1> SUFFICES ASSUME IInv, WaitIdle PROVE IInv'
  OBVIOUS
<1> DEFINE m == BlockIdle(sys, PartitionOf[cpu], cpu)
<1>1. /\ mode = "svc" /\ sys' = m /\ cpu' = NoProcess
      /\ mode' = "thread" /\ registered' = registered /\ faulty' = faulty
  BY DEF WaitIdle
<1>2. /\ cpu \in Process /\ sys.state[cpu] = "RUNNING"
      /\ Consistent(sys) /\ NoneLostOf(sys, Process)
      /\ registered = NumProcesses
  BY <1>1, Caller
<1>3. Consistent(m) /\ KeepsReady(sys, m)
  BY <1>2, BlockIdleKeeps
<1> HIDE DEF m
<1> QED BY <1>1, <1>2, <1>3, AfterStartUp

\* What a handler does to a process leaves the CPU alone, and a recovery what
\* other partitions run.
LEMMA CpuUntouched ==
  ASSUME IInv, NEW i \in Process, Reaches(i), cpu' = cpu, mode' = mode,
         registered' = registered, faulty' = faulty,
         Consistent(sys'), KeepsReady(sys, sys'),
         sys'.current = sys.current, sys'.halted = sys.halted,
         SameElsewhere(sys, sys', PartitionOf[i])
  PROVE  IInv'
<1>1. mode \in {"svc", "tick", "fault"}
  BY DEF Reaches
<1>2. registered = NumProcesses /\ NoneLostOf(sys, Process)
  BY <1>1, AllRegistered
<1>3. cpu \in Process \cup {NoProcess} /\ Consistent(sys)
  BY DEF IInv, TypeOK
<1>4. /\ cpu # NoProcess =>
           sys.current[PartitionOf[cpu]] = cpu /\ ~sys.halted[PartitionOf[cpu]]
      /\ mode = "svc" => cpu # NoProcess
  BY DEF IInv, OnCpu
<1>5. ASSUME mode = "fault" PROVE Recovering'
  <2>1. /\ faulty \in Process /\ ~sys.halted[PartitionOf[faulty]]
        /\ PartitionOf[i] = PartitionOf[faulty]
    BY <1>5 DEF IInv, Recovering, Reaches
  <2>2. ASSUME cpu # NoProcess, PartitionOf[cpu] # PartitionOf[faulty]
        PROVE  BestRuns(sys', PartitionOf[cpu])
    <3>1. BestRuns(sys, PartitionOf[cpu])
      BY <1>5, <2>2 DEF IInv, Recovering
    <3>2. /\ PartitionOf[i] \in Partition
          /\ PartitionOf[cpu] \in Partition \ {PartitionOf[i]}
      BY <1>3, <2>1, <2>2, ConfigAssumption
    <3> QED BY <1>3, <3>1, <3>2, BestRunsElsewhere
  <2> QED BY <2>1, <2>2 DEF Recovering
<1> QED BY <1>1, <1>2, <1>3, <1>4, <1>5, AfterStartUp

LEMMA WakeStep ==
  ASSUME IInv, NEW i \in Process, Wake(i)
  PROVE  IInv'
<1> DEFINE m == ReadyProcess(sys, i)
<1>1. /\ Reaches(i) /\ sys.state[i] = "BLOCKED" /\ sys' = m /\ cpu' = cpu
      /\ mode' = mode /\ registered' = registered /\ faulty' = faulty
  BY DEF Wake
<1>2. Consistent(sys) /\ sys \in TableType
  BY DEF IInv, Consistent
<1>3. /\ Consistent(m) /\ m.current = sys.current /\ m.halted = sys.halted
      /\ m.state = [sys.state EXCEPT ![i] = "READY"]
      /\ \A j \in Process : Queued(m, j) <=> Queued(sys, j) \/ j = i
  BY <1>1, <1>2, ReadyProcessKeeps
<1>4. SameElsewhere(sys, m, PartitionOf[i])
  BY <1>2, ReadyProcessElsewhere
<1> HIDE DEF m
<1>5. KeepsReady(sys, m)
  BY <1>2, <1>3 DEF KeepsReady, TableType
<1> QED BY <1>1, <1>3, <1>4, <1>5, CpuUntouched

LEMMA ChangePriorityStep ==
  ASSUME IInv, NEW i \in Process, NEW q \in Priority, ChangePriority(i, q)
  PROVE  IInv'
<1> DEFINE m == SetProcessPriority(sys, i, q)
<1>1. /\ Reaches(i) /\ sys' = m /\ cpu' = cpu
      /\ mode' = mode /\ registered' = registered /\ faulty' = faulty
  BY DEF ChangePriority
<1>2. Consistent(sys) /\ sys \in TableType
  BY DEF IInv, Consistent
<1>3. /\ Consistent(m) /\ m.current = sys.current /\ m.halted = sys.halted
      /\ m.state = sys.state
      /\ \A j \in Process : Queued(m, j) <=> Queued(sys, j)
  <2>1. LET z == SetProcessPriority(sys, i, q) IN
        /\ Consistent(z) /\ z.current = sys.current /\ z.halted = sys.halted
        /\ z.state = sys.state
        /\ z.priority = [sys.priority EXCEPT ![i] = q]
        /\ \A j \in Process : Queued(z, j) <=> Queued(sys, j)
    BY <1>2, SetPriorityKeeps
  <2> QED BY <2>1
<1>4. SameElsewhere(sys, m, PartitionOf[i])
  BY <1>2, SetPriorityElsewhere
<1> HIDE DEF m
<1>5. KeepsReady(sys, m)
  BY <1>3 DEF KeepsReady
<1>6. /\ Consistent(sys') /\ KeepsReady(sys, sys')
      /\ sys'.current = sys.current /\ sys'.halted = sys.halted
      /\ SameElsewhere(sys, sys', PartitionOf[i])
  BY <1>1, <1>3, <1>4, <1>5
<1> QED BY <1>1, <1>6, CpuUntouched

\* A restart and the yield of the partition, for a process i in any state.
LEMMA RestartAndYield ==
  ASSUME NEW k, Consistent(k), NEW i \in Process,
         SelectStatus(RestartProcess(k, i), PartitionOf[i], TRUE) = "OK"
  PROVE  LET p == PartitionOf[i]
             m == PartitionYield(RestartProcess(k, i), p)
             c == m.current[p]
         IN  /\ Consistent(m) /\ KeepsReady(k, m) /\ m.halted = k.halted
             /\ SameElsewhere(k, m, p)
             /\ c \in Process /\ PartitionOf[c] = p /\ ~m.halted[p]
             /\ BestRuns(m, p)
<1> DEFINE p == PartitionOf[i]
           restarted == RestartProcess(k, i)
           m == PartitionSelect(restarted, p, TRUE)
<1>1. p \in Partition /\ TRUE \in BOOLEAN /\ k \in TableType
  BY ConfigAssumption DEF Consistent
<1>2. /\ Consistent(restarted) /\ restarted.halted = k.halted
      /\ KeepsReady(k, restarted)
  BY RestartProcessKeeps
<1>3. SameElsewhere(k, restarted, p)
  BY <1>1, RestartProcessElsewhere
<1>4. SelectStatus(restarted, p, TRUE) = "OK"
  OBVIOUS
<1>5. PartitionYield(RestartProcess(k, i), p) = m
  BY DEF PartitionYield
<1> HIDE DEF restarted
<1>6. Consistent(m) /\ KeepsReady(restarted, m) /\ m.halted = restarted.halted
  BY <1>1, <1>2, SelectKeeps
<1>7. /\ m.current[p] \in Process /\ PartitionOf[m.current[p]] = p
      /\ ~m.halted[p] /\ BestRuns(m, p)
  BY <1>1, <1>2, <1>4, SelectRuns
<1>8. SameElsewhere(restarted, m, p)
  BY <1>1, <1>2, SelectElsewhere DEF Consistent
<1> HIDE DEF m
<1>9. SameElsewhere(k, m, p)
  BY <1>3, <1>8, ElsewhereTransitive
<1>10. KeepsReady(k, m)
  BY <1>2, <1>6 DEF KeepsReady, NoneLostOf
<1> QED BY <1>2, <1>5, <1>6, <1>7, <1>9, <1>10

LEMMA RestartFaultingStep == IInv /\ RestartFaulting => IInv'
<1> SUFFICES ASSUME IInv, RestartFaulting PROVE IInv'
  OBVIOUS
<1> DEFINE p == PartitionOf[faulty]
           m == PartitionYield(RestartProcess(sys, faulty), p)
<1>1. /\ mode = "fault" /\ mode' = "thread" /\ sys' = m
      /\ registered' = registered /\ faulty' = NoProcess
      /\ SelectStatus(RestartProcess(sys, faulty), p, TRUE) = "OK"
      /\ cpu' = IF cpu # NoProcess /\ PartitionOf[cpu] = p
                THEN m.current[p] ELSE cpu
  BY DEF RestartFaulting
<1>2. /\ registered = NumProcesses /\ NoneLostOf(sys, Process)
      /\ cpu \in Process \cup {NoProcess} /\ Consistent(sys)
  BY <1>1, AllRegistered DEF IInv, TypeOK
<1>3. faulty \in Process /\ p \in Partition
  BY <1>1, ConfigAssumption DEF IInv, Recovering
<1>4. /\ Consistent(m) /\ KeepsReady(sys, m) /\ m.halted = sys.halted
      /\ SameElsewhere(sys, m, p)
      /\ m.current[p] \in Process /\ PartitionOf[m.current[p]] = p
      /\ ~m.halted[p] /\ BestRuns(m, p)
  BY <1>1, <1>2, <1>3, RestartAndYield
<1> HIDE DEF m
<1>5. CASE cpu # NoProcess /\ PartitionOf[cpu] = p
  BY <1>1, <1>2, <1>4, <1>5, AfterStartUp
<1>6. CASE cpu = NoProcess
  BY <1>1, <1>2, <1>4, <1>6, AfterStartUp
<1>7. CASE cpu # NoProcess /\ PartitionOf[cpu] # p
  <2>1. BestRuns(sys, PartitionOf[cpu])
    BY <1>1, <1>7 DEF IInv, Recovering
  <2>2. /\ sys.current[PartitionOf[cpu]] = cpu /\ ~sys.halted[PartitionOf[cpu]]
        /\ PartitionOf[cpu] \in Partition \ {p}
    BY <1>7, OnCpuRuns
  <2>3. BestRuns(m, PartitionOf[cpu])
    BY <1>2, <1>3, <1>4, <2>1, <2>2, BestRunsElsewhere
  <2>4. m.current[PartitionOf[cpu]] = cpu /\ ~m.halted[PartitionOf[cpu]]
    BY <1>4, <2>2 DEF SameElsewhere
  <2> QED BY <1>1, <1>2, <1>4, <1>7, <2>3, <2>4, AfterStartUp
<1> QED BY <1>5, <1>6, <1>7

LEMMA RestartMissedStep ==
  ASSUME IInv, NEW i \in Process, RestartMissed(i)
  PROVE  IInv'
<1> DEFINE restarted == RestartProcess(sys, i)
           p == PartitionOf[i]
           m == PartitionYield(restarted, p)
<1>1. /\ mode = "tick" /\ mode' = "tick"
      /\ registered' = registered /\ faulty' = faulty
  BY DEF RestartMissed
<1>2. /\ registered = NumProcesses /\ NoneLostOf(sys, Process)
      /\ cpu \in Process \cup {NoProcess} /\ Consistent(sys)
  BY <1>1, AllRegistered DEF IInv, TypeOK
<1>3. CASE i = cpu
  <2>1. /\ sys' = m /\ cpu' = NoProcess
        /\ SelectStatus(RestartProcess(sys, i), p, TRUE) = "OK"
    BY <1>3 DEF RestartMissed
  <2>2. Consistent(m) /\ KeepsReady(sys, m)
    BY <1>2, <2>1, RestartAndYield
  <2> HIDE DEF m
  <2> QED BY <1>1, <1>2, <2>1, <2>2, AfterStartUp
<1>4. CASE i # cpu
  <2>1. sys' = restarted /\ cpu' = cpu
    BY <1>4 DEF RestartMissed
  <2>2. /\ Consistent(restarted) /\ restarted.halted = sys.halted
        /\ KeepsReady(sys, restarted)
        /\ \A r \in Partition :
             restarted.current[r] = sys.current[r] \/ sys.current[r] = i
    BY <1>2, RestartProcessKeeps
  <2> HIDE DEF restarted
  <2>3. cpu # NoProcess =>
          /\ restarted.current[PartitionOf[cpu]] = cpu
          /\ ~restarted.halted[PartitionOf[cpu]]
    BY <1>4, <2>2, OnCpuRuns
  <2> QED BY <1>1, <1>2, <2>1, <2>2, <2>3, AfterStartUp
<1> QED BY <1>3, <1>4

LEMMA HaltStep ==
  ASSUME IInv, NEW i \in Process, HaltOn(i)
  PROVE  IInv'
<1> DEFINE p == PartitionOf[i]
           m == HaltPartition(sys, p)
<1>1. /\ mode \in {"thread", "tick"} /\ mode' = mode
      /\ registered' = registered /\ faulty' = faulty /\ sys' = m
      /\ cpu' = IF cpu # NoProcess /\ PartitionOf[cpu] = p
                THEN NoProcess ELSE cpu
  BY DEF HaltOn
<1>2. /\ registered = NumProcesses /\ NoneLostOf(sys, Process)
      /\ cpu \in Process \cup {NoProcess} /\ Consistent(sys)
      /\ sys \in TableType /\ p \in Partition
  BY <1>1, AllRegistered, ConfigAssumption DEF IInv, TypeOK
<1>3. /\ m \in TableType /\ m.state = sys.state /\ m.priority = sys.priority
      /\ m.ready = sys.ready /\ m.current = sys.current
      /\ m.halted = [sys.halted EXCEPT ![p] = TRUE]
  BY <1>2 DEF HaltPartition, TableType
<1> HIDE DEF m
<1>4. Consistent(m) /\ KeepsReady(sys, m)
  BY <1>2, <1>3 DEF Consistent, RunningIsCurrent, QueuesSound, KeepsReady, Queued
<1>5. CASE cpu # NoProcess /\ PartitionOf[cpu] = p
  BY <1>1, <1>2, <1>4, <1>5, AfterStartUp
<1>6. CASE cpu = NoProcess
  BY <1>1, <1>2, <1>4, <1>6, AfterStartUp
<1>7. CASE cpu # NoProcess /\ PartitionOf[cpu] # p
  <2>1. m.current[PartitionOf[cpu]] = cpu /\ ~m.halted[PartitionOf[cpu]]
    BY <1>2, <1>3, <1>7, OnCpuRuns DEF TableType
  <2>2. mode = "thread" => BestRuns(m, PartitionOf[cpu])
    <3>1. mode = "thread" => BestRuns(sys, PartitionOf[cpu])
      BY <1>7, OnCpuRuns DEF IInv, NotOutranked, BestRuns
    <3> QED BY <1>3, <3>1 DEF BestRuns, HasHigher, ReadyMask
  <2>3. cpu' = cpu
    BY <1>1, <1>7
  <2> QED BY <1>1, <1>2, <1>4, <1>7, <2>1, <2>2, <2>3, AfterStartUp
<1> QED BY <1>5, <1>6, <1>7

-----------------------------------------------------------------------------
\* The invariant is inductive ...
LEMMA Inductive == IInv /\ [Next]_vars => IInv'
<1> SUFFICES ASSUME IInv, [Next]_vars PROVE IInv'
  OBVIOUS
<1>1. CASE Register
  BY <1>1, RegisterStep
<1>2. CASE \E p \in Partition : StartScheduler(p) \/ TickDispatch(p)
  BY <1>2, StartSchedulerStep, TickDispatchStep
<1>3. CASE TickBegin \/ SvcBegin
  BY <1>3, BeginStep
<1>4. CASE Yield
  BY <1>4, YieldStep
<1>5. CASE Block
  BY <1>5, BlockStep
<1>6. CASE WaitIdle
  BY <1>6, WaitIdleStep
<1>7. CASE PreemptCheck
  BY <1>7, PreemptCheckStep
<1>8. CASE \E i \in Process : Wake(i) \/ \E q \in Priority : ChangePriority(i, q)
  BY <1>8, WakeStep, ChangePriorityStep
<1>9. CASE RestartFaulting
  BY <1>9, RestartFaultingStep
<1>10. CASE \E i \in Process : FaultBegin(i) \/ RestartMissed(i) \/ HaltOn(i)
  BY <1>10, FaultBeginStep, RestartMissedStep, HaltStep
<1>11. CASE UNCHANGED vars
  BY <1>11 DEF vars, IInv, TypeOK, NoneLost, StartUp, OnCpu, NotOutranked,
               Recovering
<1> QED BY <1>1, <1>2, <1>3, <1>4, <1>5, <1>6, <1>7, <1>8, <1>9, <1>10, <1>11
        DEF Next

\* ... and so holds in every reachable state.
THEOREM Invariance == Spec => []IInv
BY Initially, Inductive, PTL DEF Spec

\* The record of the partition table, the CPU and the handler always have
\* values of their types: no operation of the dispatcher leaves the pool.
THEOREM TypeCorrect == Spec => []TypeOK
<1>1. IInv => TypeOK
  BY DEF IInv
<1> QED BY <1>1, Invariance, PTL

\* A process is RUNNING exactly if its partition records it as current,
\* through every dispatch, wait, wake-up and recovery.
THEOREM RunningAgrees == Spec => []CurrentIsRunning
<1>1. IInv => CurrentIsRunning
  BY DEF IInv, Consistent, CurrentIsRunning
<1> QED BY <1>1, Invariance, PTL

\* Ready queues hold READY processes of their partition and priority, once
\* each, also after a change of priority.
THEOREM QueuesHoldReady == Spec => []OnlyReadyQueued
<1>1. IInv => OnlyReadyQueued
  BY DEF IInv, Consistent, OnlyReadyQueued
<1> QED BY <1>1, Invariance, PTL

\* Every registered READY process is in the queue it belongs to, so none of
\* the sequences of kernel operations strands one.
THEOREM NoProcessLost == Spec => []NoneLost
<1>1. IInv => NoneLost
  BY DEF IInv
<1> QED BY <1>1, Invariance, PTL

\* Between two handlers no READY process of the running process's partition
\* has a better priority: the preemption check and the tick suffice.
THEOREM PriorityScheduling == Spec => []NotOutranked
<1>1. IInv => NotOutranked
  BY DEF IInv
<1> QED BY <1>1, Invariance, PTL

\* Between two handlers the CPU has the current process of a partition that
\* is not halted.
THEOREM CpuAgrees == Spec => []CpuIsCurrent
<1>1. IInv => CpuIsCurrent
  BY DEF IInv, OnCpu, CpuIsCurrent
<1> QED BY <1>1, Invariance, PTL

\* No dispatch takes one of the error returns for a corrupt table or a full
\* ready queue.
THEOREM DispatchNeverFails == Spec => []DispatchConsistent
<1>1. IInv => DispatchConsistent
  <2> SUFFICES ASSUME IInv, NEW p \in Partition, NEW y \in BOOLEAN
               PROVE  SelectStatus(sys, p, y)
                        \in {"OK", "QUEUE_EMPTY", "PARTITION_HALTED"}
    BY DEF DispatchConsistent
  <2> QED BY SelectStatusOf DEF IInv
<1> QED BY <1>1, Invariance, PTL

\* Every recovery finds a process to continue with, whatever the restart has
\* woken and raised before, so a fault does not stop the system.
THEOREM RecoveryContinues == Spec => []RestartCanDispatch
<1>1. IInv => RestartCanDispatch
  <2> SUFFICES ASSUME IInv PROVE RestartCanDispatch
    OBVIOUS
  <2>1. ASSUME mode = "fault" PROVE CanRestart(faulty)
    BY <2>1, AllRegistered, RestartDispatches DEF IInv, Recovering
  <2>2. ASSUME mode = "tick", cpu # NoProcess PROVE CanRestart(cpu)
    BY <2>2, AllRegistered, OnCpuRuns, RestartDispatches DEF IInv
  <2> QED BY <2>1, <2>2 DEF RestartCanDispatch
<1> QED BY <1>1, Invariance, PTL

-----------------------------------------------------------------------------
(* The order within the ready queues.                                      *)

\* i comes before j in s.
Before(s, i, j) ==
  \E a, b \in 1 .. Len(s) : a < b /\ s[a] = i /\ s[b] = j

LEMMA BeforeIsIndex ==
  ASSUME NEW s \in Seq(Process), NoRepeats(s), NEW i, IsIn(s, i), NEW j, IsIn(s, j)
  PROVE  IndexIn(s, i) < IndexIn(s, j) <=> Before(s, i, j)
<1>1. Len(s) \in Nat
  OBVIOUS
<1>2. ASSUME NEW x, NEW a \in 1 .. Len(s), s[a] = x
      PROVE  IndexIn(s, x) = a
  <2>1. \A b \in 1 .. a - 1 : s[b] # x
    BY <1>1, <1>2 DEF NoRepeats
  <2>2. \A c \in 1 .. Len(s) : s[c] = x => c = a
    BY <1>2 DEF NoRepeats
  <2> QED BY <1>2, <2>1, <2>2 DEF IndexIn
<1>3. PICK a \in 1 .. Len(s) : s[a] = i
  BY DEF IsIn
<1>4. PICK b \in 1 .. Len(s) : s[b] = j
  BY DEF IsIn
<1>5. IndexIn(s, i) = a /\ IndexIn(s, j) = b
  BY <1>2, <1>3, <1>4
<1>6. \A c, d \in 1 .. Len(s) : s[c] = i /\ s[d] = j => c = a /\ d = b
  BY <1>3, <1>4 DEF NoRepeats
<1> QED BY <1>3, <1>4, <1>5, <1>6 DEF Before

LEMMA BeforeAreIn ==
  ASSUME NEW s, NEW i, NEW j, Before(s, i, j)
  PROVE  IsIn(s, i) /\ IsIn(s, j)
BY DEF Before, IsIn

\* Queueing at either end leaves the order of those that are queued ...
LEMMA AddingKeepsOrder ==
  ASSUME NEW s \in Seq(Process), NEW x \in Process, NEW i, NEW j, Before(s, i, j)
  PROVE  Before(Append(s, x), i, j) /\ Before(<<x>> \o s, i, j)
<1> DEFINE t == <<x>> \o s
<1>1. PICK a \in 1 .. Len(s), b \in 1 .. Len(s) : a < b /\ s[a] = i /\ s[b] = j
  BY DEF Before
<1>2. Len(s) \in Nat
  OBVIOUS
<1>3. /\ Len(Append(s, x)) = Len(s) + 1
      /\ \A c \in 1 .. Len(s) : Append(s, x)[c] = s[c]
  BY AppendProperties
<1>4. Before(Append(s, x), i, j)
  <2>1. a \in 1 .. Len(Append(s, x)) /\ b \in 1 .. Len(Append(s, x))
    BY <1>2, <1>3
  <2>2. Append(s, x)[a] = i /\ Append(s, x)[b] = j
    BY <1>1, <1>3
  <2> QED BY <1>1, <2>1, <2>2 DEF Before
<1>5. Len(t) = Len(s) + 1 /\ \A c \in 1 .. Len(s) : t[c + 1] = s[c]
  <2>1. <<x>> \in Seq(Process) /\ Len(<<x>>) = 1
    OBVIOUS
  <2>2. /\ Len(t) = 1 + Len(s)
        /\ \A c \in 1 .. 1 + Len(s) : t[c] = IF c <= 1 THEN <<x>>[c] ELSE s[c - 1]
    BY <2>1, ConcatProperties
  <2> QED BY <1>2, <2>2
<1>6. Before(t, i, j)
  <2> HIDE DEF t
  <2>1. /\ a + 1 \in 1 .. Len(t) /\ b + 1 \in 1 .. Len(t) /\ a + 1 < b + 1
        /\ t[a + 1] = i /\ t[b + 1] = j
    BY <1>1, <1>2, <1>5
  <2> QED BY <2>1 DEF Before
<1> QED BY <1>4, <1>6

\* ... and so does taking out the first, or any other.
LEMMA TailKeepsOrder ==
  ASSUME NEW s \in Seq(Process), s # <<>>, NEW i, NEW j, i # Head(s), Before(s, i, j)
  PROVE  Before(Tail(s), i, j)
<1>1. PICK a \in 1 .. Len(s), b \in 1 .. Len(s) : a < b /\ s[a] = i /\ s[b] = j
  BY DEF Before
<1>2. /\ Len(s) \in Nat \ {0} /\ Head(s) = s[1] /\ Len(Tail(s)) = Len(s) - 1
      /\ \A c \in 1 .. Len(Tail(s)) : Tail(s)[c] = s[c + 1]
  BY HeadTailProperties, EmptySeq
<1>3. a # 1
  BY <1>1, <1>2
<1>4. /\ a - 1 \in 1 .. Len(Tail(s)) /\ b - 1 \in 1 .. Len(Tail(s)) /\ a - 1 < b - 1
      /\ Tail(s)[a - 1] = i /\ Tail(s)[b - 1] = j
  BY <1>1, <1>2, <1>3
<1> QED BY <1>4 DEF Before

LEMMA WithoutKeepsOrder ==
  ASSUME NEW s \in Seq(Process), NoRepeats(s), NEW x \in Process, IsIn(s, x),
         NEW i, NEW j, i # x, j # x, Before(s, i, j)
  PROVE  Before(Without(s, x), i, j)
<1> DEFINE t == Without(s, x)
           c == IndexIn(s, x)
<1>1. PICK a \in 1 .. Len(s), b \in 1 .. Len(s) : a < b /\ s[a] = i /\ s[b] = j
  BY DEF Before
<1>2. PICK y \in 1 .. Len(s) : s[y] = x
  BY DEF IsIn
<1>3. Len(s) \in Nat
  OBVIOUS
<1>4. c = y
  <2>1. \A b2 \in 1 .. y - 1 : s[b2] # x
    BY <1>2, <1>3 DEF NoRepeats
  <2>2. \A d \in 1 .. Len(s) : s[d] = x => d = y
    BY <1>2 DEF NoRepeats
  <2> QED BY <1>2, <2>1, <2>2 DEF IndexIn
<1>5. Len(t) = Len(s) - 1
  BY WithoutKeeps
<1>6. \A d \in 1 .. Len(s) - 1 : t[d] = IF d < c THEN s[d] ELSE s[d + 1]
  BY DEF Without
<1> HIDE DEF t, c
<1> DEFINE at(d) == IF d < y THEN d ELSE d - 1
<1>7. \A d \in 1 .. Len(s) : d # y => at(d) \in 1 .. Len(t) /\ t[at(d)] = s[d]
  BY <1>2, <1>3, <1>4, <1>5, <1>6
<1>8. a # y /\ b # y
  BY <1>1, <1>2
<1>9. at(a) < at(b)
  BY <1>1, <1>8
<1>10. at(a) \in 1 .. Len(t) /\ at(b) \in 1 .. Len(t) /\ t[at(a)] = i /\ t[at(b)] = j
  BY <1>1, <1>7, <1>8
<1>11. Before(t, i, j)
  BY <1>9, <1>10 DEF Before
<1> QED BY <1>11 DEF t

-----------------------------------------------------------------------------
(* What an operation on the table does to the order of its queues.         *)

\* No two change places, but that process x may leave its place.
Ordered(k, m, x) ==
  \A p \in Partition, q \in Priority, i, j \in Process \ {x} :
    Before(k.ready[p][q], i, j) => Before(m.ready[p][q], i, j)

LEMMA OrderedThen ==
  ASSUME NEW k, NEW l, NEW m, NEW x,
         Ordered(k, l, NoProcess) \/ Ordered(k, l, x),
         Ordered(l, m, NoProcess) \/ Ordered(l, m, x)
  PROVE  Ordered(k, m, x)
<1>1. NoProcess \notin Process
  BY ConfigAssumption DEF Process, NoProcess
<1> QED BY <1>1 DEF Ordered

LEMMA SameReadyOrdered ==
  ASSUME NEW k, NEW m, m.ready = k.ready, NEW x
  PROVE  Ordered(k, m, x)
BY DEF Ordered

LEMMA EnqueueOrdered ==
  ASSUME NEW k \in TableType, NEW p \in Partition, NEW i \in Process
  PROVE  /\ Ordered(k, Enqueue(k, p, i), NoProcess)
         /\ Ordered(k, EnqueueFront(k, p, i), NoProcess)
<1> DEFINE q == k.priority[i]
           s == k.ready[p][q]
<1>1. q \in Priority /\ \A r \in Partition, c \in Priority : k.ready[r][c] \in Seq(Process)
  BY DEF TableType
<1>2. \A r \in Partition, c \in Priority :
        /\ Enqueue(k, p, i).ready[r][c]
             = IF r = p /\ c = q THEN Append(s, i) ELSE k.ready[r][c]
        /\ EnqueueFront(k, p, i).ready[r][c]
             = IF r = p /\ c = q THEN <<i>> \o s ELSE k.ready[r][c]
  BY <1>1 DEF Enqueue, EnqueueFront, TableType
<1>3. \A a, b : Before(s, a, b) => Before(Append(s, i), a, b) /\ Before(<<i>> \o s, a, b)
  BY <1>1, AddingKeepsOrder
<1> HIDE DEF s
<1> QED BY <1>2, <1>3 DEF Ordered, s

LEMMA PopOrdered ==
  ASSUME NEW k \in TableType, QueuesSound(k), NEW p \in Partition,
         ReadyMask(k, p) # {}
  PROVE  Ordered(k, PopBest(k, p), NextReady(k, p))
<1> DEFINE q == BestPriority(k, p)
           s == k.ready[p][q]
<1>1. q \in ReadyMask(k, p)
  BY BestIsQueued
<1>2. q \in Priority /\ s # <<>> /\ s \in Seq(Process) /\ NextReady(k, p) = Head(s)
  BY <1>1 DEF ReadyMask, TableType, NextReady
<1>3. \A r \in Partition, c \in Priority :
        PopBest(k, p).ready[r][c] = IF r = p /\ c = q THEN Tail(s) ELSE k.ready[r][c]
  BY <1>2 DEF PopBest, TableType
<1>4. \A a, b : a # Head(s) /\ Before(s, a, b) => Before(Tail(s), a, b)
  BY <1>2, TailKeepsOrder
<1> HIDE DEF s, q
<1> QED BY <1>2, <1>3, <1>4 DEF Ordered, s

LEMMA RemoveOrdered ==
  ASSUME NEW k \in TableType, QueuesSound(k), NEW x \in Process, Queued(k, x)
  PROVE  Ordered(k, RemoveProcess(k, x), x)
<1> DEFINE p == PartitionOf[x]
           q == k.priority[x]
           s == k.ready[p][q]
<1>1. p \in Partition /\ q \in Priority /\ s \in Seq(Process) /\ NoRepeats(s) /\ IsIn(s, x)
  BY ConfigAssumption DEF TableType, QueuesSound, Queued
<1>2. \A r \in Partition, c \in Priority :
        RemoveProcess(k, x).ready[r][c]
          = IF r = p /\ c = q THEN Without(s, x) ELSE k.ready[r][c]
  BY <1>1 DEF RemoveProcess, TableType
<1>3. \A a, b : a # x /\ b # x /\ Before(s, a, b) => Before(Without(s, x), a, b)
  BY <1>1, WithoutKeepsOrder
<1> HIDE DEF s
<1> QED BY <1>2, <1>3 DEF Ordered, s

LEMMA AddProcessOrdered ==
  ASSUME NEW k \in TableType, NEW i \in Process
  PROVE  /\ Ordered(k, AddProcess(k, i), NoProcess)
         /\ Ordered(k, ReadyProcess(k, i), NoProcess)
<1> DEFINE l == SetState(k, i, "READY")
<1>1. PartitionOf[i] \in Partition
  BY ConfigAssumption
<1>2. ASSUME NEW n \in TableType PROVE Ordered(n, AddProcess(n, i), NoProcess)
  BY <1>1, EnqueueOrdered, SameReadyOrdered DEF AddProcess
<1>3. l \in TableType /\ l.ready = k.ready
  BY DEF SetState, TableType, ProcessState
<1>4. ReadyProcess(k, i) = AddProcess(l, i)
  BY DEF ReadyProcess
<1> HIDE DEF l
<1>5. Ordered(k, l, NoProcess) /\ Ordered(l, AddProcess(l, i), NoProcess)
  BY <1>2, <1>3, SameReadyOrdered
<1> QED BY <1>2, <1>4, <1>5, OrderedThen

LEMMA RestartOrdered ==
  ASSUME NEW k \in TableType, NEW i \in Process
  PROVE  Ordered(k, RestartProcess(k, i), NoProcess)
<1>1. CASE k.state[i] = "RUNNING"
  <2> DEFINE l == ReadyProcess(k, i)
  <2>1. RestartProcess(k, i) = Leave(l, PartitionOf[i])
    BY <1>1 DEF RestartProcess, RestartRunning, ReadyProcess
  <2>2. Ordered(k, l, NoProcess)
    BY AddProcessOrdered
  <2> HIDE DEF l
  <2>3. Leave(l, PartitionOf[i]).ready = l.ready
    BY DEF Leave
  <2> QED BY <2>1, <2>2, <2>3 DEF Ordered
<1>2. CASE k.state[i] = "BLOCKED"
  BY <1>2, AddProcessOrdered DEF RestartProcess
<1>3. CASE k.state[i] \notin {"RUNNING", "BLOCKED"}
  BY <1>3, SameReadyOrdered DEF RestartProcess
<1> QED BY <1>1, <1>2, <1>3

\* A dispatch or a yield takes the best process out and puts the one that ran
\* at the end of its queue that the code says.
LEMMA SelectQueues ==
  ASSUME NEW k, Consistent(k), NEW p \in Partition, NEW y \in BOOLEAN,
         PartitionSelect(k, p, y) # k
  PROVE  LET m == PartitionSelect(k, p, y)
             n == NextReady(k, p)
             cur == k.current[p]
             l == PopBest(k, p)
         IN  /\ n \in Process /\ ~Queued(m, n) /\ Ordered(k, m, n)
             /\ m.current[p] = n
             /\ cur = NoProcess => m.ready = l.ready
             /\ cur # NoProcess =>
                  /\ TakesOver(k.priority[n], k.priority[cur], y)
                  /\ l.ready[p][k.priority[cur]] \in Seq(Process)
                  /\ m.ready[p][k.priority[cur]] =
                       IF y THEN Append(l.ready[p][k.priority[cur]], cur)
                       ELSE <<cur>> \o l.ready[p][k.priority[cur]]
<1> DEFINE m   == PartitionSelect(k, p, y)
           n   == NextReady(k, p)
           cur == k.current[p]
           l   == PopBest(k, p)
           b   == IF cur = NoProcess THEN l ELSE Requeue(l, p, cur, y)
<1>1. /\ Switches(k, p, y) /\ m = Run(b, p, n)
  BY DEF PartitionSelect
<1>2. k \in TableType /\ QueuesSound(k) /\ ReadyMask(k, p) # {}
  BY <1>1 DEF Consistent, Switches
<1>3. /\ n \in Process /\ PartitionOf[n] = p /\ k.priority[n] = BestPriority(k, p)
      /\ TakenOut(k, l, n)
  BY <1>2, BestIsQueued
<1>4. l \in TableType /\ Ordered(k, l, n) /\ l.priority = k.priority
      /\ l.current = k.current
  BY <1>2, <1>3, PopOrdered DEF TakenOut, SameButQueues
<1>5. /\ m.ready = b.ready /\ m.state = [b.state EXCEPT ![n] = "RUNNING"]
      /\ m.current = [b.current EXCEPT ![p] = n]
  BY <1>1 DEF Run
<1> HIDE DEF l, n
<1>6. /\ b \in TableType /\ b.current = k.current /\ Ordered(l, b, NoProcess)
      /\ cur # NoProcess =>
           /\ l.ready[p][k.priority[cur]] \in Seq(Process)
           /\ b.ready[p][k.priority[cur]] =
                IF y THEN Append(l.ready[p][k.priority[cur]], cur)
                ELSE <<cur>> \o l.ready[p][k.priority[cur]]
  <2>1. CASE cur = NoProcess
    BY <1>4, <2>1, SameReadyOrdered
  <2>2. CASE cur # NoProcess
    <3> DEFINE back == SetState(l, cur, "READY")
    <3>1. cur \in Process
      BY <1>2, <2>2 DEF TableType
    <3>2. /\ back \in TableType /\ back.ready = l.ready
          /\ back.priority = l.priority /\ back.current = l.current
      BY <1>4, <3>1 DEF SetState, TableType, ProcessState
    <3>3. b = IF y THEN Enqueue(back, p, cur) ELSE EnqueueFront(back, p, cur)
      BY <2>2 DEF Requeue
    <3> HIDE DEF back
    <3>4. Ordered(l, back, NoProcess) /\ Ordered(back, b, NoProcess)
      BY <3>1, <3>2, <3>3, SameReadyOrdered, EnqueueOrdered
    <3>5. Ordered(l, b, NoProcess)
      BY <3>4, OrderedThen
    <3>6. /\ back.priority[cur] \in Priority /\ back.priority[cur] = k.priority[cur]
          /\ l.ready[p][k.priority[cur]] \in Seq(Process)
      BY <1>2, <1>4, <3>1, <3>2 DEF TableType
    <3>7. /\ b \in TableType /\ b.current = k.current
          /\ b.ready[p][k.priority[cur]] =
               IF y THEN Append(l.ready[p][k.priority[cur]], cur)
               ELSE <<cur>> \o l.ready[p][k.priority[cur]]
      <4>1. /\ Append(back.ready[p][back.priority[cur]], cur) \in Seq(Process)
            /\ <<cur>> \o back.ready[p][back.priority[cur]] \in Seq(Process)
        BY <3>1, <3>2, <3>6
      <4> DEFINE c == back.priority[cur]
                 t == IF y THEN Append(back.ready[p][c], cur)
                      ELSE <<cur>> \o back.ready[p][c]
      <4>2. b = [back EXCEPT !.ready[p][c] = t]
        BY <3>3 DEF Enqueue, EnqueueFront
      <4>3. c \in Priority /\ t \in Seq(Process)
        BY <3>6, <4>1
      <4>4. t = IF y THEN Append(l.ready[p][k.priority[cur]], cur)
                ELSE <<cur>> \o l.ready[p][k.priority[cur]]
        BY <3>2, <3>6
      <4>5. c = k.priority[cur]
        BY <3>6
      <4> HIDE DEF t, c, b
      <4>6. /\ b.ready = [back.ready EXCEPT ![p][c] = t]
            /\ b.current = back.current
        BY <3>2, <4>2 DEF TableType
      <4>7. b.ready[p][c] = t
        BY <3>2, <4>3, <4>6 DEF TableType
      <4>8. b \in TableType
        BY <3>2, <4>2, <4>3 DEF TableType
      <4> QED BY <1>4, <3>2, <4>4, <4>5, <4>6, <4>7, <4>8 DEF b
    <3> QED BY <3>5, <3>6, <3>7
  <2> QED BY <2>1, <2>2
<1>7. Ordered(k, m, n)
  <2>1. Ordered(b, m, NoProcess)
    BY <1>5, SameReadyOrdered
  <2>2. Ordered(k, b, n)
    BY <1>4, <1>6, OrderedThen
  <2> QED BY <2>1, <2>2, OrderedThen
<1>8. m.state[n] = "RUNNING" /\ m.current[p] = n
  BY <1>3, <1>5, <1>6 DEF TableType
<1>9. ~Queued(m, n)
  BY <1>8 DEF Queued
<1>10. cur = NoProcess => m.ready = l.ready
  BY <1>5
<1>11. cur # NoProcess => TakesOver(k.priority[n], k.priority[cur], y)
  BY <1>1, <1>3 DEF Switches
<1> HIDE DEF m, b
<1>12. /\ n \in Process /\ ~Queued(m, n) /\ Ordered(k, m, n) /\ m.current[p] = n
       /\ cur = NoProcess => m.ready = l.ready
       /\ cur # NoProcess =>
            /\ TakesOver(k.priority[n], k.priority[cur], y)
            /\ l.ready[p][k.priority[cur]] \in Seq(Process)
            /\ m.ready[p][k.priority[cur]] =
                 IF y THEN Append(l.ready[p][k.priority[cur]], cur)
                 ELSE <<cur>> \o l.ready[p][k.priority[cur]]
  BY <1>3, <1>5, <1>6, <1>7, <1>8, <1>9, <1>10, <1>11
<1> QED BY <1>12 DEF m, l, n

\* Handing over to the best process takes that one out and adds nobody.
LEMMA BlockOrdered ==
  ASSUME NEW k, Consistent(k), NEW p \in Partition, NEW i \in Process,
         BlockStatus(k, p, i) = "OK"
  PROVE  LET m == BlockAndDispatch(k, p, i)
             n == NextReady(k, p)
         IN  n \in Process /\ ~Queued(m, n) /\ Ordered(k, m, n)
             /\ m.priority = k.priority
<1> DEFINE m == BlockAndDispatch(k, p, i)
           n == NextReady(k, p)
           l == PopBest(k, p)
           b == SetState(l, i, "BLOCKED")
<1>1. k \in TableType /\ QueuesSound(k) /\ ReadyMask(k, p) # {}
  BY DEF Consistent, BlockStatus
<1>2. n \in Process /\ TakenOut(k, l, n) /\ Ordered(k, l, n)
  BY <1>1, BestIsQueued, PopOrdered
<1>3. m = Run(b, p, n)
  BY DEF BlockAndDispatch
<1>4. l \in TableType /\ l.priority = k.priority
  BY <1>2 DEF TakenOut, SameButQueues
<1> HIDE DEF l, n
<1>5. b \in TableType /\ b.ready = l.ready /\ b.priority = l.priority
  BY <1>4 DEF SetState, TableType, ProcessState
<1> HIDE DEF b
<1>6. m.ready = b.ready /\ m.state[n] = "RUNNING" /\ m.priority = b.priority
  BY <1>2, <1>3, <1>5 DEF Run, TableType
<1> HIDE DEF m
<1>7. ~Queued(m, n)
  BY <1>6 DEF Queued
<1>8. Ordered(k, m, n)
  BY <1>2, <1>5, <1>6 DEF Ordered
<1> QED BY <1>2, <1>4, <1>5, <1>6, <1>7, <1>8 DEF m, n

\* A change of priority keeps the order of all but the process it concerns,
\* which goes behind those that have its new priority already.
LEMMA SetPriorityOrdered ==
  ASSUME NEW k, Consistent(k), NEW x \in Process, NEW r \in Priority,
         NEW i \in Process, NEW j \in Process, i # x,
         NEW p \in Partition, NEW q \in Priority,
         Before(k.ready[p][q], i, j),
         LET m == SetProcessPriority(k, x, r) IN
           IsIn(m.ready[p][q], i) /\ IsIn(m.ready[p][q], j)
  PROVE  Before(SetProcessPriority(k, x, r).ready[p][q], i, j)
<1> DEFINE m   == SetProcessPriority(k, x, r)
           px  == PartitionOf[x]
           out == RemoveProcess(k, x)
           new == SetPriority(out, x, r)
<1>1. k \in TableType /\ QueuesSound(k) /\ px \in Partition
  BY ConfigAssumption DEF Consistent
<1>2. CASE ~Queued(k, x)
  BY <1>2 DEF SetProcessPriority, SetPriority
<1>3. CASE Queued(k, x)
  <2>1. TakenOut(k, out, x) /\ Ordered(k, out, x)
    BY <1>1, <1>3, RemoveTakesOut, RemoveOrdered
  <2>2. out \in TableType /\ InNoQueue(out, x)
    BY <2>1 DEF TakenOut
  <2> HIDE DEF out
  <2>3. new \in TableType /\ new.ready = out.ready
    BY <2>2 DEF SetPriority, TableType
  <2>4. m \in {Enqueue(new, px, x), Enqueue(out, px, x)}
    BY <1>3 DEF SetProcessPriority, out
  <2> HIDE DEF new, m
  <2>5. PICK z \in {new, out} : m = Enqueue(z, px, x)
    BY <2>4
  <2>6. z \in TableType /\ z.ready = out.ready /\ InNoQueue(z, x)
    BY <2>2, <2>3, <2>5 DEF InNoQueue
  <2>7. Ordered(z, m, NoProcess)
    BY <1>1, <2>5, <2>6, EnqueueOrdered
  <2>8. Ordered(k, m, x)
    <3>1. Ordered(k, z, x)
      BY <2>1, <2>6 DEF Ordered
    <3> QED BY <2>7, <3>1, OrderedThen
  <2>9. CASE j # x
    BY <2>8, <2>9 DEF Ordered, m
  <2>10. CASE j = x
    <3> DEFINE s == z.ready[p][q]
    <3>1. s \in Seq(Process) /\ ~IsIn(s, x)
      BY <2>6 DEF TableType, InNoQueue
    <3>2. m.ready[p][q] = IF p = px /\ q = z.priority[x] THEN Append(s, x) ELSE s
      BY <1>1, <2>5, <2>6 DEF Enqueue, TableType
    <3> HIDE DEF s
    <3>3. m.ready[p][q] = Append(s, x)
      BY <2>10, <3>1, <3>2 DEF m
    <3>4. IsIn(Append(s, x), i)
      BY <3>3 DEF m
    <3>5. /\ Len(s) \in Nat /\ Len(Append(s, x)) = Len(s) + 1
          /\ \A a \in 1 .. Len(s) : Append(s, x)[a] = s[a]
          /\ Append(s, x)[Len(s) + 1] = x
      BY <3>1, AppendProperties
    <3>6. PICK a \in 1 .. Len(s) : Append(s, x)[a] = i
      BY <3>4, <3>5 DEF IsIn
    <3>7. Before(Append(s, x), i, x)
      BY <3>5, <3>6 DEF Before
    <3> QED BY <2>10, <3>3, <3>7 DEF m
  <2> QED BY <2>9, <2>10
<1> QED BY <1>1, <1>2, <1>3

-----------------------------------------------------------------------------
(* What a step does to the order among equals.                             *)

\* Nobody changes places or priority, but that one process may have left.
OrderedBut(k, m) ==
  /\ m.priority = k.priority
  /\ \E x : Ordered(k, m, x) /\ (x \in Process => ~Queued(m, x))

LEMMA NobodyIsNoProcess == NoProcess \notin Process
BY ConfigAssumption DEF Process, NoProcess

LEMMA SelectOrdered ==
  ASSUME NEW k, Consistent(k), NEW p \in Partition, NEW y \in BOOLEAN
  PROVE  OrderedBut(k, PartitionSelect(k, p, y))
<1> DEFINE m == PartitionSelect(k, p, y)
<1>1. m.priority = k.priority
  BY SelectKeeps
<1>2. CASE m = k
  BY <1>2, SameReadyOrdered, NobodyIsNoProcess DEF OrderedBut
<1>3. CASE m # k
  <2> DEFINE n == NextReady(k, p)
  <2>1. ~Queued(m, n) /\ Ordered(k, m, n)
    BY <1>3, SelectQueues
  <2> HIDE DEF m, n
  <2>2. OrderedBut(k, m)
    BY <1>1, <2>1 DEF OrderedBut, m
  <2> QED BY <2>2 DEF m
<1> QED BY <1>2, <1>3

LEMMA RestartKeepsPriority ==
  ASSUME NEW k \in TableType, NEW i \in Process
  PROVE  RestartProcess(k, i).priority = k.priority
<1> DEFINE l == SetState(k, i, "READY")
           a == AddProcess(l, i)
<1>1. l.priority = k.priority
  BY DEF SetState
<1>2. RestartProcess(k, i) \in {k, a, Leave(a, PartitionOf[i])}
  BY DEF RestartProcess, RestartRunning, ReadyProcess
<1> HIDE DEF l
<1>3. a.priority = l.priority
  BY DEF AddProcess, Enqueue
<1> HIDE DEF a
<1>4. Leave(a, PartitionOf[i]).priority = a.priority
  BY DEF Leave
<1> QED BY <1>1, <1>2, <1>3, <1>4

LEMMA RestartAndYieldOrdered ==
  ASSUME NEW k, Consistent(k), NEW i \in Process
  PROVE  /\ OrderedBut(k, RestartProcess(k, i))
         /\ OrderedBut(k, PartitionYield(RestartProcess(k, i), PartitionOf[i]))
<1> DEFINE l == RestartProcess(k, i)
           m == PartitionSelect(l, PartitionOf[i], TRUE)
<1>1. k \in TableType /\ PartitionOf[i] \in Partition /\ TRUE \in BOOLEAN
  BY ConfigAssumption DEF Consistent
<1>2. Consistent(l) /\ Ordered(k, l, NoProcess) /\ l.priority = k.priority
  BY <1>1, RestartProcessKeeps, RestartOrdered, RestartKeepsPriority
<1>3. PartitionYield(RestartProcess(k, i), PartitionOf[i]) = m
  BY DEF PartitionYield
<1> HIDE DEF l
<1>4. OrderedBut(l, m)
  BY <1>1, <1>2, SelectOrdered
<1> HIDE DEF m
<1>5. PICK x : Ordered(l, m, x) /\ (x \in Process => ~Queued(m, x))
  BY <1>4 DEF OrderedBut
<1>6. Ordered(k, m, x)
  BY <1>2, <1>5, OrderedThen
<1>7. OrderedBut(k, m)
  BY <1>2, <1>4, <1>5, <1>6 DEF OrderedBut
<1>8. OrderedBut(k, l)
  BY <1>2, NobodyIsNoProcess DEF OrderedBut
<1> QED BY <1>3, <1>7, <1>8 DEF l

LEMMA AddingOrdered ==
  ASSUME NEW k \in TableType, NEW i \in Process
  PROVE  OrderedBut(k, AddProcess(k, i)) /\ OrderedBut(k, ReadyProcess(k, i))
<1> DEFINE l == SetState(k, i, "READY")
<1>1. ASSUME NEW n PROVE AddProcess(n, i).priority = n.priority
  BY DEF AddProcess, Enqueue
<1>2. ReadyProcess(k, i) = AddProcess(l, i) /\ l.priority = k.priority
  BY DEF ReadyProcess, SetState
<1> HIDE DEF l
<1> QED BY <1>1, <1>2, AddProcessOrdered, NobodyIsNoProcess DEF OrderedBut

LEMMA IdleOrdered ==
  ASSUME NEW k \in TableType, NEW p, NEW i
  PROVE  OrderedBut(k, BlockIdle(k, p, i)) /\ OrderedBut(k, HaltPartition(k, p))
<1>1. /\ BlockIdle(k, p, i).ready = k.ready /\ BlockIdle(k, p, i).priority = k.priority
      /\ HaltPartition(k, p).ready = k.ready /\ HaltPartition(k, p).priority = k.priority
  BY DEF BlockIdle, Leave, SetState, HaltPartition
<1> QED BY <1>1, SameReadyOrdered, NobodyIsNoProcess DEF OrderedBut

\* Every step but a change of priority.
LEMMA StepOrdered ==
  ASSUME IInv, Next
  PROVE  \/ OrderedBut(sys, sys')
         \/ \E x \in Process, r \in Priority : ChangePriority(x, r)
<1>1. Consistent(sys) /\ sys \in TableType /\ TRUE \in BOOLEAN /\ FALSE \in BOOLEAN
  BY DEF IInv, Consistent
<1>2. OrderedBut(sys, sys)
  BY SameReadyOrdered, NobodyIsNoProcess DEF OrderedBut
<1>3. CASE Register
  <2>1. registered \in Process /\ sys' = AddProcess(sys, registered)
    BY <1>3, ConfigAssumption DEF Register, IInv, TypeOK, Process
  <2> QED BY <1>1, <2>1, AddingOrdered
<1>4. CASE \E p \in Partition : StartScheduler(p) \/ TickDispatch(p)
  BY <1>1, <1>4, SelectOrdered DEF StartScheduler, TickDispatch, PartitionDispatch
<1>5. CASE TickBegin \/ SvcBegin \/ \E i \in Process : FaultBegin(i)
  BY <1>2, <1>5 DEF TickBegin, SvcBegin, FaultBegin
<1>6. CASE Yield
  <2>1. PartitionOf[cpu] \in Partition
    BY <1>6, Caller DEF Yield
  <2> QED BY <1>1, <1>6, <2>1, SelectOrdered DEF Yield, PartitionYield
<1>7. CASE Block
  <2>1. /\ PartitionOf[cpu] \in Partition /\ cpu \in Process
        /\ BlockStatus(sys, PartitionOf[cpu], cpu) = "OK"
        /\ sys' = BlockAndDispatch(sys, PartitionOf[cpu], cpu)
    BY <1>7, Caller DEF Block
  <2>2. ~Queued(sys', NextReady(sys, PartitionOf[cpu]))
        /\ Ordered(sys, sys', NextReady(sys, PartitionOf[cpu]))
        /\ sys'.priority = sys.priority
    BY <1>1, <2>1, BlockOrdered
  <2> QED BY <2>2 DEF OrderedBut
<1>8. CASE WaitIdle
  BY <1>1, <1>8, IdleOrdered DEF WaitIdle
<1>9. CASE PreemptCheck
  <2>1. PartitionOf[cpu] \in Partition
    BY <1>9, Caller DEF PreemptCheck
  <2> QED BY <1>1, <1>2, <1>9, <2>1, SelectOrdered DEF PreemptCheck, PartitionDispatch
<1>10. CASE \E i \in Process : Wake(i)
  BY <1>1, <1>10, AddingOrdered DEF Wake
<1>11. CASE RestartFaulting
  <2>1. faulty \in Process
    BY <1>11 DEF RestartFaulting, IInv, Recovering
  <2>2. sys' = PartitionYield(RestartProcess(sys, faulty), PartitionOf[faulty])
    BY <1>11 DEF RestartFaulting
  <2> QED BY <1>1, <2>1, <2>2, RestartAndYieldOrdered
<1>12. CASE \E i \in Process : RestartMissed(i)
  <2>1. PICK i \in Process : RestartMissed(i)
    BY <1>12
  <2>2. sys' \in {RestartProcess(sys, i), PartitionYield(RestartProcess(sys, i), PartitionOf[i])}
    BY <2>1 DEF RestartMissed
  <2> QED BY <1>1, <2>2, RestartAndYieldOrdered
<1>13. CASE \E i \in Process : HaltOn(i)
  BY <1>1, <1>13, IdleOrdered DEF HaltOn
<1> QED BY <1>3, <1>4, <1>5, <1>6, <1>7, <1>8, <1>9, <1>10, <1>11, <1>12, <1>13 DEF Next

LEMMA PlaceIsBefore ==
  ASSUME NEW k, Consistent(k), NEW i \in Process, NEW j \in Process,
         PartitionOf[i] = PartitionOf[j], k.priority[i] = k.priority[j],
         Queued(k, i), Queued(k, j)
  PROVE  LET q == k.ready[PartitionOf[i]][k.priority[i]] IN
         /\ IsIn(q, i) /\ IsIn(q, j)
         /\ Place(k, i) < Place(k, j) <=> Before(q, i, j)
<1>1. /\ PartitionOf[i] \in Partition /\ k.priority[i] \in Priority
      /\ k \in TableType /\ QueuesSound(k)
  BY ConfigAssumption DEF Consistent, TableType
<1>2. LET q == k.ready[PartitionOf[i]][k.priority[i]] IN
      q \in Seq(Process) /\ NoRepeats(q) /\ IsIn(q, i) /\ IsIn(q, j)
  BY <1>1 DEF TableType, QueuesSound, Queued
<1> QED BY <1>2, BeforeIsIndex DEF Place

\* Of two equals the one ahead stays ahead, whatever wakes up, blocks, is
\* preempted or restarted, unless its own priority is changed: equals run in
\* the order in which they became READY.
THEOREM EqualsKeepOrder == Spec => PeersKeepOrder
<1>1. ASSUME IInv, IInv', Next, NEW i \in Process, NEW j \in Process,
             PartitionOf[i] = PartitionOf[j],
             Queued(sys, i), Queued(sys, j), Queued(sys', i), Queued(sys', j),
             sys.priority[i] = sys.priority[j], sys'.priority[i] = sys'.priority[j],
             Place(sys, i) < Place(sys, j), ~ \E q \in Priority : ChangePriority(i, q)
      PROVE  Place(sys', i) < Place(sys', j)
  <2> DEFINE p == PartitionOf[i]
             q == sys.priority[i]
  <2>1. Consistent(sys) /\ Consistent(sys') /\ sys \in TableType
    BY <1>1 DEF IInv, Consistent
  <2>2. p \in Partition /\ q \in Priority
    BY <2>1, ConfigAssumption DEF TableType
  <2>3. Before(sys.ready[p][q], i, j)
    BY <1>1, <2>1, PlaceIsBefore
  <2>4. LET r == sys'.ready[p][sys'.priority[i]] IN
        /\ IsIn(r, i) /\ IsIn(r, j)
        /\ Place(sys', i) < Place(sys', j) <=> Before(r, i, j)
    BY <1>1, <2>1, PlaceIsBefore
  <2>5. CASE OrderedBut(sys, sys')
    <3>1. PICK x : Ordered(sys, sys', x) /\ (x \in Process => ~Queued(sys', x))
      BY <2>5 DEF OrderedBut
    <3>2. i # x /\ j # x /\ sys'.priority = sys.priority
      BY <1>1, <2>5, <3>1 DEF OrderedBut
    <3>3. Before(sys'.ready[p][q], i, j)
      BY <1>1, <2>2, <2>3, <3>1, <3>2 DEF Ordered
    <3> QED BY <2>4, <3>2, <3>3
  <2>6. CASE \E x \in Process, r \in Priority : ChangePriority(x, r)
    <3>1. PICK x \in Process, r \in Priority : ChangePriority(x, r)
      BY <2>6
    <3>2. x # i /\ sys' = SetProcessPriority(sys, x, r)
      BY <1>1, <3>1 DEF ChangePriority
    <3>3. sys'.priority[i] = q
      <4>1. SetProcessPriority(sys, x, r).priority = [sys.priority EXCEPT ![x] = r]
        BY <2>1, SetPriorityKeeps
      <4> QED BY <1>1, <2>1, <3>2, <4>1 DEF TableType
    <3>4. IsIn(SetProcessPriority(sys, x, r).ready[p][q], i)
          /\ IsIn(SetProcessPriority(sys, x, r).ready[p][q], j)
      BY <2>4, <3>2, <3>3
    <3>5. Before(SetProcessPriority(sys, x, r).ready[p][q], i, j)
      BY <1>1, <2>1, <2>2, <2>3, <3>1, <3>2, <3>4, SetPriorityOrdered
    <3> QED BY <2>4, <3>2, <3>3, <3>5
  <2> QED BY <1>1, <2>5, <2>6, StepOrdered
<1>2. ASSUME IInv, IInv', [Next]_vars
      PROVE  [\A i, j \in Process :
                /\ i # j /\ PartitionOf[i] = PartitionOf[j]
                /\ Queued(sys, i) /\ Queued(sys, j)
                /\ Queued(sys', i) /\ Queued(sys', j)
                /\ sys.priority[i] = sys.priority[j]
                /\ sys'.priority[i] = sys'.priority[j]
                /\ Place(sys, i) < Place(sys, j)
                /\ ~ \E q \in Priority : ChangePriority(i, q)
                => Place(sys', i) < Place(sys', j)]_vars
  BY <1>1, <1>2
<1> QED BY <1>2, Invariance, PTL DEF Spec, PeersKeepOrder

-----------------------------------------------------------------------------
(* Who takes over, and where the one that ran goes.                        *)

LEMMA LastAppended ==
  ASSUME NEW s \in Seq(Process), NEW x \in Process
  PROVE  LET t == Append(s, x)
             u == <<x>> \o s
         IN  t \in Seq(Process) /\ t # <<>> /\ t[Len(t)] = x /\ u[1] = x
<1>1. Append(s, x) \in Seq(Process) /\ Append(s, x)[Len(Append(s, x))] = x
      /\ Append(s, x) # <<>>
  BY AppendProperties
<1>2. (<<x>> \o s)[1] = x
  OBVIOUS
<1> QED BY <1>1, <1>2

LEMMA LastOfTail ==
  ASSUME NEW t \in Seq(Process), t # <<>>, NEW x, t[Len(t)] = x,
         Tail(t) # <<>>
  PROVE  Tail(t)[Len(Tail(t))] = x
<1>1. /\ Len(t) \in Nat /\ Len(Tail(t)) = Len(t) - 1 /\ Tail(t) \in Seq(Process)
      /\ \A c \in 1 .. Len(Tail(t)) : Tail(t)[c] = t[c + 1]
  BY HeadTailProperties
<1>2. Len(Tail(t)) # 0
  BY <1>1, EmptySeq
<1> QED BY <1>1, <1>2

\* A restarted process that was RUNNING joins its queue at the end.
LEMMA RestartAppends ==
  ASSUME NEW k, Consistent(k), NEW i \in Process, k.state[i] = "RUNNING"
  PROVE  LET l == RestartProcess(k, i)
             p == PartitionOf[i]
         IN  /\ l.ready[p][k.priority[i]] = Append(k.ready[p][k.priority[i]], i)
             /\ l.current[p] = NoProcess
<1> DEFINE p == PartitionOf[i]
           c == k.priority[i]
           z == SetState(k, i, "READY")
           a == AddProcess(z, i)
           l == RestartProcess(k, i)
<1>1. k \in TableType /\ QueuesSound(k) /\ p \in Partition
  BY ConfigAssumption DEF Consistent
<1>2. InNoQueue(k, i) /\ "READY" \in ProcessState
  BY <1>1, NotReadyInNoQueue DEF ProcessState
<1>3. /\ z \in TableType /\ QueuesSound(z) /\ InNoQueue(z, i)
      /\ z.state[i] = "READY" /\ z.ready = k.ready /\ z.priority = k.priority
  BY <1>1, <1>2, RestateUnqueued
<1>4. l = Leave(a, p)
  BY DEF RestartProcess, RestartRunning
<1> HIDE DEF z, l
<1>5. AddStatus(z, i) = "OK" /\ a \in TableType
  BY <1>3, AddProcessAdds DEF Added
<1>6. a = Enqueue(z, p, i)
  BY <1>5 DEF AddProcess
<1>7. a.ready[p][c] = Append(k.ready[p][c], i)
  <2>1. z.priority[i] = c /\ c \in Priority
    BY <1>1, <1>3 DEF TableType
  <2> HIDE DEF c
  <2> QED BY <1>1, <1>3, <1>6, <2>1 DEF Enqueue, TableType
<1> HIDE DEF a
<1>8. l.ready = a.ready /\ l.current = [a.current EXCEPT ![p] = NoProcess]
  BY <1>4 DEF Leave
<1>9. a.current \in [Partition -> Process \cup {NoProcess}]
  BY <1>5 DEF TableType
<1> QED BY <1>1, <1>7, <1>8, <1>9 DEF l

\* A process that was restarted is the last of its peers, and stays so when
\* its partition yields.
LEMMA RestartedIsLast ==
  ASSUME NEW k, Consistent(k), NEW p \in Partition, NEW i \in Process,
         NEW m \in {RestartProcess(k, i), PartitionYield(RestartProcess(k, i), PartitionOf[i])},
         k.current[p] # NoProcess, m.current[p] # k.current[p],
         Queued(m, k.current[p])
  PROVE  LET old == k.current[p]
             q == m.ready[p][m.priority[old]]
         IN  q[Len(q)] = old
<1> DEFINE old == k.current[p]
           l == RestartProcess(k, i)
           n == PartitionSelect(l, p, TRUE)
           c == k.priority[old]
<1>1. /\ k \in TableType /\ old \in Process /\ PartitionOf[old] = p /\ TRUE \in BOOLEAN
      /\ k.state[old] = "RUNNING" /\ c \in Priority
  BY DEF Consistent, RunningIsCurrent, TableType
<1>2. /\ Consistent(l) /\ l.priority = k.priority
      /\ \A r \in Partition : l.current[r] = k.current[r] \/ k.current[r] = i
  BY <1>1, RestartProcessKeeps, RestartKeepsPriority
<1>3. PartitionOf[i] = p
  <2> SUFFICES ASSUME PartitionOf[i] # p PROVE FALSE
    OBVIOUS
  <2>1. PartitionOf[i] \in Partition /\ i # old
    BY <1>1, ConfigAssumption
  <2>2. l.current[p] = old
    BY <1>2, <2>1
  <2> HIDE DEF l
  <2>3. PartitionSelect(l, PartitionOf[i], TRUE).current[p] = l.current[p]
    BY <1>1, <1>2, <2>1, SelectKeeps
  <2> QED BY <2>2, <2>3 DEF PartitionYield, l
<1>4. m = l \/ m = n
  BY <1>3 DEF PartitionYield
<1>5. m.priority = k.priority
  <2> HIDE DEF l
  <2>1. n.priority = l.priority
    BY <1>1, <1>2, SelectKeeps
  <2> QED BY <1>2, <1>4, <2>1 DEF l
<1>6. m.ready[p][c] # <<>>
  <2>1. IsIn(m.ready[p][c], old)
    BY <1>1, <1>5 DEF Queued
  <2> QED BY <2>1 DEF IsIn
<1>7. CASE i = old
  <2>1. l.ready[p][c] = Append(k.ready[p][c], old) /\ l.current[p] = NoProcess
    BY <1>1, <1>7, RestartAppends
  <2> DEFINE s == l.ready[p][c]
  <2>2. s \in Seq(Process) /\ s # <<>> /\ s[Len(s)] = old
    <3>1. k.ready[p][c] \in Seq(Process)
      BY <1>1 DEF TableType
    <3>2. LET t == Append(k.ready[p][c], old) IN
          t \in Seq(Process) /\ t # <<>> /\ t[Len(t)] = old
      BY <1>1, <3>1, LastAppended
    <3> HIDE DEF l, c
    <3> QED BY <2>1, <3>2
  <2>3. m.ready[p][c] \in {s, Tail(s)}
    <3> HIDE DEF l
    <3>1. CASE m = l
      BY <3>1
    <3>2. CASE m # l
      <4>1. m = PartitionSelect(l, p, TRUE) /\ m # l
        BY <1>4, <3>2
      <4>2. m.ready = PopBest(l, p).ready
        BY <1>1, <1>2, <2>1, <4>1, SelectQueues
      <4>3. PopBest(l, p).ready[p][c] \in {s, Tail(s)}
        BY <1>1, <1>2 DEF PopBest, Consistent, TableType
      <4> QED BY <4>2, <4>3
    <3> QED BY <3>1, <3>2
  <2> HIDE DEF s
  <2>4. LET q == m.ready[p][c] IN q[Len(q)] = old
    BY <1>6, <2>2, <2>3, LastOfTail
  <2> QED BY <1>5, <2>4
<1>8. CASE i # old
  <2>1. l.current[p] = old
    BY <1>2, <1>8
  <2>2. m = n /\ n # l
    BY <1>4, <2>1
  <2> HIDE DEF l
  <2>3. l.current[p] # NoProcess /\ l.priority[l.current[p]] = c
    BY <1>2, <2>1
  <2> HIDE DEF c
  <2>4. /\ PopBest(l, p).ready[p][c] \in Seq(Process)
        /\ m.ready[p][c] = Append(PopBest(l, p).ready[p][c], old)
    <3>1. /\ PopBest(l, p).ready[p][l.priority[l.current[p]]] \in Seq(Process)
          /\ n.ready[p][l.priority[l.current[p]]] =
               Append(PopBest(l, p).ready[p][l.priority[l.current[p]]], l.current[p])
      BY <1>1, <1>2, <2>2, <2>3, SelectQueues
    <3> QED BY <2>1, <2>2, <2>3, <3>1
  <2>5. LET q == m.ready[p][c] IN q[Len(q)] = old
    <3> HIDE DEF n
    <3> QED BY <1>1, <2>4, LastAppended
  <2> QED BY <1>5, <2>5 DEF c
<1> QED BY <1>7, <1>8

\* Without a yield or a restart the process that a partition runs changes only
\* by a dispatch, or because it blocks.
LEMMA CurrentChanges ==
  ASSUME IInv, Next, ~Yield, ~Restarts, NEW p \in Partition,
         sys.current[p] # NoProcess, sys'.current[p] # sys.current[p]
  PROVE  \/ sys' = PartitionSelect(sys, p, FALSE)
         \/ sys'.state[sys.current[p]] = "BLOCKED"
<1>1. Consistent(sys) /\ sys \in TableType /\ FALSE \in BOOLEAN
  BY DEF IInv, Consistent
<1>2. ASSUME NEW r \in Partition, sys' = PartitionSelect(sys, r, FALSE)
      PROVE  sys' = PartitionSelect(sys, p, FALSE)
  <2>1. r # p => sys'.current[p] = sys.current[p]
    BY <1>1, <1>2, SelectKeeps
  <2> QED BY <1>2, <2>1
<1>3. sys'.current # sys.current
  OBVIOUS
<1>4. CASE Register
  <2>1. sys'.current = sys.current
    BY <1>4 DEF Register, AddProcess, Enqueue
  <2> QED BY <1>3, <2>1
<1>5. CASE \E r \in Partition : StartScheduler(r) \/ TickDispatch(r)
  BY <1>2, <1>5 DEF StartScheduler, TickDispatch, PartitionDispatch
<1>6. CASE TickBegin \/ SvcBegin \/ \E i \in Process : FaultBegin(i) \/ HaltOn(i)
  <2>1. \A i \in Process : HaltPartition(sys, PartitionOf[i]).current = sys.current
    BY DEF HaltPartition
  <2>2. sys'.current = sys.current
    BY <1>6, <2>1 DEF TickBegin, SvcBegin, FaultBegin, HaltOn
  <2> QED BY <1>3, <2>2
<1>7. CASE Block
  <2> DEFINE r == PartitionOf[cpu]
  <2>1. /\ cpu \in Process /\ r \in Partition /\ sys.current[r] = cpu
        /\ sys.state[cpu] = "RUNNING" /\ BlockStatus(sys, r, cpu) = "OK"
        /\ sys' = BlockAndDispatch(sys, r, cpu)
    BY <1>7, Caller DEF Block
  <2>2. \A x \in Partition : x # r => sys'.current[x] = sys.current[x]
    BY <1>1, <2>1, BlockKeeps
  <2>3. sys'.state[cpu] = "BLOCKED"
    BY <1>1, <2>1, CallerStates
  <2> QED BY <2>1, <2>2, <2>3
<1>8. CASE WaitIdle
  <2> DEFINE r == PartitionOf[cpu]
  <2>1. /\ cpu \in Process /\ r \in Partition /\ sys.current[r] = cpu
        /\ sys.state[cpu] = "RUNNING" /\ sys' = BlockIdle(sys, r, cpu)
    BY <1>8, Caller DEF WaitIdle
  <2>2. sys'.current = [sys.current EXCEPT ![r] = NoProcess]
    BY <1>1, <2>1, BlockIdleKeeps
  <2>3. sys'.state = [sys.state EXCEPT ![cpu] = "BLOCKED"]
    BY <1>1, <2>1, CallerStates
  <2> QED BY <1>1, <2>1, <2>2, <2>3 DEF TableType
<1>9. CASE PreemptCheck
  <2>1. PartitionOf[cpu] \in Partition
    BY <1>9, Caller DEF PreemptCheck
  <2>2. sys' = sys \/ sys' = PartitionSelect(sys, PartitionOf[cpu], FALSE)
    BY <1>9 DEF PreemptCheck, PartitionDispatch
  <2> QED BY <1>2, <1>3, <2>1, <2>2
<1>10. CASE \E i \in Process : Wake(i) \/ \E q \in Priority : ChangePriority(i, q)
  <2>1. PICK i \in Process : Wake(i) \/ \E q \in Priority : ChangePriority(i, q)
    BY <1>10
  <2>2. sys'.current = sys.current
    <3>1. CASE Wake(i)
      BY <1>1, <3>1, ReadyProcessKeeps DEF Wake
    <3>2. CASE \E q \in Priority : ChangePriority(i, q)
      <4>1. PICK q \in Priority : sys' = SetProcessPriority(sys, i, q)
        BY <3>2 DEF ChangePriority
      <4>2. SetProcessPriority(sys, i, q).current = sys.current
        BY <1>1, SetPriorityKeeps
      <4> QED BY <4>1, <4>2
    <3> QED BY <2>1, <3>1, <3>2
  <2> QED BY <1>3, <2>2
<1> QED BY <1>4, <1>5, <1>6, <1>7, <1>8, <1>9, <1>10 DEF Next, Restarts

\* A process loses the CPU of its partition, and stays READY, only to one that
\* outranks it, unless it yields or is restarted.
THEOREM NoSlicing == Spec => NoTimeSlice
<1>1. ASSUME IInv, Next, NEW p \in Partition,
             sys.current[p] # NoProcess, sys'.current[p] # sys.current[p],
             sys'.state[sys.current[p]] = "READY", ~Yield, ~Restarts
      PROVE  sys'.priority[sys'.current[p]] < sys'.priority[sys.current[p]]
  <2>1. sys' = PartitionSelect(sys, p, FALSE)
    BY <1>1, CurrentChanges
  <2>2. Consistent(sys) /\ FALSE \in BOOLEAN /\ PartitionSelect(sys, p, FALSE) # sys
    BY <1>1, <2>1 DEF IInv
  <2>3. sys'.priority = sys.priority
    BY <2>1, <2>2, SelectKeeps
  <2>4. /\ sys'.current[p] = NextReady(sys, p)
        /\ TakesOver(sys.priority[NextReady(sys, p)], sys.priority[sys.current[p]], FALSE)
    BY <1>1, <2>1, <2>2, SelectQueues
  <2> QED BY <2>3, <2>4 DEF TakesOver
<1>2. ASSUME IInv, [Next]_vars
      PROVE  [\A p \in Partition :
                LET old == sys.current[p]
                    new == sys'.current[p]
                IN  old # NoProcess /\ new # NoProcess /\ new # old
                      /\ sys'.state[old] = "READY"
                    => \/ sys'.priority[new] < sys'.priority[old]
                       \/ Yield \/ Restarts]_vars
  BY <1>1, <1>2
<1> QED BY <1>2, Invariance, PTL DEF Spec, NoTimeSlice

\* A preempted process is the first of its equals to run again, one that yields
\* or is restarted the last.
THEOREM EndsOfTheQueue == Spec => PreemptedFirstYieldedLast
<1>1. ASSUME IInv, Next, NEW p \in Partition,
             sys.current[p] # NoProcess, sys'.current[p] # sys.current[p],
             Queued(sys', sys.current[p])
      PROVE  LET old == sys.current[p]
                 q   == sys'.ready[p][sys'.priority[old]]
             IN  IF Yield \/ Restarts THEN q[Len(q)] = old ELSE q[1] = old
  <2> DEFINE old == sys.current[p]
             q   == sys'.ready[p][sys'.priority[old]]
  <2>1. /\ Consistent(sys) /\ old \in Process
        /\ TRUE \in BOOLEAN /\ FALSE \in BOOLEAN
    BY <1>1 DEF IInv, Consistent, TableType
  <2>2. ASSUME NEW y \in BOOLEAN, sys' = PartitionSelect(sys, p, y)
        PROVE  IF y THEN q[Len(q)] = old ELSE q[1] = old
    <3> DEFINE s == PopBest(sys, p).ready[p][sys.priority[old]]
    <3>1. sys'.priority = sys.priority
      BY <2>1, <2>2, SelectKeeps
    <3>2. PartitionSelect(sys, p, y) # sys
      BY <1>1, <2>2
    <3>3. s \in Seq(Process) /\ q = IF y THEN Append(s, old) ELSE <<old>> \o s
      BY <1>1, <2>1, <2>2, <3>1, <3>2, SelectQueues
    <3> HIDE DEF s, q, old
    <3> QED BY <2>1, <3>3, LastAppended
  <2>3. CASE Yield
    <3>1. PartitionOf[cpu] \in Partition /\ sys' = PartitionSelect(sys, PartitionOf[cpu], TRUE)
      BY <1>1, <2>3, Caller DEF Yield, PartitionYield
    <3>2. p # PartitionOf[cpu] => sys'.current[p] = sys.current[p]
      BY <2>1, <3>1, SelectKeeps
    <3>3. sys' = PartitionSelect(sys, p, TRUE)
      BY <1>1, <3>1, <3>2
    <3> QED BY <2>1, <2>2, <2>3, <3>3
  <2>4. CASE Restarts
    <3>1. PICK i \in Process :
            sys' \in {RestartProcess(sys, i),
                      PartitionYield(RestartProcess(sys, i), PartitionOf[i])}
      <4>1. CASE RestartFaulting
        BY <1>1, <4>1 DEF RestartFaulting, IInv, Recovering
      <4>2. CASE \E i \in Process : RestartMissed(i)
        BY <4>2 DEF RestartMissed
      <4> QED BY <2>4, <4>1, <4>2 DEF Restarts
    <3>2. q[Len(q)] = old
      BY <1>1, <2>1, <3>1, RestartedIsLast
    <3> QED BY <2>4, <3>2
  <2>5. CASE ~Yield /\ ~Restarts
    <3>1. sys'.state[old] # "BLOCKED"
      BY <1>1 DEF Queued
    <3>2. sys' = PartitionSelect(sys, p, FALSE)
      BY <1>1, <2>5, <3>1, CurrentChanges
    <3> QED BY <2>1, <2>2, <2>5, <3>2
  <2> QED BY <2>3, <2>4, <2>5
<1>2. ASSUME IInv, [Next]_vars
      PROVE  [\A p \in Partition :
                LET old == sys.current[p]
                    q   == sys'.ready[p][sys'.priority[old]]
                IN  old # NoProcess /\ sys'.current[p] # old /\ Queued(sys', old)
                    => IF Yield \/ Restarts
                       THEN q[Len(q)] = old ELSE q[1] = old]_vars
  BY <1>1, <1>2
<1> QED BY <1>2, Invariance, PTL DEF Spec, PreemptedFirstYieldedLast
=============================================================================
