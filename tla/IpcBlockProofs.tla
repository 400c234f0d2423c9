--------------------------- MODULE IpcBlockProofs ---------------------------
(***************************************************************************)
(* What the operators of IpcBlock and Services keep true, for every        *)
(* configuration and every record that has the fields of IpcBlock,         *)
(* whatever other fields a service adds to it.                             *)
(***************************************************************************)
EXTENDS Services, PartitionTableProofs

-----------------------------------------------------------------------------
(* The operators of PartitionTable on a record with more fields: they do   *)
(* to its table what they do to a table, and leave the other fields alone. *)

TableFields == {"state", "priority", "ready", "current", "halted"}

\* The partition table in record k.
TablePart(k) ==
  [state |-> k.state, priority |-> k.priority, ready |-> k.ready,
   current |-> k.current, halted |-> k.halted]

\* k is a record with the fields of a table and perhaps others.
Extends(k) == k = [x \in DOMAIN k |-> k[x]] /\ TableFields \subseteq DOMAIN k

\* m is a record like k but for its table.
SameBeyond(k, m) ==
  /\ Extends(m) /\ DOMAIN m = DOMAIN k
  /\ \A x \in DOMAIN k \ TableFields : m[x] = k[x]

\* m is k with table t.
Lifts(k, m, t) == TablePart(m) = t /\ SameBeyond(k, m)

IsTable(t) == t = [x \in TableFields |-> t[x]]

\* By fields: m has the table t.
SameTable(m, t) ==
  /\ m.state = t.state /\ m.priority = t.priority /\ m.ready = t.ready
  /\ m.current = t.current /\ m.halted = t.halted

LEMMA LiftBy ==
  ASSUME NEW k, NEW m, NEW t,
         SameBeyond(k, m), IsTable(t), SameTable(m, t)
  PROVE  Lifts(k, m, t)
<1>1. \A x \in TableFields : TablePart(m)[x] = t[x]
  BY DEF SameTable, TablePart, TableFields
<1>2. TablePart(m) = [x \in TableFields |-> TablePart(m)[x]]
  BY DEF TablePart, TableFields
<1>3. TablePart(m) = t
  BY <1>1, <1>2 DEF IsTable
<1> QED BY <1>3 DEF Lifts

\* The steps from which the operators are composed.
LEMMA LiftSetState ==
  ASSUME NEW k, Extends(k), NEW i, NEW x
  PROVE  Lifts(k, SetState(k, i, x), SetState(TablePart(k), i, x))
BY DEF SetState, Extends, TablePart, TableFields, Lifts, SameBeyond

LEMMA LiftEnqueue ==
  ASSUME NEW k, Extends(k), NEW p, NEW i
  PROVE  /\ Lifts(k, Enqueue(k, p, i), Enqueue(TablePart(k), p, i))
         /\ Lifts(k, EnqueueFront(k, p, i), EnqueueFront(TablePart(k), p, i))
<1>1. SameBeyond(k, Enqueue(k, p, i))
  BY DEF Enqueue, Extends, TableFields, SameBeyond
<1>2a. SameTable(Enqueue(k, p, i), Enqueue(TablePart(k), p, i))
  BY DEF Enqueue, Extends, SameTable, TablePart, TableFields
<1>2b. IsTable(Enqueue(TablePart(k), p, i))
  BY DEF Enqueue, IsTable, TablePart, TableFields
<1>3. SameBeyond(k, EnqueueFront(k, p, i))
  BY DEF EnqueueFront, Extends, TableFields, SameBeyond
<1>4a. SameTable(EnqueueFront(k, p, i), EnqueueFront(TablePart(k), p, i))
  BY DEF EnqueueFront, Extends, SameTable, TablePart, TableFields
<1>4b. IsTable(EnqueueFront(TablePart(k), p, i))
  BY DEF EnqueueFront, IsTable, TablePart, TableFields
<1> QED BY <1>1, <1>2a, <1>2b, <1>3, <1>4a, <1>4b, LiftBy

\* What the operators read of a record is in its table.
LEMMA TableRead ==
  ASSUME NEW k, NEW p, NEW i
  PROVE  LET t == TablePart(k) IN
         /\ ReadyMask(t, p) = ReadyMask(k, p)
         /\ BestPriority(t, p) = BestPriority(k, p)
         /\ NextReady(t, p) = NextReady(k, p)
         /\ HasRoom(t, p, i) = HasRoom(k, p, i)
         /\ Queued(t, i) = Queued(k, i)
         /\ BlockStatus(t, p, i) = BlockStatus(k, p, i)
         /\ AddStatus(t, i) = AddStatus(k, i)
         /\ NeedsPreemption(t, i) = NeedsPreemption(k, i)
<1> DEFINE t == TablePart(k)
<1>1. /\ t.state = k.state /\ t.priority = k.priority /\ t.ready = k.ready
      /\ t.current = k.current /\ t.halted = k.halted
  BY DEF TablePart
<1> HIDE DEF t
<1>2. ReadyMask(t, p) = ReadyMask(k, p)
  BY <1>1 DEF ReadyMask
<1>3. BestPriority(t, p) = BestPriority(k, p)
  BY <1>2 DEF BestPriority
<1>4. NextReady(t, p) = NextReady(k, p)
  BY <1>1, <1>3 DEF NextReady
<1>5. HasRoom(t, p, i) = HasRoom(k, p, i)
  BY <1>1 DEF HasRoom
<1>6. Queued(t, i) = Queued(k, i)
  BY <1>1 DEF Queued
<1>7. BlockStatus(t, p, i) = BlockStatus(k, p, i)
  BY <1>1, <1>2, <1>4 DEF BlockStatus
<1>8. AddStatus(t, i) = AddStatus(k, i)
  BY <1>1 DEF AddStatus, HasRoom
<1>9. NeedsPreemption(t, i) = NeedsPreemption(k, i)
  BY <1>1 DEF NeedsPreemption, HasHigher, ReadyMask
<1> QED BY <1>2, <1>3, <1>4, <1>5, <1>6, <1>7, <1>8, <1>9 DEF t

LEMMA LiftPopBest ==
  ASSUME NEW k, Extends(k), NEW p
  PROVE  Lifts(k, PopBest(k, p), PopBest(TablePart(k), p))
<1> DEFINE q == BestPriority(k, p)
           m == [k EXCEPT !.ready[p][q] = Tail(@)]
           t == [TablePart(k) EXCEPT !.ready[p][q] = Tail(@)]
<1>1. BestPriority(TablePart(k), p) = q
  BY TableRead
<1>2. PopBest(k, p) = m /\ PopBest(TablePart(k), p) = t
  BY <1>1 DEF PopBest
<1> HIDE DEF q
<1>3. SameBeyond(k, m)
  BY DEF Extends, TableFields, SameBeyond
<1>4. SameTable(m, t)
  BY DEF Extends, SameTable, TablePart, TableFields
<1>5. IsTable(t)
  BY DEF IsTable, TablePart, TableFields
<1> HIDE DEF m, t
<1> QED BY <1>2, <1>3, <1>4, <1>5, LiftBy

LEMMA LiftRun ==
  ASSUME NEW k, Extends(k), NEW p, NEW n
  PROVE  Lifts(k, Run(k, p, n), Run(TablePart(k), p, n))
<1>1. SameBeyond(k, Run(k, p, n))
  BY DEF Run, Extends, TableFields, SameBeyond
<1>2a. SameTable(Run(k, p, n), Run(TablePart(k), p, n))
  BY DEF Run, Extends, SameTable, TablePart, TableFields
<1>2b. IsTable(Run(TablePart(k), p, n))
  BY DEF Run, IsTable, TablePart, TableFields
<1> QED BY <1>1, <1>2a, <1>2b, LiftBy

LEMMA LiftLeave ==
  ASSUME NEW k, Extends(k), NEW p
  PROVE  Lifts(k, Leave(k, p), Leave(TablePart(k), p))
BY DEF Leave, Extends, TablePart, TableFields, Lifts, SameBeyond

LEMMA LiftHalt ==
  ASSUME NEW k, Extends(k), NEW p
  PROVE  Lifts(k, HaltPartition(k, p), HaltPartition(TablePart(k), p))
<1>1. SameBeyond(k, HaltPartition(k, p))
  BY DEF HaltPartition, Extends, TableFields, SameBeyond
<1>2a. SameTable(HaltPartition(k, p), HaltPartition(TablePart(k), p))
  BY DEF HaltPartition, Extends, SameTable, TablePart, TableFields
<1>2b. IsTable(HaltPartition(TablePart(k), p))
  BY DEF HaltPartition, IsTable, TablePart, TableFields
<1> QED BY <1>1, <1>2a, <1>2b, LiftBy

\* Doing nothing, and two steps after each other.
LEMMA LiftSkip ==
  ASSUME NEW k, Extends(k)
  PROVE  Lifts(k, k, TablePart(k))
BY DEF Extends, Lifts, SameBeyond

LEMMA LiftThen ==
  ASSUME NEW k, NEW l, NEW m, NEW t, NEW u,
         Lifts(k, l, t), Lifts(l, m, u)
  PROVE  Lifts(k, m, u) /\ TablePart(l) = t /\ Extends(l)
BY DEF Lifts, SameBeyond

\* partition_ready_process, and fault recovery of a RUNNING process.
LEMMA LiftReadyProcess ==
  ASSUME NEW k, Extends(k), NEW i
  PROVE  /\ Lifts(k, AddProcess(k, i), AddProcess(TablePart(k), i))
         /\ Lifts(k, ReadyProcess(k, i), ReadyProcess(TablePart(k), i))
         /\ Lifts(k, RestartRunning(k, i), RestartRunning(TablePart(k), i))
<1>1. ASSUME NEW l, Extends(l)
      PROVE  Lifts(l, AddProcess(l, i), AddProcess(TablePart(l), i))
  <2>1. AddStatus(TablePart(l), i) = AddStatus(l, i)
    BY TableRead
  <2> QED BY <1>1, <2>1, LiftEnqueue, LiftSkip DEF AddProcess
<1> DEFINE l == SetState(k, i, "READY")
           m == AddProcess(l, i)
<1>2. Lifts(k, l, SetState(TablePart(k), i, "READY"))
  BY LiftSetState
<1>3. Extends(l) /\ TablePart(l) = SetState(TablePart(k), i, "READY")
  BY <1>2 DEF Lifts, SameBeyond
<1>4. Lifts(l, m, AddProcess(TablePart(l), i))
  BY <1>1, <1>3
<1>5. Lifts(k, m, AddProcess(TablePart(l), i))
  BY <1>2, <1>4, LiftThen
<1>6. Extends(m) /\ TablePart(m) = AddProcess(TablePart(l), i)
  BY <1>4 DEF Lifts, SameBeyond
<1>7. Lifts(m, Leave(m, PartitionOf[i]), Leave(TablePart(m), PartitionOf[i]))
  BY <1>6, LiftLeave
<1>8. Lifts(k, Leave(m, PartitionOf[i]), Leave(TablePart(m), PartitionOf[i]))
  BY <1>5, <1>7, LiftThen
<1> QED BY <1>1, <1>3, <1>5, <1>6, <1>8 DEF ReadyProcess, RestartRunning
\* The dispatcher.
LEMMA SelectRead ==
  ASSUME NEW k, Extends(k), NEW p, NEW y
  PROVE  LET t == TablePart(k) IN
         /\ SelectStatus(t, p, y) = SelectStatus(k, p, y)
         /\ Switches(t, p, y) = Switches(k, p, y)
<1> DEFINE t   == TablePart(k)
           cur == k.current[p]
<1>1. /\ t.state = k.state /\ t.priority = k.priority
      /\ t.current = k.current /\ t.halted = k.halted
  BY DEF TablePart
<1>2. /\ ReadyMask(t, p) = ReadyMask(k, p)
      /\ BestPriority(t, p) = BestPriority(k, p)
      /\ NextReady(t, p) = NextReady(k, p)
  BY TableRead
<1>3. HasRoom(PopBest(t, p), p, cur) = HasRoom(PopBest(k, p), p, cur)
  <2>1. TablePart(PopBest(k, p)) = PopBest(t, p)
    BY LiftPopBest DEF Lifts
  <2> QED BY <2>1, TableRead
<1> HIDE DEF t
<1>4. Switches(t, p, y) = Switches(k, p, y)
  BY <1>1, <1>2 DEF Switches
<1>5. SelectStatus(t, p, y) = SelectStatus(k, p, y)
  BY <1>1, <1>2, <1>3, <1>4 DEF SelectStatus
<1> QED BY <1>4, <1>5 DEF t

LEMMA LiftSelect ==
  ASSUME NEW k, Extends(k), NEW p, NEW y
  PROVE  Lifts(k, PartitionSelect(k, p, y), PartitionSelect(TablePart(k), p, y))
<1> DEFINE t    == TablePart(k)
           next == NextReady(k, p)
           cur  == k.current[p]
           pk   == PopBest(k, p)
           pt   == PopBest(t, p)
           Back(l) == IF cur = NoProcess THEN l ELSE Requeue(l, p, cur, y)
<1>1. CASE SelectStatus(k, p, y) # "OK" \/ ~Switches(k, p, y)
  <2>1. PartitionSelect(k, p, y) = k
    BY <1>1 DEF PartitionSelect
  <2>2. SelectStatus(t, p, y) # "OK" \/ ~Switches(t, p, y)
    BY <1>1, SelectRead
  <2>3. PartitionSelect(t, p, y) = t
    BY <2>2 DEF PartitionSelect
  <2> QED BY <2>1, <2>3, LiftSkip
<1>2. CASE SelectStatus(k, p, y) = "OK" /\ Switches(k, p, y)
  <2>1. PartitionSelect(k, p, y) = Run(Back(pk), p, next)
    BY <1>2 DEF PartitionSelect
  <2>2. SelectStatus(t, p, y) = "OK" /\ Switches(t, p, y)
    BY <1>2, SelectRead
  <2>3. NextReady(t, p) = next /\ t.current[p] = cur
    BY TableRead DEF TablePart
  <2>4. PartitionSelect(t, p, y) = Run(Back(pt), p, next)
    BY <2>2, <2>3 DEF PartitionSelect
  <2>5. Lifts(k, pk, pt)
    BY LiftPopBest
  <2>6. Extends(pk) /\ TablePart(pk) = pt
    BY <2>5 DEF Lifts, SameBeyond
  <2> HIDE DEF t, next, cur, pk, pt
  <2>7. Lifts(pk, Back(pk), Back(pt))
    <3>1. CASE cur = NoProcess
      BY <2>6, <3>1, LiftSkip
    <3>2. CASE cur # NoProcess
      <4> DEFINE l == SetState(pk, cur, "READY")
                 u == SetState(pt, cur, "READY")
      <4>1. Lifts(pk, l, u)
        BY <2>6, LiftSetState
      <4>2. Extends(l) /\ TablePart(l) = u
        BY <4>1 DEF Lifts, SameBeyond
      <4> HIDE DEF l, u
      <4>3. /\ Lifts(l, Enqueue(l, p, cur), Enqueue(u, p, cur))
            /\ Lifts(l, EnqueueFront(l, p, cur), EnqueueFront(u, p, cur))
        BY <4>2, LiftEnqueue
      <4>4. /\ Lifts(pk, Enqueue(l, p, cur), Enqueue(u, p, cur))
            /\ Lifts(pk, EnqueueFront(l, p, cur), EnqueueFront(u, p, cur))
        BY <4>1, <4>3, LiftThen
      <4> QED BY <3>2, <4>4 DEF Requeue, l, u
    <3> QED BY <3>1, <3>2
  <2>8. Extends(Back(pk)) /\ TablePart(Back(pk)) = Back(pt)
    BY <2>7 DEF Lifts, SameBeyond
  <2>9. Lifts(k, Back(pk), Back(pt))
    BY <2>5, <2>7, LiftThen
  <2> HIDE DEF Back
  <2>10. Lifts(Back(pk), Run(Back(pk), p, next), Run(Back(pt), p, next))
    BY <2>8, LiftRun
  <2>11. Lifts(k, Run(Back(pk), p, next), Run(Back(pt), p, next))
    BY <2>9, <2>10, LiftThen
  <2> QED BY <2>1, <2>4, <2>11 DEF t
<1> QED BY <1>1, <1>2

\* Blocking, with something or with nothing to run in the caller's place.
LEMMA LiftBlock ==
  ASSUME NEW k, Extends(k), NEW p, NEW i
  PROVE  /\ Lifts(k, BlockAndDispatch(k, p, i), BlockAndDispatch(TablePart(k), p, i))
         /\ Lifts(k, BlockIdle(k, p, i), BlockIdle(TablePart(k), p, i))
<1> DEFINE t    == TablePart(k)
           next == NextReady(k, p)
           pk   == PopBest(k, p)
           pt   == PopBest(t, p)
<1>1. BlockStatus(t, p, i) = BlockStatus(k, p, i) /\ NextReady(t, p) = next
  BY TableRead
<1>2. Lifts(k, pk, pt) /\ Extends(pk) /\ TablePart(pk) = pt
  BY LiftPopBest DEF Lifts, SameBeyond
<1>3. ASSUME NEW l, NEW u, Extends(l), TablePart(l) = u
      PROVE  /\ Lifts(l, SetState(l, i, "BLOCKED"), SetState(u, i, "BLOCKED"))
             /\ Extends(SetState(l, i, "BLOCKED"))
             /\ TablePart(SetState(l, i, "BLOCKED")) = SetState(u, i, "BLOCKED")
  BY <1>3, LiftSetState DEF Lifts, SameBeyond
<1>4. ASSUME BlockStatus(k, p, i) # "OK"
      PROVE  Lifts(k, BlockAndDispatch(k, p, i), BlockAndDispatch(t, p, i))
  BY <1>1, <1>4, LiftSkip DEF BlockAndDispatch
<1>5. ASSUME BlockStatus(k, p, i) = "OK"
      PROVE  Lifts(k, BlockAndDispatch(k, p, i), BlockAndDispatch(t, p, i))
  <2> DEFINE l == SetState(pk, i, "BLOCKED")
             u == SetState(pt, i, "BLOCKED")
  <2>1. /\ BlockAndDispatch(k, p, i) = Run(l, p, next)
        /\ BlockAndDispatch(t, p, i) = Run(u, p, next)
    BY <1>1, <1>5 DEF BlockAndDispatch
  <2>2. Lifts(pk, l, u) /\ Extends(l) /\ TablePart(l) = u
    BY <1>2, <1>3
  <2> HIDE DEF l, u, pk, pt, t, next
  <2>3. Lifts(k, l, u)
    BY <1>2, <2>2, LiftThen
  <2>4. Lifts(l, Run(l, p, next), Run(u, p, next))
    BY <2>2, LiftRun
  <2>5. Lifts(k, Run(l, p, next), Run(u, p, next))
    BY <2>3, <2>4, LiftThen
  <2> QED BY <2>1, <2>5 DEF t
<1>6. Lifts(k, BlockIdle(k, p, i), BlockIdle(t, p, i))
  <2> DEFINE l == SetState(k, i, "BLOCKED")
             u == SetState(t, i, "BLOCKED")
  <2>1. Lifts(k, l, u) /\ Extends(l) /\ TablePart(l) = u
    BY <1>3
  <2>2. Lifts(l, Leave(l, p), Leave(u, p))
    BY <2>1, LiftLeave
  <2>3. Lifts(k, Leave(l, p), Leave(u, p))
    BY <2>1, <2>2, LiftThen
  <2> QED BY <2>3 DEF BlockIdle
<1>7. Lifts(k, BlockAndDispatch(k, p, i), BlockAndDispatch(t, p, i))
  BY <1>4, <1>5
<1> QED BY <1>6, <1>7

-----------------------------------------------------------------------------
(* Sound records: the table is consistent, no READY process is lost, and   *)
(* the wait lists and the PCBs agree.                                      *)

WaitFieldNames == {"waiters", "waitlist", "wake", "op", "result"}

OnProcesses(f) == f = [i \in Process |-> f[i]]

IpcType(k) ==
  /\ Extends(k) /\ WaitFieldNames \subseteq DOMAIN k
  /\ k.waiters \in [WaitList -> Seq(Process)]
  /\ k.waitlist \in [Process -> WaitList \cup {NoList}]
  /\ OnProcesses(k.wake) /\ OnProcesses(k.op) /\ OnProcesses(k.result)

Sound(k) ==
  /\ IpcType(k)
  /\ Consistent(TablePart(k))
  /\ NoneLostOf(k, Process)
  /\ WaitsSound(k)

\* m is k but for the fields of set F.
SameBut(k, m, F) ==
  /\ m = [x \in DOMAIN m |-> m[x]] /\ DOMAIN m = DOMAIN k
  /\ \A x \in DOMAIN k \ F : m[x] = k[x]

\* The same processes are blocked.
SameBlocked(k, m) ==
  \A j \in Process : m.state[j] = "BLOCKED" <=> k.state[j] = "BLOCKED"

LEMMA SoundTypes ==
  ASSUME NEW k, Sound(k)
  PROVE  /\ k.state \in [Process -> ProcessState]
         /\ k.priority \in [Process -> Priority]
         /\ k.current \in [Partition -> Process \cup {NoProcess}]
         /\ k.halted \in [Partition -> BOOLEAN]
         /\ \A i \in Process :
              k.state[i] = "RUNNING" <=> k.current[PartitionOf[i]] = i
         /\ \A p \in Partition :
              k.current[p] # NoProcess => PartitionOf[k.current[p]] = p
<1>1. TablePart(k) \in TableType /\ RunningIsCurrent(TablePart(k))
  BY DEF Sound, Consistent
<1> QED BY <1>1 DEF TablePart, TableType, RunningIsCurrent

\* A step that changes the table alone, and not whether those on wait lists are
\* blocked.
LEMMA TableStep ==
  ASSUME NEW k, Sound(k), NEW m, SameBeyond(k, m),
         Consistent(TablePart(m)), KeepsReady(TablePart(k), TablePart(m)),
         \A j \in Process :
           k.waitlist[j] # NoList => (m.state[j] = "BLOCKED" <=> k.state[j] = "BLOCKED")
  PROVE  Sound(m)
<1>1. /\ m.waiters = k.waiters /\ m.waitlist = k.waitlist /\ m.wake = k.wake
      /\ m.op = k.op /\ m.result = k.result
  BY DEF SameBeyond, Sound, IpcType, WaitFieldNames, TableFields
<1>2. IpcType(m)
  BY <1>1 DEF SameBeyond, Sound, IpcType
<1>3. NoneLostOf(m, Process)
  <2> SUFFICES ASSUME NEW j \in Process, m.state[j] = "READY" PROVE Queued(m, j)
    BY DEF NoneLostOf
  <2>1. k.state[j] = "READY" => Queued(k, j)
    BY DEF Sound, NoneLostOf
  <2>2. Queued(TablePart(m), j)
    <3>1. TablePart(m).state[j] = "READY"
      BY DEF TablePart
    <3>2. TablePart(k).state[j] = "READY" => Queued(TablePart(k), j)
      BY <2>1, TableRead DEF TablePart
    <3> QED BY <3>1, <3>2 DEF KeepsReady
  <2> QED BY <2>2, TableRead
<1>4. WaitsSound(m)
  <2>1. WaitsSound(k)
    BY DEF Sound
  <2>2. \A i \in Process : Waits(m, i) <=> Waits(k, i)
    BY <1>1 DEF Waits
  <2> QED BY <1>1, <2>1, <2>2 DEF WaitsSound
<1> QED BY <1>2, <1>3, <1>4 DEF Sound

\* A dispatch or a yield.
LEMMA SelectSound ==
  ASSUME NEW k, Sound(k), NEW p \in Partition, NEW y \in BOOLEAN
  PROVE  LET m == PartitionSelect(k, p, y) IN
         /\ Sound(m) /\ SameBeyond(k, m) /\ SameBlocked(k, m)
         /\ m.halted = k.halted /\ m.priority = k.priority
         /\ \A r \in Partition : r # p => m.current[r] = k.current[r]
         /\ IF SelectStatus(k, p, y) = "OK"
            THEN /\ m.current[p] \in Process /\ PartitionOf[m.current[p]] = p
                 /\ ~k.halted[p]
            ELSE m = k
         /\ SelectStatus(k, p, y) =
              IF k.halted[p] THEN "PARTITION_HALTED"
              ELSE IF k.current[p] = NoProcess /\ ReadyMask(k, p) = {}
              THEN "QUEUE_EMPTY" ELSE "OK"
<1> DEFINE m == PartitionSelect(k, p, y)
           t == TablePart(k)
           u == PartitionSelect(t, p, y)
<1>1. Consistent(t) /\ Extends(k)
  BY DEF Sound, IpcType
<1>2. Lifts(k, m, u)
  BY <1>1, LiftSelect
<1>3. SameBeyond(k, m) /\ TablePart(m) = u
  BY <1>2 DEF Lifts
<1>4. /\ Consistent(u) /\ u.halted = t.halted /\ u.priority = t.priority
      /\ KeepsReady(t, u)
      /\ \A r \in Partition : r # p => u.current[r] = t.current[r]
  BY <1>1, SelectKeeps
<1>5. /\ \A j \in Process : u.state[j] = "BLOCKED" <=> t.state[j] = "BLOCKED"
      /\ SelectStatus(t, p, y) # "OK" => u = t
  BY <1>1, SelectStates
<1>6. SelectStatus(t, p, y) = "OK" =>
        u.current[p] \in Process /\ PartitionOf[u.current[p]] = p /\ ~u.halted[p]
  BY <1>1, SelectRuns
<1>7. SelectStatus(t, p, y) = SelectStatus(k, p, y)
  BY <1>1, SelectRead
<1>8. SelectStatus(t, p, y) =
        IF t.halted[p] THEN "PARTITION_HALTED"
        ELSE IF t.current[p] = NoProcess /\ ReadyMask(t, p) = {}
        THEN "QUEUE_EMPTY" ELSE "OK"
  BY <1>1, SelectStatusOf
<1>9. SelectStatus(k, p, y) # "OK" => m = k
  BY DEF PartitionSelect
<1>10. /\ t.state = k.state /\ t.priority = k.priority /\ t.current = k.current
       /\ t.halted = k.halted /\ ReadyMask(t, p) = ReadyMask(k, p)
  BY TableRead DEF TablePart
<1>11. /\ u.state = m.state /\ u.priority = m.priority /\ u.current = m.current
       /\ u.halted = m.halted
  BY <1>3 DEF TablePart
<1> HIDE DEF m, u, t
<1>12. SameBlocked(k, m)
  BY <1>5, <1>10, <1>11 DEF SameBlocked
<1>13. Sound(m)
  BY <1>3, <1>4, <1>12, TableStep DEF t, SameBlocked
<1> QED BY <1>3, <1>4, <1>6, <1>7, <1>8, <1>9, <1>10, <1>11, <1>12, <1>13 DEF m

Stopped(k, m, p) ==
  /\ Sound(m) /\ SameBut(k, m, {"halted"})
  /\ m.halted = [k.halted EXCEPT ![p] = TRUE]

\* Halting a partition.
LEMMA HaltSound ==
  ASSUME NEW k, Sound(k), NEW p \in Partition
  PROVE  Stopped(k, HaltPartition(k, p), p)
<1> DEFINE m == HaltPartition(k, p)
           t == TablePart(k)
           u == HaltPartition(t, p)
<1>1. Consistent(t) /\ Extends(k)
  BY DEF Sound, IpcType
<1>2. SameBeyond(k, m) /\ TablePart(m) = u
  BY <1>1, LiftHalt DEF Lifts
<1>3. /\ u.state = t.state /\ u.priority = t.priority /\ u.ready = t.ready
      /\ u.current = t.current /\ u \in TableType
  BY <1>1 DEF HaltPartition, TablePart, Consistent, TableType
<1>4. /\ u.state = m.state /\ t.state = k.state
  BY <1>2 DEF TablePart
<1>5. SameBut(k, m, {"halted"}) /\ m.halted = [k.halted EXCEPT ![p] = TRUE]
  BY <1>1 DEF HaltPartition, SameBut, Extends, TableFields
<1> HIDE DEF m, t, u
<1>6. Consistent(u) /\ KeepsReady(t, u)
  BY <1>1, <1>3 DEF Consistent, RunningIsCurrent, QueuesSound, KeepsReady, Queued
<1>7. SameBlocked(k, m)
  BY <1>3, <1>4 DEF SameBlocked
<1>8. Sound(m)
  BY <1>2, <1>6, <1>7, TableStep DEF t, SameBlocked
<1> QED BY <1>5, <1>8 DEF m, Stopped

\* Writing only the results, the operations or the wake ticks.
LEMMA AnnotateSound ==
  ASSUME NEW k, Sound(k), NEW m, SameBut(k, m, {"result", "op", "wake"}),
         OnProcesses(m.result), OnProcesses(m.op), OnProcesses(m.wake)
  PROVE  Sound(m)
<1>1. /\ m.state = k.state /\ m.priority = k.priority /\ m.ready = k.ready
      /\ m.current = k.current /\ m.halted = k.halted
      /\ m.waiters = k.waiters /\ m.waitlist = k.waitlist
  BY DEF SameBut, Sound, IpcType, Extends, TableFields, WaitFieldNames
<1>2. TablePart(m) = TablePart(k)
  BY <1>1 DEF TablePart
<1>3. IpcType(m)
  BY <1>1 DEF SameBut, Sound, IpcType, Extends
<1>4. NoneLostOf(m, Process) /\ WaitsSound(m)
  BY <1>1 DEF Sound, NoneLostOf, Queued, WaitsSound, Waits
<1> QED BY <1>2, <1>3, <1>4 DEF Sound

\* Writing only fields of the services.
LEMMA ServiceStep ==
  ASSUME NEW k, Sound(k), NEW m, NEW F, SameBut(k, m, F),
         F \cap (TableFields \cup WaitFieldNames) = {}
  PROVE  Sound(m)
<1>1. IpcType(k)
  BY DEF Sound
<1>2. \A x \in TableFields \cup WaitFieldNames : x \in DOMAIN k \ F
  BY <1>1 DEF IpcType, Extends
<1>3. \A x \in TableFields \cup WaitFieldNames : m[x] = k[x]
  BY <1>2 DEF SameBut
<1>4. m.result = k.result /\ m.op = k.op /\ m.wake = k.wake
  BY <1>3 DEF WaitFieldNames
<1>5. /\ m.waiters = k.waiters /\ m.waitlist = k.waitlist
      /\ m.state = k.state /\ m.priority = k.priority /\ m.ready = k.ready
      /\ m.current = k.current /\ m.halted = k.halted
  BY <1>3 DEF WaitFieldNames, TableFields
<1>6. IpcType(m)
  BY <1>1, <1>2, <1>4, <1>5 DEF IpcType, Extends, SameBut
<1>7. TablePart(m) = TablePart(k)
  BY <1>5 DEF TablePart
<1>8. NoneLostOf(m, Process) /\ WaitsSound(m)
  BY <1>5 DEF Sound, NoneLostOf, Queued, WaitsSound, Waits
<1> QED BY <1>6, <1>7, <1>8 DEF Sound

-----------------------------------------------------------------------------
(* Taking a process off a wait list and making it READY. *)

\* A process that is not blocked, or blocked for a delay, is on no wait list.
LEMMA OnNoList ==
  ASSUME NEW k, Sound(k), NEW i \in Process,
         k.state[i] # "BLOCKED" \/ k.waitlist[i] = NoList
  PROVE  k.waitlist[i] = NoList /\ \A o \in WaitList : ~IsIn(k.waiters[o], i)
<1>1. k.waitlist[i] = NoList
  BY DEF Sound, WaitsSound
<1>2. \A o \in WaitList : IsIn(k.waiters[o], i) => Waits(k, i)
  BY DEF Sound, WaitsSound
<1> QED BY <1>1, <1>2 DEF Waits

\* m is k with the blocked process i READY and the fields in F written.
MadeReady(k, m, i, F) ==
  /\ Sound(m) /\ SameBut(k, m, {"state", "ready"} \cup F)
  /\ m.state = [k.state EXCEPT ![i] = "READY"]

\* Fault recovery of a blocked process, and what is left when a blocked call
\* completes: the process is on no wait list any more.
LEMMA ReadySound ==
  ASSUME NEW k, Sound(k), NEW i \in Process,
         k.state[i] = "BLOCKED", k.waitlist[i] = NoList
  PROVE  /\ MadeReady(k, ReadyProcess(k, i), i, {})
         /\ ResolveStatus(k, i) = "OK"
<1> DEFINE m == ReadyProcess(k, i)
           t == TablePart(k)
           u == ReadyProcess(t, i)
<1>1. Consistent(t) /\ Extends(k) /\ t.state = k.state
  BY DEF Sound, IpcType, TablePart
<1>2. SameBeyond(k, m) /\ TablePart(m) = u
  BY <1>1, LiftReadyProcess DEF Lifts
<1>3. /\ Consistent(u) /\ u.current = t.current /\ u.halted = t.halted
      /\ u.state = [t.state EXCEPT ![i] = "READY"]
      /\ \A j \in Process : Queued(u, j) <=> Queued(t, j) \/ j = i
  BY <1>1, ReadyProcessKeeps
<1>4. ResolveStatus(k, i) = "OK" /\ u.priority = t.priority
  <2> DEFINE l == SetState(t, i, "READY")
  <2>1. t \in TableType /\ QueuesSound(t) /\ "READY" \in ProcessState
    BY <1>1 DEF Consistent, ProcessState
  <2>2. InNoQueue(t, i)
    BY <1>1, <2>1, NotReadyInNoQueue
  <2> HIDE DEF t
  <2>3. /\ l \in TableType /\ QueuesSound(l) /\ InNoQueue(l, i)
        /\ l.state[i] = "READY" /\ l.priority = t.priority
    BY <2>1, <2>2, RestateUnqueued, ZenonT(40)
  <2>4. TablePart(SetState(k, i, "READY")) = l
    BY <1>1, LiftSetState DEF Lifts, t
  <2>5. u = AddProcess(l, i)
    BY DEF ReadyProcess
  <2> HIDE DEF l, u
  <2>6. AddStatus(l, i) = "OK" /\ Added(l, u, i)
    BY <2>3, <2>5, AddProcessAdds
  <2>7. AddStatus(SetState(k, i, "READY"), i) = "OK"
    BY <2>4, <2>6, TableRead
  <2> QED BY <2>3, <2>6, <2>7 DEF ResolveStatus, Added, SameButQueues
<1>5. /\ m.state = u.state /\ m.priority = u.priority /\ m.ready = u.ready
      /\ m.current = u.current /\ m.halted = u.halted
      /\ t.current = k.current /\ t.halted = k.halted /\ t.priority = k.priority
  BY <1>2 DEF TablePart
<1> HIDE DEF m, t, u
<1>6. SameBut(k, m, {"state", "ready"})
  BY <1>2, <1>3, <1>4, <1>5 DEF SameBut, SameBeyond, Extends, TableFields
<1>7. m.state = [k.state EXCEPT ![i] = "READY"]
  BY <1>1, <1>3, <1>5
<1>8. /\ m.waiters = k.waiters /\ m.waitlist = k.waitlist
      /\ m.op = k.op /\ m.result = k.result /\ m.wake = k.wake
  BY <1>6 DEF SameBut, Sound, IpcType, WaitFieldNames
<1>9. IpcType(m)
  BY <1>2, <1>8 DEF SameBeyond, Sound, IpcType
<1>10. NoneLostOf(m, Process)
  <2> SUFFICES ASSUME NEW j \in Process, m.state[j] = "READY" PROVE Queued(m, j)
    BY DEF NoneLostOf
  <2>1. j # i => k.state[j] = "READY"
    BY <1>7, SoundTypes
  <2>2. j # i => Queued(t, j)
    BY <2>1, TableRead DEF Sound, NoneLostOf, t
  <2> QED BY <1>2, <1>3, <2>2, TableRead
<1>11. WaitsSound(m)
  <2>1. ASSUME NEW j \in Process
        PROVE  /\ Waits(m, j) <=> Waits(k, j)
               /\ m.waitlist[j] # NoList => m.state[j] = "BLOCKED"
    <3>1. CASE j = i
      BY <1>8, <3>1 DEF Waits
    <3>2. CASE j # i
      BY <1>7, <1>8, <3>2, SoundTypes DEF Waits, Sound, WaitsSound
    <3> QED BY <3>1, <3>2
  <2> QED BY <1>8, <2>1 DEF Sound, WaitsSound
<1>12. Sound(m)
  BY <1>2, <1>3, <1>9, <1>10, <1>11 DEF Sound
<1>13. SameBut(k, m, {"state", "ready"} \cup {})
  BY <1>6 DEF SameBut
<1> QED BY <1>4, <1>7, <1>12, <1>13 DEF m, MadeReady

Resolved(k, m, i, r) ==
  /\ MadeReady(k, m, i, {"result"})
  /\ m.result = [k.result EXCEPT ![i] = r]

\* The call of a process that has left its wait list completes.
LEMMA ResolveSound ==
  ASSUME NEW k, Sound(k), NEW i \in Process, NEW r,
         k.state[i] = "BLOCKED", k.waitlist[i] = NoList
  PROVE  Resolved(k, Resolve(k, i, r), i, r)
<1> DEFINE l == ReadyProcess(k, i)
           m == Resolve(k, i, r)
<1>1. /\ Sound(l) /\ SameBut(k, l, {"state", "ready"})
      /\ l.state = [k.state EXCEPT ![i] = "READY"]
      /\ ResolveStatus(k, i) = "OK"
  BY ReadySound DEF MadeReady, SameBut
<1>2. m = [l EXCEPT !.result[i] = r]
  BY <1>1 DEF Resolve
<1> HIDE DEF l, m
<1>3. l.result = k.result /\ OnProcesses(k.result)
  BY <1>1 DEF SameBut, Sound, IpcType, WaitFieldNames
<1>4. /\ SameBut(k, m, {"state", "ready"} \cup {"result"})
      /\ SameBut(l, m, {"result"}) /\ m.state = l.state
  BY <1>1, <1>2 DEF SameBut
<1>5. m.result = [k.result EXCEPT ![i] = r]
  BY <1>1, <1>2, <1>3 DEF Sound, IpcType, WaitFieldNames
<1>6. Sound(m)
  <2>1. SameBut(l, m, {"result", "op", "wake"}) /\ m.op = l.op /\ m.wake = l.wake
    BY <1>1, <1>4 DEF SameBut, Sound, IpcType, WaitFieldNames
  <2>2. OnProcesses(m.result) /\ OnProcesses(m.op) /\ OnProcesses(m.wake)
    BY <1>1, <1>3, <1>5, <2>1 DEF Sound, IpcType, OnProcesses
  <2> QED BY <1>1, <2>1, <2>2, AnnotateSound
<1> QED BY <1>1, <1>4, <1>5, <1>6 DEF m, MadeReady, Resolved

\* m is k with process i off its wait list.
OffList(k, m, i) ==
  /\ Sound(m) /\ SameBut(k, m, {"waiters", "waitlist", "wake", "op"})
  /\ m.waitlist = [k.waitlist EXCEPT ![i] = NoList]
  /\ m.wake = [k.wake EXCEPT ![i] = NoTick]
  /\ m.op = [k.op EXCEPT ![i] = NoOp]

\* Taking process i off list o.
LEMMA TakeWaiterSound ==
  ASSUME NEW k, Sound(k), NEW o \in WaitList, NEW i \in Process,
         IsIn(k.waiters[o], i)
  PROVE  /\ OffList(k, TakeWaiter(k, o, i), i)
         /\ Waits(k, i) /\ k.waitlist[i] = o
<1> DEFINE m == TakeWaiter(k, o, i)
           s == k.waiters[o]
<1>1. m = [k EXCEPT !.waiters[o] = Without(@, i), !.op[i] = NoOp,
                    !.waitlist[i] = NoList, !.wake[i] = NoTick]
  BY DEF TakeWaiter, LeaveList, ClearBlocked, Sound, IpcType, Extends
<1>2. IpcType(k) /\ WaitsSound(k) /\ NoneLostOf(k, Process)
  BY DEF Sound
<1>3. Waits(k, i) /\ k.waitlist[i] = o
  BY <1>2 DEF WaitsSound
<1>4. /\ SameBut(k, m, {"waiters", "waitlist", "wake", "op"})
      /\ m.waiters = [k.waiters EXCEPT ![o] = Without(@, i)]
      /\ m.waitlist = [k.waitlist EXCEPT ![i] = NoList]
      /\ m.wake = [k.wake EXCEPT ![i] = NoTick]
      /\ m.op = [k.op EXCEPT ![i] = NoOp]
  <2>1. k = [x \in DOMAIN k |-> k[x]] /\ WaitFieldNames \subseteq DOMAIN k
    BY <1>2 DEF IpcType, Extends
  <2> HIDE DEF m
  <2>2. SameBut(k, m, {"waiters", "waitlist", "wake", "op"})
    BY <1>1, <2>1 DEF SameBut
  <2>3. /\ m.waiters = [k.waiters EXCEPT ![o] = Without(@, i)]
        /\ m.waitlist = [k.waitlist EXCEPT ![i] = NoList]
    BY <1>1, <2>1 DEF WaitFieldNames
  <2>4. /\ m.wake = [k.wake EXCEPT ![i] = NoTick]
        /\ m.op = [k.op EXCEPT ![i] = NoOp]
    BY <1>1, <2>1 DEF WaitFieldNames
  <2> QED BY <2>2, <2>3, <2>4
<1> HIDE DEF m
<1>5. /\ s \in Seq(Process) /\ NoRepeats(s) /\ Len(s) <= WaitlistMax
  BY <1>2 DEF IpcType, WaitsSound
<1>6. /\ Without(s, i) \in Seq(Process) /\ Len(Without(s, i)) = Len(s) - 1
      /\ NoRepeats(Without(s, i))
      /\ \A j : IsIn(Without(s, i), j) <=> IsIn(s, j) /\ j # i
  BY <1>5, WithoutKeeps
<1>7. m.waiters \in [WaitList -> Seq(Process)] /\ m.waiters[o] = Without(s, i)
      /\ \A x \in WaitList : x # o => m.waiters[x] = k.waiters[x]
  BY <1>2, <1>4, <1>6 DEF IpcType
<1>8. m.waitlist \in [Process -> WaitList \cup {NoList}]
      /\ m.waitlist[i] = NoList
      /\ \A j \in Process : j # i => m.waitlist[j] = k.waitlist[j]
  BY <1>2, <1>4 DEF IpcType
<1>9. OnProcesses(m.wake) /\ OnProcesses(m.op) /\ m.result = k.result
  BY <1>2, <1>4 DEF IpcType, OnProcesses, SameBut, WaitFieldNames
<1>10. /\ m.state = k.state /\ m.priority = k.priority /\ m.ready = k.ready
       /\ m.current = k.current /\ m.halted = k.halted
  BY <1>2, <1>4 DEF SameBut, IpcType, Extends, TableFields
<1>11. IpcType(m)
  BY <1>2, <1>4, <1>7, <1>8, <1>9 DEF IpcType, SameBut, Extends
<1>12. Consistent(TablePart(m)) /\ NoneLostOf(m, Process)
  BY <1>2, <1>10 DEF Sound, TablePart, NoneLostOf, Queued
<1>13. WaitsSound(m)
  <2>1. ASSUME NEW x \in WaitList
        PROVE  /\ NoRepeats(m.waiters[x]) /\ Len(m.waiters[x]) <= WaitlistMax
               /\ \A j \in Process :
                    IsIn(m.waiters[x], j) <=> Waits(m, j) /\ m.waitlist[j] = x
    <3>1. CASE x = o
      <4>1. NoRepeats(m.waiters[x]) /\ Len(m.waiters[x]) <= WaitlistMax
        <5>1. Len(s) \in Nat
          BY <1>5
        <5> QED BY <1>5, <1>6, <1>7, <3>1, <5>1, IpcAssumption
      <4>2. ASSUME NEW j \in Process
            PROVE  IsIn(m.waiters[x], j) <=> Waits(m, j) /\ m.waitlist[j] = x
        <5>1. IsIn(s, j) <=> Waits(k, j) /\ k.waitlist[j] = o
          BY <1>2 DEF WaitsSound
        <5>2. CASE j = i
          BY <1>6, <1>7, <1>8, <3>1, <5>2 DEF Waits
        <5>3. CASE j # i
          BY <1>6, <1>7, <1>8, <1>10, <3>1, <5>1, <5>3 DEF Waits
        <5> QED BY <5>2, <5>3
      <4> QED BY <4>1, <4>2
    <3>2. CASE x # o
      <4>1. NoRepeats(k.waiters[x]) /\ Len(k.waiters[x]) <= WaitlistMax
        BY <1>2 DEF WaitsSound
      <4>2. ASSUME NEW j \in Process
            PROVE  IsIn(m.waiters[x], j) <=> Waits(m, j) /\ m.waitlist[j] = x
        <5>1. IsIn(k.waiters[x], j) <=> Waits(k, j) /\ k.waitlist[j] = x
          BY <1>2 DEF WaitsSound
        <5>2. CASE j = i
          BY <1>3, <1>7, <1>8, <3>2, <5>1, <5>2 DEF Waits
        <5>3. CASE j # i
          BY <1>7, <1>8, <1>10, <3>2, <5>1, <5>3 DEF Waits
        <5> QED BY <5>2, <5>3
      <4> QED BY <1>7, <3>2, <4>1, <4>2
    <3> QED BY <3>1, <3>2
  <2>2. \A j \in Process : m.waitlist[j] # NoList => m.state[j] = "BLOCKED"
    BY <1>2, <1>8, <1>10 DEF WaitsSound
  <2> QED BY <2>1, <2>2 DEF WaitsSound
<1>14. Sound(m)
  BY <1>11, <1>12, <1>13 DEF Sound
<1> QED BY <1>3, <1>4, <1>14 DEF m, OffList

\* The entry a of list o is the first of those with the best priority.
BestAt(k, o, a) ==
  \A b \in 1 .. Len(k.waiters[o]) :
    \/ k.priority[k.waiters[o][a]] < k.priority[k.waiters[o][b]]
    \/ k.priority[k.waiters[o][a]] = k.priority[k.waiters[o][b]] /\ a <= b

LEMMA BestWaiterIs ==
  ASSUME NEW k, Sound(k), NEW o \in WaitList, k.waiters[o] # <<>>
  PROVE  \E a \in 1 .. Len(k.waiters[o]) :
           BestWaiter(k, o) = k.waiters[o][a] /\ BestAt(k, o, a)
<1> DEFINE s == k.waiters[o]
           D == 1 .. Len(s)
<1>1. s \in Seq(Process) /\ NoRepeats(s)
  BY DEF Sound, IpcType, WaitsSound
<1>2. Len(s) \in Nat \ {0} /\ \A a \in D : s[a] \in Process
  BY <1>1, EmptySeq, LenProperties, ElementOfSeq
<1>3. \A a \in D : k.priority[s[a]] \in Nat
  BY <1>2, SoundTypes, ConfigAssumption DEF Priority
<1>4. \E a \in D : BestAt(k, o, a)
  <2> DEFINE Q == {k.priority[s[a]] : a \in D}
  <2>1. Q \subseteq Nat /\ Q # {}
    BY <1>2, <1>3
  <2> HIDE DEF Q, s
  <2>2. PICK q \in Q : \A r \in Q : q <= r
    BY <2>1, BestExists
  <2> DEFINE A == {a \in D : k.priority[s[a]] = q}
  <2>3. A \subseteq Nat /\ A # {}
    BY <2>2 DEF Q
  <2> HIDE DEF A
  <2>4. PICK a \in A : \A b \in A : a <= b
    BY <2>3, BestExists
  <2>5. a \in D /\ k.priority[s[a]] = q
    BY DEF A
  <2>6. ASSUME NEW b \in D
        PROVE  \/ k.priority[s[a]] < k.priority[s[b]]
               \/ k.priority[s[a]] = k.priority[s[b]] /\ a <= b
    <3>1. q <= k.priority[s[b]] /\ q \in Nat /\ k.priority[s[b]] \in Nat
      BY <1>3, <2>1, <2>2 DEF Q
    <3>2. k.priority[s[b]] = q => a <= b
      BY <2>4 DEF A
    <3> QED BY <2>5, <3>1, <3>2
  <2> QED BY <2>5, <2>6 DEF BestAt, s
<1> DEFINE best == CHOOSE a \in D : BestAt(k, o, a)
<1>5. BestWaiter(k, o) = s[best]
  BY DEF BestWaiter, BestAt
<1>6. best \in D /\ BestAt(k, o, best)
  BY <1>4
<1> HIDE DEF best
<1> QED BY <1>5, <1>6

\* Whom a list serves next is on it.
LEMMA NextIsWaiting ==
  ASSUME NEW k, Sound(k), NEW o \in WaitList, k.waiters[o] # <<>>
  PROVE  /\ BestWaiter(k, o) \in Process /\ IsIn(k.waiters[o], BestWaiter(k, o))
         /\ FirstWaiter(k, o) \in Process /\ IsIn(k.waiters[o], FirstWaiter(k, o))
<1> DEFINE s == k.waiters[o]
<1>1. s \in Seq(Process)
  BY DEF Sound, IpcType
<1>2. Len(s) \in Nat \ {0} /\ \A a \in 1 .. Len(s) : s[a] \in Process
  BY <1>1, EmptySeq, LenProperties, ElementOfSeq
<1>3. PICK a \in 1 .. Len(s) : BestWaiter(k, o) = s[a]
  BY BestWaiterIs
<1>4. FirstWaiter(k, o) = s[1] /\ 1 \in 1 .. Len(s)
  BY <1>1, <1>2, HeadTailProperties DEF FirstWaiter
<1> HIDE DEF s
<1> QED BY <1>2, <1>3, <1>4 DEF IsIn, s

\* The wait lists only get shorter, and lose nobody who still waits.
ListsShrink(k, m) ==
  \A o \in WaitList : k.waiters[o] = <<>> => m.waiters[o] = <<>>

LEMMA IndexIs ==
  ASSUME NEW s \in Seq(Process), NoRepeats(s), NEW a \in 1 .. Len(s)
  PROVE  IndexIn(s, s[a]) = a
<1>1. \A b \in 1 .. a - 1 : s[b] # s[a]
  BY LenProperties DEF NoRepeats
<1> QED BY <1>1 DEF IndexIn, NoRepeats

\* The best waiter comes before every other one of its list.
LEMMA BestComesFirst ==
  ASSUME NEW k, Sound(k), NEW o \in WaitList, k.waiters[o] # <<>>,
         NEW j \in Process, j # BestWaiter(k, o), IsIn(k.waiters[o], j)
  PROVE  LET i == BestWaiter(k, o)
             q == k.waiters[o]
         IN  \/ k.priority[i] < k.priority[j]
             \/ k.priority[i] = k.priority[j] /\ IndexIn(q, i) < IndexIn(q, j)
<1> DEFINE i == BestWaiter(k, o)
           q == k.waiters[o]
<1>1. q \in Seq(Process) /\ NoRepeats(q)
  BY DEF Sound, IpcType, WaitsSound
<1>2. PICK a \in 1 .. Len(q) : i = q[a] /\ BestAt(k, o, a)
  BY BestWaiterIs
<1>3. PICK b \in 1 .. Len(q) : j = q[b]
  BY DEF IsIn
<1>4. IndexIn(q, i) = a /\ IndexIn(q, j) = b
  BY <1>1, <1>2, <1>3, IndexIs
<1>5. a # b
  BY <1>2, <1>3
<1>6. \/ k.priority[q[a]] < k.priority[q[b]]
      \/ k.priority[q[a]] = k.priority[q[b]] /\ a <= b
  BY <1>2, <1>3 DEF BestAt
<1> HIDE DEF i
<1> QED BY <1>1, <1>2, <1>3, <1>4, <1>5, <1>6, LenProperties DEF i

LEMMA EmptyIffNone ==
  ASSUME NEW s \in Seq(Process)
  PROVE  s = <<>> <=> \A j \in Process : ~IsIn(s, j)
<1>1. CASE s = <<>>
  BY <1>1 DEF IsIn
<1>2. CASE s # <<>>
  <2>1. s[1] \in Process /\ 1 \in 1 .. Len(s)
    BY <1>2, EmptySeq, LenProperties, ElementOfSeq
  <2> QED BY <1>2, <2>1 DEF IsIn
<1> QED BY <1>1, <1>2

LEMMA FewerWaiters ==
  ASSUME NEW k, Sound(k), NEW m, Sound(m),
         \A j \in Process : Waits(m, j) => Waits(k, j) /\ m.waitlist[j] = k.waitlist[j]
  PROVE  ListsShrink(k, m)
<1> SUFFICES ASSUME NEW o \in WaitList, k.waiters[o] = <<>>
             PROVE  m.waiters[o] = <<>>
  BY DEF ListsShrink
<1>1. k.waiters[o] \in Seq(Process) /\ m.waiters[o] \in Seq(Process)
  BY DEF Sound, IpcType
<1>2. ASSUME NEW j \in Process PROVE ~IsIn(m.waiters[o], j)
  <2>1. IsIn(m.waiters[o], j) => Waits(m, j) /\ m.waitlist[j] = o
    BY DEF Sound, WaitsSound
  <2>2. ~(Waits(k, j) /\ k.waitlist[j] = o)
    <3>1. ~IsIn(k.waiters[o], j)
      BY <1>1, EmptyIffNone
    <3> QED BY <3>1 DEF Sound, WaitsSound
  <2> QED BY <2>1, <2>2
<1> QED BY <1>1, <1>2, EmptyIffNone

\* Fault recovery takes a blocked process off its list, if it is on one.
LEMMA LeaveSound ==
  ASSUME NEW k, Sound(k), NEW i \in Process, k.state[i] = "BLOCKED"
  PROVE  OffList(k, ClearBlocked(LeaveAny(k, i), i), i)
<1> DEFINE m == ClearBlocked(LeaveAny(k, i), i)
<1>1. IpcType(k) /\ WaitsSound(k)
  BY DEF Sound
<1>2. CASE k.waitlist[i] = NoList
  <2>1. m = [k EXCEPT !.op[i] = NoOp, !.waitlist[i] = NoList, !.wake[i] = NoTick]
    BY <1>2 DEF LeaveAny, ClearBlocked
  <2>2. k = [x \in DOMAIN k |-> k[x]] /\ WaitFieldNames \subseteq DOMAIN k
    BY <1>1 DEF IpcType, Extends
  <2> HIDE DEF m
  <2>3. /\ m.waitlist = [k.waitlist EXCEPT ![i] = NoList]
        /\ m.wake = [k.wake EXCEPT ![i] = NoTick]
        /\ m.op = [k.op EXCEPT ![i] = NoOp]
    BY <2>1, <2>2 DEF WaitFieldNames
  <2>4. m.waitlist = k.waitlist
    BY <1>1, <1>2, <2>3 DEF IpcType
  <2>5. SameBut(k, m, {"waitlist", "wake", "op"})
    BY <2>1, <2>2 DEF SameBut
  <2>6. SameBut(k, m, {"result", "op", "wake"}) /\ m.result = k.result
    BY <2>2, <2>4, <2>5 DEF SameBut, WaitFieldNames
  <2>7. OnProcesses(m.result) /\ OnProcesses(m.op) /\ OnProcesses(m.wake)
    BY <1>1, <2>3, <2>6 DEF IpcType, OnProcesses
  <2>8. Sound(m)
    BY <2>6, <2>7, AnnotateSound
  <2>9. SameBut(k, m, {"waiters", "waitlist", "wake", "op"})
    BY <2>5 DEF SameBut
  <2> QED BY <2>3, <2>8, <2>9 DEF m, OffList
<1>3. CASE k.waitlist[i] # NoList
  <2>1. PICK o \in WaitList : o = k.waitlist[i]
    BY <1>1, <1>3 DEF IpcType
  <2>2. IsIn(k.waiters[o], i)
    BY <1>1, <1>3, <2>1 DEF WaitsSound, Waits
  <2>3. m = TakeWaiter(k, o, i)
    BY <1>3, <2>1 DEF LeaveAny, TakeWaiter
  <2> HIDE DEF m
  <2> QED BY <2>2, <2>3, TakeWaiterSound DEF m
<1> QED BY <1>2, <1>3

-----------------------------------------------------------------------------
(* Blocking the caller. *)

\* What the table does when a process blocks and another takes its place.
LEMMA BlockTable ==
  ASSUME NEW k, Consistent(TablePart(k)), Extends(k), NEW i \in Process,
         k.state[i] = "RUNNING", BlockStatus(k, PartitionOf[i], i) = "OK"
  PROVE  LET m == BlockAndDispatch(k, PartitionOf[i], i) IN
         /\ Consistent(TablePart(m)) /\ SameBeyond(k, m)
         /\ KeepsReady(TablePart(k), TablePart(m))
         /\ m.halted = k.halted /\ ~k.halted[PartitionOf[i]]
         /\ \A r \in Partition : r # PartitionOf[i] => m.current[r] = k.current[r]
         /\ m.current[PartitionOf[i]] \in Process /\ BestRuns(m, PartitionOf[i])
         /\ \A j \in Process :
              m.state[j] = "BLOCKED" <=> k.state[j] = "BLOCKED" \/ j = i
<1> DEFINE p == PartitionOf[i]
           m == BlockAndDispatch(k, p, i)
           t == TablePart(k)
           u == BlockAndDispatch(t, p, i)
<1>1. SameBeyond(k, m) /\ TablePart(m) = u
  BY LiftBlock DEF Lifts
<1>2. BlockStatus(t, p, i) = "OK"
  BY TableRead
<1>3. t.state = k.state /\ t.current = k.current /\ t.halted = k.halted
  BY DEF TablePart
<1>4. p \in Partition /\ t.current[p] = i
  <2>1. RunningIsCurrent(t)
    BY DEF Consistent
  <2> QED BY <1>3, <2>1, ConfigAssumption DEF RunningIsCurrent
<1>5. /\ Consistent(u) /\ u.halted = t.halted /\ ~t.halted[p]
      /\ KeepsReady(t, u)
      /\ \A r \in Partition : r # p => u.current[r] = t.current[r]
      /\ u.current[p] \in Process /\ BestRuns(u, p)
  BY <1>2, <1>4, BlockKeeps
<1>6. \A j \in Process : u.state[j] = "BLOCKED" <=> t.state[j] = "BLOCKED" \/ j = i
  <2>1. Consistent(t) /\ t.state[i] = "RUNNING"
    BY <1>3
  <2> HIDE DEF t
  <2> QED BY <1>2, <2>1, CallerStates
<1>7. /\ u.state = m.state /\ u.current = m.current /\ u.halted = m.halted
      /\ u.priority = m.priority /\ u.ready = m.ready
  BY <1>1 DEF TablePart
<1> HIDE DEF m, t, u
<1>8. BestRuns(m, p)
  BY <1>5, <1>7 DEF BestRuns, HasHigher, ReadyMask
<1> QED BY <1>1, <1>3, <1>5, <1>6, <1>7, <1>8 DEF m, t

\* m is k with its running process i blocked, and the best READY one of the
\* partition running in its place.
GivesWay(k, m, i) ==
  /\ m.halted = k.halted
  /\ \A r \in Partition : r # PartitionOf[i] => m.current[r] = k.current[r]
  /\ m.current[PartitionOf[i]] \in Process /\ BestRuns(m, PartitionOf[i])
  /\ \A j \in Process : m.state[j] = "BLOCKED" <=> k.state[j] = "BLOCKED" \/ j = i

OnList(k, m, i, o, wake, op) ==
  /\ Sound(m) /\ GivesWay(k, m, i)
  /\ SameBut(k, m, TableFields \cup {"waiters", "waitlist", "wake", "op"})
  /\ m.waiters = [k.waiters EXCEPT ![o] = Append(@, i)]
  /\ m.waitlist = [k.waitlist EXCEPT ![i] = o]
  /\ m.wake = [k.wake EXCEPT ![i] = wake]
  /\ m.op = [k.op EXCEPT ![i] = op]

NotBlocked(k, m, i) ==
  /\ Sound(m) /\ SameBut(k, m, {"op"}) /\ m.op = [k.op EXCEPT ![i] = m.op[i]]

\* A call that blocks on list o: the caller waits there and another process of
\* its partition runs, or nothing but the saved operation has changed.
LEMMA BlockCurrentSound ==
  ASSUME NEW k, Sound(k), NEW i \in Process, k.state[i] = "RUNNING",
         NEW o \in WaitList, NEW wake, NEW op
  PROVE  IF BlockCurrentStatus(k, i, o) = "OK"
         THEN OnList(k, BlockCurrent(k, i, o, wake, op), i, o, wake, op)
         ELSE NotBlocked(k, BlockCurrent(k, i, o, wake, op), i)
<1> DEFINE p     == PartitionOf[i]
           saved == [k EXCEPT !.op[i] = op]
           waits == [saved EXCEPT !.waiters[o] = Append(@, i),
                                  !.waitlist[i] = o, !.wake[i] = wake]
           m     == BlockCurrent(k, i, o, wake, op)
<1>1. IpcType(k) /\ WaitsSound(k) /\ Consistent(TablePart(k))
      /\ NoneLostOf(k, Process)
  BY DEF Sound
<1>2. /\ k = [x \in DOMAIN k |-> k[x]]
      /\ WaitFieldNames \subseteq DOMAIN k /\ TableFields \subseteq DOMAIN k
  BY <1>1 DEF IpcType, Extends
<1>3. CASE BlockCurrentStatus(k, i, o) # "OK"
  <2>1. PICK x : m = [k EXCEPT !.op[i] = x]
    BY <1>3 DEF BlockCurrent, BlockCurrentStatus
  <2> HIDE DEF m
  <2>2. SameBut(k, m, {"op"})
    BY <1>2, <2>1 DEF SameBut
  <2>3. m.op = [k.op EXCEPT ![i] = x] /\ OnProcesses(k.op)
    BY <1>1, <1>2, <2>1 DEF WaitFieldNames, IpcType
  <2>4. m.op = [k.op EXCEPT ![i] = m.op[i]] /\ OnProcesses(m.op)
    BY <2>3 DEF OnProcesses
  <2>5. m.result = k.result /\ m.wake = k.wake /\ m.halted = k.halted
        /\ m.current = k.current
    BY <1>2, <2>2 DEF SameBut, WaitFieldNames, TableFields
  <2>6. SameBut(k, m, {"result", "op", "wake"})
    BY <2>2 DEF SameBut
  <2>7. Sound(m)
    BY <1>1, <2>4, <2>5, <2>6, AnnotateSound DEF IpcType
  <2> QED BY <1>3, <2>2, <2>4, <2>7 DEF m, NotBlocked
<1>4. CASE BlockCurrentStatus(k, i, o) = "OK"
  <2>1. /\ Len(k.waiters[o]) < WaitlistMax
        /\ BlockStatus(k, p, i) = "OK"
        /\ m = BlockAndDispatch(waits, p, i)
    <3>1. k.waiters[o] \in Seq(Process)
      BY <1>1 DEF IpcType
    <3> QED BY <1>4, <3>1, LenProperties, IpcAssumption
              DEF BlockCurrent, BlockCurrentStatus
  <2>2. /\ SameBut(k, waits, {"waiters", "waitlist", "wake", "op"})
        /\ waits.op = [k.op EXCEPT ![i] = op]
    BY <1>2 DEF SameBut, WaitFieldNames
  <2>3. /\ waits.waiters = [k.waiters EXCEPT ![o] = Append(@, i)]
        /\ waits.waitlist = [k.waitlist EXCEPT ![i] = o]
        /\ waits.wake = [k.wake EXCEPT ![i] = wake]
    BY <1>2 DEF WaitFieldNames
  <2> HIDE DEF waits, m
  <2>4. /\ waits.state = k.state /\ waits.priority = k.priority
        /\ waits.ready = k.ready /\ waits.current = k.current
        /\ waits.halted = k.halted /\ waits.result = k.result
        /\ Extends(waits)
    BY <1>2, <2>2 DEF SameBut, TableFields, WaitFieldNames, Extends
  <2>5. TablePart(waits) = TablePart(k)
    BY <2>4 DEF TablePart
  <2>6. BlockStatus(waits, p, i) = "OK"
    BY <2>1, <2>5, TableRead
  <2>7. /\ Consistent(TablePart(m)) /\ SameBeyond(waits, m)
        /\ KeepsReady(TablePart(waits), TablePart(m))
        /\ m.halted = waits.halted
        /\ \A r \in Partition : r # p => m.current[r] = waits.current[r]
        /\ m.current[p] \in Process /\ BestRuns(m, p)
        /\ \A j \in Process :
             m.state[j] = "BLOCKED" <=> waits.state[j] = "BLOCKED" \/ j = i
    BY <1>1, <2>1, <2>4, <2>5, <2>6, BlockTable
  <2>8. /\ m.waiters = waits.waiters /\ m.waitlist = waits.waitlist
        /\ m.wake = waits.wake /\ m.op = waits.op /\ m.result = waits.result
        /\ DOMAIN m = DOMAIN k /\ m = [x \in DOMAIN m |-> m[x]]
        /\ Extends(m)
        /\ SameBut(k, m, TableFields \cup {"waiters", "waitlist", "wake", "op"})
    BY <1>2, <2>2, <2>7 DEF SameBut, SameBeyond, TableFields, WaitFieldNames, Extends
  <2>9. k.waitlist[i] = NoList /\ \A x \in WaitList : ~IsIn(k.waiters[x], i)
    BY OnNoList
  <2>10. m.waiters \in [WaitList -> Seq(Process)]
         /\ m.waiters[o] = Append(k.waiters[o], i)
         /\ \A x \in WaitList : x # o => m.waiters[x] = k.waiters[x]
    BY <1>1, <2>3, <2>8 DEF IpcType
  <2>11. /\ NoRepeats(m.waiters[o])
         /\ Len(m.waiters[o]) <= WaitlistMax
         /\ \A j : IsIn(m.waiters[o], j) <=> IsIn(k.waiters[o], j) \/ j = i
    <3>1. k.waiters[o] \in Seq(Process) /\ NoRepeats(k.waiters[o])
      BY <1>1 DEF IpcType, WaitsSound
    <3>2. /\ NoRepeats(Append(k.waiters[o], i))
          /\ \A j : IsIn(Append(k.waiters[o], i), j) <=> IsIn(k.waiters[o], j) \/ j = i
      BY <2>9, <3>1, AppendKeeps
    <3>3. Len(Append(k.waiters[o], i)) = Len(k.waiters[o]) + 1
          /\ Len(k.waiters[o]) \in Nat
      BY <3>1, AppendProperties
    <3> QED BY <2>1, <2>10, <3>2, <3>3, IpcAssumption
  <2>12. /\ m.waitlist \in [Process -> WaitList \cup {NoList}]
         /\ m.waitlist[i] = o
         /\ \A j \in Process : j # i => m.waitlist[j] = k.waitlist[j]
    BY <1>1, <2>3, <2>8 DEF IpcType
  <2>13. IpcType(m)
    <3>1. OnProcesses(m.wake)
      BY <1>1, <2>3, <2>8 DEF IpcType, OnProcesses
    <3>2. OnProcesses(m.op)
      BY <1>1, <2>2, <2>8 DEF IpcType, OnProcesses
    <3>3. OnProcesses(m.result)
      BY <1>1, <2>4, <2>8 DEF IpcType
    <3> QED BY <1>2, <2>2, <2>8, <2>10, <2>12, <3>1, <3>2, <3>3 DEF IpcType
  <2>14. NoneLostOf(m, Process)
    <3> SUFFICES ASSUME NEW j \in Process, m.state[j] = "READY" PROVE Queued(m, j)
      BY DEF NoneLostOf
    <3>1. k.state[j] = "READY" => Queued(k, j)
      BY <1>1 DEF NoneLostOf
    <3>2. TablePart(m).state[j] = "READY"
          /\ (TablePart(k).state[j] = "READY" => Queued(TablePart(k), j))
      BY <3>1, TableRead DEF TablePart
    <3>3. Queued(TablePart(m), j)
      BY <2>5, <2>7, <3>2 DEF KeepsReady
    <3> QED BY <3>3, TableRead
  <2>15. NoList \notin WaitList
    BY IpcAssumption DEF NoList, WaitList
  <2>16. WaitsSound(m)
    <3>1. ASSUME NEW x \in WaitList
          PROVE  /\ NoRepeats(m.waiters[x]) /\ Len(m.waiters[x]) <= WaitlistMax
                 /\ \A j \in Process :
                      IsIn(m.waiters[x], j) <=> Waits(m, j) /\ m.waitlist[j] = x
      <4>1. NoRepeats(k.waiters[x]) /\ Len(k.waiters[x]) <= WaitlistMax
            /\ \A j \in Process :
                 IsIn(k.waiters[x], j) <=> Waits(k, j) /\ k.waitlist[j] = x
        BY <1>1 DEF WaitsSound
      <4>2. ASSUME NEW j \in Process
            PROVE  IsIn(m.waiters[x], j) <=> Waits(m, j) /\ m.waitlist[j] = x
        <5>1. CASE j = i /\ x = o
          BY <2>7, <2>11, <2>12, <2>15, <5>1 DEF Waits
        <5>2. CASE j = i /\ x # o
          BY <2>9, <2>10, <2>12, <5>2
        <5>3. CASE j # i
          <6>1. Waits(m, j) <=> Waits(k, j)
            BY <2>4, <2>7, <2>12, <5>3 DEF Waits
          <6>2. IsIn(m.waiters[x], j) <=> IsIn(k.waiters[x], j)
            BY <2>10, <2>11, <5>3
          <6> QED BY <2>12, <4>1, <5>3, <6>1, <6>2
        <5> QED BY <5>1, <5>2, <5>3
      <4> QED BY <2>10, <2>11, <4>1, <4>2
    <3>2. \A j \in Process : m.waitlist[j] # NoList => m.state[j] = "BLOCKED"
      BY <1>1, <2>4, <2>7, <2>12 DEF WaitsSound
    <3> QED BY <3>1, <3>2 DEF WaitsSound
  <2>17. Sound(m)
    BY <2>7, <2>13, <2>14, <2>16 DEF Sound
  <2>18. GivesWay(k, m, i)
    BY <2>4, <2>7 DEF GivesWay
  <2> QED BY <1>4, <2>2, <2>3, <2>8, <2>17, <2>18 DEF m, OnList
<1> QED BY <1>3, <1>4

\* m is k with its running process i blocked; with nothing READY its partition
\* runs nothing.
Asleep(k, m, i) ==
  /\ Sound(m) /\ SameBeyond(k, m)
  /\ m.halted = k.halted
  /\ \A r \in Partition : r # PartitionOf[i] => m.current[r] = k.current[r]
  /\ m.current[PartitionOf[i]] = NoProcess => ReadyMask(m, PartitionOf[i]) = {}
  /\ BestRuns(m, PartitionOf[i])
  /\ \A j \in Process : m.state[j] = "BLOCKED" <=> k.state[j] = "BLOCKED" \/ j = i

\* timed_wait and periodic_wait of a process in an active partition.
LEMMA SleepSound ==
  ASSUME NEW k, Sound(k), NEW i \in Process, k.state[i] = "RUNNING",
         ~k.halted[PartitionOf[i]]
  PROVE  Asleep(k, Sleep(k, i), i)
<1> DEFINE p == PartitionOf[i]
           m == Sleep(k, i)
           t == TablePart(k)
<1>1. Consistent(t) /\ Extends(k) /\ p \in Partition
  BY ConfigAssumption DEF Sound, IpcType
<1>2. k.waitlist[i] = NoList
  BY OnNoList
<1>3. t.state = k.state /\ t.current = k.current /\ t.halted = k.halted
      /\ t.ready = k.ready
  BY DEF TablePart
<1>4. CASE BlockStatus(k, p, i) = "OK"
  <2>1. m = BlockAndDispatch(k, p, i)
    BY <1>4 DEF Sleep
  <2>2. LET z == BlockAndDispatch(k, PartitionOf[i], i) IN
        /\ Consistent(TablePart(z)) /\ SameBeyond(k, z)
        /\ KeepsReady(TablePart(k), TablePart(z))
        /\ z.halted = k.halted /\ ~k.halted[PartitionOf[i]]
        /\ \A r \in Partition : r # PartitionOf[i] => z.current[r] = k.current[r]
        /\ z.current[PartitionOf[i]] \in Process /\ BestRuns(z, PartitionOf[i])
        /\ \A j \in Process :
             z.state[j] = "BLOCKED" <=> k.state[j] = "BLOCKED" \/ j = i
    BY <1>1, <1>4, BlockTable
  <2> HIDE DEF m
  <2>3. Sound(m)
    BY <1>2, <2>1, <2>2, TableStep
  <2>4. NoProcess \notin Process
    BY ConfigAssumption DEF Process, NoProcess
  <2> QED BY <2>1, <2>2, <2>3, <2>4 DEF m, Asleep
<1>5. CASE BlockStatus(k, p, i) # "OK"
  <2> DEFINE u == BlockIdle(t, p, i)
  <2>1. m = BlockIdle(k, p, i)
    BY <1>5 DEF Sleep
  <2>2. SameBeyond(k, m) /\ TablePart(m) = u
    BY <1>1, <2>1, LiftBlock DEF Lifts
  <2>3. /\ Consistent(u) /\ u.halted = t.halted /\ KeepsReady(t, u)
        /\ u.current = [t.current EXCEPT ![p] = NoProcess]
    <3> HIDE DEF t, m
    <3> QED BY <1>1, <1>3, BlockIdleKeeps
  <2>4. u.state = [t.state EXCEPT ![i] = "BLOCKED"]
    <3>1. t.state[i] = "RUNNING"
      BY <1>3
    <3> HIDE DEF t, m
    <3>2. BlockIdle(t, PartitionOf[i], i).state = [t.state EXCEPT ![i] = "BLOCKED"]
      BY <1>1, <3>1, CallerStates, Zenon
    <3> QED BY <3>2
  <2>5. u.ready = t.ready
    BY DEF BlockIdle, Leave, SetState, TablePart
  <2>6. u.state = m.state /\ u.current = m.current /\ u.halted = m.halted
        /\ u.ready = m.ready
    BY <2>2 DEF TablePart
  <2>7. ReadyMask(k, p) = {}
    <3> SUFFICES ASSUME ReadyMask(k, p) # {} PROVE FALSE
      OBVIOUS
    <3>1. k.state[NextReady(k, p)] # "READY"
      BY <1>5 DEF BlockStatus
    <3>2. ReadyMask(t, p) # {} /\ NextReady(t, p) = NextReady(k, p)
      BY TableRead
    <3> HIDE DEF t
    <3>3. t.state[NextReady(t, p)] = "READY"
      BY <1>1, <3>2, BestIsQueued DEF Consistent
    <3> QED BY <1>3, <3>1, <3>2, <3>3
  <2> HIDE DEF m, t, u
  <2>8. ReadyMask(m, p) = {}
    BY <1>3, <2>5, <2>6, <2>7 DEF ReadyMask
  <2>9. \A j \in Process : m.state[j] = "BLOCKED" <=> k.state[j] = "BLOCKED" \/ j = i
    BY <1>3, <2>4, <2>6, SoundTypes
  <2>10. Sound(m)
    BY <1>2, <2>2, <2>3, <2>9, TableStep DEF t
  <2>11. \A r \in Partition : r # p => m.current[r] = k.current[r]
    BY <1>1, <1>3, <2>3, <2>6, SoundTypes
  <2>12. BestRuns(m, p)
    BY <2>8 DEF BestRuns, HasHigher
  <2> QED BY <1>3, <2>2, <2>3, <2>6, <2>8, <2>9, <2>10, <2>11, <2>12 DEF m, Asleep
<1> QED BY <1>4, <1>5

\* m is k with its running process i READY, in its queue, and nothing running
\* in its partition.
OffCpu(k, m, i) ==
  /\ Sound(m) /\ SameBeyond(k, m)
  /\ m.halted = k.halted /\ m.priority = k.priority
  /\ m.state = [k.state EXCEPT ![i] = "READY"]
  /\ m.current = [k.current EXCEPT ![PartitionOf[i]] = NoProcess]

LEMMA RestartRunningSound ==
  ASSUME NEW k, Sound(k), NEW i \in Process, k.state[i] = "RUNNING"
  PROVE  OffCpu(k, RestartRunning(k, i), i)
<1> DEFINE p == PartitionOf[i]
           m == RestartRunning(k, i)
           t == TablePart(k)
           u == RestartRunning(t, i)
<1>1. Consistent(t) /\ Extends(k)
  BY DEF Sound, IpcType
<1>2. k.waitlist[i] = NoList
  BY OnNoList
<1>3. /\ t.state = k.state /\ t.current = k.current /\ t.halted = k.halted
      /\ t.priority = k.priority
  BY DEF TablePart
<1>4. SameBeyond(k, m) /\ TablePart(m) = u
  BY <1>1, LiftReadyProcess DEF Lifts
<1>5. u.priority = t.priority
  BY DEF RestartRunning, Leave, AddProcess, Enqueue, SetState, TablePart
<1>6. /\ u.state = m.state /\ u.current = m.current /\ u.halted = m.halted
      /\ u.priority = m.priority
  BY <1>4 DEF TablePart
<1> HIDE DEF m, t
<1>7. /\ Consistent(u) /\ u.halted = t.halted
      /\ KeepsReady(t, u)
      /\ u.current = [t.current EXCEPT ![p] = NoProcess]
  BY <1>1, <1>3, RestartRunningKeeps
<1>8. u.state = [t.state EXCEPT ![i] = "READY"]
  BY <1>1, <1>3, CallerStates
<1> HIDE DEF u
<1>9. \A j \in Process :
        k.waitlist[j] # NoList => (m.state[j] = "BLOCKED" <=> k.state[j] = "BLOCKED")
  BY <1>2, <1>3, <1>6, <1>8, SoundTypes
<1>10. Sound(m)
  BY <1>4, <1>7, <1>9, TableStep DEF t
<1> QED BY <1>3, <1>4, <1>5, <1>6, <1>7, <1>8, <1>10 DEF m, OffCpu

-----------------------------------------------------------------------------
(* Handlers that go through the processes in the order of their ids.       *)

\* Induction over the numbers up to N, for a property given as the set of the
\* numbers that have it.
LEMMA UpToInduction ==
  ASSUME NEW N \in Nat, NEW S, 0 \in S,
         \A n \in 0 .. N : n \in S /\ n < N => n + 1 \in S
  PROVE  0 .. N \subseteq S
<1> DEFINE T == {n \in 0 .. N : n \notin S}
<1> SUFFICES ASSUME T # {} PROVE FALSE
  OBVIOUS
<1>1. PICK m \in T : \A y \in T : m <= y
  <2>1. T \subseteq Nat
    OBVIOUS
  <2> HIDE DEF T
  <2> QED BY <2>1, BestExists
<1>2. m # 0 /\ m - 1 \in 0 .. N /\ m - 1 \notin T
  BY <1>1
<1> QED BY <1>1, <1>2

\* The tables that lead to ExpireTimeouts(k, due), one for each process.
LEMMA ExpireUnfolds ==
  ASSUME NEW k, NEW due
  PROVE  \E f : /\ ExpireTimeouts(k, due) = f[NumProcesses]
                /\ f[0] = k
                /\ \A n \in Process : f[n + 1] = ExpireOne(f[n], due, n)
<1> DEFINE G(N, f) == f = [n \in 0 .. N |->
                             IF n = 0 THEN k ELSE ExpireOne(f[n - 1], due, n - 1)]
           S == {N \in 0 .. NumProcesses : \E f : G(N, f)}
<1>0. NumProcesses \in Nat
  BY ConfigAssumption
<1>1. 0 \in S
  <2>1. G(0, [n \in 0 .. 0 |-> k])
    OBVIOUS
  <2> HIDE DEF G
  <2> QED BY <1>0, <2>1
<1>2. ASSUME NEW n \in 0 .. NumProcesses, n \in S, n < NumProcesses
      PROVE  n + 1 \in S
  <2>1. PICK f : G(n, f)
    BY <1>2
  <2> DEFINE g == [m \in 0 .. n + 1 |->
                     IF m = n + 1 THEN ExpireOne(f[n], due, n) ELSE f[m]]
  <2>2. G(n + 1, g)
    <3> SUFFICES ASSUME NEW m \in 0 .. n + 1
                 PROVE  g[m] = IF m = 0 THEN k ELSE ExpireOne(g[m - 1], due, m - 1)
      OBVIOUS
    <3>1. CASE m = n + 1
      BY <3>1
    <3>2. CASE m # n + 1
      <4>1. m \in 0 .. n
            /\ f[m] = IF m = 0 THEN k ELSE ExpireOne(f[m - 1], due, m - 1)
        BY <2>1, <3>2
      <4> QED BY <4>1
    <3> QED BY <3>1, <3>2
  <2> HIDE DEF g, G
  <2> QED BY <2>2, <1>2, <1>0
<1>3. 0 .. NumProcesses \subseteq S
  <2> HIDE DEF S
  <2> QED BY <1>0, <1>1, <1>2, UpToInduction
<1> DEFINE h == CHOOSE f : G(NumProcesses, f)
<1>4. ExpireTimeouts(k, due) = h[NumProcesses]
  BY DEF ExpireTimeouts
<1>5. G(NumProcesses, h)
  <2> HIDE DEF G
  <2> QED BY <1>0, <1>3
<1> HIDE DEF h
<1>6. h[0] = k /\ \A n \in Process : h[n + 1] = ExpireOne(h[n], due, n)
  BY <1>0, <1>5 DEF Process
<1> QED BY <1>4, <1>6

\* Fields outside F are the same after two steps that write only F.
LEMMA SameButThen ==
  ASSUME NEW k, NEW l, NEW m, NEW F, NEW G, SameBut(k, l, F), SameBut(l, m, G)
  PROVE  SameBut(k, m, F \cup G)
BY DEF SameBut

\* What a handler leaves alone, and what a timeout does, to process j.
SameProcess(k, m, j) ==
  /\ m.state[j] = k.state[j] /\ m.waitlist[j] = k.waitlist[j]
  /\ m.wake[j] = k.wake[j] /\ m.op[j] = k.op[j] /\ m.result[j] = k.result[j]

TimedOut(m, j) ==
  /\ m.state[j] = "READY" /\ m.waitlist[j] = NoList
  /\ m.wake[j] = NoTick /\ m.op[j] = NoOp /\ m.result[j] = "TIMEOUT"

ExpiryFields == {"state", "ready", "waiters", "waitlist", "wake", "op", "result"}

\* m is k with the timeouts of the processes below n expired.
ExpiredUpTo(k, m, due, n) ==
  /\ Sound(m) /\ SameBut(k, m, ExpiryFields)
  /\ \A j \in Process :
       IF j < n /\ Expires(k, due, j) THEN TimedOut(m, j) ELSE SameProcess(k, m, j)

\* m is k with process i taken off its list and READY, its call completed with
\* result r.
Woken(k, m, i, r) ==
  /\ Sound(m) /\ SameBut(k, m, ExpiryFields)
  /\ m.state[i] = "READY" /\ m.waitlist[i] = NoList
  /\ m.wake[i] = NoTick /\ m.op[i] = NoOp /\ m.result[i] = r
  /\ \A j \in Process \ {i} : SameProcess(k, m, j)

LEMMA WakeSound ==
  ASSUME NEW k, Sound(k), NEW o \in WaitList, NEW i \in Process,
         IsIn(k.waiters[o], i), NEW r
  PROVE  /\ Woken(k, Resolve(TakeWaiter(k, o, i), i, r), i, r)
         /\ ResolveStatus(TakeWaiter(k, o, i), i) = "OK"
<1> DEFINE l == TakeWaiter(k, o, i)
           m == Resolve(l, i, r)
<1>1. Waits(k, i) /\ k.waitlist[i] = o /\ k.state[i] = "BLOCKED"
  BY DEF Waits, Sound, WaitsSound
<1>2. OffList(k, l, i)
  BY TakeWaiterSound
<1> HIDE DEF l
<1>4. l.state = k.state /\ l.state[i] = "BLOCKED" /\ l.waitlist[i] = NoList
      /\ l.result = k.result
  BY <1>1, <1>2 DEF OffList, SameBut, Sound, IpcType, Extends, TableFields,
              WaitFieldNames
<1>5. Resolved(l, m, i, r) /\ ResolveStatus(l, i) = "OK"
  BY <1>2, <1>4, ResolveSound, ReadySound DEF OffList
<1> HIDE DEF m
<1>6. Sound(m) /\ SameBut(k, m, ExpiryFields)
  <2>1. SameBut(k, m, {"waiters", "waitlist", "wake", "op"}
                        \cup ({"state", "ready"} \cup {"result"}))
    BY <1>2, <1>5, SameButThen DEF OffList, Resolved, MadeReady
  <2> QED BY <1>5, <2>1 DEF SameBut, ExpiryFields, Resolved, MadeReady
<1>7. m.waitlist = l.waitlist /\ m.wake = l.wake /\ m.op = l.op
  BY <1>2, <1>5 DEF OffList, Resolved, MadeReady, SameBut, Sound, IpcType,
                    WaitFieldNames
<1>8. ASSUME NEW j \in Process
      PROVE  /\ m.state[j] = IF j = i THEN "READY" ELSE k.state[j]
             /\ m.result[j] = IF j = i THEN r ELSE k.result[j]
  <2>1. k.state \in [Process -> ProcessState] /\ OnProcesses(k.result)
    BY SoundTypes DEF Sound, IpcType
  <2>2. m.state = [k.state EXCEPT ![i] = "READY"]
        /\ m.result = [k.result EXCEPT ![i] = r]
    BY <1>4, <1>5 DEF Resolved, MadeReady
  <2> QED BY <2>1, <2>2 DEF OnProcesses
<1>9. ASSUME NEW j \in Process
      PROVE  /\ m.waitlist[j] = IF j = i THEN NoList ELSE k.waitlist[j]
             /\ m.wake[j] = IF j = i THEN NoTick ELSE k.wake[j]
             /\ m.op[j] = IF j = i THEN NoOp ELSE k.op[j]
  BY <1>2, <1>7 DEF OffList, Sound, IpcType, OnProcesses
<1> QED BY <1>5, <1>6, <1>8, <1>9 DEF Woken, SameProcess, m, l

\* One timeout.
LEMMA ExpireOneSound ==
  ASSUME NEW k, Sound(k), NEW due, NEW i \in Process, Expires(k, due, i)
  PROVE  LET m == ExpireOne(k, due, i) IN
         /\ Sound(m) /\ SameBut(k, m, ExpiryFields) /\ TimedOut(m, i)
         /\ \A j \in Process \ {i} : SameProcess(k, m, j)
<1>1. k.waitlist[i] \in WaitList /\ IsIn(k.waiters[k.waitlist[i]], i)
  BY DEF Expires, Waits, Sound, IpcType, WaitsSound
<1>2. ExpireOne(k, due, i)
        = Resolve(TakeWaiter(k, k.waitlist[i], i), i, "TIMEOUT")
  BY DEF ExpireOne
<1>3. Woken(k, ExpireOne(k, due, i), i, "TIMEOUT")
  BY <1>1, <1>2, WakeSound
<1> QED BY <1>3 DEF Woken, TimedOut

\* The timed waits that end at a tick, all of them: their processes are READY
\* and on no list, and nobody else has been touched.
LEMMA ExpireTimeoutsSound ==
  ASSUME NEW k, Sound(k), NEW due
  PROVE  ExpiredUpTo(k, ExpireTimeouts(k, due), due, NumProcesses)
<1>1. PICK f : /\ ExpireTimeouts(k, due) = f[NumProcesses]
               /\ f[0] = k
               /\ \A n \in Process : f[n + 1] = ExpireOne(f[n], due, n)
  BY ExpireUnfolds
<1>2. NumProcesses \in Nat
  BY ConfigAssumption
<1> DEFINE S == {n \in 0 .. NumProcesses : ExpiredUpTo(k, f[n], due, n)}
<1>3. 0 \in S
  BY <1>1, <1>2 DEF ExpiredUpTo, SameBut, SameProcess, Process, Sound, IpcType, Extends
<1>4. ASSUME NEW n \in 0 .. NumProcesses, n \in S, n < NumProcesses
      PROVE  n + 1 \in S
  <2>1. n \in Process /\ f[n + 1] = ExpireOne(f[n], due, n)
    BY <1>1, <1>2, <1>4 DEF Process
  <2> DEFINE l == f[n]
             m == f[n + 1]
  <2>2. ExpiredUpTo(k, l, due, n) /\ m = ExpireOne(l, due, n)
    BY <1>4, <2>1
  <2> HIDE DEF l, m
  <2>3. SameProcess(k, l, n)
    BY <2>1, <2>2 DEF ExpiredUpTo, Process
  <2>4. Expires(l, due, n) <=> Expires(k, due, n)
    BY <2>3 DEF Expires, Waits, SameProcess
  <2>5. CASE ~Expires(k, due, n)
    <3>1. m = l
      BY <2>2, <2>4, <2>5 DEF ExpireOne
    <3>2. \A j \in Process : j < n + 1 /\ Expires(k, due, j) <=> j < n /\ Expires(k, due, j)
      BY <2>5, <2>1 DEF Process
    <3> QED BY <1>2, <1>4, <2>2, <3>1, <3>2 DEF ExpiredUpTo, m
  <2>6. CASE Expires(k, due, n)
    <3>1. /\ Sound(m) /\ SameBut(l, m, ExpiryFields) /\ TimedOut(m, n)
          /\ \A j \in Process \ {n} : SameProcess(l, m, j)
      BY <2>1, <2>2, <2>4, <2>6, ExpireOneSound DEF ExpiredUpTo
    <3>2. SameBut(k, m, ExpiryFields)
      BY <2>2, <3>1 DEF ExpiredUpTo, SameBut
    <3>3. ASSUME NEW j \in Process
          PROVE  IF j < n + 1 /\ Expires(k, due, j) THEN TimedOut(m, j)
                 ELSE SameProcess(k, m, j)
      <4>1. CASE j = n
        BY <2>6, <3>1, <4>1 DEF Process
      <4>2. CASE j # n
        <5>1. SameProcess(l, m, j)
          BY <3>1, <4>2
        <5>2. j < n + 1 <=> j < n
          BY <2>1, <4>2 DEF Process
        <5>3. IF j < n /\ Expires(k, due, j) THEN TimedOut(l, j)
              ELSE SameProcess(k, l, j)
          BY <2>2 DEF ExpiredUpTo
        <5> QED BY <5>1, <5>2, <5>3 DEF TimedOut, SameProcess
      <4> QED BY <4>1, <4>2
    <3> QED BY <1>2, <1>4, <3>1, <3>2, <3>3 DEF ExpiredUpTo, m
  <2> QED BY <2>5, <2>6
<1>5. 0 .. NumProcesses \subseteq S
  <2> HIDE DEF S
  <2> QED BY <1>2, <1>3, <1>4, UpToInduction
<1>6. ExpiredUpTo(k, f[NumProcesses], due, NumProcesses)
  BY <1>2, <1>5
<1> QED BY <1>1, <1>6

-----------------------------------------------------------------------------
(* Start-up: every process is registered with its partition.               *)

LEMMA RegisteredUnfolds ==
  \E f : /\ Registered = f[NumProcesses]
         /\ f[0] = CreatedTable
         /\ \A n \in Process : f[n + 1] = AddProcess(f[n], n)
<1> DEFINE G(N, f) == f = [n \in 0 .. N |-> IF n = 0 THEN CreatedTable
                                            ELSE AddProcess(f[n - 1], n - 1)]
           S == {N \in 0 .. NumProcesses : \E f : G(N, f)}
<1>0. NumProcesses \in Nat
  BY ConfigAssumption
<1>1. 0 \in S
  <2>1. G(0, [n \in 0 .. 0 |-> CreatedTable])
    OBVIOUS
  <2> HIDE DEF G
  <2> QED BY <1>0, <2>1
<1>2. ASSUME NEW n \in 0 .. NumProcesses, n \in S, n < NumProcesses
      PROVE  n + 1 \in S
  <2>1. PICK f : G(n, f)
    BY <1>2
  <2> DEFINE g == [m \in 0 .. n + 1 |->
                     IF m = n + 1 THEN AddProcess(f[n], n) ELSE f[m]]
  <2>2. G(n + 1, g)
    <3> SUFFICES ASSUME NEW m \in 0 .. n + 1
                 PROVE  g[m] = IF m = 0 THEN CreatedTable
                               ELSE AddProcess(g[m - 1], m - 1)
      OBVIOUS
    <3>1. CASE m = n + 1
      BY <3>1
    <3>2. CASE m # n + 1
      <4>1. m \in 0 .. n
            /\ f[m] = IF m = 0 THEN CreatedTable ELSE AddProcess(f[m - 1], m - 1)
        BY <2>1, <3>2
      <4> QED BY <4>1
    <3> QED BY <3>1, <3>2
  <2> HIDE DEF g, G
  <2> QED BY <2>2, <1>2, <1>0
<1>3. 0 .. NumProcesses \subseteq S
  <2> HIDE DEF S
  <2> QED BY <1>0, <1>1, <1>2, UpToInduction
<1> DEFINE h == CHOOSE f : G(NumProcesses, f)
<1>4. Registered = h[NumProcesses]
  BY DEF Registered
<1>5. G(NumProcesses, h)
  <2> HIDE DEF G
  <2> QED BY <1>0, <1>3
<1> HIDE DEF h
<1>6. h[0] = CreatedTable /\ \A n \in Process : h[n + 1] = AddProcess(h[n], n)
  BY <1>0, <1>5 DEF Process
<1> QED BY <1>4, <1>6

\* m has every process below n in its queue, and nothing else has happened.
QueuedUpTo(m, n) ==
  /\ m \in TableType /\ QueuesSound(m) /\ SameButQueues(CreatedTable, m)
  /\ \A j \in Process : Queued(m, j) <=> j < n

LEMMA RegisteredSound == QueuedUpTo(Registered, NumProcesses)
<1>1. PICK f : /\ Registered = f[NumProcesses]
               /\ f[0] = CreatedTable
               /\ \A n \in Process : f[n + 1] = AddProcess(f[n], n)
  BY RegisteredUnfolds
<1>2. NumProcesses \in Nat
  BY ConfigAssumption
<1> DEFINE S == {n \in 0 .. NumProcesses : QueuedUpTo(f[n], n)}
<1>3. 0 \in S
  <2> DEFINE c == CreatedTable
  <2>1. c \in TableType
    BY ConfigAssumption DEF CreatedTable, TableType, ProcessState
  <2>2. \A p \in Partition, q \in Priority : c.ready[p][q] = <<>>
    BY DEF CreatedTable
  <2>3. \A j \in Process : PartitionOf[j] \in Partition /\ c.priority[j] \in Priority
    BY <2>1, ConfigAssumption DEF TableType
  <2> HIDE DEF c
  <2>4. \A i : ~IsIn(<<>>, i)
    BY DEF IsIn
  <2>5. QueuesSound(c) /\ \A j \in Process : ~Queued(c, j)
    BY <2>2, <2>3, <2>4 DEF QueuesSound, Queued, NoRepeats
  <2>6. \A j \in Process : ~(j < 0)
    BY <1>2 DEF Process
  <2> QED BY <1>1, <1>2, <2>1, <2>5, <2>6 DEF QueuedUpTo, SameButQueues, c
<1>4. ASSUME NEW n \in 0 .. NumProcesses, n \in S, n < NumProcesses
      PROVE  n + 1 \in S
  <2> DEFINE l == f[n]
             m == f[n + 1]
  <2>1. n \in Process /\ m = AddProcess(l, n) /\ QueuedUpTo(l, n)
    BY <1>1, <1>2, <1>4 DEF Process
  <2> HIDE DEF l, m
  <2>2. l.state[n] = "READY" /\ ~Queued(l, n)
    BY <2>1 DEF QueuedUpTo, SameButQueues, CreatedTable, Process
  <2>3. Added(l, m, n)
    BY <2>1, <2>2, NotQueuedInNoQueue, AddProcessAdds DEF QueuedUpTo
  <2>4. \A j \in Process : j < n + 1 <=> j < n \/ j = n
    BY <2>1 DEF Process
  <2>5. QueuedUpTo(m, n + 1)
    BY <2>1, <2>3, <2>4 DEF QueuedUpTo, Added, SameButQueues
  <2> QED BY <1>2, <1>4, <2>5 DEF m
<1>5. 0 .. NumProcesses \subseteq S
  <2> HIDE DEF S
  <2> QED BY <1>2, <1>3, <1>4, UpToInduction
<1>6. QueuedUpTo(f[NumProcesses], NumProcesses)
  BY <1>2, <1>5
<1> QED BY <1>1, <1>6

\* k is the record at boot, with the fields of g of a service.
AtBoot(k, g) ==
  /\ k.state = [i \in Process |-> "READY"] /\ k.priority = BasePriority
  /\ k.current = [p \in Partition |-> NoProcess]
  /\ k.halted = [p \in Partition |-> FALSE]
  /\ k.waiters = [o \in WaitList |-> <<>>]
  /\ k.waitlist = [i \in Process |-> NoList]
  /\ k.wake = [i \in Process |-> NoTick]
  /\ k.op = [i \in Process |-> NoOp]
  /\ k.result = [i \in Process |-> NoResult]
  /\ DOMAIN k = TableFields \cup WaitFieldNames \cup DOMAIN g
  /\ \A x \in DOMAIN g : k[x] = g[x]

LEMMA BootSound ==
  ASSUME NEW g, DOMAIN g \cap (TableFields \cup WaitFieldNames) = {}
  PROVE  LET k == Merge(Merge(Registered, WaitFields), g) IN
         Sound(k) /\ AtBoot(k, g)
<1> DEFINE t == Registered
           w == WaitFields
           l == Merge(t, w)
           k == Merge(l, g)
<1>1. QueuedUpTo(t, NumProcesses)
  BY RegisteredSound
<1>2. DOMAIN t = TableFields /\ t = [x \in DOMAIN t |-> t[x]]
  BY <1>1 DEF QueuedUpTo, TableType, TableFields
<1>3. DOMAIN w = WaitFieldNames
  BY DEF WaitFields, WaitFieldNames
<1> HIDE DEF t
<1>4. /\ DOMAIN l = TableFields \cup WaitFieldNames
      /\ \A x \in TableFields : l[x] = t[x]
      /\ \A x \in WaitFieldNames : l[x] = w[x]
  <2> HIDE DEF w
  <2> QED BY <1>2, <1>3 DEF Merge, TableFields, WaitFieldNames
<1>5. /\ DOMAIN k = TableFields \cup WaitFieldNames \cup DOMAIN g
      /\ k = [x \in DOMAIN k |-> k[x]]
      /\ \A x \in TableFields : k[x] = t[x]
      /\ \A x \in WaitFieldNames : k[x] = w[x]
      /\ \A x \in DOMAIN g : k[x] = g[x]
  <2> HIDE DEF w, l
  <2> QED BY <1>4 DEF Merge
<1> HIDE DEF k, l
<1>6. /\ k.waiters = [o \in WaitList |-> <<>>]
      /\ k.waitlist = [i \in Process |-> NoList]
      /\ k.wake = [i \in Process |-> NoTick]
      /\ k.op = [i \in Process |-> NoOp]
      /\ k.result = [i \in Process |-> NoResult]
  BY <1>5 DEF WaitFieldNames, WaitFields
<1> HIDE DEF w
<1>7. /\ k.state = t.state /\ k.priority = t.priority /\ k.ready = t.ready
      /\ k.current = t.current /\ k.halted = t.halted
  BY <1>5 DEF TableFields
<1>8. TablePart(k) = t
  <2>1. t = [state |-> t.state, priority |-> t.priority, ready |-> t.ready,
             current |-> t.current, halted |-> t.halted]
    BY <1>1 DEF QueuedUpTo, TableType
  <2> QED BY <1>7, <2>1 DEF TablePart
<1>9. /\ t.state = [i \in Process |-> "READY"] /\ t.priority = BasePriority
      /\ t.current = [p \in Partition |-> NoProcess]
      /\ t.halted = [p \in Partition |-> FALSE]
  BY <1>1 DEF QueuedUpTo, SameButQueues, CreatedTable
<1>10. IpcType(k)
  BY <1>5, <1>6, IpcAssumption DEF IpcType, Extends, OnProcesses, NoList, WaitList
<1>11. Consistent(t)
  <2>1. \A i \in Process : PartitionOf[i] \in Partition /\ i # NoProcess
    BY ConfigAssumption DEF Process, NoProcess
  <2>2. RunningIsCurrent(t)
    BY <1>9, <2>1 DEF RunningIsCurrent
  <2> QED BY <1>1, <2>2 DEF Consistent, QueuedUpTo
<1>12. NoneLostOf(k, Process)
  <2>1. \A i \in Process : i < NumProcesses
    BY ConfigAssumption DEF Process
  <2>2. \A i \in Process : Queued(t, i)
    BY <1>1, <2>1 DEF QueuedUpTo
  <2> QED BY <1>8, <2>2, TableRead DEF NoneLostOf
<1>13. WaitsSound(k)
  <2>1. \A i : ~IsIn(<<>>, i)
    BY DEF IsIn
  <2>2. NoRepeats(<<>>) /\ Len(<<>>) <= WaitlistMax
    BY IpcAssumption DEF NoRepeats
  <2> QED BY <1>6, <1>7, <1>9, <2>1, <2>2 DEF WaitsSound, Waits
<1>14. Sound(k)
  BY <1>8, <1>10, <1>11, <1>12, <1>13 DEF Sound
<1>15. AtBoot(k, g)
  BY <1>5, <1>6, <1>7, <1>9 DEF AtBoot
<1> QED BY <1>14, <1>15 DEF k, l, t, w

-----------------------------------------------------------------------------
(* The end of a call.                                                      *)

\* m is k with the result of process c handed to it, if any process runs.
Delivered(k, m, c) ==
  /\ Sound(m) /\ SameBut(k, m, {"result"})
  /\ m.result = IF c = NoProcess THEN k.result ELSE [k.result EXCEPT ![c] = NoResult]

LEMMA DeliverSound ==
  ASSUME NEW k, Sound(k), NEW c \in Process \cup {NoProcess}
  PROVE  Delivered(k, Deliver(k, c), c)
<1> DEFINE m == Deliver(k, c)
<1>1. k = [x \in DOMAIN k |-> k[x]] /\ WaitFieldNames \subseteq DOMAIN k
      /\ OnProcesses(k.op) /\ OnProcesses(k.wake) /\ OnProcesses(k.result)
  BY DEF Sound, IpcType, Extends
<1>2. SameBut(k, m, {"result"})
      /\ m.result = IF c = NoProcess THEN k.result
                    ELSE [k.result EXCEPT ![c] = NoResult]
  BY <1>1 DEF Deliver, SameBut, WaitFieldNames
<1> HIDE DEF m
<1>3. SameBut(k, m, {"result", "op", "wake"}) /\ m.op = k.op /\ m.wake = k.wake
  BY <1>1, <1>2 DEF SameBut, WaitFieldNames
<1>4. OnProcesses(m.result) /\ OnProcesses(m.op) /\ OnProcesses(m.wake)
  BY <1>1, <1>2, <1>3 DEF OnProcesses
<1>5. Sound(m)
  BY <1>3, <1>4, AnnotateSound
<1> QED BY <1>2, <1>5 DEF Delivered, m
=============================================================================
