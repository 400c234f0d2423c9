--------------------------- MODULE PartitionTable ---------------------------
(***************************************************************************)
(* The partition table and the part of the process control blocks that the *)
(* dispatcher works on, as operators on a record.                          *)
(*                                                                         *)
(*   k.state[i]       scheduling state of process i            (pcb->state)*)
(*   k.priority[i]    its effective priority, 0 the highest (pcb->priority)*)
(*   k.ready[p][q]    ready queue of priority q of partition p, oldest     *)
(*                    first               (scheduler_ctx[p].queues[q])     *)
(*   k.current[p]     the process partition p runs, or NoProcess           *)
(*                                                       (current_id[p])   *)
(*   k.halted[p]      the health monitor stopped the partition (halted[p]) *)
(*                                                                         *)
(* The ready queues are rings in the code and the set of non-empty queues  *)
(* is kept as a bit mask; module Scheduler has them in that form and shows *)
(* that they are the sequences used here.  Every operator reads and        *)
(* updates only the fields above, so a module that needs more state        *)
(* extends the record and uses the operators unchanged.                    *)
(***************************************************************************)
EXTENDS Integers, Sequences, FiniteSets

CONSTANTS
  NumProcesses,         \* created processes: slots 0 .. NumProcesses - 1
  NumPartitions,        \* partitions 0 .. NumPartitions - 1
  MaxPriority,          \* MAXRTOS_MAX_PRIORITY
  MaxReadyPerPriority,  \* MAXRTOS_MAX_READY_PER_PRIORITY
  PartitionOf,          \* pcb->partition_id
  BasePriority          \* pcb->base_priority

Process   == 0 .. NumProcesses - 1
Partition == 0 .. NumPartitions - 1
Priority  == 0 .. MaxPriority

\* MAXRTOS_INVALID_PROCESS_ID: an id outside the pool.
NoProcess == NumProcesses

ProcessState == {"READY", "RUNNING", "BLOCKED"}

Members(p) == {i \in Process : PartitionOf[i] = p}

\* The generated configuration header refuses limits under which a ready
\* queue could not hold every process of a partition.
ASSUME ConfigAssumption ==
  /\ NumProcesses \in Nat \ {0}
  /\ NumPartitions \in Nat \ {0}
  /\ MaxPriority \in Nat
  /\ MaxReadyPerPriority \in Nat
  /\ PartitionOf \in [Process -> Partition]
  /\ BasePriority \in [Process -> Priority]
  /\ \A p \in Partition : Cardinality(Members(p)) <= MaxReadyPerPriority

TableType ==
  [state    : [Process -> ProcessState],
   priority : [Process -> Priority],
   ready    : [Partition -> [Priority -> Seq(Process)]],
   current  : [Partition -> Process \cup {NoProcess}],
   halted   : [Partition -> BOOLEAN]]

\* Every process created, none registered with its partition yet.
CreatedTable ==
  [state    |-> [i \in Process |-> "READY"],
   priority |-> BasePriority,
   ready    |-> [p \in Partition |-> [q \in Priority |-> <<>>]],
   current  |-> [p \in Partition |-> NoProcess],
   halted   |-> [p \in Partition |-> FALSE]]

-----------------------------------------------------------------------------
(* Ready queues of one partition. *)

ReadyMask(k, p) == {q \in Priority : k.ready[p][q] # <<>>}

BestPriority(k, p) ==
  CHOOSE q \in ReadyMask(k, p) : \A r \in ReadyMask(k, p) : q <= r

NextReady(k, p) == Head(k.ready[p][BestPriority(k, p)])

HasHigher(k, p, q) == \E r \in ReadyMask(k, p) : r < q

\* Queue i of partition p at the tail, or at the head, of its priority.
Enqueue(k, p, i) ==
  [k EXCEPT !.ready[p][k.priority[i]] = Append(@, i)]

EnqueueFront(k, p, i) ==
  [k EXCEPT !.ready[p][k.priority[i]] = <<i>> \o @]

HasRoom(k, p, i) == Len(k.ready[p][k.priority[i]]) < MaxReadyPerPriority

PopBest(k, p) == [k EXCEPT !.ready[p][BestPriority(k, p)] = Tail(@)]

IndexIn(s, i) == CHOOSE a \in 1 .. Len(s) :
                   s[a] = i /\ \A b \in 1 .. a - 1 : s[b] # i

\* Faulty variant: the last entry fills the gap.
WithoutBySwap(s, i) ==
  [a \in 1 .. Len(s) - 1 |-> IF a = IndexIn(s, i) THEN s[Len(s)] ELSE s[a]]

\* Sequence s without its first entry i: later entries move up one place.
Without(s, i) ==
  [a \in 1 .. Len(s) - 1 |-> IF a < IndexIn(s, i) THEN s[a] ELSE s[a + 1]]

IsIn(s, i) == \E a \in 1 .. Len(s) : s[a] = i

Queued(k, i) ==
  /\ k.state[i] = "READY"
  /\ IsIn(k.ready[PartitionOf[i]][k.priority[i]], i)

RemoveProcess(k, i) ==
  [k EXCEPT !.ready[PartitionOf[i]][k.priority[i]] = Without(@, i)]

-----------------------------------------------------------------------------
(* Operations of the process pool and the partition table.                 *)

SetState(k, i, x)    == [k EXCEPT !.state[i] = x]
SetPriority(k, i, q) == [k EXCEPT !.priority[i] = q]

\* maxrtos_partition_add_process: INVALID_STATE and QUEUE_FULL change nothing.
AddStatus(k, i) ==
  IF k.state[i] # "READY" THEN "INVALID_STATE"
  ELSE IF ~HasRoom(k, PartitionOf[i], i) THEN "QUEUE_FULL" ELSE "OK"

AddProcess(k, i) ==
  IF AddStatus(k, i) = "OK" THEN Enqueue(k, PartitionOf[i], i) ELSE k

\* Faulty variant: woken, but in no queue.
ReadyUnqueued(k, i) == SetState(k, i, "READY")

\* The state is set before the queueing that may fail.
ReadyProcess(k, i) == AddProcess(SetState(k, i, "READY"), i)

\* Faulty variant: the process stays in the queue of its old priority.
SetPriorityInPlace(k, i, q) == SetPriority(k, i, q)

\* A queued process is taken out and queued again at the tail of its new
\* priority, the same one included; if that queue is full the old priority
\* comes back, and with it the (tail of the) old queue.
SetProcessPriority(k, i, q) ==
  IF ~Queued(k, i)
  THEN SetPriority(k, i, q)
  ELSE LET out == RemoveProcess(k, i)
           new == SetPriority(out, i, q)
       IN  IF HasRoom(new, PartitionOf[i], i)
           THEN Enqueue(new, PartitionOf[i], i)
           ELSE Enqueue(out, PartitionOf[i], i)

\* Faulty variant: equals take over as well, a time slice.
TakesOverEquals(q, r, yield) == q <= r

\* Whether a READY process of priority q takes the CPU from one of priority
\* r: only a better one, or an equal one when the running process gives way.
TakesOver(q, r, yield) == q < r \/ (yield /\ q = r)

\* The best READY process of partition p replaces its current process, which
\* goes behind its peers if it yields and in front of them if preempted.
Switches(k, p, yield) ==
  /\ ReadyMask(k, p) # {}
  /\ \/ k.current[p] = NoProcess
     \/ TakesOver(BestPriority(k, p), k.priority[k.current[p]], yield)

\* Faulty variant: a preempted process goes behind its peers.
RequeueLast(k, p, i, yield) == Enqueue(SetState(k, i, "READY"), p, i)

Requeue(k, p, i, yield) ==
  LET back == SetState(k, i, "READY")
  IN  IF yield THEN Enqueue(back, p, i) ELSE EnqueueFront(back, p, i)

SelectStatus(k, p, yield) ==
  LET cur == k.current[p] IN
  IF k.halted[p] THEN "PARTITION_HALTED"
  ELSE IF cur # NoProcess /\ k.state[cur] # "RUNNING" THEN "INVALID_STATE"
  ELSE IF cur = NoProcess /\ ReadyMask(k, p) = {} THEN "QUEUE_EMPTY"
  ELSE IF ReadyMask(k, p) # {} /\ k.state[NextReady(k, p)] # "READY"
  THEN "INVALID_STATE"
  ELSE IF /\ Switches(k, p, yield) /\ cur # NoProcess
          /\ ~HasRoom(PopBest(k, p), p, cur)
  THEN "QUEUE_FULL" ELSE "OK"

\* The context of process n is the next one of partition p.
Run(k, p, n) == [k EXCEPT !.state[n] = "RUNNING", !.current[p] = n]

PartitionSelect(k, p, yield) ==
  IF SelectStatus(k, p, yield) # "OK" \/ ~Switches(k, p, yield)
  THEN k
  ELSE LET next   == NextReady(k, p)
           popped == PopBest(k, p)
           back   == IF k.current[p] = NoProcess THEN popped
                     ELSE Requeue(popped, p, k.current[p], yield)
       IN  Run(back, p, next)

PartitionDispatch(k, p) == PartitionSelect(k, p, FALSE)
PartitionYield(k, p)    == PartitionSelect(k, p, TRUE)

\* Block i, which partition p runs, and hand the CPU to the best READY
\* process; with none READY the caller stays RUNNING.
BlockStatus(k, p, i) ==
  IF k.halted[p] THEN "PARTITION_HALTED"
  ELSE IF k.state[i] # "RUNNING" THEN "INVALID_STATE"
  ELSE IF ReadyMask(k, p) = {} THEN "QUEUE_EMPTY"
  ELSE IF k.state[NextReady(k, p)] # "READY" THEN "INVALID_STATE" ELSE "OK"

BlockAndDispatch(k, p, i) ==
  IF BlockStatus(k, p, i) # "OK" THEN k
  ELSE Run(SetState(PopBest(k, p), i, "BLOCKED"), p, NextReady(k, p))

\* Partition p runs nothing.
Leave(k, p) == [k EXCEPT !.current[p] = NoProcess]

\* Faulty variants: the partition keeps its current process; the state is one
\* that nothing resumes from.
BlockIdleStays(k, p, i)    == SetState(k, i, "BLOCKED")
BlockIdleSuspends(k, p, i) == Leave(SetState(k, i, "SUSPENDED"), p)

\* A periodic or timed wait with nothing READY blocks all the same, and the
\* partition runs nothing until a process of it is released.
BlockIdle(k, p, i) == Leave(SetState(k, i, "BLOCKED"), p)

\* Faulty variants: still the current process; in no queue.
RestartStays(k, i)    == AddProcess(SetState(k, i, "READY"), i)
RestartUnqueued(k, i) == Leave(SetState(k, i, "READY"), PartitionOf[i])

\* Fault recovery takes a RUNNING process off the CPU of its partition.
RestartRunning(k, i) ==
  Leave(AddProcess(SetState(k, i, "READY"), i), PartitionOf[i])

\* Its states for a process in any state; a READY one stays where it is.
RestartProcess(k, i) ==
  IF k.state[i] = "RUNNING" THEN RestartRunning(k, i)
  ELSE IF k.state[i] = "BLOCKED" THEN ReadyProcess(k, i) ELSE k

HaltPartition(k, p) == [k EXCEPT !.halted[p] = TRUE]

\* Faulty variant: priorities compared the wrong way round.
NeedsPreemptionByLower(k, i) ==
  /\ k.state[i] = "RUNNING"
  /\ \E q \in ReadyMask(k, PartitionOf[i]) : q > k.priority[i]

\* Whether a caller that still runs gives way to what a call made READY.
NeedsPreemption(k, i) ==
  k.state[i] = "RUNNING" /\ HasHigher(k, PartitionOf[i], k.priority[i])

-----------------------------------------------------------------------------
(* What the table promises, as predicates on its record. *)

\* The table and the PCBs agree on what runs: a process is RUNNING exactly if
\* its partition records it as current, so at most one is in each partition,
\* and a partition's current process is one of its own.
RunningIsCurrent(k) ==
  /\ \A i \in Process :
       (k.state[i] = "RUNNING") <=> (k.current[PartitionOf[i]] = i)
  /\ \A p \in Partition :
       k.current[p] # NoProcess => PartitionOf[k.current[p]] = p

NoRepeats(s) == \A a, b \in 1 .. Len(s) : s[a] = s[b] => a = b

\* Everything in a ready queue is a READY process of that partition and that
\* effective priority, and is there once.
QueuesSound(k) ==
  \A p \in Partition, q \in Priority :
    /\ NoRepeats(k.ready[p][q])
    /\ \A i \in Process :
         IsIn(k.ready[p][q], i) =>
           k.state[i] = "READY" /\ PartitionOf[i] = p /\ k.priority[i] = q

\* No READY process of the set S is lost: it is in the queue it belongs to.
NoneLostOf(k, S) == \A i \in S : k.state[i] = "READY" => Queued(k, i)

\* Nothing READY in partition p outranks the process it runs.
BestRuns(k, p) ==
  k.current[p] # NoProcess => ~HasHigher(k, p, k.priority[k.current[p]])
=============================================================================
