------------------------------- MODULE Mutex --------------------------------
(***************************************************************************)
(* Mutexes of a partition, with priority inheritance: mutex.c, and what    *)
(* service calls, the tick and fault recovery do to them.  A mutex goes    *)
(* from its owner straight to the best waiter; an owner runs at the best   *)
(* of its own priority and those of the processes that wait for it, which  *)
(* the code keeps up with walks along the chain of blocked owners.         *)
(*                                                                         *)
(* Timeouts and delays are of any length, so a tick may end any set of     *)
(* armed waits; module Timing has the ticks.                               *)
(***************************************************************************)
EXTENDS Services

CONSTANTS
  NumMutexes,
  MutexPartition,
  MaxMisses       \* bound: deadline misses that one tick handles

MutexId == 0 .. NumMutexes - 1
NoClaim == MaxPriority + 1

ASSUME MutexAssumption ==
  /\ NumMutexes \in Nat
  /\ MutexPartition \in [MutexId -> Partition]
  /\ NumWaitLists = NumMutexes
  /\ MaxMisses \in Nat

\* sys is the record of Services with the owner of each mutex, sys.owner[m].
LockOp(m) == [kind |-> "MUTEX_LOCK", id |-> m]

TypeOK ==
  /\ sys.state \in [Process -> ProcessState]
  /\ sys.priority \in [Process -> Priority]
  /\ sys.owner \in [MutexId -> Process \cup {NoProcess}]
  /\ sys.waiters \in [WaitList -> Seq(Process)]
  /\ sys.waitlist \in [Process -> WaitList \cup {NoList}]
  /\ sys.wake \in [Process -> {Armed, NoTick}]
  /\ sys.op \in [Process -> {NoOp} \cup {LockOp(m) : m \in MutexId}]
  /\ sys.result \in [Process -> {NoResult, "OK", "TIMEOUT"}]
  /\ cpu \in Process \cup {NoProcess}

Init ==
  /\ sys = PartitionDispatch(
             Merge(Merge(Registered, WaitFields),
                   [owner |-> [m \in MutexId |-> NoProcess]]), 0)
  /\ cpu = sys.current[0]

-----------------------------------------------------------------------------
(* Priority inheritance. *)

Waiters(k, m) == {i \in Process : IsIn(k.waiters[m], i)}
Owned(k, i)   == {m \in MutexId : k.owner[m] = i}

\* The best of the process's own priority, a claim and those of its waiters.
WantedPriority(k, i, claim) ==
  LET demands == {BasePriority[i], claim}
                   \cup {k.priority[w] : w \in UNION {Waiters(k, m) : m \in Owned(k, i)}}
  IN  CHOOSE q \in demands : \A r \in demands : q <= r

\* The owner of the mutex that i is blocked on, if it is.
Onward(k, i) ==
  IF k.state[i] = "BLOCKED" /\ k.op[i].kind = "MUTEX_LOCK"
  THEN k.owner[k.op[i].id] ELSE NoProcess

\* One hop: the priority of process h.at, then the owner that it waits for.
Arrive(k, i) == [table |-> k, claim |-> NoClaim, at |-> Onward(k, i)]

Hop(h) ==
  IF h.at = NoProcess THEN h
  ELSE Arrive(SetProcessPriority(h.table, h.at, WantedPriority(h.table, h.at, h.claim)),
              h.at)

\* Faulty variant: inheritance is not transitive.
RefreshOwnerOnly(k, i, claim) == Hop([table |-> k, claim |-> claim, at |-> i]).table

\* The walk along the chain of owners stops after NumMutexes + 1 hops.
RefreshChain(k, i, claim) ==
  LET after[n \in 0 .. NumMutexes + 1] ==
        IF n = 0 THEN [table |-> k, claim |-> claim, at |-> i]
        ELSE Hop(after[n - 1])
  IN  after[NumMutexes + 1].table

RefreshPriorities(k) ==
  LET upTo[n \in 0 .. NumMutexes] ==
        IF n = 0 THEN k
        ELSE RefreshChain(upTo[n - 1], upTo[n - 1].owner[n - 1], NoClaim)
  IN  upTo[NumMutexes]

-----------------------------------------------------------------------------
(* Operations of the mutex service. *)

\* The best waiter gets the mutex, unless it could not be made READY.
Grant(k, m, i) ==
  [Resolve(k, i, "OK") EXCEPT
     !.owner[m] = IF ResolveStatus(k, i) = "OK" THEN i ELSE NoProcess]

PassOn(k, m) ==
  IF k.waiters[m] = <<>> THEN [k EXCEPT !.owner[m] = NoProcess]
  ELSE Grant(TakeWaiter(k, m, BestWaiter(k, m)), m, BestWaiter(k, m))

HandOff(k, m) == RefreshChain(PassOn(k, m), k.owner[m], NoClaim)

ReleaseOne(k, m, i) == IF k.owner[m] = i THEN HandOff(k, m) ELSE k

\* Faulty variant: a dead process's mutexes are freed, not handed over.
ReleaseUnowned(k, i) ==
  [k EXCEPT !.owner = [m \in MutexId |-> IF @[m] = i THEN NoProcess ELSE @[m]]]

ReleaseAll(k, i) ==
  LET upTo[n \in 0 .. NumMutexes] ==
        IF n = 0 THEN k ELSE ReleaseOne(upTo[n - 1], n - 1, i)
  IN  upTo[NumMutexes]

\* Faulty variant: the owner is not raised.
LockUnraised(k, i, m, wake) == BlockCurrent(k, i, m, wake, LockOp(m))

\* The owner is raised before the caller blocks, and lowered again if the
\* caller cannot block (the list is full, or nothing else can run).
BlockOnLock(k, i, m, wake) ==
  IF BlockCurrentStatus(k, i, m) = "OK"
  THEN BlockCurrent(k, i, m, wake, LockOp(m))
  ELSE RefreshChain(BlockCurrent(k, i, m, wake, LockOp(m)), k.owner[m], NoClaim)

LockBusy(k, i, m, wake) ==
  BlockOnLock(RefreshChain(k, k.owner[m], k.priority[i]), i, m, wake)

-----------------------------------------------------------------------------
(* Service calls of the process on the CPU. *)

\* A call on a mutex of another partition, and a lock by the owner, change
\* nothing.
Lock(m, wake) ==
  /\ cpu # NoProcess /\ MutexPartition[m] = PartitionOf[cpu]
  /\ sys.owner[m] # cpu
  /\ \E k \in {IF sys.owner[m] = NoProcess THEN [sys EXCEPT !.owner[m] = cpu]
               ELSE LockBusy(sys, cpu, m, wake)} : Return(k)

Unlock(m) ==
  /\ cpu # NoProcess /\ sys.owner[m] = cpu
  /\ \E k \in {HandOff(sys, m)} : Return(k)

\* timed_wait and periodic_wait: off the CPU until a tick, holding what it has.
Wait ==
  /\ cpu # NoProcess
  /\ \E k \in {Sleep(sys, cpu)} :
       Resume([k EXCEPT !.wake[cpu] = Armed], PartitionOf[cpu])

-----------------------------------------------------------------------------
(* Faults: the health monitor restarts a process from its entry point. *)

\* The restart once the mutexes are gone: a blocked process leaves its list,
\* the owners it waited for are lowered, and it is READY.
RestartReleased(k, i) ==
  IF k.state[i] = "RUNNING" THEN RestartRunning(k, i)
  ELSE IF k.state[i] = "BLOCKED"
  THEN ReadyProcess(ClearBlocked(RefreshPriorities(LeaveAny(k, i)), i), i)
  ELSE k

\* Faulty variant: the process restarts with its mutexes.
RestartHolding(k, i) == RestartReleased(k, i)

RestartStates(k, i) == RestartReleased(ReleaseAll(k, i), i)

\* The restart, and the fresh context: it drops a pending result.
Restart(k, i) == [RestartStates(k, i) EXCEPT !.result[i] = NoResult]

\* A fault exception of the process on the CPU.
Fault ==
  /\ cpu # NoProcess
  /\ \E k \in {PartitionYield(Restart(sys, cpu), PartitionOf[cpu])} :
       /\ cpu' = k.current[PartitionOf[cpu]]
       /\ sys' = Deliver(k, cpu')

-----------------------------------------------------------------------------
(* The tick. *)

\* Releases of timed and periodic waits, in the order of the process ids.
ReleaseWait(k, due, i) ==
  IF i \in due /\ k.state[i] = "BLOCKED" /\ k.waitlist[i] = NoList
  THEN Resolve([k EXCEPT !.wake[i] = NoTick], i, "OK") ELSE k

ReleaseWaits(k, due) ==
  LET upTo[n \in 0 .. NumProcesses] ==
        IF n = 0 THEN k ELSE ReleaseWait(upTo[n - 1], due, n - 1)
  IN  upTo[NumProcesses]

\* Priorities are derived again if a mutex waiter has given up.
LockExpires(k, due) ==
  \E i \in Process : Expires(k, due, i) /\ k.op[i].kind = "MUTEX_LOCK"

ExpireLocks(k, due) ==
  IF LockExpires(k, due) THEN RefreshPriorities(ExpireTimeouts(k, due))
  ELSE ExpireTimeouts(k, due)

\* Handling a deadline miss of i while c is on the CPU: the result is the table
\* and what the CPU has left, nothing if its process was restarted.
AfterMiss(k, c, i) ==
  IF i # c THEN [table |-> k, cpu |-> c]
  ELSE [table |-> PartitionYield(k, PartitionOf[i]), cpu |-> NoProcess]

HandleMiss(h, missed, i) ==
  IF i \in missed THEN AfterMiss(Restart(h.table, i), h.cpu, i) ELSE h

HandleMisses(k, c, missed) ==
  LET upTo[n \in 0 .. NumProcesses] ==
        IF n = 0 THEN [table |-> k, cpu |-> c]
        ELSE HandleMiss(upTo[n - 1], missed, n - 1)
  IN  upTo[NumProcesses]

\* The misses found at the previous tick, the waits that end, the dispatch of
\* the partition whose slot it is.
Tick(p, due, missed) ==
  /\ \A i \in due : sys.state[i] = "BLOCKED" /\ sys.wake[i] = Armed
  /\ Cardinality(missed) <= MaxMisses
  /\ \E h \in {HandleMisses(sys, cpu, missed)} :
     \E k \in {ReleaseWaits(ExpireLocks(h.table, due), due)} :
     \E l \in {PartitionDispatch(k, p)} :
       /\ cpu' = IF SelectStatus(k, p, FALSE) = "OK" THEN l.current[p] ELSE NoProcess
       /\ sys' = IF cpu' = h.cpu THEN l ELSE Deliver(l, cpu')

-----------------------------------------------------------------------------
Next ==
  \/ \E m \in MutexId : Unlock(m) \/ \E wake \in {Armed, NoTick} : Lock(m, wake)
  \/ Wait \/ Yield \/ Fault
  \/ \E p \in Partition, due, missed \in SUBSET Process : Tick(p, due, missed)

Spec == Init /\ [][Next]_vars

-----------------------------------------------------------------------------
(* What a mutex must guarantee.                                            *)

\* Nobody waits for a mutex that is free, and an owner does not wait for its
\* own: a free mutex with waiters would never be handed to them (mutex.c,
\* maxrtos_mutex_hand_off; release_all on restart).
WaitersHaveOwner ==
  \A m \in MutexId :
    sys.waiters[m] # <<>> =>
      sys.owner[m] # NoProcess /\ ~IsIn(sys.waiters[m], sys.owner[m])

\* The wait lists and the blocking fields of the PCBs agree after every grant,
\* timeout, restart and failure to block (ipc_block.c, fault_recovery.c), and
\* all state is of its type.
ListsSound == TypeOK /\ WaitsSound(sys)

\* The process that the one i waits for, if any.
BlockedOn(i) == IF Waits(sys, i) THEN sys.owner[sys.waitlist[i]] ELSE NoProcess

\* The processes that i waits for: the owner, the one the owner waits for, ...
WaitsFor(i) ==
  LET hop[n \in 0 .. NumProcesses] ==
        IF n = 0 THEN BlockedOn(i)
        ELSE IF hop[n - 1] = NoProcess THEN NoProcess ELSE BlockedOn(hop[n - 1])
  IN  {hop[n] : n \in 0 .. NumProcesses} \ {NoProcess}

Deadlocked(i) == i \in WaitsFor(i)

\* The best base priority among i and all that wait for it, however far away.
OwedPriority(i) ==
  LET owed == {BasePriority[j] : j \in {j \in Process : j = i \/ i \in WaitsFor(j)}}
  IN  CHOOSE q \in owed : \A r \in owed : q <= r

\* Priority inheritance is transitive and ends with its cause: a process has
\* the best priority of those that wait for it along any chain of owners, and
\* no other (mutex.h, "Priority inheritance"; the walk of refresh_chain stops
\* at a fixed number of hops).  In a deadlock it may stay above it.
Inherits ==
  \A i \in Process :
    /\ sys.priority[i] <= OwedPriority(i)
    /\ ~Deadlocked(i) => sys.priority[i] = OwedPriority(i)

\* "ends when the waiter gets the mutex, times out or is restarted" (mutex.h),
\* for the processes of a deadlock too: those that cannot run keep a priority
\* that nobody outside the cycle owes them any more.
InheritanceEnds == \A i \in Process : sys.priority[i] = OwedPriority(i)

\* "While a process holds a mutex that a more urgent process is waiting for,
\* the holder runs at the waiter's priority" (mutex.h).
HolderRunsAtWaiters ==
  \A m \in MutexId : \A i \in Waiters(sys, m) :
    sys.priority[sys.owner[m]] <= sys.priority[i]

\* No priority inversion: while a process waits for one that could run, the
\* CPU runs nothing of its partition that is less urgent than the waiter
\* (mutex.h).  A partition whose slot is over may keep a less urgent process
\* as its current one until its next slot.
NoInversion ==
  \A i \in Process :
    /\ cpu # NoProcess /\ PartitionOf[cpu] = PartitionOf[i]
    /\ \E j \in WaitsFor(i) : sys.state[j] = "READY"
    => sys.priority[cpu] <= BasePriority[i]

\* A mutex changes hands only from its owner to one of its waiters, which stops
\* waiting, and is taken without waiting only when it is free; an owner that
\* unlocks it, or is restarted for a fault, hands it to the first of the most
\* urgent (mutex.h, "served highest priority first, FIFO within a priority").
\* A tick may restart several processes, and a mutex may pass through several
\* hands: the priorities that counted are then not those before the tick.
HandsToBest ==
  [][\A m \in MutexId :
       LET new == sys'.owner[m] IN
       new # sys.owner[m] /\ new # NoProcess =>
         IF sys.owner[m] = NoProcess THEN new = cpu
         ELSE /\ new \in Waiters(sys, m) /\ ~Waits(sys', new)
              /\ Unlock(m) \/ Fault =>
                   \A i \in Waiters(sys, m) \ {new} :
                     \/ sys.priority[new] < sys.priority[i]
                     \/ /\ sys.priority[new] = sys.priority[i]
                        /\ IndexIn(sys.waiters[m], new) < IndexIn(sys.waiters[m], i)]_vars

\* A process restarted after a fault holds nothing, waits for nothing and is
\* owed nothing, and its mutexes have gone to those that waited for them
\* (fault_recovery.c, maxrtos_fault_recovery_restart).
RestartForgets ==
  [][Fault =>
       /\ Owned(sys', cpu) = {}
       /\ sys'.priority[cpu] = BasePriority[cpu]
       /\ sys'.op[cpu] = NoOp /\ sys'.result[cpu] = NoResult
       /\ \A m \in Owned(sys, cpu) :
            sys'.owner[m] = NoProcess <=> sys.waiters[m] = <<>>]_vars
=============================================================================
