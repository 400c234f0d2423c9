---------------------------- MODULE TimedSystem -----------------------------
(***************************************************************************)
(* The kernel in time: partitions in their slots, processes that wait for  *)
(* semaphores with timeouts, for delays and for their next release, and    *)
(* deadlines whose misses go to the health monitor (tick.c, timing.c,      *)
(* semaphore.c, systick.c, fault_dispatch.c, health_monitor.c).            *)
(***************************************************************************)
EXTENDS Recovery, Semaphore, Timing

CONSTANTS
  Timeouts,    \* the timeouts and delays that calls are given; NoTick: infinite
  Policies,    \* health-monitor tables: partition -> fault type -> action
  MaxTick      \* bound: the clock stops here; NoTick for one that wraps

FaultType == {"EXCEPTION", "DEADLINE_EXCEEDED"}
Action    == {"IGNORE", "RESTART_PROCESS", "HALT_PARTITION"}

ASSUME TimedSystemAssumption ==
  /\ Timeouts \subseteq 1 .. NoTick
  /\ Policies \subseteq [Partition -> [FaultType -> Action]]
  /\ MaxTick \in 1 .. NoTick  \* start-up takes the first tick

\* sys has the fields of Semaphore and Timing, and hm, the table of policies.

TypeOK ==
  /\ sys.now \in Tick /\ sys.nextDue \in Tick
  /\ sys.wake \in [Process -> Tick] /\ sys.deadline \in [Process -> Tick]
  /\ sys.release \in [Process -> Tick]
  /\ sys.pending \subseteq Process
  /\ sys.state \in [Process -> ProcessState]
  /\ \A s \in SemaphoreId : sys.count[s] \in 0 .. SemaphoreMax[s]
  /\ \A i \in Process : sys.periodic[i] => ~sys.timed[i]
  /\ sys.result \in [Process -> {NoResult, "OK", "TIMEOUT"}]
  /\ cpu \in Process \cup {NoProcess}

\* Start-up registers the processes, arms their first releases for tick zero
\* and takes the first tick; the first slot has a process to run.
Init ==
  \E hm \in Policies :
    /\ sys = LET created == Merge(Merge(Registered, WaitFields),
                              Merge(TimingFields,
                                    [count |-> SemaphoreInitial, hm |-> hm]))
             IN  PartitionDispatch(Advance(RearmAll(created, 0)), PartitionAtTick(0))
    /\ cpu = sys.current[PartitionAtTick(0)]

-----------------------------------------------------------------------------
(* Service calls. *)

SemaphoreWait(s, timeout) ==
  /\ cpu # NoProcess /\ SemaphorePartition[s] = PartitionOf[cpu]
  /\ sys.count[s] > 0 \/ TickFits(sys, timeout)
  /\ \E k \in {IF sys.count[s] > 0 THEN TakeUnit(sys, s)
               ELSE BlockUntil(sys, cpu, s, TickAfter(sys, timeout), WaitOp(s))} :
       Return(k)

SemaphoreSignal(s) ==
  /\ cpu # NoProcess /\ SemaphorePartition[s] = PartitionOf[cpu]
  /\ \E k \in {PostUnit(sys, s)} : Return(k)

TimedWait(delay) ==
  /\ cpu # NoProcess
  /\ delay # NoTick /\ TickFits(sys, delay)
  /\ \E k \in {DelayUntil(sys, cpu, TickAfter(sys, delay))} :
       Resume(k, PartitionOf[cpu])

CompleteRelease ==
  /\ cpu # NoProcess /\ Period[cpu] > 0
  /\ \E k \in {PeriodicWait(sys, cpu)} : Return(k)

-----------------------------------------------------------------------------
(* Faults: the health monitor says what becomes of the process. *)

\* Faulty variant: the deadline of the old release goes on.
RestartKeepsRelease(k, i) ==
  [RestartStates(k, i) EXCEPT !.result[i] = NoResult, !.periodic[i] = FALSE,
                              !.timed[i] = FALSE]

\* A fresh context, with no result to deliver, and a new release.
Restart(k, i) ==
  Rearm([RestartStates(k, i) EXCEPT !.result[i] = NoResult], i, k.now)

HandleFault(h, i, type) ==
  LET action == h.table.hm[PartitionOf[i]][type] IN
  IF action = "IGNORE" THEN h
  ELSE IF action = "HALT_PARTITION" THEN Halted(h, PartitionOf[i])
  ELSE Restarted(h, Restart(h.table, i), i)

\* A fault exception of the process on the CPU: its partition goes on with the
\* best of its processes, the restarted one behind its peers, or not at all.
Fault ==
  /\ cpu # NoProcess
  /\ sys.hm[PartitionOf[cpu]]["EXCEPTION"] # "IGNORE"
  /\ \E h \in {HandleFault([table |-> sys, cpu |-> cpu], cpu, "EXCEPTION")} :
       /\ cpu' = IF h.table.halted[PartitionOf[cpu]] THEN NoProcess
                 ELSE h.table.current[PartitionOf[cpu]]
       /\ sys' = Deliver(h.table, cpu')

-----------------------------------------------------------------------------
(* The tick. *)

\* The misses that the previous tick recorded, in the order of the ids.
TakeMiss(h, missed, i) ==
  IF i \in missed
  THEN HandleFault([h EXCEPT !.table.pending = @ \ {i}], i, "DEADLINE_EXCEEDED") ELSE h

TakeMisses(k, c) ==
  LET upTo[n \in 0 .. NumProcesses] ==
        IF n = 0 THEN [table |-> k, cpu |-> c]
        ELSE TakeMiss(upTo[n - 1], k.pending, n - 1)
  IN  upTo[NumProcesses]

\* Faulty variant: the slot of the tick that begins, not of the one counted.
SlotAfter(k) == PartitionAtTick(Plus(k.now, 1))

SlotOf(k) == PartitionAtTick(k.now)

\* A slot with nothing to run, or of a halted partition, leaves the CPU idle.
OnTick ==
  /\ sys.now < MaxTick \/ MaxTick = NoTick
  /\ \E h \in {TakeMisses(sys, cpu)} :
     \E k \in {Advance(h.table)}, p \in {SlotOf(h.table)} :
     \E l \in {PartitionDispatch(k, p)} :
       /\ cpu' = IF SelectStatus(k, p, FALSE) = "OK" THEN l.current[p] ELSE NoProcess
       /\ sys' = IF cpu' = h.cpu THEN l ELSE Deliver(l, cpu')

\* The bound on the clock: nothing is said of later ticks.
Horizon == sys.now = MaxTick /\ UNCHANGED vars

Next ==
  \/ \E s \in SemaphoreId :
       SemaphoreSignal(s) \/ \E timeout \in Timeouts : SemaphoreWait(s, timeout)
  \/ \E delay \in Timeouts : TimedWait(delay)
  \/ CompleteRelease \/ Yield \/ Fault \/ OnTick \/ Horizon

Spec == Init /\ [][Next]_vars

\* The timer goes on interrupting whatever runs.
FairSpec == Spec /\ WF_vars(OnTick)

-----------------------------------------------------------------------------
(* What time must guarantee.                                               *)

\* No timed event is due before the tick at which the next scan is made, after
\* any call, release, restart or scan: the bound is cached, and every place
\* that arms a tick has to lower it (timing.c, s_next_due).
DueBound ==
  \A i \in Process : sys.nextDue <= sys.wake[i] /\ sys.nextDue <= sys.deadline[i]

\* Nothing is noticed late: a process waits only for ticks to come, and no wake
\* tick stays armed for one that does not wait (tick.c, maxrtos_kernel_on_tick,
\* which skips the scan at most ticks).
OnTime ==
  \A i \in Process :
    sys.wake[i] # NoTick => sys.state[i] = "BLOCKED" /\ sys.now < sys.wake[i]

\* Nothing is noticed early: a tick ends the wait of a process, other than by
\* restarting it, exactly at its wake tick, and with TIMEOUT exactly if it
\* waited for a semaphore ("a wait of N ticks, started when the tick counter
\* read T, expires when the counter reaches T + N", tick.c).
WakesAtItsTick ==
  [][\A i \in Process \ sys.pending :
       OnTick /\ sys.state[i] = "BLOCKED" /\ sys'.state[i] # "BLOCKED" =>
         /\ sys'.now = sys.wake[i]
         /\ cpu' # i => sys'.result[i] =
              IF sys.waitlist[i] = NoList THEN "OK" ELSE "TIMEOUT"]_vars

\* A release with a deadline is never left unsupervised: until it completes,
\* its deadline is armed or its miss is waiting to be handled, unless the
\* health monitor ignores misses or has halted the partition (timing.h,
\* "Lifecycle of a release").
Supervised ==
  \A i \in Process :
    Capacity[i] > 0 /\ sys.hm[PartitionOf[i]]["DEADLINE_EXCEEDED"] # "IGNORE" =>
      \/ sys.deadline[i] # NoTick \/ sys.periodic[i]
      \/ i \in sys.pending \/ sys.halted[PartitionOf[i]]

\* Ticks since the release of i began.
Elapsed(i) == Plus(sys.now, NoTick + 1 - sys.release[i])

\* A miss is recorded only when as many ticks as the process's time capacity
\* have passed since its release began, and at the first tick at which they
\* have, so that none is left over in an active partition (timing.h, "Lifecycle
\* of a release"; an overrun may begin a release that is already late).
MissesExact ==
  [][/\ \A i \in sys'.pending \ sys.pending : Elapsed(i)' >= Capacity[i]
     /\ OnTick => Misses(sys)' = {}]_vars

\* Releases do not drift: one begins exactly a period after the one before,
\* however late that was completed or the process dispatched, except when a
\* restart begins a new release (timing.c, periodic_wait and release_periodic).
NoDrift ==
  [][\A i \in Process :
       \/ sys'.release[i] \in {sys.release[i], Plus(sys.release[i], Period[i])}
       \/ /\ (Fault /\ i = cpu) \/ (OnTick /\ i \in sys.pending)
          /\ sys'.release[i] = sys.now]_vars

\* The slot that the last tick began or continued.
Slot == PartitionAtTick(Plus(sys.now, NoTick))

\* Time partitioning: whatever the processes of other partitions do, the CPU
\* has only processes of the partition whose slot it is, and none of a halted
\* one (systick.c; frame.h, "exclusive use of the processor").
OwnSlot ==
  cpu # NoProcess => PartitionOf[cpu] = Slot /\ ~sys.halted[Slot]

\* The CPU idles only if the slot's partition has nothing READY or is halted:
\* the processes that a tick or a restart makes READY are seen by its dispatch.
NoIdleWithWork ==
  cpu = NoProcess =>
    \/ sys.halted[Slot]
    \/ ReadyMask(sys, Slot) = {} /\ sys.current[Slot] = NoProcess

\* No process waits for a semaphore that has units, and none has more than its
\* maximum (semaphore.c, signal; a restarted or timed-out waiter leaves the
\* list without taking a unit); all else is of its type too.
NoneWaitsForUnits ==
  /\ TypeOK
  /\ \A s \in SemaphoreId : sys.waiters[s] # <<>> => sys.count[s] = 0

\* A wait with a finite timeout ends, whatever the other processes do, also
\* across the wrap of the tick counter (tick.c, maxrtos_kernel_tick_after).
FiniteWaitsEnd ==
  \A i \in Process :
    (sys.state[i] = "BLOCKED" /\ sys.wake[i] # NoTick) ~> (sys.state[i] # "BLOCKED")

\* Every partition goes on getting the CPU: again and again one of its processes
\* has it or none of them can run, unless the partition is halted, whatever
\* those of other partitions do and also where the wrap of the counter cuts a
\* frame short (frame.c, maxrtos_frame_partition_at_tick; systick.c).
SlotsServed ==
  \A p \in Partition :
    []<>(\/ sys.halted[p]
         \/ cpu # NoProcess /\ PartitionOf[cpu] = p
         \/ ReadyMask(sys, p) = {} /\ sys.current[p] = NoProcess)

\* "A restarted process starts a new release at the restart tick" (timing.h):
\* what its old release has missed is not held against it any more.
RestartForgetsMiss ==
  [][Fault /\ sys.hm[PartitionOf[cpu]]["EXCEPTION"] = "RESTART_PROCESS"
       => cpu \notin sys'.pending]_vars
=============================================================================
