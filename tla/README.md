# MAXRTOS: specification and verification

MAXRTOS is a partitioned real-time kernel for the Cortex-M7 in the style of
ARINC 653.  A static frame schedule gives the processor to one partition per
tick; within a partition, processes run by fixed priority with immediate
preemption; processes communicate through buffers, semaphores and mutexes in
their partition and through ports across partitions; a health monitor restarts
processes or halts partitions after faults and missed deadlines.

This directory holds TLA+ modules that model the kernel (`src/maxrtos/kernel`)
with the part of the architecture layer that decides what runs
(`src/maxrtos/arch/cortex_m7`), configurations for TLC, and proofs checked by
TLAPS.  `PROJECT.json` maps every definition to the lines it stands for.
Paths below are relative to `src/maxrtos/`.

## 1. The system

### Components

| Component | State it keeps | Operations |
|---|---|---|
| Ready queues, `kernel/src/scheduler.c`, `scheduler.h` | per partition: a ring per priority, `ready_mask` | enqueue at tail or front, take the best, remove an id, compare with the best |
| Process pool, `process.c` | PCBs: state, priorities, stack, wait and timing fields | create, get, set_state |
| Partition table and dispatcher, `partition.c`, `dispatch.c`, `yield.c` | `current_id[p]`, `halted[p]`, the schedulers | add, select, dispatch, yield, ready, block_and_dispatch, set_process_priority |
| Start-up, `start_scheduler.c` (kernel and arch) | - | register every process, re-arm timing, first tick |
| Frame schedule, `frame.c` | slots, length of the major frame | partition of a tick |
| Tick, `tick.c`, `arch/.../systick.c` | the tick counter | handle misses, advance, expire timeouts, release, check deadlines, dispatch |
| Timing, `timing.c` | `s_next_due`, `s_pending_misses`; release, deadline and wake ticks of the PCBs | delay, periodic wait, arm, release, record and take misses |
| Wait lists and IPC blocking, `waitlist.c`, `ipc_block.c`, `ipc_priority.c` | a FIFO of process ids per object; `waitlist`, `wake_tick`, `ipc_operation`, `ipc_result` of the PCBs | block, wake first or best, resolve, expire |
| Mutexes, `mutex.c` | owner and waiters | lock, unlock, release_all, refresh of inherited priorities |
| Semaphores, `semaphore.c` | count and waiters | wait, signal |
| Buffers and queuing ports, `buffer.c`, `queue_port.c`, `fifo.c` | ring of messages, waiting senders and receivers | send, receive, status |
| Sampling ports, `sampling_port.c` | the last message, whether there is one | write, read, status |
| Health monitor, `health_monitor.c` | policy per partition and fault type | set, get |
| Fault recovery, `fault_recovery.c`, `arch/.../fault_dispatch.c` | - | restart a process, halt a partition, choose what runs next |
| Service calls, `arch/.../svc.c` | - | one case per service; preemption check at the end |
| Context switch and idle, `context_switch.c/.S`, `idle.c` | current and next PCB, PendSV pending | save, restore, deliver the result of a blocked call |
| MPU and privilege, `mpu.c`, `mpu_hw.c`, `privilege.c` | a region per partition; the region and privilege in force | program the region of the next process, check a buffer |
| Fault handlers | fault status registers | decode a fault |

### How they interact

Everything in the kernel runs inside exception handlers: SVC for service
calls, SysTick for the tick, fault exceptions, and PendSV for the switch.  SVC
has the highest priority, SysTick and PendSV share the lowest, and PendSV is
taken before a pending SysTick, so a handler runs to its end, and the switch it
asked for is done, before another one starts.  The components share the
partition table and the PCBs and nothing protects these but that exclusion; the
difficulty is not data races but sequences of handlers that leave fields
written by different files in disagreement.

- A service that wakes a process calls `maxrtos_ipc_resolve`, which makes it
  READY and queues it; the end of the service call
  (`maxrtos_arch_svc_preempt_check`) switches if it outranks the caller.
- A service that cannot proceed calls `maxrtos_ipc_block_current`: the
  operation is stored in the PCB, the process joins a wait list and the best of
  its partition is dispatched.  If nothing else can run, the call fails as a
  poll would.  Delays and periodic waits let the CPU idle instead.
- The result of a blocked call is stored in the PCB by whoever completes it
  and written into the stacked registers when the context is restored.
- The tick handles the deadline misses recorded by the *previous* tick, then
  expires timeouts, releases periodic processes and records misses, and last
  dispatches the partition of the slot.  It scans only if `s_next_due` has
  come.
- Recovery releases the mutexes of a process (which wakes others and changes
  priorities), takes it off its wait list, re-arms its release, rebuilds its
  context and asks for another process to run.

### What is hard

The scheduler state is redundant (`current_id`, `pcb->state`, queue
membership, the CPU's context) and written by `partition.c`, `dispatch.c`,
`timing.c`, `fault_recovery.c` and the architecture layer.  Priorities change
while processes are queued.  A timeout, an unlock, a restart and a priority
change can follow each other in any order.  Tick sums wrap.  `s_next_due` is a
cached bound that every arming site has to lower.  A miss stays pending across
a tick in which its process may complete, fault or be restarted.  The hazards
in `PROJECT.json` list these at their lines with the property that covers each.

### What makes each component correct

| Component | Correctness |
|---|---|
| Ready queues | they behave as one FIFO sequence per priority (`Implements`, `MaskExact`); the best priority is found (`FindsTheLowest`, an assumption of `MCScheduler` that TLC evaluates) |
| Dispatcher | redundant state agrees (`CurrentIsRunning`, `OnlyReadyQueued`, `CpuIsCurrent`); no READY process is lost (`NoneLost`); nothing outranks what runs (`NotOutranked`); order among equals (`NoTimeSlice`, `PeersKeepOrder`, `PreemptedFirstYieldedLast`); no dispatch fails (`DispatchConsistent`, `RestartCanDispatch`) |
| Wait lists | lists and PCBs agree after every grant, timeout and restart (`ListsSound`) |
| Mutexes | a mutex with waiters has an owner (`WaitersHaveOwner`); goes to the best waiter (`HandsToBest`); inheritance is exact and transitive (`Inherits`) and prevents inversion (`NoInversion`); a restart gives everything up (`RestartForgets`) |
| Semaphores | nobody waits for a unit that is there (`NoneWaitsForUnits`), never more than the maximum |
| Timing | nothing is late (`DueBound`, `OnTime`), nothing early (`WakesAtItsTick`, `MissesExact`), no release drifts (`NoDrift`) or goes unsupervised (`Supervised`), finite waits end (`FiniteWaitsEnd`) |
| Slots | only the slot's partition runs (`OwnSlot`), it runs if it can (`NoIdleWithWork`), and every partition goes on getting slots (`SlotsServed`) |
| Context switch | the CPU follows the scheduler (`Implements`); whoever executes has its own registers, with the result of the call it waited in (`AnswersArrive`), and the slot (`OwnSlot`) |
| MPU, privilege, sampling ports | no partition's memory is written by another (`MemoryIsolated`) |
| Buffers and ports | they are bounded FIFO channels (`Implements`); nobody waits for space or a message that is there (`NoneWaitsInVain`); waiters are told what became of their message (`TruthfulResults`) and served by the discipline (`ServesInOrder`); never everyone waits (`SomeoneCanRun`) |

## 2. The modules

| Module | What it models | Composition |
|---|---|---|
| `ReadyQueues` | what ready queues promise: FIFO sequences | abstract |
| `Scheduler` | rings, mask, insertion at both ends, removal across the end of the ring | implements `ReadyQueues` through the mapping in `Promise` |
| `LowestSetBit` | the de Bruijn multiplication on 32-bit words; operators only | INSTANCE in `Scheduler` |
| `PartitionTable` | partition table, PCB states, dispatch; operators on a record `k` | used by all below |
| `PartitionScheduling` | all interleavings of handlers over the table: start-up, ticks, services as any sequence of table operations, faults | EXTENDS `PartitionTable` |
| `PartitionTableProofs`, `PartitionSchedulingProofs` | proofs about the two above | EXTENDS them |
| `SchedulerProofs` | proofs about `Scheduler`, `LowestSetBit` and `ReadyQueues` | EXTENDS `Scheduler` |
| `Mpu` | geometry of the regions, the check of a buffer | EXTENDS `PartitionTable` |
| `SamplingPort` | the refusals of write and read | EXTENDS `PartitionTable` |
| `ContextSwitch` | current, next, PendSV, saved registers, results, MPU region and privilege, recovery inside a switch | EXTENDS `Mpu`, `SamplingPort`; implements `PartitionScheduling` through the mapping in `Scheduling` |
| `ContextSwitchProofs` | proofs about it | EXTENDS `ContextSwitch`, `PartitionTableProofs` |
| `IpcBlock` | wait lists, blocking, resolving, expiring | EXTENDS `PartitionTable` |
| `Services` | what every service call shares: registration, preemption check, switch | EXTENDS `IpcBlock` |
| `IpcBlockProofs` | what every service may rely on: the lemmas of `PartitionTableProofs` on larger records, wait lists | EXTENDS `Services`, `PartitionTableProofs` |
| `Mutex` | the mutex service with ticks, delays, deadline misses and faults | EXTENDS `Services` |
| `Recovery` | restart and halt of processes without mutexes | EXTENDS `Services` |
| `BoundedChannels` | what buffers and ports promise: bounded FIFOs with offered messages | abstract |
| `Channel` | buffers and queuing ports with ticks, restarts and halts | EXTENDS `Recovery`; implements `BoundedChannels` through the mapping in `Promise` |
| `Semaphore` | semaphore operations | EXTENDS `IpcBlock` |
| `Timing` | tick counter, frame schedule, delays, releases, deadlines | EXTENDS `IpcBlock` |
| `TimedSystem` | the system in time: slots, semaphores with timeouts, delays, periods, misses, health monitor, restarts and halts | EXTENDS `Recovery`, `Semaphore`, `Timing` |
| `MutexProofs`, `ChannelProofs`, `TimedSystemProofs` | proofs about the three systems | EXTENDS each its system and `IpcBlockProofs` |
| `MC*` | values of the constants for TLC | EXTENDS the module it is named after |

Correspondence.  The kernel's globals and PCB arrays are one record: `k` in
operators, `sys` in the composed modules.  An operator reads and updates only
the fields it names, so a module that needs more state extends the record
(`Merge`) and uses the same operators; the header of each module maps fields to
the C names.  A C function that returns a status is an operator for the new
record plus, where callers branch on it, one for the status (`SelectStatus`,
`BlockStatus`, `ResolveStatus`, `BlockCurrentStatus`).  Loops over process ids
are recursive functions indexed by the id, in the order of the code.  Sequences
stand for the rings of the ready queues (justified by `Scheduler`) and for the
arrays of the wait lists.

Atomicity.  In `Mutex`, `Channel` and `TimedSystem` a handler, with the
context switch it asks for, is one action.  `ContextSwitch` justifies that: there
a handler only names the next process, PendSV switches later, and a bad stack
that PendSV finds is recovered in between; it is shown, and proved, to implement
`PartitionScheduling`, where the switch is immediate.  The mapping takes for the
CPU the process that is about to be switched to, except during a tick, when the
dispatch will decide once more.  `PartitionScheduling` in turn breaks handlers into their
operations so that the table is shown sound for *any* service, also those
without a module.  A recovery is a handler of its own there (mode "fault"):
before the process is restarted, giving up what it holds may wake or re-prioritise
others of its partition.  The environment is wider than the code (a service
wakes any blocked process or sets any priority), so what holds there holds of
every service built from these operators.

In `ContextSwitch` a context is reduced to whose registers it holds and to r0,
which is where results go.  `answer` is a history variable that says what the process
has to find there; `memory` is one too, the partition that wrote to a region
last.

Definitions marked "Faulty variant" are plausible mistakes in the definition
below them.  They are used by no action; replacing the definition by one shows
that the property it is listed with in `PROJECT.json` notices the mistake.

## 3. The runs

| Run | Instance | What it shows |
|---|---|---|
| `partition_scheduling` | 4 processes (three in one partition, two of equal priority; one alone in another), 2 priorities | all properties of the dispatcher over every sequence of handlers |
| `ready_queues` | rings of 3, 3 interchangeable processes (symmetry), 2 priorities; masks of up to 3 bits | `Implements` and `MaskExact` at every head position and fill; the lowest bit of a mask is found |
| `context_switch` | 2 processes of equal base priority and a third of a privileged partition, 2 priorities, 16 words of memory, 4 buffers | the switch is immediate as far as scheduling goes, also with a bad stack at a slot boundary; results, slots and memory |
| `mutex` | 4 processes, priorities 0, 1, 2, 2, 2 mutexes | inheritance, hand-over and restart, with chains, nesting and deadlock |
| `channel` | 3 processes of one partition and 1 of another, capacity 1, a port for both (FIFO) or a buffer of the first (priority), 2 messages (symmetry) | the channel is a bounded FIFO and its users are told the truth |
| `timed_system` | 3 processes in 2 partitions, slots of 2 and 1 ticks, periods 3 and 4, capacities 2 and 4, one semaphore, 3 policy tables, 8 ticks | timing properties, partitioning |
| `tick_wrap` | the same without periods, a 3-bit counter that wraps for ever | `OnTime`, `FiniteWaitsEnd` and `SlotsServed` across the wrap |
| `mutex_list_full`, `mutex_deadlock`, `miss_wrap`, `stale_miss`, `restart_behind_peers` | small variants | the disagreements of section 5 |

The bounds and why they are enough:

- `partition_scheduling`, `context_switch`, `mutex`, `channel` and `tick_wrap` have
  finite state spaces explored completely.  Three processes of one partition with a pair of equals
  give every relation between a queued process, a running one and a newcomer;
  a second partition gives everything that concerns another slot.  The theorems
  of section 4 remove the bounds for every property they state.
- `FindsTheLowest` takes masks of up to three bits: the isolation step depends on
  the lowest set bit alone, so two bits already contain every case; three leave
  a margin.
- `context_switch`: two equals in one partition are what a yield, a bad stack and
  a restart need to disagree about; the partition beside them is
  privileged, so that switches cross both boundaries.  In 16 words two
  regions of 4 leave a gap on each side.  The buffers are one of either partition,
  one that crosses the regions and one whose end wraps around.
- `Capacity = 3` of a ring: head, middle and tail differ and each wraps.
- Mutexes: two mutexes and four processes give a chain of two owners with a
  waiter at its end and a bystander, nested ownership, and a deadlock cycle
  with a process outside.  Timeouts are of any length: a tick ends any subset
  of the armed waits (`due`).  `MaxMisses` bounds the deadline misses handled in
  one tick, to keep the run short: 2 in `mutex`, so that the restarts of one tick can
  hand a mutex on twice, 1 in the violation runs and in `channel`, where a miss meets any set of
  timeouts in its tick; the theorems hold for any number of misses.
- Channels: capacity 1 makes empty and full one step apart, so every send and
  receive is at a limit; two messages tell a lost, repeated or reordered one
  from the right one.  Two waiters of different or equal priority and a third
  process to run give every choice of whom to serve.  The index arithmetic of
  `fifo.c` (head plus count modulo capacity) is that of the ready queues, which
  `ready_queues` checks; here the store is a sequence.
- `MaxTick = 8` covers two periods of the longer process and nearly three major
  frames, with overruns, a miss, its recovery and the release after it.
  `Horizon` stutters there; the theorems hold for every `MaxTick`.  `NoTick`, the
  largest tick, is 31, so that no sum wraps; `tick_wrap` and `miss_wrap` have
  `NoTick = 7` and let the counter wrap.
- `Timeouts` holds a delay shorter and one longer than a slot, and infinity;
  in `tick_wrap` a delay that fits the counter at some ticks and not at others.
- `WaitlistMax` is the number of processes that can wait, except in
  `mutex_list_full`.

Deadlock is checked in every run.  In `Mutex`, `Channel` and `TimedSystem` this says little,
since the tick is always possible; what matters there is that each *process*
goes on (`FiniteWaitsEnd`, `NoneWaitsForUnits`, `NoneWaitsInVain`, `SomeoneCanRun`,
`WaitersHaveOwner`).

Fairness.  Only `FairSpec` of `TimedSystem` assumes any: `WF_vars(OnTick)`, the
timer interrupt occurs again and again.  The code justifies it: SysTick is
started once, never stopped and masked by no handler for longer than it runs.
`tick_wrap` uses `MCFairSpec`, "the clock changes infinitely often": with a
counter that has no bound `OnTick` is enabled in every state and is the only
action that moves the clock, so the two say the same, and TLC evaluates the
second much faster than ENABLED of the whole tick.  Nothing is assumed of processes: one
may keep the CPU for ever, which is why no property says that a semaphore is
signalled or a mutex unlocked, and why `SlotsServed` matters: the others get their
slots all the same.

## 4. The proofs

Each theorem holds for every number of processes, partitions and priorities, and for
every value of the other constants that the named assumptions admit.

### The dispatcher

`PartitionTableProofs` proves what the operators do, once each: what a queue
holds after appending, prepending, taking the head and removing an id; that
enqueueing, re-queueing at a new priority, dispatching, yielding, blocking and
restarting keep the table `Consistent` (RUNNING processes are the recorded
ones, queues hold READY processes once and at their priority) and keep every
READY process queued (`KeepsReady`); that a queue always has room, by
cardinality; that the best ready priority exists, by well-foundedness.

`PartitionSchedulingProofs` proves `Spec => []IInv` with

    IInv == TypeOK /\ Consistent(sys) /\ NoneLost /\ StartUp /\ OnCpu
              /\ NotOutranked /\ Recovering

The checked properties are not inductive alone.  `NoneLost` fails to be kept if a
queue may be full, which is excluded by counting: a queue holds distinct
members of one partition, and `ConfigAssumption` makes room for them all.  A
queue holds distinct ids only while queued processes are READY, hence
`Consistent`.  `OnCpu` relates the CPU to the table in the middle of handlers,
where `CpuIsCurrent` says nothing; `StartUp` says that during start-up
nothing runs and only registered processes are queued; `Recovering` says what a
recovery may touch.  There is one lemma per action; the theorems on the eight
invariants follow.

The three action properties are about order.  `Ordered` says that nobody changes
places in any queue, except one process that may leave; each operation is shown to
be `Ordered` from what appending, prepending, `Tail` and `Without` do to a sequence,
and composed steps (a restart and the yield after it) by transitivity.
`SelectQueues` says where a dispatch or a yield puts the process that ran, and
`RestartedIsLast` that a restarted process is at the end of its queue and still is
after the yield that follows.

### The ready queues

`SchedulerProofs` proves `LowestIsFound`, that the multiplication and the table find the
lowest bit of every mask: isolating it leaves one power of two, and the 32
products are 32 cases.  `MaskIsExact` is `MaskExact`.  `RingsAreQueues` is
the refinement: `AsSequence` reads a ring from its head, and every operation commutes with
that reading, by the arithmetic of indices modulo the capacity (a
prepend moves the head back across entry 0, a removal shifts the entries after
the gap across the end).

### The switch

`ContextSwitchProofs` proves `Refines`, that `ContextSwitch` implements
`PartitionScheduling`: the initial states map to initial states and every action to the
action of the same name, or, for PendSV and for what concerns only registers and
memory, to a stutter.  The invariant it needs is

    KInv == Consistent(sys) /\ StartUp /\ Turns /\ OnCpu

`Consistent` comes with its lemmas from `PartitionTableProofs`.  `Turns` says in
which handlers a switch can be under way (never in a service call; in a tick only
after a recovery there has dropped the interrupted context), without which the process
the mapping takes for the one on the CPU would jump.  `OnCpu` says that this process is the
current one of its partition, not halted, and has the slot; it gives `SlotsKept`,
and it is why a recovery inside PendSV may go on to the planned process: that one
was dispatched by the tick and is still the best choice.  `SameOperators` shows that
the operators of the instance are those of `PartitionTable`.

`Isolation` adds `Protected`: between two switches the region and the privilege in
force are those of the current process.  `OwnedIsInside` is the arithmetic under it: a
buffer that passes the kernel's check lies in the region, although the sums in
the check wrap; `MultiplesBelow` shows that a region with a valid geometry does not.
`ResultsDelivered` rests on `Contexts`: a pending result is the answer the process
has to find, every process that is not current has its context kept on its
stack with that answer or the old one, and the current one has it in the
registers.  It excepts halted partitions and the process that a recovery is
restarting, whose registers are stale until PendSV drops them.

### Wait lists, for every service

`IpcBlockProofs` carries the lemmas over to records with further fields.
`TablePart(k)` is the partition table in a larger record; the `Lift*` lemmas say that each
operator of `PartitionTable` does to the record what it does to its table and
leaves other fields alone, so that a fact about tables is a fact about every
service.  `Sound` is the part of the invariant that all three systems share: a
`Consistent` table, every READY process queued, and lists that agree with the PCBs
(`ListsSound`, and a process is on a list exactly if it is BLOCKED and names
that list).  It is shown once for blocking, waking, timing out and withdrawing
(`BlockCurrentSound`, `WakeSound`, ...), and `BestComesFirst` shows what the scan of
a list for its best waiter returns.  Loops of the code are recursive functions
over ids; what such a loop keeps is proved by `UpToInduction`, induction over the
set of the ids up to which the function has been unfolded (the library's
theorem takes a predicate as a parameter, which the provers cannot
instantiate; a set they can).

### Time

`TimedSystemProofs` proves `Spec => [](TimedOk(sys) /\ CpuOk)`.  Per process, `TimedOk`
says of its wait that an armed wake tick belongs to a process that is BLOCKED, for a
reason the PCB names, and is a period after the release if that reason is a periodic wait;
of its release that an armed deadline is the release plus the capacity;
that `nextDue` is at most either; and that the wake tick is still to come.  `OnTime`
needs all of it: the tick scans only at the bound, so that nothing is late rests on
`DueBound`; and that no wake tick stays armed for a process that does not wait
rests on the reason, which every wake-up has to clear together with the tick.
`NoneWaitsForUnits` needs `Sound`, to know that the process at the head of a list
takes the unit.  `CpuOk` says that the CPU has the current process of the
partition whose slot it is.  From these follow seven invariants and, handler by
handler, `WakesAtItsTick`, `NoDrift` and `MissesExact`.

Two of the theorems (`ReleasesAreSupervised`, `MissesAreExact`) have an assumption,
`NoWrap`: no deadline falls after the largest tick.  Without it the second is false
(run `miss_wrap`), and a deadline that wraps to the very value that marks none is
not supervised; with it a deadline is the release plus the capacity
in the numbers, not only modulo the counter.  `TimedSystem.cfg` satisfies it.
`TimedSystemAssumption` takes `MaxTick` to be at least 1, since start-up takes the
first tick.

### Channels

`ChannelProofs` proves `Spec => [](ChannelOk(sys) /\ CpuOk)`: `Sound`, nobody waits in
vain, a process that waits for space has its message with it, and a partition that is
not halted has a process that is not blocked.  The refinement `ChannelsAreFifo` maps
the messages of waiting senders to the offers of `BoundedChannels`; a receive that
makes space takes a waiting sender's message in, and that this is a step of the
specification needs that a sender waits only if the channel is full.  `ServesInOrder`
is `BestComesFirst` or the head of the list; `TruthfulResults` follows case by
case.  A tick handles misses one by one, and `HandleMissesQuiet` shows by induction over
the ids that however many there are they only end waits.  `SomeoneRuns` assumes `Populated`: a partition that was given no process has none
to run.

### Mutexes

`MutexProofs` proves `Spec => [](MutexOk(sys) /\ CpuOk)`: `Sound`; a mutex with waiters
has an owner, which is not among them, and they are of its partition; a process
that owns no mutex has its own priority.  Walks along chains of owners change only
priorities (`WalkInv`, one hop at a time); handing a mutex over and releasing all of
a process's are taken mutex by mutex; `Passes` says how a step may change owners
and end waits, and is transitive, which covers a tick that restarts
several processes.  A restart refreshes the owner that the process waited for; the proof
compares it with one that does not, since the refresh touches priorities only.

What a process is owed.  `PrioritiesAreOwed` proves the stronger invariant `JInv`, which is
`IInv` with `Just` of the state and `Top` of the CPU.  `Just` says three things: the
priority of every process is the best of its own and of those of its direct waiters, no worse
(`Enough`) and no better (`Caused`); a process that waits is in the call that locks the mutex it
waits for (`OpsMatch`), which is what links a walk from an owner to the next; owners are of
their mutex's partition.  `Top` says that nothing READY outranks the process on the CPU
in its partition.  The argument goes by the two kinds of walk:

- A walk that lowers starts at the one process that may be above what it is owed, and
  leaves everybody settled (`ChainLowers`).  Each hop settles its process and moves the
  doubt to the owner of what that one waits for.
- A walk that raises carries the priority of the caller, before it waits (`ChainRaises`).
  If the call then blocks, its claim is there (`BlockJust`); if it cannot, the
  owner is refreshed, which is a walk that lowers (`NotBlockedJust`).
- That `NumMutexes + 1` hops suffice is a counting argument (`Revisits`): a walk that has not
  ended by then has come back to a process it has visited, so it has been round.

From direct waiters to chains: `OwnersUrgent` goes up a chain of owners one at a time, and
gives the lower half of `Inherits` and, with `Top`, `NobodyIsInverted`.  The other half,
that outside of a deadlock nobody is above what the chains behind it justify
(`OwedToNoMore`), follows causes back: were none of them
the process's own priority, each would have a waiter at least as urgent as its cause, and
a finite set would be mapped one to one into a part of itself.

`NoInversion` speaks of the CPU and not of the current process of every partition: a tick
in the slot of another partition may wake a holder, which gets the CPU only when its own
slot comes.

`FaultsAreForgotten`, `PrioritiesAreOwed` and the three results that follow from it
assume `ListsFit`, that each wait list is long enough for the
processes of its partition.  Where it is not, blocking can leave an operation in
the PCB (section 5): a restart does not clear it in a process that no longer waits, and a
walk follows it to an owner that the process does not wait for.  `HoldersAreRaised`
states the promise of `mutex.h` that run `mutex_list_full` refutes: with lists that fit it
holds, and the full list is its only exception.  The assumption is needed for the others too:
under the constants of that run, with one entry per list, TLC refutes `Inherits`, `NoInversion`
and `RestartForgets` as well.

`HandsToBest` says of every step that a mutex goes only to one of its waiters, and
of unlocks and recoveries that it goes to the most urgent.  It does not say the latter of
ticks: there several restarts follow each other, each with the priorities the
one before has left.

### Assumptions

`ConfigAssumption` (positive sizes; partition and priority of
each process in range; a ready queue can hold a partition's processes, which the
generated configuration header enforces); `SchedulerAssumption` for the rings; for
`ContextSwitchProofs` also `MpuAssumption` (the geometry that
`set_partition_region` accepts, disjoint regions as the linker script gives them),
`PortAssumption` and `SwitchAssumption` (masks and buffers in range); for the
services what their initialisation accepts (`MutexAssumption`, `ChannelAssumption`,
`TimingAssumption` and so on).  TLC evaluates each of them in a run.

### Only model-checked

- Liveness (`FiniteWaitsEnd`, `SlotsServed`), which is beyond TLAPS.
- The properties of the violation runs, which the code does not have.  The exception is
  `HolderRunsAtWaiters`, proved for lists that fit.

## 5. Where code and documentation disagree

Shown by a violation run each:

- `mutex_list_full` (`kernel/src/ipc_block.c:78`): blocking on a full wait list
  leaves the operation in the PCB.  An inheritance walk later takes it for a
  wait and ends with an owner below the priority of its waiter, although
  `mutex.h` promises the opposite.  `MAXRTOS_WAITLIST_MAX` is smaller than the
  process pool in the default configuration, so lists can be full.
- `mutex_deadlock` (`kernel/src/mutex.c:395`): two owners in a deadlock keep a
  priority inherited from a third process after that has timed out, since each
  derives it from the other; `mutex.h` says that it ends.  `Inherits` states what does
  hold: exact inheritance outside of a deadlock, an upper bound within.
- `miss_wrap` (`kernel/src/timing.c:79`): a deadline beyond the largest tick
  wraps and is missed when its release begins.  Delays are checked for this
  (`tick.c:83`), deadlines and releases are not.
- `stale_miss` (`kernel/src/fault_recovery.c:87`): a process restarted for a
  fault between the tick that recorded its miss and the one that handles it is
  recovered a second time, for a release that no longer exists.
- `restart_behind_peers` (`arch/cortex_m7/src/fault_dispatch.c:96`): the recovery
  of the current PCB yields, so that the restarted process goes behind its
  equals.  If PendSV finds the bad stack while switching from a process that has just
  yielded, the yield is made on behalf of the peer that was to run next: that one goes
  behind, and the restarted process runs first.

Shown by a property that holds of the code, and against which the text stands:

- Unlocking (`arch/cortex_m7/src/svc.c:671-672`): "Ownership passes to a waiter, if any,
  which becomes READY. The caller keeps the CPU until the next tick or yield."  By
  `NotOutranked` it does not, if the waiter outranks it: every call but yields, clock
  reads and sampling ports ends with a preemption check (`svc.c:213-224`, "The caller is
  preempted at once").  With an action property that says what the comment says, TLC
  finds the unlock of `Mutex` that takes the CPU from its caller: a holder that was
  raised for a waiter drops to its own priority and is preempted in the same step.
  `kernel/mutex.h:135-136` ("The caller keeps running") and
  `kernel/semaphore.h:108` are true of the kernel functions, which leave the caller
  RUNNING, but not of the calls that an application makes.  The code is consistent
  (`svc.c:213`, `NotOutranked`); the comments are stale.
- Waiting at a buffer in vain: the interface of applications promises
  `MAXRTOS_ERR_QUEUE_FULL` for a message that "could not be sent in time"
  (`include/maxrtos/buffer.h:44`) and `MAXRTOS_ERR_QUEUE_EMPTY` if "no message arrived in
  time" (`buffer.h:73`).  By `TruthfulResults` a call that has waited is told TIMEOUT:
  `ipc_block.c:279-280` delivers `MAXRTOS_ERR_TIMEOUT`, and the stub returns it unmapped
  (`arch/cortex_m7/src/buffer.c:32`).  The documented codes come only from calls that have
  not waited.  An application that tests for them alone takes a timeout for another
  error.  `kernel/buffer.h:127` and `185` document TIMEOUT, as the code does; here too TLC
  refutes, with one wait and one tick of `Channel`, the property that says what `buffer.h` says.

## 6. What is not modelled

- In `Mutex`, the policies HALT_PARTITION and IGNORE: a mutex belongs to one
  partition, and one that is halted never runs again.  `Channel`, `TimedSystem`,
  `PartitionScheduling` and `ContextSwitch` have halts, `TimedSystem` also
  IGNORE.
- The refusal of a lock whose timeout does not fit the tick counter
  (`mutex.c:281-285`, MAXRTOS_ERR_OVERFLOW): nobody has been raised yet, so the refresh after it
  (`mutex.c:327-333`) changes nothing.
- In `Channel` a miss may be of a partition halted at any earlier time; in the code only of one
  that was not when the previous tick recorded it.  The model allows more.
- A receiver of a halted partition stays on the wait list of a port and can be
  handed a message that receivers of other partitions wait for.  `Channel` has
  this behaviour; no property forbids it, as no comment promises otherwise.
- Of the switch: registers other than r0; a PendSV that the recovery inside
  PendSV has pended again, which switches a process to itself; and the ends of
  the system in `maxrtos_arch_fatal`, one of which is the policy IGNORE for a bad
  stack.
- Of the MPU: register encodings and the regions programmed once at start-up.  Of the
  calls that take an address, only those of sampling ports have the check of
  their buffer; the others make the same check before they do what
  `Channel` models.
- The decoding of fault status registers, and argument validation other than that of
  sampling ports: no state is shared there.
- Initialisation refusals: `ASSUME`s say what start-up has accepted.
  Reconfiguring timing or policies at run time: the code offers it, the generated
  start-up calls it before the scheduler starts.
- The C stubs of the public API, the code generator, the demo and the tests.

## 7. Plan

Done: the modules of section 2, in the order dispatcher (everything else rests
on it), ready queues, mutexes, time, channels, context switch with memory
protection.

Proved: every invariant and action property of the passing runs, and the three
refinements.

Left, in this order:
1. Mutexes in `TimedSystem`, so that inheritance and deadlines meet.
2. Liveness of the switch: under weak fairness of PendSV and of the handlers
   every switch that is asked for happens.
