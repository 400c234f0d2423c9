-------------------------- MODULE TimedSystemProofs --------------------------
(***************************************************************************)
(* What the kernel in time guarantees, for every configuration: processes, *)
(* partitions, periods, time capacities, frame schedule, semaphores and    *)
(* policies of the health monitor, every width of the tick counter and     *)
(* every bound on the clock.                                               *)
(***************************************************************************)
EXTENDS TimedSystem, IpcBlockProofs

-----------------------------------------------------------------------------
(* The inductive invariant, as predicates on the record.                   *)

TimedFields ==
  {"now", "nextDue", "pending", "release", "deadline", "periodic", "timed",
   "count", "hm"}

Result == {NoResult, "OK", "TIMEOUT"}

TimedType(k) ==
  /\ Sound(k) /\ TimedFields \subseteq DOMAIN k
  /\ k.now \in Tick /\ k.nextDue \in Tick
  /\ k.wake \in [Process -> Tick] /\ k.deadline \in [Process -> Tick]
  /\ k.release \in [Process -> Tick]
  /\ k.periodic \in [Process -> BOOLEAN] /\ k.timed \in [Process -> BOOLEAN]
  /\ k.pending \in SUBSET Process
  /\ k.result \in [Process -> Result]
  /\ k.count \in [SemaphoreId -> Nat]
  /\ k.hm \in Policies

\* Nobody waits for units that are there, and no count exceeds its maximum.
UnitsOk(k) ==
  \A s \in SemaphoreId :
    /\ k.count[s] <= SemaphoreMax[s]
    /\ k.waiters[s] # <<>> => k.count[s] = 0

\* The clock stops before a deadline could be at a tick that does not fit the
\* counter.
NoWrap == \A i \in Process : MaxTick + Capacity[i] < NoTick

Watched(k, i) ==
  Capacity[i] > 0 /\ k.hm[PartitionOf[i]]["DEADLINE_EXCEEDED"] # "IGNORE" =>
    \/ k.deadline[i] # NoTick \/ k.periodic[i]
    \/ i \in k.pending \/ k.halted[PartitionOf[i]]

\* What the PCB of a process says of its waits, its release and its deadline.
WaitOk(k, i) ==
  /\ k.periodic[i] => ~k.timed[i]
  /\ k.periodic[i] \/ k.timed[i] => k.state[i] = "BLOCKED" /\ k.waitlist[i] = NoList
  /\ k.periodic[i] => k.wake[i] = Plus(k.release[i], Period[i])
  /\ k.wake[i] # NoTick =>
       k.state[i] = "BLOCKED" /\ (k.waitlist[i] # NoList \/ k.periodic[i] \/ k.timed[i])

ReleaseOk(k, i) ==
  /\ k.deadline[i] # NoTick =>
       Capacity[i] > 0 /\ k.deadline[i] = Plus(k.release[i], Capacity[i])
  /\ NoWrap => k.release[i] <= k.now

\* The cached bound is one, and all that is waited for is to come.
Bounded(k, i) == k.nextDue <= k.wake[i] /\ k.nextDue <= k.deadline[i]

Ahead(k, i) ==
  k.wake[i] # NoTick \/ k.periodic[i] \/ k.timed[i] => k.now < k.wake[i]

ProcessOk(k, i) == WaitOk(k, i) /\ ReleaseOk(k, i) /\ Bounded(k, i) /\ Ahead(k, i)

TimedBase(k) ==
  /\ TimedType(k) /\ UnitsOk(k)
  /\ NoWrap => k.now <= MaxTick

TimedOk(k) ==
  /\ TimedBase(k)
  /\ \A i \in Process : ProcessOk(k, i) /\ (NoWrap => Watched(k, i))

\* The same, but the release of process i need not be supervised: its miss has
\* just been taken up.
OkBut(k, i) ==
  /\ TimedBase(k)
  /\ \A j \in Process : ProcessOk(k, j) /\ (NoWrap /\ j # i => Watched(k, j))

\* What the handlers of other processes leave alone: all that the invariant
\* says of j, but for whether it runs or is READY.
Alike(k, m, j) ==
  /\ m.state[j] = "BLOCKED" <=> k.state[j] = "BLOCKED"
  /\ m.waitlist[j] = k.waitlist[j] /\ m.wake[j] = k.wake[j]
  /\ m.periodic[j] = k.periodic[j] /\ m.timed[j] = k.timed[j]
  /\ m.release[j] = k.release[j] /\ m.deadline[j] = k.deadline[j]

-----------------------------------------------------------------------------
(* The arithmetic of ticks.                                                *)

LEMMA TickType ==
  /\ NoTick \in Nat \ {0} /\ Tick \subseteq Nat /\ NoTick \in Tick /\ 0 \in Tick
  /\ \A t \in Tick : t <= NoTick
  /\ NumProcesses \in Nat /\ Process \subseteq Nat
  /\ Period \in [Process -> Tick] /\ Capacity \in [Process -> Tick]
  /\ PartitionOf \in [Process -> Partition]
  /\ MaxTick \in Tick /\ MaxTick >= 1
BY IpcAssumption, TimingAssumption, ConfigAssumption, TimedSystemAssumption
   DEF Tick, Armed, Process

LEMMA PlusTicks ==
  ASSUME NEW t \in Tick, NEW d \in Tick
  PROVE  /\ Plus(t, d) \in Tick
         /\ t + d <= NoTick => Plus(t, d) = t + d
         /\ Plus(Plus(t, 1), NoTick) = t
         /\ Plus(t, 1) = IF t < NoTick THEN t + 1 ELSE 0
<1>1. NoTick \in Nat \ {0} /\ t \in 0 .. NoTick /\ d \in 0 .. NoTick
  BY TickType DEF Tick
<1> DEFINE N == NoTick
<1>2. ASSUME NEW n \in Nat PROVE n % (N + 1) \in 0 .. N
  BY <1>1
<1>3. ASSUME NEW n \in 0 .. N PROVE n % (N + 1) = n /\ (n + (N + 1)) % (N + 1) = n
  BY <1>1
<1>4. (N + 1) % (N + 1) = 0
  BY <1>1
<1>5. Plus(t, d) \in Tick /\ (t + d <= N => Plus(t, d) = t + d)
  BY <1>1, <1>2, <1>3 DEF Plus, Tick
<1>6. Plus(t, 1) = IF t < N THEN t + 1 ELSE 0
  BY <1>1, <1>3, <1>4 DEF Plus
<1>7. Plus(Plus(t, 1), N) = t
  <2>1. CASE t < N
    <3>1. Plus(Plus(t, 1), N) = (t + (N + 1)) % (N + 1)
      BY <1>1, <1>6, <2>1 DEF Plus
    <3> QED BY <1>1, <1>3, <3>1
  <2>2. CASE t = N
    BY <1>1, <1>3, <1>6, <2>2 DEF Plus
  <2> QED BY <1>1, <2>1, <2>2
<1> QED BY <1>5, <1>6, <1>7

\* A set of ticks that is not empty has a least one.
LEMMA LeastTick ==
  ASSUME NEW S \in SUBSET Tick, S # {}
  PROVE  LET t == CHOOSE t \in Tick : t \in S /\ \A u \in S : t <= u
         IN  t \in S /\ \A u \in S : t <= u
<1>1. S \subseteq Nat
  BY TickType
<1>2. PICK t \in S : \A u \in S : t <= u
  BY <1>1, BestExists
<1> QED BY <1>2

-----------------------------------------------------------------------------
(* Arming ticks.                                                           *)

Noted(k, m, t) ==
  /\ TimedType(m) /\ SameBut(k, m, {"nextDue"})
  /\ m.nextDue <= t /\ m.nextDue <= k.nextDue

\* The bound is lowered to a tick that is armed.
LEMMA NoteDueNotes ==
  ASSUME NEW k, TimedType(k), NEW t \in Tick
  PROVE  Noted(k, NoteDue(k, t), t)
<1> DEFINE m == NoteDue(k, t)
<1>1. /\ k = [x \in DOMAIN k |-> k[x]] /\ "nextDue" \in DOMAIN k
      /\ k.nextDue \in Tick /\ Tick \subseteq Nat /\ Sound(k)
  BY TickType DEF TimedType, TimedFields, Sound, IpcType, Extends
<1>2. SameBut(k, m, {"nextDue"}) /\ m.nextDue = IF t < k.nextDue THEN t ELSE k.nextDue
  BY <1>1 DEF NoteDue, SameBut
<1> HIDE DEF m
<1>3. m.nextDue \in Tick /\ m.nextDue <= t /\ m.nextDue <= k.nextDue
  BY <1>1, <1>2
<1>4. Sound(m)
  BY <1>1, <1>2, ServiceStep DEF TableFields, WaitFieldNames
<1>5. TimedType(m)
  BY <1>2, <1>3, <1>4 DEF TimedType, TimedFields, WaitFieldNames, SameBut, Sound, IpcType
<1> QED BY <1>2, <1>3, <1>5 DEF Noted, m

\* The tick of the deadline of a release that begins at tick t.
DeadlineOf(i, t) == IF Capacity[i] = 0 THEN NoTick ELSE Plus(t, Capacity[i])

DeadlineArmed(k, m, i) ==
  /\ TimedType(m) /\ SameBut(k, m, {"deadline", "nextDue"})
  /\ m.deadline = [k.deadline EXCEPT ![i] = DeadlineOf(i, k.release[i])]
  /\ m.nextDue <= m.deadline[i] /\ m.nextDue <= k.nextDue

LEMMA ArmDeadlineArms ==
  ASSUME NEW k, TimedType(k), NEW i \in Process
  PROVE  DeadlineArmed(k, ArmDeadline(k, i), i)
<1> DEFINE d == DeadlineOf(i, k.release[i])
           l == [k EXCEPT !.deadline[i] = d]
           m == ArmDeadline(k, i)
<1>1. /\ k = [x \in DOMAIN k |-> k[x]] /\ TimedFields \subseteq DOMAIN k /\ Sound(k)
      /\ k.deadline \in [Process -> Tick] /\ k.release[i] \in Tick
  BY DEF TimedType, Sound, IpcType, Extends
<1>2. d \in Tick
  BY <1>1, TickType, PlusTicks DEF DeadlineOf
<1>3. m = IF Capacity[i] = 0 THEN l ELSE NoteDue(l, d)
  BY DEF ArmDeadline, DeadlineOf
<1>4. SameBut(k, l, {"deadline"}) /\ l.deadline = [k.deadline EXCEPT ![i] = d]
  BY <1>1 DEF SameBut, TimedFields
<1>5. Capacity[i] = 0 => d = NoTick
  BY DEF DeadlineOf
<1> HIDE DEF m, l, d
<1>6. Sound(l)
  BY <1>1, <1>4, ServiceStep DEF TableFields, WaitFieldNames
<1>7. l.deadline \in [Process -> Tick] /\ l.deadline[i] = d
  BY <1>1, <1>2, <1>4
<1>8. TimedType(l)
  BY <1>4, <1>6, <1>7 DEF TimedType, TimedFields, WaitFieldNames, SameBut, Sound, IpcType
<1>9. CASE Capacity[i] = 0
  <2>1. m = l /\ l.nextDue = k.nextDue /\ k.nextDue \in Tick
    BY <1>3, <1>4, <1>9 DEF SameBut, TimedType, TimedFields
  <2>2. k.nextDue <= d /\ k.nextDue <= k.nextDue
    <3>1. k.nextDue <= NoTick /\ k.nextDue \in Nat
      BY <2>1, TickType
    <3> QED BY <1>5, <1>9, <3>1
  <2> QED BY <1>4, <1>7, <1>8, <2>1, <2>2 DEF DeadlineArmed, SameBut, m, d
<1>10. CASE Capacity[i] # 0
  <2>1. Noted(l, m, d)
    BY <1>2, <1>3, <1>8, <1>10, NoteDueNotes
  <2>2. l.nextDue = k.nextDue /\ m.deadline = l.deadline
    BY <1>1, <1>4, <2>1 DEF SameBut, Noted, TimedFields
  <2>3. SameBut(k, m, {"deadline", "nextDue"})
    BY <1>4, <2>1 DEF SameBut, Noted
  <2> QED BY <1>4, <1>7, <2>1, <2>2, <2>3 DEF DeadlineArmed, Noted, m, d
<1> QED BY <1>9, <1>10

\* m is k with a release of i begun at tick t.
Begun(k, m, i, t) ==
  /\ TimedType(m)
  /\ SameBut(k, m, {"periodic", "timed", "release", "deadline", "nextDue"})
  /\ m.periodic = [k.periodic EXCEPT ![i] = FALSE]
  /\ m.timed = [k.timed EXCEPT ![i] = FALSE]
  /\ m.release = [k.release EXCEPT ![i] = t]
  /\ m.deadline = [k.deadline EXCEPT ![i] = DeadlineOf(i, t)]
  /\ m.nextDue <= m.deadline[i] /\ m.nextDue <= k.nextDue

LEMMA RearmBegins ==
  ASSUME NEW k, TimedType(k), NEW i \in Process, NEW t \in Tick
  PROVE  Begun(k, Rearm(k, i, t), i, t)
<1> DEFINE l == [k EXCEPT !.periodic[i] = FALSE, !.timed[i] = FALSE, !.release[i] = t]
           m == Rearm(k, i, t)
<1>1. /\ k = [x \in DOMAIN k |-> k[x]] /\ TimedFields \subseteq DOMAIN k /\ Sound(k)
  BY DEF TimedType, Sound, IpcType, Extends
<1>2. /\ k.release \in [Process -> Tick] /\ k.periodic \in [Process -> BOOLEAN]
      /\ k.timed \in [Process -> BOOLEAN]
  BY DEF TimedType
<1>3. m = ArmDeadline(l, i)
  BY DEF Rearm
<1>4. SameBut(k, l, {"periodic", "timed", "release"})
  BY <1>1 DEF SameBut
<1>5. /\ l.periodic = [k.periodic EXCEPT ![i] = FALSE]
      /\ l.timed = [k.timed EXCEPT ![i] = FALSE]
      /\ l.release = [k.release EXCEPT ![i] = t]
  BY <1>1 DEF TimedFields
<1> HIDE DEF m, l
<1>6. Sound(l)
  BY <1>1, <1>4, ServiceStep DEF TableFields, WaitFieldNames
<1>7. TimedType(l) /\ l.release[i] = t
  <2>1. /\ l.release \in [Process -> Tick] /\ l.release[i] = t
        /\ l.periodic \in [Process -> BOOLEAN] /\ l.timed \in [Process -> BOOLEAN]
    BY <1>2, <1>5
  <2> QED BY <1>1, <1>4, <1>6, <2>1
          DEF TimedType, TimedFields, WaitFieldNames, SameBut, Sound, IpcType
<1>8. DeadlineArmed(l, m, i)
  BY <1>3, <1>7, ArmDeadlineArms
<1>9. SameBut(k, m, {"periodic", "timed", "release", "deadline", "nextDue"})
  BY <1>4, <1>8 DEF SameBut, DeadlineArmed
<1>10. /\ m.periodic = l.periodic /\ m.timed = l.timed /\ m.release = l.release
       /\ l.deadline = k.deadline /\ l.nextDue = k.nextDue
  BY <1>1, <1>4, <1>8 DEF SameBut, DeadlineArmed, TimedFields
<1> QED BY <1>5, <1>7, <1>8, <1>9, <1>10 DEF Begun, DeadlineArmed, m

-----------------------------------------------------------------------------
(* Steps that leave the waits, releases and deadlines of processes alone.  *)

\* m is k but for other processes.
Around(k, m) ==
  /\ TimedType(m) /\ m.now = k.now /\ m.hm = k.hm /\ m.nextDue <= k.nextDue
  /\ \A p \in Partition : k.halted[p] => m.halted[p]

LEMMA AlikeOk ==
  ASSUME NEW k, TimedType(k), NEW m, Around(k, m),
         NEW j \in Process, Alike(k, m, j)
  PROVE  /\ WaitOk(k, j) => WaitOk(m, j)
         /\ ReleaseOk(k, j) => ReleaseOk(m, j)
         /\ ProcessOk(k, j) => ProcessOk(m, j)
         /\ Watched(k, j) /\ (j \in k.pending => j \in m.pending) => Watched(m, j)
<1>1. /\ k.nextDue \in Nat /\ m.nextDue \in Nat
      /\ k.wake[j] \in Nat /\ k.deadline[j] \in Nat /\ PartitionOf[j] \in Partition
  BY TickType DEF TimedType, Around
<1>2. WaitOk(k, j) => WaitOk(m, j)
  BY DEF Alike, WaitOk
<1>3. ReleaseOk(k, j) => ReleaseOk(m, j)
  BY DEF Alike, Around, ReleaseOk
<1>4. Bounded(k, j) => Bounded(m, j)
  BY <1>1 DEF Alike, Around, Bounded
<1>5. Ahead(k, j) => Ahead(m, j)
  BY DEF Alike, Around, Ahead
<1>6. Watched(k, j) /\ (j \in k.pending => j \in m.pending) => Watched(m, j)
  BY <1>1 DEF Alike, Around, Watched
<1> QED BY <1>2, <1>3, <1>4, <1>5, <1>6 DEF ProcessOk

\* A step of the dispatcher, a result handed over, an operation noted.
QuietFields == TableFields \cup {"op", "result"}

LEMMA QuietStep ==
  ASSUME NEW k, TimedType(k), NEW m, Sound(m), SameBut(k, m, QuietFields),
         m.result \in [Process -> Result], SameBlocked(k, m),
         \A p \in Partition : k.halted[p] => m.halted[p]
  PROVE  /\ Around(k, m) /\ \A j \in Process : Alike(k, m, j)
         /\ m.pending = k.pending /\ m.count = k.count /\ m.waiters = k.waiters
         /\ TimedBase(k) => TimedBase(m)
         /\ TimedOk(k) => TimedOk(m)
         /\ \A i \in Process : OkBut(k, i) => OkBut(m, i)
<1>1. TimedFields \cup WaitFieldNames \subseteq DOMAIN k
  BY DEF TimedType, Sound, IpcType
<1>2. /\ m.now = k.now /\ m.hm = k.hm /\ m.nextDue = k.nextDue
      /\ m.pending = k.pending /\ m.count = k.count /\ m.waiters = k.waiters
      /\ m.waitlist = k.waitlist /\ m.wake = k.wake
      /\ m.periodic = k.periodic /\ m.timed = k.timed
      /\ m.release = k.release /\ m.deadline = k.deadline
  BY <1>1 DEF SameBut, QuietFields, TableFields, TimedFields, WaitFieldNames
<1>3. k.nextDue \in Nat
  BY TickType DEF TimedType
<1>4. TimedType(m)
  BY <1>1, <1>2 DEF TimedType, SameBut
<1>5. Around(k, m)
  BY <1>2, <1>3, <1>4 DEF Around
<1>6. \A j \in Process : Alike(k, m, j)
  BY <1>2 DEF Alike, SameBlocked
<1>7. TimedBase(k) => TimedBase(m)
  BY <1>2, <1>4 DEF TimedBase, UnitsOk
<1>8. \A j \in Process : /\ ProcessOk(k, j) => ProcessOk(m, j)
                         /\ Watched(k, j) => Watched(m, j)
  BY <1>2, <1>5, <1>6, AlikeOk
<1> QED BY <1>2, <1>5, <1>6, <1>7, <1>8 DEF TimedOk, OkBut

\* A dispatch or a yield.
Dispatched(k, m) ==
  /\ Around(k, m) /\ m.halted = k.halted
  /\ SameBlocked(k, m) /\ SameBeyond(k, m)
  /\ \A j \in Process : Alike(k, m, j)
  /\ TimedOk(k) => TimedOk(m)

LEMMA SelectTimed ==
  ASSUME NEW k, TimedType(k), NEW p \in Partition, NEW y \in BOOLEAN
  PROVE  Dispatched(k, PartitionSelect(k, p, y))
<1> DEFINE m == PartitionSelect(k, p, y)
<1>1. /\ Sound(m) /\ SameBeyond(k, m) /\ SameBlocked(k, m)
      /\ m.halted = k.halted
  BY SelectSound DEF TimedType
<1> HIDE DEF m
<1>2. SameBut(k, m, QuietFields) /\ m.result = k.result
  BY <1>1 DEF SameBeyond, SameBut, Extends, QuietFields, TimedType, Sound, IpcType,
              TableFields, WaitFieldNames
<1>3. m.result \in [Process -> Result]
  BY <1>2 DEF TimedType
<1> QED BY <1>1, <1>2, <1>3, QuietStep DEF Dispatched, m

\* Handing the result to the process that runs next.
LEMMA DeliverTimed ==
  ASSUME NEW k, TimedType(k), NEW c \in Process \cup {NoProcess}
  PROVE  LET m == Deliver(k, c) IN
         /\ SameBut(k, m, {"result"})
         /\ m.result = IF c = NoProcess THEN k.result
                       ELSE [k.result EXCEPT ![c] = NoResult]
         /\ TimedOk(k) => TimedOk(m)
<1> DEFINE m == Deliver(k, c)
<1>1. Delivered(k, m, c)
  BY DeliverSound DEF TimedType
<1> HIDE DEF m
<1>2. m.result \in [Process -> Result]
  BY <1>1 DEF Delivered, TimedType, Result
<1>3. m.state = k.state /\ m.halted = k.halted
  BY <1>1 DEF Delivered, SameBut, TimedType, Sound, IpcType, Extends, TableFields
<1>4. SameBut(k, m, QuietFields) /\ SameBlocked(k, m)
  BY <1>1, <1>3 DEF Delivered, SameBut, QuietFields, SameBlocked
<1> QED BY <1>1, <1>2, <1>3, <1>4, QuietStep DEF Delivered, m

-----------------------------------------------------------------------------
(* A restart.                                                              *)

RestartFields ==
  {"state", "ready", "current", "priority", "waiters", "waitlist", "wake", "op"}

\* m is k with process i READY and waiting for nothing.
FreshStates(k, m, i) ==
  /\ Sound(m) /\ SameBut(k, m, RestartFields)
  /\ m.state = [k.state EXCEPT ![i] = "READY"]
  /\ m.waitlist = [k.waitlist EXCEPT ![i] = NoList]
  /\ m.wake = [k.wake EXCEPT ![i] = NoTick]
  /\ ListsShrink(k, m)

\* The three cases of fault recovery.
LEMMA RestartStatesFresh ==
  ASSUME NEW k, TimedType(k), NEW i \in Process, WaitOk(k, i)
  PROVE  FreshStates(k, RestartStates(k, i), i)
<1> DEFINE m == RestartStates(k, i)
<1>1. Sound(k) /\ IpcType(k) /\ k.state \in [Process -> ProcessState]
      /\ k.waitlist \in [Process -> WaitList \cup {NoList}]
      /\ k.wake \in [Process -> Tick]
  BY SoundTypes DEF TimedType, Sound, IpcType
<1>2. k = [x \in DOMAIN k |-> k[x]]
      /\ TableFields \cup WaitFieldNames \subseteq DOMAIN k
  BY <1>1 DEF IpcType, Extends
<1>3. CASE k.state[i] = "RUNNING"
  <2>1. OffCpu(k, m, i)
    BY <1>1, <1>3, RestartRunningSound DEF RestartStates
  <2> HIDE DEF m
  <2>2. SameBut(k, m, RestartFields) /\ m.waitlist = k.waitlist /\ m.wake = k.wake
        /\ m.waiters = k.waiters
    <3>1. \A x \in DOMAIN k : x # "halted" /\ x \in TableFields => x \in RestartFields
      BY DEF TableFields, RestartFields
    <3>2. \A x \in DOMAIN k \ RestartFields : m[x] = k[x]
      BY <2>1, <3>1 DEF OffCpu, SameBeyond
    <3> QED BY <1>2, <2>1, <3>2
            DEF OffCpu, SameBeyond, SameBut, Extends, TableFields, WaitFieldNames
  <2>3. k.waitlist[i] = NoList /\ k.wake[i] = NoTick
    BY <1>1, <1>3, OnNoList DEF WaitOk
  <2>4. m.waitlist = [k.waitlist EXCEPT ![i] = NoList]
        /\ m.wake = [k.wake EXCEPT ![i] = NoTick]
    BY <1>1, <2>2, <2>3
  <2> QED BY <2>1, <2>2, <2>4 DEF OffCpu, FreshStates, ListsShrink, m
<1>4. CASE k.state[i] = "BLOCKED"
  <2> DEFINE l == ClearBlocked(LeaveAny(k, i), i)
  <2>1. OffList(k, l, i)
    BY <1>1, <1>4, LeaveSound
  <2>2. m = ReadyProcess(l, i)
    BY <1>4 DEF RestartStates
  <2> HIDE DEF l, m
  <2>3. l.state = k.state /\ l.waitlist[i] = NoList
    BY <1>1, <1>2, <2>1 DEF OffList, SameBut, TableFields
  <2>4. MadeReady(l, m, i, {})
    BY <1>4, <2>1, <2>2, <2>3, ReadySound DEF OffList
  <2>5. SameBut(k, m, RestartFields)
    BY <2>1, <2>4 DEF OffList, MadeReady, SameBut, RestartFields
  <2>6. m.waitlist = l.waitlist /\ m.wake = l.wake
    BY <1>2, <2>1, <2>4 DEF OffList, MadeReady, SameBut, WaitFieldNames
  <2>7. \A j \in Process :
          Waits(m, j) => Waits(k, j) /\ m.waitlist[j] = k.waitlist[j]
    <3> SUFFICES ASSUME NEW j \in Process, Waits(m, j)
                 PROVE  Waits(k, j) /\ m.waitlist[j] = k.waitlist[j]
      OBVIOUS
    <3>1. CASE j = i
      BY <1>1, <2>1, <2>6, <3>1 DEF OffList, Waits
    <3>2. CASE j # i
      BY <1>1, <2>1, <2>3, <2>4, <2>6, <3>2 DEF OffList, MadeReady, Waits
    <3> QED BY <3>1, <3>2
  <2>8. Sound(m) /\ m.state = [k.state EXCEPT ![i] = "READY"]
    BY <2>3, <2>4 DEF MadeReady
  <2>9. ListsShrink(k, m)
    BY <1>1, <2>7, <2>8, FewerWaiters
  <2> QED BY <2>1, <2>5, <2>6, <2>8, <2>9 DEF OffList, FreshStates, m
<1>5. CASE k.state[i] # "RUNNING" /\ k.state[i] # "BLOCKED"
  <2>1. m = k
    BY <1>5 DEF RestartStates
  <2>2. k.state[i] = "READY"
    BY <1>1, <1>5 DEF ProcessState
  <2>3. k.waitlist[i] = NoList /\ k.wake[i] = NoTick
    BY <1>1, <1>5, OnNoList DEF WaitOk
  <2> HIDE DEF m
  <2> QED BY <1>1, <1>2, <2>1, <2>2, <2>3 DEF FreshStates, SameBut, ListsShrink, m
<1> QED BY <1>3, <1>4, <1>5

\* m is k with process i restarted: it is READY, waits for nothing and begins a
\* release now.
Refreshed(k, m, i) ==
  /\ TimedOk(m) /\ Around(k, m)
  /\ m.halted = k.halted /\ m.pending = k.pending
  /\ m.state = [k.state EXCEPT ![i] = "READY"]
  /\ m.release = [k.release EXCEPT ![i] = k.now]
  /\ m.result = [k.result EXCEPT ![i] = NoResult]
  /\ \A j \in Process \ {i} : Alike(k, m, j)

LEMMA RestartRefreshes ==
  ASSUME NEW k, NEW i \in Process, OkBut(k, i)
  PROVE  Refreshed(k, Restart(k, i), i)
<1> DEFINE s == RestartStates(k, i)
           l == [s EXCEPT !.result[i] = NoResult]
           m == Restart(k, i)
<1>1. TimedType(k) /\ WaitOk(k, i) /\ UnitsOk(k) /\ (NoWrap => k.now <= MaxTick)
  BY DEF OkBut, TimedBase, ProcessOk
<1>2. FreshStates(k, s, i)
  BY <1>1, RestartStatesFresh
<1>3. m = Rearm(l, i, k.now)
  BY DEF Restart
<1>4. /\ TimedFields \cup TableFields \cup WaitFieldNames \subseteq DOMAIN k
      /\ OnProcesses(k.op) /\ Sound(k)
  BY <1>1 DEF TimedType, Sound, IpcType, Extends
<1> HIDE DEF s, m
<1>5. /\ SameBut(k, l, RestartFields \cup {"result"}) /\ SameBut(s, l, {"result"})
      /\ l.result = [s.result EXCEPT ![i] = NoResult]
      /\ s.result = k.result
  BY <1>2, <1>4 DEF FreshStates, SameBut, WaitFieldNames, RestartFields
<1> HIDE DEF l
<1>6. Sound(l)
  <2>1. Sound(s) /\ OnProcesses(s.op) /\ OnProcesses(s.wake) /\ OnProcesses(s.result)
    BY <1>2 DEF FreshStates, Sound, IpcType
  <2>2. l.op = s.op /\ l.wake = s.wake /\ OnProcesses(l.result)
    BY <1>4, <1>2, <1>5, <2>1 DEF OnProcesses, SameBut, FreshStates, WaitFieldNames
  <2>3. SameBut(s, l, {"result", "op", "wake"})
    BY <1>5 DEF SameBut
  <2> QED BY <2>1, <2>2, <2>3, AnnotateSound
<1>7. /\ l.state = s.state /\ l.waitlist = s.waitlist /\ l.wake = s.wake
      /\ l.waiters = s.waiters
  BY <1>2, <1>4, <1>5 DEF SameBut, FreshStates, WaitFieldNames, TableFields
<1>8. /\ l.halted = k.halted /\ l.now = k.now /\ l.nextDue = k.nextDue
      /\ l.pending = k.pending /\ l.release = k.release /\ l.deadline = k.deadline
      /\ l.periodic = k.periodic /\ l.timed = k.timed /\ l.count = k.count
      /\ l.hm = k.hm
  BY <1>4, <1>5 DEF SameBut, RestartFields, TimedFields, TableFields
<1>9. l.wake \in [Process -> Tick] /\ l.result \in [Process -> Result]
  BY <1>1, <1>2, <1>5, <1>7, TickType DEF FreshStates, TimedType, Result
<1>10. TimedType(l)
  <2>1. DOMAIN l = DOMAIN k
    BY <1>5 DEF SameBut
  <2> QED BY <1>1, <1>6, <1>8, <1>9, <2>1 DEF TimedType
<1>11. Begun(l, m, i, k.now)
  BY <1>1, <1>3, <1>10, RearmBegins DEF TimedType
<1>12. /\ m.halted = k.halted /\ m.now = k.now /\ m.pending = k.pending
       /\ m.count = k.count /\ m.hm = k.hm
       /\ m.state = s.state /\ m.waitlist = s.waitlist /\ m.wake = s.wake
       /\ m.waiters = s.waiters /\ m.result = l.result
  <2>1. DOMAIN l = DOMAIN k
    BY <1>5 DEF SameBut
  <2> QED BY <1>4, <1>7, <1>8, <1>11, <2>1
          DEF Begun, SameBut, TimedFields, TableFields, WaitFieldNames
<1>13. /\ m.periodic = [k.periodic EXCEPT ![i] = FALSE]
       /\ m.timed = [k.timed EXCEPT ![i] = FALSE]
       /\ m.release = [k.release EXCEPT ![i] = k.now]
       /\ m.deadline = [k.deadline EXCEPT ![i] = DeadlineOf(i, k.now)]
       /\ m.nextDue <= m.deadline[i] /\ m.nextDue <= k.nextDue
  BY <1>8, <1>11 DEF Begun
<1>14. Around(k, m) /\ TimedType(m)
  BY <1>11, <1>12, <1>13 DEF Around, Begun
<1>15. ASSUME NEW j \in Process, j # i PROVE Alike(k, m, j)
  <2>1. m.state[j] = k.state[j] /\ m.waitlist[j] = k.waitlist[j] /\ m.wake[j] = k.wake[j]
    BY <1>2, <1>12, <1>15 DEF FreshStates
  <2>2. /\ m.release[j] = k.release[j] /\ m.deadline[j] = k.deadline[j]
    BY <1>1, <1>13, <1>15 DEF TimedType
  <2>3. m.periodic[j] = k.periodic[j]
    BY <1>1, <1>13, <1>15 DEF TimedType
  <2>4. m.timed[j] = k.timed[j]
    BY <1>1, <1>13, <1>15 DEF TimedType
  <2> QED BY <2>1, <2>2, <2>3, <2>4 DEF Alike
<1>16. ProcessOk(m, i) /\ (NoWrap => Watched(m, i))
  <2>1. /\ m.state[i] = "READY" /\ m.waitlist[i] = NoList /\ m.wake[i] = NoTick
        /\ m.release[i] = k.now /\ m.deadline[i] = DeadlineOf(i, k.now)
    BY <1>1, <1>2, <1>12, <1>13, SoundTypes, <1>4 DEF FreshStates, TimedType, Sound, IpcType
  <2>2. ~m.periodic[i] /\ ~m.timed[i]
    BY <1>1, <1>13 DEF TimedType
  <2>3. m.now \in Tick /\ m.nextDue \in Tick /\ k.now \in Tick
    BY <1>1, <1>14 DEF TimedType
  <2>4. WaitOk(m, i)
    BY <2>1, <2>2 DEF WaitOk
  <2>5. Bounded(m, i) /\ Ahead(m, i)
    BY <1>13, <2>1, <2>2, <2>3, TickType DEF Bounded, Ahead
  <2>6. /\ k.now \in Nat /\ MaxTick \in Nat /\ NoTick \in Nat
        /\ Capacity[i] \in Tick /\ Capacity[i] \in Nat
    BY <2>3, TickType
  <2>7. ReleaseOk(m, i)
    BY <1>12, <2>1, <2>6 DEF ReleaseOk, DeadlineOf
  <2>8. ASSUME NoWrap, Capacity[i] > 0 PROVE m.deadline[i] # NoTick
    <3>1. k.now + Capacity[i] < NoTick
      <4>1. k.now <= MaxTick /\ MaxTick + Capacity[i] < NoTick
        BY <1>1, <2>8 DEF NoWrap
      <4> QED BY <2>6, <4>1
    <3>2. Plus(k.now, Capacity[i]) = k.now + Capacity[i]
      <4>1. k.now + Capacity[i] <= NoTick
        BY <2>6, <3>1
      <4> QED BY <2>3, <2>6, <4>1, PlusTicks
    <3> QED BY <2>1, <2>6, <2>8, <3>1, <3>2 DEF DeadlineOf
  <2> QED BY <2>4, <2>5, <2>7, <2>8 DEF ProcessOk, Watched
<1>17. TimedBase(m)
  <2>1. ListsShrink(k, m)
    BY <1>2, <1>12 DEF FreshStates, ListsShrink
  <2>2. SemaphoreId \subseteq WaitList
    BY SemaphoreAssumption, IpcAssumption DEF SemaphoreId, WaitList
  <2> QED BY <1>1, <1>12, <1>14, <2>1, <2>2 DEF TimedBase, UnitsOk, ListsShrink
<1>18. TimedOk(m)
  <2>1. ASSUME NEW j \in Process, j # i
        PROVE  ProcessOk(m, j) /\ (NoWrap => Watched(m, j))
    BY <1>1, <1>12, <1>14, <1>15, <2>1, AlikeOk DEF OkBut
  <2> QED BY <1>16, <1>17, <2>1 DEF TimedOk
<1>19. m.state = [k.state EXCEPT ![i] = "READY"]
       /\ m.result = [k.result EXCEPT ![i] = NoResult]
  BY <1>2, <1>5, <1>12 DEF FreshStates
<1> QED BY <1>12, <1>13, <1>14, <1>15, <1>18, <1>19 DEF Refreshed, m

-----------------------------------------------------------------------------
(* Faults and misses.                                                      *)

\* The release of process i goes on, or a restart has begun a new one.
Anew(k, m, i) ==
  \/ m.release[i] = k.release[i]
  \/ m.release[i] = k.now /\ m.state[i] # "BLOCKED"

\* m is k after a fault of process i has been handled.
Handled(k, m, i) ==
  /\ TimedOk(m) /\ Around(k, m) /\ m.pending = k.pending
  /\ Anew(k, m, i)
  /\ \A j \in Process \ {i} : Alike(k, m, j) /\ m.result[j] = k.result[j]

\* Halting the partition of process i.
LEMMA HaltHandles ==
  ASSUME NEW k, NEW i \in Process, OkBut(k, i)
  PROVE  Handled(k, HaltPartition(k, PartitionOf[i]), i)
<1> DEFINE p == PartitionOf[i]
           m == HaltPartition(k, p)
<1>1. TimedType(k) /\ Sound(k) /\ p \in Partition /\ k.halted \in [Partition -> BOOLEAN]
  BY TickType, SoundTypes DEF OkBut, TimedBase, TimedType
<1>2. Stopped(k, m, p)
  BY <1>1, HaltSound
<1> HIDE DEF m
<1>3. m.halted[p] /\ \A r \in Partition : k.halted[r] => m.halted[r]
  BY <1>1, <1>2 DEF Stopped
<1>4. /\ TimedFields \cup WaitFieldNames \cup TableFields \subseteq DOMAIN k
      /\ \A x \in DOMAIN k : x # "halted" => m[x] = k[x]
  BY <1>1, <1>2 DEF TimedType, Sound, IpcType, Extends, Stopped, SameBut
<1>5. m.result = k.result /\ m.state = k.state /\ m.release = k.release
      /\ m.pending = k.pending /\ m.hm = k.hm
  BY <1>4 DEF TimedFields, WaitFieldNames, TableFields
<1>6. SameBlocked(k, m) /\ m.result \in [Process -> Result]
  BY <1>1, <1>5 DEF SameBlocked, TimedType
<1>7. SameBut(k, m, QuietFields) /\ Sound(m)
  BY <1>2 DEF Stopped, SameBut, QuietFields, TableFields
<1>8. /\ Around(k, m) /\ \A j \in Process : Alike(k, m, j)
      /\ OkBut(m, i)
  BY <1>1, <1>3, <1>6, <1>7, QuietStep
<1>9. Watched(m, i)
  BY <1>3 DEF Watched
<1>10. TimedOk(m)
  BY <1>8, <1>9 DEF OkBut, TimedOk
<1> QED BY <1>5, <1>8, <1>10 DEF Anew, Handled, m

\* A restart, and the dispatch that follows it if the process had the CPU.
LEMMA RestartHandles ==
  ASSUME NEW k, NEW i \in Process, OkBut(k, i)
  PROVE  /\ Handled(k, Restart(k, i), i)
         /\ Handled(k, PartitionYield(Restart(k, i), PartitionOf[i]), i)
<1> DEFINE l == Restart(k, i)
           m == PartitionYield(l, PartitionOf[i])
<1>1. Refreshed(k, l, i) /\ PartitionOf[i] \in Partition
      /\ k.release \in [Process -> Tick] /\ k.result \in [Process -> Result]
  BY RestartRefreshes, TickType DEF OkBut, TimedBase, TimedType
<1> HIDE DEF l
<1>2. Dispatched(l, m)
  BY <1>1, SelectTimed DEF PartitionYield, Refreshed, TimedOk, TimedBase
<1> HIDE DEF m
<1>3. Handled(k, l, i) /\ l.release[i] = k.now /\ l.state[i] # "BLOCKED"
  <2>1. l.release[i] = k.now
    BY <1>1 DEF Refreshed
  <2>2. k.state \in [Process -> ProcessState]
    BY SoundTypes DEF OkBut, TimedBase, TimedType
  <2>3. l.state[i] # "BLOCKED"
    BY <1>1, <2>2 DEF Refreshed
  <2> QED BY <1>1, <2>1, <2>3 DEF Anew, Refreshed, Handled
<1>4. m.result = l.result /\ m.pending = l.pending
  BY <1>1, <1>2 DEF Dispatched, SameBeyond, Refreshed, TimedOk, TimedBase, TimedType,
                    Sound, IpcType, TimedFields, WaitFieldNames, TableFields
<1>5. Around(k, m)
  <2>1. k.nextDue \in Nat /\ l.nextDue \in Nat /\ m.nextDue \in Nat
    BY <1>1, <1>2, TickType DEF OkBut, TimedBase, TimedType, Dispatched, Around, Refreshed
  <2> QED BY <1>1, <1>2, <2>1 DEF Refreshed, Dispatched, Around
<1>6. \A j \in Process \ {i} : Alike(k, m, j)
  BY <1>1, <1>2 DEF Dispatched, Refreshed, Alike
<1>7. Anew(k, m, i)
  BY <1>2, <1>3 DEF Dispatched, Alike, Anew
<1>8. Handled(k, m, i)
  BY <1>1, <1>2, <1>3, <1>4, <1>5, <1>6, <1>7 DEF Handled, Dispatched, Refreshed
<1> QED BY <1>3, <1>8 DEF l, m

\* What the health monitor has done about a fault.
LEMMA FaultIsHandled ==
  ASSUME NEW k, NEW c \in Process \cup {NoProcess}, NEW i \in Process, OkBut(k, i),
         NEW type,
         k.hm[PartitionOf[i]][type] = "IGNORE" => type = "DEADLINE_EXCEEDED"
  PROVE  \E m, d : /\ HandleFault([table |-> k, cpu |-> c], i, type)
                        = [table |-> m, cpu |-> d]
                   /\ Handled(k, m, i) /\ d \in Process \cup {NoProcess}
<1> DEFINE action == k.hm[PartitionOf[i]][type]
           h == [table |-> k, cpu |-> c]
<1>1. CASE action = "IGNORE"
  <2>1. HandleFault(h, i, type) = [table |-> k, cpu |-> c]
    BY <1>1 DEF HandleFault
  <2>2. TimedType(k) /\ Watched(k, i)
    BY <1>1 DEF Watched, OkBut, TimedBase
  <2>3. TimedOk(k)
    BY <2>2 DEF OkBut, TimedOk
  <2>4. Around(k, k)
    <3>1. k.nextDue \in Nat
      BY <2>2, TickType DEF TimedType
    <3> QED BY <2>2, <3>1 DEF Around
  <2>5. \A j \in Process : Alike(k, k, j)
    BY DEF Alike
  <2>6. Handled(k, k, i)
    BY <2>3, <2>4, <2>5 DEF Anew, Handled
  <2> QED BY <2>1, <2>6
<1>2. CASE action = "HALT_PARTITION"
  <2>1. HandleFault(h, i, type)
          = [table |-> HaltPartition(k, PartitionOf[i]),
             cpu   |-> IF c # NoProcess /\ PartitionOf[c] = PartitionOf[i]
                       THEN NoProcess ELSE c]
    BY <1>2 DEF HandleFault, Halted
  <2> QED BY <2>1, HaltHandles
<1>3. CASE action # "IGNORE" /\ action # "HALT_PARTITION"
  <2>1. HandleFault(h, i, type) = Restarted(h, Restart(k, i), i)
    BY <1>3 DEF HandleFault
  <2>2. CASE i # c
    <3>1. HandleFault(h, i, type) = [table |-> Restart(k, i), cpu |-> c]
      BY <2>1, <2>2 DEF Restarted
    <3> QED BY <3>1, RestartHandles
  <2>3. CASE i = c
    <3>1. HandleFault(h, i, type)
            = [table |-> PartitionYield(Restart(k, i), PartitionOf[i]),
               cpu   |-> NoProcess]
      BY <2>1, <2>3 DEF Restarted
    <3> QED BY <3>1, RestartHandles
  <2> QED BY <2>2, <2>3
<1> QED BY <1>1, <1>2, <1>3

\* m is k with the misses of the processes below n handled.
TakenUpTo(k, m, n) ==
  /\ TimedOk(m) /\ m.now = k.now /\ m.hm = k.hm
  /\ m.pending = {j \in k.pending : j >= n}
  /\ \A j \in Process :
       IF j < n /\ j \in k.pending THEN Anew(k, m, j)
       ELSE Alike(k, m, j) /\ m.result[j] = k.result[j]

\* The miss of one process.
LEMMA MissIsTaken ==
  ASSUME NEW k, NEW l, NEW c \in Process \cup {NoProcess}, NEW i \in Process,
         k.pending \in SUBSET Process, TakenUpTo(k, l, i)
  PROVE  \E m, d : /\ TakeMiss([table |-> l, cpu |-> c], k.pending, i)
                        = [table |-> m, cpu |-> d]
                   /\ TakenUpTo(k, m, i + 1) /\ d \in Process \cup {NoProcess}
<1>0. \A j \in Process : /\ j >= i + 1 <=> j >= i /\ j # i
                         /\ j < i + 1 <=> j < i \/ j = i
                         /\ ~(i < i) /\ i >= i
  BY TickType
<1>1. CASE i \notin k.pending
  <2>1. TakeMiss([table |-> l, cpu |-> c], k.pending, i) = [table |-> l, cpu |-> c]
    BY <1>1 DEF TakeMiss
  <2>2. {j \in k.pending : j >= i + 1} = {j \in k.pending : j >= i}
    BY <1>0, <1>1
  <2>3. TakenUpTo(k, l, i + 1)
    BY <1>0, <1>1, <2>2 DEF TakenUpTo
  <2> QED BY <2>1, <2>3
<1>2. CASE i \in k.pending
  <2> DEFINE n == [l EXCEPT !.pending = @ \ {i}]
  <2>1. TakeMiss([table |-> l, cpu |-> c], k.pending, i)
          = HandleFault([table |-> n, cpu |-> c], i, "DEADLINE_EXCEEDED")
    BY <1>2 DEF TakeMiss
  <2>2. /\ TimedType(l) /\ Sound(l) /\ l = [x \in DOMAIN l |-> l[x]]
        /\ TimedFields \cup TableFields \cup WaitFieldNames \subseteq DOMAIN l
    BY DEF TakenUpTo, TimedOk, TimedBase, TimedType, Sound, IpcType, Extends
  <2>3. SameBut(l, n, {"pending"}) /\ n.pending = l.pending \ {i}
    BY <2>2 DEF SameBut, TimedFields
  <2> HIDE DEF n
  <2>4. Sound(n)
    BY <2>2, <2>3, ServiceStep DEF TableFields, WaitFieldNames
  <2>5. /\ n.now = l.now /\ n.hm = l.hm /\ n.nextDue = l.nextDue
        /\ n.count = l.count /\ n.waiters = l.waiters /\ n.result = l.result
        /\ n.state = l.state /\ n.waitlist = l.waitlist /\ n.wake = l.wake
        /\ n.periodic = l.periodic /\ n.timed = l.timed /\ n.halted = l.halted
        /\ n.release = l.release /\ n.deadline = l.deadline
    BY <2>2, <2>3 DEF SameBut, TimedFields, TableFields, WaitFieldNames
  <2>6. TimedType(n)
    BY <2>2, <2>3, <2>4, <2>5 DEF TimedType, SameBut
  <2>7. Around(l, n) /\ \A j \in Process : Alike(l, n, j)
    BY <2>2, <2>5, <2>6, TickType DEF Around, Alike, TimedType
  <2>8. \A j \in Process : /\ ProcessOk(n, j)
                           /\ NoWrap /\ j # i => Watched(n, j)
    BY <2>2, <2>3, <2>7, AlikeOk DEF TakenUpTo, TimedOk
  <2>9. OkBut(n, i)
    BY <2>5, <2>6, <2>8 DEF OkBut, TimedBase, TakenUpTo, TimedOk, UnitsOk
  <2>10. PICK m, d :
           /\ HandleFault([table |-> n, cpu |-> c], i, "DEADLINE_EXCEEDED")
                = [table |-> m, cpu |-> d]
           /\ Handled(n, m, i) /\ d \in Process \cup {NoProcess}
    BY <2>9, FaultIsHandled
  <2>11. m.pending = {j \in k.pending : j >= i + 1}
    <3>1. m.pending = {j \in k.pending : j >= i} \ {i}
      BY <2>3, <2>10 DEF Handled, TakenUpTo
    <3> QED BY <1>0, <3>1
  <2>12. ASSUME NEW j \in Process
         PROVE  IF j < i + 1 /\ j \in k.pending
                THEN Anew(k, m, j)
                ELSE Alike(k, m, j) /\ m.result[j] = k.result[j]
    <3>1. CASE j = i
      <4>1. l.release[i] = k.release[i] /\ l.now = k.now
        BY <1>0 DEF TakenUpTo, Alike
      <4> QED BY <1>0, <1>2, <2>5, <2>10, <3>1, <4>1 DEF Anew, Handled
    <3>2. CASE j # i
      <4>1. Alike(n, m, j) /\ m.result[j] = n.result[j]
        BY <2>10, <3>2 DEF Handled
      <4>2. Alike(l, m, j) /\ m.result[j] = l.result[j]
        BY <2>5, <4>1 DEF Alike
      <4> QED BY <1>0, <3>2, <4>2 DEF Anew, TakenUpTo, Alike
    <3> QED BY <3>1, <3>2
  <2>13. TakenUpTo(k, m, i + 1)
    BY <2>5, <2>10, <2>11, <2>12 DEF TakenUpTo, Handled, Around
  <2> QED BY <2>1, <2>10, <2>13
<1> QED BY <1>1, <1>2

\* The states of the handler of pending misses, one for each process.
LEMMA TakeUnfolds ==
  ASSUME NEW k, NEW c
  PROVE  \E f : /\ TakeMisses(k, c) = f[NumProcesses]
                /\ f[0] = [table |-> k, cpu |-> c]
                /\ \A n \in Process : f[n + 1] = TakeMiss(f[n], k.pending, n)
<1> DEFINE G(N, f) == f = [n \in 0 .. N |->
                             IF n = 0 THEN [table |-> k, cpu |-> c]
                             ELSE TakeMiss(f[n - 1], k.pending, n - 1)]
           S == {N \in 0 .. NumProcesses : \E f : G(N, f)}
<1>0. NumProcesses \in Nat
  BY ConfigAssumption
<1>1. 0 \in S
  <2>1. G(0, [n \in 0 .. 0 |-> [table |-> k, cpu |-> c]])
    OBVIOUS
  <2> HIDE DEF G
  <2> QED BY <1>0, <2>1
<1>2. ASSUME NEW n \in 0 .. NumProcesses, n \in S, n < NumProcesses
      PROVE  n + 1 \in S
  <2>1. PICK f : G(n, f)
    BY <1>2
  <2> DEFINE g == [m \in 0 .. n + 1 |->
                     IF m = n + 1 THEN TakeMiss(f[n], k.pending, n) ELSE f[m]]
  <2>2. G(n + 1, g)
    <3> SUFFICES ASSUME NEW m \in 0 .. n + 1
                 PROVE  g[m] = IF m = 0 THEN [table |-> k, cpu |-> c]
                               ELSE TakeMiss(g[m - 1], k.pending, m - 1)
      OBVIOUS
    <3>1. CASE m = n + 1
      BY <3>1
    <3>2. CASE m # n + 1
      <4>1. m \in 0 .. n
            /\ f[m] = IF m = 0 THEN [table |-> k, cpu |-> c]
                      ELSE TakeMiss(f[m - 1], k.pending, m - 1)
        BY <2>1, <3>2
      <4> QED BY <4>1
    <3> QED BY <3>1, <3>2
  <2> HIDE DEF g, G
  <2> QED BY <2>2, <1>2, <1>0
<1>3. 0 .. NumProcesses \subseteq S
  <2> HIDE DEF S
  <2> QED BY <1>0, <1>1, <1>2, UpToInduction
<1> DEFINE h == CHOOSE f : G(NumProcesses, f)
<1>4. TakeMisses(k, c) = h[NumProcesses]
  BY DEF TakeMisses
<1>5. G(NumProcesses, h)
  <2> HIDE DEF G
  <2> QED BY <1>0, <1>3
<1> HIDE DEF h
<1>6. h[0] = [table |-> k, cpu |-> c]
      /\ \A n \in Process : h[n + 1] = TakeMiss(h[n], k.pending, n)
  BY <1>0, <1>5 DEF Process
<1> QED BY <1>4, <1>6

\* All of them: whatever is done about the misses, the system is left as it has
\* to be, and what has not missed is left alone.
LEMMA MissesAreTaken ==
  ASSUME NEW k, TimedOk(k), NEW c \in Process \cup {NoProcess}
  PROVE  \E m, d : /\ TakeMisses(k, c) = [table |-> m, cpu |-> d]
                   /\ TakenUpTo(k, m, NumProcesses)
                   /\ d \in Process \cup {NoProcess}
<1>1. PICK f : /\ TakeMisses(k, c) = f[NumProcesses]
               /\ f[0] = [table |-> k, cpu |-> c]
               /\ \A n \in Process : f[n + 1] = TakeMiss(f[n], k.pending, n)
  BY TakeUnfolds
<1>2. NumProcesses \in Nat /\ k.pending \in SUBSET Process
  BY ConfigAssumption DEF TimedOk, TimedBase, TimedType
<1> DEFINE R(n) == \E m, d : /\ f[n] = [table |-> m, cpu |-> d]
                             /\ TakenUpTo(k, m, n)
                             /\ d \in Process \cup {NoProcess}
           S == {n \in 0 .. NumProcesses : R(n)}
<1>3. 0 \in S
  <2>1. k.pending = {j \in k.pending : j >= 0}
    <3>1. \A j \in k.pending : j \in Nat
      BY <1>2, TickType
    <3> QED BY <3>1
  <2>2. \A j \in Process : ~(j < 0) /\ Alike(k, k, j)
    BY TickType DEF Alike
  <2>3. TakenUpTo(k, k, 0)
    BY <2>1, <2>2 DEF TakenUpTo
  <2> QED BY <1>1, <1>2, <2>3
<1>4. ASSUME NEW n \in 0 .. NumProcesses, n \in S, n < NumProcesses
      PROVE  n + 1 \in S
  <2>1. n \in Process /\ n + 1 \in 0 .. NumProcesses
    BY <1>2, <1>4 DEF Process
  <2>2. PICK l, e : /\ f[n] = [table |-> l, cpu |-> e]
                    /\ TakenUpTo(k, l, n) /\ e \in Process \cup {NoProcess}
    BY <1>4
  <2>3. f[n + 1] = TakeMiss([table |-> l, cpu |-> e], k.pending, n)
    BY <1>1, <2>1, <2>2
  <2>4. R(n + 1)
    BY <1>2, <2>1, <2>2, <2>3, MissIsTaken
  <2> HIDE DEF R
  <2> QED BY <2>1, <2>4
<1>5. 0 .. NumProcesses \subseteq S
  <2> HIDE DEF S
  <2> QED BY <1>2, <1>3, <1>4, UpToInduction
<1>6. R(NumProcesses)
  <2> HIDE DEF R
  <2> QED BY <1>2, <1>5
<1> QED BY <1>1, <1>6

-----------------------------------------------------------------------------
(* The end of delays and the beginning of releases.                        *)

\* The invariant while a tick is being counted: the wake ticks that have come
\* are still armed.
OkCore(k) ==
  /\ TimedBase(k)
  /\ \A i \in Process : /\ WaitOk(k, i) /\ ReleaseOk(k, i)
                        /\ NoWrap => Watched(k, i)

EndFields == {"state", "ready", "result", "wake", "periodic", "timed"}

Ended(k, m, i) ==
  /\ TimedType(m) /\ SameBut(k, m, EndFields)
  /\ m.state = [k.state EXCEPT ![i] = "READY"]
  /\ m.result = [k.result EXCEPT ![i] = "OK"]
  /\ m.wake = [k.wake EXCEPT ![i] = NoTick]
  /\ m.periodic = [k.periodic EXCEPT ![i] = FALSE]
  /\ m.timed = [k.timed EXCEPT ![i] = FALSE]

LEMMA EndWaitEnds ==
  ASSUME NEW k, TimedType(k), NEW i \in Process,
         k.state[i] = "BLOCKED", k.waitlist[i] = NoList
  PROVE  Ended(k, EndWait(k, i), i)
<1> DEFINE s == [k EXCEPT !.wake[i] = NoTick]
           l == [k EXCEPT !.wake[i] = NoTick, !.periodic[i] = FALSE, !.timed[i] = FALSE]
           m == EndWait(k, i)
<1>1. /\ Sound(k) /\ k = [x \in DOMAIN k |-> k[x]]
      /\ TimedFields \cup TableFields \cup WaitFieldNames \subseteq DOMAIN k
      /\ OnProcesses(k.op) /\ OnProcesses(k.result) /\ OnProcesses(k.wake)
      /\ k.wake \in [Process -> Tick] /\ k.result \in [Process -> Result]
      /\ k.periodic \in [Process -> BOOLEAN] /\ k.timed \in [Process -> BOOLEAN]
  BY DEF TimedType, Sound, IpcType, Extends
<1>2. m = Resolve(l, i, "OK")
  BY DEF EndWait
<1>3. /\ SameBut(k, s, {"wake"}) /\ s.wake = [k.wake EXCEPT ![i] = NoTick]
      /\ SameBut(s, l, {"periodic", "timed"}) /\ l.wake = [k.wake EXCEPT ![i] = NoTick]
  BY <1>1 DEF SameBut, WaitFieldNames
<1>4. /\ l.periodic = [k.periodic EXCEPT ![i] = FALSE]
      /\ l.timed = [k.timed EXCEPT ![i] = FALSE]
  BY <1>1 DEF TimedFields
<1> HIDE DEF s, l, m
<1>5. Sound(s)
  <2>1. /\ SameBut(k, s, {"result", "op", "wake"})
        /\ s.op = k.op /\ s.result = k.result /\ OnProcesses(s.wake)
    BY <1>1, <1>3 DEF SameBut, WaitFieldNames, OnProcesses
  <2> QED BY <1>1, <2>1, AnnotateSound
<1>6. Sound(l)
  BY <1>3, <1>5, ServiceStep DEF TableFields, WaitFieldNames
<1>7. SameBut(k, l, {"wake", "periodic", "timed"})
  BY <1>3 DEF SameBut
<1>8. l.state = k.state /\ l.waitlist = k.waitlist /\ l.result = k.result
  BY <1>1, <1>7 DEF SameBut, TableFields, WaitFieldNames
<1>9. Resolved(l, m, i, "OK")
  BY <1>2, <1>6, <1>8, ResolveSound
<1>10. SameBut(k, m, EndFields)
  BY <1>7, <1>9 DEF SameBut, Resolved, MadeReady, EndFields
<1>11. /\ m.state = [k.state EXCEPT ![i] = "READY"]
       /\ m.result = [k.result EXCEPT ![i] = "OK"]
  BY <1>8, <1>9 DEF Resolved, MadeReady
<1>12. m.wake = l.wake /\ m.periodic = l.periodic /\ m.timed = l.timed
  BY <1>1, <1>7, <1>9 DEF SameBut, Resolved, MadeReady, TimedFields, WaitFieldNames
<1>13. /\ m.wake \in [Process -> Tick] /\ m.result \in [Process -> Result]
       /\ m.periodic \in [Process -> BOOLEAN] /\ m.timed \in [Process -> BOOLEAN]
  <2>1. NoTick \in Tick /\ "OK" \in Result
    BY TickType DEF Result
  <2> QED BY <1>1, <1>3, <1>4, <1>11, <1>12, <2>1
<1>14. /\ m.now = k.now /\ m.nextDue = k.nextDue /\ m.pending = k.pending
       /\ m.release = k.release /\ m.deadline = k.deadline
       /\ m.count = k.count /\ m.hm = k.hm
  BY <1>1, <1>10 DEF SameBut, EndFields, TimedFields
<1>15. TimedType(m)
  BY <1>1, <1>9, <1>10, <1>13, <1>14 DEF TimedType, Resolved, MadeReady, SameBut
<1> QED BY <1>3, <1>4, <1>10, <1>11, <1>12, <1>15 DEF Ended, m

\* The waits for a tick that end when it has come.
Ends(k, i) ==
  k.state[i] = "BLOCKED" /\ k.now >= k.wake[i] /\ (k.periodic[i] \/ k.timed[i])

ReleaseFields == EndFields \cup {"release", "deadline", "nextDue"}

\* Process i has been released, or its delay has ended.
LetGo(k, m, i) ==
  /\ m.state[i] = "READY" /\ m.waitlist[i] = NoList /\ m.wake[i] = NoTick
  /\ m.result[i] = "OK" /\ ~m.periodic[i] /\ ~m.timed[i]
  /\ m.release[i] = IF k.periodic[i] THEN k.wake[i] ELSE k.release[i]
  /\ m.deadline[i] = IF k.periodic[i] THEN DeadlineOf(i, k.wake[i]) ELSE k.deadline[i]

\* Process j has not been touched.
Same(k, m, j) ==
  Alike(k, m, j) /\ m.state[j] = k.state[j] /\ m.result[j] = k.result[j]

LEMMA ReleaseOneEnds ==
  ASSUME NEW k, TimedType(k), NEW i \in Process, WaitOk(k, i), Ends(k, i)
  PROVE  LET m == ReleaseOne(k, i) IN
         /\ TimedType(m) /\ SameBut(k, m, ReleaseFields) /\ m.nextDue <= k.nextDue
         /\ LetGo(k, m, i) /\ \A j \in Process \ {i} : Same(k, m, j)
<1> DEFINE m == ReleaseOne(k, i)
<1>1. /\ Sound(k) /\ k = [x \in DOMAIN k |-> k[x]]
      /\ TimedFields \cup TableFields \cup WaitFieldNames \subseteq DOMAIN k
      /\ k.state[i] = "BLOCKED" /\ k.waitlist[i] = NoList
      /\ k.nextDue \in Nat /\ k.now \in Nat /\ k.wake[i] \in Nat /\ k.wake[i] \in Tick
  BY TickType DEF TimedType, Sound, IpcType, Extends, WaitOk, Ends
<1>2. ~(k.now < k.wake[i])
  BY <1>1 DEF Ends
<1>3. /\ k.state \in [Process -> ProcessState]
      /\ k.wake \in [Process -> Tick] /\ k.result \in [Process -> Result]
      /\ k.periodic \in [Process -> BOOLEAN] /\ k.timed \in [Process -> BOOLEAN]
      /\ k.release \in [Process -> Tick] /\ k.deadline \in [Process -> Tick]
  BY <1>1, SoundTypes DEF TimedType
<1>4. CASE ~k.periodic[i]
  <2>1. m = EndWait(k, i)
    BY <1>1, <1>2, <1>4 DEF ReleaseOne, Ends
  <2> HIDE DEF m
  <2>2. Ended(k, m, i)
    BY <1>1, <2>1, EndWaitEnds
  <2>3. SameBut(k, m, ReleaseFields)
    BY <2>2 DEF Ended, SameBut, ReleaseFields
  <2>4. /\ m.nextDue = k.nextDue /\ m.waitlist = k.waitlist
        /\ m.release = k.release /\ m.deadline = k.deadline
    BY <1>1, <2>2 DEF Ended, SameBut, EndFields, TimedFields, WaitFieldNames
  <2>5. LetGo(k, m, i)
    <3>1. m.state[i] = "READY" /\ m.wake[i] = NoTick /\ m.result[i] = "OK"
      BY <1>3, <2>2 DEF Ended
    <3>2. ~m.periodic[i] /\ ~m.timed[i]
      BY <1>3, <2>2 DEF Ended
    <3> QED BY <1>1, <1>4, <2>4, <3>1, <3>2 DEF LetGo
  <2>6. ASSUME NEW j \in Process, j # i PROVE Same(k, m, j)
    <3>1. /\ m.state[j] = k.state[j] /\ m.wake[j] = k.wake[j]
          /\ m.result[j] = k.result[j]
      BY <1>3, <2>2, <2>6 DEF Ended
    <3>2. m.periodic[j] = k.periodic[j]
      BY <1>3, <2>2, <2>6 DEF Ended
    <3>3. m.timed[j] = k.timed[j]
      BY <1>3, <2>2, <2>6 DEF Ended
    <3> QED BY <2>4, <3>1, <3>2, <3>3 DEF Same, Alike
  <2> QED BY <1>1, <2>2, <2>3, <2>4, <2>5, <2>6 DEF Ended, m
<1>5. CASE k.periodic[i]
  <2> DEFINE b == BeginRelease(k, i)
             l == ArmDeadline(b, i)
  <2>1. m = EndWait(l, i)
    BY <1>1, <1>2, <1>5 DEF ReleaseOne
  <2>2. SameBut(k, b, {"release"}) /\ b.release = [k.release EXCEPT ![i] = k.wake[i]]
    BY <1>1 DEF BeginRelease, SameBut, TimedFields
  <2> HIDE DEF b, m
  <2>3. TimedType(b) /\ b.release[i] = k.wake[i]
    <3>1. Sound(b)
      BY <1>1, <2>2, ServiceStep DEF TableFields, WaitFieldNames
    <3>2. b.release \in [Process -> Tick] /\ b.release[i] = k.wake[i]
      BY <1>1, <1>3, <2>2
    <3> QED BY <1>1, <2>2, <3>1, <3>2 DEF TimedType, SameBut, TimedFields, WaitFieldNames
  <2>4. DeadlineArmed(b, l, i)
    BY <2>3, ArmDeadlineArms
  <2> HIDE DEF l
  <2>5. SameBut(k, l, {"release", "deadline", "nextDue"})
    BY <2>2, <2>4 DEF DeadlineArmed, SameBut
  <2>6. /\ l.state = k.state /\ l.waitlist = k.waitlist /\ l.wake = k.wake
        /\ l.result = k.result /\ l.periodic = k.periodic /\ l.timed = k.timed
    BY <1>1, <2>5 DEF SameBut, TableFields, WaitFieldNames, TimedFields
  <2>7. /\ l.release = b.release /\ b.deadline = k.deadline /\ b.nextDue = k.nextDue
    BY <1>1, <2>2, <2>4 DEF DeadlineArmed, SameBut, TimedFields
  <2>8. /\ l.deadline = [k.deadline EXCEPT ![i] = DeadlineOf(i, k.wake[i])]
        /\ l.nextDue <= k.nextDue
    BY <2>3, <2>4, <2>7 DEF DeadlineArmed
  <2>9. Ended(l, m, i)
    BY <1>1, <2>1, <2>4, <2>6, EndWaitEnds DEF DeadlineArmed
  <2>10. SameBut(k, m, ReleaseFields)
    BY <2>5, <2>9 DEF Ended, SameBut, ReleaseFields
  <2>11. /\ m.nextDue = l.nextDue /\ m.waitlist = k.waitlist
         /\ m.release = l.release /\ m.deadline = l.deadline
    BY <1>1, <2>5, <2>6, <2>9 DEF Ended, SameBut, EndFields, TimedFields, WaitFieldNames
  <2>12. LetGo(k, m, i)
    <3>1. m.state[i] = "READY" /\ m.wake[i] = NoTick /\ m.result[i] = "OK"
      BY <1>3, <2>6, <2>9 DEF Ended
    <3>2. ~m.periodic[i] /\ ~m.timed[i]
      BY <1>3, <2>6, <2>9 DEF Ended
    <3>3. m.deadline[i] = DeadlineOf(i, k.wake[i]) /\ m.release[i] = k.wake[i]
      BY <1>3, <2>3, <2>7, <2>8, <2>11
    <3> QED BY <1>1, <1>5, <2>11, <3>1, <3>2, <3>3 DEF LetGo
  <2>13. ASSUME NEW j \in Process, j # i PROVE Same(k, m, j)
    <3>1. /\ m.state[j] = k.state[j] /\ m.wake[j] = k.wake[j]
          /\ m.result[j] = k.result[j]
      BY <1>3, <2>6, <2>9, <2>13 DEF Ended
    <3>2. m.periodic[j] = k.periodic[j]
      BY <1>3, <2>6, <2>9, <2>13 DEF Ended
    <3>3. m.timed[j] = k.timed[j]
      BY <1>3, <2>6, <2>9, <2>13 DEF Ended
    <3>4. m.release[j] = k.release[j] /\ m.deadline[j] = k.deadline[j]
      BY <1>3, <2>2, <2>7, <2>8, <2>11, <2>13
    <3> QED BY <2>11, <3>1, <3>2, <3>3, <3>4 DEF Same, Alike
  <2> QED BY <2>8, <2>9, <2>10, <2>11, <2>12, <2>13 DEF Ended, m
<1> QED BY <1>4, <1>5

LEMMA ReleaseUnfolds ==
  ASSUME NEW k
  PROVE  \E f : /\ ReleasePeriodic(k) = f[NumProcesses]
                /\ f[0] = k
                /\ \A n \in Process : f[n + 1] = ReleaseOne(f[n], n)
<1> DEFINE G(N, f) == f = [n \in 0 .. N |->
                             IF n = 0 THEN k ELSE ReleaseOne(f[n - 1], n - 1)]
           S == {N \in 0 .. NumProcesses : \E f : G(N, f)}
<1>0. NumProcesses \in Nat
  BY ConfigAssumption
<1>1. 0 \in S
  <2>1. G(0, [n \in 0 .. 0 |-> k])
    OBVIOUS
  <2> HIDE DEF G
  <2> QED BY <1>0, <2>1
<1>2. ASSUME NEW n \in 0 .. NumProcesses, n \in S, n < NumProcesses
      PROVE  n + 1 \in S
  <2>1. PICK f : G(n, f)
    BY <1>2
  <2> DEFINE g == [m \in 0 .. n + 1 |->
                     IF m = n + 1 THEN ReleaseOne(f[n], n) ELSE f[m]]
  <2>2. G(n + 1, g)
    <3> SUFFICES ASSUME NEW m \in 0 .. n + 1
                 PROVE  g[m] = IF m = 0 THEN k ELSE ReleaseOne(g[m - 1], m - 1)
      OBVIOUS
    <3>1. CASE m = n + 1
      BY <3>1
    <3>2. CASE m # n + 1
      <4>1. m \in 0 .. n
            /\ f[m] = IF m = 0 THEN k ELSE ReleaseOne(f[m - 1], m - 1)
        BY <2>1, <3>2
      <4> QED BY <4>1
    <3> QED BY <3>1, <3>2
  <2> HIDE DEF g, G
  <2> QED BY <2>2, <1>2, <1>0
<1>3. 0 .. NumProcesses \subseteq S
  <2> HIDE DEF S
  <2> QED BY <1>0, <1>1, <1>2, UpToInduction
<1> DEFINE h == CHOOSE f : G(NumProcesses, f)
<1>4. ReleasePeriodic(k) = h[NumProcesses]
  BY DEF ReleasePeriodic
<1>5. G(NumProcesses, h)
  <2> HIDE DEF G
  <2> QED BY <1>0, <1>3
<1> HIDE DEF h
<1>6. h[0] = k /\ \A n \in Process : h[n + 1] = ReleaseOne(h[n], n)
  BY <1>0, <1>5 DEF Process
<1> QED BY <1>4, <1>6

\* m is k with the waits for a tick of the processes below n ended.
ReleasedUpTo(k, m, n) ==
  /\ TimedType(m) /\ SameBut(k, m, ReleaseFields) /\ m.nextDue <= k.nextDue
  /\ \A j \in Process :
       IF j < n /\ Ends(k, j) THEN LetGo(k, m, j) ELSE Same(k, m, j)

LEMMA AllReleased ==
  ASSUME NEW k, TimedType(k), \A i \in Process : WaitOk(k, i)
  PROVE  ReleasedUpTo(k, ReleasePeriodic(k), NumProcesses)
<1>1. PICK f : /\ ReleasePeriodic(k) = f[NumProcesses]
               /\ f[0] = k
               /\ \A n \in Process : f[n + 1] = ReleaseOne(f[n], n)
  BY ReleaseUnfolds
<1>2. NumProcesses \in Nat /\ k.nextDue \in Nat /\ k.now \in Nat
  BY TickType DEF TimedType
<1> DEFINE S == {n \in 0 .. NumProcesses : ReleasedUpTo(k, f[n], n)}
<1>3. 0 \in S
  <2>1. SameBut(k, k, ReleaseFields)
    BY DEF SameBut, TimedType, Sound, IpcType, Extends
  <2>2. \A j \in Process : ~(j < 0) /\ Same(k, k, j)
    <3>1. \A j \in Process : ~(j < 0)
      BY TickType
    <3> QED BY <3>1 DEF Same, Alike
  <2>3. k.nextDue <= k.nextDue
    BY <1>2
  <2> QED BY <1>1, <1>2, <2>1, <2>2, <2>3 DEF ReleasedUpTo
<1>4. ASSUME NEW n \in 0 .. NumProcesses, n \in S, n < NumProcesses
      PROVE  n + 1 \in S
  <2> DEFINE l == f[n]
             m == f[n + 1]
  <2>1. n \in Process /\ m = ReleaseOne(l, n) /\ ReleasedUpTo(k, l, n)
        /\ n + 1 \in 0 .. NumProcesses
    BY <1>1, <1>2, <1>4 DEF Process
  <2> HIDE DEF l, m
  <2>2. Same(k, l, n) /\ TimedType(l) /\ SameBut(k, l, ReleaseFields)
        /\ l.nextDue <= k.nextDue
    BY <1>2, <2>1 DEF ReleasedUpTo
  <2>3. l.now = k.now
    BY <2>2 DEF SameBut, TimedType, TimedFields, ReleaseFields, EndFields
  <2>4. WaitOk(l, n) /\ (Ends(l, n) <=> Ends(k, n))
    BY <2>1, <2>2, <2>3 DEF WaitOk, Same, Alike, Ends
  <2>5. \A j \in Process : j < n + 1 <=> j < n \/ j = n
    BY <2>1, TickType
  <2>6. CASE ~Ends(k, n)
    <3>1. m = l
      <4>1. l.wake[n] \in Nat /\ l.now \in Nat
        BY <2>1, <2>2, TickType DEF TimedType
      <4> QED BY <2>1, <2>4, <2>6, <4>1 DEF ReleaseOne, Ends
    <3>2. ReleasedUpTo(k, m, n + 1)
      BY <2>1, <2>2, <2>5, <2>6, <3>1 DEF ReleasedUpTo
    <3> QED BY <2>1, <3>2 DEF m
  <2>7. CASE Ends(k, n)
    <3>1. /\ TimedType(m) /\ SameBut(l, m, ReleaseFields) /\ m.nextDue <= l.nextDue
          /\ LetGo(l, m, n) /\ \A j \in Process \ {n} : Same(l, m, j)
      BY <2>1, <2>2, <2>4, <2>7, ReleaseOneEnds
    <3>2. SameBut(k, m, ReleaseFields)
      BY <2>2, <3>1 DEF SameBut
    <3>3. m.nextDue <= k.nextDue
      <4>1. m.nextDue \in Nat /\ l.nextDue \in Nat
        BY <2>2, <3>1, TickType DEF TimedType
      <4> QED BY <1>2, <2>2, <3>1, <4>1
    <3>4. LetGo(k, m, n)
      BY <2>2, <3>1 DEF LetGo, Same, Alike
    <3>5. ASSUME NEW j \in Process, j # n
          PROVE  IF j < n /\ Ends(k, j) THEN LetGo(k, m, j) ELSE Same(k, m, j)
      <4>1. Same(l, m, j)
        BY <3>1, <3>5
      <4>2. CASE j < n /\ Ends(k, j)
        <5>1. LetGo(k, l, j)
          BY <2>1, <4>2 DEF ReleasedUpTo
        <5> QED BY <4>1, <4>2, <5>1 DEF LetGo, Same, Alike
      <4>3. CASE ~(j < n /\ Ends(k, j))
        <5>1. Same(k, l, j)
          BY <2>1, <4>3 DEF ReleasedUpTo
        <5> QED BY <4>1, <4>3, <5>1 DEF Same, Alike
      <4> QED BY <4>2, <4>3
    <3>6. ReleasedUpTo(k, m, n + 1)
      BY <2>5, <2>7, <3>1, <3>2, <3>3, <3>4, <3>5 DEF ReleasedUpTo
    <3> QED BY <2>1, <3>6 DEF m
  <2> QED BY <2>6, <2>7
<1>5. 0 .. NumProcesses \subseteq S
  <2> HIDE DEF S
  <2> QED BY <1>2, <1>3, <1>4, UpToInduction
<1>6. ReleasedUpTo(k, f[NumProcesses], NumProcesses)
  BY <1>2, <1>5
<1> QED BY <1>1, <1>6

\* A tick's releases keep the invariant.
LEMMA ReleasedCore ==
  ASSUME NEW k, OkCore(k), NEW m, ReleasedUpTo(k, m, NumProcesses)
  PROVE  /\ OkCore(m) /\ m.now = k.now /\ m.hm = k.hm /\ m.halted = k.halted
         /\ m.pending = k.pending
         /\ \A j \in Process : IF Ends(k, j) THEN LetGo(k, m, j) ELSE Same(k, m, j)
<1>1. /\ TimedType(k) /\ TimedType(m)
      /\ TimedFields \cup TableFields \cup WaitFieldNames \subseteq DOMAIN k
      /\ SameBut(k, m, ReleaseFields) /\ m.nextDue <= k.nextDue
  BY DEF OkCore, TimedBase, TimedType, ReleasedUpTo, Sound, IpcType, Extends
<1>2. /\ m.now = k.now /\ m.hm = k.hm /\ m.pending = k.pending
      /\ m.count = k.count /\ m.halted = k.halted /\ m.waiters = k.waiters
  BY <1>1 DEF SameBut, TimedFields, TableFields, WaitFieldNames, ReleaseFields, EndFields
<1>3. Around(k, m)
  BY <1>1, <1>2 DEF Around
<1>4. \A j \in Process : IF Ends(k, j) THEN LetGo(k, m, j) ELSE Same(k, m, j)
  <2>1. \A j \in Process : j < NumProcesses
    BY TickType DEF Process
  <2> QED BY <2>1 DEF ReleasedUpTo
<1>5. TimedBase(m)
  BY <1>1, <1>2 DEF OkCore, TimedBase, UnitsOk
<1>6. ASSUME NEW j \in Process
      PROVE  WaitOk(m, j) /\ ReleaseOk(m, j) /\ (NoWrap => Watched(m, j))
  <2>1. WaitOk(k, j) /\ ReleaseOk(k, j) /\ (NoWrap => Watched(k, j))
    BY DEF OkCore
  <2>2. CASE ~Ends(k, j)
    BY <1>1, <1>2, <1>3, <1>4, <2>1, <2>2, AlikeOk DEF Same
  <2>3. CASE Ends(k, j)
    <3>1. LetGo(k, m, j)
      BY <1>4, <2>3
    <3>2. WaitOk(m, j)
      BY <3>1 DEF LetGo, WaitOk
    <3>3. CASE ~k.periodic[j]
      BY <1>2, <2>1, <3>1, <3>2, <3>3 DEF LetGo, ReleaseOk, Watched
    <3>4. CASE k.periodic[j]
      <4>1. m.release[j] = k.wake[j] /\ m.deadline[j] = DeadlineOf(j, k.wake[j])
        BY <3>1, <3>4 DEF LetGo
      <4>2. /\ k.now \in Nat /\ k.wake[j] \in Nat /\ MaxTick \in Nat /\ NoTick \in Nat
            /\ k.wake[j] \in Tick /\ Capacity[j] \in Tick /\ Capacity[j] \in Nat
        BY <1>1, TickType DEF TimedType
      <4>3. k.wake[j] <= k.now
        BY <2>3, <4>2 DEF Ends
      <4>4. ReleaseOk(m, j)
        BY <1>2, <4>1, <4>2, <4>3 DEF ReleaseOk, DeadlineOf
      <4>5. ASSUME NoWrap, Capacity[j] > 0 PROVE m.deadline[j] # NoTick
        <5>1. k.now <= MaxTick /\ MaxTick + Capacity[j] < NoTick
          BY <4>5 DEF OkCore, TimedBase, NoWrap
        <5>2. k.wake[j] + Capacity[j] < NoTick /\ k.wake[j] + Capacity[j] <= NoTick
          BY <4>2, <4>3, <5>1
        <5>3. Plus(k.wake[j], Capacity[j]) = k.wake[j] + Capacity[j]
          BY <4>2, <5>2, PlusTicks
        <5> QED BY <4>1, <4>2, <4>5, <5>2, <5>3 DEF DeadlineOf
      <4> QED BY <3>2, <4>4, <4>5 DEF Watched
    <3> QED BY <3>3, <3>4
  <2> QED BY <2>2, <2>3
<1>7. OkCore(m)
  BY <1>5, <1>6 DEF OkCore
<1> QED BY <1>2, <1>4, <1>7

-----------------------------------------------------------------------------
(* A scan.                                                                 *)

\* m is k with the deadlines that have come recorded as misses.
Checked(k, m) ==
  /\ OkCore(m) /\ SameBut(k, m, {"pending", "deadline"})
  /\ m.pending = k.pending \cup Misses(k)
  /\ \A j \in Process :
       /\ m.deadline[j] = IF j \in Misses(k) THEN NoTick ELSE k.deadline[j]
       /\ m.deadline[j] # NoTick => k.now < m.deadline[j] \/ k.halted[PartitionOf[j]]

LEMMA DeadlinesChecked ==
  ASSUME NEW k, OkCore(k)
  PROVE  Checked(k, CheckDeadlines(k))
<1> DEFINE M == Misses(k)
           m == CheckDeadlines(k)
<1>1. /\ Sound(k) /\ k = [x \in DOMAIN k |-> k[x]] /\ TimedType(k)
      /\ TimedFields \cup TableFields \cup WaitFieldNames \subseteq DOMAIN k
      /\ k.pending \in SUBSET Process /\ k.deadline \in [Process -> Tick]
      /\ k.now \in Nat /\ k.nextDue \in Nat /\ NoTick \in Tick
      /\ \A j \in Process : k.deadline[j] \in Nat /\ PartitionOf[j] \in Partition
  BY TickType DEF OkCore, TimedBase, TimedType, Sound, IpcType, Extends
<1>2. M \in SUBSET Process
  BY DEF Misses
<1>3. \A j \in Process :
        j \in M <=> /\ k.deadline[j] # NoTick /\ ~(k.now < k.deadline[j])
                    /\ ~k.halted[PartitionOf[j]]
  BY <1>1 DEF Misses
<1>4. /\ SameBut(k, m, {"pending", "deadline"}) /\ m.pending = k.pending \cup M
      /\ m.deadline = [j \in Process |-> IF j \in M THEN NoTick ELSE k.deadline[j]]
  <2> HIDE DEF M
  <2>1. m = [k EXCEPT !.pending  = @ \cup M,
                      !.deadline = [j \in Process |-> IF j \in M THEN NoTick ELSE @[j]]]
    BY DEF CheckDeadlines, RecordMisses, M
  <2> QED BY <1>1, <2>1 DEF SameBut, TimedFields
<1> HIDE DEF m, M
<1>5. Sound(m)
  BY <1>1, <1>4, ServiceStep DEF TableFields, WaitFieldNames
<1>6. /\ m.now = k.now /\ m.hm = k.hm /\ m.nextDue = k.nextDue
      /\ m.count = k.count /\ m.waiters = k.waiters /\ m.result = k.result
      /\ m.state = k.state /\ m.waitlist = k.waitlist /\ m.wake = k.wake
      /\ m.periodic = k.periodic /\ m.timed = k.timed /\ m.halted = k.halted
      /\ m.release = k.release
  BY <1>1, <1>4 DEF SameBut, TimedFields, TableFields, WaitFieldNames
<1>7. m.pending \in SUBSET Process /\ m.deadline \in [Process -> Tick]
  BY <1>1, <1>2, <1>4
<1>8. TimedType(m)
  <2>1. DOMAIN m = DOMAIN k
    BY <1>4 DEF SameBut
  <2> QED BY <1>1, <1>5, <1>6, <1>7, <2>1 DEF TimedType
<1>9. ASSUME NEW j \in Process
      PROVE  /\ m.deadline[j] = IF j \in M THEN NoTick ELSE k.deadline[j]
             /\ m.deadline[j] # NoTick =>
                  k.now < m.deadline[j] \/ k.halted[PartitionOf[j]]
  BY <1>3, <1>4
<1>10. ASSUME NEW j \in Process
       PROVE  WaitOk(m, j) /\ ReleaseOk(m, j) /\ (NoWrap => Watched(m, j))
  <2>1. WaitOk(k, j) /\ ReleaseOk(k, j) /\ (NoWrap => Watched(k, j))
    BY DEF OkCore
  <2>2. WaitOk(m, j)
    BY <1>6, <2>1 DEF WaitOk
  <2>3. ReleaseOk(m, j)
    BY <1>6, <1>9, <2>1 DEF ReleaseOk
  <2>4. NoWrap => Watched(m, j)
    BY <1>4, <1>6, <1>9, <2>1 DEF Watched
  <2> QED BY <2>2, <2>3, <2>4
<1>11. OkCore(m)
  BY <1>6, <1>8, <1>10 DEF OkCore, TimedBase, UnitsOk
<1> QED BY <1>4, <1>9, <1>11 DEF Checked, m, M

\* The bound becomes the least tick that is armed.
LEMMA DueRefreshed ==
  ASSUME NEW k, OkCore(k)
  PROVE  LET m == RefreshDue(k) IN
         /\ OkCore(m) /\ SameBut(k, m, {"nextDue"})
         /\ \A j \in Process : Bounded(m, j)
<1> DEFINE A == {k.wake[i] : i \in Process} \cup {k.deadline[i] : i \in Process}
           t == CHOOSE t \in Tick : t \in A /\ \A u \in A : t <= u
           m == RefreshDue(k)
<1>1. /\ Sound(k) /\ k = [x \in DOMAIN k |-> k[x]] /\ TimedType(k)
      /\ TimedFields \cup TableFields \cup WaitFieldNames \subseteq DOMAIN k
      /\ k.wake \in [Process -> Tick] /\ k.deadline \in [Process -> Tick]
  BY DEF OkCore, TimedBase, TimedType, Sound, IpcType, Extends
<1>2. A \in SUBSET Tick /\ A # {}
  <2>1. 0 \in Process
    BY ConfigAssumption DEF Process
  <2> QED BY <1>1, <2>1
<1>3. t \in A /\ \A u \in A : t <= u
  <2> HIDE DEF A
  <2> QED BY <1>2, LeastTick
<1>4. SameBut(k, m, {"nextDue"}) /\ m.nextDue = t
  <2>1. m = [k EXCEPT !.nextDue = t]
    BY DEF RefreshDue
  <2> HIDE DEF t, m
  <2> QED BY <1>1, <2>1 DEF SameBut, TimedFields
<1>5. t \in Tick
  BY <1>2, <1>3
<1> HIDE DEF t, m
<1>6. Sound(m)
  BY <1>1, <1>4, ServiceStep DEF TableFields, WaitFieldNames
<1>7. /\ m.now = k.now /\ m.hm = k.hm /\ m.deadline = k.deadline
      /\ m.count = k.count /\ m.waiters = k.waiters /\ m.result = k.result
      /\ m.state = k.state /\ m.waitlist = k.waitlist /\ m.wake = k.wake
      /\ m.periodic = k.periodic /\ m.timed = k.timed /\ m.halted = k.halted
      /\ m.release = k.release /\ m.pending = k.pending /\ DOMAIN m = DOMAIN k
  BY <1>1, <1>4 DEF SameBut, TimedFields, TableFields, WaitFieldNames
<1>8. TimedType(m)
  BY <1>1, <1>4, <1>5, <1>6, <1>7 DEF TimedType
<1>9. OkCore(m)
  BY <1>7, <1>8 DEF OkCore, TimedBase, UnitsOk, WaitOk, ReleaseOk, Watched
<1>10. \A j \in Process : Bounded(m, j)
  BY <1>3, <1>4, <1>7 DEF Bounded
<1> QED BY <1>4, <1>9, <1>10 DEF m

\* A tick's timeouts keep the invariant.
LEMMA ExpiredCore ==
  ASSUME NEW k, OkCore(k)
  PROVE  LET m == ExpireTimeouts(k, Due(k)) IN
         /\ OkCore(m) /\ SameBut(k, m, ExpiryFields)
         /\ \A j \in Process : IF Expires(k, Due(k), j) THEN TimedOut(m, j)
                               ELSE SameProcess(k, m, j)
<1> DEFINE m == ExpireTimeouts(k, Due(k))
<1>1. /\ TimedType(k) /\ Sound(k)
      /\ TimedFields \cup TableFields \cup WaitFieldNames \subseteq DOMAIN k
  BY DEF OkCore, TimedBase, TimedType, Sound, IpcType, Extends
<1>2. ExpiredUpTo(k, m, Due(k), NumProcesses)
  BY <1>1, ExpireTimeoutsSound
<1> HIDE DEF m
<1>3. Sound(m) /\ SameBut(k, m, ExpiryFields)
  BY <1>2 DEF ExpiredUpTo
<1>4. \A j \in Process : IF Expires(k, Due(k), j) THEN TimedOut(m, j)
                         ELSE SameProcess(k, m, j)
  <2>1. \A j \in Process : j < NumProcesses
    BY TickType DEF Process
  <2> QED BY <1>2, <2>1 DEF ExpiredUpTo
<1>5. /\ m.now = k.now /\ m.hm = k.hm /\ m.deadline = k.deadline
      /\ m.count = k.count /\ m.halted = k.halted /\ m.nextDue = k.nextDue
      /\ m.periodic = k.periodic /\ m.timed = k.timed
      /\ m.release = k.release /\ m.pending = k.pending /\ DOMAIN m = DOMAIN k
  BY <1>1, <1>3 DEF SameBut, TimedFields, TableFields, ExpiryFields
<1>6. m.wake \in [Process -> Tick] /\ m.result \in [Process -> Result]
  <2>1. OnProcesses(m.wake) /\ OnProcesses(m.result)
    BY <1>3 DEF Sound, IpcType
  <2>2. \A j \in Process : m.wake[j] \in Tick /\ m.result[j] \in Result
    BY <1>1, <1>4, TickType DEF TimedOut, SameProcess, TimedType, Result
  <2> QED BY <2>1, <2>2 DEF OnProcesses
<1>7. TimedType(m)
  BY <1>1, <1>3, <1>5, <1>6 DEF TimedType
<1>8. UnitsOk(m)
  <2>1. ListsShrink(k, m)
    <3>1. \A j \in Process :
            Waits(m, j) => Waits(k, j) /\ m.waitlist[j] = k.waitlist[j]
      BY <1>4 DEF TimedOut, SameProcess, Waits
    <3> QED BY <1>1, <1>3, <3>1, FewerWaiters
  <2>2. SemaphoreId \subseteq WaitList
    BY SemaphoreAssumption, IpcAssumption DEF SemaphoreId, WaitList
  <2> QED BY <1>5, <2>1, <2>2 DEF OkCore, TimedBase, UnitsOk, ListsShrink
<1>9. ASSUME NEW j \in Process
      PROVE  WaitOk(m, j) /\ ReleaseOk(m, j) /\ (NoWrap => Watched(m, j))
  <2>1. WaitOk(k, j) /\ ReleaseOk(k, j) /\ (NoWrap => Watched(k, j))
    BY DEF OkCore
  <2>2. ReleaseOk(m, j) /\ (NoWrap => Watched(m, j))
    BY <1>5, <2>1 DEF ReleaseOk, Watched
  <2>3. CASE Expires(k, Due(k), j)
    BY <1>4, <1>5, <2>1, <2>2, <2>3 DEF TimedOut, WaitOk, Expires, Waits
  <2>4. CASE ~Expires(k, Due(k), j)
    BY <1>4, <1>5, <2>1, <2>2, <2>4 DEF SameProcess, WaitOk
  <2> QED BY <2>2, <2>3, <2>4
<1>10. OkCore(m)
  BY <1>5, <1>7, <1>8, <1>9 DEF OkCore, TimedBase
<1> QED BY <1>3, <1>4, <1>10 DEF m

\* The release of process j goes on, or the next one has begun.
GoesOn(k, m, j) ==
  \/ m.release[j] = k.release[j]
  \/ m.release[j] = Plus(k.release[j], Period[j]) /\ k.state[j] = "BLOCKED"

\* What a tick's scan may do to process j.
Scanned(k, m, j) ==
  /\ k.state[j] = "BLOCKED" /\ m.state[j] # "BLOCKED" =>
       /\ k.wake[j] <= k.now
       /\ k.wake[j] # NoTick \/ k.periodic[j] \/ k.timed[j]
       /\ m.result[j] = IF k.waitlist[j] = NoList THEN "OK" ELSE "TIMEOUT"
  /\ GoesOn(k, m, j)
  /\ NoWrap /\ j \in m.pending /\ j \notin k.pending =>
       m.release[j] + Capacity[j] <= m.now

\* The whole scan: afterwards all that is armed is to come.
LEMMA ScanOk ==
  ASSUME NEW k, OkCore(k)
  PROVE  LET m == Scan(k) IN
         /\ TimedOk(m) /\ m.now = k.now /\ m.hm = k.hm /\ m.halted = k.halted
         /\ Misses(m) = {} /\ \A j \in Process : Scanned(k, m, j)
<1> DEFINE e == ExpireTimeouts(k, Due(k))
           r == ReleasePeriodic(e)
           c == CheckDeadlines(r)
           m == Scan(k)
<1>1. /\ OkCore(e) /\ SameBut(k, e, ExpiryFields)
      /\ \A j \in Process : IF Expires(k, Due(k), j) THEN TimedOut(e, j)
                            ELSE SameProcess(k, e, j)
  BY ExpiredCore
<1> HIDE DEF e
<1>2. ReleasedUpTo(e, r, NumProcesses)
  BY <1>1, AllReleased DEF OkCore, TimedBase
<1> HIDE DEF r
<1>3. /\ OkCore(r) /\ r.now = e.now /\ r.hm = e.hm /\ r.halted = e.halted
      /\ r.pending = e.pending
      /\ \A j \in Process : IF Ends(e, j) THEN LetGo(e, r, j) ELSE Same(e, r, j)
  BY <1>1, <1>2, ReleasedCore
<1>4. Checked(r, c)
  BY <1>3, DeadlinesChecked
<1> HIDE DEF c
<1>5. m = RefreshDue(c)
  BY DEF Scan, c, r, e
<1>6. OkCore(m) /\ SameBut(c, m, {"nextDue"}) /\ \A j \in Process : Bounded(m, j)
  BY <1>4, <1>5, DueRefreshed DEF Checked
<1> HIDE DEF m
<1>7. /\ TimedType(k) /\ TimedType(e) /\ TimedType(r) /\ TimedType(c) /\ TimedType(m)
  BY <1>1, <1>3, <1>4, <1>6 DEF OkCore, TimedBase, Checked
<1>8. TimedFields \cup TableFields \cup WaitFieldNames
        \subseteq DOMAIN k \cap DOMAIN e \cap DOMAIN r \cap DOMAIN c
  BY <1>7 DEF TimedType, Sound, IpcType, Extends
<1>9. /\ e.now = k.now /\ e.hm = k.hm /\ e.halted = k.halted /\ e.pending = k.pending
      /\ e.periodic = k.periodic /\ e.timed = k.timed /\ e.release = k.release
  BY <1>1, <1>8 DEF SameBut, ExpiryFields, TimedFields, TableFields
<1>10. /\ m.now = r.now /\ m.hm = r.hm /\ m.halted = r.halted /\ m.release = r.release
       /\ m.state = r.state /\ m.waitlist = r.waitlist /\ m.wake = r.wake
       /\ m.periodic = r.periodic /\ m.timed = r.timed /\ m.result = r.result
       /\ m.pending = c.pending /\ m.deadline = c.deadline
  <2>1. /\ c.now = r.now /\ c.hm = r.hm /\ c.halted = r.halted /\ c.release = r.release
        /\ c.state = r.state /\ c.waitlist = r.waitlist /\ c.wake = r.wake
        /\ c.periodic = r.periodic /\ c.timed = r.timed /\ c.result = r.result
    BY <1>4, <1>8 DEF Checked, SameBut, TimedFields, TableFields, WaitFieldNames
  <2>2. /\ c.now = m.now /\ c.hm = m.hm /\ c.halted = m.halted /\ c.release = m.release
        /\ c.state = m.state /\ c.waitlist = m.waitlist /\ c.wake = m.wake
        /\ c.periodic = m.periodic /\ c.timed = m.timed /\ c.result = m.result
        /\ m.pending = c.pending /\ m.deadline = c.deadline
    BY <1>6, <1>8 DEF SameBut, TimedFields, TableFields, WaitFieldNames
  <2> QED BY <2>1, <2>2
<1>11. \A j \in Process :
         /\ k.wake[j] \in Nat /\ e.wake[j] \in Nat /\ r.wake[j] \in Nat /\ k.now \in Nat
         /\ m.deadline[j] \in Nat
  BY <1>7, TickType DEF TimedType
<1>12. ASSUME NEW j \in Process PROVE Ahead(m, j)
  <2> SUFFICES ASSUME r.wake[j] # NoTick \/ r.periodic[j] \/ r.timed[j]
               PROVE  k.now < r.wake[j]
    BY <1>3, <1>9, <1>10 DEF Ahead
  <2>1. ~Ends(e, j) /\ Same(e, r, j)
    BY <1>3 DEF LetGo
  <2>2. e.wake[j] # NoTick \/ e.periodic[j] \/ e.timed[j]
    BY <2>1 DEF Same, Alike
  <2>3. WaitOk(k, j)
    BY DEF OkCore
  <2>4. ~Expires(k, Due(k), j) /\ SameProcess(k, e, j)
    BY <1>1, <1>9, <2>2, <2>3 DEF TimedOut, Expires, Waits, WaitOk
  <2>5. k.state[j] = "BLOCKED" /\ r.wake[j] = k.wake[j] /\ e.wake[j] = k.wake[j]
        /\ e.state[j] = k.state[j]
    BY <1>9, <2>1, <2>2, <2>3, <2>4 DEF WaitOk, SameProcess, Same, Alike
  <2>6. CASE k.waitlist[j] # NoList
    <3>1. k.wake[j] # NoTick
      BY <1>9, <2>2, <2>3, <2>5, <2>6 DEF WaitOk
    <3> QED BY <1>11, <2>4, <2>5, <2>6, <3>1 DEF Expires, Due, Waits
  <2>7. CASE k.waitlist[j] = NoList
    <3>1. k.periodic[j] \/ k.timed[j]
      BY <1>9, <2>2, <2>3, <2>5, <2>7 DEF WaitOk
    <3> QED BY <1>9, <1>11, <2>1, <2>5, <3>1 DEF Ends
  <2> QED BY <2>6, <2>7
<1>13. TimedOk(m)
  BY <1>6, <1>12 DEF TimedOk, OkCore, ProcessOk
<1>14. Misses(m) = {}
  <2> SUFFICES ASSUME NEW j \in Misses(m) PROVE FALSE
    OBVIOUS
  <2>1. /\ j \in Process /\ m.deadline[j] # NoTick /\ m.now >= m.deadline[j]
        /\ ~m.halted[PartitionOf[j]]
    BY DEF Misses
  <2>2. r.now < m.deadline[j] \/ r.halted[PartitionOf[j]]
    BY <1>4, <1>10, <2>1 DEF Checked
  <2> QED BY <1>3, <1>9, <1>10, <1>11, <2>1, <2>2
<1>15. ASSUME NEW j \in Process PROVE Scanned(k, m, j)
  <2>1. WaitOk(k, j) /\ ReleaseOk(r, j)
    BY <1>3 DEF OkCore
  <2>2. ASSUME k.state[j] = "BLOCKED", m.state[j] # "BLOCKED"
        PROVE  /\ k.wake[j] <= k.now
               /\ k.wake[j] # NoTick \/ k.periodic[j] \/ k.timed[j]
               /\ m.result[j] = IF k.waitlist[j] = NoList THEN "OK" ELSE "TIMEOUT"
    <3>1. CASE Expires(k, Due(k), j)
      <4>1. TimedOut(e, j) /\ k.wake[j] <= k.now /\ k.waitlist[j] # NoList
            /\ k.wake[j] # NoTick
        BY <1>1, <1>11, <3>1 DEF Expires, Due, Waits
      <4>2. Same(e, r, j)
        BY <1>3, <4>1 DEF Ends, TimedOut
      <4> QED BY <1>10, <4>1, <4>2 DEF Same, TimedOut
    <3>2. CASE ~Expires(k, Due(k), j)
      <4>1. SameProcess(k, e, j)
        BY <1>1, <3>2
      <4>2. Ends(e, j) /\ LetGo(e, r, j)
        BY <1>3, <1>10, <2>2, <4>1 DEF Same, SameProcess
      <4>3. k.waitlist[j] = NoList /\ k.wake[j] <= k.now
            /\ (k.periodic[j] \/ k.timed[j])
        BY <1>9, <1>11, <2>1, <4>1, <4>2 DEF Ends, WaitOk, SameProcess
      <4> QED BY <1>10, <4>2, <4>3 DEF LetGo
    <3> QED BY <3>1, <3>2
  <2>3. GoesOn(k, m, j)
    <3>1. CASE Ends(e, j) /\ e.periodic[j]
      <4>1. m.release[j] = e.wake[j]
        BY <1>3, <1>10, <3>1 DEF LetGo
      <4>2. SameProcess(k, e, j)
        BY <1>1, <3>1 DEF Ends, TimedOut
      <4> QED BY <1>9, <2>1, <3>1, <4>1, <4>2 DEF GoesOn, Ends, SameProcess, WaitOk
    <3>2. CASE ~(Ends(e, j) /\ e.periodic[j])
      BY <1>3, <1>9, <1>10, <3>2 DEF GoesOn, LetGo, Same, Alike
    <3> QED BY <3>1, <3>2
  <2>4. ASSUME NoWrap, j \in m.pending, j \notin k.pending
        PROVE  m.release[j] + Capacity[j] <= m.now
    <3>1. j \in Misses(r)
      BY <1>3, <1>4, <1>9, <1>10, <2>4 DEF Checked
    <3>2. r.deadline[j] = Plus(r.release[j], Capacity[j]) /\ r.now >= r.deadline[j]
      BY <2>1, <3>1 DEF Misses, ReleaseOk
    <3>3. /\ r.release[j] \in Tick /\ Capacity[j] \in Tick /\ r.now \in Nat
          /\ r.release[j] \in Nat /\ Capacity[j] \in Nat /\ MaxTick \in Nat /\ NoTick \in Nat
      BY <1>7, TickType DEF TimedType
    <3>4. /\ r.release[j] <= r.now /\ r.now <= MaxTick
          /\ MaxTick + Capacity[j] < NoTick
      BY <1>3, <2>1, <2>4 DEF ReleaseOk, OkCore, TimedBase, NoWrap
    <3>5. Plus(r.release[j], Capacity[j]) = r.release[j] + Capacity[j]
      <4>1. r.release[j] + Capacity[j] <= NoTick
        BY <3>3, <3>4
      <4> QED BY <3>3, <4>1, PlusTicks
    <3> QED BY <1>10, <3>2, <3>3, <3>5
  <2> QED BY <2>2, <2>3, <2>4 DEF Scanned
<1> QED BY <1>3, <1>9, <1>10, <1>13, <1>14, <1>15 DEF m

\* What a tick does to process j: its wait ends exactly at its wake tick.
Ticked(k, m, j) ==
  /\ k.state[j] = "BLOCKED" /\ m.state[j] # "BLOCKED" =>
       /\ m.now = k.wake[j]
       /\ m.result[j] = IF k.waitlist[j] = NoList THEN "OK" ELSE "TIMEOUT"
  /\ GoesOn(k, m, j)
  /\ NoWrap /\ j \in m.pending /\ j \notin k.pending =>
       m.release[j] + Capacity[j] <= m.now

\* The clock moves and, if something may be due, what is due is done.
LEMMA AdvanceOk ==
  ASSUME NEW k, TimedOk(k), k.now < MaxTick \/ MaxTick = NoTick
  PROVE  LET m == Advance(k) IN
         /\ TimedOk(m) /\ m.now = Plus(k.now, 1) /\ m.hm = k.hm /\ m.halted = k.halted
         /\ Misses(m) = {} /\ \A j \in Process : Ticked(k, m, j)
<1> DEFINE l == [k EXCEPT !.now = Plus(@, 1)]
           m == Advance(k)
<1>1. /\ Sound(k) /\ k = [x \in DOMAIN k |-> k[x]] /\ TimedType(k)
      /\ TimedFields \cup TableFields \cup WaitFieldNames \subseteq DOMAIN k
      /\ k.now \in Tick
  BY DEF TimedOk, TimedBase, TimedType, Sound, IpcType, Extends
<1>2. m = ScanIfDue(l)
  BY DEF Advance
<1>3. SameBut(k, l, {"now"}) /\ l.now = Plus(k.now, 1)
  BY <1>1 DEF SameBut, TimedFields
<1> HIDE DEF l, m
<1>4. /\ k.now \in Nat /\ l.now \in Nat /\ l.now \in Tick /\ NoTick \in Nat
      /\ MaxTick \in Nat /\ MaxTick <= NoTick
      /\ l.now = IF k.now < NoTick THEN k.now + 1 ELSE 0
  <2>1. 1 \in Tick
    BY TickType DEF Tick
  <2>2. k.now <= NoTick
    BY <1>1, TickType
  <2> QED BY <1>1, <1>3, <2>1, <2>2, TickType, PlusTicks
<1>5. /\ l.hm = k.hm /\ l.deadline = k.deadline /\ l.nextDue = k.nextDue
      /\ l.count = k.count /\ l.waiters = k.waiters /\ l.result = k.result
      /\ l.state = k.state /\ l.waitlist = k.waitlist /\ l.wake = k.wake
      /\ l.periodic = k.periodic /\ l.timed = k.timed /\ l.halted = k.halted
      /\ l.release = k.release /\ l.pending = k.pending /\ DOMAIN l = DOMAIN k
  BY <1>1, <1>3 DEF SameBut, TimedFields, TableFields, WaitFieldNames
<1>6. TimedType(l)
  <2>1. Sound(l)
    BY <1>1, <1>3, ServiceStep DEF TableFields, WaitFieldNames
  <2> QED BY <1>1, <1>4, <1>5, <2>1 DEF TimedType
<1>7. NoWrap => l.now = k.now + 1 /\ l.now <= MaxTick
  <2> SUFFICES ASSUME NoWrap PROVE l.now = k.now + 1 /\ l.now <= MaxTick
    OBVIOUS
  <2>1. 0 \in Process /\ Capacity[0] \in Nat
    <3>1. 0 \in Process
      BY ConfigAssumption DEF Process
    <3> QED BY <3>1, TickType
  <2>2. MaxTick + Capacity[0] < NoTick
    BY <2>1 DEF NoWrap
  <2> QED BY <1>4, <2>1, <2>2
<1>8. OkCore(l)
  <2>1. ASSUME NEW j \in Process
        PROVE  WaitOk(l, j) /\ ReleaseOk(l, j) /\ (NoWrap => Watched(l, j))
    <3>1. WaitOk(k, j) /\ ReleaseOk(k, j) /\ (NoWrap => Watched(k, j))
      BY DEF TimedOk, ProcessOk
    <3>2. k.release[j] \in Nat
      BY <1>1, TickType DEF TimedType
    <3> QED BY <1>4, <1>5, <1>7, <3>1, <3>2 DEF WaitOk, ReleaseOk, Watched
  <2> QED BY <1>5, <1>6, <1>7, <2>1 DEF OkCore, TimedBase, TimedOk, UnitsOk
<1>9. /\ k.nextDue \in Nat
      /\ \A j \in Process :
           k.wake[j] \in Nat /\ k.wake[j] <= NoTick /\ k.deadline[j] \in Nat
  BY <1>1, TickType DEF TimedType
<1>10. CASE l.now < k.nextDue
  <2>1. m = l
    BY <1>2, <1>4, <1>5, <1>9, <1>10 DEF ScanIfDue
  <2>2. ASSUME NEW j \in Process
        PROVE  /\ l.now < k.wake[j] /\ l.now < k.deadline[j]
               /\ Bounded(l, j) /\ Ahead(l, j) /\ Ticked(k, l, j)
    <3>1. k.nextDue <= k.wake[j] /\ k.nextDue <= k.deadline[j]
      BY DEF TimedOk, ProcessOk, Bounded
    <3> QED BY <1>4, <1>5, <1>9, <1>10, <3>1 DEF GoesOn, Bounded, Ahead, Ticked
  <2>3. TimedOk(l)
    BY <1>8, <2>2 DEF TimedOk, OkCore, ProcessOk
  <2>4. Misses(l) = {}
    BY <1>4, <1>5, <1>9, <2>2 DEF Misses
  <2> QED BY <1>3, <1>5, <2>1, <2>2, <2>3, <2>4 DEF m
<1>11. CASE ~(l.now < k.nextDue)
  <2>1. m = Scan(l)
    <3>1. l.now >= l.nextDue
      BY <1>4, <1>5, <1>9, <1>11, <1>1, TickType DEF TimedType
    <3> QED BY <1>2, <3>1 DEF ScanIfDue
  <2>2. /\ TimedOk(m) /\ m.now = l.now /\ m.hm = l.hm /\ m.halted = l.halted
        /\ Misses(m) = {} /\ \A j \in Process : Scanned(l, m, j)
    BY <1>8, <2>1, ScanOk
  <2>3. ASSUME NEW j \in Process PROVE Ticked(k, m, j)
    <3>1. Scanned(l, m, j) /\ WaitOk(k, j) /\ Ahead(k, j)
      BY <2>2 DEF TimedOk, ProcessOk
    <3>2. ASSUME k.state[j] = "BLOCKED", m.state[j] # "BLOCKED"
          PROVE  m.now = k.wake[j]
      <4>1. k.wake[j] <= l.now
        BY <1>5, <3>1, <3>2 DEF Scanned
      <4>2. k.now < k.wake[j]
        <5>1. l.state[j] = "BLOCKED"
          BY <1>5, <3>2
        <5>2. l.wake[j] # NoTick \/ l.periodic[j] \/ l.timed[j]
          BY <3>1, <3>2, <5>1 DEF Scanned
        <5> QED BY <1>5, <3>1, <5>2 DEF Ahead
      <4> QED BY <1>4, <1>9, <2>2, <4>1, <4>2
    <3> QED BY <1>5, <3>1, <3>2 DEF GoesOn, Scanned, Ticked
  <2> QED BY <1>3, <1>5, <2>2, <2>3 DEF m
<1> QED BY <1>10, <1>11

-----------------------------------------------------------------------------
(* The frame schedule: every tick is in the slot of some partition.        *)

LEMMA SlotStartUnfolds ==
  /\ SlotStart[1] = 0
  /\ \A a \in 1 .. Len(Slots) : SlotStart[a + 1] = SlotStart[a] + Slots[a].ticks
<1> DEFINE B(f, a) == IF a = 1 THEN 0 ELSE f[a - 1] + Slots[a - 1].ticks
           G(N, f) == f = [a \in 1 .. N + 1 |-> B(f, a)]
           L == Len(Slots)
           S == {N \in 0 .. L : \E f : G(N, f)}
<1>0. L \in Nat
  BY TimingAssumption
<1>1. 0 \in S
  <2>1. G(0, [a \in 1 .. 1 |-> 0])
    OBVIOUS
  <2> HIDE DEF G
  <2> QED BY <1>0, <2>1
<1>2. ASSUME NEW n \in 0 .. L, n \in S, n < L PROVE n + 1 \in S
  <2>1. PICK f : G(n, f)
    BY <1>2
  <2> DEFINE g == [a \in 1 .. n + 2 |-> IF a = n + 2 THEN B(f, n + 2) ELSE f[a]]
  <2>2. G(n + 1, g)
    <3>1. ASSUME NEW a \in 1 .. n + 2 PROVE g[a] = B(g, a)
      <4>1. CASE a = n + 2
        BY <4>1
      <4>2. CASE a # n + 2
        <5>1. a \in 1 .. n + 1 /\ f[a] = B(f, a)
          BY <2>1, <4>2
        <5>2. a # 1 => a - 1 \in 1 .. n + 2 /\ a - 1 # n + 2
          BY <4>2
        <5> QED BY <4>2, <5>1, <5>2
      <4> QED BY <4>1, <4>2
    <3>2. 1 .. n + 2 = 1 .. (n + 1) + 1
      OBVIOUS
    <3> HIDE DEF B
    <3> QED BY <3>1, <3>2
  <2> HIDE DEF g, G
  <2> QED BY <2>2, <1>2, <1>0
<1>3. 0 .. L \subseteq S
  <2> HIDE DEF S
  <2> QED BY <1>0, <1>1, <1>2, UpToInduction
<1>4. \E f : G(L, f)
  <2> HIDE DEF G
  <2> QED BY <1>0, <1>3
<1>5. SlotStart = CHOOSE f : G(L, f)
  BY DEF SlotStart
<1>6. G(L, SlotStart)
  <2> HIDE DEF G
  <2> QED BY <1>4, <1>5
<1>7. \A a \in 1 .. L + 1 : SlotStart[a] = B(SlotStart, a)
  <2> SUFFICES ASSUME NEW a \in 1 .. L + 1 PROVE SlotStart[a] = B(SlotStart, a)
    OBVIOUS
  <2>1. SlotStart = [b \in 1 .. L + 1 |-> B(SlotStart, b)]
    BY <1>6
  <2> DEFINE h == [b \in 1 .. L + 1 |-> B(SlotStart, b)]
  <2>2. h[a] = B(SlotStart, a)
    OBVIOUS
  <2>3. SlotStart[a] = h[a]
    BY <2>1
  <2> QED BY <2>2, <2>3
<1>8. \A a \in 1 .. Len(Slots) : a + 1 \in 1 .. L + 1 /\ a + 1 # 1 /\ (a + 1) - 1 = a
  BY <1>0
<1>9. SlotStart[1] = 0
  BY <1>0, <1>7
<1>10. \A a \in 1 .. Len(Slots) : SlotStart[a + 1] = B(SlotStart, a + 1)
  <2> HIDE DEF B
  <2> QED BY <1>7, <1>8
<1> QED BY <1>8, <1>9, <1>10

\* Slots follow each other without a gap from tick zero of the frame.
LEMMA SlotStartIncreases ==
  /\ \A a \in 1 .. Len(Slots) + 1 : SlotStart[a] \in Nat
  /\ \A a \in 1 .. Len(Slots) : SlotStart[a] < SlotStart[a + 1]
  /\ SlotStart[Len(Slots) + 1] > 0
<1> DEFINE L == Len(Slots)
           S == {n \in 0 .. L : SlotStart[n + 1] \in Nat}
<1>1. L \in Nat /\ L >= 1
  <2>1. Len(Slots) \in Nat /\ Slots # <<>>
    BY TimingAssumption
  <2> QED BY <2>1, TimingAssumption
<1>2. \A a \in 1 .. L : Slots[a].ticks \in Nat /\ Slots[a].ticks > 0
  BY TimingAssumption, TickType
<1>3. 0 \in S
  BY <1>1, SlotStartUnfolds
<1>4. ASSUME NEW n \in 0 .. L, n \in S, n < L PROVE n + 1 \in S
  <2>1. n + 1 \in 1 .. L /\ n + 1 \in 0 .. L
    BY <1>1, <1>4
  <2>2. SlotStart[(n + 1) + 1] = SlotStart[n + 1] + Slots[n + 1].ticks
    BY <2>1, SlotStartUnfolds
  <2> QED BY <1>2, <1>4, <2>1, <2>2
<1>5. 0 .. L \subseteq S
  <2> HIDE DEF S
  <2> QED BY <1>1, <1>3, <1>4, UpToInduction
<1>6. ASSUME NEW a \in 1 .. L + 1 PROVE SlotStart[a] \in Nat
  <2>1. a - 1 \in 0 .. L /\ (a - 1) + 1 = a
    BY <1>1
  <2>2. a - 1 \in S
    BY <1>5, <2>1
  <2> QED BY <2>1, <2>2
<1>7. ASSUME NEW a \in 1 .. L PROVE SlotStart[a] < SlotStart[a + 1]
  <2>1. SlotStart[a] \in Nat
    BY <1>1, <1>6
  <2> QED BY <1>2, <2>1, SlotStartUnfolds
<1>8. SlotStart[L + 1] > 0
  <2>1. L \in 1 .. L /\ L \in 1 .. L + 1
    BY <1>1
  <2>2. SlotStart[L] \in Nat /\ SlotStart[L] < SlotStart[L + 1] /\ SlotStart[L + 1] \in Nat
    BY <1>1, <1>6, <1>7, <2>1
  <2> QED BY <2>2
<1> QED BY <1>6, <1>7, <1>8

\* The partition of a tick, by the slot its offset in the frame falls in.
LEMMA PartitionOfTick ==
  ASSUME NEW t \in Tick
  PROVE  PartitionAtTick(t) \in Partition
<1> DEFINE L == Len(Slots)
           o == t % SlotStart[L + 1]
           In(a) == SlotStart[a] <= o /\ o < SlotStart[a + 1]
           T == {n \in 0 .. L : o < SlotStart[n + 1]}
<1>1. L \in Nat /\ SlotStart[L + 1] \in Nat /\ SlotStart[L + 1] > 0 /\ SlotStart[1] = 0
  BY TimingAssumption, SlotStartIncreases, SlotStartUnfolds
<1>2. o \in Nat /\ o < SlotStart[L + 1]
  <2>1. t \in Nat
    BY TickType
  <2>2. ASSUME NEW x \in Nat, NEW y \in Nat, y > 0 PROVE x % y \in Nat /\ x % y < y
    BY <2>2
  <2> QED BY <1>1, <2>1, <2>2
<1> HIDE DEF o
<1>3. PICK n \in T : \A y \in T : n <= y
  <2>1. L \in T /\ T \subseteq Nat
    BY <1>1, <1>2
  <2> HIDE DEF T
  <2> QED BY <2>1, BestExists
<1>4. n \in 1 .. L /\ n - 1 \in 0 .. L /\ n - 1 \notin T
  <2>1. n \in 0 .. L /\ o < SlotStart[n + 1]
    OBVIOUS
  <2>2. n # 0
    BY <1>1, <1>2, <2>1
  <2>3. n - 1 \in 0 .. L /\ n \in 1 .. L /\ ~(n <= n - 1)
    BY <1>1, <2>1, <2>2
  <2> HIDE DEF T
  <2> QED BY <1>3, <2>3
<1>5. In(n)
  <2>1. SlotStart[n] \in Nat /\ (n - 1) + 1 = n
    BY <1>1, <1>4, SlotStartIncreases
  <2> QED BY <1>2, <1>3, <1>4, <2>1
<1> DEFINE a == CHOOSE a \in 1 .. L : In(a)
<1>6. a \in 1 .. L
  <2> HIDE DEF In
  <2> QED BY <1>4, <1>5
<1>7. PartitionAtTick(t) = Slots[a].partition
  BY DEF PartitionAtTick, o
<1> HIDE DEF a
<1> QED BY <1>6, <1>7, TimingAssumption

-----------------------------------------------------------------------------
(* Service calls, made by the process that runs.                           *)

\* Process i is the current one of its partition, which is not halted.
Runs(k, i) ==
  /\ TimedOk(k) /\ k.state[i] = "RUNNING"
  /\ k.current[PartitionOf[i]] = i /\ ~k.halted[PartitionOf[i]]

\* What partition p runs after a call: nothing only if nothing is READY.
Occupied(m, p) == m.current[p] = NoProcess => ReadyMask(m, p) = {}

\* m is k after a call of process i.
Called(k, m, i) ==
  /\ TimedOk(m) /\ m.now = k.now /\ m.hm = k.hm
  /\ m.halted = k.halted /\ m.pending = k.pending
  /\ \A j \in Process : m.release[j] \in {k.release[j], Plus(k.release[j], Period[j])}
  /\ Occupied(m, PartitionOf[i])

\* A step that concerns process i alone.
LEMMA OneProcess ==
  ASSUME NEW k, TimedOk(k), NEW m, Around(k, m), UnitsOk(m), m.pending = k.pending,
         NEW i \in Process, \A j \in Process \ {i} : Alike(k, m, j),
         ProcessOk(m, i), NoWrap => Watched(m, i)
  PROVE  TimedOk(m)
<1>1. TimedType(k)
  BY DEF TimedOk, TimedBase
<1>2. ASSUME NEW j \in Process, j # i
      PROVE  ProcessOk(m, j) /\ (NoWrap => Watched(m, j))
  BY <1>1, <1>2, AlikeOk DEF TimedOk
<1>3. TimedBase(m)
  BY DEF TimedOk, TimedBase, Around
<1> QED BY <1>2, <1>3 DEF TimedOk

\* What is known of a record in a state of the system.
LEMMA TimedReads ==
  ASSUME NEW k, TimedType(k)
  PROVE  /\ Sound(k) /\ k = [x \in DOMAIN k |-> k[x]]
         /\ TimedFields \cup TableFields \cup WaitFieldNames \subseteq DOMAIN k
         /\ k.state \in [Process -> ProcessState]
         /\ k.halted \in [Partition -> BOOLEAN]
         /\ k.current \in [Partition -> Process \cup {NoProcess}]
         /\ k.waitlist \in [Process -> WaitList \cup {NoList}]
         /\ k.waiters \in [WaitList -> Seq(Process)]
         /\ OnProcesses(k.op)
         /\ k.now \in Nat /\ k.nextDue \in Nat /\ k.nextDue <= NoTick
  BY TickType, SoundTypes DEF TimedType, Sound, IpcType, Extends

\* The process that runs waits for nothing.
LEMMA RunsWaitsNot ==
  ASSUME NEW k, NEW i \in Process, Runs(k, i)
  PROVE  /\ k.waitlist[i] = NoList /\ k.wake[i] = NoTick
         /\ ~k.periodic[i] /\ ~k.timed[i] /\ TimedType(k) /\ i # NoProcess
<1>1. TimedType(k) /\ WaitOk(k, i) /\ Sound(k)
  BY DEF Runs, TimedOk, TimedBase, TimedType, ProcessOk
<1>2. k.waitlist[i] = NoList
  BY <1>1, OnNoList DEF Runs
<1>3. i # NoProcess
  BY TickType DEF Process, NoProcess
<1> QED BY <1>1, <1>2, <1>3 DEF WaitOk, Runs

LEMMA NoteDueOk ==
  ASSUME NEW k, TimedOk(k), NEW t \in Tick
  PROVE  /\ TimedOk(NoteDue(k, t)) /\ SameBut(k, NoteDue(k, t), {"nextDue"})
         /\ NoteDue(k, t).nextDue <= t
<1> DEFINE m == NoteDue(k, t)
<1>1. Noted(k, m, t) /\ TimedType(k)
  BY NoteDueNotes DEF TimedOk, TimedBase
<1> HIDE DEF m
<1>2. /\ m.now = k.now /\ m.hm = k.hm /\ m.deadline = k.deadline
      /\ m.count = k.count /\ m.waiters = k.waiters
      /\ m.state = k.state /\ m.waitlist = k.waitlist /\ m.wake = k.wake
      /\ m.periodic = k.periodic /\ m.timed = k.timed /\ m.halted = k.halted
      /\ m.release = k.release /\ m.pending = k.pending
  BY <1>1, TimedReads
     DEF Noted, SameBut, TimedFields, TableFields, WaitFieldNames
<1>3. Around(k, m) /\ \A j \in Process : Alike(k, m, j)
  BY <1>1, <1>2 DEF Around, Alike, Noted
<1>4. \A j \in Process : ProcessOk(m, j) /\ (NoWrap => Watched(m, j))
  BY <1>1, <1>2, <1>3, AlikeOk DEF TimedOk
<1>5. TimedOk(m)
  BY <1>1, <1>2, <1>4 DEF TimedOk, TimedBase, UnitsOk, Noted
<1> QED BY <1>1, <1>5 DEF Noted, m

\* Nothing but the saved operation has changed.
LEMMA RefusedIsCalled ==
  ASSUME NEW k, NEW i \in Process, Runs(k, i), NEW m, NotBlocked(k, m, i)
  PROVE  Called(k, m, i)
<1>1. TimedType(k) /\ i # NoProcess
  BY RunsWaitsNot
<1>2. /\ m.result = k.result /\ m.state = k.state /\ m.halted = k.halted
      /\ m.now = k.now /\ m.hm = k.hm /\ m.pending = k.pending
      /\ m.release = k.release /\ m.current = k.current
  BY <1>1, TimedReads
     DEF NotBlocked, SameBut, TimedFields, TableFields, WaitFieldNames
<1>3. SameBut(k, m, QuietFields) /\ SameBlocked(k, m) /\ Sound(m)
  BY <1>2 DEF NotBlocked, SameBut, QuietFields, SameBlocked
<1>4. m.result \in [Process -> Result]
  BY <1>1, <1>2 DEF TimedType
<1>5. TimedOk(k) => TimedOk(m)
  BY <1>1, <1>2, <1>3, <1>4, QuietStep
<1> QED BY <1>1, <1>2, <1>5 DEF Runs, Called, Occupied

\* Waiting for a semaphore.
LEMMA BlockUntilCalled ==
  ASSUME NEW k, NEW i \in Process, Runs(k, i), NEW s \in SemaphoreId, k.count[s] = 0,
         NEW wake \in Tick, wake # NoTick => k.now < wake, NEW op
  PROVE  Called(k, BlockUntil(k, i, s, wake, op), i)
<1> DEFINE l == BlockCurrent(k, i, s, wake, op)
           m == BlockUntil(k, i, s, wake, op)
<1>1. /\ k.waitlist[i] = NoList /\ k.wake[i] = NoTick /\ i # NoProcess
      /\ ~k.periodic[i] /\ ~k.timed[i] /\ TimedType(k) /\ Sound(k) /\ TimedOk(k)
      /\ k.state[i] = "RUNNING" /\ k.current[PartitionOf[i]] = i
  BY RunsWaitsNot DEF TimedType, Runs
<1>2. s \in WaitList
  BY SemaphoreAssumption, IpcAssumption DEF SemaphoreId, WaitList
<1>3. IF BlockCurrentStatus(k, i, s) = "OK" THEN OnList(k, l, i, s, wake, op)
      ELSE NotBlocked(k, l, i)
  BY <1>1, <1>2, BlockCurrentSound
<1>4. m = IF Len(k.waiters[s]) < WaitlistMax THEN NoteDue(l, wake) ELSE l
  BY <1>1 DEF BlockUntil
<1>5. BlockCurrentStatus(k, i, s) = "OK" => Len(k.waiters[s]) < WaitlistMax
  <2>1. k.waiters[s] \in Seq(Process)
    BY <1>1, <1>2, TimedReads
  <2>2. Len(k.waiters[s]) \in Nat /\ WaitlistMax \in Nat
    BY <2>1, IpcAssumption
  <2> QED BY <1>1, <2>2 DEF BlockCurrentStatus
<1> HIDE DEF l, m
<1>6. CASE BlockCurrentStatus(k, i, s) # "OK"
  <2>1. Called(k, l, i)
    BY <1>3, <1>6, RefusedIsCalled
  <2>2. CASE m = l
    BY <2>1, <2>2 DEF m
  <2>3. CASE m = NoteDue(l, wake)
    <3>1. TimedOk(m) /\ SameBut(l, m, {"nextDue"})
      BY <2>1, <2>3, NoteDueOk DEF Called
    <3>2. TimedType(l)
      BY <2>1 DEF Called, TimedOk, TimedBase
    <3>3. /\ m.now = l.now /\ m.hm = l.hm /\ m.halted = l.halted
          /\ m.pending = l.pending /\ m.release = l.release
          /\ m.current = l.current /\ m.ready = l.ready
      BY <3>1, <3>2, TimedReads DEF SameBut, TimedFields, TableFields
    <3> QED BY <2>1, <3>1, <3>3 DEF Called, Occupied, ReadyMask, m
  <2> QED BY <1>4, <2>2, <2>3
<1>7. CASE BlockCurrentStatus(k, i, s) = "OK"
  <2>1. OnList(k, l, i, s, wake, op) /\ m = NoteDue(l, wake)
    BY <1>3, <1>4, <1>5, <1>7
  <2>2. /\ l.now = k.now /\ l.hm = k.hm /\ l.deadline = k.deadline
        /\ l.count = k.count /\ l.result = k.result /\ l.nextDue = k.nextDue
        /\ l.periodic = k.periodic /\ l.timed = k.timed
        /\ l.release = k.release /\ l.pending = k.pending /\ DOMAIN l = DOMAIN k
    BY <1>1, <2>1, TimedReads
       DEF OnList, SameBut, TimedFields, TableFields, WaitFieldNames
  <2>3. TimedType(l)
    <3>1. l.wake \in [Process -> Tick] /\ Sound(l)
      BY <1>1, <2>1 DEF OnList, TimedType
    <3> QED BY <1>1, <2>2, <3>1 DEF TimedType
  <2>4. Noted(l, m, wake)
    BY <2>1, <2>3, NoteDueNotes
  <2>5. /\ m.now = l.now /\ m.hm = l.hm /\ m.deadline = l.deadline
        /\ m.count = l.count /\ m.waiters = l.waiters /\ m.current = l.current
        /\ m.state = l.state /\ m.waitlist = l.waitlist /\ m.wake = l.wake
        /\ m.periodic = l.periodic /\ m.timed = l.timed /\ m.halted = l.halted
        /\ m.release = l.release /\ m.pending = l.pending
    BY <2>3, <2>4, TimedReads
       DEF Noted, SameBut, TimedFields, TableFields, WaitFieldNames
  <2>6. /\ m.halted = k.halted /\ m.current[PartitionOf[i]] \in Process
        /\ m.state[i] = "BLOCKED" /\ m.waitlist[i] = s /\ m.wake[i] = wake
        /\ m.waiters = [k.waiters EXCEPT ![s] = Append(@, i)]
        /\ \A j \in Process \ {i} :
             /\ m.state[j] = "BLOCKED" <=> k.state[j] = "BLOCKED"
             /\ m.waitlist[j] = k.waitlist[j] /\ m.wake[j] = k.wake[j]
    BY <1>1, <2>1, <2>5, TimedReads DEF OnList, GivesWay, TimedType
  <2>7. Around(k, m) /\ \A j \in Process \ {i} : Alike(k, m, j)
    BY <2>2, <2>4, <2>5, <2>6 DEF Around, Alike, Noted
  <2>8. UnitsOk(m)
    <3>1. SemaphoreId \subseteq WaitList
      BY SemaphoreAssumption, IpcAssumption DEF SemaphoreId, WaitList
    <3>2. \A x \in SemaphoreId : x # s => m.waiters[x] = k.waiters[x]
      BY <1>1, <2>6, <3>1, TimedReads
    <3>3. UnitsOk(k)
      BY <1>1 DEF TimedOk, TimedBase
    <3> QED BY <2>2, <2>5, <3>2, <3>3 DEF UnitsOk
  <2>9. ProcessOk(m, i) /\ (NoWrap => Watched(m, i))
    <3>1. ProcessOk(k, i) /\ (NoWrap => Watched(k, i)) /\ s # NoList
      BY <1>1, <1>2, IpcAssumption DEF TimedOk, WaitList, NoList
    <3>2. WaitOk(m, i) /\ Ahead(m, i)
      BY <1>1, <2>2, <2>5, <2>6, <3>1 DEF WaitOk, Ahead
    <3>3. ReleaseOk(m, i) /\ (NoWrap => Watched(m, i))
      BY <2>2, <2>5, <2>6, <3>1 DEF ProcessOk, ReleaseOk, Watched
    <3>4. m.nextDue <= k.deadline[i]
      <4>1. k.deadline[i] \in Nat /\ k.nextDue \in Nat /\ m.nextDue \in Nat
        BY <1>1, <2>4, TickType DEF TimedType, Noted
      <4> QED BY <2>2, <2>4, <3>1, <4>1 DEF Noted, ProcessOk, Bounded
    <3> QED BY <2>2, <2>4, <2>5, <2>6, <3>2, <3>3, <3>4 DEF ProcessOk, Bounded, Noted
  <2>10. TimedOk(m)
    BY <1>1, <2>2, <2>5, <2>7, <2>8, <2>9, OneProcess
  <2>11. NoProcess \notin Process
    BY TickType DEF NoProcess, Process
  <2> QED BY <2>2, <2>5, <2>6, <2>10, <2>11 DEF Called, Occupied, m
<1> QED BY <1>6, <1>7
\* A deadline fits the counter, if the clock stops before one could not.
LEMMA DeadlineFits ==
  ASSUME NoWrap, NEW i \in Process, Capacity[i] > 0, NEW t \in Tick, t <= MaxTick
  PROVE  DeadlineOf(i, t) # NoTick
<1>1. t \in Nat /\ Capacity[i] \in Nat /\ Capacity[i] \in Tick
      /\ MaxTick \in Nat /\ NoTick \in Nat
  BY TickType
<1>2. t + Capacity[i] < NoTick
  <2>1. MaxTick + Capacity[i] < NoTick
    BY DEF NoWrap
  <2> QED BY <1>1, <2>1
<1>3. Plus(t, Capacity[i]) = t + Capacity[i]
  <2>1. t + Capacity[i] <= NoTick
    BY <1>1, <1>2
  <2> QED BY <1>1, <2>1, PlusTicks
<1> QED BY <1>1, <1>2, <1>3 DEF DeadlineOf

\* Only the units of a semaphore have changed.
LEMMA CountIsCalled ==
  ASSUME NEW k, NEW i \in Process, Runs(k, i), NEW s \in SemaphoreId, NEW n \in Nat,
         n <= SemaphoreMax[s], k.waiters[s] # <<>> => n = 0
  PROVE  Called(k, [k EXCEPT !.count[s] = n], i)
<1> DEFINE m == [k EXCEPT !.count[s] = n]
<1>1. TimedType(k) /\ TimedOk(k) /\ i # NoProcess
      /\ k.current[PartitionOf[i]] = i
  BY RunsWaitsNot DEF Runs
<1>2. SameBut(k, m, {"count"}) /\ m.count = [k.count EXCEPT ![s] = n]
  <2>1. k = [x \in DOMAIN k |-> k[x]] /\ "count" \in DOMAIN k
    BY <1>1, TimedReads DEF TimedFields
  <2> QED BY <2>1 DEF SameBut
<1> HIDE DEF m
<1>3. /\ m.now = k.now /\ m.hm = k.hm /\ m.deadline = k.deadline
      /\ m.nextDue = k.nextDue /\ m.waiters = k.waiters /\ m.result = k.result
      /\ m.state = k.state /\ m.waitlist = k.waitlist /\ m.wake = k.wake
      /\ m.periodic = k.periodic /\ m.timed = k.timed /\ m.halted = k.halted
      /\ m.release = k.release /\ m.pending = k.pending /\ m.current = k.current
      /\ DOMAIN m = DOMAIN k
  BY <1>1, <1>2, TimedReads DEF SameBut, TimedFields, TableFields, WaitFieldNames
<1>4. m.count \in [SemaphoreId -> Nat] /\ m.count[s] = n
      /\ \A x \in SemaphoreId : x # s => m.count[x] = k.count[x]
  BY <1>1, <1>2 DEF TimedType
<1>5. TimedType(m)
  <2>1. Sound(m)
    BY <1>1, <1>2, TimedReads, ServiceStep DEF TableFields, WaitFieldNames
  <2> QED BY <1>1, <1>3, <1>4, <2>1 DEF TimedType
<1>6. Around(k, m) /\ \A j \in Process : Alike(k, m, j)
  BY <1>1, <1>3, <1>5, TimedReads DEF Around, Alike
<1>7. UnitsOk(m)
  BY <1>1, <1>3, <1>4 DEF UnitsOk, TimedOk, TimedBase
<1>8. \A j \in Process : ProcessOk(m, j) /\ (NoWrap => Watched(m, j))
  BY <1>1, <1>3, <1>6, AlikeOk DEF TimedOk
<1>9. TimedOk(m)
  BY <1>1, <1>3, <1>5, <1>7, <1>8 DEF TimedOk, TimedBase
<1> QED BY <1>1, <1>3, <1>9 DEF Called, Occupied, m

LEMMA TakeUnitCalled ==
  ASSUME NEW k, NEW i \in Process, Runs(k, i), NEW s \in SemaphoreId, k.count[s] > 0
  PROVE  Called(k, TakeUnit(k, s), i)
<1>1. TimedType(k) /\ UnitsOk(k)
  BY DEF Runs, TimedOk, TimedBase
<1>2. k.count[s] \in Nat /\ SemaphoreMax[s] \in Nat /\ k.count[s] <= SemaphoreMax[s]
      /\ k.waiters[s] = <<>>
  BY <1>1, SemaphoreAssumption DEF TimedType, UnitsOk
<1>3. k.count[s] - 1 \in Nat /\ k.count[s] - 1 <= SemaphoreMax[s]
  BY <1>2
<1>4. TakeUnit(k, s) = [k EXCEPT !.count[s] = k.count[s] - 1]
  BY DEF TakeUnit
<1> QED BY <1>2, <1>3, <1>4, CountIsCalled

\* The unit goes to the best of the waiters, or is counted.
LEMMA PostUnitCalled ==
  ASSUME NEW k, NEW i \in Process, Runs(k, i), NEW s \in SemaphoreId
  PROVE  Called(k, PostUnit(k, s), i)
<1>1. /\ TimedType(k) /\ TimedOk(k) /\ UnitsOk(k) /\ Sound(k) /\ i # NoProcess
      /\ k.current[PartitionOf[i]] = i
  BY RunsWaitsNot, TimedReads DEF Runs, TimedOk, TimedBase
<1>2. s \in WaitList /\ SemaphoreId \subseteq WaitList
  BY SemaphoreAssumption, IpcAssumption DEF SemaphoreId, WaitList
<1>3. CASE k.waiters[s] = <<>> /\ k.count[s] < SemaphoreMax[s]
  <2>1. PostUnit(k, s) = [k EXCEPT !.count[s] = k.count[s] + 1]
    BY <1>3 DEF PostUnit
  <2>2. k.count[s] \in Nat /\ SemaphoreMax[s] \in Nat
    BY <1>1, SemaphoreAssumption DEF TimedType
  <2>3. k.count[s] + 1 \in Nat /\ k.count[s] + 1 <= SemaphoreMax[s]
    BY <1>3, <2>2
  <2> QED BY <1>3, <2>1, <2>3, CountIsCalled
<1>4. CASE k.waiters[s] = <<>> /\ ~(k.count[s] < SemaphoreMax[s])
  <2>1. PostUnit(k, s) = k
    BY <1>4 DEF PostUnit
  <2> QED BY <1>1, <2>1 DEF Called, Occupied
<1>5. CASE k.waiters[s] # <<>>
  <2> DEFINE j == BestWaiter(k, s)
             l == TakeWaiter(k, s, j)
             m == Resolve(l, j, "OK")
  <2>1. j \in Process /\ IsIn(k.waiters[s], j)
    BY <1>1, <1>2, <1>5, NextIsWaiting
  <2> HIDE DEF j
  <2>2. OffList(k, l, j) /\ Waits(k, j) /\ k.waitlist[j] = s
    BY <1>1, <1>2, <2>1, TakeWaiterSound
  <2>3. PostUnit(k, s) = GiveUnit(l, s, j)
    BY <1>5 DEF PostUnit, j
  <2> HIDE DEF l
  <2>4. /\ l.state = k.state /\ l.waitlist[j] = NoList /\ l.state[j] = "BLOCKED"
        /\ Sound(l)
    <3>1. /\ k.waitlist \in [Process -> WaitList \cup {NoList}]
          /\ l.waitlist = [k.waitlist EXCEPT ![j] = NoList] /\ Sound(l)
      BY <1>1, <2>2, TimedReads DEF OffList
    <3>2. l.state = k.state
      BY <1>1, <2>2, TimedReads DEF OffList, SameBut, TableFields
    <3> QED BY <2>1, <2>2, <3>1, <3>2 DEF Waits
  <2>5. ResolveStatus(l, j) = "OK" /\ Resolved(l, m, j, "OK")
    BY <2>1, <2>4, ReadySound, ResolveSound
  <2>6. PostUnit(k, s) = m
    BY <2>3, <2>5 DEF GiveUnit
  <2> HIDE DEF m
  <2>7. /\ l.now = k.now /\ l.hm = k.hm /\ l.deadline = k.deadline
        /\ l.count = k.count /\ l.result = k.result /\ l.nextDue = k.nextDue
        /\ l.periodic = k.periodic /\ l.timed = k.timed /\ l.halted = k.halted
        /\ l.release = k.release /\ l.pending = k.pending /\ l.current = k.current
        /\ DOMAIN l = DOMAIN k
    BY <1>1, <2>2, TimedReads
       DEF OffList, SameBut, TimedFields, TableFields, WaitFieldNames
  <2>8. /\ m.now = l.now /\ m.hm = l.hm /\ m.deadline = l.deadline
        /\ m.count = l.count /\ m.nextDue = l.nextDue
        /\ m.waiters = l.waiters /\ m.waitlist = l.waitlist /\ m.wake = l.wake
        /\ m.periodic = l.periodic /\ m.timed = l.timed /\ m.halted = l.halted
        /\ m.release = l.release /\ m.pending = l.pending /\ m.current = l.current
        /\ DOMAIN m = DOMAIN l
    BY <1>1, <2>5, <2>7, TimedReads
       DEF Resolved, MadeReady, SameBut, TimedFields, TableFields, WaitFieldNames
  <2>9. /\ m.state = [k.state EXCEPT ![j] = "READY"]
        /\ m.waitlist = [k.waitlist EXCEPT ![j] = NoList]
        /\ m.wake = [k.wake EXCEPT ![j] = NoTick]
        /\ m.result = [k.result EXCEPT ![j] = "OK"] /\ Sound(m)
    BY <2>2, <2>4, <2>5, <2>7, <2>8 DEF Resolved, MadeReady, OffList
  <2>10. TimedType(m)
    <3>1. k.wake \in [Process -> Tick] /\ k.result \in [Process -> Result]
          /\ NoTick \in Tick
      BY <1>1, TickType DEF TimedType
    <3>2. m.wake \in [Process -> Tick]
      BY <2>9, <3>1
    <3>3. m.result \in [Process -> Result]
      BY <2>9, <3>1 DEF Result
    <3> QED BY <1>1, <2>7, <2>8, <2>9, <3>2, <3>3 DEF TimedType
  <2>11. Around(k, m)
    BY <1>1, <2>7, <2>8, <2>10, TimedReads DEF Around
  <2>12. \A x \in Process \ {j} : Alike(k, m, x)
    BY <1>1, <2>7, <2>8, <2>9, TimedReads DEF Alike
  <2>13. UnitsOk(m)
    <3>1. \A x \in Process :
            Waits(m, x) => Waits(k, x) /\ m.waitlist[x] = k.waitlist[x]
      BY <1>1, <2>1, <2>9, TimedReads DEF Waits
    <3>2. ListsShrink(k, m)
      BY <1>1, <2>9, <3>1, FewerWaiters
    <3> QED BY <1>1, <1>2, <2>7, <2>8, <3>2 DEF UnitsOk, ListsShrink
  <2>14. ProcessOk(m, j) /\ (NoWrap => Watched(m, j))
    <3>1. ProcessOk(k, j) /\ (NoWrap => Watched(k, j)) /\ s # NoList
      BY <1>1, <1>2, <2>1, IpcAssumption DEF TimedOk, WaitList, NoList
    <3>2. ~k.periodic[j] /\ ~k.timed[j]
      BY <2>2, <3>1 DEF ProcessOk, WaitOk
    <3>3. m.state[j] = "READY" /\ m.waitlist[j] = NoList /\ m.wake[j] = NoTick
      BY <1>1, <2>1, <2>9, TimedReads DEF TimedType
    <3>4. WaitOk(m, j) /\ Ahead(m, j)
      BY <2>7, <2>8, <3>2, <3>3 DEF WaitOk, Ahead
    <3>5. ReleaseOk(m, j) /\ (NoWrap => Watched(m, j))
      BY <2>7, <2>8, <3>1 DEF ProcessOk, ReleaseOk, Watched
    <3>6. Bounded(m, j)
      BY <1>1, <2>7, <2>8, <3>1, <3>3, TimedReads DEF ProcessOk, Bounded
    <3> QED BY <3>4, <3>5, <3>6 DEF ProcessOk
  <2>15. TimedOk(m)
    BY <1>1, <2>1, <2>7, <2>8, <2>11, <2>12, <2>13, <2>14, OneProcess
  <2> QED BY <1>1, <2>6, <2>7, <2>8, <2>15 DEF Called, Occupied
<1> QED BY <1>3, <1>4, <1>5
\* m is k with process i off the CPU until a tick.
Slept(k, m, i, wake) ==
  /\ TimedType(m) /\ SameBut(k, m, TableFields \cup {"wake", "nextDue"})
  /\ m.wake = [k.wake EXCEPT ![i] = wake]
  /\ m.nextDue <= wake /\ m.nextDue <= k.nextDue
  /\ m.halted = k.halted /\ Occupied(m, PartitionOf[i])
  /\ \A j \in Process : m.state[j] = "BLOCKED" <=> k.state[j] = "BLOCKED" \/ j = i

LEMMA SleepUntilSleeps ==
  ASSUME NEW k, TimedType(k), NEW i \in Process, k.state[i] = "RUNNING",
         ~k.halted[PartitionOf[i]], NEW wake \in Tick
  PROVE  Slept(k, SleepUntil(k, i, wake), i, wake)
<1> DEFINE a == Sleep(k, i)
           l == [a EXCEPT !.wake[i] = wake]
           m == NoteDue(l, wake)
<1>1. Asleep(k, a, i) /\ Sound(k)
  BY SleepSound DEF TimedType
<1> HIDE DEF a
<1>2. /\ Sound(a) /\ a = [x \in DOMAIN a |-> a[x]] /\ DOMAIN a = DOMAIN k
      /\ TimedFields \cup TableFields \cup WaitFieldNames \subseteq DOMAIN k
      /\ \A x \in DOMAIN k \ TableFields : a[x] = k[x]
  BY <1>1, TimedReads DEF Asleep, SameBeyond, Sound, IpcType, Extends
<1>3. SameBut(a, l, {"wake"}) /\ l.wake = [a.wake EXCEPT ![i] = wake]
  BY <1>2 DEF SameBut, WaitFieldNames
<1> HIDE DEF l
<1>4. a.wake = k.wake /\ a.op = k.op /\ a.result = k.result
  BY <1>2 DEF WaitFieldNames, TableFields
<1>5. l.wake \in [Process -> Tick]
  <2>1. k.wake \in [Process -> Tick]
    BY DEF TimedType
  <2> QED BY <1>3, <1>4, <2>1
<1>6. l.op = k.op /\ l.result = k.result /\ DOMAIN l = DOMAIN k
  BY <1>2, <1>3, <1>4 DEF SameBut, WaitFieldNames
<1>7. Sound(l)
  <2>1. OnProcesses(l.op) /\ OnProcesses(l.result) /\ OnProcesses(l.wake)
    BY <1>1, <1>5, <1>6 DEF OnProcesses, Sound, IpcType
  <2>2. SameBut(a, l, {"result", "op", "wake"})
    BY <1>3 DEF SameBut
  <2> QED BY <1>2, <2>1, <2>2, AnnotateSound
<1>8. /\ l.now = k.now /\ l.hm = k.hm /\ l.deadline = k.deadline
      /\ l.count = k.count /\ l.nextDue = k.nextDue
      /\ l.periodic = k.periodic /\ l.timed = k.timed
      /\ l.release = k.release /\ l.pending = k.pending
  BY <1>2, <1>3 DEF SameBut, TimedFields, TableFields
<1>9. /\ l.state = a.state /\ l.halted = a.halted /\ l.current = a.current
      /\ l.ready = a.ready
  BY <1>2, <1>3 DEF SameBut, TableFields
<1>10. TimedType(l)
  BY <1>5, <1>6, <1>7, <1>8 DEF TimedType
<1>11. Noted(l, m, wake)
  BY <1>10, NoteDueNotes
<1> HIDE DEF m
<1>12. /\ m.state = l.state /\ m.halted = l.halted /\ m.current = l.current
       /\ m.ready = l.ready /\ m.wake = l.wake
  BY <1>2, <1>6, <1>11 DEF Noted, SameBut, TableFields, WaitFieldNames
<1>13. SameBut(k, m, TableFields \cup {"wake", "nextDue"})
  <2>1. m = [x \in DOMAIN m |-> m[x]] /\ DOMAIN m = DOMAIN k
    BY <1>6, <1>11 DEF Noted, SameBut
  <2>2. ASSUME NEW x \in DOMAIN k \ (TableFields \cup {"wake", "nextDue"})
        PROVE  m[x] = k[x]
    <3>1. a[x] = k[x] /\ l[x] = a[x] /\ m[x] = l[x]
      BY <1>2, <1>3, <1>6, <1>11 DEF Noted, SameBut
    <3> QED BY <3>1
  <2> QED BY <2>1, <2>2 DEF SameBut
<1>14. Occupied(m, PartitionOf[i])
  BY <1>1, <1>9, <1>12 DEF Asleep, Occupied, ReadyMask
<1>15. SleepUntil(k, i, wake) = m
  BY DEF SleepUntil, m, l, a
<1> QED BY <1>1, <1>3, <1>4, <1>8, <1>9, <1>11, <1>12, <1>13, <1>14, <1>15
        DEF Slept, Asleep, Noted

\* Waiting for a delay to pass or for the next release, whose deadline is armed
\* when it begins.
Sleeps(k, m, i, wake) ==
  /\ TimedType(m)
  /\ SameBut(k, m, TableFields
                     \cup {"wake", "nextDue", "deadline", "periodic", "timed"})
  /\ m.wake = [k.wake EXCEPT ![i] = wake]
  /\ m.nextDue <= wake /\ m.nextDue <= k.nextDue
  /\ m.halted = k.halted /\ Occupied(m, PartitionOf[i])
  /\ \A j \in Process : m.state[j] = "BLOCKED" <=> k.state[j] = "BLOCKED" \/ j = i
  /\ \A j \in Process \ {i} :
       /\ m.deadline[j] = k.deadline[j]
       /\ m.periodic[j] = k.periodic[j] /\ m.timed[j] = k.timed[j]
  /\ \/ m.timed[i] /\ ~m.periodic[i] /\ m.deadline[i] = k.deadline[i]
     \/ /\ m.periodic[i] /\ ~m.timed[i] /\ m.deadline[i] = NoTick
        /\ wake = Plus(k.release[i], Period[i])

LEMMA SleepIsCalled ==
  ASSUME NEW k, NEW i \in Process, Runs(k, i), NEW wake \in Tick, k.now < wake,
         NEW m, Sleeps(k, m, i, wake)
  PROVE  Called(k, m, i)
<1>1. /\ k.waitlist[i] = NoList /\ k.wake[i] = NoTick /\ i # NoProcess
      /\ TimedType(k) /\ TimedOk(k) /\ Sound(k)
  BY RunsWaitsNot, TimedReads DEF Runs
<1>2. /\ m.now = k.now /\ m.hm = k.hm /\ m.count = k.count /\ m.waiters = k.waiters
      /\ m.waitlist = k.waitlist /\ m.result = k.result
      /\ m.release = k.release /\ m.pending = k.pending
  BY <1>1, TimedReads DEF Sleeps, SameBut, TimedFields, TableFields, WaitFieldNames
<1>3. m.wake[i] = wake /\ \A j \in Process \ {i} : m.wake[j] = k.wake[j]
  BY <1>1 DEF TimedType, Sleeps
<1>4. Around(k, m) /\ \A j \in Process \ {i} : Alike(k, m, j)
  BY <1>2, <1>3 DEF Around, Alike, Sleeps
<1>5. UnitsOk(m)
  BY <1>1, <1>2 DEF UnitsOk, TimedOk, TimedBase
<1>6. ProcessOk(k, i) /\ (NoWrap => Watched(k, i))
  BY <1>1 DEF TimedOk
<1>7. WaitOk(m, i) /\ Ahead(m, i)
  BY <1>1, <1>2, <1>3 DEF WaitOk, Ahead, Sleeps
<1>8. ReleaseOk(m, i) /\ (NoWrap => Watched(m, i))
  <2>1. /\ ~k.periodic[i]
        /\ m.periodic[i] \/ m.deadline[i] = k.deadline[i]
    <3>1. ~k.periodic[i]
      BY RunsWaitsNot
    <3>2. m.periodic[i] \/ m.deadline[i] = k.deadline[i]
      BY Zenon DEF Sleeps
    <3> QED BY <3>1, <3>2
  <2>2. m.deadline[i] \in {k.deadline[i], NoTick}
    BY DEF Sleeps
  <2>3. m.halted = k.halted
    BY DEF Sleeps
  <2> QED BY <1>2, <1>6, <2>1, <2>2, <2>3 DEF ProcessOk, ReleaseOk, Watched
<1>9. Bounded(m, i)
  <2>1. /\ k.deadline[i] \in Nat /\ k.nextDue \in Nat /\ m.nextDue \in Nat
        /\ m.nextDue <= NoTick
    BY <1>1, TimedReads, TickType DEF TimedType, Sleeps
  <2>2. k.nextDue <= k.deadline[i] /\ m.deadline[i] \in {k.deadline[i], NoTick}
        /\ m.nextDue <= wake /\ m.nextDue <= k.nextDue
    BY <1>6 DEF ProcessOk, Bounded, Sleeps
  <2> QED BY <1>3, <2>1, <2>2 DEF Bounded
<1>10. TimedOk(m)
  BY <1>1, <1>2, <1>4, <1>5, <1>7, <1>8, <1>9, OneProcess DEF ProcessOk
<1> QED BY <1>2, <1>10 DEF Called, Sleeps

LEMMA DelayUntilCalled ==
  ASSUME NEW k, NEW i \in Process, Runs(k, i), NEW wake \in Tick, k.now < wake
  PROVE  Called(k, DelayUntil(k, i, wake), i)
<1> DEFINE l == SleepUntil(k, i, wake)
           m == DelayUntil(k, i, wake)
<1>1. /\ TimedType(k) /\ k.state[i] = "RUNNING" /\ ~k.halted[PartitionOf[i]]
      /\ ~k.periodic[i]
  BY RunsWaitsNot DEF Runs
<1>2. Slept(k, l, i, wake)
  BY <1>1, SleepUntilSleeps
<1>3. m = [l EXCEPT !.timed[i] = TRUE]
  BY DEF DelayUntil
<1> HIDE DEF l, m
<1>4. TimedType(l) /\ l = [x \in DOMAIN l |-> l[x]] /\ "timed" \in DOMAIN l
  BY <1>2, TimedReads DEF Slept, TimedFields
<1>5. SameBut(l, m, {"timed"}) /\ m.timed = [l.timed EXCEPT ![i] = TRUE]
  BY <1>3, <1>4 DEF SameBut
<1>6. /\ m.now = l.now /\ m.hm = l.hm /\ m.deadline = l.deadline
      /\ m.count = l.count /\ m.nextDue = l.nextDue /\ m.result = l.result
      /\ m.wake = l.wake /\ m.periodic = l.periodic /\ m.halted = l.halted
      /\ m.release = l.release /\ m.pending = l.pending /\ m.current = l.current
      /\ m.state = l.state /\ m.ready = l.ready /\ DOMAIN m = DOMAIN l
  BY <1>4, <1>5, TimedReads DEF SameBut, TimedFields, TableFields, WaitFieldNames
<1>7. l.timed \in [Process -> BOOLEAN]
  BY <1>4 DEF TimedType
<1>8. /\ m.timed \in [Process -> BOOLEAN] /\ m.timed[i]
      /\ \A j \in Process \ {i} : m.timed[j] = l.timed[j]
  BY <1>5, <1>7
<1>9. TimedType(m)
  <2>1. Sound(m)
    BY <1>4, <1>5, TimedReads, ServiceStep DEF TableFields, WaitFieldNames
  <2> QED BY <1>4, <1>6, <1>8, <2>1 DEF TimedType
<1>10. l.deadline = k.deadline /\ l.periodic = k.periodic /\ l.timed = k.timed
  BY <1>1, <1>2, TimedReads DEF Slept, SameBut, TimedFields, TableFields
<1>11. SameBut(k, m, TableFields
                       \cup {"wake", "nextDue", "deadline", "periodic", "timed"})
  BY <1>2, <1>5 DEF Slept, SameBut
<1>12. /\ m.wake = [k.wake EXCEPT ![i] = wake]
       /\ m.nextDue <= wake /\ m.nextDue <= k.nextDue
       /\ m.halted = k.halted /\ Occupied(m, PartitionOf[i])
       /\ \A j \in Process : m.state[j] = "BLOCKED" <=> k.state[j] = "BLOCKED" \/ j = i
  BY <1>2, <1>6 DEF Slept, Occupied, ReadyMask
<1>13. Sleeps(k, m, i, wake)
  BY <1>1, <1>6, <1>8, <1>9, <1>10, <1>11, <1>12 DEF Sleeps
<1> QED BY <1>13, SleepIsCalled DEF m
\* The next release is already due: it begins at its own tick.
LEMMA OverrunCalled ==
  ASSUME NEW k, NEW i \in Process, Runs(k, i),
         k.now >= Plus(k.release[i], Period[i])
  PROVE  LET t == Plus(k.release[i], Period[i])
         IN  Called(k, ArmDeadline([k EXCEPT !.release[i] = t], i), i)
<1> DEFINE t == Plus(k.release[i], Period[i])
           l == [k EXCEPT !.release[i] = t]
           m == ArmDeadline(l, i)
<1>1. /\ k.waitlist[i] = NoList /\ k.wake[i] = NoTick /\ i # NoProcess
      /\ ~k.periodic[i] /\ ~k.timed[i] /\ k.current[PartitionOf[i]] = i
      /\ TimedType(k) /\ TimedOk(k) /\ Sound(k)
  BY RunsWaitsNot, TimedReads DEF Runs
<1>2. t \in Tick /\ t \in Nat /\ k.now >= t
  BY <1>1, PlusTicks, TickType DEF TimedType
<1> HIDE DEF t
<1>3. k = [x \in DOMAIN k |-> k[x]] /\ "release" \in DOMAIN k
  BY <1>1, TimedReads DEF TimedFields
<1>4. SameBut(k, l, {"release"}) /\ l.release = [k.release EXCEPT ![i] = t]
  BY <1>3 DEF SameBut
<1> HIDE DEF l, m
<1>5. /\ l.release \in [Process -> Tick] /\ l.release[i] = t
      /\ \A j \in Process \ {i} : l.release[j] = k.release[j]
  <2>1. k.release \in [Process -> Tick]
    BY <1>1 DEF TimedType
  <2> QED BY <1>2, <1>4, <2>1
<1>6. /\ l.now = k.now /\ l.hm = k.hm /\ l.deadline = k.deadline
      /\ l.nextDue = k.nextDue /\ l.waiters = k.waiters /\ l.result = k.result
      /\ l.state = k.state /\ l.waitlist = k.waitlist /\ l.wake = k.wake
      /\ l.periodic = k.periodic /\ l.timed = k.timed /\ l.halted = k.halted
      /\ l.count = k.count /\ l.pending = k.pending /\ l.current = k.current
      /\ DOMAIN l = DOMAIN k
  BY <1>1, <1>4, TimedReads DEF SameBut, TimedFields, TableFields, WaitFieldNames
<1>7. TimedType(l)
  <2>1. Sound(l)
    BY <1>1, <1>4, TimedReads, ServiceStep DEF TableFields, WaitFieldNames
  <2> QED BY <1>1, <1>5, <1>6, <2>1 DEF TimedType
<1>8. DeadlineArmed(l, m, i)
  BY <1>7, ArmDeadlineArms DEF m
<1>9. /\ m.now = l.now /\ m.hm = l.hm /\ m.count = l.count /\ m.waiters = l.waiters
      /\ m.state = l.state /\ m.waitlist = l.waitlist /\ m.wake = l.wake
      /\ m.periodic = l.periodic /\ m.timed = l.timed /\ m.halted = l.halted
      /\ m.release = l.release /\ m.pending = l.pending /\ m.current = l.current
  BY <1>7, <1>8, TimedReads
     DEF DeadlineArmed, SameBut, TimedFields, TableFields, WaitFieldNames
<1>10. /\ m.deadline[i] = DeadlineOf(i, t)
       /\ \A j \in Process \ {i} : m.deadline[j] = k.deadline[j]
  BY <1>1, <1>5, <1>6, <1>8 DEF DeadlineArmed, TimedType
<1>11. Around(k, m) /\ \A j \in Process \ {i} : Alike(k, m, j)
  BY <1>5, <1>6, <1>8, <1>9, <1>10 DEF Around, Alike, DeadlineArmed
<1>12. UnitsOk(m)
  BY <1>1, <1>6, <1>9 DEF UnitsOk, TimedOk, TimedBase
<1>13. ProcessOk(k, i) /\ (NoWrap => k.now <= MaxTick)
  BY <1>1 DEF TimedOk, TimedBase
<1>14. WaitOk(m, i) /\ Ahead(m, i)
  BY <1>1, <1>6, <1>9 DEF WaitOk, Ahead
<1>15. ReleaseOk(m, i)
  <2>1. Capacity[i] \in Nat /\ m.release[i] = t /\ m.now = k.now
    BY <1>5, <1>6, <1>9, TickType
  <2>2. k.now \in Nat
    BY <1>1, TimedReads
  <2> QED BY <1>2, <1>10, <2>1, <2>2 DEF ReleaseOk, DeadlineOf
<1>16. NoWrap => Watched(m, i)
  <2> SUFFICES ASSUME NoWrap, Capacity[i] > 0 PROVE m.deadline[i] # NoTick
    BY DEF Watched
  <2>1. t <= MaxTick
    <3>1. k.now \in Nat /\ MaxTick \in Nat
      BY <1>1, TimedReads, TickType
    <3> QED BY <1>2, <1>13, <3>1
  <2> QED BY <1>2, <1>10, <2>1, DeadlineFits
<1>17. Bounded(m, i)
  <2>1. m.wake[i] = NoTick /\ m.nextDue <= NoTick /\ m.nextDue <= m.deadline[i]
    BY <1>1, <1>6, <1>8, <1>9, TimedReads DEF DeadlineArmed
  <2> QED BY <2>1 DEF Bounded
<1>18. TimedOk(m)
  BY <1>1, <1>6, <1>9, <1>11, <1>12, <1>14, <1>15, <1>16, <1>17, OneProcess
     DEF ProcessOk
<1>19. Called(k, m, i)
  <2>1. \A j \in Process : m.release[j] \in {k.release[j], Plus(k.release[j], Period[j])}
    BY <1>5, <1>9 DEF t
  <2> QED BY <1>1, <1>6, <1>9, <1>18, <2>1 DEF Called, Occupied
<1> QED BY <1>19 DEF m, l, t

\* A completed release: the deadline is met, the next one is awaited.
LEMMA PeriodicWaitCalled ==
  ASSUME NEW k, NEW i \in Process, Runs(k, i)
  PROVE  Called(k, PeriodicWait(k, i), i)
<1> DEFINE t == Plus(k.release[i], Period[i])
           l == [k EXCEPT !.deadline[i] = NoTick]
           e == SleepUntil(l, i, t)
           m == [e EXCEPT !.periodic[i] = TRUE]
<1>1. /\ TimedType(k) /\ k.state[i] = "RUNNING" /\ ~k.halted[PartitionOf[i]]
      /\ ~k.timed[i]
  BY RunsWaitsNot DEF Runs
<1>2. t \in Tick /\ t \in Nat /\ k.now \in Nat
  BY <1>1, PlusTicks, TickType DEF TimedType
<1>3. PeriodicWait(k, i) = IF k.now >= t THEN ArmDeadline([k EXCEPT !.release[i] = t], i)
                           ELSE m
  BY DEF PeriodicWait, AwaitRelease
<1>4. CASE k.now >= t
  <2>1. PeriodicWait(k, i) = ArmDeadline([k EXCEPT !.release[i] = t], i)
    BY <1>3, <1>4
  <2> QED BY <1>4, <2>1, OverrunCalled
<1>5. CASE ~(k.now >= t)
  <2> HIDE DEF t
  <2>1. k.now < t
    BY <1>2, <1>5
  <2>2. k = [x \in DOMAIN k |-> k[x]] /\ "deadline" \in DOMAIN k
    BY <1>1, TimedReads DEF TimedFields
  <2>3. SameBut(k, l, {"deadline"}) /\ l.deadline = [k.deadline EXCEPT ![i] = NoTick]
    BY <2>2 DEF SameBut
  <2> HIDE DEF l
  <2>4. /\ l.deadline \in [Process -> Tick] /\ l.deadline[i] = NoTick
        /\ \A j \in Process \ {i} : l.deadline[j] = k.deadline[j]
    <3>1. k.deadline \in [Process -> Tick] /\ NoTick \in Tick
      BY <1>1, TickType DEF TimedType
    <3> QED BY <2>3, <3>1
  <2>5. /\ l.now = k.now /\ l.hm = k.hm /\ l.release = k.release
        /\ l.nextDue = k.nextDue /\ l.waiters = k.waiters /\ l.result = k.result
        /\ l.state = k.state /\ l.waitlist = k.waitlist /\ l.wake = k.wake
        /\ l.periodic = k.periodic /\ l.timed = k.timed /\ l.halted = k.halted
        /\ l.count = k.count /\ l.pending = k.pending /\ DOMAIN l = DOMAIN k
    BY <1>1, <2>3, TimedReads DEF SameBut, TimedFields, TableFields, WaitFieldNames
  <2>6. TimedType(l)
    <3>1. Sound(l)
      BY <1>1, <2>3, TimedReads, ServiceStep DEF TableFields, WaitFieldNames
    <3> QED BY <1>1, <2>4, <2>5, <3>1 DEF TimedType
  <2>7. Slept(l, e, i, t)
    BY <1>1, <1>2, <2>5, <2>6, SleepUntilSleeps
  <2> HIDE DEF e
  <2>8. TimedType(e) /\ e = [x \in DOMAIN e |-> e[x]] /\ "periodic" \in DOMAIN e
    BY <2>7, TimedReads DEF Slept, TimedFields
  <2>9. SameBut(e, m, {"periodic"}) /\ m.periodic = [e.periodic EXCEPT ![i] = TRUE]
    BY <2>8 DEF SameBut
  <2> HIDE DEF m
  <2>10. /\ m.now = e.now /\ m.hm = e.hm /\ m.deadline = e.deadline
         /\ m.count = e.count /\ m.nextDue = e.nextDue /\ m.result = e.result
         /\ m.wake = e.wake /\ m.timed = e.timed /\ m.halted = e.halted
         /\ m.release = e.release /\ m.pending = e.pending /\ m.current = e.current
         /\ m.state = e.state /\ m.ready = e.ready /\ DOMAIN m = DOMAIN e
    BY <2>8, <2>9, TimedReads DEF SameBut, TimedFields, TableFields, WaitFieldNames
  <2>11. e.periodic \in [Process -> BOOLEAN]
    BY <2>8 DEF TimedType
  <2>12. /\ m.periodic \in [Process -> BOOLEAN] /\ m.periodic[i]
         /\ \A j \in Process \ {i} : m.periodic[j] = e.periodic[j]
    BY <2>9, <2>11
  <2>13. TimedType(m)
    <3>1. Sound(m)
      BY <2>8, <2>9, TimedReads, ServiceStep DEF TableFields, WaitFieldNames
    <3> QED BY <2>8, <2>10, <2>12, <3>1 DEF TimedType
  <2>14. e.deadline = l.deadline /\ e.periodic = l.periodic /\ e.timed = l.timed
    BY <2>6, <2>7, TimedReads DEF Slept, SameBut, TimedFields, TableFields
  <2>15. SameBut(k, m, TableFields
                         \cup {"wake", "nextDue", "deadline", "periodic", "timed"})
    <3>1. m = [x \in DOMAIN m |-> m[x]] /\ DOMAIN m = DOMAIN k
      BY <2>5, <2>7, <2>9 DEF Slept, SameBut
    <3>2. ASSUME NEW x \in DOMAIN k \ (TableFields
                         \cup {"wake", "nextDue", "deadline", "periodic", "timed"})
          PROVE  m[x] = k[x]
      <4>1. l[x] = k[x] /\ e[x] = l[x] /\ m[x] = e[x]
        BY <2>3, <2>5, <2>7, <2>9 DEF Slept, SameBut
      <4> QED BY <4>1
    <3> QED BY <3>1, <3>2 DEF SameBut
  <2>16. /\ m.wake = [k.wake EXCEPT ![i] = t]
         /\ m.nextDue <= t /\ m.nextDue <= k.nextDue
         /\ m.halted = k.halted /\ Occupied(m, PartitionOf[i])
         /\ \A j \in Process : m.state[j] = "BLOCKED" <=> k.state[j] = "BLOCKED" \/ j = i
    BY <2>5, <2>7, <2>10 DEF Slept, Occupied, ReadyMask
  <2>17. /\ \A j \in Process \ {i} :
              /\ m.deadline[j] = k.deadline[j]
              /\ m.periodic[j] = k.periodic[j] /\ m.timed[j] = k.timed[j]
         /\ ~m.timed[i] /\ m.deadline[i] = NoTick
    BY <1>1, <2>4, <2>5, <2>10, <2>12, <2>14
  <2>18. Sleeps(k, m, i, t)
    BY <2>12, <2>13, <2>15, <2>16, <2>17 DEF Sleeps, t
  <2> QED BY <1>2, <1>3, <1>5, <2>1, <2>18, SleepIsCalled
<1> QED BY <1>4, <1>5
\* What a partition runs after a call: its best process, if that outranks the
\* caller or the caller gives way.
LEMMA SelectCalled ==
  ASSUME NEW k, NEW i \in Process, NEW m, Called(k, m, i), NEW y \in BOOLEAN
  PROVE  Called(k, PartitionSelect(m, PartitionOf[i], y), i)
<1> DEFINE p == PartitionOf[i]
           n == PartitionSelect(m, p, y)
<1>1. TimedType(m) /\ Sound(m) /\ p \in Partition /\ TimedOk(m)
  BY TimedReads, TickType DEF Called, TimedOk, TimedBase
<1>2. Dispatched(m, n)
  BY <1>1, SelectTimed
<1>3. IF SelectStatus(m, p, y) = "OK" THEN n.current[p] \in Process ELSE n = m
  BY <1>1, SelectSound
<1>4. NoProcess \notin Process
  BY TickType DEF NoProcess, Process
<1> HIDE DEF n
<1>5. Occupied(n, p)
  BY <1>3, <1>4 DEF Called, Occupied
<1>6. n.pending = m.pending
  BY <1>1, <1>2, TimedReads DEF Dispatched, SameBeyond, TimedFields, TableFields
<1> QED BY <1>1, <1>2, <1>5, <1>6 DEF Called, Dispatched, Around, Alike, n

\* What holds whenever the kernel returns to a process or to the idle loop.
CpuOk ==
  IF cpu = NoProcess THEN NoIdleWithWork
  ELSE /\ cpu \in Process /\ PartitionOf[cpu] = Slot
       /\ sys.current[Slot] = cpu /\ ~sys.halted[Slot]

IInv == TimedOk(sys) /\ CpuOk

LEMMA CpuRuns ==
  ASSUME IInv, cpu # NoProcess
  PROVE  Runs(sys, cpu) /\ cpu \in Process /\ PartitionOf[cpu] = Slot
<1>1. TimedOk(sys) /\ cpu \in Process /\ sys.current[PartitionOf[cpu]] = cpu
      /\ ~sys.halted[PartitionOf[cpu]] /\ Sound(sys) /\ PartitionOf[cpu] = Slot
  BY DEF IInv, CpuOk, TimedOk, TimedBase, TimedType
<1> QED BY <1>1, SoundTypes DEF Runs

\* m is k but for results that were handed over.
Restored(k, m) ==
  /\ TimedOk(m) /\ m.now = k.now /\ m.hm = k.hm /\ m.halted = k.halted
  /\ m.pending = k.pending /\ m.release = k.release /\ m.current = k.current
  /\ m.ready = k.ready /\ m.deadline = k.deadline /\ m.state = k.state

LEMMA DeliverRestores ==
  ASSUME NEW k, TimedOk(k), NEW c \in Process \cup {NoProcess}
  PROVE  Restored(k, k) /\ Restored(k, Deliver(k, c))
<1> DEFINE m == Deliver(k, c)
<1>1. TimedType(k)
  BY DEF TimedOk, TimedBase
<1>2. SameBut(k, m, {"result"}) /\ TimedOk(m)
  BY <1>1, DeliverTimed
<1> HIDE DEF m
<1>3. Restored(k, m)
  BY <1>1, <1>2, TimedReads DEF Restored, SameBut, TimedFields, TableFields
<1>4. Restored(k, k)
  BY DEF Restored
<1> QED BY <1>3, <1>4 DEF m

\* The end of a call: the invariant, and what a call never changes.
CallStep ==
  /\ IInv' /\ sys'.pending = sys.pending /\ sys'.now = sys.now
  /\ \A j \in Process :
       sys'.release[j] \in {sys.release[j], Plus(sys.release[j], Period[j])}

LEMMA ResumeKeeps ==
  ASSUME IInv, cpu # NoProcess, NEW m, Called(sys, m, cpu),
         Resume(m, PartitionOf[cpu])
  PROVE  CallStep
<1> DEFINE p == PartitionOf[cpu]
<1>1. cpu \in Process /\ Runs(sys, cpu) /\ p = Slot /\ p \in Partition
  BY CpuRuns, TickType
<1>2. /\ TimedOk(m) /\ m.now = sys.now /\ m.halted = sys.halted
      /\ m.pending = sys.pending /\ Occupied(m, p) /\ Sound(m)
      /\ \A j \in Process :
           m.release[j] \in {sys.release[j], Plus(sys.release[j], Period[j])}
  BY DEF Called, TimedOk, TimedBase, TimedType
<1>3. /\ m.current[p] \in Process \cup {NoProcess}
      /\ m.current[p] # NoProcess => PartitionOf[m.current[p]] = p
  BY <1>1, <1>2, SoundTypes
<1>4. cpu' = m.current[p] /\ (sys' = m \/ sys' = Deliver(m, cpu'))
  BY DEF Resume
<1>5. Restored(m, sys')
  BY <1>2, <1>3, <1>4, DeliverRestores
<1>6. Slot' = p
  BY <1>1, <1>2, <1>5 DEF Slot, Restored
<1>7. ~sys'.halted[p] /\ sys'.current[p] = cpu'
  BY <1>1, <1>2, <1>4, <1>5 DEF Restored, Runs
<1>8. CASE cpu' = NoProcess
  <2>1. ReadyMask(sys', p) = {} /\ sys'.current[p] = NoProcess
    BY <1>2, <1>4, <1>5, <1>8 DEF Restored, Occupied, ReadyMask
  <2>2. CpuOk'
    BY <1>6, <1>8, <2>1 DEF CpuOk, NoIdleWithWork
  <2> QED BY <1>2, <1>5, <2>2 DEF CallStep, IInv, Restored
<1>9. CASE cpu' # NoProcess
  <2>1. CpuOk'
    BY <1>3, <1>4, <1>6, <1>7, <1>9 DEF CpuOk
  <2> QED BY <1>2, <1>5, <2>1 DEF CallStep, IInv, Restored
<1> QED BY <1>8, <1>9

LEMMA ReturnKeeps ==
  ASSUME IInv, cpu # NoProcess, NEW m, Called(sys, m, cpu), Return(m)
  PROVE  CallStep
<1> DEFINE n == PreemptCheck(m, cpu)
<1>1. cpu \in Process
  BY CpuRuns
<1>2. Called(sys, n, cpu)
  BY <1>1, SelectCalled DEF PreemptCheck, PartitionDispatch
<1> HIDE DEF n
<1>3. Resume(n, PartitionOf[cpu])
  BY DEF Return, n
<1> QED BY <1>2, <1>3, ResumeKeeps
\* The tick at which a timeout or a delay ends is to come, if it fits.
LEMMA TickAfterLater ==
  ASSUME NEW k, k.now \in Tick, NEW d \in Timeouts, TickFits(k, d)
  PROVE  LET t == TickAfter(k, d) IN
         t \in Tick /\ (d = NoTick <=> t = NoTick) /\ (t # NoTick => k.now < t)
<1>1. /\ d \in Nat /\ d \in Tick /\ d >= 1 /\ k.now \in Nat /\ NoTick \in Nat
      /\ NoTick \in Tick
  BY TickType, TimedSystemAssumption DEF Tick
<1>2. CASE d = NoTick
  BY <1>1, <1>2 DEF TickAfter
<1>3. CASE d # NoTick
  <2>1. k.now + d < NoTick
    BY <1>1, <1>3 DEF TickFits
  <2>2. TickAfter(k, d) = k.now + d
    BY <1>1, <1>3, <2>1, PlusTicks DEF TickAfter
  <2> QED BY <1>1, <1>3, <2>1, <2>2 DEF Tick
<1> QED BY <1>2, <1>3

LEMMA SemaphoreKeeps ==
  ASSUME IInv, NEW s \in SemaphoreId
  PROVE  /\ SemaphoreSignal(s) => CallStep
         /\ \A timeout \in Timeouts : SemaphoreWait(s, timeout) => CallStep
<1>1. ASSUME SemaphoreSignal(s) PROVE CallStep
  <2>1. cpu # NoProcess /\ Return(PostUnit(sys, s))
    BY <1>1 DEF SemaphoreSignal
  <2>2. Called(sys, PostUnit(sys, s), cpu)
    BY <2>1, CpuRuns, PostUnitCalled
  <2> QED BY <2>1, <2>2, ReturnKeeps
<1>2. ASSUME NEW timeout \in Timeouts, SemaphoreWait(s, timeout) PROVE CallStep
  <2> DEFINE wake == TickAfter(sys, timeout)
             m == IF sys.count[s] > 0 THEN TakeUnit(sys, s)
                  ELSE BlockUntil(sys, cpu, s, wake, WaitOp(s))
  <2>1. cpu # NoProcess /\ Return(m) /\ (sys.count[s] > 0 \/ TickFits(sys, timeout))
    BY <1>2 DEF SemaphoreWait
  <2>2. Runs(sys, cpu) /\ cpu \in Process /\ sys.count[s] \in Nat /\ sys.now \in Tick
    BY <2>1, CpuRuns DEF IInv, TimedOk, TimedBase, TimedType
  <2>3. CASE sys.count[s] > 0
    <3>1. m = TakeUnit(sys, s) /\ Called(sys, TakeUnit(sys, s), cpu)
      BY <2>2, <2>3, TakeUnitCalled
    <3> HIDE DEF m
    <3> QED BY <2>1, <3>1, ReturnKeeps
  <2>4. CASE ~(sys.count[s] > 0)
    <3>1. sys.count[s] = 0 /\ wake \in Tick /\ (wake # NoTick => sys.now < wake)
      BY <2>1, <2>2, <2>4, TickAfterLater
    <3>2. m = BlockUntil(sys, cpu, s, wake, WaitOp(s))
      BY <2>4
    <3> HIDE DEF m, wake
    <3>3. Called(sys, m, cpu)
      BY <2>2, <3>1, <3>2, BlockUntilCalled
    <3> QED BY <2>1, <3>3, ReturnKeeps
  <2> QED BY <2>3, <2>4
<1> QED BY <1>1, <1>2

LEMMA WaitKeeps ==
  ASSUME IInv
  PROVE  /\ \A delay \in Timeouts : TimedWait(delay) => CallStep
         /\ CompleteRelease => CallStep
         /\ Yield => CallStep
<1>1. ASSUME NEW delay \in Timeouts, TimedWait(delay) PROVE CallStep
  <2> DEFINE wake == TickAfter(sys, delay)
             m == DelayUntil(sys, cpu, wake)
  <2>1. /\ cpu # NoProcess /\ delay # NoTick /\ TickFits(sys, delay)
        /\ Resume(m, PartitionOf[cpu])
    BY <1>1 DEF TimedWait
  <2>2. Runs(sys, cpu) /\ cpu \in Process /\ sys.now \in Tick
    BY <2>1, CpuRuns DEF IInv, TimedOk, TimedBase, TimedType
  <2>3. wake \in Tick /\ sys.now < wake
    BY <2>1, <2>2, TickAfterLater
  <2> HIDE DEF wake
  <2>4. Called(sys, m, cpu)
    BY <2>2, <2>3, DelayUntilCalled
  <2> HIDE DEF m
  <2> QED BY <2>1, <2>4, ResumeKeeps
<1>2. ASSUME CompleteRelease PROVE CallStep
  <2>1. cpu # NoProcess /\ Return(PeriodicWait(sys, cpu))
    BY <1>2 DEF CompleteRelease
  <2>2. Called(sys, PeriodicWait(sys, cpu), cpu)
    BY <2>1, CpuRuns, PeriodicWaitCalled
  <2> QED BY <2>1, <2>2, ReturnKeeps
<1>3. ASSUME Yield PROVE CallStep
  <2> DEFINE m == PartitionYield(sys, PartitionOf[cpu])
  <2>1. cpu # NoProcess /\ Resume(m, PartitionOf[cpu])
    BY <1>3 DEF Yield
  <2>2. Runs(sys, cpu) /\ cpu \in Process /\ cpu # NoProcess
    BY <2>1, CpuRuns
  <2>3. Called(sys, sys, cpu)
    BY <2>2 DEF Called, Runs, Occupied
  <2>4. Called(sys, m, cpu)
    BY <2>2, <2>3, SelectCalled DEF PartitionYield
  <2> HIDE DEF m
  <2> QED BY <2>1, <2>4, ResumeKeeps
<1> QED BY <1>1, <1>2, <1>3

-----------------------------------------------------------------------------
(* A fault of the process that runs.                                       *)

\* After a fault its partition runs its best process, or is halted.
LEMMA FaultOccupies ==
  ASSUME NEW k, NEW i \in Process, OkBut(k, i), NEW type,
         k.hm[PartitionOf[i]][type] # "IGNORE"
  PROVE  LET m == HandleFault([table |-> k, cpu |-> i], i, type).table
         IN  m.halted[PartitionOf[i]] \/ Occupied(m, PartitionOf[i])
<1> DEFINE p == PartitionOf[i]
           h == [table |-> k, cpu |-> i]
           m == HandleFault(h, i, type).table
<1>1. p \in Partition /\ Sound(k) /\ k.halted \in [Partition -> BOOLEAN]
  BY TickType, SoundTypes DEF OkBut, TimedBase, TimedType
<1>2. CASE k.hm[p][type] = "HALT_PARTITION"
  <2>1. m = HaltPartition(k, p)
    BY <1>2 DEF HandleFault, Halted
  <2>2. m.halted = [k.halted EXCEPT ![p] = TRUE]
    BY <1>1, <2>1, HaltSound DEF Stopped
  <2> HIDE DEF m
  <2>3. m.halted[p]
    BY <1>1, <2>2
  <2> QED BY <2>3 DEF m
<1>3. CASE k.hm[p][type] # "HALT_PARTITION"
  <2> DEFINE l == Restart(k, i)
             n == PartitionYield(l, p)
  <2>1. m = n
    BY <1>3 DEF HandleFault, Restarted
  <2> HIDE DEF m
  <2>2. Sound(l)
    BY RestartRefreshes DEF Refreshed, TimedOk, TimedBase, TimedType
  <2> HIDE DEF l
  <2>3. /\ n = PartitionSelect(l, p, TRUE)
        /\ IF SelectStatus(l, p, TRUE) = "OK" THEN n.current[p] \in Process ELSE n = l
        /\ SelectStatus(l, p, TRUE) =
             IF l.halted[p] THEN "PARTITION_HALTED"
             ELSE IF l.current[p] = NoProcess /\ ReadyMask(l, p) = {}
             THEN "QUEUE_EMPTY" ELSE "OK"
    BY <1>1, <2>2, SelectSound DEF PartitionYield
  <2>4. NoProcess \notin Process
    BY TickType DEF NoProcess, Process
  <2> HIDE DEF n
  <2>5. n.halted[p] \/ Occupied(n, p)
    BY <2>3, <2>4 DEF Occupied
  <2> QED BY <2>1, <2>5 DEF m
<1> QED BY <1>2, <1>3

FaultStep ==
  /\ IInv' /\ sys'.pending = sys.pending
  /\ \A j \in Process : sys'.release[j] # sys.release[j] =>
                          j = cpu /\ sys'.release[j] = sys.now

LEMMA FaultKeeps ==
  ASSUME IInv, Fault
  PROVE  FaultStep
<1> DEFINE p == PartitionOf[cpu]
           h == HandleFault([table |-> sys, cpu |-> cpu], cpu, "EXCEPTION")
<1>1. /\ cpu # NoProcess /\ sys.hm[p]["EXCEPTION"] # "IGNORE"
      /\ cpu' = IF h.table.halted[p] THEN NoProcess ELSE h.table.current[p]
      /\ sys' = Deliver(h.table, cpu')
  BY DEF Fault
<1>2. cpu \in Process /\ Runs(sys, cpu) /\ p = Slot /\ p \in Partition /\ TimedOk(sys)
  BY <1>1, CpuRuns, TickType DEF Runs
<1>3. OkBut(sys, cpu)
  BY <1>2 DEF OkBut, TimedOk
<1>4. PICK m, d : h = [table |-> m, cpu |-> d] /\ Handled(sys, m, cpu)
  <2>1. \E m, d : /\ HandleFault([table |-> sys, cpu |-> cpu], cpu, "EXCEPTION")
                      = [table |-> m, cpu |-> d]
                 /\ Handled(sys, m, cpu) /\ d \in Process \cup {NoProcess}
    BY <1>1, <1>2, <1>3, FaultIsHandled
  <2> QED BY <2>1
<1>5. m.halted[p] \/ Occupied(m, p)
  BY <1>1, <1>2, <1>3, <1>4, FaultOccupies
<1>6. /\ cpu' = IF m.halted[p] THEN NoProcess ELSE m.current[p]
      /\ sys' = Deliver(m, cpu')
  BY <1>1, <1>4
<1> HIDE DEF h
<1>7. /\ TimedOk(m) /\ Sound(m) /\ m.now = sys.now /\ m.pending = sys.pending
      /\ Anew(sys, m, cpu) /\ \A j \in Process \ {cpu} : m.release[j] = sys.release[j]
  BY <1>4 DEF Handled, Around, TimedOk, TimedBase, TimedType, Alike
<1>8. /\ m.current[p] \in Process \cup {NoProcess}
      /\ m.current[p] # NoProcess => PartitionOf[m.current[p]] = p
  BY <1>2, <1>7, SoundTypes
<1>9. Restored(m, sys')
  BY <1>6, <1>7, <1>8, DeliverRestores
<1>10. Slot' = p
  BY <1>2, <1>7, <1>9 DEF Slot, Restored
<1>11. CpuOk'
  <2>1. CASE cpu' = NoProcess
    <3>1. sys'.halted[p] \/ (ReadyMask(sys', p) = {} /\ sys'.current[p] = NoProcess)
      BY <1>5, <1>6, <1>9, <2>1 DEF Restored, Occupied, ReadyMask
    <3> QED BY <1>10, <2>1, <3>1 DEF CpuOk, NoIdleWithWork
  <2>2. CASE cpu' # NoProcess
    <3>1. ~m.halted[p] /\ cpu' = m.current[p]
      BY <1>6, <2>2
    <3> QED BY <1>8, <1>9, <1>10, <2>2, <3>1 DEF CpuOk, Restored
  <2> QED BY <2>1, <2>2
<1> QED BY <1>7, <1>9, <1>11 DEF FaultStep, IInv, Restored, Anew

-----------------------------------------------------------------------------
(* The tick.                                                               *)

\* What a tick does to process j.
TickOf(j) ==
  /\ j \notin sys.pending /\ sys.state[j] = "BLOCKED" /\ sys'.state[j] # "BLOCKED" =>
       /\ sys'.now = sys.wake[j]
       /\ cpu' # j => sys'.result[j] =
            IF sys.waitlist[j] = NoList THEN "OK" ELSE "TIMEOUT"
  /\ \/ sys'.release[j] \in {sys.release[j], Plus(sys.release[j], Period[j])}
     \/ j \in sys.pending /\ sys'.release[j] = sys.now
  /\ NoWrap /\ j \in sys'.pending => sys'.release[j] + Capacity[j] <= sys'.now

TickStep == IInv' /\ Misses(sys') = {} /\ \A j \in Process : TickOf(j)

LEMMA TickKeeps ==
  ASSUME IInv, OnTick
  PROVE  TickStep
<1>1. TimedOk(sys) /\ cpu \in Process \cup {NoProcess}
  BY CpuRuns DEF IInv
<1>2. PICK m, d : /\ TakeMisses(sys, cpu) = [table |-> m, cpu |-> d]
                  /\ TakenUpTo(sys, m, NumProcesses)
                  /\ d \in Process \cup {NoProcess}
  BY <1>1, MissesAreTaken
<1> DEFINE k == Advance(m)
           p == SlotOf(m)
           l == PartitionDispatch(k, p)
<1>3. /\ sys.now < MaxTick \/ MaxTick = NoTick
      /\ cpu' = IF SelectStatus(k, p, FALSE) = "OK" THEN l.current[p] ELSE NoProcess
      /\ sys' = IF cpu' = d THEN l ELSE Deliver(l, cpu')
  <2> DEFINE h == TakeMisses(sys, cpu)
  <2>1. h.table = m /\ h.cpu = d
    BY <1>2
  <2> HIDE DEF h
  <2>2. \E g \in {h} : \E x \in {Advance(g.table)}, q \in {SlotOf(g.table)} :
        \E y \in {PartitionDispatch(x, q)} :
          /\ cpu' = IF SelectStatus(x, q, FALSE) = "OK" THEN y.current[q] ELSE NoProcess
          /\ sys' = IF cpu' = g.cpu THEN y ELSE Deliver(y, cpu')
    BY DEF OnTick, h
  <2> HIDE DEF k, p, l
  <2>3. k = Advance(h.table) /\ p = SlotOf(h.table) /\ l = PartitionDispatch(k, p)
    BY <2>1 DEF k, p, l
  <2>4. sys.now < MaxTick \/ MaxTick = NoTick
    BY DEF OnTick
  <2> QED BY <2>1, <2>2, <2>3, <2>4
<1>4. TimedOk(m) /\ m.now = sys.now /\ m.now \in Tick
      /\ \A j \in Process : j \notin m.pending
  <2>1. \A j \in Process : ~(j >= NumProcesses)
    BY ConfigAssumption DEF Process
  <2> QED BY <1>2, <2>1 DEF TakenUpTo, TimedOk, TimedBase, TimedType
<1>5. /\ TimedOk(k) /\ k.now = Plus(m.now, 1) /\ Misses(k) = {}
      /\ \A j \in Process : Ticked(m, k, j)
  BY <1>3, <1>4, AdvanceOk
<1>6. p \in Partition /\ p = PartitionAtTick(Plus(k.now, NoTick))
  <2>1. 1 \in Tick
    BY TickType DEF Tick
  <2> QED BY <1>4, <1>5, <2>1, PartitionOfTick, PlusTicks DEF SlotOf
<1> HIDE DEF k, p
<1>7. TimedType(k) /\ Sound(k)
  BY <1>5 DEF TimedOk, TimedBase, TimedType
<1>8. /\ Dispatched(k, l) /\ Sound(l)
      /\ l = PartitionSelect(k, p, FALSE)
      /\ IF SelectStatus(k, p, FALSE) = "OK"
         THEN /\ l.current[p] \in Process /\ PartitionOf[l.current[p]] = p
              /\ ~k.halted[p]
         ELSE l = k
      /\ SelectStatus(k, p, FALSE) =
           IF k.halted[p] THEN "PARTITION_HALTED"
           ELSE IF k.current[p] = NoProcess /\ ReadyMask(k, p) = {}
           THEN "QUEUE_EMPTY" ELSE "OK"
  BY <1>6, <1>7, SelectTimed, SelectSound DEF PartitionDispatch
<1> HIDE DEF l
<1>9. TimedOk(l) /\ l.now = k.now /\ l.halted = k.halted
      /\ \A j \in Process : /\ l.state[j] = "BLOCKED" <=> k.state[j] = "BLOCKED"
                            /\ l.release[j] = k.release[j]
  BY <1>5, <1>8 DEF Dispatched, Around, SameBlocked, Alike
<1>10. l.pending = k.pending /\ l.deadline = k.deadline /\ l.result = k.result
  BY <1>7, <1>8, TimedReads
     DEF Dispatched, SameBeyond, TimedFields, TableFields, WaitFieldNames
<1>11. cpu' \in Process \cup {NoProcess}
  BY <1>3, <1>8
<1>12. Restored(l, sys')
  BY <1>3, <1>9, <1>11, DeliverRestores
<1>13. Slot' = p
  BY <1>6, <1>9, <1>12 DEF Slot, Restored
<1>14. CpuOk'
  <2>1. CASE SelectStatus(k, p, FALSE) = "OK"
    <3>1. cpu' = l.current[p] /\ cpu' \in Process
      BY <1>3, <1>8, <2>1
    <3>2. cpu' # NoProcess
      BY <3>1, TickType DEF NoProcess, Process
    <3> QED BY <1>8, <1>9, <1>12, <1>13, <2>1, <3>1, <3>2 DEF CpuOk, Restored
  <2>2. CASE SelectStatus(k, p, FALSE) # "OK"
    <3>1. cpu' = NoProcess /\ l = k
      BY <1>3, <1>8, <2>2
    <3>2. sys'.halted[p] \/ (ReadyMask(sys', p) = {} /\ sys'.current[p] = NoProcess)
      BY <1>8, <1>12, <2>2, <3>1 DEF Restored, ReadyMask
    <3> QED BY <1>13, <3>1, <3>2 DEF CpuOk, NoIdleWithWork
  <2> QED BY <2>1, <2>2
<1>15. IInv' /\ Misses(sys') = {}
  BY <1>5, <1>9, <1>10, <1>12, <1>14 DEF IInv, Misses, Restored
<1>16. ASSUME NEW j \in Process PROVE TickOf(j)
  <2>1. /\ Ticked(m, k, j)
        /\ IF j \in sys.pending THEN Anew(sys, m, j)
           ELSE Alike(sys, m, j) /\ m.result[j] = sys.result[j]
    <3>1. j < NumProcesses
      BY ConfigAssumption DEF Process
    <3> QED BY <1>2, <1>5, <3>1 DEF TakenUpTo
  <2>2. /\ sys'.now = k.now /\ sys'.pending = k.pending /\ sys'.release[j] = k.release[j]
        /\ sys'.state[j] = "BLOCKED" <=> k.state[j] = "BLOCKED"
    BY <1>9, <1>10, <1>12 DEF Restored
  <2>3. cpu' # j => sys'.result[j] = k.result[j]
    <3>1. sys' = l \/ sys' = Deliver(l, cpu')
      BY <1>3
    <3>2. TimedType(l)
      BY <1>9 DEF TimedOk, TimedBase
    <3>3. Deliver(l, cpu').result = IF cpu' = NoProcess THEN l.result
                                    ELSE [l.result EXCEPT ![cpu'] = NoResult]
      BY <1>11, <3>2, DeliverTimed
    <3>4. l.result \in [Process -> Result]
      BY <3>2 DEF TimedType
    <3> QED BY <1>10, <3>1, <3>3, <3>4
  <2>4. ASSUME j \notin sys.pending, sys.state[j] = "BLOCKED", sys'.state[j] # "BLOCKED"
        PROVE  /\ sys'.now = sys.wake[j]
               /\ cpu' # j => sys'.result[j] =
                    IF sys.waitlist[j] = NoList THEN "OK" ELSE "TIMEOUT"
    BY <2>1, <2>2, <2>3, <2>4 DEF Ticked, Alike
  <2>5. \/ sys'.release[j] \in {sys.release[j], Plus(sys.release[j], Period[j])}
        \/ j \in sys.pending /\ sys'.release[j] = sys.now
    BY <2>1, <2>2 DEF Ticked, GoesOn, Anew, Alike
  <2>6. NoWrap /\ j \in sys'.pending => sys'.release[j] + Capacity[j] <= sys'.now
    BY <1>4, <2>1, <2>2 DEF Ticked
  <2> QED BY <2>4, <2>5, <2>6 DEF TickOf
<1> QED BY <1>15, <1>16 DEF TickStep
-----------------------------------------------------------------------------
(* Start-up.                                                               *)

\* The record before the first releases are armed.
Created(k, hm) ==
  /\ TimedType(k) /\ k.now = 0 /\ k.nextDue = 0 /\ k.pending = {}
  /\ k.release  = [i \in Process |-> 0]
  /\ k.deadline = [i \in Process |-> NoTick]
  /\ k.periodic = [i \in Process |-> FALSE]
  /\ k.timed    = [i \in Process |-> FALSE]
  /\ k.count = SemaphoreInitial /\ k.hm = hm
  /\ k.state    = [i \in Process |-> "READY"]
  /\ k.halted   = [p \in Partition |-> FALSE]
  /\ k.waiters  = [o \in WaitList |-> <<>>]
  /\ k.waitlist = [i \in Process |-> NoList]
  /\ k.wake     = [i \in Process |-> NoTick]

LEMMA CreatedIsOne ==
  ASSUME NEW hm \in Policies
  PROVE  Created(Merge(Merge(Registered, WaitFields),
                       Merge(TimingFields, [count |-> SemaphoreInitial, hm |-> hm])), hm)
<1> DEFINE c == [count |-> SemaphoreInitial, hm |-> hm]
           g == Merge(TimingFields, c)
           k == Merge(Merge(Registered, WaitFields), g)
<1>1. DOMAIN TimingFields = {"now", "nextDue", "pending", "release", "deadline",
                             "periodic", "timed"} /\ DOMAIN c = {"count", "hm"}
  BY DEF TimingFields
<1>2. DOMAIN g = TimedFields
  BY <1>1 DEF Merge, TimedFields
<1>3. \A x \in DOMAIN TimingFields : g[x] = TimingFields[x]
  BY DEF Merge
<1>4. \A x \in DOMAIN c : x \notin DOMAIN TimingFields => g[x] = c[x]
  BY DEF Merge
<1>5. /\ g.now = 0 /\ g.nextDue = 0 /\ g.pending = {}
      /\ g.release  = [i \in Process |-> 0]
      /\ g.deadline = [i \in Process |-> NoTick]
      /\ g.periodic = [i \in Process |-> FALSE]
      /\ g.timed    = [i \in Process |-> FALSE]
  BY <1>1, <1>3 DEF TimingFields
<1>6. g.count = SemaphoreInitial /\ g.hm = hm
  BY <1>1, <1>4
<1> HIDE DEF g
<1>7. Sound(k) /\ AtBoot(k, g)
  BY <1>2, BootSound DEF TimedFields, TableFields, WaitFieldNames
<1> HIDE DEF k
<1>8. /\ k.now = 0 /\ k.nextDue = 0 /\ k.pending = {}
      /\ k.release  = [i \in Process |-> 0]
      /\ k.deadline = [i \in Process |-> NoTick]
      /\ k.periodic = [i \in Process |-> FALSE]
      /\ k.timed    = [i \in Process |-> FALSE]
      /\ k.count = SemaphoreInitial /\ k.hm = hm
  BY <1>2, <1>5, <1>6, <1>7 DEF AtBoot, TimedFields
<1>9. TimedFields \subseteq DOMAIN k
  BY <1>2, <1>7 DEF AtBoot
<1>10. /\ k.wake \in [Process -> Tick] /\ k.deadline \in [Process -> Tick]
       /\ k.release \in [Process -> Tick] /\ k.result \in [Process -> Result]
       /\ k.periodic \in [Process -> BOOLEAN] /\ k.timed \in [Process -> BOOLEAN]
       /\ k.now \in Tick /\ k.nextDue \in Tick /\ k.pending \in SUBSET Process
  BY <1>7, <1>8, TickType DEF AtBoot, Result
<1>11. k.count \in [SemaphoreId -> Nat]
  BY <1>8, SemaphoreAssumption
<1>12. TimedType(k)
  BY <1>7, <1>8, <1>9, <1>10, <1>11 DEF TimedType
<1> QED BY <1>7, <1>8, <1>12 DEF Created, AtBoot, k, g

\* The states of the rearming at start-up, one for each process.
LEMMA RearmUnfolds ==
  ASSUME NEW k, NEW t
  PROVE  \E f : /\ RearmAll(k, t) = f[NumProcesses]
                /\ f[0] = k
                /\ \A n \in Process : f[n + 1] = Rearm(f[n], n, t)
<1> DEFINE G(N, f) == f = [n \in 0 .. N |->
                             IF n = 0 THEN k ELSE Rearm(f[n - 1], n - 1, t)]
           S == {N \in 0 .. NumProcesses : \E f : G(N, f)}
<1>0. NumProcesses \in Nat
  BY ConfigAssumption
<1>1. 0 \in S
  <2>1. G(0, [n \in 0 .. 0 |-> k])
    OBVIOUS
  <2> HIDE DEF G
  <2> QED BY <1>0, <2>1
<1>2. ASSUME NEW n \in 0 .. NumProcesses, n \in S, n < NumProcesses
      PROVE  n + 1 \in S
  <2>1. PICK f : G(n, f)
    BY <1>2
  <2> DEFINE g == [m \in 0 .. n + 1 |-> IF m = n + 1 THEN Rearm(f[n], n, t) ELSE f[m]]
  <2>2. G(n + 1, g)
    <3> SUFFICES ASSUME NEW m \in 0 .. n + 1
                 PROVE  g[m] = IF m = 0 THEN k ELSE Rearm(g[m - 1], m - 1, t)
      OBVIOUS
    <3>1. CASE m = n + 1
      BY <3>1
    <3>2. CASE m # n + 1
      <4>1. m \in 0 .. n /\ f[m] = IF m = 0 THEN k ELSE Rearm(f[m - 1], m - 1, t)
        BY <2>1, <3>2
      <4> QED BY <4>1
    <3> QED BY <3>1, <3>2
  <2> HIDE DEF g, G
  <2> QED BY <2>2, <1>2, <1>0
<1>3. 0 .. NumProcesses \subseteq S
  <2> HIDE DEF S
  <2> QED BY <1>0, <1>1, <1>2, UpToInduction
<1> DEFINE h == CHOOSE f : G(NumProcesses, f)
<1>4. RearmAll(k, t) = h[NumProcesses]
  BY DEF RearmAll
<1>5. G(NumProcesses, h)
  <2> HIDE DEF G
  <2> QED BY <1>0, <1>3
<1> HIDE DEF h
<1>6. h[0] = k /\ \A n \in Process : h[n + 1] = Rearm(h[n], n, t)
  BY <1>0, <1>5 DEF Process
<1> QED BY <1>4, <1>6

\* m is k with the first releases of the processes below n begun at tick zero.
ArmedUpTo(k, m, n) ==
  /\ TimedType(m) /\ m.nextDue = 0
  /\ SameBut(k, m, {"periodic", "timed", "release", "deadline", "nextDue"})
  /\ m.periodic = k.periodic /\ m.timed = k.timed /\ m.release = k.release
  /\ \A j \in Process : m.deadline[j] = IF j < n THEN DeadlineOf(j, 0) ELSE NoTick

LEMMA AllArmed ==
  ASSUME NEW hm, NEW k, Created(k, hm)
  PROVE  ArmedUpTo(k, RearmAll(k, 0), NumProcesses)
<1>1. PICK f : /\ RearmAll(k, 0) = f[NumProcesses]
               /\ f[0] = k
               /\ \A n \in Process : f[n + 1] = Rearm(f[n], n, 0)
  BY RearmUnfolds
<1>2. NumProcesses \in Nat
  BY ConfigAssumption
<1> DEFINE S == {n \in 0 .. NumProcesses : ArmedUpTo(k, f[n], n)}
<1>3. 0 \in S
  <2>1. \A j \in Process : ~(j < 0)
    BY TickType
  <2>2. k = [x \in DOMAIN k |-> k[x]]
    BY TimedReads DEF Created
  <2>3. ArmedUpTo(k, k, 0)
    BY <2>1, <2>2 DEF Created, ArmedUpTo, SameBut
  <2> QED BY <1>1, <1>2, <2>3
<1>4. ASSUME NEW n \in 0 .. NumProcesses, n \in S, n < NumProcesses
      PROVE  n + 1 \in S
  <2> DEFINE l == f[n]
             m == f[n + 1]
  <2>1. n \in Process /\ n + 1 \in 0 .. NumProcesses
    BY <1>2, <1>4 DEF Process
  <2>2. ArmedUpTo(k, l, n) /\ m = Rearm(l, n, 0)
    BY <1>1, <1>4, <2>1
  <2> HIDE DEF l, m
  <2>3. Begun(l, m, n, 0)
    BY <2>1, <2>2, TickType, RearmBegins DEF ArmedUpTo
  <2>4. /\ k.periodic[n] = FALSE /\ k.timed[n] = FALSE /\ k.release[n] = 0
        /\ k.periodic \in [Process -> BOOLEAN] /\ k.timed \in [Process -> BOOLEAN]
        /\ k.release \in [Process -> Tick]
    BY <2>1 DEF Created, TimedType
  <2>5. m.periodic = k.periodic
    <3>1. /\ m.periodic = [k.periodic EXCEPT ![n] = FALSE]
          /\ k.periodic = [i \in Process |-> FALSE]
      BY <2>2, <2>3 DEF Begun, ArmedUpTo, Created
    <3> QED BY <2>1, <3>1
  <2>6. m.timed = k.timed
    <3>1. /\ m.timed = [k.timed EXCEPT ![n] = FALSE]
          /\ k.timed = [i \in Process |-> FALSE]
      BY <2>2, <2>3 DEF Begun, ArmedUpTo, Created
    <3> QED BY <2>1, <3>1
  <2>7. m.release = k.release
    BY <2>2, <2>3, <2>4 DEF Begun, ArmedUpTo
  <2>8. m.nextDue = 0
    <3>1. m.nextDue \in Nat /\ l.nextDue = 0 /\ m.nextDue <= l.nextDue
      BY <2>2, <2>3, TickType DEF Begun, ArmedUpTo, TimedType
    <3> QED BY <3>1
  <2>9. ASSUME NEW j \in Process
        PROVE  m.deadline[j] = IF j < n + 1 THEN DeadlineOf(j, 0) ELSE NoTick
    <3>1. /\ m.deadline = [l.deadline EXCEPT ![n] = DeadlineOf(n, 0)]
          /\ l.deadline \in [Process -> Tick]
          /\ l.deadline[j] = IF j < n THEN DeadlineOf(j, 0) ELSE NoTick
      BY <2>2, <2>3 DEF Begun, ArmedUpTo, TimedType
    <3>2. j < n + 1 <=> j < n \/ j = n
      BY <2>1, TickType
    <3> QED BY <2>1, <3>1, <3>2
  <2>10. SameBut(k, m, {"periodic", "timed", "release", "deadline", "nextDue"})
    BY <2>2, <2>3 DEF Begun, ArmedUpTo, SameBut
  <2>11. ArmedUpTo(k, m, n + 1)
    BY <2>3, <2>5, <2>6, <2>7, <2>8, <2>9, <2>10 DEF ArmedUpTo, Begun
  <2> QED BY <2>1, <2>11 DEF m
<1>5. 0 .. NumProcesses \subseteq S
  <2> HIDE DEF S
  <2> QED BY <1>2, <1>3, <1>4, UpToInduction
<1> QED BY <1>1, <1>2, <1>5

\* The state in which the timer is started.
LEMMA ArmedOk ==
  ASSUME NEW hm, NEW k, Created(k, hm)
  PROVE  LET m == RearmAll(k, 0) IN
         TimedOk(m) /\ m.now = 0 /\ m.halted = [p \in Partition |-> FALSE]
<1> DEFINE m == RearmAll(k, 0)
<1>1. ArmedUpTo(k, m, NumProcesses) /\ TimedType(k) /\ TimedType(m)
  <2>1. ArmedUpTo(k, m, NumProcesses)
    BY AllArmed
  <2> HIDE DEF m
  <2> QED BY <2>1 DEF Created, ArmedUpTo
<1> HIDE DEF m
<1>2. /\ m.now = k.now /\ m.hm = k.hm /\ m.pending = k.pending /\ m.halted = k.halted
      /\ m.count = k.count /\ m.waiters = k.waiters
      /\ m.state = k.state /\ m.waitlist = k.waitlist /\ m.wake = k.wake
  BY <1>1, TimedReads
     DEF ArmedUpTo, SameBut, TimedFields, TableFields, WaitFieldNames
<1>3. TimedBase(m)
  <2>1. \A s \in SemaphoreId : /\ m.count[s] <= SemaphoreMax[s]
                               /\ m.waiters[s] = <<>>
    <3>1. SemaphoreId \subseteq WaitList
      BY SemaphoreAssumption, IpcAssumption DEF SemaphoreId, WaitList
    <3> QED BY <1>2, <3>1, SemaphoreAssumption DEF Created
  <2>2. 0 <= MaxTick
    BY TickType
  <2> QED BY <1>1, <1>2, <2>1, <2>2 DEF TimedBase, UnitsOk, Created
<1>4. ASSUME NEW i \in Process
      PROVE  ProcessOk(m, i) /\ (NoWrap => Watched(m, i))
  <2>1. /\ m.state[i] = "READY" /\ m.waitlist[i] = NoList /\ m.wake[i] = NoTick
        /\ m.periodic[i] = FALSE /\ m.timed[i] = FALSE /\ m.release[i] = 0
        /\ m.nextDue = 0 /\ m.now = 0
    BY <1>1, <1>2 DEF ArmedUpTo, Created
  <2>2. m.deadline[i] = DeadlineOf(i, 0)
    <3>1. i < NumProcesses
      BY ConfigAssumption DEF Process
    <3> QED BY <1>1, <3>1 DEF ArmedUpTo
  <2>3. WaitOk(m, i) /\ Ahead(m, i)
    BY <2>1 DEF WaitOk, Ahead
  <2>4. ReleaseOk(m, i)
    <3>1. Capacity[i] \in Nat
      BY TickType
    <3> QED BY <2>1, <2>2, <3>1 DEF ReleaseOk, DeadlineOf
  <2>5. Bounded(m, i)
    <3>1. m.wake[i] \in Nat /\ m.deadline[i] \in Nat
      BY <1>1, TickType DEF TimedType
    <3> QED BY <2>1, <3>1 DEF Bounded
  <2>6. NoWrap => Watched(m, i)
    <3>1. 0 \in Tick /\ 0 <= MaxTick
      BY TickType
    <3> QED BY <2>2, <3>1, DeadlineFits DEF Watched
  <2> QED BY <2>3, <2>4, <2>5, <2>6 DEF ProcessOk
<1>5. TimedOk(m)
  BY <1>3, <1>4 DEF TimedOk
<1> QED BY <1>2, <1>5 DEF Created, m

LEMMA InitHolds == Init => IInv
<1> SUFFICES ASSUME Init PROVE IInv
  OBVIOUS
<1>1. PICK hm \in Policies :
        /\ sys = LET created == Merge(Merge(Registered, WaitFields),
                                  Merge(TimingFields,
                                        [count |-> SemaphoreInitial, hm |-> hm]))
                 IN  PartitionDispatch(Advance(RearmAll(created, 0)), PartitionAtTick(0))
        /\ cpu = sys.current[PartitionAtTick(0)]
  BY DEF Init
<1> DEFINE c == Merge(Merge(Registered, WaitFields),
                      Merge(TimingFields, [count |-> SemaphoreInitial, hm |-> hm]))
           m == RearmAll(c, 0)
           k == Advance(m)
           p == PartitionAtTick(0)
<1>2. Created(c, hm)
  BY CreatedIsOne
<1>3. sys = PartitionSelect(k, p, FALSE) /\ cpu = sys.current[p]
  BY <1>1 DEF PartitionDispatch
<1> HIDE DEF c
<1>4. TimedOk(m) /\ m.now = 0 /\ m.halted = [r \in Partition |-> FALSE]
  BY <1>2, ArmedOk
<1> HIDE DEF m
<1>5. TimedOk(k) /\ k.now = Plus(0, 1) /\ k.halted = m.halted
  <2>1. m.now < MaxTick
    BY <1>4, TickType
  <2> QED BY <1>4, <2>1, AdvanceOk
<1> HIDE DEF k, p
<1>6. p \in Partition /\ PartitionAtTick(Plus(k.now, NoTick)) = p
  <2>1. 0 \in Tick /\ 1 \in Tick
    BY TickType DEF Tick
  <2> QED BY <1>5, <2>1, PartitionOfTick, PlusTicks DEF p
<1>7. TimedType(k) /\ Sound(k)
  BY <1>5 DEF TimedOk, TimedBase, TimedType
<1>8. /\ Dispatched(k, sys) /\ ~k.halted[p]
      /\ IF SelectStatus(k, p, FALSE) = "OK"
         THEN sys.current[p] \in Process /\ PartitionOf[sys.current[p]] = p
         ELSE sys = k
      /\ SelectStatus(k, p, FALSE) # "OK" =>
           k.current[p] = NoProcess /\ ReadyMask(k, p) = {}
  BY <1>3, <1>4, <1>5, <1>6, <1>7, SelectTimed, SelectSound
<1>9. TimedOk(sys) /\ sys.now = k.now /\ ~sys.halted[p] /\ Slot = p
  BY <1>5, <1>6, <1>8 DEF Dispatched, Around, Slot
<1>10. CpuOk
  <2>1. CASE SelectStatus(k, p, FALSE) = "OK"
    <3>1. cpu \in Process
      BY <1>3, <1>8, <2>1
    <3>2. cpu # NoProcess
      BY <3>1, TickType DEF NoProcess, Process
    <3> QED BY <1>3, <1>8, <1>9, <2>1, <3>1, <3>2 DEF CpuOk
  <2>2. CASE SelectStatus(k, p, FALSE) # "OK"
    BY <1>3, <1>8, <1>9, <2>2 DEF CpuOk, NoIdleWithWork
  <2> QED BY <2>1, <2>2
<1> QED BY <1>9, <1>10 DEF IInv
-----------------------------------------------------------------------------
(* The invariant.                                                          *)

\* Every step is the end of a call, a fault or a tick; the clock at its bound
\* counts as a call that does nothing.
LEMMA NextIs ==
  ASSUME IInv, [Next]_vars
  PROVE  CallStep \/ (Fault /\ FaultStep) \/ (OnTick /\ TickStep)
<1>1. ASSUME UNCHANGED vars PROVE CallStep
  <2>1. sys' = sys /\ cpu' = cpu
    BY <1>1 DEF vars
  <2>2. Slot' = Slot
    BY <2>1 DEF Slot
  <2>3. NoIdleWithWork' <=> NoIdleWithWork
    BY <2>1, <2>2 DEF NoIdleWithWork
  <2>4. CpuOk' /\ TimedOk(sys')
    BY <2>1, <2>2, <2>3 DEF CpuOk, IInv
  <2> QED BY <2>1, <2>4 DEF CallStep, IInv
<1>2. CASE Next
  <2>1. ASSUME NEW s \in SemaphoreId,
               SemaphoreSignal(s) \/ \E timeout \in Timeouts : SemaphoreWait(s, timeout)
        PROVE  CallStep
    BY <2>1, SemaphoreKeeps
  <2>2. ASSUME (\E delay \in Timeouts : TimedWait(delay)) \/ CompleteRelease \/ Yield
        PROVE  CallStep
    BY <2>2, WaitKeeps
  <2>3. ASSUME Fault PROVE FaultStep
    BY <2>3, FaultKeeps
  <2>4. ASSUME OnTick PROVE TickStep
    BY <2>4, TickKeeps
  <2>5. ASSUME Horizon PROVE CallStep
    BY <1>1, <2>5 DEF Horizon
  <2> QED BY <1>2, <2>1, <2>2, <2>3, <2>4, <2>5 DEF Next
<1> QED BY <1>1, <1>2

\* In every state of the system its record is as it has to be and the CPU has
\* what the slot's partition runs (tick.c, timing.c, semaphore.c, systick.c,
\* fault_dispatch.c, for every configuration).
THEOREM Invariance == Spec => []IInv
<1>1. Init => IInv
  BY InitHolds
<1>2. IInv /\ [Next]_vars => IInv'
  BY NextIs DEF CallStep, FaultStep, TickStep
<1> QED BY <1>1, <1>2, PTL DEF Spec

\* All fields are of their types, no process waits for a semaphore that has
\* units, and no count exceeds its maximum, whatever signals, timeouts and
\* restarts do (semaphore.c).
THEOREM UnitsAreGiven == Spec => []NoneWaitsForUnits
<1>1. IInv => NoneWaitsForUnits
  <2> SUFFICES ASSUME IInv PROVE NoneWaitsForUnits
    OBVIOUS
  <2>1. TimedType(sys) /\ UnitsOk(sys) /\ \A i \in Process : WaitOk(sys, i)
    BY DEF IInv, TimedOk, TimedBase, ProcessOk
  <2>2. cpu \in Process \cup {NoProcess}
    BY CpuRuns
  <2>3. \A s \in SemaphoreId : sys.count[s] \in 0 .. SemaphoreMax[s]
    <3> TAKE s \in SemaphoreId
    <3>1. sys.count[s] \in Nat /\ SemaphoreMax[s] \in Nat
      BY <2>1, SemaphoreAssumption DEF TimedType
    <3> QED BY <2>1, <3>1 DEF UnitsOk
  <2>4. \A i \in Process : sys.periodic[i] => ~sys.timed[i]
    BY <2>1 DEF WaitOk
  <2>5. /\ sys.now \in Tick /\ sys.nextDue \in Tick
        /\ sys.wake \in [Process -> Tick] /\ sys.deadline \in [Process -> Tick]
        /\ sys.release \in [Process -> Tick] /\ sys.pending \subseteq Process
        /\ sys.state \in [Process -> ProcessState]
        /\ sys.result \in [Process -> {NoResult, "OK", "TIMEOUT"}]
    BY <2>1, SoundTypes DEF TimedType, Result
  <2> QED BY <2>1, <2>2, <2>3, <2>4, <2>5 DEF NoneWaitsForUnits, TypeOK, UnitsOk
<1> QED BY <1>1, Invariance, PTL

\* The cached bound never lies behind a tick that is armed (timing.c,
\* s_next_due).
THEOREM BoundIsOne == Spec => []DueBound
<1>1. IInv => DueBound
  BY DEF IInv, TimedOk, ProcessOk, Bounded, DueBound
<1> QED BY <1>1, Invariance, PTL

\* No wake tick passes unnoticed, and none is armed for a process that does not
\* wait (tick.c, maxrtos_kernel_on_tick).
THEOREM NothingIsLate == Spec => []OnTime
<1>1. IInv => OnTime
  BY DEF IInv, TimedOk, ProcessOk, WaitOk, Ahead, OnTime
<1> QED BY <1>1, Invariance, PTL

\* Time partitioning: only the partition of the slot has the CPU (systick.c).
THEOREM SlotsAreOwned == Spec => []OwnSlot
<1>1. IInv => OwnSlot
  BY DEF IInv, CpuOk, OwnSlot
<1> QED BY <1>1, Invariance, PTL

\* The CPU idles only if the slot's partition is halted or has nothing READY
\* (systick.c, svc.c, fault_dispatch.c).
THEOREM WorkIsDone == Spec => []NoIdleWithWork
<1>1. IInv => NoIdleWithWork
  BY DEF IInv, CpuOk, NoIdleWithWork
<1> QED BY <1>1, Invariance, PTL

\* Every release with a deadline is supervised until it completes, as long as
\* the deadlines fit the tick counter (timing.h, "Lifecycle of a release").
THEOREM ReleasesAreSupervised ==
  ASSUME NoWrap
  PROVE  Spec => []Supervised
<1>1. IInv => Supervised
  BY DEF IInv, TimedOk, Watched, Supervised
<1> QED BY <1>1, Invariance, PTL

\* A wait ends exactly at its wake tick, with the result it has to have, also
\* across the wrap of the tick counter (tick.c, timing.c, ipc_block.c).
THEOREM WaitsEndOnTime == Spec => WakesAtItsTick
<1>1. ASSUME IInv, [Next]_vars, OnTick PROVE \A i \in Process : TickOf(i)
  BY <1>1, TickKeeps DEF TickStep
<1>2. IInv /\ [Next]_vars =>
        [\A i \in Process \ sys.pending :
           OnTick /\ sys.state[i] = "BLOCKED" /\ sys'.state[i] # "BLOCKED" =>
             /\ sys'.now = sys.wake[i]
             /\ cpu' # i => sys'.result[i] =
                  IF sys.waitlist[i] = NoList THEN "OK" ELSE "TIMEOUT"]_vars
  BY <1>1 DEF TickOf
<1> QED BY <1>2, Invariance, PTL DEF Spec, WakesAtItsTick

\* A release begins exactly a period after the one before, or at a restart
\* (timing.c, periodic_wait and release_periodic).
THEOREM ReleasesDoNotDrift == Spec => NoDrift
<1>1. IInv /\ [Next]_vars =>
        [\A i \in Process :
           \/ sys'.release[i] \in {sys.release[i], Plus(sys.release[i], Period[i])}
           \/ /\ (Fault /\ i = cpu) \/ (OnTick /\ i \in sys.pending)
              /\ sys'.release[i] = sys.now]_vars
  <2> SUFFICES ASSUME IInv, [Next]_vars, NEW i \in Process
               PROVE  \/ sys'.release[i] \in {sys.release[i],
                                              Plus(sys.release[i], Period[i])}
                      \/ /\ (Fault /\ i = cpu) \/ (OnTick /\ i \in sys.pending)
                         /\ sys'.release[i] = sys.now
    OBVIOUS
  <2>1. CASE CallStep
    BY <2>1 DEF CallStep
  <2>2. CASE Fault /\ FaultStep
    BY <2>2 DEF FaultStep
  <2>3. CASE OnTick /\ TickStep
    BY <2>3 DEF TickStep, TickOf
  <2> QED BY <2>1, <2>2, <2>3, NextIs
<1> QED BY <1>1, Invariance, PTL DEF Spec, NoDrift

\* The ticks since a release began are the difference of the counters.
LEMMA ElapsedIs ==
  ASSUME NEW t \in Tick, NEW r \in Tick, r <= t
  PROVE  Plus(t, NoTick + 1 - r) = t - r
<1>1. t \in Nat /\ r \in Nat /\ NoTick \in Nat /\ t <= NoTick
  BY TickType
<1>2. ASSUME NEW n \in 0 .. NoTick PROVE (n + (NoTick + 1)) % (NoTick + 1) = n
  BY <1>1
<1>3. t - r \in 0 .. NoTick /\ t + (NoTick + 1 - r) = (t - r) + (NoTick + 1)
  BY <1>1
<1> QED BY <1>2, <1>3 DEF Plus

\* A miss is recorded only when the time capacity has been used up, and at the
\* first tick at which it has, as long as the deadlines fit the tick counter
\* (timing.c, check_deadlines).
THEOREM MissesAreExact ==
  ASSUME NoWrap
  PROVE  Spec => MissesExact
<1>1. ASSUME IInv, [Next]_vars
      PROVE  /\ \A i \in sys'.pending \ sys.pending : Elapsed(i)' >= Capacity[i]
             /\ OnTick => Misses(sys)' = {}
  <2>1. ASSUME OnTick PROVE Misses(sys)' = {}
    BY <1>1, <2>1, TickKeeps DEF TickStep
  <2>2. ASSUME NEW i \in sys'.pending, i \notin sys.pending
        PROVE  Elapsed(i)' >= Capacity[i]
    <3>1. TickStep
      BY <1>1, <2>2, NextIs DEF CallStep, FaultStep
    <3>2. TimedOk(sys') /\ i \in Process
      BY <3>1 DEF TickStep, IInv, TimedOk, TimedBase, TimedType
    <3>3. sys'.release[i] + Capacity[i] <= sys'.now
      BY <2>2, <3>1, <3>2 DEF TickStep, TickOf
    <3>4. /\ sys'.release[i] \in Tick /\ sys'.now \in Tick
          /\ sys'.release[i] <= sys'.now
      BY <3>2 DEF TimedOk, TimedBase, TimedType, ProcessOk, ReleaseOk
    <3>5. Elapsed(i)' = sys'.now - sys'.release[i]
      BY <3>4, ElapsedIs DEF Elapsed
    <3>6. sys'.release[i] \in Nat /\ sys'.now \in Nat /\ Capacity[i] \in Nat
      BY <3>2, <3>4, TickType
    <3> QED BY <3>3, <3>5, <3>6
  <2> QED BY <2>1, <2>2
<1>2. IInv /\ [Next]_vars =>
        [/\ \A i \in sys'.pending \ sys.pending : Elapsed(i)' >= Capacity[i]
         /\ OnTick => Misses(sys)' = {}]_vars
  BY <1>1
<1> QED BY <1>2, Invariance, PTL DEF Spec, MissesExact
=============================================================================
