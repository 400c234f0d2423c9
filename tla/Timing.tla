------------------------------- MODULE Timing -------------------------------
(***************************************************************************)
(* Time (tick.c, timing.c, frame.c): the tick counter, the frame schedule  *)
(* that maps ticks to partitions, delays, periodic releases and deadlines, *)
(* as operators on the record of IpcBlock with the fields                  *)
(*                                                                         *)
(*   k.now          the tick counter                      (s_current_tick) *)
(*   k.nextDue      no timed event is due before this tick   (s_next_due)  *)
(*   k.pending      processes whose miss is not handled (s_pending_misses) *)
(*   k.release[i]   tick at which the release of i began    (release_time) *)
(*   k.deadline[i]  tick of its deadline, or NoTick        (deadline_time) *)
(*   k.periodic[i]  it waits for its next release       (periodic_waiting) *)
(*   k.timed[i]     it waits for a delay to pass           (timed_waiting) *)
(*                                                                         *)
(* Ticks are unsigned words: sums wrap at NoTick + 1, the largest word     *)
(* being the value that means "no tick".                                   *)
(***************************************************************************)
EXTENDS IpcBlock

CONSTANTS
  Period,     \* pcb->period, 0 for an aperiodic process
  Capacity,   \* pcb->time_capacity, 0 for no deadline
  Slots       \* frame schedule: sequence of [partition, ticks]

Tick == 0 .. NoTick

Plus(t, d) == (t + d) % (NoTick + 1)

ASSUME TimingAssumption ==
  /\ Period \in [Process -> Tick] /\ Capacity \in [Process -> Tick]
  /\ \A i \in Process : Period[i] > 0 => Capacity[i] <= Period[i]
  /\ Slots # <<>>
  /\ \A a \in 1 .. Len(Slots) :
       Slots[a].partition \in Partition /\ Slots[a].ticks \in 1 .. NoTick

-----------------------------------------------------------------------------
(* The frame schedule. *)

\* First tick of slot a in the major frame; after the last slot, its length.
SlotStart[a \in 1 .. Len(Slots) + 1] ==
  IF a = 1 THEN 0 ELSE SlotStart[a - 1] + Slots[a - 1].ticks

\* Faulty variant: the last tick of a slot is also the first of the next one.
PartitionAtTickLong(t) ==
  LET offset == t % SlotStart[Len(Slots) + 1]
      a == CHOOSE a \in 1 .. Len(Slots) :
             /\ SlotStart[a] <= offset /\ offset <= SlotStart[a + 1]
             /\ \A b \in 1 .. a - 1 : offset > SlotStart[b + 1]
  IN  Slots[a].partition

PartitionAtTick(t) ==
  LET offset == t % SlotStart[Len(Slots) + 1]
      a == CHOOSE a \in 1 .. Len(Slots) :
             SlotStart[a] <= offset /\ offset < SlotStart[a + 1]
  IN  Slots[a].partition

-----------------------------------------------------------------------------
(* The bound below which no tick needs a scan. *)

NoteDue(k, t) == IF t < k.nextDue THEN [k EXCEPT !.nextDue = t] ELSE k

RefreshDue(k) ==
  [k EXCEPT !.nextDue =
     CHOOSE t \in Tick :
       LET armed == {k.wake[i] : i \in Process} \cup {k.deadline[i] : i \in Process}
       IN  t \in armed /\ \A u \in armed : t <= u]

-----------------------------------------------------------------------------
(* Releases and deadlines. *)

\* Faulty variant: the bound is not lowered.
ArmUnnoted(k, i) ==
  [k EXCEPT !.deadline[i] =
     IF Capacity[i] = 0 THEN NoTick ELSE Plus(k.release[i], Capacity[i])]

ArmDeadline(k, i) ==
  IF Capacity[i] = 0 THEN [k EXCEPT !.deadline[i] = NoTick]
  ELSE NoteDue([k EXCEPT !.deadline[i] = Plus(k.release[i], Capacity[i])],
               Plus(k.release[i], Capacity[i]))

\* A process that starts or restarts begins a release.
Rearm(k, i, t) ==
  ArmDeadline([k EXCEPT !.periodic[i] = FALSE, !.timed[i] = FALSE, !.release[i] = t], i)

RearmAll(k, t) ==
  LET upTo[n \in 0 .. NumProcesses] ==
        IF n = 0 THEN k ELSE Rearm(upTo[n - 1], n - 1, t)
  IN  upTo[NumProcesses]

TimingFields ==
  [now      |-> 0,
   nextDue  |-> 0,
   pending  |-> {},
   release  |-> [i \in Process |-> 0],
   deadline |-> [i \in Process |-> NoTick],
   periodic |-> [i \in Process |-> FALSE],
   timed    |-> [i \in Process |-> FALSE]]

\* Faulty variant: no check for overflow.
TickFitsAlways(k, d) == TRUE

\* The tick at which a timeout of d ticks ends; NoTick is an infinite timeout.
\* A tick that does not fit the counter is refused: MAXRTOS_ERR_OVERFLOW.
TickFits(k, d) == d = NoTick \/ d < NoTick - k.now

TickAfter(k, d) == IF d = NoTick THEN NoTick ELSE Plus(k.now, d)

-----------------------------------------------------------------------------
(* Waiting for a tick. *)

\* A call that blocks on list o.  The bound is lowered once the process is on
\* the list, even if it then cannot block.
BlockUntil(k, i, o, wake, op) ==
  IF k.state[i] = "RUNNING" /\ Len(k.waiters[o]) < WaitlistMax
  THEN NoteDue(BlockCurrent(k, i, o, wake, op), wake)
  ELSE BlockCurrent(k, i, o, wake, op)

\* Faulty variant: the bound is not lowered.
SleepUnnoted(k, i, wake) == [Sleep(k, i) EXCEPT !.wake[i] = wake]

SleepUntil(k, i, wake) == NoteDue([Sleep(k, i) EXCEPT !.wake[i] = wake], wake)

\* Faulty variant: the tick does not know what the process waits for.
DelayUnmarked(k, i, wake) == SleepUntil(k, i, wake)

DelayUntil(k, i, wake) == [SleepUntil(k, i, wake) EXCEPT !.timed[i] = TRUE]

\* Faulty variant: an overrun begins the next release now.
AwaitReleaseDrifts(k, i, next) ==
  IF k.now >= next THEN ArmDeadline([k EXCEPT !.release[i] = k.now], i)
  ELSE [SleepUntil([k EXCEPT !.deadline[i] = NoTick], i, next)
          EXCEPT !.periodic[i] = TRUE]

\* The release is complete.  If the next one is already due it begins at once
\* (an overrun), at its own tick, not now.
AwaitRelease(k, i, next) ==
  IF k.now >= next THEN ArmDeadline([k EXCEPT !.release[i] = next], i)
  ELSE [SleepUntil([k EXCEPT !.deadline[i] = NoTick], i, next)
          EXCEPT !.periodic[i] = TRUE]

PeriodicWait(k, i) == AwaitRelease(k, i, Plus(k.release[i], Period[i]))

-----------------------------------------------------------------------------
(* What a tick does to them. *)

\* A new release begins at its own tick.
BeginRelease(k, i) == [k EXCEPT !.release[i] = k.wake[i]]

EndWait(k, i) ==
  Resolve([k EXCEPT !.wake[i] = NoTick, !.periodic[i] = FALSE, !.timed[i] = FALSE],
          i, "OK")

\* Faulty variant: one tick early.
ReleaseEarly(k, i) ==
  IF k.state[i] # "BLOCKED" \/ k.now + 1 < k.wake[i] THEN k
  ELSE IF k.periodic[i] \/ k.timed[i] THEN EndWait(k, i) ELSE k

ReleaseOne(k, i) ==
  IF k.state[i] # "BLOCKED" \/ k.now < k.wake[i] THEN k
  ELSE IF k.periodic[i] THEN EndWait(ArmDeadline(BeginRelease(k, i), i), i)
  ELSE IF k.timed[i] THEN EndWait(k, i) ELSE k

ReleasePeriodic(k) ==
  LET upTo[n \in 0 .. NumProcesses] ==
        IF n = 0 THEN k ELSE ReleaseOne(upTo[n - 1], n - 1)
  IN  upTo[NumProcesses]

\* Faulty variant: one tick early.
MissesEarly(k) ==
  {i \in Process :
     k.deadline[i] # NoTick /\ k.now + 1 >= k.deadline[i] /\ ~k.halted[PartitionOf[i]]}

Misses(k) ==
  {i \in Process :
     k.deadline[i] # NoTick /\ k.now >= k.deadline[i] /\ ~k.halted[PartitionOf[i]]}

RecordMisses(k, missed) ==
  [k EXCEPT !.pending  = @ \cup missed,
            !.deadline = [i \in Process |-> IF i \in missed THEN NoTick ELSE @[i]]]

CheckDeadlines(k) == RecordMisses(k, Misses(k))

\* The processes with a wake tick that has come, as ExpireTimeouts takes them.
Due(k) == {i \in Process : k.wake[i] # NoTick /\ k.now >= k.wake[i]}

Scan(k) == RefreshDue(CheckDeadlines(ReleasePeriodic(ExpireTimeouts(k, Due(k)))))

ScanIfDue(k) == IF k.now >= k.nextDue THEN Scan(k) ELSE k

Advance(k) == ScanIfDue([k EXCEPT !.now = Plus(@, 1)])
=============================================================================
