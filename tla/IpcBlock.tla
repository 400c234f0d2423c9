------------------------------ MODULE IpcBlock ------------------------------
(***************************************************************************)
(* Blocking on wait lists: what the mutexes, semaphores, buffers and queue *)
(* ports share (ipc_block.c, ipc_priority.c, waitlist.c), as operators on  *)
(* the record of PartitionTable with the fields                            *)
(*                                                                         *)
(*   k.waiters[o]    wait list o, oldest first                             *)
(*   k.waitlist[i]   the list process i is on, or NoList    (pcb->waitlist)*)
(*   k.wake[i]       tick of its timeout, or NoTick        (pcb->wake_tick)*)
(*   k.op[i]         the call it is blocked in, or NoOp                    *)
(*                                                    (pcb->ipc_operation) *)
(*   k.result[i]     result of that call, until the process is restored,   *)
(*                   or NoResult    (pcb->ipc_result, ipc_result_pending)  *)
(***************************************************************************)
EXTENDS PartitionTable

CONSTANTS
  NumWaitLists,  \* wait lists of the objects of the system
  WaitlistMax,   \* MAXRTOS_WAITLIST_MAX
  NoTick         \* MAXRTOS_TICK_NONE

WaitList == 0 .. NumWaitLists - 1
NoList   == NumWaitLists
NoOp     == [kind |-> "NONE"]
NoResult == "none"

\* Model values for wake ticks where no property depends on the time: some
\* tick will come, or none.
Armed == 0

ASSUME IpcAssumption ==
  /\ NumWaitLists \in Nat
  /\ WaitlistMax \in Nat \ {0}
  /\ NoTick \in Nat \ {Armed}

WaitFields ==
  [waiters  |-> [o \in WaitList |-> <<>>],
   waitlist |-> [i \in Process |-> NoList],
   wake     |-> [i \in Process |-> NoTick],
   op       |-> [i \in Process |-> NoOp],
   result   |-> [i \in Process |-> NoResult]]

Waits(k, i) == k.state[i] = "BLOCKED" /\ k.waitlist[i] # NoList

-----------------------------------------------------------------------------
(* Blocking. *)

BlockCurrentStatus(k, i, o) ==
  IF k.state[i] # "RUNNING" THEN "INVALID_STATE"
  ELSE IF Len(k.waiters[o]) >= WaitlistMax THEN "POOL_FULL"
  ELSE BlockStatus(k, PartitionOf[i], i)

\* Faulty variant: the caller waits though nothing else can run.
BlockCurrentAnyway(k, i, o, wake, op) ==
  BlockIdle([k EXCEPT !.op[i] = op, !.waiters[o] = Append(@, i), !.waitlist[i] = o,
                      !.wake[i] = wake], PartitionOf[i], i)

\* The operation is saved before the list is found full, and taken back only
\* if the dispatch fails.
BlockCurrent(k, i, o, wake, op) ==
  LET saved  == [k EXCEPT !.op[i] = op]
      waits  == [saved EXCEPT !.waiters[o] = Append(@, i),
                              !.waitlist[i] = o, !.wake[i] = wake]
      status == BlockCurrentStatus(k, i, o)
  IN  IF k.state[i] # "RUNNING" THEN k
      ELSE IF status = "POOL_FULL" THEN saved
      ELSE IF status = "OK" THEN BlockAndDispatch(waits, PartitionOf[i], i)
      ELSE [k EXCEPT !.op[i] = NoOp]

\* Faulty variant: nothing takes the caller's place.
SleepIdle(k, i) == BlockIdle(k, PartitionOf[i], i)

\* timed_wait and periodic_wait take the caller off the CPU even if nothing
\* else in its partition can run.
Sleep(k, i) ==
  IF BlockStatus(k, PartitionOf[i], i) = "OK"
  THEN BlockAndDispatch(k, PartitionOf[i], i)
  ELSE BlockIdle(k, PartitionOf[i], i)

-----------------------------------------------------------------------------
(* Taking a process off a wait list, in arrival or in priority order. *)

FirstWaiter(k, o) == Head(k.waiters[o])

\* Faulty variant: in arrival order.
OldestWaiter(k, o) == FirstWaiter(k, o)

\* The first of the waiters with the best effective priority.
BestWaiter(k, o) ==
  LET s == k.waiters[o]
      best == CHOOSE a \in 1 .. Len(s) :
                \A b \in 1 .. Len(s) :
                  \/ k.priority[s[a]] < k.priority[s[b]]
                  \/ k.priority[s[a]] = k.priority[s[b]] /\ a <= b
  IN  s[best]

ClearBlocked(k, i) ==
  [k EXCEPT !.op[i] = NoOp, !.waitlist[i] = NoList, !.wake[i] = NoTick]

LeaveList(k, o, i) ==
  IF IsIn(k.waiters[o], i) THEN [k EXCEPT !.waiters[o] = Without(@, i)] ELSE k

LeaveAny(k, i) ==
  IF k.waitlist[i] = NoList THEN k ELSE LeaveList(k, k.waitlist[i], i)

\* Faulty variant: the PCB is cleared and the list is not.
TakeWaiterPcb(k, o, i) == ClearBlocked(k, i)

TakeWaiter(k, o, i) == ClearBlocked(LeaveList(k, o, i), i)

-----------------------------------------------------------------------------
(* Completing a blocked call. *)

ResolveStatus(k, i) ==
  IF k.state[i] # "BLOCKED" THEN "INVALID_STATE"
  ELSE AddStatus(SetState(k, i, "READY"), i)

Resolve(k, i, result) ==
  IF k.state[i] # "BLOCKED" THEN k
  ELSE IF ResolveStatus(k, i) # "OK" THEN ReadyProcess(k, i)
  ELSE [ReadyProcess(k, i) EXCEPT !.result[i] = result]

\* The timed waits that end at this tick, in the order of the process ids.
\* `due' is the set of processes whose wake tick has come.
Expires(k, due, i) == i \in due /\ Waits(k, i) /\ k.wake[i] # NoTick

ExpireOne(k, due, i) ==
  IF Expires(k, due, i)
  THEN Resolve(TakeWaiter(k, k.waitlist[i], i), i, "TIMEOUT") ELSE k

ExpireTimeouts(k, due) ==
  LET upTo[n \in 0 .. NumProcesses] ==
        IF n = 0 THEN k ELSE ExpireOne(upTo[n - 1], due, n - 1)
  IN  upTo[NumProcesses]

\* Restoring the context of process c writes the pending result into it.
Deliver(k, c) ==
  IF c = NoProcess THEN k ELSE [k EXCEPT !.result[c] = NoResult]

-----------------------------------------------------------------------------
(* What blocking promises. *)

\* The wait lists and the PCBs agree: a process is on a list exactly if it is
\* BLOCKED there, once, on that list only; a timeout is armed and a call is
\* pending only for a process that waits.
WaitsSound(k) ==
  /\ \A o \in WaitList :
       /\ NoRepeats(k.waiters[o]) /\ Len(k.waiters[o]) <= WaitlistMax
       /\ \A i \in Process : IsIn(k.waiters[o], i) <=> Waits(k, i) /\ k.waitlist[i] = o
  /\ \A i \in Process : k.waitlist[i] # NoList => k.state[i] = "BLOCKED"
=============================================================================
