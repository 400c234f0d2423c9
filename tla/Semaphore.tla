----------------------------- MODULE Semaphore ------------------------------
(***************************************************************************)
(* Counting semaphores of a partition (semaphore.c), as operators on the   *)
(* record of IpcBlock with the field                                       *)
(*                                                                         *)
(*   k.count[s]   units that nobody has taken    (s_semaphore_pool[s].count)*)
(*                                                                         *)
(* Semaphore s has wait list s.  A unit signalled while processes wait     *)
(* goes straight to the best of them and is never counted.                 *)
(***************************************************************************)
EXTENDS IpcBlock

CONSTANTS
  NumSemaphores,
  SemaphorePartition,
  SemaphoreMax,      \* largest count of each
  SemaphoreInitial   \* count at creation

SemaphoreId == 0 .. NumSemaphores - 1

ASSUME SemaphoreAssumption ==
  /\ NumSemaphores \in Nat /\ NumSemaphores <= NumWaitLists
  /\ SemaphorePartition \in [SemaphoreId -> Partition]
  /\ SemaphoreMax \in [SemaphoreId -> Nat \ {0}]
  /\ SemaphoreInitial \in [SemaphoreId -> Nat]
  /\ \A s \in SemaphoreId : SemaphoreInitial[s] <= SemaphoreMax[s]

WaitOp(s) == [kind |-> "SEMAPHORE_WAIT", id |-> s]

TakeUnit(k, s) == [k EXCEPT !.count[s] = @ - 1]

\* The unit of process i, which has left the wait list; if it could not be
\* made READY the unit is kept.
GiveUnit(k, s, i) ==
  IF ResolveStatus(k, i) = "OK" THEN Resolve(k, i, "OK")
  ELSE [Resolve(k, i, "OK") EXCEPT !.count[s] = @ + 1]

\* Faulty variant: counted although a process waits for it.
PostUnitCounted(k, s) ==
  IF k.count[s] < SemaphoreMax[s] THEN [k EXCEPT !.count[s] = @ + 1] ELSE k

\* At its maximum the count stays: MAXRTOS_ERR_OVERFLOW.
PostUnit(k, s) ==
  IF k.waiters[s] # <<>>
  THEN GiveUnit(TakeWaiter(k, s, BestWaiter(k, s)), s, BestWaiter(k, s))
  ELSE IF k.count[s] < SemaphoreMax[s]
  THEN [k EXCEPT !.count[s] = @ + 1] ELSE k
=============================================================================
