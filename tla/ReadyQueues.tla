---------------------------- MODULE ReadyQueues -----------------------------
(***************************************************************************)
(* What a partition's ready queues promise: one FIFO sequence of processes *)
(* per priority, the head of the best non-empty one being next to run.     *)
(* Priority 0 is the highest.  `taken' is what the last operation handed   *)
(* out, NoProcess if nothing.                                              *)
(***************************************************************************)
EXTENDS Integers, Sequences

CONSTANTS Process, NoProcess, MaxPriority, Capacity

Priority == 0 .. MaxPriority

VARIABLES queue, taken

Init ==
  /\ queue = [q \in Priority |-> <<>>]
  /\ taken = NoProcess

Held == {i \in Process :
           \E q \in Priority : \E a \in 1 .. Len(queue[q]) : queue[q][a] = i}

\* A process waits in one queue at most, so it is queued only if it is in none.
Add(i, q) ==
  /\ i \notin Held /\ Len(queue[q]) < Capacity
  /\ queue' = [queue EXCEPT ![q] = Append(@, i)]
  /\ taken' = NoProcess

AddFront(i, q) ==
  /\ i \notin Held /\ Len(queue[q]) < Capacity
  /\ queue' = [queue EXCEPT ![q] = <<i>> \o @]
  /\ taken' = NoProcess

Take(q) ==
  /\ queue[q] # <<>> /\ \A r \in 0 .. q - 1 : queue[r] = <<>>
  /\ queue' = [queue EXCEPT ![q] = Tail(@)]
  /\ taken' = Head(queue[q])

Remove(q, a) ==
  /\ a \in 1 .. Len(queue[q])
  /\ queue' = [queue EXCEPT ![q] = SubSeq(@, 1, a - 1)
                                     \o SubSeq(@, a + 1, Len(@))]
  /\ taken' = queue[q][a]

Next ==
  \/ \E i \in Process, q \in Priority : Add(i, q) \/ AddFront(i, q)
  \/ \E q \in Priority : Take(q) \/ \E a \in 1 .. Capacity : Remove(q, a)

Spec == Init /\ [][Next]_<<queue, taken>>
=============================================================================
