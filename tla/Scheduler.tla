----------------------------- MODULE Scheduler ------------------------------
(***************************************************************************)
(* The ready queues of one partition as scheduler.c keeps them: a ring of  *)
(* Capacity entries per priority, with the index of its head and a count,  *)
(* and a mask of the priorities whose ring is not empty.  `mask' is the    *)
(* set of the bits that are set in ready_mask.  Module ReadyQueues is what *)
(* they promise; the refinement is the property Implements.                *)
(***************************************************************************)
EXTENDS Integers, Sequences, FiniteSets

CONSTANTS
  Process,      \* the processes of the partition
  NoProcess,
  MaxPriority,  \* MAXRTOS_MAX_PRIORITY
  Capacity      \* MAXRTOS_MAX_READY_PER_PRIORITY

ASSUME SchedulerAssumption ==
  /\ NoProcess \notin Process
  /\ MaxPriority \in 0 .. 31
  /\ Capacity \in Nat \ {0}
  /\ Cardinality(Process) <= Capacity

Priority == 0 .. MaxPriority
Slot     == 0 .. Capacity - 1

VARIABLES ring, mask, taken

vars == <<ring, mask, taken>>

RingType == [items : [Slot -> Process \cup {NoProcess}],
             head  : Slot,
             count : 0 .. Capacity]

TypeOK ==
  /\ ring \in [Priority -> RingType]
  /\ mask \in SUBSET Priority
  /\ taken \in Process \cup {NoProcess}

Init ==
  /\ ring = [q \in Priority |-> [items |-> [s \in Slot |-> NoProcess],
                                 head |-> 0, count |-> 0]]
  /\ mask = {}
  /\ taken = NoProcess

\* Where the entry a places behind the head is stored.
At(r, a) == (r.head + a) % Capacity
Entry(r, a) == r.items[At(r, a)]
Entries(r) == {Entry(r, a) : a \in 0 .. r.count - 1}

\* The best priority of the mask: the number of its lowest bit that is set.
Word == INSTANCE LowestSetBit
Lowest(m) == Word!LowestSetBit(m)

-----------------------------------------------------------------------------
(* Operations.  A process is queued by code that has just taken it off the *)
(* CPU, woken it or removed it from another queue, so it is in no queue.   *)

NotQueued(i) == \A q \in Priority : i \notin Entries(ring[q])

Enqueue(i, q) ==
  /\ NotQueued(i) /\ ring[q].count < Capacity
  /\ ring' = [ring EXCEPT ![q].items[At(ring[q], ring[q].count)] = i,
                          ![q].count = @ + 1]
  /\ mask' = mask \cup {q}
  /\ taken' = NoProcess

EnqueueFront(i, q) ==
  /\ NotQueued(i) /\ ring[q].count < Capacity
  /\ LET head == (ring[q].head + Capacity - 1) % Capacity
     IN  ring' = [ring EXCEPT ![q].head = head,
                              ![q].items[head] = i,
                              ![q].count = @ + 1]
  /\ mask' = mask \cup {q}
  /\ taken' = NoProcess

\* Faulty variant: the bit of a queue that becomes empty stays set.
TakeNextKeepsBit ==
  /\ mask # {} /\ ring[Lowest(mask)].count > 0
  /\ LET q == Lowest(mask)
     IN  /\ taken' = Entry(ring[q], 0)
         /\ ring' = [ring EXCEPT ![q].head = (@ + 1) % Capacity,
                                 ![q].count = @ - 1]
  /\ UNCHANGED mask

TakeNext ==
  /\ mask # {}
  /\ LET q == Lowest(mask)
     IN  /\ taken' = Entry(ring[q], 0)
         /\ ring' = [ring EXCEPT ![q].head = (@ + 1) % Capacity,
                                 ![q].count = @ - 1]
         /\ mask' = IF ring'[q].count = 0 THEN mask \ {q} ELSE mask

\* The first entry that holds i, the later ones shifted up by one; with none
\* (NOT_FOUND) the ring is left alone.
Found(r, i, a) ==
  /\ a \in 0 .. r.count - 1 /\ Entry(r, a) = i
  /\ \A b \in 0 .. a - 1 : Entry(r, b) # i

\* Faulty variant: the shift does not follow the ring across its end.
ShiftUpInOrder(r, a) ==
  [r EXCEPT !.items = [s \in Slot |->
                        IF At(r, a) <= s /\ s < Capacity - 1
                        THEN r.items[s + 1] ELSE r.items[s]],
            !.count = @ - 1]

ShiftUp(r, a) ==
  [r EXCEPT !.items = [s \in Slot |->
                        IF \E b \in a .. r.count - 2 : At(r, b) = s
                        THEN r.items[(s + 1) % Capacity] ELSE r.items[s]],
            !.count = @ - 1]

RemoveProcess(i, q) ==
  /\ \E a \in 0 .. Capacity - 1 :
       /\ Found(ring[q], i, a)
       /\ ring' = [ring EXCEPT ![q] = ShiftUp(@, a)]
       /\ taken' = i
  /\ mask' = IF ring'[q].count = 0 THEN mask \ {q} ELSE mask

Next ==
  \/ TakeNext
  \/ \E i \in Process, q \in Priority :
       Enqueue(i, q) \/ EnqueueFront(i, q) \/ RemoveProcess(i, q)

Spec == Init /\ [][Next]_vars

-----------------------------------------------------------------------------
\* Heads and counts stay within the rings, and the mask has the bit of exactly
\* the priorities that have a process queued: a bit left behind would make the
\* dispatcher run a stale entry, a missing one would hide a READY process
\* (scheduler.h, take_next and has_higher).
MaskExact == TypeOK /\ mask = {q \in Priority : ring[q].count > 0}

AsSequence(r) == [a \in 1 .. r.count |-> Entry(r, a - 1)]

\* The rings behave as FIFO sequences, wrap-around and removal from the middle
\* included (scheduler.c, maxrtos_scheduler_queue_remove_id).
Promise == INSTANCE ReadyQueues
             WITH queue <- [q \in Priority |-> AsSequence(ring[q])]
Implements == Promise!Spec
=============================================================================
