------------------------------ MODULE Channel -------------------------------
(***************************************************************************)
(* Buffers within a partition (buffer.c) and queuing ports across          *)
(* partitions (queue_port.c), with their message store (fifo.c) and what   *)
(* timeouts, restarts and halts do to the processes that wait at them.     *)
(* Both run the same protocol; they differ in who may use the object and   *)
(* in whom it serves first.  Timeouts are of any length, as in Mutex.      *)
(***************************************************************************)
EXTENDS Recovery

CONSTANTS
  NumChannels,
  ChannelCapacity,
  Ports,       \* the objects that a channel may be created as
  Message,
  Nothing,
  NoWait,      \* a timeout of zero
  MaxMisses    \* bound: deadline misses that one tick handles

ChannelId == 0 .. NumChannels - 1

\* The two wait lists of a channel.
Receivers(c) == 2 * c
Senders(c)   == 2 * c + 1

ASSUME ChannelAssumption ==
  /\ NumChannels \in Nat /\ NumWaitLists = 2 * NumChannels
  /\ Nothing \notin Message /\ NoWait \notin {Armed, NoTick}
  /\ ChannelCapacity \in [ChannelId -> Nat \ {0}]
  /\ Ports \subseteq [senders   : SUBSET Partition,
                      receivers : SUBSET Partition,
                      order     : {"FIFO", "PRIORITY"}]
  /\ MaxMisses \in Nat

\* sys is the record of Services with the fields
\*   sys.port[c]      the partitions that may use channel c and its
\*                   discipline
\*   sys.buffer[c]    its messages, oldest first                       (fifo)
\*   sys.taken[c]     the message received from it last, and the process into
\*                    whose buffer it was copied                (out_message)
SendOp(c, m) == [kind |-> "SEND", id |-> c, message |-> m]
ReceiveOp(c) == [kind |-> "RECEIVE", id |-> c]

Took(i, m) == [by |-> i, message |-> m]

TypeOK ==
  /\ sys.state \in [Process -> ProcessState]
  /\ sys.port \in [ChannelId -> Ports]
  /\ \A c \in ChannelId :
       /\ sys.buffer[c] \in Seq(Message) /\ Len(sys.buffer[c]) <= ChannelCapacity[c]
       /\ sys.taken[c] \in {Nothing} \cup {Took(i, m) : i \in Process, m \in Message}
  /\ sys.wake \in [Process -> {Armed, NoTick}]
  /\ sys.op \in [Process -> {NoOp} \cup {ReceiveOp(c) : c \in ChannelId}
                              \cup {SendOp(c, m) : c \in ChannelId, m \in Message}]
  /\ sys.result \in [Process -> {NoResult, "OK", "TIMEOUT"}]
  /\ cpu \in Process \cup {NoProcess}
  /\ WaitsSound(sys)

Init ==
  \E port \in [ChannelId -> Ports] :
    /\ sys = PartitionDispatch(
               Merge(Merge(Registered, WaitFields),
                     [port   |-> port,
                      buffer |-> [c \in ChannelId |-> <<>>],
                      taken  |-> [c \in ChannelId |-> Nothing]]), 0)
    /\ cpu = sys.current[0]

-----------------------------------------------------------------------------
(* The service. *)

\* Faulty variant: by priority whatever the discipline.
NextWaiterBest(k, c, o) == BestWaiter(k, o)

\* Whom the object serves next of list o.
NextWaiter(k, c, o) ==
  IF k.port[c].order = "PRIORITY" THEN BestWaiter(k, o) ELSE FirstWaiter(k, o)

HasSpace(k, c) == Len(k.buffer[c]) < ChannelCapacity[c]

Push(k, c, m) ==
  IF HasSpace(k, c) THEN [k EXCEPT !.buffer[c] = Append(@, m)] ELSE k

\* Faulty variant: the process is woken to take the message from the store.
HandOverStored(k, c, i, m) ==
  Resolve(TakeWaiter([k EXCEPT !.buffer[c] = Append(@, m)], Receivers(c), i), i, "OK")

\* The message goes straight into the buffer of receiver i, which has waited.
\* (It was found large enough before it waited, so the branch for a receiver
\* that cannot take the message is not reachable.)
HandOver(k, c, i, m) ==
  Resolve(TakeWaiter([k EXCEPT !.taken[c] = Took(i, m)], Receivers(c), i), i, "OK")

\* Sender i has waited for space: its message is accepted with the result of
\* the push.
AdmitSender(k, c, i) ==
  Resolve(TakeWaiter(Push(k, c, k.op[i].message), Senders(c), i), i,
          IF HasSpace(k, c) THEN "OK" ELSE "QUEUE_FULL")

\* Faulty variant: the sender's message is accepted and the sender not told.
AdmitUntold(k, c) ==
  IF k.waiters[Senders(c)] = <<>> THEN k
  ELSE Push(k, c, k.op[NextWaiter(k, c, Senders(c))].message)

\* Faulty variant: the slot that became free is left to the next send.
AdmitNone(k, c) == k

Admit(k, c) ==
  IF k.waiters[Senders(c)] = <<>> THEN k
  ELSE AdmitSender(k, c, NextWaiter(k, c, Senders(c)))

TakeMessage(k, c, i) ==
  [k EXCEPT !.taken[c] = Took(i, Head(k.buffer[c])), !.buffer[c] = Tail(@)]

Await(k, i, o, wake, op) ==
  IF wake = NoWait THEN k ELSE BlockCurrent(k, i, o, wake, op)

SendTo(k, c, i, m, wake) ==
  IF k.waiters[Receivers(c)] # <<>>
  THEN HandOver(k, c, NextWaiter(k, c, Receivers(c)), m)
  ELSE IF HasSpace(k, c) THEN Push(k, c, m)
  ELSE Await(k, i, Senders(c), wake, SendOp(c, m))

ReceiveFrom(k, c, i, wake) ==
  IF k.buffer[c] # <<>> THEN Admit(TakeMessage(k, c, i), c)
  ELSE Await(k, i, Receivers(c), wake, ReceiveOp(c))

Send(c, m, wake) ==
  /\ cpu # NoProcess /\ PartitionOf[cpu] \in sys.port[c].senders
  /\ \E k \in {SendTo(sys, c, cpu, m, wake)} : Return(k)

Receive(c, wake) ==
  /\ cpu # NoProcess /\ PartitionOf[cpu] \in sys.port[c].receivers
  /\ \E k \in {ReceiveFrom(sys, c, cpu, wake)} : Return(k)

-----------------------------------------------------------------------------
(* Faults and the tick. *)

Recoveries == {"RESTART_PROCESS", "HALT_PARTITION"}

Restart(k, i) == [RestartStates(k, i) EXCEPT !.result[i] = NoResult]

Recover(h, i, action) ==
  IF action = "HALT_PARTITION" THEN Halted(h, PartitionOf[i])
  ELSE Restarted(h, Restart(h.table, i), i)

Fault(action) ==
  /\ cpu # NoProcess
  /\ \E h \in {Recover([table |-> sys, cpu |-> cpu], cpu, action)} :
       /\ cpu' = IF action = "HALT_PARTITION" THEN NoProcess
                 ELSE h.table.current[PartitionOf[cpu]]
       /\ sys' = Deliver(h.table, cpu')

\* The deadline misses that the previous tick recorded, in the order of the
\* ids; halting is the policy of some of their partitions.
HandleMiss(h, missed, halting, i) ==
  IF i \notin missed THEN h
  ELSE Recover(h, i, IF PartitionOf[i] \in halting THEN "HALT_PARTITION"
                     ELSE "RESTART_PROCESS")

HandleMisses(k, c, missed, halting) ==
  LET upTo[n \in 0 .. NumProcesses] ==
        IF n = 0 THEN [table |-> k, cpu |-> c]
        ELSE HandleMiss(upTo[n - 1], missed, halting, n - 1)
  IN  upTo[NumProcesses]

\* The misses, the timeouts, the dispatch of the partition whose slot it is.
Tick(p, due, missed, halting) ==
  \E h \in {HandleMisses(sys, cpu, missed, halting)} :
  \E k \in {ExpireTimeouts(h.table, due)} :
  \E l \in {PartitionDispatch(k, p)} :
    /\ cpu' = IF SelectStatus(k, p, FALSE) = "OK" THEN l.current[p] ELSE NoProcess
    /\ sys' = IF cpu' = h.cpu THEN l ELSE Deliver(l, cpu')

\* The waits that a tick can end, and the misses that the one before may have
\* recorded.
Timed  == {i \in Process : sys.state[i] = "BLOCKED" /\ sys.wake[i] = Armed}
Missed == {S \in SUBSET Process : Cardinality(S) <= MaxMisses}

Next ==
  \/ \E c \in ChannelId, wake \in {NoWait, Armed, NoTick} :
       Receive(c, wake) \/ \E m \in Message : Send(c, m, wake)
  \/ Yield \/ \E action \in Recoveries : Fault(action)
  \/ \E p \in Partition, due \in SUBSET Timed, missed \in Missed :
       \E halting \in SUBSET {PartitionOf[i] : i \in missed} :
         Tick(p, due, missed, halting)

Spec == Init /\ [][Next]_vars

-----------------------------------------------------------------------------
(* What a channel must guarantee.                                          *)

\* The message that process i waits to have accepted by channel c.
Offered(c, i) ==
  IF sys.state[i] = "BLOCKED" /\ sys.waitlist[i] = Senders(c)
  THEN sys.op[i].message ELSE Nothing

Promise ==
  INSTANCE BoundedChannels
    WITH Channel <- ChannelId, Capacity <- ChannelCapacity, queue <- sys.buffer,
         offer <- [c \in ChannelId |-> [i \in Process |-> Offered(c, i)]],
         taken <- sys.taken

\* Messages are accepted at most once, only while their sender has not been
\* told otherwise, and received once and in order: also those that are handed
\* straight to a receiver or accepted from a sender that has waited
\* (queue_port.c, "Copying here keeps FIFO order"), across timeouts, restarts
\* and halts.
Implements == Promise!Spec

\* Nobody waits for a message while there is one, or for space while there is
\* some: a wait list and the store are changed by sends, receives, timeouts
\* and restarts of both sides ("A receiver only blocks on an empty queue").  All
\* state is of its type, a store never over its capacity.
NoneWaitsInVain ==
  /\ TypeOK
  /\ \A c \in ChannelId :
       /\ sys.waiters[Receivers(c)] # <<>> => sys.buffer[c] = <<>>
       /\ sys.waiters[Senders(c)] # <<>> => ~HasSpace(sys, c)

\* A process that has waited is told the truth: OK if its message was accepted
\* or one was put into its buffer in that step, TIMEOUT if not (queue_port.h and
\* kernel/buffer.h, "Its final result"; the QUEUE_FULL and QUEUE_EMPTY that
\* include/maxrtos/buffer.h names for a wait in vain are not what it is told).
TruthfulResults ==
  [][\A c \in ChannelId, i \in Process :
       sys'.result[i] # sys.result[i] /\ sys'.result[i] # NoResult =>
         /\ sys.waitlist[i] = Senders(c) =>
              sys'.buffer[c] = IF sys'.result[i] = "OK"
                               THEN Append(Tail(sys.buffer[c]), sys.op[i].message)
                               ELSE sys.buffer[c]
         /\ sys.waitlist[i] = Receivers(c) =>
              IF sys'.result[i] = "OK" THEN sys'.taken[c] \in {Took(i, m) : m \in Message}
              ELSE sys'.taken[c] = sys.taken[c]]_vars

\* Those who wait are served by the discipline of the object: in the order of
\* arrival, or the best first and among equals the one that came first
\* (buffer.h, maxrtos_queuing_discipline_t).
ServesInOrder ==
  [][\A o \in WaitList, i \in Process :
       LET c == o \div 2
           q == sys.waiters[o]
       IN  sys'.result[i] = "OK" /\ sys.result[i] = NoResult /\ IsIn(q, i) =>
             \A j \in Process \ {i} : IsIn(q, j) =>
               IF sys.port[c].order = "FIFO" THEN IndexIn(q, i) < IndexIn(q, j)
               ELSE \/ sys.priority[i] < sys.priority[j]
                    \/ /\ sys.priority[i] = sys.priority[j]
                       /\ IndexIn(q, i) < IndexIn(q, j)]_vars

\* Not everyone waits for everyone: a call that would leave nothing to run in
\* its partition does not block, so a partition that is not halted always has
\* a process that can run, whoever has timed out or been restarted
\* (ipc_block.c, dispatch.c).
SomeoneCanRun ==
  \A p \in Partition :
    sys.halted[p] \/ \E i \in Members(p) : sys.state[i] # "BLOCKED"
=============================================================================
