--------------------------- MODULE ChannelProofs ----------------------------
(***************************************************************************)
(* What buffers and queuing ports guarantee, for every configuration: any  *)
(* processes, partitions, channels, capacities, disciplines and messages.  *)
(***************************************************************************)
EXTENDS Channel, IpcBlockProofs

-----------------------------------------------------------------------------
(* The inductive invariant, as predicates on the record.                   *)

ChannelFields == {"port", "buffer", "taken"}

Ops == {NoOp} \cup {ReceiveOp(c) : c \in ChannelId}
         \cup {SendOp(c, m) : c \in ChannelId, m \in Message}
Results == {NoResult, "OK", "TIMEOUT"}
Taken == {Nothing} \cup {Took(i, m) : i \in Process, m \in Message}

\* The fields of the processes that the service writes.
CallsType(k) ==
  /\ k.wake \in [Process -> {Armed, NoTick}]
  /\ k.op \in [Process -> Ops]
  /\ k.result \in [Process -> Results]

StoresType(k) ==
  /\ k.port \in [ChannelId -> Ports]
  /\ k.buffer \in [ChannelId -> Seq(Message)]
  /\ k.taken \in [ChannelId -> Taken]
  /\ \A c \in ChannelId : Len(k.buffer[c]) <= ChannelCapacity[c]

\* Nobody waits at channel c for what is there.
InVain(k, c) ==
  \/ k.waiters[Receivers(c)] # <<>> /\ k.buffer[c] # <<>>
  \/ k.waiters[Senders(c)] # <<>> /\ HasSpace(k, c)

\* A process that waits for space has its message with it.
HasMessage(k, j) ==
  \A c \in ChannelId :
    Waits(k, j) /\ k.waitlist[j] = Senders(c) => \E m \in Message : k.op[j] = SendOp(c, m)

\* A partition without a process has none that can run.
Populated == \A p \in Partition : Members(p) # {}

Lively(k) ==
  \A p \in Partition :
    k.halted[p] \/ \E i \in Members(p) : k.state[i] # "BLOCKED"

ChannelOk(k) ==
  /\ Sound(k) /\ ChannelFields \subseteq DOMAIN k
  /\ CallsType(k) /\ StoresType(k)
  /\ \A c \in ChannelId : ~InVain(k, c)
  /\ \A j \in Process : HasMessage(k, j)
  /\ Populated => Lively(k)

-----------------------------------------------------------------------------
(* Steps that neither put in nor take out a message.                       *)

\* What every such step leaves alone of process j ...
Alike(k, m, j) ==
  /\ m.state[j] = "BLOCKED" <=> k.state[j] = "BLOCKED"
  /\ m.waitlist[j] = k.waitlist[j]
  /\ Waits(k, j) => m.op[j] = k.op[j]
  /\ m.result[j] \in {k.result[j], NoResult}

\* ... unless it stops waiting, empty-handed.
GivesUp(k, m, j) ==
  /\ m.state[j] # "BLOCKED" /\ m.waitlist[j] = NoList
  /\ m.result[j] \in {k.result[j], NoResult, "TIMEOUT"}

SameStores(k, m) ==
  m.port = k.port /\ m.buffer = k.buffer /\ m.taken = k.taken

StaysHalted(k, m) == \A p \in Partition : k.halted[p] => m.halted[p]

\* Nobody stops waiting; some do.
Still(k, m) ==
  /\ ChannelOk(m) /\ SameStores(k, m)
  /\ \A j \in Process : Alike(k, m, j)

Quiet(k, m) ==
  /\ ChannelOk(m) /\ SameStores(k, m)
  /\ \A j \in Process : Alike(k, m, j) \/ GivesUp(k, m, j)

LEMMA ListTypes ==
  ASSUME NEW c \in ChannelId
  PROVE  /\ Receivers(c) \in WaitList /\ Senders(c) \in WaitList
         /\ Receivers(c) # NoList /\ Senders(c) # NoList
         /\ \A d \in ChannelId :
              /\ Receivers(c) # Senders(d)
              /\ Receivers(c) = Receivers(d) => c = d
              /\ Senders(c) = Senders(d) => c = d
<1>1. NumChannels \in Nat /\ NumWaitLists = 2 * NumChannels
  BY ChannelAssumption
<1> QED BY <1>1 DEF ChannelId, Receivers, Senders, WaitList, NoList

\* A step that writes only fields of the table and the PCBs is quiet if no
\* process starts to wait.
LEMMA QuietBy ==
  ASSUME NEW k, ChannelOk(k), NEW m, Sound(m),
         SameBut(k, m, TableFields \cup WaitFieldNames), CallsType(m),
         StaysHalted(k, m),
         \A j \in Process : Alike(k, m, j) \/ GivesUp(k, m, j)
  PROVE  Quiet(k, m)
<1>1. /\ Sound(k) /\ ChannelFields \subseteq DOMAIN k /\ StoresType(k)
      /\ \A c \in ChannelId : ~InVain(k, c)
      /\ \A j \in Process : HasMessage(k, j)
      /\ Populated => Lively(k)
  BY DEF ChannelOk
<1>2. SameStores(k, m) /\ ChannelFields \subseteq DOMAIN m
  BY <1>1 DEF SameBut, SameStores, ChannelFields, TableFields, WaitFieldNames
<1>3. StoresType(m)
  BY <1>1, <1>2 DEF StoresType, SameStores
<1>4. \A j \in Process :
        Waits(m, j) => Waits(k, j) /\ m.waitlist[j] = k.waitlist[j]
                         /\ m.op[j] = k.op[j]
  BY DEF Alike, GivesUp, Waits
<1>5. ListsShrink(k, m)
  BY <1>1, <1>4, FewerWaiters
<1>6. ASSUME NEW c \in ChannelId PROVE ~InVain(m, c)
  <2>1. ~InVain(k, c) /\ Receivers(c) \in WaitList /\ Senders(c) \in WaitList
    BY <1>1, ListTypes
  <2> HIDE DEF Receivers, Senders
  <2> QED BY <1>2, <1>5, <2>1 DEF InVain, ListsShrink, SameStores, HasSpace
<1>7. ASSUME NEW j \in Process PROVE HasMessage(m, j)
  BY <1>1, <1>4 DEF HasMessage
<1>8. ASSUME Populated PROVE Lively(m)
  <2>1. \A j \in Process : m.state[j] = "BLOCKED" => k.state[j] = "BLOCKED"
    BY DEF Alike, GivesUp
  <2> QED BY <1>1, <1>8, <2>1 DEF Lively, StaysHalted, Members
<1>9. ChannelOk(m)
  BY <1>2, <1>3, <1>6, <1>7, <1>8 DEF ChannelOk
<1> QED BY <1>2, <1>9 DEF Quiet

LEMMA StillIs ==
  ASSUME NEW k, NEW m
  PROVE  Still(k, m) <=> Quiet(k, m) /\ \A j \in Process : Alike(k, m, j)
BY DEF Still, Quiet

LEMMA QuietThen ==
  ASSUME NEW k, NEW l, NEW m, Quiet(k, l), Quiet(l, m)
  PROVE  Quiet(k, m)
<1>1. ASSUME NEW j \in Process PROVE Alike(k, m, j) \/ GivesUp(k, m, j)
  <2>1. Alike(k, l, j) \/ GivesUp(k, l, j)
    BY DEF Quiet
  <2>2. Alike(l, m, j) \/ GivesUp(l, m, j)
    BY DEF Quiet
  <2> QED BY <2>1, <2>2 DEF Alike, GivesUp, Waits
<1> QED BY <1>1 DEF Quiet, SameStores

LEMMA StillThen ==
  ASSUME NEW k, NEW l, NEW m, Still(k, l), Still(l, m)
  PROVE  Still(k, m)
<1>1. ASSUME NEW j \in Process PROVE Alike(k, m, j)
  <2>1. Alike(k, l, j) /\ Alike(l, m, j)
    BY DEF Still
  <2> QED BY <2>1 DEF Alike, Waits
<1> QED BY <1>1 DEF Still, SameStores

\* A dispatch or a yield.
LEMMA SelectStill ==
  ASSUME NEW k, ChannelOk(k), NEW p \in Partition, NEW y \in BOOLEAN
  PROVE  LET m == PartitionSelect(k, p, y) IN
         /\ Still(k, m)
         /\ m.current[p] \in Process \cup {NoProcess}
         /\ m.current[p] # NoProcess => PartitionOf[m.current[p]] = p
         /\ SelectStatus(k, p, y) = "OK" => m.current[p] \in Process
<1> DEFINE m == PartitionSelect(k, p, y)
<1>1. /\ Sound(m) /\ SameBeyond(k, m) /\ SameBlocked(k, m) /\ m.halted = k.halted
      /\ SelectStatus(k, p, y) = "OK" => m.current[p] \in Process
  BY SelectSound DEF ChannelOk
<1> HIDE DEF m
<1>2. m.waitlist = k.waitlist /\ m.op = k.op /\ m.result = k.result /\ m.wake = k.wake
  BY <1>1 DEF SameBeyond, ChannelOk, Sound, IpcType, TableFields, WaitFieldNames
<1>3. SameBut(k, m, TableFields \cup WaitFieldNames)
  BY <1>1 DEF SameBeyond, SameBut, Extends
<1>4. CallsType(m) /\ StaysHalted(k, m)
  BY <1>1, <1>2 DEF ChannelOk, CallsType, StaysHalted
<1>5. \A j \in Process : Alike(k, m, j)
  BY <1>1, <1>2 DEF Alike, SameBlocked
<1>6. Still(k, m)
  BY <1>1, <1>3, <1>4, <1>5, QuietBy, StillIs
<1>7. m.current \in [Partition -> Process \cup {NoProcess}]
      /\ \A r \in Partition : m.current[r] # NoProcess => PartitionOf[m.current[r]] = r
  BY <1>1, SoundTypes
<1> QED BY <1>1, <1>6, <1>7 DEF m

\* The result of the call is delivered to the process that runs.
LEMMA DeliverStill ==
  ASSUME NEW k, ChannelOk(k), NEW c \in Process \cup {NoProcess}
  PROVE  Still(k, Deliver(k, c)) /\ Deliver(k, c).current = k.current
<1> DEFINE m == Deliver(k, c)
<1>1. Delivered(k, m, c)
  BY DeliverSound DEF ChannelOk
<1> HIDE DEF m
<1>2. /\ m.waitlist = k.waitlist /\ m.op = k.op /\ m.wake = k.wake
      /\ m.state = k.state /\ m.halted = k.halted /\ m.current = k.current
  BY <1>1 DEF Delivered, SameBut, ChannelOk, Sound, IpcType, Extends, TableFields,
              WaitFieldNames
<1>3. SameBut(k, m, TableFields \cup WaitFieldNames)
  BY <1>1 DEF Delivered, SameBut, WaitFieldNames
<1>4. m.result \in [Process -> Results]
      /\ \A j \in Process : m.result[j] \in {k.result[j], NoResult}
  BY <1>1 DEF Delivered, ChannelOk, CallsType, Results
<1>5. CallsType(m) /\ StaysHalted(k, m)
  BY <1>2, <1>4 DEF ChannelOk, CallsType, StaysHalted
<1>6. \A j \in Process : Alike(k, m, j)
  BY <1>2, <1>4 DEF Alike
<1> QED BY <1>1, <1>2, <1>3, <1>5, <1>6, QuietBy, StillIs DEF Delivered, m

\* Halting a partition.
LEMMA HaltStill ==
  ASSUME NEW k, ChannelOk(k), NEW p \in Partition
  PROVE  Still(k, HaltPartition(k, p))
<1> DEFINE m == HaltPartition(k, p)
<1>1. Stopped(k, m, p)
  BY HaltSound DEF ChannelOk
<1> HIDE DEF m
<1>2. /\ m.waitlist = k.waitlist /\ m.op = k.op /\ m.wake = k.wake
      /\ m.state = k.state /\ m.result = k.result
  BY <1>1 DEF Stopped, SameBut, ChannelOk, Sound, IpcType, Extends, TableFields,
              WaitFieldNames
<1>3. SameBut(k, m, TableFields \cup WaitFieldNames)
  BY <1>1 DEF Stopped, SameBut, TableFields
<1>4. CallsType(m)
  BY <1>2 DEF ChannelOk, CallsType
<1>5. StaysHalted(k, m)
  <2>1. k.halted \in [Partition -> BOOLEAN]
    BY SoundTypes DEF ChannelOk
  <2>2. m.halted = [k.halted EXCEPT ![p] = TRUE]
    BY <1>1 DEF Stopped
  <2>3. \A r \in Partition : m.halted[r] = IF r = p THEN TRUE ELSE k.halted[r]
    BY <2>1, <2>2, Zenon
  <2> QED BY <2>3 DEF StaysHalted
<1>6. \A j \in Process : Alike(k, m, j)
  BY <1>2 DEF Alike
<1> QED BY <1>1, <1>3, <1>4, <1>5, <1>6, QuietBy, StillIs DEF Stopped, m

-----------------------------------------------------------------------------
(* Timeouts and restarts.                                                  *)

\* A step that writes the fields of a timeout.
LEMMA ExpiryIs ==
  ASSUME NEW k, ChannelOk(k), NEW m, SameBut(k, m, ExpiryFields)
  PROVE  SameBut(k, m, TableFields \cup WaitFieldNames) /\ m.halted = k.halted
<1>1. "halted" \in DOMAIN k \ ExpiryFields
  BY DEF ChannelOk, Sound, IpcType, Extends, TableFields, ExpiryFields
<1> QED BY <1>1 DEF SameBut, ExpiryFields, TableFields, WaitFieldNames

LEMMA CallsBy ==
  ASSUME NEW m, Sound(m),
         \A j \in Process : /\ m.wake[j] \in {Armed, NoTick} /\ m.op[j] \in Ops
                            /\ m.result[j] \in Results
  PROVE  CallsType(m)
<1>1. OnProcesses(m.wake) /\ OnProcesses(m.op) /\ OnProcesses(m.result)
  BY DEF Sound, IpcType
<1> HIDE DEF Ops, Results
<1>2. m.wake \in [Process -> {Armed, NoTick}]
  BY <1>1 DEF OnProcesses
<1>3. m.op \in [Process -> Ops]
  BY <1>1 DEF OnProcesses
<1>4. m.result \in [Process -> Results]
  BY <1>1 DEF OnProcesses
<1> QED BY <1>2, <1>3, <1>4 DEF CallsType

\* The timeouts of a tick.
LEMMA ExpireQuiet ==
  ASSUME NEW k, ChannelOk(k), NEW due
  PROVE  Quiet(k, ExpireTimeouts(k, due))
<1> DEFINE m == ExpireTimeouts(k, due)
<1>1. ExpiredUpTo(k, m, due, NumProcesses)
  BY ExpireTimeoutsSound DEF ChannelOk
<1> HIDE DEF m
<1>2. Sound(m) /\ SameBut(k, m, ExpiryFields)
  BY <1>1 DEF ExpiredUpTo
<1>3. \A j \in Process : j < NumProcesses
  BY ConfigAssumption DEF Process
<1>4. ASSUME NEW j \in Process
      PROVE  TimedOut(m, j) \/ SameProcess(k, m, j)
  BY <1>1, <1>3 DEF ExpiredUpTo
<1>5. CallsType(m)
  <2>1. CallsType(k)
    BY DEF ChannelOk
  <2>2. ASSUME NEW j \in Process
        PROVE  /\ m.wake[j] \in {Armed, NoTick} /\ m.op[j] \in Ops
               /\ m.result[j] \in Results
    <3>1. /\ k.wake[j] \in {Armed, NoTick} /\ k.op[j] \in Ops
          /\ k.result[j] \in Results
      BY <2>1 DEF CallsType
    <3>2. NoOp \in Ops /\ "TIMEOUT" \in Results
      BY DEF Ops, Results
    <3> HIDE DEF Ops, Results
    <3> QED BY <1>4, <3>1, <3>2 DEF TimedOut, SameProcess
  <2> QED BY <1>2, <2>2, CallsBy
<1>6. \A j \in Process : Alike(k, m, j) \/ GivesUp(k, m, j)
  BY <1>4 DEF TimedOut, SameProcess, Alike, GivesUp
<1>7. SameBut(k, m, TableFields \cup WaitFieldNames) /\ StaysHalted(k, m)
  BY <1>2, ExpiryIs DEF StaysHalted
<1> QED BY <1>2, <1>5, <1>6, <1>7, QuietBy DEF m

\* The three cases of fault recovery.
LEMMA RestartStatesQuiet ==
  ASSUME NEW k, ChannelOk(k), NEW i \in Process
  PROVE  LET m == RestartStates(k, i) IN
         Quiet(k, m) /\ m.state[i] = "READY"
<1> DEFINE m == RestartStates(k, i)
<1>1. Sound(k) /\ IpcType(k) /\ CallsType(k) /\ k.state \in [Process -> ProcessState]
  BY SoundTypes DEF ChannelOk, Sound
<1>2. k = [x \in DOMAIN k |-> k[x]]
      /\ TableFields \cup WaitFieldNames \subseteq DOMAIN k
  BY <1>1 DEF IpcType, Extends
<1>3. CASE k.state[i] = "RUNNING"
  <2>1. OffCpu(k, m, i)
    BY <1>1, <1>3, RestartRunningSound DEF RestartStates
  <2> HIDE DEF m
  <2>2. /\ m.waitlist = k.waitlist /\ m.op = k.op /\ m.result = k.result
        /\ m.wake = k.wake
    BY <1>2, <2>1 DEF OffCpu, SameBeyond, TableFields, WaitFieldNames
  <2>3. SameBut(k, m, TableFields \cup WaitFieldNames)
    BY <2>1 DEF OffCpu, SameBeyond, SameBut, Extends
  <2>4. CallsType(m) /\ StaysHalted(k, m)
    BY <1>1, <2>1, <2>2 DEF OffCpu, CallsType, StaysHalted
  <2>5. \A j \in Process : m.state[j] = IF j = i THEN "READY" ELSE k.state[j]
    BY <1>1, <2>1 DEF OffCpu
  <2>6. \A j \in Process : Alike(k, m, j)
    BY <1>3, <2>2, <2>5 DEF Alike
  <2>7. Quiet(k, m)
    BY <2>1, <2>3, <2>4, <2>6, QuietBy DEF OffCpu
  <2> QED BY <2>5, <2>7 DEF m
<1>4. CASE k.state[i] = "BLOCKED"
  <2> DEFINE l == ClearBlocked(LeaveAny(k, i), i)
  <2>1. OffList(k, l, i)
    BY <1>1, <1>4, LeaveSound
  <2>2. m = ReadyProcess(l, i)
    BY <1>4 DEF RestartStates
  <2> HIDE DEF l, m
  <2>3. l.state = k.state /\ l.waitlist[i] = NoList /\ l.result = k.result
    BY <1>1, <1>2, <2>1 DEF OffList, SameBut, TableFields, WaitFieldNames, IpcType
  <2>4. MadeReady(l, m, i, {})
    BY <1>4, <2>1, <2>2, <2>3, ReadySound DEF OffList
  <2>5. SameBut(k, m, {"waiters", "waitlist", "wake", "op"}
                        \cup ({"state", "ready"} \cup {}))
    BY <2>1, <2>4, SameButThen DEF OffList, MadeReady
  <2>6. SameBut(k, m, ExpiryFields)
    BY <2>5 DEF SameBut, ExpiryFields
  <2>7. /\ m.waitlist = l.waitlist /\ m.wake = l.wake /\ m.op = l.op
        /\ m.result = k.result
    BY <1>2, <2>1, <2>3, <2>4 DEF OffList, MadeReady, SameBut, WaitFieldNames
  <2>8. ASSUME NEW j \in Process
        PROVE  /\ m.state[j] = IF j = i THEN "READY" ELSE k.state[j]
               /\ m.waitlist[j] = IF j = i THEN NoList ELSE k.waitlist[j]
               /\ m.wake[j] = IF j = i THEN NoTick ELSE k.wake[j]
               /\ m.op[j] = IF j = i THEN NoOp ELSE k.op[j]
    <3>1. m.state = [k.state EXCEPT ![i] = "READY"]
      BY <2>3, <2>4 DEF MadeReady
    <3>2. /\ m.waitlist = [k.waitlist EXCEPT ![i] = NoList]
          /\ m.wake = [k.wake EXCEPT ![i] = NoTick]
          /\ m.op = [k.op EXCEPT ![i] = NoOp]
      BY <2>1, <2>7 DEF OffList
    <3> QED BY <1>1, <3>1, <3>2 DEF IpcType, OnProcesses
  <2>9. CallsType(m)
    <3>1. NoOp \in Ops
      BY DEF Ops
    <3>2. Sound(m)
      BY <2>4 DEF MadeReady
    <3> HIDE DEF Ops, Results
    <3>3. \A j \in Process : /\ m.wake[j] \in {Armed, NoTick} /\ m.op[j] \in Ops
                             /\ m.result[j] \in Results
      BY <1>1, <2>7, <2>8, <3>1 DEF CallsType
    <3> QED BY <3>2, <3>3, CallsBy
  <2>10. \A j \in Process : Alike(k, m, j) \/ GivesUp(k, m, j)
    BY <2>7, <2>8 DEF Alike, GivesUp
  <2>11. SameBut(k, m, TableFields \cup WaitFieldNames) /\ StaysHalted(k, m)
    BY <2>6, ExpiryIs DEF StaysHalted
  <2>12. Quiet(k, m)
    BY <2>4, <2>9, <2>10, <2>11, QuietBy DEF MadeReady
  <2> QED BY <2>8, <2>12 DEF m
<1>5. CASE k.state[i] # "RUNNING" /\ k.state[i] # "BLOCKED"
  <2>1. m = k
    BY <1>5 DEF RestartStates
  <2>2. k.state[i] = "READY"
    BY <1>1, <1>5 DEF ProcessState
  <2> HIDE DEF m
  <2>3. Quiet(k, k)
    BY DEF Quiet, SameStores, Alike
  <2> QED BY <2>1, <2>2, <2>3 DEF m
<1> QED BY <1>3, <1>4, <1>5

\* A step that drops a pending result.
LEMMA ResultStill ==
  ASSUME NEW k, ChannelOk(k), NEW i \in Process
  PROVE  LET m == [k EXCEPT !.result[i] = NoResult] IN
         Still(k, m) /\ m.state = k.state
<1> DEFINE m == [k EXCEPT !.result[i] = NoResult]
<1>1. m = Deliver(k, i)
  BY ConfigAssumption DEF Deliver, NoProcess, Process
<1> HIDE DEF m
<1>2. Still(k, m) /\ Delivered(k, m, i)
  BY <1>1, DeliverStill, DeliverSound DEF ChannelOk
<1>3. m.state = k.state
  BY <1>2 DEF Delivered, SameBut, ChannelOk, Sound, IpcType, Extends, TableFields
<1> QED BY <1>2, <1>3 DEF m

LEMMA RestartQuiet ==
  ASSUME NEW k, ChannelOk(k), NEW i \in Process
  PROVE  Quiet(k, Restart(k, i))
<1> DEFINE l == RestartStates(k, i)
<1>1. Quiet(k, l)
  BY RestartStatesQuiet
<1>2. Restart(k, i) = [l EXCEPT !.result[i] = NoResult]
  BY DEF Restart
<1> HIDE DEF l
<1>3. Still(l, Restart(k, i))
  BY <1>1, <1>2, ResultStill DEF Quiet
<1> QED BY <1>1, <1>3, StillIs, QuietThen

-----------------------------------------------------------------------------
(* Whom a channel serves next.                                             *)

\* i comes before every other process on list o by the discipline of channel c.
FirstOf(k, c, o, i) ==
  LET q == k.waiters[o] IN
  \A j \in Process \ {i} : IsIn(q, j) =>
    IF k.port[c].order = "FIFO" THEN IndexIn(q, i) < IndexIn(q, j)
    ELSE \/ k.priority[i] < k.priority[j]
         \/ k.priority[i] = k.priority[j] /\ IndexIn(q, i) < IndexIn(q, j)

LEMMA NextIsFirst ==
  ASSUME NEW k, ChannelOk(k), NEW c \in ChannelId, NEW o \in WaitList,
         k.waiters[o] # <<>>
  PROVE  LET i == NextWaiter(k, c, o) IN
         i \in Process /\ IsIn(k.waiters[o], i) /\ FirstOf(k, c, o, i)
<1> DEFINE i == NextWaiter(k, c, o)
           q == k.waiters[o]
<1>1. Sound(k) /\ q \in Seq(Process) /\ NoRepeats(q)
  BY DEF ChannelOk, Sound, IpcType, WaitsSound
<1>2. i \in Process /\ IsIn(q, i)
  BY <1>1, NextIsWaiting DEF NextWaiter
<1>3. \A j : IsIn(q, j) => \E b \in 1 .. Len(q) : j = q[b] /\ IndexIn(q, j) = b
  BY <1>1, IndexIs DEF IsIn
<1>4. k.port[c].order \in {"FIFO", "PRIORITY"}
  <2>1. k.port[c] \in Ports
    BY DEF ChannelOk, StoresType
  <2> QED BY <2>1, ChannelAssumption
<1>5. CASE k.port[c].order = "PRIORITY"
  <2>1. i = BestWaiter(k, o)
    BY <1>5 DEF NextWaiter
  <2> HIDE DEF i
  <2>2. ASSUME NEW j \in Process \ {i}, IsIn(q, j)
        PROVE  \/ k.priority[i] < k.priority[j]
               \/ k.priority[i] = k.priority[j] /\ IndexIn(q, i) < IndexIn(q, j)
    BY <1>1, <2>1, <2>2, BestComesFirst
  <2> QED BY <1>2, <1>5, <2>2 DEF FirstOf, i
<1>6. CASE k.port[c].order = "FIFO"
  <2>1. i = Head(q)
    BY <1>6 DEF NextWaiter, FirstWaiter
  <2>2. i = q[1] /\ 1 \in 1 .. Len(q)
    BY <1>1, <2>1, EmptySeq, LenProperties
  <2>3. IndexIn(q, i) = 1
    BY <1>1, <2>2, IndexIs
  <2> HIDE DEF i
  <2>4. ASSUME NEW j \in Process \ {i}, IsIn(q, j)
        PROVE  IndexIn(q, i) < IndexIn(q, j)
    <3>1. PICK b \in 1 .. Len(q) : j = q[b] /\ IndexIn(q, j) = b
      BY <1>3, <2>4
    <3>2. b # 1
      BY <2>2, <2>4, <3>1
    <3> QED BY <2>3, <3>1, <3>2, <1>1, LenProperties
  <2> QED BY <1>2, <1>6, <2>4 DEF FirstOf, i
<1> QED BY <1>4, <1>5, <1>6

-----------------------------------------------------------------------------
(* What a step may do to messages, results and waiters.                    *)

\* A process that has waited is told the truth.
Truthful(k, m) ==
  \A c \in ChannelId, i \in Process :
    m.result[i] # k.result[i] /\ m.result[i] # NoResult =>
      /\ k.waitlist[i] = Senders(c) =>
           m.buffer[c] = IF m.result[i] = "OK"
                         THEN Append(Tail(k.buffer[c]), k.op[i].message)
                         ELSE k.buffer[c]
      /\ k.waitlist[i] = Receivers(c) =>
           IF m.result[i] = "OK" THEN m.taken[c] \in {Took(i, x) : x \in Message}
           ELSE m.taken[c] = k.taken[c]

\* Those who wait are served by the discipline of the object.
Orderly(k, m) ==
  \A o \in WaitList, i \in Process :
    m.result[i] = "OK" /\ k.result[i] = NoResult /\ IsIn(k.waiters[o], i) =>
      FirstOf(k, o \div 2, o, i)

\* The message that process i waits to have accepted by channel c.
OfferOf(k, c, i) ==
  IF k.state[i] = "BLOCKED" /\ k.waitlist[i] = Senders(c)
  THEN k.op[i].message ELSE Nothing

Offers(k) == [c \in ChannelId |-> [i \in Process |-> OfferOf(k, c, i)]]

\* The steps of BoundedChannels.
Accepts(k, m, c, x) ==
  /\ Len(k.buffer[c]) < ChannelCapacity[c]
  /\ m.buffer = [k.buffer EXCEPT ![c] = Append(@, x)]
  /\ Offers(m) = Offers(k) /\ m.taken = k.taken

MakesOffer(k, m, c, i, x) ==
  /\ Len(k.buffer[c]) = ChannelCapacity[c] /\ Offers(k)[c][i] = Nothing
  /\ Offers(m) = [Offers(k) EXCEPT ![c][i] = x]
  /\ m.buffer = k.buffer /\ m.taken = k.taken

Withdraws(k, m, S) ==
  /\ Offers(m) = [c \in ChannelId |-> [i \in Process |->
                   IF i \in S THEN Nothing ELSE Offers(k)[c][i]]]
  /\ m.buffer = k.buffer /\ m.taken = k.taken

Takes(k, m, c, i) ==
  /\ k.buffer[c] # <<>> /\ Offers(k)[c] = [j \in Process |-> Nothing]
  /\ m.buffer = [k.buffer EXCEPT ![c] = Tail(@)]
  /\ m.taken = [k.taken EXCEPT ![c] = Took(i, Head(k.buffer[c]))]
  /\ Offers(m) = Offers(k)

TakesAndAccepts(k, m, c, i, j) ==
  /\ k.buffer[c] # <<>> /\ Offers(k)[c][j] # Nothing
  /\ m.buffer = [k.buffer EXCEPT ![c] = Append(Tail(@), Offers(k)[c][j])]
  /\ Offers(m) = [Offers(k) EXCEPT ![c][j] = Nothing]
  /\ m.taken = [k.taken EXCEPT ![c] = Took(i, Head(k.buffer[c]))]

PassesOn(k, m, c, i, x) ==
  /\ k.buffer[c] = <<>>
  /\ m.taken = [k.taken EXCEPT ![c] = Took(i, x)]
  /\ m.buffer = k.buffer /\ Offers(m) = Offers(k)

Promised(k, m) ==
  \/ \E c \in ChannelId, i \in Process :
       \/ Takes(k, m, c, i)
       \/ \E j \in Process : TakesAndAccepts(k, m, c, i, j)
       \/ \E x \in Message :
            Accepts(k, m, c, x) \/ MakesOffer(k, m, c, i, x) \/ PassesOn(k, m, c, i, x)
  \/ \E S \in SUBSET Process : Withdraws(k, m, S)

Step(k, m) ==
  ChannelOk(m) /\ Truthful(k, m) /\ Orderly(k, m) /\ Promised(k, m)

LEMMA StillOffers ==
  ASSUME NEW k, NEW m, Still(k, m)
  PROVE  Offers(m) = Offers(k)
<1>1. ASSUME NEW c \in ChannelId, NEW i \in Process
      PROVE  OfferOf(m, c, i) = OfferOf(k, c, i)
  <2>1. Alike(k, m, i) /\ Senders(c) # NoList
    BY ListTypes DEF Still
  <2> QED BY <2>1 DEF OfferOf, Alike, Waits
<1> QED BY <1>1 DEF Offers

LEMMA QuietSteps ==
  ASSUME NEW k, ChannelOk(k), NEW m, Quiet(k, m)
  PROVE  Step(k, m)
<1>1. ChannelOk(m) /\ m.buffer = k.buffer /\ m.taken = k.taken
  BY DEF Quiet, SameStores
<1>2. \A i \in Process : m.result[i] \in {k.result[i], NoResult, "TIMEOUT"}
  BY DEF Quiet, Alike, GivesUp
<1>3. Truthful(k, m)
  BY <1>1, <1>2 DEF Truthful, NoResult
<1>4. Orderly(k, m)
  BY <1>2 DEF Orderly, NoResult
<1> DEFINE S == {i \in Process : GivesUp(k, m, i)}
<1>5. Withdraws(k, m, S)
  <2>1. ASSUME NEW c \in ChannelId, NEW i \in Process
        PROVE  OfferOf(m, c, i) = IF i \in S THEN Nothing ELSE OfferOf(k, c, i)
    <3>1. Senders(c) # NoList /\ (Alike(k, m, i) \/ GivesUp(k, m, i))
      BY ListTypes DEF Quiet
    <3> QED BY <3>1 DEF OfferOf, Alike, GivesUp, Waits
  <2> HIDE DEF S
  <2>2. Offers(m) = [c \in ChannelId |-> [i \in Process |->
                      IF i \in S THEN Nothing ELSE Offers(k)[c][i]]]
    BY <2>1 DEF Offers
  <2> QED BY <1>1, <2>2 DEF Withdraws
<1>6. Promised(k, m)
  BY <1>5 DEF Promised
<1> QED BY <1>1, <1>3, <1>4, <1>6 DEF Step

\* What follows a step of the service: a dispatch and the return to a process.
LEMMA StepThenStill ==
  ASSUME NEW k, NEW l, NEW m, Step(k, l), Still(l, m)
  PROVE  Step(k, m)
<1>1. ChannelOk(m) /\ m.buffer = l.buffer /\ m.taken = l.taken
  BY DEF Still, SameStores
<1>2. \A i \in Process : m.result[i] \in {l.result[i], NoResult}
  BY DEF Still, Alike
<1>3. Offers(m) = Offers(l)
  BY StillOffers
<1>4. Truthful(k, m)
  BY <1>1, <1>2 DEF Step, Truthful
<1>5. Orderly(k, m)
  BY <1>2 DEF Step, Orderly, NoResult
<1>6. Promised(k, m)
  <2>1. Promised(k, l)
    BY DEF Step
  <2>2. ASSUME NEW c \in ChannelId, NEW i \in Process
        PROVE  /\ Takes(k, l, c, i) => Takes(k, m, c, i)
               /\ \A j : TakesAndAccepts(k, l, c, i, j)
                           => TakesAndAccepts(k, m, c, i, j)
               /\ \A x : /\ Accepts(k, l, c, x) => Accepts(k, m, c, x)
                         /\ MakesOffer(k, l, c, i, x) => MakesOffer(k, m, c, i, x)
                         /\ PassesOn(k, l, c, i, x) => PassesOn(k, m, c, i, x)
    BY <1>1, <1>3 DEF Takes, TakesAndAccepts, Accepts, MakesOffer, PassesOn
  <2>3. \A S : Withdraws(k, l, S) => Withdraws(k, m, S)
    BY <1>1, <1>3 DEF Withdraws
  <2> QED BY <2>1, <2>2, <2>3 DEF Promised
<1> QED BY <1>1, <1>4, <1>5, <1>6 DEF Step

-----------------------------------------------------------------------------
(* A process that waits is served.                                         *)

\* m is l, a record like k but for the stores of the channels, with process j,
\* which waits on list o, READY and its call completed.
Serves(k, l, m, o, j) ==
  /\ j \in Process /\ IsIn(k.waiters[o], j)
  /\ Waits(k, j) /\ k.waitlist[j] = o
  /\ Sound(m) /\ DOMAIN m = DOMAIN k /\ CallsType(m)
  /\ m.port = k.port /\ m.buffer = l.buffer /\ m.taken = l.taken
  /\ m.state[j] = "READY" /\ m.waitlist[j] = NoList /\ m.result[j] = "OK"
  /\ \A i \in Process \ {j} : SameProcess(k, m, i)
  /\ ListsShrink(k, m) /\ (Populated => Lively(m))
  /\ \A i \in Process : HasMessage(m, i)
  /\ Orderly(k, m)

LEMMA ServeSound ==
  ASSUME NEW k, ChannelOk(k), NEW l, SameBut(k, l, {"buffer", "taken"}),
         NEW c \in ChannelId, NEW o \in WaitList, o \div 2 = c,
         k.waiters[o] # <<>>
  PROVE  LET j == NextWaiter(k, c, o) IN
         /\ Serves(k, l, Resolve(TakeWaiter(l, o, j), j, "OK"), o, j)
         /\ ResolveStatus(TakeWaiter(l, o, j), j) = "OK"
<1> DEFINE j == NextWaiter(k, c, o)
           m == Resolve(TakeWaiter(l, o, j), j, "OK")
<1>1. j \in Process /\ IsIn(k.waiters[o], j) /\ FirstOf(k, c, o, j)
  BY NextIsFirst
<1> HIDE DEF j
<1>2. Sound(k) /\ CallsType(k) /\ Waits(k, j) /\ k.waitlist[j] = o
  BY <1>1 DEF ChannelOk, Sound, WaitsSound
<1>3. Sound(l)
  <2>1. {"buffer", "taken"} \cap (TableFields \cup WaitFieldNames) = {}
    BY DEF TableFields, WaitFieldNames
  <2> QED BY <1>2, <2>1, ServiceStep
<1>k. TableFields \cup WaitFieldNames \cup ChannelFields \subseteq DOMAIN k
  BY DEF ChannelOk, Sound, IpcType, Extends
<1>4. /\ l.waiters = k.waiters /\ l.waitlist = k.waitlist /\ l.state = k.state
      /\ l.op = k.op /\ l.wake = k.wake /\ l.result = k.result
      /\ l.port = k.port /\ l.halted = k.halted
  BY <1>k DEF SameBut, TableFields, WaitFieldNames, ChannelFields
<1>5. Woken(l, m, j, "OK") /\ ResolveStatus(TakeWaiter(l, o, j), j) = "OK"
  BY <1>1, <1>3, <1>4, WakeSound
<1> HIDE DEF m
<1>6. /\ m.port = k.port /\ m.buffer = l.buffer /\ m.taken = l.taken
      /\ m.halted = k.halted /\ DOMAIN m = DOMAIN k /\ Sound(m)
  BY <1>4, <1>5, <1>k DEF Woken, SameBut, ExpiryFields, ChannelFields, TableFields
<1>7. \A i \in Process \ {j} : SameProcess(k, m, i)
  BY <1>4, <1>5 DEF Woken, SameProcess
<1>8. /\ m.state[j] = "READY" /\ m.waitlist[j] = NoList /\ m.result[j] = "OK"
      /\ m.wake[j] = NoTick /\ m.op[j] = NoOp
  BY <1>5 DEF Woken
<1>9. CallsType(m)
  <2>1. NoOp \in Ops /\ "OK" \in Results
    BY DEF Ops, Results
  <2> HIDE DEF Ops, Results
  <2>2. ASSUME NEW i \in Process
        PROVE  /\ m.wake[i] \in {Armed, NoTick} /\ m.op[i] \in Ops
               /\ m.result[i] \in Results
    <3>1. /\ k.wake[i] \in {Armed, NoTick} /\ k.op[i] \in Ops
          /\ k.result[i] \in Results
      BY <1>2 DEF CallsType
    <3> QED BY <1>7, <1>8, <2>1, <3>1 DEF SameProcess
  <2> QED BY <1>6, <2>2, CallsBy
<1>10. \A i \in Process :
         Waits(m, i) => i # j /\ Waits(k, i) /\ m.waitlist[i] = k.waitlist[i]
                          /\ m.op[i] = k.op[i]
  BY <1>7, <1>8 DEF Waits, SameProcess
<1>11. ListsShrink(k, m)
  BY <1>2, <1>6, <1>10, FewerWaiters
<1>12. \A i \in Process : HasMessage(m, i)
  BY <1>10 DEF ChannelOk, HasMessage
<1>13. Populated => Lively(m)
  <2>1. \A i \in Process : m.state[i] = "BLOCKED" => k.state[i] = "BLOCKED"
    BY <1>7, <1>8 DEF SameProcess
  <2> QED BY <1>6, <2>1 DEF ChannelOk, Lively, Members
<1>14. Orderly(k, m)
  <2> SUFFICES ASSUME NEW p \in WaitList, NEW i \in Process,
                      m.result[i] = "OK", k.result[i] = NoResult,
                      IsIn(k.waiters[p], i)
               PROVE  FirstOf(k, p \div 2, p, i)
    BY DEF Orderly
  <2>1. i = j
    BY <1>7 DEF SameProcess, NoResult
  <2>2. p = o
    BY <1>2, <2>1 DEF Sound, WaitsSound
  <2> QED BY <1>1, <2>1, <2>2
<1>15. Serves(k, l, m, o, j)
  BY <1>1, <1>2, <1>6, <1>7, <1>8, <1>9, <1>11, <1>12, <1>13, <1>14 DEF Serves
<1> QED BY <1>5, <1>15 DEF m, j

\* The channel that a wait list belongs to.
LEMMA ListOf ==
  ASSUME NEW c \in ChannelId
  PROVE  Receivers(c) \div 2 = c /\ Senders(c) \div 2 = c
<1>1. c \in Nat
  BY ChannelAssumption DEF ChannelId
<1> QED BY <1>1 DEF Receivers, Senders

\* A message is handed to a receiver that has waited for it.
LEMMA HandOverSteps ==
  ASSUME NEW k, ChannelOk(k), NEW c \in ChannelId, NEW x \in Message,
         k.waiters[Receivers(c)] # <<>>
  PROVE  Step(k, HandOver(k, c, NextWaiter(k, c, Receivers(c)), x))
<1> DEFINE o == Receivers(c)
           j == NextWaiter(k, c, o)
           l == [k EXCEPT !.taken[c] = Took(j, x)]
           m == HandOver(k, c, j, x)
<1>1. /\ o \in WaitList /\ o \div 2 = c /\ o # NoList
      /\ \A d \in ChannelId : o # Senders(d) /\ (o = Receivers(d) => c = d)
  BY ListTypes, ListOf
<1>2. k.buffer[c] = <<>>
  BY DEF ChannelOk, InVain
<1>k. k = [y \in DOMAIN k |-> k[y]] /\ ChannelFields \subseteq DOMAIN k
  BY DEF ChannelOk, Sound, IpcType, Extends
<1>t. StoresType(k)
  BY DEF ChannelOk
<1>3. SameBut(k, l, {"buffer", "taken"})
      /\ l.buffer = k.buffer /\ l.taken = [k.taken EXCEPT ![c] = Took(j, x)]
  BY <1>k DEF SameBut, ChannelFields
<1>4. m = Resolve(TakeWaiter(l, o, j), j, "OK")
  BY DEF HandOver
<1> HIDE DEF l, m, o
<1>5. Serves(k, l, m, o, j)
  BY <1>1, <1>3, <1>4, ServeSound DEF o
<1> HIDE DEF j
<1>6. /\ m.buffer = k.buffer /\ m.taken = [k.taken EXCEPT ![c] = Took(j, x)]
      /\ m.port = k.port /\ j \in Process
  BY <1>3, <1>5 DEF Serves
<1>7. StoresType(m)
  <2>1. m.taken \in [ChannelId -> Taken]
    BY <1>6, <1>t DEF StoresType, Taken
  <2> QED BY <1>6, <1>t, <2>1 DEF StoresType
<1>8. ASSUME NEW d \in ChannelId PROVE ~InVain(m, d)
  <2>1. ~InVain(k, d) /\ Receivers(d) \in WaitList /\ Senders(d) \in WaitList
    BY ListTypes DEF ChannelOk
  <2> HIDE DEF Receivers, Senders
  <2> QED BY <1>5, <1>6, <2>1 DEF InVain, Serves, ListsShrink, HasSpace
<1>9. ChannelOk(m)
  BY <1>5, <1>7, <1>8 DEF Serves, ChannelOk
<1>10. Truthful(k, m)
  <2> SUFFICES ASSUME NEW d \in ChannelId, NEW i \in Process,
                      m.result[i] # k.result[i]
               PROVE  /\ k.waitlist[i] # Senders(d)
                      /\ k.waitlist[i] = Receivers(d) =>
                           /\ m.result[i] = "OK"
                           /\ m.taken[d] \in {Took(i, z) : z \in Message}
    BY DEF Truthful
  <2>1. i = j
    BY <1>5 DEF Serves, SameProcess
  <2>2. k.waitlist[i] = o /\ m.result[i] = "OK"
    BY <1>5, <2>1 DEF Serves
  <2>3. k.waitlist[i] = Receivers(d) => d = c
    BY <1>1, <2>2
  <2>4. m.taken[c] = Took(i, x)
    BY <1>6, <1>t, <2>1 DEF StoresType
  <2> QED BY <1>1, <2>2, <2>3, <2>4
<1>11. Offers(m) = Offers(k)
  <2>1. ASSUME NEW d \in ChannelId, NEW i \in Process
        PROVE  OfferOf(m, d, i) = OfferOf(k, d, i)
    BY <1>1, <1>5 DEF OfferOf, Serves, SameProcess
  <2> QED BY <2>1 DEF Offers
<1>12. Promised(k, m)
  BY <1>2, <1>6, <1>11 DEF PassesOn, Promised
<1> QED BY <1>5, <1>9, <1>10, <1>12 DEF Step, Serves, m, j, o

\* A send stores its message.
LEMMA PushSteps ==
  ASSUME NEW k, ChannelOk(k), NEW c \in ChannelId, NEW x \in Message,
         k.waiters[Receivers(c)] = <<>>, HasSpace(k, c)
  PROVE  Step(k, Push(k, c, x))
<1> DEFINE m == Push(k, c, x)
<1>k. k = [y \in DOMAIN k |-> k[y]]
      /\ TableFields \cup WaitFieldNames \cup ChannelFields \subseteq DOMAIN k
  BY DEF ChannelOk, Sound, IpcType, Extends
<1>t. StoresType(k)
  BY DEF ChannelOk
<1>1. SameBut(k, m, {"buffer"}) /\ m.buffer = [k.buffer EXCEPT ![c] = Append(@, x)]
  BY <1>k DEF Push, SameBut, ChannelFields
<1> HIDE DEF m
<1>2. /\ m.waiters = k.waiters /\ m.waitlist = k.waitlist /\ m.state = k.state
      /\ m.op = k.op /\ m.wake = k.wake /\ m.result = k.result
      /\ m.port = k.port /\ m.taken = k.taken /\ m.halted = k.halted
      /\ DOMAIN m = DOMAIN k
  BY <1>1, <1>k DEF SameBut, TableFields, WaitFieldNames, ChannelFields
<1>3. Sound(m)
  <2>1. {"buffer"} \cap (TableFields \cup WaitFieldNames) = {}
    BY DEF TableFields, WaitFieldNames
  <2> QED BY <1>1, <2>1, ServiceStep DEF ChannelOk
<1>4. StoresType(m)
  <2>1. k.buffer[c] \in Seq(Message) /\ Len(k.buffer[c]) \in Nat
        /\ ChannelCapacity[c] \in Nat
    BY <1>t, ChannelAssumption, LenProperties DEF StoresType
  <2>2. Append(k.buffer[c], x) \in Seq(Message)
        /\ Len(Append(k.buffer[c], x)) = Len(k.buffer[c]) + 1
    BY <2>1, AppendProperties
  <2>3. \A d \in ChannelId :
          m.buffer[d] = IF d = c THEN Append(k.buffer[c], x) ELSE k.buffer[d]
    BY <1>1, <1>t DEF StoresType
  <2>4. \A d \in ChannelId : Len(m.buffer[d]) <= ChannelCapacity[d]
    <3> TAKE d \in ChannelId
    <3>1. CASE d = c
      <4>1. m.buffer[d] = Append(k.buffer[c], x)
        BY <2>3, <3>1
      <4>2. Len(k.buffer[c]) < ChannelCapacity[c]
        BY DEF HasSpace
      <4>3. Len(Append(k.buffer[c], x)) <= ChannelCapacity[c]
        BY <2>1, <2>2, <4>2
      <4> QED BY <3>1, <4>1, <4>3
    <3>2. CASE d # c
      BY <1>t, <2>3, <3>2 DEF StoresType
    <3> QED BY <3>1, <3>2
  <2>5. m.buffer \in [ChannelId -> Seq(Message)]
    BY <1>1, <1>t, <2>2 DEF StoresType
  <2> QED BY <1>2, <1>t, <2>4, <2>5 DEF StoresType
<1>5. ASSUME NEW d \in ChannelId PROVE ~InVain(m, d)
  <2>1. ~InVain(k, d)
    BY DEF ChannelOk
  <2>2. d # c => m.buffer[d] = k.buffer[d]
    BY <1>1, <1>t DEF StoresType
  <2> QED BY <1>2, <2>1, <2>2 DEF InVain, HasSpace
<1>6. ChannelOk(m)
  <2>1. CallsType(m) /\ \A j \in Process : HasMessage(m, j)
    BY <1>2 DEF ChannelOk, CallsType, HasMessage, Waits
  <2>2. Populated => Lively(m)
    BY <1>2 DEF ChannelOk, Lively
  <2> QED BY <1>2, <1>3, <1>4, <1>5, <2>1, <2>2 DEF ChannelOk
<1>7. Truthful(k, m) /\ Orderly(k, m)
  BY <1>2 DEF Truthful, Orderly, NoResult
<1>8. Offers(m) = Offers(k)
  BY <1>2 DEF Offers, OfferOf
<1>9. Promised(k, m)
  <2>1. Accepts(k, m, c, x)
    BY <1>1, <1>2, <1>8 DEF Accepts, HasSpace
  <2>2. 0 \in Process
    BY ConfigAssumption DEF Process
  <2> QED BY <2>1, <2>2 DEF Promised
<1> QED BY <1>6, <1>7, <1>9 DEF Step, m

\* A receive takes the oldest message, and the slot that it frees goes to the
\* sender that is served next, if one waits.
LEMMA TakeSteps ==
  ASSUME NEW k, ChannelOk(k), NEW c \in ChannelId, NEW i \in Process,
         k.buffer[c] # <<>>
  PROVE  Step(k, Admit(TakeMessage(k, c, i), c))
<1> DEFINE l == TakeMessage(k, c, i)
           m == Admit(l, c)
           b == k.buffer[c]
<1>k. k = [y \in DOMAIN k |-> k[y]]
      /\ TableFields \cup WaitFieldNames \cup ChannelFields \subseteq DOMAIN k
  BY DEF ChannelOk, Sound, IpcType, Extends
<1>t. StoresType(k) /\ Sound(k)
  BY DEF ChannelOk
<1>1. /\ b \in Seq(Message) /\ Len(b) \in Nat \ {0} /\ Len(b) <= ChannelCapacity[c]
      /\ ChannelCapacity[c] \in Nat
      /\ Head(b) \in Message /\ Tail(b) \in Seq(Message) /\ Len(Tail(b)) = Len(b) - 1
  <2>1. b \in Seq(Message) /\ Len(b) <= ChannelCapacity[c]
        /\ ChannelCapacity[c] \in Nat
    BY <1>t, ChannelAssumption DEF StoresType
  <2> HIDE DEF b
  <2> QED BY <2>1, EmptySeq, HeadTailProperties DEF b
<1>2. /\ SameBut(k, l, {"buffer", "taken"})
      /\ l.buffer = [k.buffer EXCEPT ![c] = Tail(b)]
      /\ l.taken = [k.taken EXCEPT ![c] = Took(i, Head(b))]
  BY <1>k DEF TakeMessage, SameBut, ChannelFields
<1> HIDE DEF l
<1>3. /\ l.waiters = k.waiters /\ l.waitlist = k.waitlist /\ l.state = k.state
      /\ l.op = k.op /\ l.wake = k.wake /\ l.result = k.result
      /\ l.port = k.port /\ l.halted = k.halted /\ l.priority = k.priority
      /\ DOMAIN l = DOMAIN k /\ l = [y \in DOMAIN l |-> l[y]]
  BY <1>2, <1>k DEF SameBut, TableFields, WaitFieldNames, ChannelFields
<1>4. l.buffer[c] = Tail(b) /\ HasSpace(l, c)
  <2>1. l.buffer[c] = Tail(b)
    BY <1>2, <1>t DEF StoresType
  <2>2. Len(Tail(b)) < ChannelCapacity[c]
    BY <1>1
  <2> QED BY <2>1, <2>2 DEF HasSpace
<1>5. l.taken \in [ChannelId -> Taken]
  BY <1>1, <1>2, <1>t DEF StoresType, Taken
<1>6. k.waiters[Receivers(c)] = <<>>
  BY DEF ChannelOk, InVain
<1>7. CASE k.waiters[Senders(c)] = <<>>
  <2>1. m = l
    BY <1>3, <1>7 DEF Admit
  <2>2. Sound(l)
    <3>1. {"buffer", "taken"} \cap (TableFields \cup WaitFieldNames) = {}
      BY DEF TableFields, WaitFieldNames
    <3> QED BY <1>2, <1>t, <3>1, ServiceStep
  <2>3. StoresType(l)
    <3>1. \A d \in ChannelId : l.buffer[d] = IF d = c THEN Tail(b) ELSE k.buffer[d]
      BY <1>2, <1>t DEF StoresType
    <3>2. ASSUME NEW d \in ChannelId PROVE Len(l.buffer[d]) <= ChannelCapacity[d]
      <4>1. CASE d = c
        <5>1. Len(Tail(b)) <= ChannelCapacity[c]
          BY <1>1
        <5> QED BY <3>1, <4>1, <5>1
      <4>2. CASE d # c
        BY <1>t, <3>1, <4>2 DEF StoresType
      <4> QED BY <4>1, <4>2
    <3>3. l.buffer \in [ChannelId -> Seq(Message)]
      BY <1>1, <1>2, <1>t DEF StoresType
    <3> QED BY <1>3, <1>5, <1>t, <3>2, <3>3 DEF StoresType
  <2>4. ASSUME NEW d \in ChannelId PROVE ~InVain(l, d)
    <3>1. ~InVain(k, d)
      BY DEF ChannelOk
    <3>2. d # c => l.buffer[d] = k.buffer[d]
      BY <1>2, <1>t DEF StoresType
    <3> QED BY <1>3, <1>6, <1>7, <3>1, <3>2 DEF InVain, HasSpace
  <2>5. ChannelOk(l)
    <3>1. CallsType(l) /\ \A j \in Process : HasMessage(l, j)
      BY <1>3 DEF ChannelOk, CallsType, HasMessage, Waits
    <3>2. Populated => Lively(l)
      BY <1>3 DEF ChannelOk, Lively
    <3> QED BY <1>3, <2>2, <2>3, <2>4, <3>1, <3>2 DEF ChannelOk
  <2>6. Truthful(k, l) /\ Orderly(k, l)
    BY <1>3 DEF Truthful, Orderly, NoResult
  <2>7. Offers(l) = Offers(k)
    BY <1>3 DEF Offers, OfferOf
  <2>8. Offers(k)[c] = [j \in Process |-> Nothing]
    <3>1. ASSUME NEW j \in Process PROVE OfferOf(k, c, j) = Nothing
      <4>1. ~IsIn(k.waiters[Senders(c)], j)
        <5>1. k.waiters[Senders(c)] \in Seq(Process)
          BY <1>t, ListTypes DEF Sound, IpcType
        <5> QED BY <1>7, <5>1, EmptyIffNone
      <4>2. ~(Waits(k, j) /\ k.waitlist[j] = Senders(c))
        BY <1>t, <4>1, ListTypes DEF Sound, WaitsSound
      <4> QED BY <4>2, ListTypes DEF OfferOf, Waits
    <3> QED BY <3>1 DEF Offers
  <2>9. Takes(k, l, c, i)
    BY <1>2, <2>7, <2>8 DEF Takes
  <2>10. Promised(k, l)
    BY <2>9 DEF Promised
  <2> HIDE DEF m
  <2>11. Step(k, l)
    BY <2>5, <2>6, <2>10 DEF Step
  <2>12. Step(k, m)
    BY <2>1, <2>11
  <2> QED BY <2>12 DEF m, l
<1>8. CASE k.waiters[Senders(c)] # <<>>
  <2> DEFINE o == Senders(c)
             j == NextWaiter(k, c, o)
             x == k.op[j].message
             u == Push(l, c, x)
  <2>1. /\ o \in WaitList /\ o \div 2 = c /\ o # NoList
        /\ \A d \in ChannelId : o # Receivers(d) /\ (o = Senders(d) => c = d)
    BY ListTypes, ListOf
  <2>2. NextWaiter(l, c, o) = j
    BY <1>3 DEF NextWaiter, BestWaiter, FirstWaiter
  <2>3. m = Resolve(TakeWaiter(u, o, j), j, "OK")
    BY <1>3, <1>4, <1>8, <2>2 DEF Admit, AdmitSender
  <2>4. SameBut(k, u, {"buffer", "taken"})
        /\ u.buffer = [l.buffer EXCEPT ![c] = Append(@, x)] /\ u.taken = l.taken
    <3>1. u = [l EXCEPT !.buffer[c] = Append(@, x)]
      BY <1>4 DEF Push
    <3> HIDE DEF u
    <3>2. "buffer" \in DOMAIN l /\ "taken" \in DOMAIN l
      BY <1>3, <1>k DEF ChannelFields
    <3> QED BY <1>2, <1>3, <3>1, <3>2 DEF SameBut
  <2> HIDE DEF u, m, o
  <2>5. Serves(k, u, m, o, j)
    BY <1>8, <2>1, <2>3, <2>4, ServeSound DEF o
  <2> HIDE DEF j, x
  <2>6. k.op[j] = SendOp(c, x) /\ x \in Message /\ j \in Process
    <3>1. HasMessage(k, j) /\ Waits(k, j) /\ k.waitlist[j] = Senders(c)
          /\ j \in Process
      BY <2>5 DEF Serves, ChannelOk, o
    <3>2. PICK y \in Message : k.op[j] = SendOp(c, y)
      BY <3>1 DEF HasMessage
    <3>3. x = y
      BY <3>2 DEF x, SendOp
    <3> QED BY <3>1, <3>2, <3>3
  <2>7. /\ m.buffer = [k.buffer EXCEPT ![c] = Append(Tail(b), x)]
        /\ m.taken = l.taken /\ m.port = k.port
    <3>1. [l.buffer EXCEPT ![c] = Append(@, x)]
            = [k.buffer EXCEPT ![c] = Append(Tail(b), x)]
      BY <1>2, <1>t DEF StoresType
    <3> QED BY <2>4, <2>5, <3>1 DEF Serves
  <2>8. /\ Append(Tail(b), x) \in Seq(Message)
        /\ Len(Append(Tail(b), x)) = Len(b)
    <3>1. /\ Append(Tail(b), x) \in Seq(Message)
          /\ Len(Append(Tail(b), x)) = Len(Tail(b)) + 1
      BY <1>1, <2>6, AppendProperties
    <3> QED BY <1>1, <3>1
  <2>9. \A d \in ChannelId :
          m.buffer[d] = IF d = c THEN Append(Tail(b), x) ELSE k.buffer[d]
    BY <2>7, <1>t DEF StoresType
  <2>10. \A d \in ChannelId : Len(m.buffer[d]) = Len(k.buffer[d])
    <3> TAKE d \in ChannelId
    <3>1. CASE d = c
      BY <2>8, <2>9, <3>1
    <3>2. CASE d # c
      BY <2>9, <3>2
    <3> QED BY <3>1, <3>2
  <2>11. StoresType(m)
    <3>1. m.buffer \in [ChannelId -> Seq(Message)]
      BY <2>7, <2>8, <1>t DEF StoresType
    <3> QED BY <1>5, <1>t, <2>7, <2>10, <3>1 DEF StoresType
  <2>12. ASSUME NEW d \in ChannelId PROVE ~InVain(m, d)
    <3>1. ~InVain(k, d) /\ Receivers(d) \in WaitList /\ Senders(d) \in WaitList
      BY ListTypes DEF ChannelOk
    <3>2. HasSpace(m, d) <=> HasSpace(k, d)
      BY <2>10 DEF HasSpace
    <3>3. d # c => m.buffer[d] = k.buffer[d]
      BY <2>9
    <3>4. ListsShrink(k, m)
      BY <2>5 DEF Serves
    <3> HIDE DEF Receivers, Senders
    <3> QED BY <1>6, <3>1, <3>2, <3>3, <3>4 DEF InVain, ListsShrink
  <2>13. ChannelOk(m)
    BY <2>5, <2>11, <2>12 DEF Serves, ChannelOk
  <2>14. Truthful(k, m)
    <3> SUFFICES ASSUME NEW d \in ChannelId, NEW n \in Process,
                        m.result[n] # k.result[n]
                 PROVE  /\ k.waitlist[n] # Receivers(d)
                        /\ k.waitlist[n] = Senders(d) =>
                             /\ m.result[n] = "OK"
                             /\ m.buffer[d] = Append(Tail(k.buffer[d]), k.op[n].message)
      BY DEF Truthful
    <3>1. n = j
      BY <2>5 DEF Serves, SameProcess
    <3>2. k.waitlist[n] = o /\ m.result[n] = "OK"
      BY <2>5, <3>1 DEF Serves
    <3>3. k.waitlist[n] = Senders(d) => d = c
      BY <2>1, <3>2
    <3>4. m.buffer[c] = Append(Tail(k.buffer[c]), k.op[n].message)
      BY <2>9, <3>1 DEF x
    <3> QED BY <2>1, <3>2, <3>3, <3>4
  <2>15. OfferOf(k, c, j) = x /\ x # Nothing
    BY <2>5, <2>6, ChannelAssumption DEF OfferOf, Serves, Waits, o, x
  <2>16. ASSUME NEW d \in ChannelId, NEW n \in Process
         PROVE  OfferOf(m, d, n)
                  = IF d = c /\ n = j THEN Nothing ELSE OfferOf(k, d, n)
    <3>1. CASE n = j
      <4>1. OfferOf(m, d, n) = Nothing
        BY <2>5, <3>1 DEF Serves, OfferOf
      <4>2. d # c => OfferOf(k, d, n) = Nothing
        BY <2>1, <2>5, <3>1 DEF Serves, OfferOf
      <4> QED BY <3>1, <4>1, <4>2
    <3>2. CASE n # j
      <4>1. SameProcess(k, m, n)
        BY <2>5, <3>2 DEF Serves
      <4> QED BY <3>2, <4>1 DEF OfferOf, SameProcess
    <3> QED BY <3>1, <3>2
  <2>17. Offers(m) = [Offers(k) EXCEPT ![c][j] = Nothing]
    BY <2>16 DEF Offers
  <2>18. Offers(k)[c][j] = x
    BY <2>6, <2>15 DEF Offers
  <2>19. TakesAndAccepts(k, m, c, i, j)
    BY <1>2, <2>7, <2>15, <2>17, <2>18 DEF TakesAndAccepts
  <2>20. Promised(k, m)
    BY <2>6, <2>19 DEF Promised
  <2>21. Orderly(k, m)
    BY <2>5 DEF Serves
  <2>22. Step(k, m)
    BY <2>13, <2>14, <2>20, <2>21 DEF Step
  <2> QED BY <2>22 DEF m, l
<1> QED BY <1>7, <1>8

-----------------------------------------------------------------------------
(* Calls that wait.                                                        *)

\* The call waits at channel c for what is not there.
Justified(k, c, o, op) ==
  \/ o = Receivers(c) /\ op = ReceiveOp(c) /\ k.buffer[c] = <<>>
  \/ o = Senders(c) /\ ~HasSpace(k, c) /\ \E x \in Message : op = SendOp(c, x)

\* The call does not wait: at most the saved operation has changed.
LEMMA NotWaiting ==
  ASSUME NEW k, ChannelOk(k), NEW i \in Process, k.state[i] = "RUNNING",
         NEW o \in WaitList, NEW wake, NEW op \in Ops,
         BlockCurrentStatus(k, i, o) # "OK"
  PROVE  Step(k, BlockCurrent(k, i, o, wake, op))
<1> DEFINE m == BlockCurrent(k, i, o, wake, op)
<1>1. Sound(k) /\ IpcType(k) /\ CallsType(k)
  BY DEF ChannelOk, Sound
<1>2. NotBlocked(k, m, i)
  BY <1>1, BlockCurrentSound
<1>3. m = [k EXCEPT !.op[i] = op] \/ m = [k EXCEPT !.op[i] = NoOp]
  BY DEF BlockCurrent
<1>4. k = [x \in DOMAIN k |-> k[x]]
      /\ TableFields \cup WaitFieldNames \cup ChannelFields \subseteq DOMAIN k
  BY DEF ChannelOk, Sound, IpcType, Extends
<1>5. m.op = [k.op EXCEPT ![i] = op] \/ m.op = [k.op EXCEPT ![i] = NoOp]
  BY <1>3, <1>4 DEF WaitFieldNames
<1> HIDE DEF m
<1>6. /\ m.waitlist = k.waitlist /\ m.wake = k.wake /\ m.result = k.result
      /\ m.state = k.state /\ m.halted = k.halted
  BY <1>2, <1>4 DEF NotBlocked, SameBut, TableFields, WaitFieldNames
<1>7. NoOp \in Ops
  BY DEF Ops
<1> HIDE DEF Ops
<1>8. m.op \in [Process -> Ops]
  BY <1>1, <1>5, <1>7 DEF CallsType
<1>9. CallsType(m) /\ StaysHalted(k, m)
  BY <1>1, <1>6, <1>8 DEF CallsType, StaysHalted
<1>10. \A j \in Process : j # i => m.op[j] = k.op[j]
  BY <1>1, <1>5 DEF CallsType
<1>11. \A j \in Process : Alike(k, m, j)
  BY <1>6, <1>10 DEF Alike, Waits
<1>12. Sound(m) /\ SameBut(k, m, TableFields \cup WaitFieldNames)
  BY <1>2 DEF NotBlocked, SameBut, WaitFieldNames
<1>13. Quiet(k, m)
  BY <1>9, <1>11, <1>12, QuietBy
<1> QED BY <1>13, QuietSteps DEF m

\* The caller waits on list o of channel c.
LEMMA WaitingKeeps ==
  ASSUME NEW k, ChannelOk(k), NEW i \in Process, k.state[i] = "RUNNING",
         NEW c \in ChannelId, NEW o \in WaitList, NEW op \in Ops,
         Justified(k, c, o, op), NEW wake \in {Armed, NoTick}, NEW m,
         OnList(k, m, i, o, wake, op)
  PROVE  ChannelOk(m) /\ SameStores(k, m) /\ m.result = k.result
<1>1. /\ Sound(k) /\ IpcType(k) /\ CallsType(k) /\ StoresType(k)
      /\ ChannelFields \subseteq DOMAIN k
  BY DEF ChannelOk, Sound
<1>2. SameStores(k, m) /\ m.result = k.result /\ DOMAIN m = DOMAIN k
  BY <1>1 DEF OnList, SameBut, SameStores, ChannelFields, TableFields,
              WaitFieldNames, IpcType
<1>3. StoresType(m)
  BY <1>1, <1>2 DEF StoresType, SameStores
<1>4. CallsType(m)
  <2> HIDE DEF Ops
  <2>1. m.op \in [Process -> Ops]
    BY <1>1 DEF CallsType, OnList
  <2>2. m.wake \in [Process -> {Armed, NoTick}]
    BY <1>1 DEF CallsType, OnList
  <2> QED BY <1>1, <1>2, <2>1, <2>2 DEF CallsType
<1>5. ASSUME NEW d \in ChannelId PROVE ~InVain(m, d)
  <2>1. ~InVain(k, d) /\ Receivers(d) \in WaitList /\ Senders(d) \in WaitList
    BY ListTypes DEF ChannelOk
  <2>2. \A x \in WaitList : x # o => m.waiters[x] = k.waiters[x]
    BY <1>1 DEF OnList, IpcType
  <2>3. HasSpace(m, d) <=> HasSpace(k, d)
    BY <1>2 DEF HasSpace, SameStores
  <2>4. /\ o = Receivers(d) => k.buffer[d] = <<>>
        /\ o = Senders(d) => ~HasSpace(k, d)
    BY ListTypes DEF Justified
  <2> HIDE DEF Receivers, Senders, HasSpace
  <2>5. m.buffer = k.buffer
    BY <1>2 DEF SameStores
  <2>6. ~(m.waiters[Receivers(d)] # <<>> /\ m.buffer[d] # <<>>)
    BY <2>1, <2>2, <2>4, <2>5 DEF InVain
  <2>7. ~(m.waiters[Senders(d)] # <<>> /\ HasSpace(m, d))
    BY <2>1, <2>2, <2>3, <2>4 DEF InVain
  <2> QED BY <2>6, <2>7 DEF InVain
<1>6. ASSUME NEW j \in Process PROVE HasMessage(m, j)
  <2>1. CASE j # i
    <3>1. /\ m.waitlist[j] = k.waitlist[j] /\ m.op[j] = k.op[j]
          /\ m.state[j] = "BLOCKED" <=> k.state[j] = "BLOCKED"
      BY <1>1, <2>1 DEF OnList, GivesWay, IpcType, OnProcesses
    <3> QED BY <3>1 DEF ChannelOk, HasMessage, Waits
  <2>2. CASE j = i
    <3>1. m.waitlist[j] = o /\ m.op[j] = op
      BY <1>1, <2>2 DEF OnList, IpcType, OnProcesses
    <3>2. ASSUME NEW d \in ChannelId, o = Senders(d)
          PROVE  \E x \in Message : op = SendOp(d, x)
      BY <3>2, ListTypes DEF Justified
    <3> QED BY <3>1, <3>2 DEF HasMessage
  <2> QED BY <2>1, <2>2
<1>7. ASSUME Populated PROVE Lively(m)
  <2> SUFFICES ASSUME NEW p \in Partition, ~m.halted[p]
               PROVE  \E j \in Members(p) : m.state[j] # "BLOCKED"
    BY DEF Lively
  <2>1. CASE p = PartitionOf[i]
    <3>1. m.current[p] \in Process
      BY <2>1 DEF OnList, GivesWay
    <3>2. NoProcess \notin Process
      BY ConfigAssumption DEF Process, NoProcess
    <3>3. PartitionOf[m.current[p]] = p /\ m.state[m.current[p]] = "RUNNING"
      BY <3>1, <3>2, SoundTypes DEF OnList
    <3> QED BY <3>1, <3>3 DEF Members
  <2>2. CASE p # PartitionOf[i]
    <3>1. PICK j \in Members(p) : k.state[j] # "BLOCKED"
      BY <1>7 DEF ChannelOk, Lively, OnList, GivesWay
    <3>2. j \in Process /\ j # i
      BY <2>2 DEF Members
    <3> QED BY <3>1, <3>2 DEF OnList, GivesWay
  <2> QED BY <2>1, <2>2
<1>8. ChannelOk(m)
  BY <1>1, <1>2, <1>3, <1>4, <1>5, <1>6, <1>7 DEF ChannelOk, OnList
<1> QED BY <1>2, <1>8

LEMMA WaitingSteps ==
  ASSUME NEW k, ChannelOk(k), NEW i \in Process, k.state[i] = "RUNNING",
         NEW c \in ChannelId, NEW o \in WaitList, NEW op \in Ops,
         Justified(k, c, o, op), NEW wake \in {Armed, NoTick}, NEW m,
         OnList(k, m, i, o, wake, op)
  PROVE  Step(k, m)
<1>1. ChannelOk(m) /\ m.buffer = k.buffer /\ m.taken = k.taken /\ m.result = k.result
  BY WaitingKeeps DEF SameStores
<1>2. Truthful(k, m) /\ Orderly(k, m)
  BY <1>1 DEF Truthful, Orderly, NoResult
<1>3. IpcType(k) /\ StoresType(k)
  BY DEF ChannelOk, Sound
<1>4. /\ m.waitlist[i] = o /\ m.op[i] = op /\ m.state[i] = "BLOCKED"
      /\ \A j \in Process \ {i} :
           /\ m.waitlist[j] = k.waitlist[j] /\ m.op[j] = k.op[j]
           /\ m.state[j] = "BLOCKED" <=> k.state[j] = "BLOCKED"
  BY <1>3 DEF OnList, GivesWay, IpcType, OnProcesses
<1>5. ASSUME NEW d \in ChannelId, NEW j \in Process \ {i}
      PROVE  OfferOf(m, d, j) = OfferOf(k, d, j)
  BY <1>4 DEF OfferOf
<1>6. \A d \in ChannelId : OfferOf(k, d, i) = Nothing
  BY DEF OfferOf
<1>7. CASE o = Receivers(c) /\ op = ReceiveOp(c)
  <2>1. \A d \in ChannelId : OfferOf(m, d, i) = Nothing
    BY <1>4, <1>7, ListTypes DEF OfferOf
  <2>2. Offers(m) = Offers(k)
    BY <1>5, <1>6, <2>1 DEF Offers
  <2>3. Offers(m) = [d \in ChannelId |-> [j \in Process |->
                      IF j \in {} THEN Nothing ELSE Offers(k)[d][j]]]
    BY <2>2 DEF Offers
  <2>4. Withdraws(k, m, {})
    BY <1>1, <2>3 DEF Withdraws
  <2>5. Promised(k, m)
    BY <2>4 DEF Promised
  <2> QED BY <1>1, <1>2, <2>5 DEF Step
<1>8. ASSUME NEW x \in Message, o = Senders(c), ~HasSpace(k, c), op = SendOp(c, x)
      PROVE  Step(k, m)
  <2>1. OfferOf(m, c, i) = x
    BY <1>4, <1>8 DEF OfferOf, SendOp
  <2>2. \A d \in ChannelId : d # c => OfferOf(m, d, i) = Nothing
    BY <1>4, <1>8, ListTypes DEF OfferOf
  <2>3. ASSUME NEW d \in ChannelId, NEW j \in Process
        PROVE  OfferOf(m, d, j) = IF d = c /\ j = i THEN x ELSE OfferOf(k, d, j)
    BY <1>5, <1>6, <2>1, <2>2
  <2>4. Offers(m) = [Offers(k) EXCEPT ![c][i] = x]
    BY <2>3 DEF Offers
  <2>5. Offers(k)[c][i] = Nothing
    BY <1>6 DEF Offers
  <2>6. Len(k.buffer[c]) = ChannelCapacity[c]
    <3>1. /\ Len(k.buffer[c]) \in Nat /\ ChannelCapacity[c] \in Nat
          /\ Len(k.buffer[c]) <= ChannelCapacity[c]
      BY <1>3, ChannelAssumption, LenProperties DEF StoresType
    <3> QED BY <1>8, <3>1 DEF HasSpace
  <2>7. MakesOffer(k, m, c, i, x)
    BY <1>1, <2>4, <2>5, <2>6 DEF MakesOffer
  <2>8. Promised(k, m)
    BY <2>7 DEF Promised
  <2> QED BY <1>1, <1>2, <2>8 DEF Step
<1> QED BY <1>7, <1>8 DEF Justified

\* A call that finds nothing: it returns at once, waits or fails.
LEMMA AwaitSteps ==
  ASSUME NEW k, ChannelOk(k), NEW i \in Process, k.state[i] = "RUNNING",
         NEW c \in ChannelId, NEW o \in WaitList, NEW op \in Ops,
         Justified(k, c, o, op), NEW wake \in {NoWait, Armed, NoTick}
  PROVE  Step(k, Await(k, i, o, wake, op))
<1>1. CASE wake = NoWait
  <2>1. Await(k, i, o, wake, op) = k
    BY <1>1 DEF Await
  <2>2. Quiet(k, k)
    BY DEF Quiet, SameStores, Alike
  <2> QED BY <2>1, <2>2, QuietSteps
<1>2. CASE wake # NoWait
  <2> DEFINE m == BlockCurrent(k, i, o, wake, op)
  <2>1. Await(k, i, o, wake, op) = m
    BY <1>2 DEF Await
  <2>2. CASE BlockCurrentStatus(k, i, o) # "OK"
    BY <2>1, <2>2, NotWaiting
  <2>3. CASE BlockCurrentStatus(k, i, o) = "OK"
    <3>1. OnList(k, m, i, o, wake, op)
      BY <2>3, BlockCurrentSound DEF ChannelOk
    <3>2. wake \in {Armed, NoTick}
      BY <1>2
    <3> HIDE DEF m
    <3>3. Step(k, m)
      BY <3>1, <3>2, WaitingSteps
    <3> QED BY <2>1, <3>3
  <2> QED BY <2>2, <2>3
<1> QED BY <1>1, <1>2

-----------------------------------------------------------------------------
(* The calls.                                                              *)

LEMMA SendSteps ==
  ASSUME NEW k, ChannelOk(k), NEW i \in Process, k.state[i] = "RUNNING",
         NEW c \in ChannelId, NEW x \in Message, NEW wake \in {NoWait, Armed, NoTick}
  PROVE  Step(k, SendTo(k, c, i, x, wake))
<1>1. CASE k.waiters[Receivers(c)] # <<>>
  BY <1>1, HandOverSteps DEF SendTo
<1>2. CASE k.waiters[Receivers(c)] = <<>> /\ HasSpace(k, c)
  BY <1>2, PushSteps DEF SendTo
<1>3. CASE k.waiters[Receivers(c)] = <<>> /\ ~HasSpace(k, c)
  <2>1. SendTo(k, c, i, x, wake) = Await(k, i, Senders(c), wake, SendOp(c, x))
    BY <1>3 DEF SendTo
  <2>2. Justified(k, c, Senders(c), SendOp(c, x)) /\ Senders(c) \in WaitList
    BY <1>3, ListTypes DEF Justified
  <2>3. SendOp(c, x) \in Ops
    BY DEF Ops
  <2> QED BY <2>1, <2>2, <2>3, AwaitSteps
<1> QED BY <1>1, <1>2, <1>3

LEMMA ReceiveSteps ==
  ASSUME NEW k, ChannelOk(k), NEW i \in Process, k.state[i] = "RUNNING",
         NEW c \in ChannelId, NEW wake \in {NoWait, Armed, NoTick}
  PROVE  Step(k, ReceiveFrom(k, c, i, wake))
<1>1. CASE k.buffer[c] # <<>>
  BY <1>1, TakeSteps DEF ReceiveFrom
<1>2. CASE k.buffer[c] = <<>>
  <2>1. ReceiveFrom(k, c, i, wake) = Await(k, i, Receivers(c), wake, ReceiveOp(c))
    BY <1>2 DEF ReceiveFrom
  <2>2. Justified(k, c, Receivers(c), ReceiveOp(c)) /\ Receivers(c) \in WaitList
    BY <1>2, ListTypes DEF Justified
  <2>3. ReceiveOp(c) \in Ops
    BY DEF Ops
  <2> QED BY <2>1, <2>2, <2>3, AwaitSteps
<1> QED BY <1>1, <1>2

-----------------------------------------------------------------------------
(* The steps of the system.                                                *)

\* The process on the CPU is the one that its partition runs.
CpuIs(k, c) ==
  c = NoProcess \/ (c \in Process /\ k.current[PartitionOf[c]] = c)
CpuOk == CpuIs(sys, cpu)

IInv == ChannelOk(sys) /\ CpuOk

SysStep == Step(sys, sys') /\ CpuIs(sys', cpu')

LEMMA CallerRuns ==
  ASSUME IInv, cpu # NoProcess
  PROVE  cpu \in Process /\ sys.state[cpu] = "RUNNING" /\ PartitionOf[cpu] \in Partition
<1>1. cpu \in Process /\ sys.current[PartitionOf[cpu]] = cpu
  BY DEF IInv, CpuOk, CpuIs
<1>2. sys.state[cpu] = "RUNNING"
  BY <1>1, SoundTypes DEF IInv, ChannelOk
<1> QED BY <1>1, <1>2, ConfigAssumption

LEMMA CurrentIs ==
  ASSUME NEW k, ChannelOk(k), NEW p \in Partition
  PROVE  k.current[p] \in Process \cup {NoProcess} /\ CpuIs(k, k.current[p])
<1>1. /\ k.current \in [Partition -> Process \cup {NoProcess}]
      /\ \A r \in Partition : k.current[r] # NoProcess => PartitionOf[k.current[r]] = r
  <2>1. Sound(k)
    BY DEF ChannelOk
  <2> QED BY <2>1, SoundTypes
<1>2. CASE k.current[p] = NoProcess
  BY <1>2 DEF CpuIs
<1>3. CASE k.current[p] # NoProcess
  <2>1. k.current[p] \in Process /\ PartitionOf[k.current[p]] = p
    BY <1>1, <1>3
  <2> QED BY <2>1 DEF CpuIs
<1> QED BY <1>2, <1>3

\* The switch at the end of a handler.
LEMMA SwitchSteps ==
  ASSUME NEW l, Step(sys, l), cpu' \in Process \cup {NoProcess}, CpuIs(l, cpu'),
         sys' = l \/ sys' = Deliver(l, cpu')
  PROVE  SysStep
<1>1. CASE sys' = l
  BY <1>1 DEF SysStep
<1>2. CASE sys' = Deliver(l, cpu')
  <2>1. Still(l, sys') /\ sys'.current = l.current
    BY <1>2, DeliverStill DEF Step
  <2>2. Step(sys, sys')
    BY <2>1, StepThenStill
  <2>3. CpuIs(sys', cpu')
    BY <2>1 DEF CpuIs
  <2> QED BY <2>2, <2>3 DEF SysStep
<1> QED BY <1>1, <1>2

LEMMA ResumeSteps ==
  ASSUME NEW l, Step(sys, l), NEW p \in Partition, Resume(l, p)
  PROVE  SysStep
<1>1. cpu' = l.current[p] /\ (sys' = l \/ sys' = Deliver(l, cpu'))
  BY DEF Resume
<1>2. cpu' \in Process \cup {NoProcess} /\ CpuIs(l, cpu')
  BY <1>1, CurrentIs DEF Step
<1> QED BY <1>1, <1>2, SwitchSteps

LEMMA ReturnSteps ==
  ASSUME IInv, cpu # NoProcess, NEW k, Step(sys, k), Return(k)
  PROVE  SysStep
<1> DEFINE l == PreemptCheck(k, cpu)
           p == PartitionOf[cpu]
<1>1. p \in Partition
  BY CallerRuns
<1>2. Step(sys, l)
  <2>1. CASE NeedsPreemption(k, cpu)
    <3>1. l = PartitionSelect(k, p, FALSE)
      BY <2>1 DEF PreemptCheck, PartitionDispatch
    <3> HIDE DEF l
    <3>2. Still(k, l)
      BY <1>1, <3>1, SelectStill DEF Step
    <3> QED BY <3>2, StepThenStill
  <2>2. CASE ~NeedsPreemption(k, cpu)
    BY <2>2 DEF PreemptCheck
  <2> QED BY <2>1, <2>2
<1>3. Resume(l, p)
  BY DEF Return
<1> HIDE DEF l, p
<1> QED BY <1>1, <1>2, <1>3, ResumeSteps

LEMMA YieldSteps ==
  ASSUME IInv, Yield
  PROVE  SysStep
<1> DEFINE p == PartitionOf[cpu]
           l == PartitionYield(sys, p)
<1>1. p \in Partition /\ Resume(l, p)
  BY CallerRuns DEF Yield
<1>2. Still(sys, l)
  <2>1. l = PartitionSelect(sys, p, TRUE)
    BY DEF PartitionYield
  <2> HIDE DEF l, p
  <2> QED BY <1>1, <2>1, SelectStill DEF IInv
<1>3. Step(sys, l)
  BY <1>2, StillIs, QuietSteps DEF IInv
<1> HIDE DEF l, p
<1> QED BY <1>1, <1>3, ResumeSteps

\* Fault recovery.
LEMMA RecoverQuiet ==
  ASSUME NEW h, ChannelOk(h.table), NEW i \in Process, NEW action
  PROVE  Quiet(h.table, Recover(h, i, action).table)
<1> DEFINE r == Recover(h, i, action)
           p == PartitionOf[i]
           k == Restart(h.table, i)
<1>1. p \in Partition
  BY ConfigAssumption
<1>2. CASE action = "HALT_PARTITION"
  <2>1. r.table = HaltPartition(h.table, p)
    BY <1>2 DEF Recover, Halted
  <2> HIDE DEF r
  <2>2. Still(h.table, r.table)
    BY <1>1, <2>1, HaltStill
  <2> QED BY <2>2, StillIs DEF r
<1>3. CASE action # "HALT_PARTITION"
  <2>1. Quiet(h.table, k)
    BY <1>1, RestartQuiet
  <2>2. CASE i # h.cpu
    <3>1. r.table = k
      BY <1>3, <2>2 DEF Recover, Restarted
    <3> HIDE DEF r
    <3> QED BY <2>1, <3>1 DEF r
  <2>3. CASE i = h.cpu
    <3>1. r.table = PartitionSelect(k, p, TRUE)
      BY <1>3, <2>3 DEF Recover, Restarted, PartitionYield
    <3> HIDE DEF r, k
    <3>2. Still(k, r.table)
      BY <1>1, <2>1, <3>1, SelectStill DEF Quiet
    <3>3. Quiet(h.table, r.table)
      BY <2>1, <3>2, StillIs, QuietThen
    <3> QED BY <3>3 DEF r
  <2> QED BY <2>2, <2>3
<1> QED BY <1>2, <1>3

LEMMA FaultSteps ==
  ASSUME IInv, NEW action \in Recoveries, Fault(action)
  PROVE  SysStep
<1> DEFINE h == Recover([table |-> sys, cpu |-> cpu], cpu, action)
           l == h.table
           p == PartitionOf[cpu]
<1>1. cpu # NoProcess /\ cpu \in Process /\ p \in Partition
  BY CallerRuns DEF Fault
<1>2. Step(sys, l)
  <2> DEFINE g == [table |-> sys, cpu |-> cpu]
  <2>1. g.table = sys /\ ChannelOk(sys)
    BY DEF IInv
  <2>2. Quiet(sys, Recover(g, cpu, action).table)
    <3> HIDE DEF g
    <3> QED BY <1>1, <2>1, RecoverQuiet
  <2> QED BY <2>2, QuietSteps DEF IInv
<1>3. /\ cpu' = IF action = "HALT_PARTITION" THEN NoProcess ELSE l.current[p]
      /\ sys' = Deliver(l, cpu')
  BY DEF Fault
<1> HIDE DEF l, p
<1>4. /\ l.current[p] \in Process \cup {NoProcess} /\ CpuIs(l, l.current[p])
      /\ CpuIs(l, NoProcess)
  <2>1. ChannelOk(l)
    BY <1>2 DEF Step
  <2>2. CpuIs(l, NoProcess)
    BY DEF CpuIs
  <2> QED BY <1>1, <2>1, <2>2, CurrentIs
<1>5. cpu' \in Process \cup {NoProcess} /\ CpuIs(l, cpu')
  BY <1>3, <1>4
<1> QED BY <1>2, <1>3, <1>5, SwitchSteps

\* The misses that HandleMisses(k, c, missed, halting) goes through.
LEMMA MissesUnfold ==
  ASSUME NEW k, NEW c, NEW missed, NEW halting
  PROVE  \E f : /\ HandleMisses(k, c, missed, halting) = f[NumProcesses]
                /\ f[0] = [table |-> k, cpu |-> c]
                /\ \A n \in Process : f[n + 1] = HandleMiss(f[n], missed, halting, n)
<1> DEFINE From(f, n) == IF n = 0 THEN [table |-> k, cpu |-> c]
                         ELSE HandleMiss(f[n - 1], missed, halting, n - 1)
           G(N, f) == f = [n \in 0 .. N |-> From(f, n)]
           S == {N \in 0 .. NumProcesses : \E f : G(N, f)}
<1>0. NumProcesses \in Nat
  BY ConfigAssumption
<1>1. 0 \in S
  <2>1. G(0, [n \in 0 .. 0 |-> [table |-> k, cpu |-> c]])
    OBVIOUS
  <2> HIDE DEF G
  <2> QED BY <1>0, <2>1
<1>2. ASSUME NEW n \in 0 .. NumProcesses, n \in S, n < NumProcesses
      PROVE  n + 1 \in S
  <2>1. PICK f : G(n, f)
    BY <1>2
  <2> DEFINE g == [x \in 0 .. n + 1 |->
                     IF x = n + 1 THEN HandleMiss(f[n], missed, halting, n) ELSE f[x]]
  <2>2. G(n + 1, g)
    <3> SUFFICES ASSUME NEW x \in 0 .. n + 1 PROVE g[x] = From(g, x)
      OBVIOUS
    <3>1. CASE x = n + 1
      BY <3>1
    <3>2. CASE x # n + 1
      <4>1. x \in 0 .. n /\ f[x] = From(f, x)
        BY <2>1, <3>2
      <4> QED BY <4>1
    <3> QED BY <3>1, <3>2
  <2> HIDE DEF g, G
  <2> QED BY <2>2, <1>2, <1>0
<1>3. 0 .. NumProcesses \subseteq S
  <2> HIDE DEF S
  <2> QED BY <1>0, <1>1, <1>2, UpToInduction
<1> DEFINE h == CHOOSE f : G(NumProcesses, f)
<1>4. HandleMisses(k, c, missed, halting) = h[NumProcesses]
  BY DEF HandleMisses
<1>5. G(NumProcesses, h)
  <2> HIDE DEF G
  <2> QED BY <1>0, <1>3
<1> HIDE DEF h
<1>6. /\ h[0] = [table |-> k, cpu |-> c]
      /\ \A n \in Process : h[n + 1] = HandleMiss(h[n], missed, halting, n)
  BY <1>0, <1>5 DEF Process
<1> QED BY <1>4, <1>6

\* Handling misses gives up waits and touches no message.
LEMMA HandleMissesQuiet ==
  ASSUME NEW k, ChannelOk(k), NEW c, NEW missed, NEW halting
  PROVE  Quiet(k, HandleMisses(k, c, missed, halting).table)
<1>1. PICK f : /\ HandleMisses(k, c, missed, halting) = f[NumProcesses]
               /\ f[0] = [table |-> k, cpu |-> c]
               /\ \A n \in Process : f[n + 1] = HandleMiss(f[n], missed, halting, n)
  BY MissesUnfold
<1>2. NumProcesses \in Nat
  BY ConfigAssumption
<1> DEFINE S == {n \in 0 .. NumProcesses : Quiet(k, f[n].table)}
<1>3. 0 \in S
  <2>1. f[0].table = k
    BY <1>1
  <2>2. Quiet(k, k)
    BY DEF Quiet, SameStores, Alike
  <2> QED BY <1>2, <2>1, <2>2
<1>4. ASSUME NEW n \in 0 .. NumProcesses, n \in S, n < NumProcesses
      PROVE  n + 1 \in S
  <2>1. n \in Process /\ f[n + 1] = HandleMiss(f[n], missed, halting, n) /\ Quiet(k, f[n].table)
    BY <1>1, <1>2, <1>4 DEF Process
  <2>2. CASE n \notin missed
    BY <1>2, <1>4, <2>1, <2>2 DEF HandleMiss
  <2>3. CASE n \in missed
    <3>1. PICK action : f[n + 1] = Recover(f[n], n, action)
      BY <2>1, <2>3 DEF HandleMiss
    <3>2. Quiet(f[n].table, f[n + 1].table)
      BY <2>1, <3>1, RecoverQuiet DEF Quiet
    <3>3. Quiet(k, f[n + 1].table)
      BY <2>1, <3>2, QuietThen
    <3> QED BY <1>2, <1>4, <3>3
  <2> QED BY <2>2, <2>3
<1>5. 0 .. NumProcesses \subseteq S
  <2> HIDE DEF S
  <2> QED BY <1>2, <1>3, <1>4, UpToInduction
<1>6. Quiet(k, f[NumProcesses].table)
  BY <1>2, <1>5
<1> QED BY <1>1, <1>6

LEMMA TickSteps ==
  ASSUME IInv, NEW p \in Partition, NEW due, NEW missed, NEW halting,
         Tick(p, due, missed, halting)
  PROVE  SysStep
<1> DEFINE h == HandleMisses(sys, cpu, missed, halting)
           k == ExpireTimeouts(h.table, due)
           l == PartitionSelect(k, p, FALSE)
<1>0. Quiet(sys, h.table)
  BY HandleMissesQuiet DEF IInv
<1>1. /\ cpu' = IF SelectStatus(k, p, FALSE) = "OK" THEN l.current[p] ELSE NoProcess
      /\ sys' = l \/ sys' = Deliver(l, cpu')
  BY DEF Tick, PartitionDispatch
<1> HIDE DEF h
<1>2. Quiet(h.table, k)
  BY <1>0, ExpireQuiet DEF Quiet
<1> HIDE DEF k
<1>3. Quiet(sys, k)
  BY <1>0, <1>2, QuietThen
<1>4. Still(k, l)
  BY <1>3, SelectStill DEF Quiet
<1> HIDE DEF l
<1>5. Step(sys, k)
  BY <1>3, QuietSteps DEF IInv
<1>6. Step(sys, l)
  BY <1>4, <1>5, StepThenStill
<1>7. /\ l.current[p] \in Process \cup {NoProcess} /\ CpuIs(l, l.current[p])
      /\ CpuIs(l, NoProcess)
  <2>1. ChannelOk(l)
    BY <1>6 DEF Step
  <2>2. CpuIs(l, NoProcess)
    BY DEF CpuIs
  <2> QED BY <2>1, <2>2, CurrentIs
<1>8. cpu' \in Process \cup {NoProcess} /\ CpuIs(l, cpu')
  BY <1>1, <1>7
<1> QED BY <1>1, <1>6, <1>8, SwitchSteps

\* Every action is a step of the invariant.
LEMMA NextSteps ==
  ASSUME IInv, Next
  PROVE  SysStep
<1>0. IInv
  OBVIOUS
<1> HIDE DEF IInv, SysStep
<1>1. ASSUME NEW c \in ChannelId, NEW wake \in {NoWait, Armed, NoTick},
             NEW x \in Message, Send(c, x, wake)
      PROVE  SysStep
  <2> DEFINE k == SendTo(sys, c, cpu, x, wake)
  <2>1. cpu # NoProcess /\ Return(k)
    BY <1>1 DEF Send
  <2>2. Step(sys, k)
    BY <1>0, <2>1, CallerRuns, SendSteps DEF IInv
  <2> HIDE DEF k
  <2> QED BY <1>0, <2>1, <2>2, ReturnSteps
<1>2. ASSUME NEW c \in ChannelId, NEW wake \in {NoWait, Armed, NoTick},
             Receive(c, wake)
      PROVE  SysStep
  <2> DEFINE k == ReceiveFrom(sys, c, cpu, wake)
  <2>1. cpu # NoProcess /\ Return(k)
    BY <1>2 DEF Receive
  <2>2. Step(sys, k)
    BY <1>0, <2>1, CallerRuns, ReceiveSteps DEF IInv
  <2> HIDE DEF k
  <2> QED BY <1>0, <2>1, <2>2, ReturnSteps
<1>3. ASSUME NEW p \in Partition, NEW due, NEW missed, NEW halting,
             Tick(p, due, missed, halting)
      PROVE  SysStep
  BY <1>0, <1>3, TickSteps
<1>4. ASSUME NEW action \in Recoveries, Fault(action) PROVE SysStep
  BY <1>0, <1>4, FaultSteps
<1>5. ASSUME Yield PROVE SysStep
  BY <1>0, <1>5, YieldSteps
<1> QED BY <1>1, <1>2, <1>3, <1>4, <1>5 DEF Next

LEMMA VarsSteps ==
  ASSUME IInv, [Next]_vars
  PROVE  SysStep
<1>1. CASE Next
  BY <1>1, NextSteps
<1>2. CASE UNCHANGED vars
  <2>1. Quiet(sys, sys)
    BY DEF IInv, Quiet, SameStores, Alike
  <2>2. Step(sys, sys)
    BY <2>1, QuietSteps DEF IInv
  <2>3. sys' = sys /\ cpu' = cpu
    BY <1>2 DEF vars
  <2> QED BY <2>2, <2>3 DEF SysStep, IInv, CpuOk
<1> QED BY <1>1, <1>2

-----------------------------------------------------------------------------
(* The initial states.                                                     *)

\* The record before the first dispatch.
NothingSent(k) ==
  /\ k.buffer = [c \in ChannelId |-> <<>>]
  /\ k.taken = [c \in ChannelId |-> Nothing]
  /\ k.state = [i \in Process |-> "READY"]

LEMMA BootOk ==
  ASSUME NEW port \in [ChannelId -> Ports]
  PROVE  LET k == Merge(Merge(Registered, WaitFields),
                        [port   |-> port,
                         buffer |-> [c \in ChannelId |-> <<>>],
                         taken  |-> [c \in ChannelId |-> Nothing]]) IN
         ChannelOk(k) /\ NothingSent(k)
<1> DEFINE g == [port   |-> port,
                 buffer |-> [c \in ChannelId |-> <<>>],
                 taken  |-> [c \in ChannelId |-> Nothing]]
           k == Merge(Merge(Registered, WaitFields), g)
<1>1. /\ DOMAIN g = ChannelFields /\ g.port = port
      /\ g.buffer = [c \in ChannelId |-> <<>>]
      /\ g.taken = [c \in ChannelId |-> Nothing]
  BY DEF ChannelFields
<1> HIDE DEF g
<1>2. Sound(k) /\ AtBoot(k, g)
  BY <1>1, BootSound DEF ChannelFields, TableFields, WaitFieldNames
<1> HIDE DEF k
<1>3. /\ k.port = port /\ k.buffer = [c \in ChannelId |-> <<>>]
      /\ k.taken = [c \in ChannelId |-> Nothing]
      /\ ChannelFields \subseteq DOMAIN k
  BY <1>1, <1>2 DEF AtBoot, ChannelFields
<1>4. CallsType(k)
  BY <1>2 DEF AtBoot, CallsType, Ops, Results
<1>5. StoresType(k)
  <2>1. \A c \in ChannelId : ChannelCapacity[c] \in Nat
    BY ChannelAssumption
  <2>2. <<>> \in Seq(Message) /\ Len(<<>>) = 0
    OBVIOUS
  <2>3. k.buffer \in [ChannelId -> Seq(Message)]
    BY <1>3, <2>2
  <2>4. \A c \in ChannelId : Len(k.buffer[c]) <= ChannelCapacity[c]
    BY <1>3, <2>1, <2>2
  <2> QED BY <1>3, <2>3, <2>4 DEF StoresType, Taken
<1>6. \A c \in ChannelId : ~InVain(k, c)
  BY <1>2, ListTypes DEF AtBoot, InVain
<1>7. k.state = [i \in Process |-> "READY"]
  BY <1>2 DEF AtBoot
<1>8. \A j \in Process : HasMessage(k, j)
  BY <1>7 DEF HasMessage, Waits
<1>9. Populated => Lively(k)
  BY <1>7 DEF Populated, Lively, Members
<1>10. ChannelOk(k)
  BY <1>2, <1>3, <1>4, <1>5, <1>6, <1>8, <1>9 DEF ChannelOk
<1> QED BY <1>3, <1>7, <1>10 DEF NothingSent, k, g

LEMMA InitOk ==
  ASSUME Init
  PROVE  /\ IInv /\ sys.buffer = [c \in ChannelId |-> <<>>]
         /\ sys.taken = [c \in ChannelId |-> Nothing]
         /\ Offers(sys) = [c \in ChannelId |-> [i \in Process |-> Nothing]]
<1>1. PICK port \in [ChannelId -> Ports] :
        /\ sys = PartitionDispatch(
                   Merge(Merge(Registered, WaitFields),
                         [port   |-> port,
                          buffer |-> [c \in ChannelId |-> <<>>],
                          taken  |-> [c \in ChannelId |-> Nothing]]), 0)
        /\ cpu = sys.current[0]
  BY DEF Init
<1> DEFINE k == Merge(Merge(Registered, WaitFields),
                      [port   |-> port,
                       buffer |-> [c \in ChannelId |-> <<>>],
                       taken  |-> [c \in ChannelId |-> Nothing]])
<1>2. ChannelOk(k) /\ NothingSent(k)
  BY BootOk
<1>3. 0 \in Partition /\ sys = PartitionSelect(k, 0, FALSE)
  BY <1>1, ConfigAssumption DEF Partition, PartitionDispatch
<1> HIDE DEF k
<1>4. Still(k, sys)
  BY <1>2, <1>3, SelectStill
<1>5. ChannelOk(sys) /\ sys.buffer = k.buffer /\ sys.taken = k.taken
  BY <1>4 DEF Still, SameStores
<1>6. Offers(sys) = Offers(k)
  BY <1>4, StillOffers
<1>7. \A c \in ChannelId, i \in Process : OfferOf(k, c, i) = Nothing
  BY <1>2 DEF NothingSent, OfferOf
<1>8. Offers(k) = [c \in ChannelId |-> [i \in Process |-> Nothing]]
  BY <1>7 DEF Offers
<1>9. CpuOk
  BY <1>1, <1>3, <1>5, CurrentIs DEF CpuOk
<1> QED BY <1>2, <1>5, <1>6, <1>8, <1>9 DEF IInv, NothingSent

-----------------------------------------------------------------------------
(* The theorems.                                                           *)

\* The invariant holds in every reachable state: the records agree, nobody
\* waits for what is there, a process that waits for space has its message with
\* it, and the process on the CPU is the one that its partition runs (buffer.c,
\* queue_port.c, ipc_block.c).
THEOREM Invariance == Spec => []IInv
<1>1. Init => IInv
  BY InitOk
<1>2. IInv /\ [Next]_vars => IInv'
  BY VarsSteps DEF SysStep, Step, IInv, CpuOk
<1> QED BY <1>1, <1>2, PTL DEF Spec

\* Nobody waits for a message while there is one, or for space while there is
\* some, and all state is of its type (queue_port.c, buffer.c).
THEOREM NobodyWaitsInVain == Spec => []NoneWaitsInVain
<1>1. IInv => NoneWaitsInVain
  <2> SUFFICES ASSUME IInv PROVE NoneWaitsInVain
    OBVIOUS
  <2>1. /\ Sound(sys) /\ CallsType(sys) /\ StoresType(sys)
        /\ \A c \in ChannelId : ~InVain(sys, c)
    BY DEF IInv, ChannelOk
  <2>2. cpu \in Process \cup {NoProcess}
    BY DEF IInv, CpuOk, CpuIs
  <2>3. sys.state \in [Process -> ProcessState] /\ WaitsSound(sys)
    BY <2>1, SoundTypes DEF Sound
  <2>4. TypeOK
    BY <2>1, <2>2, <2>3 DEF TypeOK, CallsType, StoresType, Ops, Results, Taken
  <2> QED BY <2>1, <2>4 DEF NoneWaitsInVain, InVain
<1> QED BY <1>1, Invariance, PTL

\* A partition that is not halted has a process that can run (ipc_block.c,
\* dispatch.c), if it has processes at all.
THEOREM SomeoneRuns ==
  ASSUME Populated
  PROVE  Spec => []SomeoneCanRun
<1>1. IInv => SomeoneCanRun
  BY DEF IInv, ChannelOk, Lively, SomeoneCanRun
<1> QED BY <1>1, Invariance, PTL

\* A process that has waited is told what became of its message, or whether it
\* was given one (queue_port.h, "Its final result").
THEOREM ResultsAreTrue == Spec => TruthfulResults
<1>1. ASSUME IInv, [Next]_vars PROVE Truthful(sys, sys')
  BY <1>1, VarsSteps DEF SysStep, Step
<1>2. IInv /\ [Next]_vars =>
        [\A c \in ChannelId, i \in Process :
           sys'.result[i] # sys.result[i] /\ sys'.result[i] # NoResult =>
             /\ sys.waitlist[i] = Senders(c) =>
                  sys'.buffer[c] = IF sys'.result[i] = "OK"
                                   THEN Append(Tail(sys.buffer[c]), sys.op[i].message)
                                   ELSE sys.buffer[c]
             /\ sys.waitlist[i] = Receivers(c) =>
                  IF sys'.result[i] = "OK"
                  THEN sys'.taken[c] \in {Took(i, m) : m \in Message}
                  ELSE sys'.taken[c] = sys.taken[c]]_vars
  BY <1>1 DEF Truthful
<1> QED BY <1>2, Invariance, PTL DEF Spec, TruthfulResults

\* Those who wait are served by the discipline of the object (buffer.h,
\* maxrtos_queuing_discipline_t).
THEOREM WaitersAreServedInOrder == Spec => ServesInOrder
<1>1. ASSUME IInv, [Next]_vars PROVE Orderly(sys, sys')
  BY <1>1, VarsSteps DEF SysStep, Step
<1>2. IInv /\ [Next]_vars =>
        [\A o \in WaitList, i \in Process :
           LET c == o \div 2
               q == sys.waiters[o]
           IN  sys'.result[i] = "OK" /\ sys.result[i] = NoResult /\ IsIn(q, i) =>
                 \A j \in Process \ {i} : IsIn(q, j) =>
                   IF sys.port[c].order = "FIFO" THEN IndexIn(q, i) < IndexIn(q, j)
                   ELSE \/ sys.priority[i] < sys.priority[j]
                        \/ /\ sys.priority[i] = sys.priority[j]
                           /\ IndexIn(q, i) < IndexIn(q, j)]_vars
  BY <1>1 DEF Orderly, FirstOf
<1> QED BY <1>2, Invariance, PTL DEF Spec, ServesInOrder

\* The offers of BoundedChannels are those of the processes that wait for space.
LEMMA OffersAre ==
  [c \in ChannelId |-> [i \in Process |-> Offered(c, i)]] = Offers(sys)
BY DEF Offers, Offered, OfferOf

LEMMA PromisedIs ==
  ASSUME Promised(sys, sys')
  PROVE  Promise!Next
<1>1. /\ [c \in ChannelId |-> [i \in Process |-> Offered(c, i)]] = Offers(sys)
      /\ [c \in ChannelId |-> [i \in Process |-> Offered(c, i)']] = Offers(sys')
  BY DEF Offers, Offered, OfferOf
<1>2. ASSUME NEW c \in ChannelId, NEW i \in Process
      PROVE  /\ Takes(sys, sys', c, i) => Promise!Receive(c, i)
             /\ \A j \in Process : TakesAndAccepts(sys, sys', c, i, j)
                                     => Promise!ReceiveAndAccept(c, i, j)
             /\ \A x \in Message :
                  /\ Accepts(sys, sys', c, x) => Promise!Accept(c, x)
                  /\ MakesOffer(sys, sys', c, i, x) => Promise!Offer(c, i, x)
                  /\ PassesOn(sys, sys', c, i, x) => Promise!PassOn(c, i, x)
  <2>1. Takes(sys, sys', c, i) => Promise!Receive(c, i)
    BY <1>1 DEF Takes, Promise!Receive, Promise!None, Promise!Took, Took
  <2>2. ASSUME NEW j \in Process
        PROVE  TakesAndAccepts(sys, sys', c, i, j) => Promise!ReceiveAndAccept(c, i, j)
    BY <1>1 DEF TakesAndAccepts, Promise!ReceiveAndAccept, Promise!Took, Took
  <2>3. ASSUME NEW x \in Message
        PROVE  /\ Accepts(sys, sys', c, x) => Promise!Accept(c, x)
               /\ MakesOffer(sys, sys', c, i, x) => Promise!Offer(c, i, x)
               /\ PassesOn(sys, sys', c, i, x) => Promise!PassOn(c, i, x)
    BY <1>1 DEF Accepts, MakesOffer, PassesOn, Promise!Accept, Promise!Offer,
                Promise!PassOn, Promise!Took, Took
  <2> QED BY <2>1, <2>2, <2>3
<1>3. ASSUME NEW S \in SUBSET Process
      PROVE  Withdraws(sys, sys', S) => Promise!Withdraw(S)
  BY <1>1 DEF Withdraws, Promise!Withdraw
<1> QED BY <1>2, <1>3 DEF Promised, Promise!Next

\* Buffers and queuing ports, with their message store, the messages handed
\* straight to a receiver or accepted from a sender that has waited, timeouts,
\* restarts and halts, are bounded FIFO channels (queue_port.c, fifo.c).
THEOREM ChannelsAreFifo == Spec => Implements
<1>1. Init => Promise!Init
  BY InitOk, OffersAre DEF Promise!Init, Promise!None
<1>2. IInv /\ [Next]_vars => Promise!Next
  BY VarsSteps, PromisedIs DEF SysStep, Step
<1> QED BY <1>1, <1>2, Invariance, PTL DEF Spec, Implements, Promise!Spec
=============================================================================
