------------------------ MODULE PartitionTableProofs ------------------------
(***************************************************************************)
(* What the operators of PartitionTable do to the ready queues and to the  *)
(* predicates of a consistent table, for every configuration.              *)
(***************************************************************************)
EXTENDS PartitionTable, FiniteSetTheorems, SequenceTheorems,
        WellFoundedInduction, TLAPS

-----------------------------------------------------------------------------
(* Queues as sequences without repetition. *)

\* Queueing at the tail a process that is not in the queue adds just that one.
LEMMA AppendKeeps ==
  ASSUME NEW S, NEW s \in Seq(S), NEW i \in S, NoRepeats(s), ~IsIn(s, i)
  PROVE  /\ Append(s, i) \in Seq(S)
         /\ NoRepeats(Append(s, i))
         /\ \A j : IsIn(Append(s, i), j) <=> IsIn(s, j) \/ j = i
<1>1. /\ Append(s, i) \in Seq(S)
      /\ Len(s) \in Nat
      /\ Len(Append(s, i)) = Len(s) + 1
      /\ \A a \in 1 .. Len(s) : Append(s, i)[a] = s[a]
      /\ Append(s, i)[Len(s) + 1] = i
  BY AppendProperties
<1>2. NoRepeats(Append(s, i))
  BY <1>1 DEF NoRepeats, IsIn
<1>3. ASSUME NEW j PROVE IsIn(Append(s, i), j) <=> IsIn(s, j) \/ j = i
  BY <1>1 DEF IsIn
<1> QED BY <1>1, <1>2, <1>3

\* So does queueing it at the head.
LEMMA PrependKeeps ==
  ASSUME NEW S, NEW s \in Seq(S), NEW i \in S, NoRepeats(s), ~IsIn(s, i)
  PROVE  /\ <<i>> \o s \in Seq(S)
         /\ NoRepeats(<<i>> \o s)
         /\ \A j : IsIn(<<i>> \o s, j) <=> IsIn(s, j) \/ j = i
<1> DEFINE t == <<i>> \o s
<1>1. /\ t \in Seq(S)
      /\ Len(s) \in Nat
      /\ Len(t) = Len(s) + 1
      /\ t[1] = i
      /\ \A a \in 1 .. Len(s) : t[a + 1] = s[a]
      /\ \A a \in 2 .. Len(t) : t[a] = s[a - 1]
  <2>1. <<i>> \in Seq(S) /\ Len(<<i>>) = 1 /\ <<i>>[1] = i
    OBVIOUS
  <2>2. Len(s) \in Nat
    OBVIOUS
  <2>3. /\ t \in Seq(S) /\ Len(t) = 1 + Len(s)
        /\ \A a \in 1 .. 1 + Len(s) :
             t[a] = IF a <= 1 THEN <<i>>[a] ELSE s[a - 1]
    BY <2>1, ConcatProperties
  <2> QED BY <2>1, <2>2, <2>3
<1>2. NoRepeats(t)
  <2> SUFFICES ASSUME NEW a \in 1 .. Len(t), NEW b \in 1 .. Len(t), t[a] = t[b]
               PROVE  a = b
    BY DEF NoRepeats
  <2> HIDE DEF t
  <2>1. CASE a = 1 /\ b # 1
    BY <1>1, <2>1 DEF IsIn
  <2>2. CASE b = 1 /\ a # 1
    BY <1>1, <2>2 DEF IsIn
  <2>3. CASE a # 1 /\ b # 1
    <3>1. /\ a - 1 \in 1 .. Len(s) /\ b - 1 \in 1 .. Len(s)
          /\ t[a] = s[a - 1] /\ t[b] = s[b - 1]
      BY <1>1, <2>3
    <3>2. a - 1 = b - 1
      BY <3>1 DEF NoRepeats
    <3> QED BY <3>2, <1>1
  <2> QED BY <2>1, <2>2, <2>3
<1>3. ASSUME NEW j PROVE IsIn(t, j) <=> IsIn(s, j) \/ j = i
  <2> HIDE DEF t
  <2>1. ASSUME IsIn(t, j), j # i PROVE IsIn(s, j)
    <3> PICK a \in 1 .. Len(t) : t[a] = j
      BY <2>1 DEF IsIn
    <3>1. a - 1 \in 1 .. Len(s) /\ s[a - 1] = j
      BY <1>1, <2>1
    <3> QED BY <3>1 DEF IsIn
  <2>2. ASSUME IsIn(s, j) PROVE IsIn(t, j)
    <3> PICK a \in 1 .. Len(s) : s[a] = j
      BY <2>2 DEF IsIn
    <3>1. a + 1 \in 1 .. Len(t) /\ t[a + 1] = j
      BY <1>1
    <3> QED BY <3>1 DEF IsIn
  <2>3. IsIn(t, i)
    BY <1>1 DEF IsIn
  <2> QED BY <2>1, <2>2, <2>3
<1> QED BY <1>1, <1>2, <1>3

\* Taking the head of a queue takes just that process out of it.
LEMMA TailKeeps ==
  ASSUME NEW S, NEW s \in Seq(S), NoRepeats(s), s # <<>>
  PROVE  /\ Head(s) \in S /\ IsIn(s, Head(s))
         /\ Tail(s) \in Seq(S)
         /\ NoRepeats(Tail(s))
         /\ \A j : IsIn(Tail(s), j) <=> IsIn(s, j) /\ j # Head(s)
<1> DEFINE t == Tail(s)
<1>1. /\ t \in Seq(S)
      /\ Len(s) \in Nat \ {0}
      /\ Head(s) = s[1] /\ s[1] \in S
      /\ Len(t) = Len(s) - 1
      /\ \A a \in 1 .. Len(t) : t[a] = s[a + 1]
  BY HeadTailProperties, ElementOfSeq, EmptySeq, LenProperties
<1>2. IsIn(s, Head(s))
  BY <1>1 DEF IsIn
<1> HIDE DEF t
<1>3. NoRepeats(t)
  BY <1>1 DEF NoRepeats
<1>4. ASSUME NEW j PROVE IsIn(t, j) <=> IsIn(s, j) /\ j # Head(s)
  <2>1. ASSUME IsIn(t, j) PROVE IsIn(s, j) /\ j # Head(s)
    <3> PICK a \in 1 .. Len(t) : t[a] = j
      BY <2>1 DEF IsIn
    <3>1. a + 1 \in 1 .. Len(s) /\ s[a + 1] = j
      BY <1>1
    <3>2. 1 \in 1 .. Len(s) /\ a + 1 # 1
      BY <1>1
    <3> QED BY <1>1, <3>1, <3>2 DEF NoRepeats, IsIn
  <2>2. ASSUME IsIn(s, j), j # Head(s) PROVE IsIn(t, j)
    <3> PICK a \in 1 .. Len(s) : s[a] = j
      BY <2>2 DEF IsIn
    <3>1. a - 1 \in 1 .. Len(t) /\ t[a - 1] = j
      BY <1>1, <2>2
    <3> QED BY <3>1 DEF IsIn
  <2> QED BY <2>1, <2>2
<1> QED BY <1>1, <1>2, <1>3, <1>4 DEF t

\* Removing a process from a queue takes just that one out of it.
LEMMA WithoutKeeps ==
  ASSUME NEW S, NEW s \in Seq(S), NEW i \in S, NoRepeats(s), IsIn(s, i)
  PROVE  /\ Without(s, i) \in Seq(S)
         /\ Len(Without(s, i)) = Len(s) - 1
         /\ NoRepeats(Without(s, i))
         /\ \A j : IsIn(Without(s, i), j) <=> IsIn(s, j) /\ j # i
<1> DEFINE t == Without(s, i)
           x == IndexIn(s, i)
<1>1. PICK y \in 1 .. Len(s) : s[y] = i
  BY DEF IsIn
<1>2. x \in 1 .. Len(s) /\ s[x] = i
  <2>1. \A b \in 1 .. y - 1 : s[b] # i
    BY <1>1 DEF NoRepeats
  <2> QED BY <1>1, <2>1 DEF IndexIn
<1> HIDE DEF x
<1>3. Len(s) \in Nat \ {0}
  BY <1>2, LenProperties
<1>4. t = [a \in 1 .. Len(s) - 1 |-> IF a < x THEN s[a] ELSE s[a + 1]]
  BY DEF Without, x
<1> HIDE DEF t
<1>5. \A a \in 1 .. Len(s) - 1 : t[a] = IF a < x THEN s[a] ELSE s[a + 1]
  BY <1>4
<1>6. t \in Seq(S) /\ Len(t) = Len(s) - 1
  <2>1. \A a \in 1 .. Len(s) - 1 :
          (IF a < x THEN s[a] ELSE s[a + 1]) \in S
    <3> SUFFICES ASSUME NEW a \in 1 .. Len(s) - 1
                 PROVE  (IF a < x THEN s[a] ELSE s[a + 1]) \in S
      OBVIOUS
    <3>1. a \in 1 .. Len(s) /\ a + 1 \in 1 .. Len(s)
      BY <1>3
    <3> QED BY <3>1, ElementOfSeq
  <2>2. t \in [1 .. Len(s) - 1 -> S]
    BY <1>4, <2>1
  <2>3. Len(s) - 1 \in Nat
    BY <1>3
  <2>4. t \in Seq(S)
    BY <2>2, <2>3, SeqDef
  <2>5. Len(t) \in Nat /\ 1 .. Len(t) = 1 .. Len(s) - 1
    BY <2>2, <2>4, LenProperties
  <2>6. Len(t) = Len(s) - 1
    BY <2>3, <2>5
  <2> QED BY <2>4, <2>6
<1>7. NoRepeats(t)
  <2> SUFFICES ASSUME NEW a \in 1 .. Len(t), NEW b \in 1 .. Len(t), t[a] = t[b]
               PROVE  a = b
    BY DEF NoRepeats
  <2>1. /\ a \in 1 .. Len(s) /\ a + 1 \in 1 .. Len(s)
        /\ b \in 1 .. Len(s) /\ b + 1 \in 1 .. Len(s)
    BY <1>3, <1>6
  <2>2. /\ t[a] = IF a < x THEN s[a] ELSE s[a + 1]
        /\ t[b] = IF b < x THEN s[b] ELSE s[b + 1]
    BY <1>5, <1>6
  <2>3. \A c, d \in 1 .. Len(s) : s[c] = s[d] => c = d
    BY DEF NoRepeats
  <2>4. CASE a < x /\ b < x
    BY <2>1, <2>2, <2>3, <2>4
  <2>5. CASE ~(a < x) /\ ~(b < x)
    <3>1. a + 1 = b + 1
      BY <2>1, <2>2, <2>3, <2>5
    <3> QED BY <3>1
  <2>6. CASE a < x /\ ~(b < x)
    <3>1. a = b + 1
      BY <2>1, <2>2, <2>3, <2>6
    <3> QED BY <1>2, <3>1, <2>6
  <2>7. CASE ~(a < x) /\ b < x
    <3>1. a + 1 = b
      BY <2>1, <2>2, <2>3, <2>7
    <3> QED BY <1>2, <3>1, <2>7
  <2> QED BY <2>4, <2>5, <2>6, <2>7
<1>8. ASSUME NEW j PROVE IsIn(t, j) <=> IsIn(s, j) /\ j # i
  <2>1. ASSUME IsIn(t, j) PROVE IsIn(s, j) /\ j # i
    <3> PICK a \in 1 .. Len(t) : t[a] = j
      BY <2>1 DEF IsIn
    <3>1. a \in 1 .. Len(s) /\ a + 1 \in 1 .. Len(s)
      BY <1>3, <1>6
    <3>2. j = IF a < x THEN s[a] ELSE s[a + 1]
      BY <1>5, <1>6
    <3>3. a < x => j # i
      BY <1>2, <3>1, <3>2 DEF NoRepeats
    <3>4. ~(a < x) => j # i
      BY <1>2, <3>1, <3>2 DEF NoRepeats
    <3> QED BY <3>1, <3>2, <3>3, <3>4 DEF IsIn
  <2>2. ASSUME IsIn(s, j), j # i PROVE IsIn(t, j)
    <3> PICK a \in 1 .. Len(s) : s[a] = j
      BY <2>2 DEF IsIn
    <3>1. a # x
      BY <1>2, <2>2
    <3>2. CASE a < x
      <4>1. a \in 1 .. Len(t) /\ t[a] = j
        BY <1>2, <1>3, <1>5, <1>6, <3>2
      <4> QED BY <4>1 DEF IsIn
    <3>3. CASE a > x
      <4>1. a - 1 \in 1 .. Len(t) /\ t[a - 1] = j
        BY <1>2, <1>3, <1>5, <1>6, <3>3
      <4> QED BY <4>1 DEF IsIn
    <3> QED BY <1>2, <3>1, <3>2, <3>3
  <2> QED BY <2>1, <2>2
<1> QED BY <1>6, <1>7, <1>8 DEF t

\* A queue of processes of one partition, each there once at most, that lacks
\* one of them is shorter than the partition is large.
LEMMA ShorterThanMembers ==
  ASSUME NEW p \in Partition, NEW s \in Seq(Process), NEW i \in Members(p),
         NoRepeats(s), ~IsIn(s, i), \A j \in Process : IsIn(s, j) => j \in Members(p)
  PROVE  Len(s) < Cardinality(Members(p)) /\ Cardinality(Members(p)) \in Nat
<1> DEFINE M == Members(p)
<1>1. IsFiniteSet(M) /\ Cardinality(M) \in Nat
  <2>1. IsFiniteSet(Process)
    BY FS_Interval, ConfigAssumption DEF Process
  <2>2. M \subseteq Process
    BY DEF Members
  <2> QED BY <2>1, <2>2, FS_Subset, FS_CardinalityType
<1>2. IsFiniteSet(M \ {i}) /\ Cardinality(M \ {i}) = Cardinality(M) - 1
  BY <1>1, FS_RemoveElement
<1>3. s \in Injection(1 .. Len(s), M \ {i})
  <2>1. s \in [1 .. Len(s) -> Process] /\ DOMAIN s = 1 .. Len(s)
    BY LenProperties
  <2>2. \A a \in 1 .. Len(s) : s[a] \in M \ {i}
    BY <2>1 DEF IsIn
  <2>3. s \in [1 .. Len(s) -> M \ {i}]
    BY <2>1, <2>2
  <2>4. IsInjective(s)
    BY <2>1 DEF IsInjective, NoRepeats
  <2> QED BY <2>3, <2>4 DEF Injection
<1>4. Cardinality(1 .. Len(s)) <= Cardinality(M \ {i})
  BY <1>2, <1>3, FS_Injection
<1>5. Len(s) \in Nat /\ Cardinality(1 .. Len(s)) = Len(s)
  <2>1. Len(s) \in Nat
    BY LenProperties
  <2>2. Cardinality(1 .. Len(s)) = IF 1 > Len(s) THEN 0 ELSE Len(s) - 1 + 1
    BY <2>1, FS_Interval
  <2> QED BY <2>1, <2>2
<1> QED BY <1>1, <1>2, <1>4, <1>5

\* A ready queue has room for every process of its partition that it lacks.
LEMMA RoomFor ==
  ASSUME NEW p \in Partition, NEW s \in Seq(Process), NEW i \in Members(p),
         NoRepeats(s), ~IsIn(s, i), \A j \in Process : IsIn(s, j) => j \in Members(p)
  PROVE  Len(s) < MaxReadyPerPriority
<1>1. Len(s) < Cardinality(Members(p)) /\ Cardinality(Members(p)) \in Nat
  BY ShorterThanMembers
<1>2. Len(s) \in Nat
  BY LenProperties
<1> QED BY <1>1, <1>2, ConfigAssumption

\* A non-empty set of priorities has a best one.
LEMMA BestExists ==
  ASSUME NEW T, T \subseteq Nat, T # {}
  PROVE  \E q \in T : \A r \in T : q <= r
<1>1. PICK q \in T : \A r \in T : ~(<<r, q>> \in OpToRel(<, Nat))
  BY NatLessThanWellFounded, WFMin
<1>2. \A r \in T : ~(r < q)
  BY <1>1 DEF OpToRel
<1> QED BY <1>2

-----------------------------------------------------------------------------
(* Steps of the table. *)

InNoQueue(k, i) ==
  \A p \in Partition, q \in Priority : ~IsIn(k.ready[p][q], i)

\* Everything about k that the queue operators leave alone.
SameButQueues(k, m) ==
  /\ m.state = k.state /\ m.priority = k.priority
  /\ m.current = k.current /\ m.halted = k.halted

\* A process that is not READY is in no queue.
LEMMA NotReadyInNoQueue ==
  ASSUME NEW k, QueuesSound(k), NEW i \in Process, k.state[i] # "READY"
  PROVE  InNoQueue(k, i)
BY DEF QueuesSound, InNoQueue

\* A READY process is in no queue other than the one it belongs to.
LEMMA NotQueuedInNoQueue ==
  ASSUME NEW k, QueuesSound(k), NEW i \in Process, ~Queued(k, i)
  PROVE  InNoQueue(k, i)
BY DEF QueuesSound, InNoQueue, Queued

\* Changing the state of a process that is in no queue.
LEMMA RestateUnqueued ==
  ASSUME NEW k \in TableType, QueuesSound(k), NEW i \in Process,
         InNoQueue(k, i), NEW x \in ProcessState
  PROVE  LET m == SetState(k, i, x) IN
         /\ m \in TableType /\ QueuesSound(m) /\ InNoQueue(m, i)
         /\ m.state = [k.state EXCEPT ![i] = x] /\ m.state[i] = x
         /\ m.ready = k.ready /\ m.priority = k.priority
         /\ m.current = k.current /\ m.halted = k.halted
         /\ \A j \in Process : Queued(m, j) <=> Queued(k, j)
<1> DEFINE m == SetState(k, i, x)
<1>1. /\ m \in TableType /\ m.ready = k.ready /\ m.priority = k.priority
      /\ m.current = k.current /\ m.halted = k.halted
      /\ m.state = [k.state EXCEPT ![i] = x] /\ m.state[i] = x
  BY DEF TableType, SetState
<1> HIDE DEF m
<1>2. k.state \in [Process -> ProcessState] /\ k.priority \in [Process -> Priority]
  BY DEF TableType
<1>3. QueuesSound(m) /\ InNoQueue(m, i)
  BY <1>1, <1>2 DEF QueuesSound, InNoQueue
<1>4. ASSUME NEW j \in Process PROVE Queued(m, j) <=> Queued(k, j)
  <2>1. PartitionOf[j] \in Partition /\ k.priority[j] \in Priority
        /\ m.priority[j] \in Priority
    BY <1>1, <1>2, ConfigAssumption DEF TableType
  <2>2. CASE j = i
    BY <1>3, <2>1, <2>2 DEF Queued, InNoQueue
  <2>3. CASE j # i
    BY <1>1, <1>2, <2>3 DEF Queued
  <2> QED BY <2>2, <2>3
<1> QED BY <1>1, <1>3, <1>4 DEF m

\* Changing the priority of a process that is in no queue.
LEMMA ReprioritiseUnqueued ==
  ASSUME NEW k \in TableType, QueuesSound(k), NEW i \in Process,
         InNoQueue(k, i), NEW q \in Priority
  PROVE  LET n == SetPriority(k, i, q) IN
         /\ n \in TableType /\ QueuesSound(n) /\ InNoQueue(n, i)
         /\ n.priority = [k.priority EXCEPT ![i] = q]
         /\ n.ready = k.ready /\ n.state = k.state
         /\ n.current = k.current /\ n.halted = k.halted
         /\ \A j \in Process : Queued(n, j) <=> Queued(k, j)
<1> DEFINE n == SetPriority(k, i, q)
<1>1. /\ n \in TableType /\ n.ready = k.ready /\ n.state = k.state
      /\ n.current = k.current /\ n.halted = k.halted
      /\ n.priority = [k.priority EXCEPT ![i] = q]
  BY DEF TableType, SetPriority
<1> HIDE DEF n
<1>2. k.state \in [Process -> ProcessState] /\ k.priority \in [Process -> Priority]
  BY DEF TableType
<1>3. QueuesSound(n) /\ InNoQueue(n, i)
  BY <1>1, <1>2 DEF QueuesSound, InNoQueue
<1>4. ASSUME NEW j \in Process PROVE Queued(n, j) <=> Queued(k, j)
  <2>1. PartitionOf[j] \in Partition /\ k.priority[j] \in Priority
        /\ n.priority[j] \in Priority
    BY <1>1, <1>2, ConfigAssumption DEF TableType
  <2>2. CASE j = i
    BY <1>3, <2>1, <2>2 DEF Queued, InNoQueue
  <2>3. CASE j # i
    BY <1>1, <1>2, <2>3 DEF Queued
  <2> QED BY <2>2, <2>3
<1> QED BY <1>1, <1>3, <1>4 DEF n

\* What it means that m is k with i added to the queue it belongs to.
Added(k, m, i) ==
  /\ m \in TableType /\ QueuesSound(m) /\ SameButQueues(k, m)
  /\ \A j \in Process : Queued(m, j) <=> Queued(k, j) \/ j = i

\* Replacing one queue by one that holds i as well.
LEMMA AddToQueue ==
  ASSUME NEW k \in TableType, QueuesSound(k), NEW i \in Process,
         k.state[i] = "READY",
         NEW t \in Seq(Process), NoRepeats(t),
         \A j : IsIn(t, j) <=>
                  IsIn(k.ready[PartitionOf[i]][k.priority[i]], j) \/ j = i
  PROVE  Added(k, [k EXCEPT !.ready[PartitionOf[i]][k.priority[i]] = t], i)
<1> DEFINE p == PartitionOf[i]
           q == k.priority[i]
           m == [k EXCEPT !.ready[p][q] = t]
<1>1. p \in Partition /\ q \in Priority
  BY ConfigAssumption DEF TableType
<1>2. /\ m \in TableType /\ SameButQueues(k, m)
      /\ m.ready = [k.ready EXCEPT ![p][q] = t]
  BY <1>1 DEF TableType, SameButQueues
<1>3. k.ready \in [Partition -> [Priority -> Seq(Process)]]
  BY DEF TableType
<1>4. /\ m.ready[p][q] = t
      /\ \A r \in Partition, u \in Priority :
           <<r, u>> # <<p, q>> => m.ready[r][u] = k.ready[r][u]
  BY <1>1, <1>2, <1>3
<1> HIDE DEF m
<1>5. QueuesSound(m)
  <2> SUFFICES ASSUME NEW r \in Partition, NEW u \in Priority
               PROVE  /\ NoRepeats(m.ready[r][u])
                      /\ \A j \in Process :
                           IsIn(m.ready[r][u], j) =>
                             /\ m.state[j] = "READY" /\ PartitionOf[j] = r
                             /\ m.priority[j] = u
    BY DEF QueuesSound
  <2>1. CASE r = p /\ u = q
    BY <1>2, <1>4, <2>1 DEF QueuesSound, SameButQueues
  <2>2. CASE <<r, u>> # <<p, q>>
    BY <1>2, <1>4, <2>2 DEF QueuesSound, SameButQueues
  <2> QED BY <2>1, <2>2
<1>6. Queued(m, i)
  BY <1>2, <1>4 DEF Queued, SameButQueues
<1>7. ASSUME NEW j \in Process, j # i PROVE Queued(m, j) <=> Queued(k, j)
  <2>1. PartitionOf[j] \in Partition /\ k.priority[j] \in Priority
    BY ConfigAssumption DEF TableType
  <2>2. CASE PartitionOf[j] = p /\ k.priority[j] = q
    BY <1>2, <1>4, <1>7, <2>2 DEF Queued, SameButQueues
  <2>3. CASE <<PartitionOf[j], k.priority[j]>> # <<p, q>>
    BY <1>2, <1>4, <1>7, <2>1, <2>3 DEF Queued, SameButQueues
  <2> QED BY <2>2, <2>3
<1> QED BY <1>2, <1>5, <1>6, <1>7 DEF Added, m

\* A queue has room for a process that is in no queue.
LEMMA RoomForUnqueued ==
  ASSUME NEW k \in TableType, QueuesSound(k), NEW i \in Process, InNoQueue(k, i)
  PROVE  HasRoom(k, PartitionOf[i], i)
<1> DEFINE p == PartitionOf[i]
           s == k.ready[p][k.priority[i]]
<1>1. p \in Partition /\ k.priority[i] \in Priority
  BY ConfigAssumption DEF TableType
<1>2. s \in Seq(Process)
  BY <1>1 DEF TableType
<1>3. NoRepeats(s) /\ ~IsIn(s, i)
  BY <1>1 DEF QueuesSound, InNoQueue
<1>4. i \in Members(p) /\ \A j \in Process : IsIn(s, j) => j \in Members(p)
  BY <1>1 DEF QueuesSound, Members
<1> QED BY <1>1, <1>2, <1>3, <1>4, RoomFor DEF HasRoom

\* Queueing at the tail or at the head.
LEMMA EnqueueAdds ==
  ASSUME NEW k \in TableType, QueuesSound(k), NEW i \in Process,
         k.state[i] = "READY", InNoQueue(k, i)
  PROVE  /\ Added(k, Enqueue(k, PartitionOf[i], i), i)
         /\ Added(k, EnqueueFront(k, PartitionOf[i], i), i)
<1> DEFINE p == PartitionOf[i]
           q == k.priority[i]
           s == k.ready[p][q]
<1>1. p \in Partition /\ q \in Priority
  BY ConfigAssumption DEF TableType
<1>2. s \in Seq(Process)
  BY <1>1 DEF TableType
<1>3. NoRepeats(s) /\ ~IsIn(s, i)
  BY <1>1 DEF QueuesSound, InNoQueue
<1>4. /\ Append(s, i) \in Seq(Process)
      /\ NoRepeats(Append(s, i))
      /\ \A j : IsIn(Append(s, i), j) <=> IsIn(s, j) \/ j = i
  BY <1>2, <1>3, AppendKeeps
<1>5. /\ <<i>> \o s \in Seq(Process)
      /\ NoRepeats(<<i>> \o s)
      /\ \A j : IsIn(<<i>> \o s, j) <=> IsIn(s, j) \/ j = i
  BY <1>2, <1>3, PrependKeeps
<1>6. /\ Enqueue(k, p, i) = [k EXCEPT !.ready[p][q] = Append(s, i)]
      /\ EnqueueFront(k, p, i) = [k EXCEPT !.ready[p][q] = <<i>> \o s]
  BY <1>1 DEF Enqueue, EnqueueFront, TableType
<1>7. Added(k, [k EXCEPT !.ready[p][q] = Append(s, i)], i)
  BY <1>4, AddToQueue
<1>8. Added(k, [k EXCEPT !.ready[p][q] = <<i>> \o s], i)
  BY <1>5, AddToQueue
<1> QED BY <1>6, <1>7, <1>8

\* partition_add_process queues a READY process that is in no queue.
LEMMA AddProcessAdds ==
  ASSUME NEW k \in TableType, QueuesSound(k), NEW i \in Process,
         k.state[i] = "READY", InNoQueue(k, i)
  PROVE  AddStatus(k, i) = "OK" /\ Added(k, AddProcess(k, i), i)
BY EnqueueAdds, RoomForUnqueued DEF AddProcess, AddStatus

\* What it means that m is k with i taken out of its queue.
TakenOut(k, m, i) ==
  /\ m \in TableType /\ QueuesSound(m) /\ SameButQueues(k, m)
  /\ InNoQueue(m, i)
  /\ \A j \in Process : Queued(m, j) <=> Queued(k, j) /\ j # i

LEMMA TakeFromQueue ==
  ASSUME NEW k \in TableType, QueuesSound(k), NEW i \in Process, Queued(k, i),
         NEW t \in Seq(Process), NoRepeats(t),
         \A j : IsIn(t, j) <=>
                  IsIn(k.ready[PartitionOf[i]][k.priority[i]], j) /\ j # i
  PROVE  TakenOut(k, [k EXCEPT !.ready[PartitionOf[i]][k.priority[i]] = t], i)
<1> DEFINE p == PartitionOf[i]
           q == k.priority[i]
           m == [k EXCEPT !.ready[p][q] = t]
<1>1. p \in Partition /\ q \in Priority
  BY ConfigAssumption DEF TableType
<1>2. /\ m \in TableType /\ SameButQueues(k, m)
      /\ m.ready = [k.ready EXCEPT ![p][q] = t]
  BY <1>1 DEF TableType, SameButQueues
<1>3. k.ready \in [Partition -> [Priority -> Seq(Process)]]
  BY DEF TableType
<1>4. /\ m.ready[p][q] = t
      /\ \A r \in Partition, u \in Priority :
           <<r, u>> # <<p, q>> => m.ready[r][u] = k.ready[r][u]
  BY <1>1, <1>2, <1>3
<1> HIDE DEF m
<1>5. QueuesSound(m) /\ InNoQueue(m, i)
  <2> SUFFICES ASSUME NEW r \in Partition, NEW u \in Priority
               PROVE  /\ NoRepeats(m.ready[r][u])
                      /\ \A j \in Process :
                           IsIn(m.ready[r][u], j) =>
                             /\ m.state[j] = "READY" /\ PartitionOf[j] = r
                             /\ m.priority[j] = u
                      /\ ~IsIn(m.ready[r][u], i)
    BY DEF QueuesSound, InNoQueue
  <2>1. CASE r = p /\ u = q
    BY <1>2, <1>4, <2>1 DEF QueuesSound, SameButQueues
  <2>2. CASE <<r, u>> # <<p, q>>
    BY <1>2, <1>4, <2>2 DEF QueuesSound, SameButQueues
  <2> QED BY <2>1, <2>2
<1>7. ~Queued(m, i)
  BY <1>1, <1>2, <1>5 DEF Queued, InNoQueue, SameButQueues
<1>6. ASSUME NEW j \in Process, j # i PROVE Queued(m, j) <=> Queued(k, j)
  <2>1. PartitionOf[j] \in Partition /\ k.priority[j] \in Priority
    BY ConfigAssumption DEF TableType
  <2>2. CASE PartitionOf[j] = p /\ k.priority[j] = q
    BY <1>2, <1>4, <1>6, <2>2 DEF Queued, SameButQueues
  <2>3. CASE <<PartitionOf[j], k.priority[j]>> # <<p, q>>
    BY <1>2, <1>4, <1>6, <2>1, <2>3 DEF Queued, SameButQueues
  <2> QED BY <2>2, <2>3
<1> QED BY <1>2, <1>5, <1>6, <1>7 DEF TakenOut, m

\* The best READY process is well defined and is queued once.
LEMMA BestIsQueued ==
  ASSUME NEW k \in TableType, QueuesSound(k), NEW p \in Partition,
         ReadyMask(k, p) # {}
  PROVE  LET q == BestPriority(k, p)
             n == NextReady(k, p)
         IN  /\ q \in ReadyMask(k, p) /\ \A r \in ReadyMask(k, p) : q <= r
             /\ n \in Process /\ PartitionOf[n] = p /\ k.priority[n] = q
             /\ Queued(k, n) /\ k.state[n] = "READY"
             /\ TakenOut(k, PopBest(k, p), n)
<1> DEFINE q == BestPriority(k, p)
           s == k.ready[p][q]
           n == Head(s)
<1>1. q \in ReadyMask(k, p) /\ \A r \in ReadyMask(k, p) : q <= r
  <2>1. ReadyMask(k, p) \subseteq Nat
    BY ConfigAssumption DEF ReadyMask, Priority
  <2> QED BY <2>1, BestExists DEF BestPriority
<1> HIDE DEF q
<1>2. q \in Priority /\ s # <<>>
  BY <1>1 DEF ReadyMask
<1>3. s \in Seq(Process) /\ NoRepeats(s)
  BY <1>2 DEF TableType, QueuesSound
<1>4. /\ n \in Process /\ IsIn(s, n) /\ Tail(s) \in Seq(Process)
      /\ NoRepeats(Tail(s))
      /\ \A j : IsIn(Tail(s), j) <=> IsIn(s, j) /\ j # n
  BY <1>2, <1>3, TailKeeps
<1> HIDE DEF n
<1>5. PartitionOf[n] = p /\ k.priority[n] = q /\ k.state[n] = "READY"
  BY <1>2, <1>4 DEF QueuesSound
<1>6. Queued(k, n)
  BY <1>4, <1>5 DEF Queued
<1>7. TakenOut(k, [k EXCEPT !.ready[p][q] = Tail(s)], n)
  BY <1>4, <1>5, <1>6, TakeFromQueue
<1>8. PopBest(k, p) = [k EXCEPT !.ready[p][q] = Tail(s)]
  BY <1>2 DEF PopBest, q, TableType
<1>9. NextReady(k, p) = n
  BY DEF NextReady, n, q
<1> QED BY <1>1, <1>4, <1>5, <1>6, <1>7, <1>8, <1>9 DEF q

\* scheduler_remove_process takes a queued process out of its queue.
LEMMA RemoveTakesOut ==
  ASSUME NEW k \in TableType, QueuesSound(k), NEW i \in Process, Queued(k, i)
  PROVE  TakenOut(k, RemoveProcess(k, i), i)
<1> DEFINE p == PartitionOf[i]
           q == k.priority[i]
           s == k.ready[p][q]
<1>1. p \in Partition /\ q \in Priority
  BY ConfigAssumption DEF TableType
<1>2. s \in Seq(Process) /\ NoRepeats(s) /\ IsIn(s, i)
  BY <1>1 DEF TableType, QueuesSound, Queued
<1>3. /\ Without(s, i) \in Seq(Process)
      /\ NoRepeats(Without(s, i))
      /\ \A j : IsIn(Without(s, i), j) <=> IsIn(s, j) /\ j # i
  BY <1>2, WithoutKeeps
<1>4. RemoveProcess(k, i) = [k EXCEPT !.ready[p][q] = Without(s, i)]
  BY <1>1 DEF RemoveProcess, TableType
<1>5. TakenOut(k, [k EXCEPT !.ready[p][q] = Without(s, i)], i)
  BY <1>3, TakeFromQueue
<1> QED BY <1>4, <1>5

-----------------------------------------------------------------------------
(* Operations keep a consistent table consistent and lose no process.      *)

Consistent(k) == k \in TableType /\ RunningIsCurrent(k) /\ QueuesSound(k)

\* partition_ready_process of a waiting process.
LEMMA ReadyProcessKeeps ==
  ASSUME NEW k, Consistent(k), NEW i \in Process, k.state[i] = "BLOCKED"
  PROVE  LET m == ReadyProcess(k, i)
         IN  /\ Consistent(m)
             /\ m.current = k.current /\ m.halted = k.halted
             /\ m.state = [k.state EXCEPT ![i] = "READY"]
             /\ \A j \in Process : Queued(m, j) <=> Queued(k, j) \/ j = i
<1> DEFINE l == SetState(k, i, "READY")
           m == ReadyProcess(k, i)
<1>1. k \in TableType /\ QueuesSound(k) /\ RunningIsCurrent(k)
  BY DEF Consistent
<1>2. InNoQueue(k, i)
  BY <1>1, NotReadyInNoQueue
<1>3. "READY" \in ProcessState /\ k.priority[i] \in Priority
  BY <1>1 DEF ProcessState, TableType
<1>4. /\ l \in TableType /\ QueuesSound(l) /\ InNoQueue(l, i)
      /\ l.state = [k.state EXCEPT ![i] = "READY"]
      /\ l.current = k.current /\ l.halted = k.halted
      /\ \A j \in Process : Queued(l, j) <=> Queued(k, j)
  BY <1>1, <1>2, <1>3, RestateUnqueued
<1>5. l.state[i] = "READY"
  BY <1>1, <1>4 DEF TableType
<1>7. Added(l, m, i)
  BY <1>4, <1>5, AddProcessAdds DEF ReadyProcess
<1> HIDE DEF l, m
<1>8. RunningIsCurrent(m)
  BY <1>1, <1>4, <1>7 DEF RunningIsCurrent, Added, SameButQueues, TableType
<1> QED BY <1>4, <1>7, <1>8 DEF Consistent, Added, SameButQueues, m

\* partition_set_process_priority: a queued process stays queued.
LEMMA SetPriorityKeeps ==
  ASSUME NEW k, Consistent(k), NEW i \in Process, NEW q \in Priority
  PROVE  LET m == SetProcessPriority(k, i, q)
         IN  /\ Consistent(m)
             /\ m.current = k.current /\ m.halted = k.halted
             /\ m.state = k.state
             /\ m.priority = [k.priority EXCEPT ![i] = q]
             /\ \A j \in Process : Queued(m, j) <=> Queued(k, j)
<1> DEFINE m == SetProcessPriority(k, i, q)
<1>1. k \in TableType /\ QueuesSound(k) /\ RunningIsCurrent(k)
  BY DEF Consistent
<1>2. CASE ~Queued(k, i)
  <2>1. InNoQueue(k, i)
    BY <1>1, <1>2, NotQueuedInNoQueue
  <2>3. m = SetPriority(k, i, q)
    BY <1>2 DEF SetProcessPriority
  <2> HIDE DEF m
  <2>4. /\ m \in TableType /\ QueuesSound(m)
        /\ m.priority = [k.priority EXCEPT ![i] = q]
        /\ m.state = k.state /\ m.current = k.current /\ m.halted = k.halted
        /\ \A j \in Process : Queued(m, j) <=> Queued(k, j)
    BY <1>1, <2>1, <2>3, ReprioritiseUnqueued
  <2> QED BY <1>1, <2>4 DEF Consistent, RunningIsCurrent, m
<1>3. CASE Queued(k, i)
  <2> DEFINE out == RemoveProcess(k, i)
             new == SetPriority(out, i, q)
  <2>1. TakenOut(k, out, i)
    BY <1>1, <1>3, RemoveTakesOut
  <2>2. out.state[i] \in ProcessState /\ out.state[i] = "READY"
    BY <1>3, <2>1 DEF TakenOut, TableType, Queued, SameButQueues
  <2>3. out \in TableType /\ QueuesSound(out) /\ InNoQueue(out, i)
    BY <2>1 DEF TakenOut
  <2>0. /\ new = SetPriority(out, i, q)
        /\ m = IF HasRoom(new, PartitionOf[i], i)
               THEN Enqueue(new, PartitionOf[i], i)
               ELSE Enqueue(out, PartitionOf[i], i)
    BY <1>3 DEF SetProcessPriority
  <2> HIDE DEF out, new, m
  <2>4. /\ new \in TableType /\ QueuesSound(new) /\ InNoQueue(new, i)
        /\ new.priority = [out.priority EXCEPT ![i] = q]
        /\ new.state = out.state /\ new.current = out.current
        /\ new.halted = out.halted
        /\ \A j \in Process : Queued(new, j) <=> Queued(out, j)
    BY <2>0, <2>3, ReprioritiseUnqueued
  <2>5. /\ Added(new, Enqueue(new, PartitionOf[i], i), i)
        /\ HasRoom(new, PartitionOf[i], i)
    BY <2>2, <2>4, EnqueueAdds, RoomForUnqueued
  <2>6. m = Enqueue(new, PartitionOf[i], i)
    BY <2>0, <2>5
  <2>7. \A j \in Process : Queued(m, j) <=> Queued(k, j)
    BY <1>3, <2>1, <2>4, <2>5, <2>6 DEF TakenOut, Added
  <2>8. /\ m.state = k.state /\ m.current = k.current /\ m.halted = k.halted
        /\ m.priority = [k.priority EXCEPT ![i] = q]
    BY <2>1, <2>4, <2>5, <2>6 DEF TakenOut, Added, SameButQueues
  <2>9. m \in TableType /\ QueuesSound(m)
    BY <2>5, <2>6 DEF Added
  <2> QED BY <1>1, <2>7, <2>8, <2>9 DEF Consistent, RunningIsCurrent, m
<1> QED BY <1>2, <1>3

\* A priority is in the mask exactly if a process of it waits for the CPU.
LEMMA MaskHolds ==
  ASSUME NEW k \in TableType, QueuesSound(k), NEW p \in Partition, NEW q
  PROVE  q \in ReadyMask(k, p) <=>
           \E j \in Process :
             Queued(k, j) /\ PartitionOf[j] = p /\ k.priority[j] = q
<1>1. ASSUME q \in ReadyMask(k, p)
      PROVE  \E j \in Process :
               Queued(k, j) /\ PartitionOf[j] = p /\ k.priority[j] = q
  <2> DEFINE s == k.ready[p][q]
  <2>1. q \in Priority /\ s # <<>>
    BY <1>1 DEF ReadyMask
  <2>2. s \in Seq(Process) /\ NoRepeats(s)
    BY <2>1 DEF TableType, QueuesSound
  <2>3. Head(s) \in Process /\ IsIn(s, Head(s))
    BY <2>1, <2>2, TailKeeps
  <2> QED BY <2>1, <2>3 DEF QueuesSound, Queued
<1>2. ASSUME NEW j \in Process,
             Queued(k, j), PartitionOf[j] = p, k.priority[j] = q
      PROVE  q \in ReadyMask(k, p)
  <2>1. q \in Priority
    BY <1>2 DEF TableType
  <2>2. k.ready[p][q] \in Seq(Process) /\ IsIn(k.ready[p][q], j)
    BY <1>2, <2>1 DEF TableType, Queued
  <2>3. k.ready[p][q] # <<>>
    BY <2>2 DEF IsIn
  <2> QED BY <2>1, <2>3 DEF ReadyMask
<1> QED BY <1>1, <1>2

\* The dispatcher's error returns are unreachable: a selection succeeds unless
\* the partition is halted or has nothing to run.
LEMMA SelectStatusOf ==
  ASSUME NEW k, Consistent(k), NEW p \in Partition, NEW y \in BOOLEAN
  PROVE  SelectStatus(k, p, y) =
           IF k.halted[p] THEN "PARTITION_HALTED"
           ELSE IF k.current[p] = NoProcess /\ ReadyMask(k, p) = {}
           THEN "QUEUE_EMPTY" ELSE "OK"
<1> DEFINE cur == k.current[p]
<1>1. k \in TableType /\ QueuesSound(k) /\ RunningIsCurrent(k)
  BY DEF Consistent
<1>2. cur # NoProcess =>
        cur \in Process /\ PartitionOf[cur] = p /\ k.state[cur] = "RUNNING"
  BY <1>1 DEF RunningIsCurrent, TableType
<1>3. ReadyMask(k, p) # {} => k.state[NextReady(k, p)] = "READY"
  BY <1>1, BestIsQueued
<1>4. ReadyMask(k, p) # {} /\ cur # NoProcess => HasRoom(PopBest(k, p), p, cur)
  <2> SUFFICES ASSUME ReadyMask(k, p) # {}, cur # NoProcess
               PROVE  HasRoom(PopBest(k, p), p, cur)
    OBVIOUS
  <2>1. TakenOut(k, PopBest(k, p), NextReady(k, p))
    BY <1>1, BestIsQueued
  <2>2. PopBest(k, p) \in TableType /\ QueuesSound(PopBest(k, p))
    BY <2>1 DEF TakenOut
  <2>3. PopBest(k, p).state[cur] # "READY"
    BY <1>2, <2>1 DEF TakenOut, SameButQueues
  <2>4. InNoQueue(PopBest(k, p), cur)
    BY <1>2, <2>2, <2>3, NotReadyInNoQueue
  <2> QED BY <1>2, <2>2, <2>4, RoomForUnqueued
<1>5. CASE k.halted[p]
  BY <1>5 DEF SelectStatus
<1>6. CASE ~k.halted[p] /\ cur = NoProcess /\ ReadyMask(k, p) = {}
  BY <1>6 DEF SelectStatus
<1>7. CASE ~k.halted[p] /\ cur # NoProcess
  <2>1. /\ ~(cur # NoProcess /\ k.state[cur] # "RUNNING")
        /\ ~(cur = NoProcess /\ ReadyMask(k, p) = {})
        /\ ~(ReadyMask(k, p) # {} /\ k.state[NextReady(k, p)] # "READY")
    BY <1>2, <1>3, <1>7
  <2>2. ~(Switches(k, p, y) /\ cur # NoProcess /\ ~HasRoom(PopBest(k, p), p, cur))
    BY <1>4, <1>7 DEF Switches
  <2> QED BY <1>7, <2>1, <2>2 DEF SelectStatus
<1>8. CASE ~k.halted[p] /\ cur = NoProcess /\ ReadyMask(k, p) # {}
  BY <1>3, <1>8 DEF SelectStatus
<1> QED BY <1>5, <1>6, <1>7, <1>8

\* Running a process that is in no queue.
LEMMA RunUnqueued ==
  ASSUME NEW k \in TableType, QueuesSound(k), NEW p \in Partition,
         NEW n \in Process, InNoQueue(k, n)
  PROVE  LET m == Run(k, p, n) IN
         /\ m \in TableType /\ QueuesSound(m)
         /\ m.state = [k.state EXCEPT ![n] = "RUNNING"]
         /\ m.current = [k.current EXCEPT ![p] = n]
         /\ m.priority = k.priority /\ m.halted = k.halted
         /\ \A j \in Process : Queued(m, j) <=> Queued(k, j)
<1> DEFINE l == SetState(k, n, "RUNNING")
           m == Run(k, p, n)
<1>1. "RUNNING" \in ProcessState
  BY DEF ProcessState
<1>2. /\ l \in TableType /\ QueuesSound(l)
      /\ l.state = [k.state EXCEPT ![n] = "RUNNING"]
      /\ l.ready = k.ready /\ l.priority = k.priority
      /\ l.current = k.current /\ l.halted = k.halted
      /\ \A j \in Process : Queued(l, j) <=> Queued(k, j)
  BY <1>1, RestateUnqueued
<1>3. m = [l EXCEPT !.current[p] = n]
  BY DEF Run, SetState, TableType
<1> HIDE DEF l, m
<1>4. /\ m \in TableType /\ m.state = l.state /\ m.ready = l.ready
      /\ m.priority = l.priority /\ m.halted = l.halted
      /\ m.current = [l.current EXCEPT ![p] = n]
  BY <1>2, <1>3 DEF TableType
<1>5. QueuesSound(m) /\ \A j \in Process : Queued(m, j) <=> Queued(l, j)
  BY <1>2, <1>4 DEF QueuesSound, Queued
<1> QED BY <1>2, <1>4, <1>5 DEF m

\* Nothing READY in k is missing from the queues of m that was not already
\* missing from those of k.
KeepsReady(k, m) ==
  \A j \in Process :
    m.state[j] = "READY" /\ (k.state[j] = "READY" => Queued(k, j)) => Queued(m, j)

\* Taking the best READY process and running it in the place of the process
\* out of the CPU: what dispatch, yield and block have in common.  The state b
\* is that in which the partition's former process has been put away.
LEMMA RunBest ==
  ASSUME NEW k, Consistent(k), NEW p \in Partition, NEW n \in Process,
         Queued(k, n), PartitionOf[n] = p,
         \A r \in ReadyMask(k, p) : k.priority[n] <= r,
         NEW b \in TableType, QueuesSound(b),
         b.priority = k.priority, b.halted = k.halted, b.current = k.current,
         NEW Back \in SUBSET Process,
         Back \subseteq {k.current[p]},
         \A j \in Process : Queued(b, j) <=> (Queued(k, j) /\ j # n) \/ j \in Back,
         \A j \in Back : k.priority[n] <= k.priority[j],
         \A j \in Process : j # k.current[p] => b.state[j] = k.state[j],
         k.current[p] # NoProcess =>
           b.state[k.current[p]] = IF k.current[p] \in Back THEN "READY" ELSE "BLOCKED"
  PROVE  LET m == Run(b, p, n) IN
         /\ Consistent(m) /\ m.halted = k.halted /\ m.priority = k.priority
         /\ KeepsReady(k, m)
         /\ m.current = [k.current EXCEPT ![p] = n]
         /\ BestRuns(m, p)
<1> DEFINE m == Run(b, p, n)
           cur == k.current[p]
<1>1. k \in TableType /\ QueuesSound(k) /\ RunningIsCurrent(k)
  BY DEF Consistent
<1>2. k.state[n] = "READY" /\ n # cur
  BY <1>1 DEF Queued, RunningIsCurrent
<1>3. InNoQueue(b, n)
  BY <1>2, NotQueuedInNoQueue
<1>4. /\ m \in TableType /\ QueuesSound(m)
      /\ m.state = [b.state EXCEPT ![n] = "RUNNING"]
      /\ m.current = [k.current EXCEPT ![p] = n]
      /\ m.priority = k.priority /\ m.halted = k.halted
      /\ \A j \in Process : Queued(m, j) <=> Queued(b, j)
  BY <1>3, RunUnqueued
<1> HIDE DEF m
<1>5. RunningIsCurrent(m)
  <2>1. ASSUME NEW j \in Process
        PROVE  (m.state[j] = "RUNNING") <=> (m.current[PartitionOf[j]] = j)
    <3>1. PartitionOf[j] \in Partition
      BY ConfigAssumption
    <3>2. /\ m.state[j] = IF j = n THEN "RUNNING" ELSE b.state[j]
          /\ m.current[PartitionOf[j]] =
               IF PartitionOf[j] = p THEN n ELSE k.current[PartitionOf[j]]
      BY <1>1, <1>4, <3>1 DEF TableType
    <3>3. CASE j = n
      BY <3>2, <3>3
    <3>4. CASE j = cur /\ j # n
      <4>1. cur # NoProcess
        BY <3>4, ConfigAssumption DEF Process, NoProcess
      <4>2. PartitionOf[j] = p
        BY <1>1, <3>4, <4>1 DEF RunningIsCurrent
      <4> QED BY <3>2, <3>4, <4>1, <4>2
    <3>5. CASE j # cur /\ j # n
      <4>1. b.state[j] = k.state[j]
        BY <3>5
      <4>2. (k.state[j] = "RUNNING") <=> (k.current[PartitionOf[j]] = j)
        BY <1>1 DEF RunningIsCurrent
      <4> QED BY <3>2, <3>5, <4>1, <4>2
    <3> QED BY <3>3, <3>4, <3>5
  <2>2. ASSUME NEW r \in Partition, m.current[r] # NoProcess
        PROVE  PartitionOf[m.current[r]] = r
    <3>1. m.current[r] = IF r = p THEN n ELSE k.current[r]
      BY <1>1, <1>4 DEF TableType
    <3> QED BY <1>1, <2>2, <3>1 DEF RunningIsCurrent
  <2> QED BY <2>1, <2>2 DEF RunningIsCurrent
<1>6. KeepsReady(k, m)
  <2> SUFFICES ASSUME NEW j \in Process, m.state[j] = "READY",
                      k.state[j] = "READY" => Queued(k, j)
               PROVE  Queued(m, j)
    BY DEF KeepsReady
  <2>1. m.state[j] = IF j = n THEN "RUNNING" ELSE b.state[j]
    BY <1>4 DEF TableType
  <2>2. j # n /\ b.state[j] = "READY"
    BY <2>1
  <2>3. CASE j = cur
    <3>1. cur # NoProcess
      BY <2>3, ConfigAssumption DEF Process, NoProcess
    <3> QED BY <1>4, <2>2, <2>3, <3>1
  <2>4. CASE j # cur
    BY <1>4, <2>2, <2>4
  <2> QED BY <2>3, <2>4
<1>7. BestRuns(m, p)
  <2> SUFFICES ASSUME NEW r \in ReadyMask(m, p), r < k.priority[n]
               PROVE  FALSE
    BY <1>1, <1>4 DEF BestRuns, HasHigher, TableType
  <2>1. PICK j \in Process :
          Queued(m, j) /\ PartitionOf[j] = p /\ m.priority[j] = r
    BY <1>4, MaskHolds
  <2>2. /\ k.priority[n] \in Int /\ k.priority[j] \in Int
        /\ r = k.priority[j]
    BY <1>1, <1>4, <2>1, ConfigAssumption DEF TableType, Priority
  <2>3. CASE j \in Back
    BY <2>2, <2>3
  <2>4. CASE j \notin Back
    <3>1. Queued(k, j)
      BY <1>4, <2>1, <2>4
    <3>2. r \in ReadyMask(k, p)
      BY <1>1, <2>1, <2>2, <3>1, MaskHolds
    <3> QED BY <2>2, <3>2
  <2> QED BY <2>3, <2>4
<1> QED BY <1>4, <1>5, <1>6, <1>7 DEF Consistent, m

\* A dispatch or a yield keeps the table consistent, loses no process, and
\* leaves the partition running one that nothing READY outranks.
LEMMA SelectKeeps ==
  ASSUME NEW k, Consistent(k), NEW p \in Partition, NEW y \in BOOLEAN
  PROVE  LET m == PartitionSelect(k, p, y) IN
         /\ Consistent(m) /\ m.halted = k.halted /\ m.priority = k.priority
         /\ KeepsReady(k, m)
         /\ \A r \in Partition : r # p => m.current[r] = k.current[r]
         /\ SelectStatus(k, p, y) = "OK" =>
              m.current[p] \in Process /\ BestRuns(m, p)
<1> DEFINE m    == PartitionSelect(k, p, y)
           cur  == k.current[p]
           next == NextReady(k, p)
<1>1. k \in TableType /\ QueuesSound(k) /\ RunningIsCurrent(k)
  BY DEF Consistent
<1>2. CASE SelectStatus(k, p, y) # "OK"
  BY <1>2 DEF PartitionSelect, KeepsReady
<1>3. CASE SelectStatus(k, p, y) = "OK" /\ ~Switches(k, p, y)
  <2>1. m = k
    BY <1>3 DEF PartitionSelect
  <2>2. cur # NoProcess
    BY <1>3, SelectStatusOf DEF Switches
  <2>3. cur \in Process /\ k.priority[cur] \in Int
    BY <1>1, <2>2, ConfigAssumption DEF TableType, Priority
  <2>4. ASSUME NEW r \in ReadyMask(k, p) PROVE ~(r < k.priority[cur])
    <3>1. /\ BestPriority(k, p) <= r /\ r \in Int
          /\ BestPriority(k, p) \in Int
      BY <1>1, BestIsQueued, ConfigAssumption DEF ReadyMask, Priority
    <3>2. ~(BestPriority(k, p) < k.priority[cur])
      BY <1>3, <2>2 DEF Switches, TakesOver
    <3> QED BY <2>3, <3>1, <3>2
  <2>5. BestRuns(k, p)
    BY <2>4 DEF BestRuns, HasHigher
  <2> HIDE DEF m
  <2> QED BY <2>1, <2>3, <2>5 DEF KeepsReady, m
<1>4. CASE SelectStatus(k, p, y) = "OK" /\ Switches(k, p, y)
  <2>1. ReadyMask(k, p) # {}
    BY <1>4 DEF Switches
  <2>2. /\ next \in Process /\ PartitionOf[next] = p /\ Queued(k, next)
        /\ k.priority[next] = BestPriority(k, p)
        /\ \A r \in ReadyMask(k, p) : k.priority[next] <= r
        /\ TakenOut(k, PopBest(k, p), next)
    BY <1>1, <2>1, BestIsQueued
  <2> DEFINE popped == PopBest(k, p)
  <2>3. /\ popped \in TableType /\ QueuesSound(popped)
        /\ SameButQueues(k, popped)
        /\ \A j \in Process : Queued(popped, j) <=> Queued(k, j) /\ j # next
    BY <2>2 DEF TakenOut
  <2> HIDE DEF popped, next
  <2>4. CASE cur = NoProcess
    <3>1. m = Run(popped, p, next)
      BY <1>4, <2>4 DEF PartitionSelect, popped, next
    <3>2. cur \notin Process
      BY <2>4, ConfigAssumption DEF Process, NoProcess
    <3>3. LET z == Run(popped, p, next) IN
          /\ Consistent(z) /\ z.halted = k.halted /\ z.priority = k.priority
          /\ KeepsReady(k, z)
          /\ z.current = [k.current EXCEPT ![p] = next]
          /\ BestRuns(z, p)
      <4> DEFINE Back == {}
      <4>1. /\ Back \in SUBSET Process /\ Back \subseteq {k.current[p]}
            /\ \A j \in Process :
                 Queued(popped, j) <=> (Queued(k, j) /\ j # next) \/ j \in Back
            /\ \A j \in Back : k.priority[next] <= k.priority[j]
        BY <2>3
      <4>2. /\ popped.priority = k.priority /\ popped.halted = k.halted
            /\ popped.current = k.current
            /\ \A j \in Process : j # k.current[p] => popped.state[j] = k.state[j]
        BY <2>3 DEF SameButQueues
      <4> HIDE DEF Back
      <4> QED BY <2>2, <2>3, <2>4, <4>1, <4>2, RunBest
    <3> HIDE DEF m
    <3> QED BY <1>1, <2>2, <3>1, <3>3 DEF m, TableType
  <2>5. CASE cur # NoProcess
    <3> DEFINE l    == SetState(popped, cur, "READY")
               back == Requeue(popped, p, cur, y)
    <3>1. m = Run(back, p, next)
      BY <1>4, <2>5 DEF PartitionSelect, popped, next
    <3>2. /\ cur \in Process /\ PartitionOf[cur] = p
          /\ k.state[cur] = "RUNNING"
      BY <1>1, <2>5 DEF RunningIsCurrent, TableType
    <3>3. InNoQueue(popped, cur)
      BY <2>3, <3>2, NotReadyInNoQueue DEF SameButQueues
    <3>4. "READY" \in ProcessState
      BY DEF ProcessState
    <3>5. /\ l \in TableType /\ QueuesSound(l) /\ InNoQueue(l, cur)
          /\ l.state = [popped.state EXCEPT ![cur] = "READY"]
          /\ l.state[cur] = "READY"
          /\ l.priority = popped.priority
          /\ l.current = popped.current /\ l.halted = popped.halted
          /\ \A j \in Process : Queued(l, j) <=> Queued(popped, j)
      BY <2>3, <3>2, <3>3, <3>4, RestateUnqueued
    <3>6. Added(l, back, cur)
      BY <3>2, <3>5, EnqueueAdds DEF Requeue
    <3> HIDE DEF l, back
    <3>7. /\ back \in TableType /\ QueuesSound(back)
          /\ back.priority = k.priority /\ back.halted = k.halted
          /\ back.current = k.current
          /\ back.state = [k.state EXCEPT ![cur] = "READY"]
      BY <2>3, <3>5, <3>6 DEF Added, SameButQueues
    <3>8. \A j \in Process :
            Queued(back, j) <=> (Queued(k, j) /\ j # next) \/ j \in {cur}
      BY <2>3, <3>5, <3>6 DEF Added
    <3>9. k.priority[next] <= k.priority[cur]
      <4>1. k.priority[next] \in Int /\ k.priority[cur] \in Int
        BY <1>1, <2>2, <3>2, ConfigAssumption DEF TableType, Priority
      <4>2. TakesOver(k.priority[next], k.priority[cur], y)
        BY <1>4, <2>2, <2>5 DEF Switches
      <4> QED BY <4>1, <4>2 DEF TakesOver
    <3>10. LET z == Run(back, p, next) IN
           /\ Consistent(z) /\ z.halted = k.halted /\ z.priority = k.priority
           /\ KeepsReady(k, z)
           /\ z.current = [k.current EXCEPT ![p] = next]
           /\ BestRuns(z, p)
      <4> DEFINE Back == {cur}
      <4>1. /\ Back \in SUBSET Process /\ Back \subseteq {k.current[p]}
            /\ \A j \in Back : k.priority[next] <= k.priority[j]
            /\ cur \in Back
        BY <3>2, <3>9
      <4>2. /\ \A j \in Process :
                 Queued(back, j) <=> (Queued(k, j) /\ j # next) \/ j \in Back
            /\ \A j \in Process : j # k.current[p] => back.state[j] = k.state[j]
            /\ back.state[k.current[p]] =
                 IF k.current[p] \in Back THEN "READY" ELSE "BLOCKED"
        BY <1>1, <3>2, <3>7, <3>8, <4>1 DEF TableType
      <4> HIDE DEF Back
      <4> QED BY <2>2, <3>7, <4>1, <4>2, RunBest
    <3> HIDE DEF m
    <3> QED BY <1>1, <2>2, <3>1, <3>10 DEF m, TableType
  <2> QED BY <2>4, <2>5
<1> QED BY <1>2, <1>3, <1>4

\* Blocking the running process and running the best READY one.
LEMMA BlockKeeps ==
  ASSUME NEW k, Consistent(k), NEW p \in Partition, NEW i \in Process,
         k.current[p] = i, BlockStatus(k, p, i) = "OK"
  PROVE  LET m == BlockAndDispatch(k, p, i) IN
         /\ Consistent(m) /\ m.halted = k.halted /\ ~k.halted[p]
         /\ KeepsReady(k, m)
         /\ \A r \in Partition : r # p => m.current[r] = k.current[r]
         /\ m.current[p] \in Process /\ BestRuns(m, p)
<1> DEFINE m      == BlockAndDispatch(k, p, i)
           next   == NextReady(k, p)
           popped == PopBest(k, p)
           b      == SetState(popped, i, "BLOCKED")
<1>1. k \in TableType /\ QueuesSound(k)
  BY DEF Consistent
<1>2. ReadyMask(k, p) # {} /\ k.state[i] = "RUNNING" /\ ~k.halted[p]
  BY DEF BlockStatus
<1>3. /\ next \in Process /\ PartitionOf[next] = p /\ Queued(k, next)
      /\ \A r \in ReadyMask(k, p) : k.priority[next] <= r
      /\ TakenOut(k, popped, next)
  BY <1>1, <1>2, BestIsQueued
<1>4. m = Run(b, p, next)
  BY DEF BlockAndDispatch
<1> HIDE DEF m, next, popped
<1>5. /\ popped \in TableType /\ QueuesSound(popped)
      /\ SameButQueues(k, popped)
      /\ \A j \in Process : Queued(popped, j) <=> Queued(k, j) /\ j # next
  BY <1>3 DEF TakenOut
<1>6. InNoQueue(popped, i)
  BY <1>2, <1>5, NotReadyInNoQueue DEF SameButQueues
<1>7. "BLOCKED" \in ProcessState
  BY DEF ProcessState
<1>8. /\ b \in TableType /\ QueuesSound(b)
      /\ b.state = [popped.state EXCEPT ![i] = "BLOCKED"]
      /\ b.state[i] = "BLOCKED"
      /\ b.priority = popped.priority
      /\ b.current = popped.current /\ b.halted = popped.halted
      /\ \A j \in Process : Queued(b, j) <=> Queued(popped, j)
  BY <1>5, <1>6, <1>7, RestateUnqueued
<1> HIDE DEF b
<1> DEFINE Back == {}
<1>9. /\ Back \in SUBSET Process /\ Back \subseteq {k.current[p]}
      /\ \A j \in Process :
           Queued(b, j) <=> (Queued(k, j) /\ j # next) \/ j \in Back
      /\ \A j \in Back : k.priority[next] <= k.priority[j]
      /\ k.current[p] \notin Back
  BY <1>5, <1>8
<1>10. /\ b \in TableType /\ QueuesSound(b)
       /\ b.priority = k.priority /\ b.halted = k.halted
       /\ b.current = k.current
       /\ \A j \in Process : j # k.current[p] => b.state[j] = k.state[j]
       /\ b.state[k.current[p]] =
            IF k.current[p] \in Back THEN "READY" ELSE "BLOCKED"
  BY <1>1, <1>5, <1>8, <1>9 DEF SameButQueues, TableType
<1> HIDE DEF Back
<1>11. LET z == Run(b, p, next) IN
       /\ Consistent(z) /\ z.halted = k.halted /\ z.priority = k.priority
       /\ KeepsReady(k, z)
       /\ z.current = [k.current EXCEPT ![p] = next]
       /\ BestRuns(z, p)
  BY <1>3, <1>9, <1>10, RunBest
<1> QED BY <1>1, <1>2, <1>3, <1>4, <1>11 DEF m, TableType

\* Taking the running process off the CPU with nothing in its place, its new
\* state being any but RUNNING.
LEMMA LeaveKeeps ==
  ASSUME NEW k, Consistent(k), NEW i \in Process, k.state[i] = "RUNNING",
         NEW l \in TableType, QueuesSound(l), l.state[i] # "RUNNING",
         \A j \in Process : j # i => l.state[j] = k.state[j],
         l.current = k.current
  PROVE  LET m == Leave(l, PartitionOf[i]) IN
         /\ Consistent(m) /\ m.halted = l.halted /\ m.state = l.state
         /\ m.priority = l.priority /\ m.ready = l.ready
         /\ m.current = [k.current EXCEPT ![PartitionOf[i]] = NoProcess]
         /\ \A j \in Process : Queued(m, j) <=> Queued(l, j)
<1> DEFINE p == PartitionOf[i]
           m == Leave(l, p)
<1>1. k \in TableType /\ RunningIsCurrent(k) /\ p \in Partition
  BY ConfigAssumption DEF Consistent
<1>2. k.current[p] = i
  BY <1>1 DEF RunningIsCurrent
<1>3. /\ m \in TableType /\ m.halted = l.halted /\ m.state = l.state
      /\ m.priority = l.priority /\ m.ready = l.ready
      /\ m.current = [k.current EXCEPT ![p] = NoProcess]
  BY <1>1 DEF TableType, Leave
<1> HIDE DEF m
<1>4. QueuesSound(m) /\ \A j \in Process : Queued(m, j) <=> Queued(l, j)
  BY <1>3 DEF QueuesSound, Queued
<1>5. RunningIsCurrent(m)
  <2>1. ASSUME NEW r \in Partition
        PROVE  m.current[r] = IF r = p THEN NoProcess ELSE k.current[r]
    BY <1>1, <1>3 DEF TableType
  <2>2. ASSUME NEW j \in Process
        PROVE  (m.state[j] = "RUNNING") <=> (m.current[PartitionOf[j]] = j)
    <3>1. PartitionOf[j] \in Partition /\ j # NoProcess
      BY ConfigAssumption DEF Process, NoProcess
    <3>2. (k.state[j] = "RUNNING") <=> (k.current[PartitionOf[j]] = j)
      BY <1>1 DEF RunningIsCurrent
    <3>3. CASE j = i
      BY <1>3, <2>1, <3>1, <3>3
    <3>4. CASE j # i
      BY <1>2, <1>3, <2>1, <3>1, <3>2, <3>4
    <3> QED BY <3>3, <3>4
  <2>3. ASSUME NEW r \in Partition, m.current[r] # NoProcess
        PROVE  PartitionOf[m.current[r]] = r
    BY <1>1, <2>1, <2>3 DEF RunningIsCurrent
  <2> QED BY <2>2, <2>3 DEF RunningIsCurrent
<1> QED BY <1>3, <1>4, <1>5 DEF Consistent, m

\* A wait with nothing else READY blocks the caller and idles the partition.
LEMMA BlockIdleKeeps ==
  ASSUME NEW k, Consistent(k), NEW i \in Process, k.state[i] = "RUNNING"
  PROVE  LET m == BlockIdle(k, PartitionOf[i], i) IN
         /\ Consistent(m) /\ m.halted = k.halted
         /\ KeepsReady(k, m)
         /\ m.current = [k.current EXCEPT ![PartitionOf[i]] = NoProcess]
<1> DEFINE l == SetState(k, i, "BLOCKED")
           m == BlockIdle(k, PartitionOf[i], i)
<1>1. k \in TableType /\ QueuesSound(k)
  BY DEF Consistent
<1>2. InNoQueue(k, i) /\ "BLOCKED" \in ProcessState
  BY <1>1, NotReadyInNoQueue DEF ProcessState
<1>3. /\ l \in TableType /\ QueuesSound(l)
      /\ l.state = [k.state EXCEPT ![i] = "BLOCKED"] /\ l.state[i] = "BLOCKED"
      /\ l.current = k.current /\ l.halted = k.halted
      /\ \A j \in Process : Queued(l, j) <=> Queued(k, j)
  BY <1>1, <1>2, RestateUnqueued
<1>4. /\ l \in TableType /\ QueuesSound(l) /\ l.current = k.current
      /\ \A j \in Process : j # i => l.state[j] = k.state[j]
      /\ l.state[i] # "RUNNING"
  BY <1>1, <1>3 DEF TableType
<1>5. m = Leave(l, PartitionOf[i])
  BY DEF BlockIdle
<1> HIDE DEF l, m
<1>6. /\ Consistent(m) /\ m.halted = l.halted /\ m.state = l.state
      /\ m.current = [k.current EXCEPT ![PartitionOf[i]] = NoProcess]
      /\ \A j \in Process : Queued(m, j) <=> Queued(l, j)
  BY <1>4, <1>5, LeaveKeeps
<1>7. KeepsReady(k, m)
  BY <1>3, <1>4, <1>6 DEF KeepsReady
<1> QED BY <1>3, <1>6, <1>7 DEF m

\* Recovery of a running process: it is queued and its partition runs nothing.
LEMMA RestartRunningKeeps ==
  ASSUME NEW k, Consistent(k), NEW i \in Process, k.state[i] = "RUNNING"
  PROVE  LET m == RestartRunning(k, i) IN
         /\ Consistent(m) /\ m.halted = k.halted /\ Queued(m, i)
         /\ KeepsReady(k, m)
         /\ m.current = [k.current EXCEPT ![PartitionOf[i]] = NoProcess]
<1> DEFINE l == SetState(k, i, "READY")
           b == AddProcess(l, i)
           m == RestartRunning(k, i)
<1>1. k \in TableType /\ QueuesSound(k)
  BY DEF Consistent
<1>2. InNoQueue(k, i) /\ "READY" \in ProcessState
  BY <1>1, NotReadyInNoQueue DEF ProcessState
<1>3. /\ l \in TableType /\ QueuesSound(l) /\ InNoQueue(l, i)
      /\ l.state = [k.state EXCEPT ![i] = "READY"] /\ l.state[i] = "READY"
      /\ l.current = k.current /\ l.halted = k.halted
      /\ \A j \in Process : Queued(l, j) <=> Queued(k, j)
  BY <1>1, <1>2, RestateUnqueued
<1>4. Added(l, b, i)
  BY <1>3, AddProcessAdds
<1>5. m = Leave(b, PartitionOf[i])
  BY DEF RestartRunning
<1> HIDE DEF l, b, m
<1>6. /\ b \in TableType /\ QueuesSound(b) /\ b.state[i] = "READY"
      /\ b.current = k.current /\ b.halted = k.halted
      /\ \A j \in Process : j # i => b.state[j] = k.state[j]
      /\ \A j \in Process : Queued(b, j) <=> Queued(k, j) \/ j = i
  BY <1>1, <1>3, <1>4 DEF Added, SameButQueues, TableType
<1>7. /\ Consistent(m) /\ m.halted = b.halted /\ m.state = b.state
      /\ m.current = [k.current EXCEPT ![PartitionOf[i]] = NoProcess]
      /\ \A j \in Process : Queued(m, j) <=> Queued(b, j)
  BY <1>5, <1>6, LeaveKeeps
<1>8. KeepsReady(k, m) /\ Queued(m, i)
  BY <1>6, <1>7 DEF KeepsReady
<1> QED BY <1>6, <1>7, <1>8 DEF m

\* The states a recovery sets, for a process in any state.
LEMMA RestartProcessKeeps ==
  ASSUME NEW k, Consistent(k), NEW i \in Process
  PROVE  LET m == RestartProcess(k, i) IN
         /\ Consistent(m) /\ m.halted = k.halted /\ KeepsReady(k, m)
         /\ \A p \in Partition : m.current[p] = k.current[p] \/ k.current[p] = i
<1> DEFINE m == RestartProcess(k, i)
<1>1. CASE k.state[i] = "RUNNING"
  <2>1. m = RestartRunning(k, i)
    BY <1>1 DEF RestartProcess
  <2>2. LET z == RestartRunning(k, i) IN
        /\ Consistent(z) /\ z.halted = k.halted /\ KeepsReady(k, z)
        /\ z.current = [k.current EXCEPT ![PartitionOf[i]] = NoProcess]
    BY <1>1, RestartRunningKeeps
  <2>3. k.current[PartitionOf[i]] = i /\ k \in TableType
    BY <1>1 DEF Consistent, RunningIsCurrent
  <2> HIDE DEF m
  <2> QED BY <2>1, <2>2, <2>3 DEF m, TableType
<1>2. CASE k.state[i] = "BLOCKED"
  <2>1. m = ReadyProcess(k, i)
    BY <1>2 DEF RestartProcess
  <2>2. LET z == ReadyProcess(k, i) IN
        /\ Consistent(z) /\ z.current = k.current /\ z.halted = k.halted
        /\ z.state = [k.state EXCEPT ![i] = "READY"]
        /\ \A j \in Process : Queued(z, j) <=> Queued(k, j) \/ j = i
    BY <1>2, ReadyProcessKeeps
  <2>3. k \in TableType
    BY DEF Consistent
  <2> HIDE DEF m
  <2> QED BY <2>1, <2>2, <2>3 DEF m, TableType, KeepsReady
<1>3. CASE k.state[i] \notin {"RUNNING", "BLOCKED"}
  BY <1>3 DEF RestartProcess, KeepsReady
<1> QED BY <1>1, <1>2, <1>3

\* A successful dispatch names a process of an active partition that nothing
\* READY there outranks.
LEMMA SelectRuns ==
  ASSUME NEW k, Consistent(k), NEW p \in Partition, NEW y \in BOOLEAN,
         SelectStatus(k, p, y) = "OK"
  PROVE  LET m == PartitionSelect(k, p, y)
             c == m.current[p]
         IN  /\ c \in Process /\ PartitionOf[c] = p /\ c # NoProcess
             /\ ~m.halted[p] /\ BestRuns(m, p)
<1> DEFINE m == PartitionSelect(k, p, y)
<1>1. /\ Consistent(m) /\ m.halted = k.halted
      /\ m.current[p] \in Process /\ BestRuns(m, p)
  BY SelectKeeps
<1>2. ~k.halted[p]
  BY SelectStatusOf
<1> HIDE DEF m
<1>3. m.current[p] # NoProcess
  BY <1>1, ConfigAssumption DEF Process, NoProcess
<1>4. PartitionOf[m.current[p]] = p
  BY <1>1, <1>3 DEF Consistent, RunningIsCurrent
<1> QED BY <1>1, <1>2, <1>3, <1>4 DEF m

-----------------------------------------------------------------------------
(* What the operations do to the states of the processes.                  *)

\* A dispatch blocks and wakes nobody; one that fails changes nothing.
LEMMA SelectStates ==
  ASSUME NEW k, Consistent(k), NEW p \in Partition, NEW y \in BOOLEAN
  PROVE  LET m == PartitionSelect(k, p, y) IN
         /\ \A j \in Process : m.state[j] = "BLOCKED" <=> k.state[j] = "BLOCKED"
         /\ SelectStatus(k, p, y) # "OK" => m = k
<1> DEFINE m    == PartitionSelect(k, p, y)
           cur  == k.current[p]
           next == NextReady(k, p)
<1>1. k \in TableType /\ QueuesSound(k) /\ RunningIsCurrent(k)
  BY DEF Consistent
<1>2. CASE SelectStatus(k, p, y) # "OK" \/ ~Switches(k, p, y)
  BY <1>2 DEF PartitionSelect
<1>3. CASE SelectStatus(k, p, y) = "OK" /\ Switches(k, p, y)
  <2>1. next \in Process /\ k.state[next] = "READY"
    BY <1>1, <1>3, BestIsQueued DEF Switches
  <2>2. cur # NoProcess => cur \in Process /\ k.state[cur] = "RUNNING"
    <3>1. cur \in Process \cup {NoProcess}
      BY <1>1 DEF TableType
    <3>2. cur # NoProcess => PartitionOf[cur] = p
      BY <1>1 DEF RunningIsCurrent
    <3>3. ASSUME NEW j \in Process, k.current[PartitionOf[j]] = j
          PROVE  k.state[j] = "RUNNING"
      BY <1>1, <3>3 DEF RunningIsCurrent
    <3> QED BY <3>1, <3>2, <3>3
  <2>3. k.state \in [Process -> ProcessState]
    BY <1>1 DEF TableType
  <2> DEFINE back == IF cur = NoProcess THEN PopBest(k, p)
                     ELSE Requeue(PopBest(k, p), p, cur, y)
  <2>4. m = Run(back, p, next)
    BY <1>3 DEF PartitionSelect
  <2>5. back.state = IF cur = NoProcess THEN k.state
                     ELSE [k.state EXCEPT ![cur] = "READY"]
    <3>1. PopBest(k, p).state = k.state
      BY <1>1 DEF PopBest, TableType
    <3>2. ASSUME NEW l, l.state = k.state, k.state = l.state
          PROVE  Requeue(l, p, cur, y).state = [k.state EXCEPT ![cur] = "READY"]
      BY <3>2 DEF Requeue, Enqueue, EnqueueFront, SetState
    <3> QED BY <3>1, <3>2
  <2>6. Run(back, p, next).state = [back.state EXCEPT ![next] = "RUNNING"]
    BY DEF Run
  <2> HIDE DEF m, back, next, cur
  <2>7. m.state = [back.state EXCEPT ![next] = "RUNNING"]
    BY <2>4, <2>6
  <2>8. \A j \in Process : m.state[j] = "BLOCKED" <=> k.state[j] = "BLOCKED"
    <3>1. CASE cur = NoProcess
      BY <2>1, <2>3, <2>5, <2>7, <3>1
    <3>2. CASE cur # NoProcess
      BY <2>1, <2>2, <2>3, <2>5, <2>7, <3>2
    <3> QED BY <3>1, <3>2
  <2> QED BY <1>3, <2>8 DEF m
<1> QED BY <1>2, <1>3

\* Blocking the running process, with or without one in its place, blocks just
\* that one; restarting it makes just that one READY.
LEMMA CallerStates ==
  ASSUME NEW k, Consistent(k), NEW i \in Process, k.state[i] = "RUNNING"
  PROVE  LET p == PartitionOf[i] IN
         /\ BlockStatus(k, p, i) = "OK" =>
              \A j \in Process :
                BlockAndDispatch(k, p, i).state[j] = "BLOCKED"
                  <=> k.state[j] = "BLOCKED" \/ j = i
         /\ BlockIdle(k, p, i).state = [k.state EXCEPT ![i] = "BLOCKED"]
         /\ RestartRunning(k, i).state = [k.state EXCEPT ![i] = "READY"]
<1> DEFINE p    == PartitionOf[i]
           next == NextReady(k, p)
<1>1. k \in TableType /\ QueuesSound(k) /\ p \in Partition
  BY ConfigAssumption DEF Consistent
<1>2. k.state \in [Process -> ProcessState]
  BY <1>1 DEF TableType
<1>3. ASSUME BlockStatus(k, p, i) = "OK", NEW j \in Process
      PROVE  BlockAndDispatch(k, p, i).state[j] = "BLOCKED"
               <=> k.state[j] = "BLOCKED" \/ j = i
  <2>1. ReadyMask(k, p) # {}
    BY <1>3 DEF BlockStatus
  <2>2. next \in Process /\ k.state[next] = "READY"
    BY <1>1, <2>1, BestIsQueued
  <2>3. BlockAndDispatch(k, p, i)
          = Run(SetState(PopBest(k, p), i, "BLOCKED"), p, next)
    BY <1>3 DEF BlockAndDispatch
  <2>4. Run(SetState(PopBest(k, p), i, "BLOCKED"), p, next).state
          = [k.state EXCEPT ![i] = "BLOCKED", ![next] = "RUNNING"]
    BY <1>1 DEF Run, SetState, PopBest, TableType
  <2> HIDE DEF next, p
  <2> QED BY <1>2, <2>2, <2>3, <2>4
<1>4. BlockIdle(k, p, i).state = [k.state EXCEPT ![i] = "BLOCKED"]
  BY <1>1 DEF BlockIdle, Leave, SetState, TableType
<1>5. RestartRunning(k, i).state = [k.state EXCEPT ![i] = "READY"]
  BY <1>1 DEF RestartRunning, Leave, AddProcess, Enqueue, SetState, TableType
<1> QED BY <1>3, <1>4, <1>5
=============================================================================
