---------------------------- MODULE MutexProofs -----------------------------
(***************************************************************************)
(* What the mutexes guarantee, for every configuration: any processes,     *)
(* partitions, priorities, mutexes and bounds of the wait lists.           *)
(*                                                                         *)
(* First who owns what and who waits for it, which rests on IInv and needs *)
(* nothing of priorities; then what each process is owed, which rests on   *)
(* JInv and on the two kinds of walk along a chain of owners.              *)
(***************************************************************************)
EXTENDS Mutex, IpcBlockProofs

-----------------------------------------------------------------------------
(* Changing the priority of a process, on a record with more fields than a *)
(* table.                                                                  *)

LEMMA LiftSetPriority ==
  ASSUME NEW k, Extends(k), NEW i, NEW q
  PROVE  /\ Lifts(k, SetPriority(k, i, q), SetPriority(TablePart(k), i, q))
         /\ Lifts(k, RemoveProcess(k, i), RemoveProcess(TablePart(k), i))
<1>1. Lifts(k, SetPriority(k, i, q), SetPriority(TablePart(k), i, q))
  BY DEF SetPriority, Extends, TablePart, TableFields, Lifts, SameBeyond
<1>2. SameBeyond(k, RemoveProcess(k, i))
  BY DEF RemoveProcess, Extends, TableFields, SameBeyond
<1>3. SameTable(RemoveProcess(k, i), RemoveProcess(TablePart(k), i))
  BY DEF RemoveProcess, Extends, SameTable, TablePart, TableFields
<1>4. IsTable(RemoveProcess(TablePart(k), i))
  BY DEF RemoveProcess, IsTable, TablePart, TableFields
<1> QED BY <1>1, <1>2, <1>3, <1>4, LiftBy

LEMMA LiftSetProcessPriority ==
  ASSUME NEW k, Extends(k), NEW i, NEW q
  PROVE  Lifts(k, SetProcessPriority(k, i, q), SetProcessPriority(TablePart(k), i, q))
<1> DEFINE t == TablePart(k)
           p == PartitionOf[i]
           out == RemoveProcess(k, i)
           new == SetPriority(out, i, q)
<1>1. Queued(t, i) = Queued(k, i)
  BY TableRead
<1>2. CASE ~Queued(k, i)
  BY <1>1, <1>2, LiftSetPriority DEF SetProcessPriority
<1>3. CASE Queued(k, i)
  <2> DEFINE tout == RemoveProcess(t, i)
             tnew == SetPriority(tout, i, q)
  <2>1. Lifts(k, out, tout)
    BY LiftSetPriority
  <2>2. Extends(out) /\ TablePart(out) = tout
    BY <2>1 DEF Lifts, SameBeyond
  <2>3. Lifts(out, new, tnew)
    BY <2>2, LiftSetPriority
  <2>4. Lifts(k, new, tnew) /\ Extends(new) /\ TablePart(new) = tnew
    BY <2>1, <2>3, LiftThen DEF Lifts, SameBeyond
  <2>5. HasRoom(tnew, p, i) = HasRoom(new, p, i)
    BY <2>4, TableRead
  <2>6. /\ SetProcessPriority(k, i, q) = IF HasRoom(new, p, i) THEN Enqueue(new, p, i)
                                         ELSE Enqueue(out, p, i)
        /\ SetProcessPriority(t, i, q) = IF HasRoom(tnew, p, i) THEN Enqueue(tnew, p, i)
                                         ELSE Enqueue(tout, p, i)
    BY <1>1, <1>3 DEF SetProcessPriority
  <2> HIDE DEF t, out, new, tout, tnew
  <2>7. Lifts(new, Enqueue(new, p, i), Enqueue(tnew, p, i))
    BY <2>4, LiftEnqueue
  <2>8. Lifts(out, Enqueue(out, p, i), Enqueue(tout, p, i))
    BY <2>2, LiftEnqueue
  <2>9. /\ Lifts(k, Enqueue(new, p, i), Enqueue(tnew, p, i))
        /\ Lifts(k, Enqueue(out, p, i), Enqueue(tout, p, i))
    BY <2>1, <2>4, <2>7, <2>8, LiftThen
  <2> QED BY <2>5, <2>6, <2>9 DEF t
<1> QED BY <1>2, <1>3

\* m is k with other priorities, and the READY processes in the queues of theirs.
Reprioritised(k, m) ==
  /\ SameBut(k, m, {"priority", "ready"})
  /\ Consistent(TablePart(m)) /\ KeepsReady(TablePart(k), TablePart(m))

LEMMA SetPriorityIs ==
  ASSUME NEW k, Extends(k), Consistent(TablePart(k)), NEW i \in Process,
         NEW q \in Priority
  PROVE  LET m == SetProcessPriority(k, i, q) IN
         Reprioritised(k, m) /\ m.priority = [k.priority EXCEPT ![i] = q]
<1> DEFINE m == SetProcessPriority(k, i, q)
           t == TablePart(k)
           u == SetProcessPriority(t, i, q)
<1>1. SameBeyond(k, m) /\ TablePart(m) = u
  BY LiftSetProcessPriority DEF Lifts
<1>2. /\ t.state = k.state /\ t.priority = k.priority /\ t.current = k.current
      /\ t.halted = k.halted
  BY DEF TablePart
<1>3. /\ m.state = u.state /\ m.priority = u.priority /\ m.current = u.current
      /\ m.halted = u.halted
  BY <1>1 DEF TablePart
<1> HIDE DEF m, t
<1>4. /\ Consistent(u) /\ u.current = t.current /\ u.halted = t.halted
      /\ u.state = t.state /\ u.priority = [t.priority EXCEPT ![i] = q]
      /\ \A j \in Process : Queued(u, j) <=> Queued(t, j)
  BY SetPriorityKeeps DEF t
<1> HIDE DEF u
<1>5. KeepsReady(t, u)
  BY <1>4 DEF KeepsReady
<1>6. SameBut(k, m, {"priority", "ready"})
  BY <1>1, <1>2, <1>3, <1>4 DEF SameBut, SameBeyond, Extends, TableFields
<1> QED BY <1>1, <1>2, <1>3, <1>4, <1>5, <1>6 DEF Reprioritised, m, t

LEMMA ReprioritisedThen ==
  ASSUME NEW k, NEW l, NEW m, Reprioritised(k, l), Reprioritised(l, m),
         TableFields \subseteq DOMAIN k
  PROVE  Reprioritised(k, m)
<1>1. SameBut(k, m, {"priority", "ready"})
  BY DEF Reprioritised, SameBut
<1>2. TablePart(k).state = TablePart(l).state
  BY DEF Reprioritised, SameBut, TablePart, TableFields
<1>3. KeepsReady(TablePart(k), TablePart(m))
  BY <1>2 DEF Reprioritised, KeepsReady, Queued
<1> QED BY <1>1, <1>3 DEF Reprioritised

-----------------------------------------------------------------------------
(* The walk along the chain of owners.  What it needs of a table also      *)
(* holds half-way through a restart, when the wait lists do not agree.     *)

Ops == {NoOp} \cup {LockOp(m) : m \in MutexId}

OwnerType(k) == k.owner \in [MutexId -> Process \cup {NoProcess}]

WalkOk(k) ==
  /\ Extends(k) /\ {"owner", "op", "waiters"} \subseteq DOMAIN k
  /\ Consistent(TablePart(k)) /\ OwnerType(k)
  /\ \A i \in Process : k.op[i] \in Ops

\* Processes other than a that own nothing have their own priority.
OwedBut(k, a) ==
  \A j \in Process \ {a} : Owned(k, j) = {} => k.priority[j] = BasePriority[j]

NothingOwed(k) ==
  \A j \in Process : Owned(k, j) = {} => k.priority[j] = BasePriority[j]

LEMMA WantedIs ==
  ASSUME NEW k, WalkOk(k), NEW i \in Process, NEW claim \in Priority \cup {NoClaim}
  PROVE  LET q == WantedPriority(k, i, claim) IN
         /\ q \in Priority
         /\ claim = NoClaim /\ Owned(k, i) = {} => q = BasePriority[i]
<1> DEFINE ofWaiters == {k.priority[w] : w \in UNION {Waiters(k, m) : m \in Owned(k, i)}}
           demands == {BasePriority[i], claim} \cup ofWaiters
           q == WantedPriority(k, i, claim)
<1>1. k.priority \in [Process -> Priority]
  BY DEF WalkOk, Consistent, TableType, TablePart
<1>2. BasePriority[i] \in Priority /\ MaxPriority \in Nat
  BY ConfigAssumption
<1>3. ofWaiters \subseteq Priority
  BY <1>1 DEF Waiters
<1>4. demands \subseteq Nat /\ BasePriority[i] \in demands
  BY <1>2, <1>3 DEF Priority, NoClaim
<1>5. q = CHOOSE x \in demands : \A r \in demands : x <= r
  BY DEF WantedPriority
<1>6. q \in demands /\ \A r \in demands : q <= r
  <2> HIDE DEF demands, q
  <2>1. \E x \in demands : \A r \in demands : x <= r
    BY <1>4, BestExists
  <2> QED BY <1>5, <2>1
<1>7. q \in Priority
  <2> HIDE DEF demands, q
  <2>1. q \in Nat /\ q <= BasePriority[i]
    BY <1>4, <1>6
  <2> QED BY <1>2, <2>1 DEF Priority
<1>8. ASSUME claim = NoClaim, Owned(k, i) = {}
      PROVE  q = BasePriority[i]
  <2>1. ofWaiters = {}
    BY <1>8
  <2>2. demands = {BasePriority[i], NoClaim}
    BY <1>8, <2>1
  <2> HIDE DEF demands, q
  <2> QED BY <1>2, <1>6, <1>7, <2>2 DEF Priority, NoClaim
<1> QED BY <1>7, <1>8

\* The table of a walk that began with k at process i.
WalkInv(k, i, h) ==
  /\ Reprioritised(k, h.table)
  /\ h.at \in Process \cup {NoProcess} /\ h.claim \in Priority \cup {NoClaim}
  /\ h.claim = NoClaim \/ (h.at \in Process => Owned(h.table, h.at) # {})
  /\ OwedBut(h.table, h.at)
  /\ i \in Process /\ k.state[i] # "BLOCKED" =>
       /\ h.at \in {i, NoProcess}
       /\ \A j \in Process \ {i} : h.table.priority[j] = k.priority[j]

LEMMA WalkOkKept ==
  ASSUME NEW k, WalkOk(k), NEW m, Reprioritised(k, m)
  PROVE  /\ WalkOk(m) /\ m.owner = k.owner /\ m.op = k.op /\ m.state = k.state
         /\ m.waiters = k.waiters /\ \A i : Owned(m, i) = Owned(k, i)
<1>1. /\ DOMAIN m = DOMAIN k /\ m = [x \in DOMAIN m |-> m[x]]
      /\ m.owner = k.owner /\ m.op = k.op /\ m.state = k.state /\ m.waiters = k.waiters
  BY DEF Reprioritised, SameBut, WalkOk, Extends, TableFields
<1>2. Extends(m)
  BY <1>1 DEF WalkOk, Extends
<1> QED BY <1>1, <1>2 DEF Reprioritised, WalkOk, Owned, OwnerType

LEMMA OnwardIs ==
  ASSUME NEW k, WalkOk(k), NEW i \in Process
  PROVE  /\ Onward(k, i) \in Process \cup {NoProcess}
         /\ k.state[i] # "BLOCKED" => Onward(k, i) = NoProcess
<1>1. k.op[i] \in Ops
  BY DEF WalkOk
<1>2. ASSUME k.op[i].kind = "MUTEX_LOCK"
      PROVE  k.op[i].id \in MutexId
  BY <1>1, <1>2 DEF Ops, NoOp, LockOp
<1>3. k.owner \in [MutexId -> Process \cup {NoProcess}]
  BY DEF WalkOk, OwnerType
<1> QED BY <1>2, <1>3 DEF Onward

LEMMA HopWalks ==
  ASSUME NEW k, WalkOk(k), NEW i, NEW h, WalkInv(k, i, h)
  PROVE  WalkInv(k, i, Hop(h)) /\ NothingOwed(Hop(h).table)
<1>1. CASE h.at = NoProcess
  <2>1. NoProcess \notin Process
    BY ConfigAssumption DEF Process, NoProcess
  <2>2. OwedBut(h.table, NoProcess) /\ Hop(h) = h
    BY <1>1 DEF WalkInv, Hop
  <2> QED BY <2>1, <2>2 DEF OwedBut, NothingOwed
<1>2. CASE h.at # NoProcess
  <2> DEFINE t == h.table
             a == h.at
             q == WantedPriority(t, a, h.claim)
             m == SetProcessPriority(t, a, q)
  <2>1. Reprioritised(k, t) /\ a \in Process /\ h.claim \in Priority \cup {NoClaim}
    BY <1>2 DEF WalkInv
  <2>2. WalkOk(t) /\ t.state = k.state
    BY <2>1, WalkOkKept
  <2>3. q \in Priority /\ (h.claim = NoClaim /\ Owned(t, a) = {} => q = BasePriority[a])
    BY <2>1, <2>2, WantedIs
  <2>4. Hop(h) = [table |-> m, claim |-> NoClaim, at |-> Onward(m, a)]
    BY <1>2 DEF Hop, Arrive
  <2>5. OwedBut(t, a) /\ (h.claim = NoClaim \/ Owned(t, a) # {})
    BY <2>1 DEF WalkInv
  <2>6. i \in Process /\ k.state[i] # "BLOCKED" =>
          a = i /\ \A j \in Process \ {i} : t.priority[j] = k.priority[j]
    BY <1>2 DEF WalkInv
  <2> HIDE DEF t, a, q
  <2>7. Reprioritised(t, m) /\ m.priority = [t.priority EXCEPT ![a] = q]
    BY <2>1, <2>2, <2>3, SetPriorityIs DEF WalkOk
  <2> HIDE DEF m
  <2>8. WalkOk(m) /\ m.state = t.state /\ \A j : Owned(m, j) = Owned(t, j)
    BY <2>2, <2>7, WalkOkKept
  <2>9. Reprioritised(k, m)
    BY <2>1, <2>7, ReprioritisedThen DEF WalkOk, Extends
  <2>10. Onward(m, a) \in Process \cup {NoProcess}
         /\ (m.state[a] # "BLOCKED" => Onward(m, a) = NoProcess)
    BY <2>1, <2>8, OnwardIs
  <2>11. t.priority \in [Process -> Priority]
    BY <2>2 DEF WalkOk, Consistent, TableType, TablePart
  <2>12. \A j \in Process : m.priority[j] = IF j = a THEN q ELSE t.priority[j]
    BY <2>7, <2>11
  <2>13. NothingOwed(m)
    BY <2>3, <2>5, <2>8, <2>12 DEF NothingOwed, OwedBut
  <2>14. OwedBut(m, Onward(m, a))
    BY <2>13 DEF NothingOwed, OwedBut
  <2>15. i \in Process /\ k.state[i] # "BLOCKED" =>
           /\ Onward(m, a) \in {i, NoProcess}
           /\ \A j \in Process \ {i} : m.priority[j] = k.priority[j]
    BY <2>2, <2>6, <2>8, <2>10, <2>12
  <2> QED BY <2>4, <2>9, <2>10, <2>13, <2>14, <2>15 DEF WalkInv
<1> QED BY <1>1, <1>2

\* The hops of RefreshChain(k, i, claim).
LEMMA ChainUnfolds ==
  ASSUME NEW k, NEW i, NEW claim
  PROVE  \E f : /\ RefreshChain(k, i, claim) = f[NumMutexes + 1].table
                /\ f[0] = [table |-> k, claim |-> claim, at |-> i]
                /\ \A n \in 0 .. NumMutexes : f[n + 1] = Hop(f[n])
<1> DEFINE G(N, f) == f = [n \in 0 .. N |->
                             IF n = 0 THEN [table |-> k, claim |-> claim, at |-> i] ELSE Hop(f[n - 1])]
           S == {N \in 0 .. NumMutexes + 1 : \E f : G(N, f)}
<1>0. NumMutexes \in Nat
  BY MutexAssumption
<1>1. 0 \in S
  <2>1. G(0, [n \in 0 .. 0 |-> [table |-> k, claim |-> claim, at |-> i]])
    OBVIOUS
  <2> HIDE DEF G
  <2> QED BY <1>0, <2>1
<1>2. ASSUME NEW n \in 0 .. NumMutexes + 1, n \in S, n < NumMutexes + 1
      PROVE  n + 1 \in S
  <2>1. PICK f : G(n, f)
    BY <1>2
  <2> DEFINE g == [x \in 0 .. n + 1 |->
                     IF x = n + 1 THEN Hop(f[n]) ELSE f[x]]
  <2>2. G(n + 1, g)
    <3> SUFFICES ASSUME NEW x \in 0 .. n + 1
                 PROVE  g[x] = IF x = 0 THEN [table |-> k, claim |-> claim, at |-> i] ELSE Hop(g[x - 1])
      OBVIOUS
    <3>1. CASE x = n + 1
      BY <3>1
    <3>2. CASE x # n + 1
      <4>1. x \in 0 .. n
            /\ f[x] = IF x = 0 THEN [table |-> k, claim |-> claim, at |-> i] ELSE Hop(f[x - 1])
        BY <2>1, <3>2
      <4> QED BY <4>1
    <3> QED BY <3>1, <3>2
  <2> HIDE DEF g, G
  <2> QED BY <2>2, <1>2, <1>0
<1>3. 0 .. NumMutexes + 1 \subseteq S
  <2> HIDE DEF S
  <2> QED BY <1>0, <1>1, <1>2, UpToInduction
<1> DEFINE h == CHOOSE f : G(NumMutexes + 1, f)
<1>4. RefreshChain(k, i, claim) = h[NumMutexes + 1].table
  BY DEF RefreshChain
<1>5. G(NumMutexes + 1, h)
  <2> HIDE DEF G
  <2> QED BY <1>0, <1>3
<1> HIDE DEF h
<1>6. h[0] = [table |-> k, claim |-> claim, at |-> i] /\ \A n \in 0 .. NumMutexes : h[n + 1] = Hop(h[n])
  BY <1>0, <1>5 DEF Process, MutexId
<1> QED BY <1>4, <1>6

\* The walks of RefreshPriorities(k), one for each mutex.
LEMMA PrioritiesUnfold ==
  ASSUME NEW k
  PROVE  \E f : /\ RefreshPriorities(k) = f[NumMutexes]
                /\ f[0] = k
                /\ \A n \in MutexId : f[n + 1] = RefreshChain(f[n], f[n].owner[n], NoClaim)
<1> DEFINE G(N, f) == f = [n \in 0 .. N |->
                             IF n = 0 THEN k ELSE RefreshChain(f[n - 1], f[n - 1].owner[n - 1], NoClaim)]
           S == {N \in 0 .. NumMutexes : \E f : G(N, f)}
<1>0. NumMutexes \in Nat
  BY MutexAssumption
<1>1. 0 \in S
  <2>1. G(0, [n \in 0 .. 0 |-> k])
    OBVIOUS
  <2> HIDE DEF G
  <2> QED BY <1>0, <2>1
<1>2. ASSUME NEW n \in 0 .. NumMutexes, n \in S, n < NumMutexes
      PROVE  n + 1 \in S
  <2>1. PICK f : G(n, f)
    BY <1>2
  <2> DEFINE g == [x \in 0 .. n + 1 |->
                     IF x = n + 1 THEN RefreshChain(f[n], f[n].owner[n], NoClaim) ELSE f[x]]
  <2>2. G(n + 1, g)
    <3> SUFFICES ASSUME NEW x \in 0 .. n + 1
                 PROVE  g[x] = IF x = 0 THEN k ELSE RefreshChain(g[x - 1], g[x - 1].owner[x - 1], NoClaim)
      OBVIOUS
    <3>1. CASE x = n + 1
      BY <3>1
    <3>2. CASE x # n + 1
      <4>1. x \in 0 .. n
            /\ f[x] = IF x = 0 THEN k ELSE RefreshChain(f[x - 1], f[x - 1].owner[x - 1], NoClaim)
        BY <2>1, <3>2
      <4> QED BY <4>1
    <3> QED BY <3>1, <3>2
  <2> HIDE DEF g, G
  <2> QED BY <2>2, <1>2, <1>0
<1>3. 0 .. NumMutexes \subseteq S
  <2> HIDE DEF S
  <2> QED BY <1>0, <1>1, <1>2, UpToInduction
<1> DEFINE h == CHOOSE f : G(NumMutexes, f)
<1>4. RefreshPriorities(k) = h[NumMutexes]
  BY DEF RefreshPriorities
<1>5. G(NumMutexes, h)
  <2> HIDE DEF G
  <2> QED BY <1>0, <1>3
<1> HIDE DEF h
<1>6. h[0] = k /\ \A n \in MutexId : h[n + 1] = RefreshChain(h[n], h[n].owner[n], NoClaim)
  BY <1>0, <1>5 DEF Process, MutexId
<1> QED BY <1>4, <1>6

\* A walk: other priorities, and the process it begins at has what it is owed.
\* A process that does not wait is the only one it changes.
Walked(k, m, i) ==
  /\ Reprioritised(k, m) /\ NothingOwed(m)
  /\ i \in Process /\ k.state[i] # "BLOCKED" =>
       \A j \in Process \ {i} : m.priority[j] = k.priority[j]

LEMMA ChainWalks ==
  ASSUME NEW k, WalkOk(k), NEW i \in Process \cup {NoProcess},
         NEW claim \in Priority \cup {NoClaim},
         claim = NoClaim \/ (i \in Process => Owned(k, i) # {}),
         OwedBut(k, i)
  PROVE  Walked(k, RefreshChain(k, i, claim), i)
<1>1. PICK f : /\ RefreshChain(k, i, claim) = f[NumMutexes + 1].table
               /\ f[0] = [table |-> k, claim |-> claim, at |-> i]
               /\ \A n \in 0 .. NumMutexes : f[n + 1] = Hop(f[n])
  BY ChainUnfolds
<1>2. NumMutexes \in Nat
  BY MutexAssumption
<1> DEFINE S == {n \in 0 .. NumMutexes : WalkInv(k, i, f[n])}
<1>3. WalkInv(k, i, f[0])
  <2>1. Reprioritised(k, k)
    BY DEF Reprioritised, SameBut, WalkOk, Extends, KeepsReady
  <2> QED BY <1>1, <2>1 DEF WalkInv
<1>4. ASSUME NEW n \in 0 .. NumMutexes, n \in S, n < NumMutexes
      PROVE  n + 1 \in S
  <2>1. WalkInv(k, i, f[n]) /\ f[n + 1] = Hop(f[n])
    BY <1>1, <1>4
  <2>2. WalkInv(k, i, f[n + 1])
    BY <2>1, HopWalks
  <2> QED BY <1>2, <1>4, <2>2
<1>5. 0 .. NumMutexes \subseteq S
  <2>1. 0 \in S
    BY <1>2, <1>3
  <2> HIDE DEF S
  <2> QED BY <1>2, <2>1, <1>4, UpToInduction
<1>6. WalkInv(k, i, f[NumMutexes]) /\ f[NumMutexes + 1] = Hop(f[NumMutexes])
  BY <1>1, <1>2, <1>5
<1>7. WalkInv(k, i, f[NumMutexes + 1]) /\ NothingOwed(f[NumMutexes + 1].table)
  BY <1>6, HopWalks
<1> QED BY <1>1, <1>7 DEF Walked, WalkInv

LEMMA RefreshWalks ==
  ASSUME NEW k, WalkOk(k), NothingOwed(k)
  PROVE  Walked(k, RefreshPriorities(k), NoProcess)
<1>1. PICK f : /\ RefreshPriorities(k) = f[NumMutexes]
               /\ f[0] = k
               /\ \A n \in MutexId :
                    f[n + 1] = RefreshChain(f[n], f[n].owner[n], NoClaim)
  BY PrioritiesUnfold
<1>2. NumMutexes \in Nat
  BY MutexAssumption
<1> DEFINE S == {n \in 0 .. NumMutexes : Reprioritised(k, f[n]) /\ NothingOwed(f[n])}
<1>3. 0 \in S
  BY <1>1, <1>2 DEF Reprioritised, SameBut, WalkOk, Extends, KeepsReady
<1>4. ASSUME NEW n \in 0 .. NumMutexes, n \in S, n < NumMutexes
      PROVE  n + 1 \in S
  <2>1. /\ Reprioritised(k, f[n]) /\ NothingOwed(f[n]) /\ n \in MutexId
        /\ f[n + 1] = RefreshChain(f[n], f[n].owner[n], NoClaim)
    BY <1>1, <1>2, <1>4 DEF MutexId
  <2>2. WalkOk(f[n])
    BY <2>1, WalkOkKept
  <2>3. f[n].owner[n] \in Process \cup {NoProcess}
    BY <2>1, <2>2 DEF WalkOk, OwnerType
  <2>4. OwedBut(f[n], f[n].owner[n])
    BY <2>1 DEF NothingOwed, OwedBut
  <2>5. Walked(f[n], f[n + 1], f[n].owner[n])
    BY <2>1, <2>2, <2>3, <2>4, ChainWalks
  <2>6. Reprioritised(k, f[n + 1]) /\ NothingOwed(f[n + 1])
    BY <2>1, <2>5, ReprioritisedThen DEF Walked, WalkOk, Extends
  <2> QED BY <1>2, <1>4, <2>6
<1>5. 0 .. NumMutexes \subseteq S
  <2> HIDE DEF S
  <2> QED BY <1>2, <1>3, <1>4, UpToInduction
<1>6. Reprioritised(k, f[NumMutexes]) /\ NothingOwed(f[NumMutexes])
  BY <1>2, <1>5
<1>7. NoProcess \notin Process
  BY ConfigAssumption DEF Process, NoProcess
<1> QED BY <1>1, <1>6, <1>7 DEF Walked

-----------------------------------------------------------------------------
(* The invariant.                                                          *)

\* No list is too short for the processes of its partition: a caller that
\* finds it full keeps the operation it was about to block in.
ListsFit == \A m \in MutexId : Cardinality(Members(MutexPartition[m])) <= WaitlistMax

Results == {NoResult, "OK", "TIMEOUT"}

CallsType(k) ==
  /\ k.wake \in [Process -> {Armed, NoTick}]
  /\ k.op \in [Process -> Ops]
  /\ k.result \in [Process -> Results]

\* A mutex with waiters has an owner, which is not one of them; the waiters
\* are of the mutex's partition.
HasOwner(k, m) ==
  /\ k.waiters[m] # <<>> => k.owner[m] # NoProcess /\ ~IsIn(k.waiters[m], k.owner[m])
  /\ \A i \in Process : IsIn(k.waiters[m], i) => PartitionOf[i] = MutexPartition[m]

MutexHeld(k) ==
  /\ Sound(k) /\ "owner" \in DOMAIN k /\ OwnerType(k) /\ CallsType(k)
  /\ \A m \in MutexId : HasOwner(k, m)
  /\ \A p \in Partition : ~k.halted[p]
  /\ ListsFit => \A i \in Process : k.op[i] = NoOp \/ Waits(k, i)

MutexOk(k) == MutexHeld(k) /\ NothingOwed(k)

\* Whoever waits in m waits in k, for the same.
WaitsFewer(k, m) ==
  \A j \in Process : Waits(m, j) => /\ Waits(k, j) /\ m.waitlist[j] = k.waitlist[j]
                                     /\ m.op[j] = k.op[j]

\* How mutexes change hands, and waits end, other than by a call to lock.
Passes(k, m) ==
  /\ WaitsFewer(k, m)
  /\ \A x \in MutexId :
       \/ m.owner[x] = k.owner[x]
       \/ m.owner[x] = NoProcess /\ m.waiters[x] = <<>>
       \/ /\ k.owner[x] # NoProcess /\ m.owner[x] \in Process
          /\ IsIn(k.waiters[x], m.owner[x]) /\ ~Waits(m, m.owner[x])

Settles(k, m) ==
  \A j \in Process :
    m.op[j] = NoOp \/ (m.op[j] = k.op[j] /\ (Waits(k, j) => Waits(m, j)))

LEMMA MutexLists == MutexId = WaitList
BY MutexAssumption DEF MutexId, WaitList

LEMMA WaitersShrink ==
  ASSUME NEW k, Sound(k), NEW m, Sound(m), Passes(k, m), NEW x \in MutexId
  PROVE  /\ k.waiters[x] = <<>> => m.waiters[x] = <<>>
         /\ \A j \in Process : IsIn(m.waiters[x], j) => IsIn(k.waiters[x], j)
<1>1. x \in WaitList
  BY MutexLists
<1>2. ListsShrink(k, m)
  BY FewerWaiters DEF Passes, WaitsFewer
<1>3. ASSUME NEW j \in Process, IsIn(m.waiters[x], j)
      PROVE  IsIn(k.waiters[x], j)
  <2>1. Waits(m, j) /\ m.waitlist[j] = x
    BY <1>1, <1>3 DEF Sound, WaitsSound
  <2>2. Waits(k, j) /\ k.waitlist[j] = x
    BY <2>1 DEF Passes, WaitsFewer
  <2> QED BY <1>1, <2>2 DEF Sound, WaitsSound
<1> QED BY <1>1, <1>2, <1>3 DEF ListsShrink

LEMMA PassesThen ==
  ASSUME NEW k, Sound(k), NEW l, Sound(l), NEW m, Sound(m),
         Passes(k, l), Passes(l, m)
  PROVE  Passes(k, m)
<1>1. WaitsFewer(k, m)
  BY DEF Passes, WaitsFewer
<1>2. ASSUME NEW x \in MutexId, m.owner[x] # k.owner[x]
      PROVE  \/ m.owner[x] = NoProcess /\ m.waiters[x] = <<>>
             \/ /\ k.owner[x] # NoProcess /\ m.owner[x] \in Process
                /\ IsIn(k.waiters[x], m.owner[x]) /\ ~Waits(m, m.owner[x])
  <2>1. l.waiters[x] = <<>> => m.waiters[x] = <<>>
    BY WaitersShrink
  <2>2. CASE m.owner[x] = l.owner[x]
    <3>1. \A j \in Process : ~Waits(l, j) => ~Waits(m, j)
      BY DEF Passes, WaitsFewer
    <3> QED BY <1>2, <2>1, <2>2, <3>1 DEF Passes
  <2>3. CASE m.owner[x] # l.owner[x]
    <3>1. \A j \in Process : IsIn(l.waiters[x], j) => IsIn(k.waiters[x], j)
      BY WaitersShrink
    <3>2. l.owner[x] # NoProcess => k.owner[x] # NoProcess
      BY DEF Passes
    <3> QED BY <2>3, <3>1, <3>2 DEF Passes
  <2> QED BY <2>2, <2>3
<1> QED BY <1>1, <1>2 DEF Passes

LEMMA HeldBy ==
  ASSUME NEW k, MutexHeld(k), NEW m, Sound(m), DOMAIN m = DOMAIN k,
         OwnerType(m), CallsType(m), m.halted = k.halted,
         Passes(k, m), Settles(k, m)
  PROVE  MutexHeld(m)
<1>1. Sound(k)
  BY DEF MutexHeld
<1>2. ASSUME NEW x \in MutexId
      PROVE  HasOwner(m, x)
  <2>1. HasOwner(k, x) /\ x \in WaitList
    BY MutexLists DEF MutexHeld
  <2>2. /\ k.waiters[x] = <<>> => m.waiters[x] = <<>>
        /\ \A j \in Process : IsIn(m.waiters[x], j) => IsIn(k.waiters[x], j)
    BY <1>1, WaitersShrink
  <2>3. NoProcess \notin Process
    BY ConfigAssumption DEF Process, NoProcess
  <2>4. \A j \in Process : ~Waits(m, j) => ~IsIn(m.waiters[x], j)
    BY <2>1 DEF Sound, WaitsSound
  <2>5. m.owner[x] \in Process \cup {NoProcess}
    BY DEF OwnerType
  <2>6. CASE m.owner[x] = k.owner[x]
    BY <2>1, <2>2, <2>5, <2>6 DEF HasOwner
  <2>7. CASE m.owner[x] # k.owner[x]
    BY <2>1, <2>2, <2>3, <2>4, <2>7 DEF HasOwner, Passes
  <2> QED BY <2>6, <2>7
<1>3. ASSUME ListsFit, NEW j \in Process
      PROVE  m.op[j] = NoOp \/ Waits(m, j)
  BY <1>3 DEF MutexHeld, Settles
<1> QED BY <1>2, <1>3 DEF MutexHeld

\* A step that leaves the owners and the priorities alone.
Calm(k, m) ==
  /\ MutexOk(m) /\ Passes(k, m)
  /\ m.owner = k.owner /\ m.priority = k.priority

LEMMA CalmBy ==
  ASSUME NEW k, MutexOk(k), NEW m, Sound(m),
         SameBut(k, m, (TableFields \ {"priority", "halted"}) \cup WaitFieldNames),
         CallsType(m), Settles(k, m), WaitsFewer(k, m)
  PROVE  Calm(k, m)
<1>1. /\ m.owner = k.owner /\ m.priority = k.priority /\ m.halted = k.halted
      /\ DOMAIN m = DOMAIN k
  BY DEF SameBut, TableFields, WaitFieldNames, MutexOk, MutexHeld, Sound, IpcType, Extends
<1>2. Passes(k, m)
  BY <1>1 DEF Passes
<1>3. MutexHeld(m)
  <2>1. OwnerType(m)
    BY <1>1 DEF MutexOk, MutexHeld, OwnerType
  <2> QED BY <1>1, <1>2, <2>1, HeldBy DEF MutexOk
<1>4. NothingOwed(m)
  BY <1>1 DEF MutexOk, NothingOwed, Owned
<1> QED BY <1>1, <1>2, <1>3, <1>4 DEF Calm, MutexOk

LEMMA HeldFields ==
  ASSUME NEW k, MutexHeld(k)
  PROVE  /\ k = [x \in DOMAIN k |-> k[x]]
         /\ TableFields \cup WaitFieldNames \cup {"owner"} \subseteq DOMAIN k
         /\ WalkOk(k)
<1>1. Sound(k) /\ IpcType(k) /\ Extends(k)
  BY DEF MutexHeld, Sound, IpcType
<1>2. k = [x \in DOMAIN k |-> k[x]]
      /\ TableFields \cup WaitFieldNames \cup {"owner"} \subseteq DOMAIN k
  BY <1>1 DEF MutexHeld, IpcType, Extends
<1>3. \A i \in Process : k.op[i] \in Ops
  BY DEF MutexHeld, CallsType
<1> QED BY <1>1, <1>2, <1>3 DEF WalkOk, MutexHeld, Sound, WaitFieldNames

LEMMA ReprioritisedHeld ==
  ASSUME NEW k, MutexHeld(k), NEW m, Reprioritised(k, m)
  PROVE  /\ MutexHeld(m) /\ Passes(k, m)
         /\ m.state = k.state /\ m.owner = k.owner /\ m.waiters = k.waiters
         /\ m.waitlist = k.waitlist /\ m.wake = k.wake /\ m.op = k.op
         /\ m.result = k.result /\ m.current = k.current
<1>1. Sound(k) /\ k = [x \in DOMAIN k |-> k[x]]
      /\ TableFields \cup WaitFieldNames \cup {"owner"} \subseteq DOMAIN k
  BY HeldFields DEF MutexHeld
<1>2. /\ m = [x \in DOMAIN m |-> m[x]] /\ DOMAIN m = DOMAIN k
      /\ \A x \in DOMAIN k \ {"priority", "ready"} : m[x] = k[x]
  BY DEF Reprioritised, SameBut
<1>3. /\ m.state = k.state /\ m.owner = k.owner /\ m.waiters = k.waiters
      /\ m.waitlist = k.waitlist /\ m.wake = k.wake /\ m.op = k.op
      /\ m.result = k.result /\ m.halted = k.halted /\ m.current = k.current
  BY <1>1, <1>2 DEF TableFields, WaitFieldNames
<1>4. SameBeyond(k, m)
  BY <1>1, <1>2 DEF SameBeyond, Extends, TableFields
<1>5. Sound(m)
  <2>1. \A j \in Process :
          k.waitlist[j] # NoList => (m.state[j] = "BLOCKED" <=> k.state[j] = "BLOCKED")
    BY <1>3
  <2> QED BY <1>1, <1>4, <2>1, TableStep DEF Reprioritised
<1>6. Passes(k, m) /\ Settles(k, m)
  BY <1>3 DEF Passes, WaitsFewer, Settles, Waits
<1>7. OwnerType(m) /\ CallsType(m)
  BY <1>3 DEF MutexHeld, OwnerType, CallsType
<1>8. MutexHeld(m)
  BY <1>2, <1>3, <1>5, <1>6, <1>7, HeldBy
<1> QED BY <1>3, <1>6, <1>8

-----------------------------------------------------------------------------
(* Handing a mutex over.                                                   *)

\* The owner that mutex x goes to.
HeirOf(k, x) == IF k.waiters[x] = <<>> THEN NoProcess ELSE BestWaiter(k, x)

\* Mutex x has left process i, whatever i is now owed.
PassedOn(k, m, x, i) ==
  /\ Passes(k, m) /\ SameProcess(k, m, i)
  /\ m.owner = [k.owner EXCEPT ![x] = HeirOf(k, x)]
  /\ \A y \in MutexId \ {x} : m.waiters[y] = k.waiters[y]

LEMMA PassOnFree ==
  ASSUME NEW k, MutexOk(k), NEW x \in MutexId, NEW i \in Process, k.owner[x] = i,
         k.waiters[x] = <<>>
  PROVE  LET m == PassOn(k, x) IN
         PassedOn(k, m, x, i) /\ MutexHeld(m) /\ OwedBut(m, i)
         /\ m.priority = k.priority
<1> DEFINE m == PassOn(k, x)
<1>1. MutexHeld(k) /\ Sound(k) /\ NothingOwed(k)
  BY DEF MutexOk, MutexHeld
<1>2. k = [y \in DOMAIN k |-> k[y]]
      /\ TableFields \cup WaitFieldNames \cup {"owner"} \subseteq DOMAIN k
  BY <1>1, HeldFields
<1>3. m = [k EXCEPT !.owner[x] = NoProcess]
  BY DEF PassOn
<1> HIDE DEF m
<1>4. SameBut(k, m, {"owner"}) /\ m.owner = [k.owner EXCEPT ![x] = NoProcess]
  BY <1>2, <1>3 DEF SameBut
<1>5. Sound(m)
  BY <1>1, <1>4, ServiceStep DEF TableFields, WaitFieldNames
<1>6. /\ m.state = k.state /\ m.waiters = k.waiters /\ m.waitlist = k.waitlist
      /\ m.wake = k.wake /\ m.op = k.op /\ m.result = k.result
      /\ m.halted = k.halted /\ m.priority = k.priority
  BY <1>2, <1>4 DEF SameBut, TableFields, WaitFieldNames
<1>7. k.owner \in [MutexId -> Process \cup {NoProcess}]
  BY <1>1 DEF MutexHeld, OwnerType
<1>8. \A y \in MutexId : m.owner[y] = IF y = x THEN NoProcess ELSE k.owner[y]
  BY <1>4, <1>7
<1>9. PassedOn(k, m, x, i)
  <2>1. Passes(k, m)
    BY <1>6, <1>8 DEF Passes, WaitsFewer, Waits
  <2> QED BY <1>4, <1>6, <2>1 DEF PassedOn, SameProcess, HeirOf
<1>10. MutexHeld(m)
  <2>1. OwnerType(m) /\ CallsType(m)
    BY <1>1, <1>4, <1>6, <1>7 DEF OwnerType, CallsType, MutexHeld
  <2>2. Settles(k, m) /\ Passes(k, m) /\ DOMAIN m = DOMAIN k
    BY <1>4, <1>6, <1>9 DEF Settles, Waits, PassedOn, SameBut
  <2> QED BY <1>1, <1>5, <1>6, <2>1, <2>2, HeldBy
<1>11. OwedBut(m, i)
  <2>1. ASSUME NEW j \in Process \ {i}
        PROVE  Owned(m, j) = Owned(k, j)
    BY <1>8, ConfigAssumption DEF Owned, Process, NoProcess
  <2> QED BY <1>1, <1>6, <2>1 DEF OwedBut, NothingOwed
<1> QED BY <1>6, <1>9, <1>10, <1>11 DEF m

LEMMA OtherListsKept ==
  ASSUME NEW k, Sound(k), NEW x \in WaitList, NEW i \in Process,
         IsIn(k.waiters[x], i), NEW r
  PROVE  LET m == Resolve(TakeWaiter(k, x, i), i, r) IN
         \A y \in WaitList \ {x} : m.waiters[y] = k.waiters[y]
<1> DEFINE l == TakeWaiter(k, x, i)
<1>1. OffList(k, l, i) /\ k.state[i] = "BLOCKED"
  BY TakeWaiterSound DEF Waits
<1>2. "waiters" \in DOMAIN k /\ "state" \in DOMAIN k
      /\ k.waiters \in [WaitList -> Seq(Process)]
  BY DEF Sound, IpcType, Extends, TableFields, WaitFieldNames
<1>3. l.waiters = [k.waiters EXCEPT ![x] = Without(@, i)]
  BY <1>2 DEF TakeWaiter, LeaveList, ClearBlocked
<1>4. Sound(l) /\ l.state[i] = "BLOCKED" /\ l.waitlist[i] = NoList /\ "waiters" \in DOMAIN l
  <2>1. l.state = k.state /\ "waiters" \in DOMAIN l
    BY <1>1, <1>2 DEF OffList, SameBut
  <2>2. l.waitlist = [k.waitlist EXCEPT ![i] = NoList] /\ Sound(l)
    BY <1>1 DEF OffList
  <2>3. k.waitlist \in [Process -> WaitList \cup {NoList}]
    BY DEF Sound, IpcType
  <2> QED BY <1>1, <2>1, <2>2, <2>3
<1> HIDE DEF l
<1>5. Resolve(l, i, r).waiters = l.waiters
  <2> DEFINE m == Resolve(l, i, r)
  <2>1. Resolved(l, m, i, r)
    BY <1>4, ResolveSound
  <2> HIDE DEF m
  <2>2. SameBut(l, m, {"state", "ready"} \cup {"result"})
    BY <2>1 DEF Resolved, MadeReady
  <2>3. m.waiters = l.waiters
    BY <1>4, <2>2 DEF SameBut
  <2> QED BY <2>3 DEF m
<1> QED BY <1>2, <1>3, <1>5 DEF l

\* What a mutex's best waiter becomes; what the grant leaves.
LEMMA PassOnHeir ==
  ASSUME NEW k, MutexOk(k), NEW x \in MutexId, NEW i \in Process, k.owner[x] = i,
         k.waiters[x] # <<>>
  PROVE  LET m == PassOn(k, x) IN
         PassedOn(k, m, x, i) /\ MutexHeld(m) /\ OwedBut(m, i)
         /\ m.priority = k.priority
<1> DEFINE b == BestWaiter(k, x)
           w == Resolve(TakeWaiter(k, x, b), b, "OK")
           m == PassOn(k, x)
<1>1. MutexHeld(k) /\ Sound(k) /\ NothingOwed(k) /\ x \in WaitList /\ CallsType(k)
  BY MutexLists DEF MutexOk, MutexHeld
<1>2. k = [y \in DOMAIN k |-> k[y]]
      /\ TableFields \cup WaitFieldNames \cup {"owner"} \subseteq DOMAIN k
  BY <1>1, HeldFields
<1>3. b \in Process /\ IsIn(k.waiters[x], b)
  BY <1>1, NextIsWaiting
<1>4. b # i /\ Waits(k, b)
  BY <1>1, <1>3 DEF MutexHeld, HasOwner, Sound, WaitsSound
<1>5. m = [w EXCEPT !.owner[x] = b]
  BY <1>1, <1>3, WakeSound DEF PassOn, Grant
<1>6. Woken(k, w, b, "OK") /\ \A y \in WaitList \ {x} : w.waiters[y] = k.waiters[y]
  BY <1>1, <1>3, WakeSound, OtherListsKept
<1> HIDE DEF w, m, b
<1>7. Sound(w) /\ SameBut(k, w, ExpiryFields)
  BY <1>6 DEF Woken
<1>8. /\ w = [y \in DOMAIN w |-> w[y]] /\ DOMAIN w = DOMAIN k
      /\ w.owner = k.owner /\ w.priority = k.priority /\ w.halted = k.halted
  BY <1>2, <1>7 DEF SameBut, ExpiryFields, TableFields
<1>9. SameBut(w, m, {"owner"}) /\ m.owner = [k.owner EXCEPT ![x] = b]
  BY <1>2, <1>5, <1>8 DEF SameBut
<1>10. Sound(m)
  BY <1>7, <1>9, ServiceStep DEF TableFields, WaitFieldNames
<1>11. /\ m.state = w.state /\ m.waiters = w.waiters /\ m.waitlist = w.waitlist
       /\ m.wake = w.wake /\ m.op = w.op /\ m.result = w.result
       /\ m.halted = k.halted /\ m.priority = k.priority
  BY <1>2, <1>8, <1>9 DEF SameBut, TableFields, WaitFieldNames
<1>12. k.owner \in [MutexId -> Process \cup {NoProcess}]
  BY <1>1 DEF MutexHeld, OwnerType
<1>13. \A y \in MutexId : m.owner[y] = IF y = x THEN b ELSE k.owner[y]
  BY <1>9, <1>12
<1>14. /\ \A j \in Process \ {b} : SameProcess(k, m, j)
       /\ m.state[b] = "READY" /\ m.waitlist[b] = NoList
       /\ m.wake[b] = NoTick /\ m.op[b] = NoOp /\ m.result[b] = "OK"
  BY <1>6, <1>11 DEF Woken, SameProcess
<1>15. ~Waits(m, b) /\ Settles(k, m) /\ WaitsFewer(k, m)
  BY <1>14 DEF Waits, WaitsFewer, Settles, SameProcess
<1>16. PassedOn(k, m, x, i)
  <2>1. k.owner[x] # NoProcess
    BY <1>1 DEF MutexHeld, HasOwner
  <2>2. Passes(k, m)
    BY <1>3, <1>13, <1>15, <2>1 DEF Passes
  <2>3. HeirOf(k, x) = b
    BY DEF HeirOf, b
  <2> QED BY <1>4, <1>6, <1>9, <1>11, <1>14, <2>2, <2>3, MutexLists DEF PassedOn
<1>17. MutexHeld(m)
  <2>1. OwnerType(m)
    BY <1>3, <1>9, <1>12 DEF OwnerType
  <2>2. CallsType(m)
    <3>1. /\ NoOp \in Ops /\ NoTick \in {Armed, NoTick}
          /\ "OK" \in Results
      BY DEF Ops, Results
    <3>2. OnProcesses(m.wake) /\ OnProcesses(m.op) /\ OnProcesses(m.result)
      BY <1>10 DEF Sound, IpcType
    <3>3. \A j \in Process : /\ m.wake[j] \in {Armed, NoTick} /\ m.op[j] \in Ops
                             /\ m.result[j] \in Results
      BY <1>1, <1>14, <3>1 DEF CallsType, SameProcess
    <3> QED BY <3>2, <3>3 DEF CallsType, OnProcesses
  <2>3. DOMAIN m = DOMAIN k
    BY <1>8, <1>9 DEF SameBut
  <2> QED BY <1>1, <1>10, <1>11, <1>15, <1>16, <2>1, <2>2, <2>3, HeldBy DEF PassedOn
<1>18. OwedBut(m, i)
  <2>1. ASSUME NEW j \in Process \ {i}, Owned(m, j) = {}
        PROVE  Owned(k, j) = {}
    BY <1>13, <2>1 DEF Owned
  <2> QED BY <1>1, <1>11, <2>1 DEF OwedBut, NothingOwed
<1> QED BY <1>11, <1>16, <1>17, <1>18 DEF m

\* A mutex handed over, and its old owner left with what it is still owed.
HandedOver(k, m, x, i) ==
  /\ MutexOk(m) /\ PassedOn(k, m, x, i)
  /\ k.state[i] # "BLOCKED" =>
       \A j \in Process \ {i} : m.priority[j] = k.priority[j]

LEMMA HandOffSound ==
  ASSUME NEW k, MutexOk(k), NEW x \in MutexId, NEW i \in Process, k.owner[x] = i
  PROVE  HandedOver(k, HandOff(k, x), x, i)
<1> DEFINE l == PassOn(k, x)
           m == HandOff(k, x)
<1>1. PassedOn(k, l, x, i) /\ MutexHeld(l) /\ OwedBut(l, i) /\ l.priority = k.priority
  BY PassOnFree, PassOnHeir
<1>2. m = RefreshChain(l, i, NoClaim)
  BY DEF HandOff
<1> HIDE DEF l, m
<1>3. WalkOk(l)
  BY <1>1, HeldFields
<1>4. Walked(l, m, i)
  BY <1>1, <1>2, <1>3, ChainWalks
<1>5. /\ MutexHeld(m) /\ Passes(l, m)
      /\ m.state = l.state /\ m.owner = l.owner /\ m.waiters = l.waiters
      /\ m.waitlist = l.waitlist /\ m.wake = l.wake /\ m.op = l.op
      /\ m.result = l.result
  BY <1>1, <1>4, ReprioritisedHeld DEF Walked
<1>6. MutexOk(m)
  BY <1>4, <1>5 DEF MutexOk, Walked
<1>7. Passes(k, m)
  BY <1>1, <1>5, PassesThen DEF PassedOn, MutexOk, MutexHeld
<1>8. PassedOn(k, m, x, i)
  BY <1>1, <1>5, <1>7 DEF PassedOn, SameProcess
<1>9. k.state[i] # "BLOCKED" => \A j \in Process \ {i} : m.priority[j] = k.priority[j]
  BY <1>1, <1>4 DEF Walked, PassedOn, SameProcess
<1> QED BY <1>6, <1>8, <1>9 DEF HandedOver, m

\* The tables that lead to ReleaseAll(k, i), one for each mutex.
LEMMA ReleaseUnfolds ==
  ASSUME NEW k, NEW i
  PROVE  \E f : /\ ReleaseAll(k, i) = f[NumMutexes]
                /\ f[0] = k
                /\ \A n \in MutexId : f[n + 1] = ReleaseOne(f[n], n, i)
<1> DEFINE G(N, f) == f = [n \in 0 .. N |->
                             IF n = 0 THEN k ELSE ReleaseOne(f[n - 1], n - 1, i)]
           S == {N \in 0 .. NumMutexes : \E f : G(N, f)}
<1>0. NumMutexes \in Nat
  BY MutexAssumption
<1>1. 0 \in S
  <2>1. G(0, [n \in 0 .. 0 |-> k])
    OBVIOUS
  <2> HIDE DEF G
  <2> QED BY <1>0, <2>1
<1>2. ASSUME NEW n \in 0 .. NumMutexes, n \in S, n < NumMutexes
      PROVE  n + 1 \in S
  <2>1. PICK f : G(n, f)
    BY <1>2
  <2> DEFINE g == [x \in 0 .. n + 1 |->
                     IF x = n + 1 THEN ReleaseOne(f[n], n, i) ELSE f[x]]
  <2>2. G(n + 1, g)
    <3> SUFFICES ASSUME NEW x \in 0 .. n + 1
                 PROVE  g[x] = IF x = 0 THEN k ELSE ReleaseOne(g[x - 1], x - 1, i)
      OBVIOUS
    <3>1. CASE x = n + 1
      BY <3>1
    <3>2. CASE x # n + 1
      <4>1. x \in 0 .. n
            /\ f[x] = IF x = 0 THEN k ELSE ReleaseOne(f[x - 1], x - 1, i)
        BY <2>1, <3>2
      <4> QED BY <4>1
    <3> QED BY <3>1, <3>2
  <2> HIDE DEF g, G
  <2> QED BY <2>2, <1>2, <1>0
<1>3. 0 .. NumMutexes \subseteq S
  <2> HIDE DEF S
  <2> QED BY <1>0, <1>1, <1>2, UpToInduction
<1> DEFINE h == CHOOSE f : G(NumMutexes, f)
<1>4. ReleaseAll(k, i) = h[NumMutexes]
  BY DEF ReleaseAll
<1>5. G(NumMutexes, h)
  <2> HIDE DEF G
  <2> QED BY <1>0, <1>3
<1> HIDE DEF h
<1>6. h[0] = k /\ \A n \in MutexId : h[n + 1] = ReleaseOne(h[n], n, i)
  BY <1>0, <1>5 DEF Process, MutexId
<1> QED BY <1>4, <1>6

\* The new owner is the first of the most urgent waiters, as priorities and
\* lists were in k.
FirstOfBest(k, x, i) ==
  \A j \in Waiters(k, x) \ {i} :
    \/ k.priority[i] < k.priority[j]
    \/ k.priority[i] = k.priority[j]
       /\ IndexIn(k.waiters[x], i) < IndexIn(k.waiters[x], j)

\* Mutex x, which i owned in k, after its release in m.
GivenUp(k, m, x, i) ==
  /\ m.owner[x] # i /\ (m.owner[x] = NoProcess <=> k.waiters[x] = <<>>)
  /\ k.state[i] # "BLOCKED" /\ k.waiters[x] # <<>> => FirstOfBest(k, x, m.owner[x])

\* The mutexes of i below n have been released, the others not.
ReleasedUpTo(k, m, i, n) ==
  /\ MutexOk(m) /\ Passes(k, m) /\ SameProcess(k, m, i)
  /\ \A x \in MutexId :
       IF x < n /\ k.owner[x] = i THEN GivenUp(k, m, x, i)
       ELSE m.owner[x] = k.owner[x] /\ m.waiters[x] = k.waiters[x]
  /\ k.state[i] # "BLOCKED" =>
       \A j \in Process \ {i} : m.priority[j] = k.priority[j]

LEMMA HeirComesFirst ==
  ASSUME NEW k, MutexOk(k), NEW x \in MutexId, NEW i, k.owner[x] = i,
         k.waiters[x] # <<>>,
         NEW l, l.waiters[x] = k.waiters[x],
         \A j \in Process \ {i} : l.priority[j] = k.priority[j]
  PROVE  /\ HeirOf(k, x) \in Process /\ HeirOf(k, x) # i /\ HeirOf(k, x) # NoProcess
         /\ FirstOfBest(l, x, HeirOf(k, x))
<1> DEFINE b == BestWaiter(k, x)
<1>1. Sound(k) /\ x \in WaitList /\ HasOwner(k, x) /\ HeirOf(k, x) = b
  BY MutexLists DEF MutexOk, MutexHeld, HeirOf
<1>2. b \in Process /\ IsIn(k.waiters[x], b)
  BY <1>1, NextIsWaiting
<1>3. b # i /\ b # NoProcess
  BY <1>1, <1>2, ConfigAssumption DEF HasOwner, Process, NoProcess
<1>4. ASSUME NEW j \in Waiters(l, x) \ {b}
      PROVE  \/ l.priority[b] < l.priority[j]
             \/ l.priority[b] = l.priority[j]
                /\ IndexIn(l.waiters[x], b) < IndexIn(l.waiters[x], j)
  <2>1. j \in Process /\ IsIn(k.waiters[x], j) /\ j # b
    BY DEF Waiters
  <2>2. j # i
    BY <1>1, <2>1 DEF HasOwner
  <2>3. \/ k.priority[b] < k.priority[j]
        \/ k.priority[b] = k.priority[j]
           /\ IndexIn(k.waiters[x], b) < IndexIn(k.waiters[x], j)
    BY <1>1, <2>1, BestComesFirst
  <2>4. l.priority[b] = k.priority[b] /\ l.priority[j] = k.priority[j]
    BY <1>2, <1>3, <2>1, <2>2
  <2> HIDE DEF b
  <2> QED BY <2>3, <2>4
<1> HIDE DEF b
<1> QED BY <1>1, <1>2, <1>3, <1>4 DEF FirstOfBest

LEMMA ReleaseAllSound ==
  ASSUME NEW k, MutexOk(k), NEW i \in Process
  PROVE  ReleasedUpTo(k, ReleaseAll(k, i), i, NumMutexes)
<1>1. PICK f : /\ ReleaseAll(k, i) = f[NumMutexes]
               /\ f[0] = k
               /\ \A n \in MutexId : f[n + 1] = ReleaseOne(f[n], n, i)
  BY ReleaseUnfolds
<1>2. NumMutexes \in Nat
  BY MutexAssumption
<1> DEFINE S == {n \in 0 .. NumMutexes : ReleasedUpTo(k, f[n], i, n)}
<1>3. 0 \in S
  BY <1>1, <1>2 DEF ReleasedUpTo, Passes, WaitsFewer, SameProcess, MutexId
<1>4. ASSUME NEW n \in 0 .. NumMutexes, n \in S, n < NumMutexes
      PROVE  n + 1 \in S
  <2> DEFINE l == f[n]
             m == f[n + 1]
  <2>1. n \in MutexId /\ m = ReleaseOne(l, n, i) /\ ReleasedUpTo(k, l, i, n)
    BY <1>1, <1>2, <1>4 DEF MutexId
  <2> HIDE DEF l, m
  <2>2. MutexOk(l) /\ Passes(k, l) /\ SameProcess(k, l, i)
        /\ l.owner[n] = k.owner[n] /\ l.waiters[n] = k.waiters[n]
    BY <2>1 DEF ReleasedUpTo, MutexId
  <2>3. \A x \in MutexId : x < n + 1 <=> x < n \/ x = n
    BY <1>2, <2>1 DEF MutexId
  <2>4. CASE k.owner[n] # i
    <3>1. m = l
      BY <2>1, <2>2, <2>4 DEF ReleaseOne
    <3>2. ASSUME NEW x \in MutexId
          PROVE  x < n + 1 /\ k.owner[x] = i <=> x < n /\ k.owner[x] = i
      BY <2>3, <2>4
    <3> QED BY <1>2, <1>4, <2>1, <3>1, <3>2 DEF ReleasedUpTo, m
  <2>5. CASE k.owner[n] = i
    <3>1. HandedOver(l, m, n, i)
      BY <2>1, <2>2, <2>5, HandOffSound DEF ReleaseOne
    <3>2. MutexOk(m) /\ Passes(l, m) /\ SameProcess(l, m, i)
      BY <3>1 DEF HandedOver, PassedOn
    <3>3. Passes(k, m) /\ SameProcess(k, m, i)
      <4>1. Passes(k, m)
        BY <2>2, <3>2, PassesThen DEF MutexOk, MutexHeld
      <4> QED BY <2>2, <3>2, <4>1 DEF SameProcess
    <3>4. ASSUME NEW x \in MutexId
          PROVE  m.owner[x] = IF x = n THEN HeirOf(l, n) ELSE l.owner[x]
      <4>1. l.owner \in [MutexId -> Process \cup {NoProcess}]
        BY <2>2 DEF MutexOk, MutexHeld, OwnerType
      <4> QED BY <3>1, <4>1 DEF HandedOver, PassedOn
    <3>5. k.state[i] # "BLOCKED" => /\ \A j \in Process \ {i} : l.priority[j] = k.priority[j]
                                    /\ \A j \in Process \ {i} : m.priority[j] = k.priority[j]
      BY <2>1, <2>2, <3>1 DEF ReleasedUpTo, HandedOver, SameProcess
    <3>6. GivenUp(k, m, n, i)
      <4>1. m.owner[n] = HeirOf(l, n)
        BY <2>1, <3>4
      <4>2. CASE k.waiters[n] = <<>>
        BY <2>2, <4>1, <4>2, ConfigAssumption DEF GivenUp, HeirOf, Process, NoProcess
      <4>3. CASE k.waiters[n] # <<>>
        <5>1. l.owner[n] = i /\ l.waiters[n] # <<>>
          BY <2>2, <2>5, <4>3
        <5>2. HeirOf(l, n) # i /\ HeirOf(l, n) # NoProcess
          BY <2>1, <2>2, <5>1, HeirComesFirst
        <5>3. ASSUME k.state[i] # "BLOCKED"
              PROVE  FirstOfBest(k, n, HeirOf(l, n))
          <6>1. \A j \in Process \ {i} : k.priority[j] = l.priority[j]
            BY <3>5, <5>3
          <6> QED BY <2>1, <2>2, <5>1, <6>1, HeirComesFirst
        <5> QED BY <4>1, <4>3, <5>2, <5>3 DEF GivenUp
      <4> QED BY <4>2, <4>3
    <3>7. ASSUME NEW x \in MutexId
          PROVE  IF x < n + 1 /\ k.owner[x] = i THEN GivenUp(k, m, x, i)
                 ELSE m.owner[x] = k.owner[x] /\ m.waiters[x] = k.waiters[x]
      <4>1. CASE x = n
        BY <2>3, <2>5, <3>6, <4>1
      <4>2. CASE x # n
        <5>1. m.owner[x] = l.owner[x] /\ m.waiters[x] = l.waiters[x]
          BY <3>1, <3>4, <4>2 DEF HandedOver, PassedOn
        <5>2. IF x < n /\ k.owner[x] = i THEN GivenUp(k, l, x, i)
              ELSE l.owner[x] = k.owner[x] /\ l.waiters[x] = k.waiters[x]
          BY <2>1 DEF ReleasedUpTo
        <5>3. x < n + 1 <=> x < n
          BY <2>3, <4>2
        <5> QED BY <5>1, <5>2, <5>3 DEF GivenUp
      <4> QED BY <4>1, <4>2
    <3>8. ReleasedUpTo(k, m, i, n + 1)
      BY <3>2, <3>3, <3>5, <3>7 DEF ReleasedUpTo
    <3> QED BY <1>2, <1>4, <3>8 DEF m
  <2> QED BY <2>4, <2>5
<1>5. 0 .. NumMutexes \subseteq S
  <2> HIDE DEF S
  <2> QED BY <1>2, <1>3, <1>4, UpToInduction
<1>6. ReleasedUpTo(k, f[NumMutexes], i, NumMutexes)
  BY <1>2, <1>5
<1> QED BY <1>1, <1>6

-----------------------------------------------------------------------------
(* A restart, for a fault or for a missed deadline.                        *)

\* Process i has been restarted; the mutexes stay where they are.
Reborn(k, m, i) ==
  /\ MutexOk(m) /\ Passes(k, m) /\ m.owner = k.owner
  /\ k.state[i] = "RUNNING" =>
       /\ m.priority = k.priority /\ m.op = k.op /\ m.waiters = k.waiters
       /\ m.state[i] # "BLOCKED"
  /\ k.state[i] = "BLOCKED" =>
       /\ m.waiters = LeaveAny(k, i).waiters
       /\ m.priority = RefreshPriorities(LeaveAny(k, i)).priority

LEMMA RestartRunningReborn ==
  ASSUME NEW k, MutexOk(k), NEW i \in Process, k.state[i] = "RUNNING"
  PROVE  Reborn(k, RestartRunning(k, i), i)
<1> DEFINE m == RestartRunning(k, i)
<1>1. MutexHeld(k) /\ Sound(k) /\ CallsType(k)
  BY DEF MutexOk, MutexHeld
<1>2. k = [y \in DOMAIN k |-> k[y]]
      /\ TableFields \cup WaitFieldNames \cup {"owner"} \subseteq DOMAIN k
  BY <1>1, HeldFields
<1>3. OffCpu(k, m, i)
  BY <1>1, RestartRunningSound
<1> HIDE DEF m
<1>4. /\ m.waiters = k.waiters /\ m.waitlist = k.waitlist /\ m.op = k.op
      /\ m.result = k.result /\ m.wake = k.wake /\ m.owner = k.owner
      /\ m.priority = k.priority /\ m.halted = k.halted
  BY <1>2, <1>3 DEF OffCpu, SameBeyond, TableFields, WaitFieldNames
<1>5. SameBut(k, m, (TableFields \ {"priority", "halted"}) \cup WaitFieldNames)
  BY <1>3, <1>4 DEF OffCpu, SameBeyond, SameBut, Extends, TableFields
<1>6. CallsType(m)
  BY <1>1, <1>4 DEF CallsType
<1>7. ASSUME NEW j \in Process
      PROVE  m.state[j] = IF j = i THEN "READY" ELSE k.state[j]
  <2>1. k.state \in [Process -> ProcessState] /\ m.state = [k.state EXCEPT ![i] = "READY"]
    BY <1>1, <1>3, SoundTypes DEF OffCpu
  <2> QED BY <2>1
<1>8. (\A j \in Process : Waits(m, j) <=> Waits(k, j)) /\ WaitsFewer(k, m)
  BY <1>4, <1>7 DEF Waits, WaitsFewer
<1>9. Calm(k, m)
  BY <1>3, <1>4, <1>5, <1>6, <1>8, CalmBy DEF OffCpu, Settles
<1>10. m.state[i] # "BLOCKED"
  BY <1>7
<1> QED BY <1>4, <1>9, <1>10 DEF Calm, Reborn, m

LEMMA LeaveWalkOk ==
  ASSUME NEW k, MutexOk(k), NEW i \in Process
  PROVE  LET l == LeaveAny(k, i) IN
         SameBut(k, l, {"waiters"}) /\ WalkOk(l) /\ NothingOwed(l)
<1> DEFINE l == LeaveAny(k, i)
<1>1. MutexHeld(k) /\ NothingOwed(k)
  BY DEF MutexOk
<1>2. k = [y \in DOMAIN k |-> k[y]] /\ WalkOk(k)
      /\ TableFields \cup WaitFieldNames \cup {"owner"} \subseteq DOMAIN k
  BY <1>1, HeldFields
<1>3. SameBut(k, l, {"waiters"})
  BY <1>2 DEF LeaveAny, LeaveList, SameBut
<1> HIDE DEF l
<1>4. /\ l.state = k.state /\ l.priority = k.priority /\ l.ready = k.ready
      /\ l.current = k.current /\ l.halted = k.halted
      /\ l.owner = k.owner /\ l.op = k.op
  BY <1>2, <1>3 DEF SameBut, TableFields, WaitFieldNames
<1>5. TablePart(l) = TablePart(k)
  BY <1>4 DEF TablePart
<1>6. WalkOk(l)
  BY <1>2, <1>3, <1>4, <1>5 DEF WalkOk, Extends, SameBut, OwnerType
<1>7. NothingOwed(l)
  BY <1>1, <1>4 DEF NothingOwed, Owned
<1> QED BY <1>3, <1>6, <1>7 DEF l

\* Off its list and with priorities derived again, process i is not yet READY.
Withdrawn(k, m, i) ==
  /\ Sound(m) /\ NothingOwed(m)
  /\ m.waiters = LeaveAny(k, i).waiters
  /\ m.priority = RefreshPriorities(LeaveAny(k, i)).priority
  /\ SameBut(k, m, {"priority", "ready", "waiters", "waitlist", "wake", "op"})
  /\ m.waitlist = [k.waitlist EXCEPT ![i] = NoList]
  /\ m.wake = [k.wake EXCEPT ![i] = NoTick]
  /\ m.op = [k.op EXCEPT ![i] = NoOp]

LEMMA WithdrawSound ==
  ASSUME NEW k, MutexOk(k), NEW i \in Process, k.state[i] = "BLOCKED"
  PROVE  Withdrawn(k, ClearBlocked(RefreshPriorities(LeaveAny(k, i)), i), i)
<1> DEFINE l == LeaveAny(k, i)
           n == RefreshPriorities(l)
           c == ClearBlocked(l, i)
           m == ClearBlocked(n, i)
<1>1. MutexHeld(k) /\ Sound(k)
  BY DEF MutexOk, MutexHeld
<1>2. k = [y \in DOMAIN k |-> k[y]]
      /\ TableFields \cup WaitFieldNames \cup {"owner"} \subseteq DOMAIN k
  BY <1>1, HeldFields
<1>3. SameBut(k, l, {"waiters"}) /\ WalkOk(l) /\ NothingOwed(l)
  BY LeaveWalkOk
<1>4. OffList(k, c, i)
  BY <1>1, LeaveSound
<1> HIDE DEF l
<1>5. Walked(l, n, NoProcess)
  BY <1>3, RefreshWalks
<1>6. /\ l = [y \in DOMAIN l |-> l[y]]
      /\ TableFields \cup WaitFieldNames \cup {"owner"} \subseteq DOMAIN l
  BY <1>2, <1>3 DEF SameBut
<1> HIDE DEF n
<1>7. Reprioritised(l, n) /\ NothingOwed(n)
  BY <1>5 DEF Walked
<1>8. /\ n = [y \in DOMAIN n |-> n[y]] /\ DOMAIN n = DOMAIN l
      /\ \A y \in DOMAIN l \ {"priority", "ready"} : n[y] = l[y]
  BY <1>7 DEF Reprioritised, SameBut
<1>9. /\ c = [y \in DOMAIN c |-> c[y]] /\ DOMAIN c = DOMAIN l
      /\ \A y \in DOMAIN l \ {"waitlist", "wake", "op"} : c[y] = l[y]
      /\ c.waitlist = [l.waitlist EXCEPT ![i] = NoList]
      /\ c.wake = [l.wake EXCEPT ![i] = NoTick]
      /\ c.op = [l.op EXCEPT ![i] = NoOp]
  BY <1>6 DEF ClearBlocked, WaitFieldNames
<1>10. /\ m = [y \in DOMAIN m |-> m[y]] /\ DOMAIN m = DOMAIN n
       /\ \A y \in DOMAIN n \ {"waitlist", "wake", "op"} : m[y] = n[y]
       /\ m.waitlist = [n.waitlist EXCEPT ![i] = NoList]
       /\ m.wake = [n.wake EXCEPT ![i] = NoTick]
       /\ m.op = [n.op EXCEPT ![i] = NoOp]
  BY <1>6, <1>8 DEF ClearBlocked, WaitFieldNames
<1> HIDE DEF c, m
<1>11. /\ n.waitlist = l.waitlist /\ n.wake = l.wake /\ n.op = l.op
       /\ n.owner = l.owner /\ n.state = l.state
  BY <1>6, <1>8 DEF TableFields, WaitFieldNames
<1>12. SameBeyond(c, m)
  <2>1. DOMAIN m = DOMAIN c /\ Extends(m)
    BY <1>6, <1>8, <1>9, <1>10 DEF Extends
  <2>2. ASSUME NEW y \in DOMAIN c \ TableFields
        PROVE  m[y] = c[y]
    BY <1>8, <1>9, <1>10, <1>11 DEF TableFields
  <2> QED BY <2>1, <2>2 DEF SameBeyond
<1>13. TablePart(m) = TablePart(n) /\ TablePart(c) = TablePart(l)
  <2>1. /\ m.state = n.state /\ m.priority = n.priority /\ m.ready = n.ready
        /\ m.current = n.current /\ m.halted = n.halted
    BY <1>6, <1>8, <1>10 DEF TableFields
  <2>2. /\ c.state = l.state /\ c.priority = l.priority /\ c.ready = l.ready
        /\ c.current = l.current /\ c.halted = l.halted
    BY <1>6, <1>9 DEF TableFields
  <2> QED BY <2>1, <2>2 DEF TablePart
<1>14. m.state = c.state
  BY <1>6, <1>8, <1>9, <1>10, <1>11 DEF TableFields
<1>15. Sound(m)
  <2>1. Sound(c)
    BY <1>4 DEF OffList
  <2>2. Consistent(TablePart(m)) /\ KeepsReady(TablePart(c), TablePart(m))
    BY <1>7, <1>13 DEF Reprioritised
  <2> QED BY <1>12, <1>14, <2>1, <2>2, TableStep
<1>16. NothingOwed(m)
  <2>1. m.owner = n.owner /\ m.priority = n.priority
    BY <1>6, <1>8, <1>10 DEF TableFields
  <2> QED BY <1>7, <2>1 DEF NothingOwed, Owned
<1>17. SameBut(k, m, {"priority", "ready", "waiters", "waitlist", "wake", "op"})
  BY <1>3, <1>8, <1>10 DEF SameBut
<1>18. /\ m.waitlist = [k.waitlist EXCEPT ![i] = NoList]
       /\ m.wake = [k.wake EXCEPT ![i] = NoTick]
       /\ m.op = [k.op EXCEPT ![i] = NoOp]
  <2>1. l.waitlist = k.waitlist /\ l.wake = k.wake /\ l.op = k.op
    BY <1>2, <1>3 DEF SameBut, WaitFieldNames
  <2> QED BY <1>10, <1>11, <2>1
<1>19. m.waiters = l.waiters /\ m.priority = n.priority
  BY <1>6, <1>8, <1>10 DEF TableFields, WaitFieldNames
<1> QED BY <1>15, <1>16, <1>17, <1>18, <1>19 DEF Withdrawn, m, n, l

LEMMA RestartBlockedReborn ==
  ASSUME NEW k, MutexOk(k), NEW i \in Process, k.state[i] = "BLOCKED"
  PROVE  Reborn(k, ReadyProcess(ClearBlocked(RefreshPriorities(LeaveAny(k, i)), i), i), i)
<1> DEFINE l == ClearBlocked(RefreshPriorities(LeaveAny(k, i)), i)
           m == ReadyProcess(l, i)
<1>1. MutexHeld(k) /\ Sound(k) /\ CallsType(k) /\ OwnerType(k)
  BY DEF MutexOk, MutexHeld
<1>2. k = [y \in DOMAIN k |-> k[y]]
      /\ TableFields \cup WaitFieldNames \cup {"owner"} \subseteq DOMAIN k
  BY <1>1, HeldFields
<1>3. Withdrawn(k, l, i)
  BY WithdrawSound
<1> HIDE DEF l
<1>4. /\ Sound(l) /\ DOMAIN l = DOMAIN k /\ l.state = k.state /\ l.owner = k.owner
      /\ l.result = k.result /\ l.halted = k.halted
  BY <1>2, <1>3 DEF Withdrawn, SameBut, TableFields, WaitFieldNames
<1>5. ASSUME NEW j \in Process
      PROVE  /\ l.waitlist[j] = IF j = i THEN NoList ELSE k.waitlist[j]
             /\ l.wake[j] = IF j = i THEN NoTick ELSE k.wake[j]
             /\ l.op[j] = IF j = i THEN NoOp ELSE k.op[j]
  <2>1. IpcType(k)
    BY <1>1 DEF Sound
  <2> QED BY <1>3, <2>1 DEF Withdrawn, IpcType, OnProcesses
<1>6. MadeReady(l, m, i, {})
  BY <1>4, <1>5, ReadySound
<1> HIDE DEF m
<1>7. Sound(m) /\ SameBut(l, m, {"state", "ready"})
      /\ m.state = [l.state EXCEPT ![i] = "READY"]
  BY <1>6 DEF MadeReady
<1>8. /\ DOMAIN m = DOMAIN k /\ m.owner = k.owner /\ m.result = k.result
      /\ m.halted = k.halted /\ m.waitlist = l.waitlist /\ m.wake = l.wake
      /\ m.op = l.op /\ m.priority = l.priority /\ m.waiters = l.waiters
  BY <1>2, <1>4, <1>7 DEF SameBut, TableFields, WaitFieldNames
<1>9. ASSUME NEW j \in Process
      PROVE  m.state[j] = IF j = i THEN "READY" ELSE k.state[j]
  BY <1>1, <1>4, <1>7, SoundTypes
<1>10. Passes(k, m) /\ Settles(k, m)
  BY <1>5, <1>8, <1>9 DEF Passes, WaitsFewer, Settles, Waits
<1>11. OwnerType(m) /\ CallsType(m)
  <2>1. OnProcesses(m.wake) /\ OnProcesses(m.op)
    BY <1>7 DEF Sound, IpcType
  <2>2. NoOp \in Ops /\ NoTick \in {Armed, NoTick}
    BY DEF Ops
  <2>3. \A j \in Process : m.wake[j] \in {Armed, NoTick} /\ m.op[j] \in Ops
    BY <1>1, <1>5, <1>8, <2>2 DEF CallsType
  <2> QED BY <1>1, <1>8, <2>1, <2>3 DEF OwnerType, CallsType, OnProcesses
<1>12. MutexHeld(m)
  BY <1>1, <1>7, <1>8, <1>10, <1>11, HeldBy
<1>13. NothingOwed(m)
  BY <1>3, <1>4, <1>8 DEF Withdrawn, NothingOwed, Owned
<1>14. /\ m.waiters = LeaveAny(k, i).waiters
       /\ m.priority = RefreshPriorities(LeaveAny(k, i)).priority
  BY <1>3, <1>8 DEF Withdrawn
<1> QED BY <1>8, <1>10, <1>12, <1>13, <1>14 DEF Reborn, MutexOk, m, l

LEMMA RestartReleasedReborn ==
  ASSUME NEW k, MutexOk(k), NEW i \in Process
  PROVE  Reborn(k, RestartReleased(k, i), i)
<1>1. CASE k.state[i] = "RUNNING"
  BY <1>1, RestartRunningReborn DEF RestartReleased
<1>2. CASE k.state[i] = "BLOCKED"
  BY <1>2, RestartBlockedReborn DEF RestartReleased
<1>3. CASE k.state[i] \notin {"RUNNING", "BLOCKED"}
  <2>1. Passes(k, k)
    BY DEF Passes, WaitsFewer
  <2> QED BY <1>3, <2>1 DEF RestartReleased, Reborn
<1> QED BY <1>1, <1>2, <1>3

\* Results dropped: what restoring a context and a restart do to them.
LEMMA ResultsCalm ==
  ASSUME NEW k, MutexOk(k), NEW m, Sound(m), SameBut(k, m, {"result"}),
         m.result \in [Process -> Results]
  PROVE  /\ Calm(k, m) /\ m.state = k.state /\ m.op = k.op /\ m.waiters = k.waiters
         /\ m.current = k.current
<1>1. MutexHeld(k) /\ CallsType(k)
  BY DEF MutexOk, MutexHeld
<1>2. k = [y \in DOMAIN k |-> k[y]]
      /\ TableFields \cup WaitFieldNames \cup {"owner"} \subseteq DOMAIN k
  BY <1>1, HeldFields
<1>3. /\ m.state = k.state /\ m.waitlist = k.waitlist /\ m.op = k.op
      /\ m.wake = k.wake /\ m.waiters = k.waiters /\ m.current = k.current
  BY <1>2 DEF SameBut, TableFields, WaitFieldNames
<1>4. SameBut(k, m, (TableFields \ {"priority", "halted"}) \cup WaitFieldNames)
  BY DEF SameBut, WaitFieldNames
<1>5. CallsType(m) /\ Settles(k, m) /\ WaitsFewer(k, m)
  BY <1>1, <1>3 DEF CallsType, Settles, Waits, WaitsFewer
<1> QED BY <1>3, <1>4, <1>5, CalmBy

LEMMA DeliverCalm ==
  ASSUME NEW k, MutexOk(k), NEW c \in Process \cup {NoProcess}
  PROVE  LET m == Deliver(k, c) IN
         /\ Calm(k, m) /\ m.state = k.state /\ m.op = k.op /\ m.waiters = k.waiters
         /\ m.current = k.current
         /\ \A j \in Process : m.result[j] \in {k.result[j], NoResult}
<1> DEFINE m == Deliver(k, c)
<1>1. Sound(k) /\ k.result \in [Process -> Results]
  BY DEF MutexOk, MutexHeld, CallsType
<1>2. Delivered(k, m, c)
  BY <1>1, DeliverSound
<1> HIDE DEF m
<1>3. Sound(m) /\ SameBut(k, m, {"result"})
      /\ m.result = IF c = NoProcess THEN k.result ELSE [k.result EXCEPT ![c] = NoResult]
  BY <1>2 DEF Delivered
<1>4. NoResult \in Results
  BY DEF Results
<1>5. m.result \in [Process -> Results]
      /\ \A j \in Process : m.result[j] \in {k.result[j], NoResult}
  BY <1>1, <1>3, <1>4
<1> QED BY <1>3, <1>5, ResultsCalm DEF m

\* The restart of i as a whole: what it gives up, and that it holds nothing.
Restarted(k, m, i) ==
  /\ MutexOk(m) /\ Passes(k, m)
  /\ \A x \in MutexId :
       IF k.owner[x] = i THEN GivenUp(k, m, x, i) ELSE m.owner[x] = k.owner[x]
  /\ k.state[i] = "RUNNING" =>
       /\ Owned(m, i) = {} /\ m.priority[i] = BasePriority[i]
       /\ m.op[i] = k.op[i] /\ m.result[i] = NoResult

LEMMA RestartSound ==
  ASSUME NEW k, MutexOk(k), NEW i \in Process
  PROVE  Restarted(k, Restart(k, i), i)
<1> DEFINE l == ReleaseAll(k, i)
           n == RestartReleased(l, i)
           m == Restart(k, i)
<1>1. ReleasedUpTo(k, l, i, NumMutexes)
  BY ReleaseAllSound
<1>2. m = [n EXCEPT !.result[i] = NoResult]
  BY DEF Restart, RestartStates
<1> HIDE DEF l
<1>3. MutexOk(l) /\ Passes(k, l) /\ SameProcess(k, l, i)
  BY <1>1 DEF ReleasedUpTo
<1>4. Reborn(l, n, i)
  BY <1>3, RestartReleasedReborn
<1> HIDE DEF n, m
<1>5. MutexOk(n) /\ Passes(l, n) /\ n.owner = l.owner
  BY <1>4 DEF Reborn
<1>6. Calm(n, m) /\ m.op = n.op /\ m.result = [n.result EXCEPT ![i] = NoResult]
  <2>1. /\ n = [y \in DOMAIN n |-> n[y]]
        /\ TableFields \cup WaitFieldNames \cup {"owner"} \subseteq DOMAIN n
    BY <1>5, HeldFields DEF MutexOk
  <2>2. SameBut(n, m, {"result"}) /\ m.result = [n.result EXCEPT ![i] = NoResult]
    BY <1>2, <2>1 DEF SameBut, WaitFieldNames
  <2>3. n.result \in [Process -> Results] /\ NoResult \in Results
    BY <1>5 DEF MutexOk, MutexHeld, CallsType, Results
  <2>4. m.result \in [Process -> Results]
    BY <2>2, <2>3
  <2>5. Sound(n) /\ OnProcesses(m.result) /\ OnProcesses(n.wake) /\ OnProcesses(n.op)
    BY <1>5, <2>4 DEF MutexOk, MutexHeld, Sound, IpcType, OnProcesses
  <2>6. m.wake = n.wake /\ m.op = n.op
    BY <2>1, <2>2 DEF SameBut, WaitFieldNames
  <2>7. SameBut(n, m, {"result", "op", "wake"})
    BY <2>2 DEF SameBut
  <2>8. Sound(m)
    BY <2>5, <2>6, <2>7, AnnotateSound
  <2> QED BY <1>5, <2>2, <2>4, <2>8, ResultsCalm
<1>7. MutexOk(m) /\ Passes(n, m) /\ m.owner = n.owner /\ m.priority = n.priority
  BY <1>6 DEF Calm
<1>8. Passes(k, m)
  <2>1. Passes(k, n)
    BY <1>3, <1>5, PassesThen DEF MutexOk, MutexHeld
  <2> QED BY <1>5, <1>7, <2>1, PassesThen DEF MutexOk, MutexHeld
<1>9. ASSUME NEW x \in MutexId
      PROVE  IF k.owner[x] = i THEN GivenUp(k, m, x, i) ELSE m.owner[x] = k.owner[x]
  <2>1. x < NumMutexes
    BY MutexAssumption DEF MutexId
  <2>2. IF k.owner[x] = i THEN GivenUp(k, l, x, i) ELSE l.owner[x] = k.owner[x]
    BY <1>1, <2>1 DEF ReleasedUpTo
  <2>3. m.owner[x] = l.owner[x]
    BY <1>5, <1>7
  <2> QED BY <2>2, <2>3 DEF GivenUp
<1>10. Owned(m, i) = {}
  BY <1>9 DEF Owned, GivenUp
<1>11. ASSUME k.state[i] = "RUNNING"
       PROVE  m.priority[i] = BasePriority[i] /\ m.op[i] = k.op[i] /\ m.result[i] = NoResult
  <2>1. m.priority[i] = BasePriority[i]
    BY <1>7, <1>10 DEF MutexOk, NothingOwed
  <2>2. l.state[i] = "RUNNING" /\ l.op[i] = k.op[i]
    BY <1>3, <1>11 DEF SameProcess
  <2>3. n.op[i] = l.op[i]
    BY <1>4, <2>2 DEF Reborn
  <2>4. i \in DOMAIN n.result
    BY <1>5 DEF MutexOk, MutexHeld, CallsType
  <2> QED BY <1>6, <2>1, <2>2, <2>3, <2>4
<1> QED BY <1>7, <1>8, <1>9, <1>10, <1>11 DEF Restarted, m

-----------------------------------------------------------------------------
(* Dispatches, sleeps and what a tick does.                                *)

\* A step that starts no wait for a mutex.
Goes(k, m) == MutexOk(m) /\ Passes(k, m)

LEMMA GoesThen ==
  ASSUME NEW k, MutexOk(k), NEW l, NEW m, Goes(k, l), Goes(l, m)
  PROVE  Goes(k, m)
BY PassesThen DEF Goes, MutexOk, MutexHeld

LEMMA GoesNowhere ==
  ASSUME NEW k, MutexOk(k)
  PROVE  Goes(k, k)
BY DEF Goes, Passes, WaitsFewer

LEMMA TypesKept ==
  ASSUME NEW k, MutexOk(k), NEW m, SameBeyond(k, m)
  PROVE  /\ m.waitlist = k.waitlist /\ m.wake = k.wake /\ m.op = k.op
         /\ m.result = k.result /\ m.waiters = k.waiters /\ m.owner = k.owner
         /\ CallsType(m)
<1>1. TableFields \cup WaitFieldNames \cup {"owner"} \subseteq DOMAIN k
  BY HeldFields DEF MutexOk
<1>2. /\ m.waitlist = k.waitlist /\ m.wake = k.wake /\ m.op = k.op
      /\ m.result = k.result /\ m.waiters = k.waiters /\ m.owner = k.owner
  BY <1>1 DEF SameBeyond, TableFields, WaitFieldNames
<1> QED BY <1>2 DEF MutexOk, MutexHeld, CallsType

LEMMA SelectCalm ==
  ASSUME NEW k, MutexOk(k), NEW p \in Partition, NEW y \in BOOLEAN
  PROVE  LET m == PartitionSelect(k, p, y) IN
         /\ Calm(k, m) /\ m.op = k.op /\ m.result = k.result /\ m.waiters = k.waiters
         /\ SelectStatus(k, p, y) = "OK" => m.current[p] \in Process
<1> DEFINE m == PartitionSelect(k, p, y)
<1>1. MutexHeld(k) /\ Sound(k)
  BY DEF MutexOk, MutexHeld
<1>2. Sound(m) /\ SameBeyond(k, m) /\ SameBlocked(k, m)
      /\ m.halted = k.halted /\ m.priority = k.priority
      /\ (SelectStatus(k, p, y) = "OK" => m.current[p] \in Process)
  BY <1>1, SelectSound
<1> HIDE DEF m
<1>3. /\ m.waitlist = k.waitlist /\ m.op = k.op /\ m.result = k.result
      /\ m.waiters = k.waiters /\ CallsType(m)
  BY <1>2, TypesKept
<1>4. SameBut(k, m, (TableFields \ {"priority", "halted"}) \cup WaitFieldNames)
  BY <1>2 DEF SameBeyond, SameBut, Extends, TableFields
<1>5. Settles(k, m) /\ WaitsFewer(k, m)
  BY <1>2, <1>3 DEF Settles, Waits, WaitsFewer, SameBlocked
<1>6. Calm(k, m)
  BY <1>2, <1>3, <1>4, <1>5, CalmBy
<1> QED BY <1>2, <1>3, <1>6 DEF m

LEMMA SleepPriority ==
  ASSUME NEW k, "priority" \in DOMAIN k, NEW i
  PROVE  Sleep(k, i).priority = k.priority
<1> DEFINE p == PartitionOf[i]
<1>1. BlockIdle(k, p, i).priority = k.priority
  BY DEF BlockIdle, Leave, SetState
<1>2. BlockAndDispatch(k, p, i).priority = k.priority
  BY DEF BlockAndDispatch, Run, SetState, PopBest
<1> QED BY <1>1, <1>2 DEF Sleep

LEMMA SleepCalm ==
  ASSUME NEW k, MutexOk(k), NEW i \in Process, k.state[i] = "RUNNING"
  PROVE  LET m == [Sleep(k, i) EXCEPT !.wake[i] = Armed] IN
         Calm(k, m) /\ m.waiters = k.waiters
<1> DEFINE l == Sleep(k, i)
           m == [l EXCEPT !.wake[i] = Armed]
<1>1. MutexHeld(k) /\ Sound(k) /\ CallsType(k)
  BY DEF MutexOk, MutexHeld
<1>2. ~k.halted[PartitionOf[i]]
  BY <1>1, ConfigAssumption DEF MutexHeld
<1>3. Asleep(k, l, i)
  BY <1>1, <1>2, SleepSound
<1>4. l.priority = k.priority
  <2>1. "priority" \in DOMAIN k
    BY <1>1, HeldFields DEF TableFields
  <2> QED BY <2>1, SleepPriority
<1> HIDE DEF l
<1>5. Sound(l) /\ SameBeyond(k, l) /\ l.halted = k.halted
      /\ \A j \in Process : l.state[j] = "BLOCKED" <=> k.state[j] = "BLOCKED" \/ j = i
  BY <1>3 DEF Asleep
<1>6. /\ l.waitlist = k.waitlist /\ l.wake = k.wake /\ l.op = k.op
      /\ l.result = k.result /\ l.waiters = k.waiters /\ CallsType(l)
  BY <1>5, TypesKept
<1>7. l = [y \in DOMAIN l |-> l[y]] /\ DOMAIN l = DOMAIN k
      /\ TableFields \cup WaitFieldNames \cup {"owner"} \subseteq DOMAIN l
  BY <1>1, <1>5, HeldFields DEF SameBeyond, Extends
<1>8. SameBut(l, m, {"wake"}) /\ m.wake = [l.wake EXCEPT ![i] = Armed]
  BY <1>7 DEF SameBut, WaitFieldNames
<1> HIDE DEF m
<1>9. /\ m.state = l.state /\ m.waitlist = l.waitlist /\ m.op = l.op
      /\ m.result = l.result /\ m.waiters = l.waiters
  BY <1>7, <1>8 DEF SameBut, TableFields, WaitFieldNames
<1>10. CallsType(m)
  BY <1>6, <1>8, <1>9 DEF CallsType
<1>11. Sound(m)
  <2>1. SameBut(l, m, {"result", "op", "wake"})
    BY <1>8 DEF SameBut
  <2>2. OnProcesses(m.result) /\ OnProcesses(m.op) /\ OnProcesses(m.wake)
    BY <1>10 DEF CallsType, OnProcesses
  <2> QED BY <1>5, <2>1, <2>2, AnnotateSound
<1>12. k.waitlist[i] = NoList
  BY <1>1, OnNoList
<1>13. (\A j \in Process : Waits(m, j) <=> Waits(k, j)) /\ WaitsFewer(k, m)
  BY <1>5, <1>6, <1>9, <1>12 DEF Waits, WaitsFewer
<1>14. SameBut(k, m, (TableFields \ {"priority", "halted"}) \cup WaitFieldNames)
  <2>1. \A y \in DOMAIN k \ (TableFields \cup WaitFieldNames) : m[y] = k[y]
    BY <1>5, <1>7, <1>8 DEF SameBut, SameBeyond, WaitFieldNames
  <2>2. m.priority = k.priority /\ m.halted = k.halted
    BY <1>4, <1>5, <1>7, <1>8 DEF SameBut, TableFields
  <2> QED BY <1>7, <1>8, <2>1, <2>2 DEF SameBut, TableFields
<1>15. Settles(k, m)
  BY <1>6, <1>9, <1>13 DEF Settles
<1>16. Calm(k, m)
  BY <1>10, <1>11, <1>13, <1>14, <1>15, CalmBy
<1> QED BY <1>6, <1>9, <1>16 DEF m, l

LEMMA ExpireCalm ==
  ASSUME NEW k, MutexOk(k), NEW due
  PROVE  Calm(k, ExpireTimeouts(k, due))
<1> DEFINE m == ExpireTimeouts(k, due)
<1>1. MutexHeld(k) /\ Sound(k) /\ CallsType(k)
  BY DEF MutexOk, MutexHeld
<1>2. ExpiredUpTo(k, m, due, NumProcesses)
  BY <1>1, ExpireTimeoutsSound
<1> HIDE DEF m
<1>3. Sound(m) /\ SameBut(k, m, ExpiryFields)
      /\ \A j \in Process : TimedOut(m, j) \/ SameProcess(k, m, j)
  BY <1>2 DEF ExpiredUpTo
<1>4. SameBut(k, m, (TableFields \ {"priority", "halted"}) \cup WaitFieldNames)
  BY <1>3 DEF SameBut, ExpiryFields, TableFields, WaitFieldNames
<1>5. Settles(k, m) /\ WaitsFewer(k, m)
  BY <1>3 DEF Settles, Waits, WaitsFewer, TimedOut, SameProcess
<1>6. CallsType(m)
  <2>1. NoOp \in Ops /\ NoTick \in {Armed, NoTick} /\ "TIMEOUT" \in Results
    BY DEF Ops, Results
  <2>2. \A j \in Process : /\ m.wake[j] \in {Armed, NoTick} /\ m.op[j] \in Ops
                           /\ m.result[j] \in Results
    BY <1>1, <1>3, <2>1 DEF CallsType, TimedOut, SameProcess
  <2>3. OnProcesses(m.wake) /\ OnProcesses(m.op) /\ OnProcesses(m.result)
    BY <1>3 DEF Sound, IpcType
  <2> QED BY <2>2, <2>3 DEF CallsType, OnProcesses
<1> QED BY <1>3, <1>4, <1>5, <1>6, CalmBy DEF m

LEMMA ExpireLocksGoes ==
  ASSUME NEW k, MutexOk(k), NEW due
  PROVE  Goes(k, ExpireLocks(k, due))
<1> DEFINE l == ExpireTimeouts(k, due)
           m == RefreshPriorities(l)
<1>1. Calm(k, l)
  BY ExpireCalm
<1> HIDE DEF l
<1>2. MutexOk(l) /\ Passes(k, l)
  BY <1>1 DEF Calm
<1>3. Walked(l, m, NoProcess)
  BY <1>2, HeldFields, RefreshWalks DEF MutexOk
<1>4. Goes(l, m)
  <2> HIDE DEF m
  <2>1. MutexHeld(m) /\ Passes(l, m)
    BY <1>2, <1>3, ReprioritisedHeld DEF MutexOk, Walked
  <2> QED BY <1>3, <2>1 DEF Goes, MutexOk, Walked
<1>5. Goes(k, l) /\ Goes(k, m)
  BY <1>2, <1>4, GoesThen DEF Goes
<1> QED BY <1>5 DEF ExpireLocks, l, m

LEMMA ReleaseWaitCalm ==
  ASSUME NEW k, MutexOk(k), NEW due, NEW i \in Process
  PROVE  LET m == ReleaseWait(k, due, i) IN
         Calm(k, m) /\ m.waiters = k.waiters
<1>1. CASE ~(i \in due /\ k.state[i] = "BLOCKED" /\ k.waitlist[i] = NoList)
  BY <1>1, GoesNowhere DEF ReleaseWait, Calm, Goes
<1>2. CASE i \in due /\ k.state[i] = "BLOCKED" /\ k.waitlist[i] = NoList
  <2> DEFINE l == [k EXCEPT !.wake[i] = NoTick]
             m == Resolve(l, i, "OK")
  <2>1. MutexHeld(k) /\ Sound(k) /\ CallsType(k)
    BY DEF MutexOk, MutexHeld
  <2>2. k = [y \in DOMAIN k |-> k[y]]
        /\ TableFields \cup WaitFieldNames \cup {"owner"} \subseteq DOMAIN k
    BY <2>1, HeldFields
  <2>3. SameBut(k, l, {"wake"}) /\ l.wake = [k.wake EXCEPT ![i] = NoTick]
    BY <2>2 DEF SameBut, WaitFieldNames
  <2> HIDE DEF l
  <2>4. /\ l.state = k.state /\ l.waitlist = k.waitlist /\ l.op = k.op
        /\ l.result = k.result /\ l.waiters = k.waiters
    BY <2>2, <2>3 DEF SameBut, TableFields, WaitFieldNames
  <2>5. CallsType(l)
    BY <2>1, <2>3, <2>4 DEF CallsType
  <2>6. Sound(l)
    <3>1. SameBut(k, l, {"result", "op", "wake"})
      BY <2>3 DEF SameBut
    <3>2. OnProcesses(l.result) /\ OnProcesses(l.op) /\ OnProcesses(l.wake)
      BY <2>5 DEF CallsType, OnProcesses
    <3> QED BY <2>1, <3>1, <3>2, AnnotateSound
  <2>7. Resolved(l, m, i, "OK")
    BY <1>2, <2>4, <2>6, ResolveSound
  <2> HIDE DEF m
  <2>8. /\ Sound(m) /\ SameBut(l, m, {"state", "ready", "result"})
        /\ m.state = [l.state EXCEPT ![i] = "READY"]
        /\ m.result = [l.result EXCEPT ![i] = "OK"]
    <3>1. SameBut(l, m, {"state", "ready"} \cup {"result"})
      BY <2>7 DEF Resolved, MadeReady
    <3>2. {"state", "ready"} \cup {"result"} = {"state", "ready", "result"}
      OBVIOUS
    <3> QED BY <2>7, <3>1, <3>2 DEF Resolved, MadeReady
  <2>9. m.waitlist = k.waitlist /\ m.op = k.op /\ m.wake = l.wake /\ m.waiters = k.waiters
    BY <2>2, <2>3, <2>4, <2>8 DEF SameBut, WaitFieldNames
  <2>10. SameBut(k, m, (TableFields \ {"priority", "halted"}) \cup WaitFieldNames)
    BY <2>3, <2>8 DEF SameBut, TableFields, WaitFieldNames
  <2>11. CallsType(m)
    <3>1. "OK" \in Results
      BY DEF Results
    <3> QED BY <2>4, <2>5, <2>8, <2>9, <3>1 DEF CallsType
  <2>12. \A j \in Process : m.state[j] = IF j = i THEN "READY" ELSE k.state[j]
    <3>1. k.state \in [Process -> ProcessState]
      BY <2>1, SoundTypes
    <3> QED BY <2>4, <2>8, <3>1
  <2>13. Settles(k, m) /\ WaitsFewer(k, m)
    BY <1>2, <2>9, <2>12 DEF Settles, Waits, WaitsFewer
  <2>14. Calm(k, m)
    BY <2>8, <2>10, <2>11, <2>13, CalmBy
  <2> QED BY <1>2, <2>9, <2>14 DEF ReleaseWait, m, l
<1> QED BY <1>1, <1>2

\* The tables that lead to ReleaseWaits(k, due), one for each process.
LEMMA WaitsUnfold ==
  ASSUME NEW k, NEW due
  PROVE  \E f : /\ ReleaseWaits(k, due) = f[NumProcesses]
                /\ f[0] = k
                /\ \A n \in Process : f[n + 1] = ReleaseWait(f[n], due, n)
<1> DEFINE G(N, f) == f = [n \in 0 .. N |->
                             IF n = 0 THEN k ELSE ReleaseWait(f[n - 1], due, n - 1)]
           S == {N \in 0 .. NumProcesses : \E f : G(N, f)}
<1>0. NumProcesses \in Nat
  BY ConfigAssumption
<1>1. 0 \in S
  <2>1. G(0, [n \in 0 .. 0 |-> k])
    OBVIOUS
  <2> HIDE DEF G
  <2> QED BY <1>0, <2>1
<1>2. ASSUME NEW n \in 0 .. NumProcesses, n \in S, n < NumProcesses
      PROVE  n + 1 \in S
  <2>1. PICK f : G(n, f)
    BY <1>2
  <2> DEFINE g == [x \in 0 .. n + 1 |->
                     IF x = n + 1 THEN ReleaseWait(f[n], due, n) ELSE f[x]]
  <2>2. G(n + 1, g)
    <3> SUFFICES ASSUME NEW x \in 0 .. n + 1
                 PROVE  g[x] = IF x = 0 THEN k ELSE ReleaseWait(g[x - 1], due, x - 1)
      OBVIOUS
    <3>1. CASE x = n + 1
      BY <3>1
    <3>2. CASE x # n + 1
      <4>1. x \in 0 .. n
            /\ f[x] = IF x = 0 THEN k ELSE ReleaseWait(f[x - 1], due, x - 1)
        BY <2>1, <3>2
      <4> QED BY <4>1
    <3> QED BY <3>1, <3>2
  <2> HIDE DEF g, G
  <2> QED BY <2>2, <1>2, <1>0
<1>3. 0 .. NumProcesses \subseteq S
  <2> HIDE DEF S
  <2> QED BY <1>0, <1>1, <1>2, UpToInduction
<1> DEFINE h == CHOOSE f : G(NumProcesses, f)
<1>4. ReleaseWaits(k, due) = h[NumProcesses]
  BY DEF ReleaseWaits
<1>5. G(NumProcesses, h)
  <2> HIDE DEF G
  <2> QED BY <1>0, <1>3
<1> HIDE DEF h
<1>6. h[0] = k /\ \A n \in Process : h[n + 1] = ReleaseWait(h[n], due, n)
  BY <1>0, <1>5 DEF Process, MutexId
<1> QED BY <1>4, <1>6

\* The misses that HandleMisses(k, c, missed) goes through.
LEMMA MissesUnfold ==
  ASSUME NEW k, NEW c, NEW missed
  PROVE  \E f : /\ HandleMisses(k, c, missed) = f[NumProcesses]
                /\ f[0] = [table |-> k, cpu |-> c]
                /\ \A n \in Process : f[n + 1] = HandleMiss(f[n], missed, n)
<1> DEFINE G(N, f) == f = [n \in 0 .. N |->
                             IF n = 0 THEN [table |-> k, cpu |-> c] ELSE HandleMiss(f[n - 1], missed, n - 1)]
           S == {N \in 0 .. NumProcesses : \E f : G(N, f)}
<1>0. NumProcesses \in Nat
  BY ConfigAssumption
<1>1. 0 \in S
  <2>1. G(0, [n \in 0 .. 0 |-> [table |-> k, cpu |-> c]])
    OBVIOUS
  <2> HIDE DEF G
  <2> QED BY <1>0, <2>1
<1>2. ASSUME NEW n \in 0 .. NumProcesses, n \in S, n < NumProcesses
      PROVE  n + 1 \in S
  <2>1. PICK f : G(n, f)
    BY <1>2
  <2> DEFINE g == [x \in 0 .. n + 1 |->
                     IF x = n + 1 THEN HandleMiss(f[n], missed, n) ELSE f[x]]
  <2>2. G(n + 1, g)
    <3> SUFFICES ASSUME NEW x \in 0 .. n + 1
                 PROVE  g[x] = IF x = 0 THEN [table |-> k, cpu |-> c] ELSE HandleMiss(g[x - 1], missed, x - 1)
      OBVIOUS
    <3>1. CASE x = n + 1
      BY <3>1
    <3>2. CASE x # n + 1
      <4>1. x \in 0 .. n
            /\ f[x] = IF x = 0 THEN [table |-> k, cpu |-> c] ELSE HandleMiss(f[x - 1], missed, x - 1)
        BY <2>1, <3>2
      <4> QED BY <4>1
    <3> QED BY <3>1, <3>2
  <2> HIDE DEF g, G
  <2> QED BY <2>2, <1>2, <1>0
<1>3. 0 .. NumProcesses \subseteq S
  <2> HIDE DEF S
  <2> QED BY <1>0, <1>1, <1>2, UpToInduction
<1> DEFINE h == CHOOSE f : G(NumProcesses, f)
<1>4. HandleMisses(k, c, missed) = h[NumProcesses]
  BY DEF HandleMisses
<1>5. G(NumProcesses, h)
  <2> HIDE DEF G
  <2> QED BY <1>0, <1>3
<1> HIDE DEF h
<1>6. h[0] = [table |-> k, cpu |-> c] /\ \A n \in Process : h[n + 1] = HandleMiss(h[n], missed, n)
  BY <1>0, <1>5 DEF Process, MutexId
<1> QED BY <1>4, <1>6

LEMMA ReleaseWaitsGoes ==
  ASSUME NEW k, MutexOk(k), NEW due
  PROVE  Goes(k, ReleaseWaits(k, due))
<1>1. PICK f : /\ ReleaseWaits(k, due) = f[NumProcesses]
               /\ f[0] = k
               /\ \A n \in Process : f[n + 1] = ReleaseWait(f[n], due, n)
  BY WaitsUnfold
<1>2. NumProcesses \in Nat
  BY ConfigAssumption
<1> DEFINE S == {n \in 0 .. NumProcesses : Goes(k, f[n])}
<1>3. 0 \in S
  BY <1>1, <1>2, GoesNowhere
<1>4. ASSUME NEW n \in 0 .. NumProcesses, n \in S, n < NumProcesses
      PROVE  n + 1 \in S
  <2>1. n \in Process /\ f[n + 1] = ReleaseWait(f[n], due, n) /\ Goes(k, f[n])
    BY <1>1, <1>2, <1>4 DEF Process
  <2>2. Goes(f[n], f[n + 1])
    BY <2>1, ReleaseWaitCalm DEF Goes, Calm
  <2>3. Goes(k, f[n + 1])
    BY <2>1, <2>2, GoesThen
  <2> QED BY <1>2, <1>4, <2>3
<1>5. 0 .. NumProcesses \subseteq S
  <2> HIDE DEF S
  <2> QED BY <1>2, <1>3, <1>4, UpToInduction
<1>6. Goes(k, f[NumProcesses])
  BY <1>2, <1>5
<1> QED BY <1>1, <1>6

LEMMA HandleMissGoes ==
  ASSUME NEW h, MutexOk(h.table), NEW missed, NEW i \in Process
  PROVE  Goes(h.table, HandleMiss(h, missed, i).table)
<1> DEFINE k == h.table
           l == Restart(k, i)
           m == PartitionSelect(l, PartitionOf[i], TRUE)
<1>1. CASE i \notin missed
  BY <1>1, GoesNowhere DEF HandleMiss
<1>2. CASE i \in missed
  <2>1. HandleMiss(h, missed, i).table = IF i # h.cpu THEN l ELSE m
    BY <1>2 DEF HandleMiss, AfterMiss, PartitionYield
  <2>2. Restarted(k, l, i)
    BY RestartSound
  <2> HIDE DEF l
  <2>3. Goes(k, l)
    BY <2>2 DEF Restarted, Goes
  <2>4. PartitionOf[i] \in Partition
    BY ConfigAssumption
  <2>5. Calm(l, m)
    BY <2>3, <2>4, SelectCalm DEF Goes
  <2> HIDE DEF m
  <2>6. Goes(l, m)
    BY <2>5 DEF Calm, Goes
  <2>7. Goes(k, m)
    <3> HIDE DEF k
    <3>1. MutexOk(k)
      BY DEF k
    <3> QED BY <2>3, <2>6, <3>1, GoesThen
  <2> QED BY <2>1, <2>3, <2>7
<1> QED BY <1>1, <1>2

LEMMA HandleMissesGoes ==
  ASSUME NEW k, MutexOk(k), NEW c, NEW missed
  PROVE  Goes(k, HandleMisses(k, c, missed).table)
<1>1. PICK f : /\ HandleMisses(k, c, missed) = f[NumProcesses]
               /\ f[0] = [table |-> k, cpu |-> c]
               /\ \A n \in Process : f[n + 1] = HandleMiss(f[n], missed, n)
  BY MissesUnfold
<1>2. NumProcesses \in Nat
  BY ConfigAssumption
<1> DEFINE S == {n \in 0 .. NumProcesses : Goes(k, f[n].table)}
<1>3. 0 \in S
  <2>1. f[0].table = k
    BY <1>1
  <2> QED BY <1>2, <2>1, GoesNowhere
<1>4. ASSUME NEW n \in 0 .. NumProcesses, n \in S, n < NumProcesses
      PROVE  n + 1 \in S
  <2>1. n \in Process /\ f[n + 1] = HandleMiss(f[n], missed, n) /\ Goes(k, f[n].table)
    BY <1>1, <1>2, <1>4 DEF Process
  <2>2. Goes(f[n].table, f[n + 1].table)
    BY <2>1, HandleMissGoes DEF Goes
  <2>3. Goes(k, f[n + 1].table)
    BY <2>1, <2>2, GoesThen
  <2> QED BY <1>2, <1>4, <2>3
<1>5. 0 .. NumProcesses \subseteq S
  <2> HIDE DEF S
  <2> QED BY <1>2, <1>3, <1>4, UpToInduction
<1>6. Goes(k, f[NumProcesses].table)
  BY <1>2, <1>5
<1> QED BY <1>1, <1>6

-----------------------------------------------------------------------------
(* Locks.                                                                  *)

LEMMA LockFreeOk ==
  ASSUME NEW k, MutexOk(k), NEW x \in MutexId, k.owner[x] = NoProcess, NEW i \in Process
  PROVE  LET m == [k EXCEPT !.owner[x] = i] IN
         /\ MutexOk(m) /\ m.state = k.state /\ m.current = k.current
         /\ m.owner = [k.owner EXCEPT ![x] = i]
<1> DEFINE m == [k EXCEPT !.owner[x] = i]
<1>1. MutexHeld(k) /\ Sound(k) /\ NothingOwed(k)
  BY DEF MutexOk, MutexHeld
<1>2. k = [y \in DOMAIN k |-> k[y]]
      /\ TableFields \cup WaitFieldNames \cup {"owner"} \subseteq DOMAIN k
  BY <1>1, HeldFields
<1>3. SameBut(k, m, {"owner"}) /\ m.owner = [k.owner EXCEPT ![x] = i]
  BY <1>2 DEF SameBut
<1> HIDE DEF m
<1>4. Sound(m)
  BY <1>1, <1>3, ServiceStep DEF TableFields, WaitFieldNames
<1>5. /\ m.state = k.state /\ m.waiters = k.waiters /\ m.waitlist = k.waitlist
      /\ m.wake = k.wake /\ m.op = k.op /\ m.result = k.result
      /\ m.halted = k.halted /\ m.priority = k.priority /\ m.current = k.current
  BY <1>2, <1>3 DEF SameBut, TableFields, WaitFieldNames
<1>6. k.owner \in [MutexId -> Process \cup {NoProcess}]
  BY <1>1 DEF MutexHeld, OwnerType
<1>7. \A y \in MutexId : m.owner[y] = IF y = x THEN i ELSE k.owner[y]
  BY <1>3, <1>6
<1>8. ASSUME NEW y \in MutexId
      PROVE  HasOwner(m, y)
  <2>1. HasOwner(k, y)
    BY <1>1 DEF MutexHeld
  <2>2. y = x => k.waiters[y] = <<>>
    BY <2>1 DEF HasOwner
  <2> QED BY <1>5, <1>7, <2>1, <2>2 DEF HasOwner
<1>9. OwnerType(m) /\ CallsType(m)
  BY <1>1, <1>3, <1>5, <1>6 DEF MutexHeld, OwnerType, CallsType
<1>10. MutexHeld(m)
  <2>1. "owner" \in DOMAIN m
    BY <1>2, <1>3 DEF SameBut
  <2>2. ListsFit => \A j \in Process : m.op[j] = NoOp \/ Waits(m, j)
    BY <1>1, <1>5 DEF MutexHeld, Waits
  <2> QED BY <1>1, <1>4, <1>5, <1>8, <1>9, <2>1, <2>2 DEF MutexHeld
<1>11. NothingOwed(m)
  <2>1. ASSUME NEW j \in Process, Owned(m, j) = {}
        PROVE  Owned(k, j) = {}
    <3>1. j # NoProcess
      BY ConfigAssumption DEF Process, NoProcess
    <3> QED BY <1>7, <2>1, <3>1 DEF Owned
  <2> QED BY <1>1, <1>5, <2>1 DEF NothingOwed
<1> QED BY <1>3, <1>5, <1>10, <1>11 DEF MutexOk, m

LEMMA BlockCurrentPriority ==
  ASSUME NEW k, "priority" \in DOMAIN k, NEW i, NEW o, NEW wake, NEW op
  PROVE  BlockCurrent(k, i, o, wake, op).priority = k.priority
<1> DEFINE waits == [[k EXCEPT !.op[i] = op] EXCEPT !.waiters[o] = Append(@, i),
                                                    !.waitlist[i] = o, !.wake[i] = wake]
           p == PartitionOf[i]
<1>1. waits.priority = k.priority /\ "priority" \in DOMAIN waits
  OBVIOUS
<1> HIDE DEF waits
<1>2. BlockAndDispatch(waits, p, i).priority = waits.priority
  BY <1>1 DEF BlockAndDispatch, Run, SetState, PopBest
<1>3. \A y : [k EXCEPT !.op[i] = y].priority = k.priority
  OBVIOUS
<1>4. BlockCurrent(k, i, o, wake, op) \in
        {k, [k EXCEPT !.op[i] = op], [k EXCEPT !.op[i] = NoOp],
         BlockAndDispatch(waits, p, i)}
  BY DEF BlockCurrent, waits
<1> QED BY <1>1, <1>2, <1>3, <1>4

\* The call that does not block leaves its operation behind only if the list
\* was full, which no list is that fits its partition.
LEMMA LeftBehind ==
  ASSUME NEW k, MutexOk(k), NEW x \in MutexId, NEW i \in Process,
         k.state[i] = "RUNNING", PartitionOf[i] = MutexPartition[x],
         NEW wake, BlockCurrentStatus(k, i, x) # "OK"
  PROVE  LET m == BlockCurrent(k, i, x, wake, LockOp(x)) IN
         m.op[i] \in Ops /\ (ListsFit => m.op[i] = NoOp)
<1> DEFINE m == BlockCurrent(k, i, x, wake, LockOp(x))
<1>1. MutexHeld(k) /\ Sound(k) /\ x \in WaitList
  BY MutexLists DEF MutexOk, MutexHeld
<1>2. k.op \in [Process -> Ops] /\ "op" \in DOMAIN k
  BY <1>1, HeldFields DEF MutexHeld, CallsType, WaitFieldNames
<1>3. \A y : [k EXCEPT !.op[i] = y].op[i] = y
  BY <1>2
<1>4. m = IF BlockCurrentStatus(k, i, x) = "POOL_FULL"
          THEN [k EXCEPT !.op[i] = LockOp(x)] ELSE [k EXCEPT !.op[i] = NoOp]
  BY DEF BlockCurrent
<1>5. m.op[i] = IF BlockCurrentStatus(k, i, x) = "POOL_FULL" THEN LockOp(x) ELSE NoOp
  BY <1>3, <1>4
<1>6. m.op[i] \in Ops
  BY <1>5 DEF Ops
<1>7. ASSUME ListsFit
      PROVE  BlockCurrentStatus(k, i, x) # "POOL_FULL"
  <2> DEFINE s == k.waiters[x]
             p == MutexPartition[x]
  <2>1. s \in Seq(Process) /\ NoRepeats(s)
    BY <1>1 DEF Sound, IpcType, WaitsSound
  <2>2. ~IsIn(s, i)
    BY <1>1, OnNoList
  <2>3. p \in Partition /\ i \in Members(p)
    BY MutexAssumption DEF Members
  <2>4. \A j \in Process : IsIn(s, j) => j \in Members(p)
    BY <1>1 DEF MutexHeld, HasOwner, Members
  <2>5. Cardinality(Members(p)) <= WaitlistMax
    BY <1>7 DEF ListsFit
  <2> HIDE DEF s, p
  <2>6. Len(s) < Cardinality(Members(p)) /\ Cardinality(Members(p)) \in Nat
    BY <2>1, <2>2, <2>3, <2>4, ShorterThanMembers
  <2>7. Len(s) \in Nat /\ WaitlistMax \in Nat
    BY <2>1, LenProperties, IpcAssumption
  <2>8. ~(Len(s) >= WaitlistMax)
    BY <2>5, <2>6, <2>7
  <2>9. BlockStatus(k, PartitionOf[i], i) # "POOL_FULL"
    BY DEF BlockStatus
  <2> QED BY <2>8, <2>9 DEF BlockCurrentStatus, s
<1> QED BY <1>5, <1>6, <1>7

\* A lock of a mutex that another process owns.
Locked(k, m) == MutexOk(m) /\ m.owner = k.owner

LEMMA BlockOnLockOk ==
  ASSUME NEW k, MutexOk(k), NEW x \in MutexId, NEW i \in Process,
         k.state[i] = "RUNNING", PartitionOf[i] = MutexPartition[x],
         k.owner[x] \in Process \ {i}, NEW wake \in {Armed, NoTick},
         BlockCurrentStatus(k, i, x) = "OK"
  PROVE  Locked(k, BlockCurrent(k, i, x, wake, LockOp(x)))
<1> DEFINE m == BlockCurrent(k, i, x, wake, LockOp(x))
<1>1. MutexHeld(k) /\ Sound(k) /\ x \in WaitList /\ NothingOwed(k) /\ CallsType(k)
  BY MutexLists DEF MutexOk, MutexHeld
<1>2. k = [y \in DOMAIN k |-> k[y]]
      /\ TableFields \cup WaitFieldNames \cup {"owner"} \subseteq DOMAIN k
  BY <1>1, HeldFields
<1>3. OnList(k, m, i, x, wake, LockOp(x))
  BY <1>1, BlockCurrentSound
<1>4. m.priority = k.priority
  BY <1>2, BlockCurrentPriority DEF TableFields
<1> HIDE DEF m
<1>5. /\ Sound(m) /\ SameBut(k, m, TableFields \cup {"waiters", "waitlist", "wake", "op"})
      /\ m.halted = k.halted
      /\ \A j \in Process : m.state[j] = "BLOCKED" <=> k.state[j] = "BLOCKED" \/ j = i
  BY <1>3 DEF OnList, GivesWay
<1>6. m.owner = k.owner /\ m.result = k.result /\ "owner" \in DOMAIN m
  BY <1>2, <1>5 DEF SameBut, TableFields, WaitFieldNames
<1>7. CallsType(m)
  <2>1. /\ m.wake = [k.wake EXCEPT ![i] = wake]
        /\ m.op = [k.op EXCEPT ![i] = LockOp(x)]
    BY <1>3 DEF OnList
  <2>2. LockOp(x) \in Ops
    BY DEF Ops
  <2> QED BY <1>1, <1>6, <2>1, <2>2 DEF CallsType
<1>8. ASSUME NEW j \in Process
      PROVE  /\ m.waitlist[j] = IF j = i THEN x ELSE k.waitlist[j]
             /\ m.op[j] = IF j = i THEN LockOp(x) ELSE k.op[j]
  <2>1. /\ m.waitlist = [k.waitlist EXCEPT ![i] = x]
        /\ m.op = [k.op EXCEPT ![i] = LockOp(x)]
    BY <1>3 DEF OnList
  <2> QED BY <1>1, <2>1 DEF Sound, IpcType, CallsType
<1>9. ASSUME NEW y \in MutexId
      PROVE  HasOwner(m, y)
  <2>1. HasOwner(k, y) /\ y \in WaitList
    BY <1>1, MutexLists DEF MutexHeld
  <2>2. k.waiters \in [WaitList -> Seq(Process)]
    BY <1>1 DEF Sound, IpcType
  <2>3. m.waiters = [k.waiters EXCEPT ![x] = Append(@, i)]
    BY <1>3 DEF OnList
  <2>4. CASE y # x
    BY <1>6, <2>1, <2>2, <2>3, <2>4 DEF HasOwner
  <2>5. CASE y = x
    <3>1. k.waiters[x] \in Seq(Process) /\ NoRepeats(k.waiters[x])
      BY <1>1, <2>1, <2>2 DEF Sound, WaitsSound
    <3>2. ~IsIn(k.waiters[x], i)
      BY <1>1, OnNoList
    <3>3. \A j : IsIn(Append(k.waiters[x], i), j) <=> IsIn(k.waiters[x], j) \/ j = i
      BY <3>1, <3>2, AppendKeeps
    <3>4. m.waiters[x] = Append(k.waiters[x], i)
      BY <1>1, <2>2, <2>3
    <3>5. \A j \in Process : IsIn(k.waiters[x], j) => k.owner[x] # j
      <4>1. \A j \in Process : IsIn(k.waiters[x], j) => k.waiters[x] # <<>>
        BY <3>1, EmptyIffNone
      <4> QED BY <2>1, <2>5, <4>1 DEF HasOwner
    <3>6. k.owner[x] # NoProcess
      BY ConfigAssumption DEF Process, NoProcess
    <3> QED BY <1>6, <2>1, <2>5, <3>3, <3>4, <3>5, <3>6 DEF HasOwner
  <2> QED BY <2>4, <2>5
<1>10. ASSUME ListsFit, NEW j \in Process
       PROVE  m.op[j] = NoOp \/ Waits(m, j)
  <2>1. k.op[j] = NoOp \/ Waits(k, j)
    BY <1>1, <1>10 DEF MutexHeld
  <2>2. x # NoList
    BY <1>1, IpcAssumption DEF WaitList, NoList
  <2> QED BY <1>5, <1>8, <2>1, <2>2 DEF Waits
<1>11. MutexHeld(m)
  <2>1. OwnerType(m)
    BY <1>1, <1>6 DEF MutexHeld, OwnerType
  <2>2. \A p \in Partition : ~m.halted[p]
    BY <1>1, <1>5 DEF MutexHeld
  <2> QED BY <1>5, <1>6, <1>7, <1>9, <1>10, <2>1, <2>2 DEF MutexHeld
<1>12. NothingOwed(m)
  BY <1>1, <1>4, <1>6 DEF NothingOwed, Owned
<1> QED BY <1>6, <1>11, <1>12 DEF Locked, MutexOk, m

LEMMA NotBlockedOk ==
  ASSUME NEW k, MutexOk(k), NEW x \in MutexId, NEW i \in Process,
         k.state[i] = "RUNNING", PartitionOf[i] = MutexPartition[x],
         NEW wake, BlockCurrentStatus(k, i, x) # "OK"
  PROVE  Locked(k, BlockCurrent(k, i, x, wake, LockOp(x)))
<1> DEFINE m == BlockCurrent(k, i, x, wake, LockOp(x))
<1>1. MutexHeld(k) /\ Sound(k) /\ x \in WaitList /\ NothingOwed(k) /\ CallsType(k)
  BY MutexLists DEF MutexOk, MutexHeld
<1>2. k = [y \in DOMAIN k |-> k[y]]
      /\ TableFields \cup WaitFieldNames \cup {"owner"} \subseteq DOMAIN k
  BY <1>1, HeldFields
<1>3. NotBlocked(k, m, i)
  BY <1>1, BlockCurrentSound
<1>4. m.op[i] \in Ops /\ (ListsFit => m.op[i] = NoOp)
  BY LeftBehind
<1> HIDE DEF m
<1>5. Sound(m) /\ SameBut(k, m, {"op"}) /\ m.op = [k.op EXCEPT ![i] = m.op[i]]
  BY <1>3 DEF NotBlocked
<1>6. /\ m.state = k.state /\ m.waiters = k.waiters /\ m.waitlist = k.waitlist
      /\ m.wake = k.wake /\ m.result = k.result /\ m.owner = k.owner
      /\ m.halted = k.halted /\ m.priority = k.priority /\ "owner" \in DOMAIN m
  BY <1>2, <1>5 DEF SameBut, TableFields, WaitFieldNames
<1>7. OwnerType(m) /\ CallsType(m)
  <2>1. m.op \in [Process -> Ops]
    BY <1>1, <1>4, <1>5 DEF CallsType
  <2> QED BY <1>1, <1>6, <2>1 DEF MutexHeld, OwnerType, CallsType
<1>8. ASSUME ListsFit, NEW j \in Process
      PROVE  m.op[j] = NoOp \/ Waits(m, j)
  <2>1. k.op[j] = NoOp \/ Waits(k, j)
    BY <1>1, <1>8 DEF MutexHeld
  <2>2. CASE j = i
    BY <1>4, <1>8, <2>2
  <2>3. CASE j # i
    <3>1. m.op[j] = k.op[j]
      BY <1>1, <1>5, <2>3 DEF CallsType
    <3> QED BY <1>6, <2>1, <3>1 DEF Waits
  <2> QED BY <2>2, <2>3
<1>9. MutexHeld(m)
  <2>1. \A y \in MutexId : HasOwner(m, y)
    BY <1>1, <1>6 DEF MutexHeld, HasOwner
  <2>2. \A p \in Partition : ~m.halted[p]
    BY <1>1, <1>6 DEF MutexHeld
  <2> QED BY <1>5, <1>6, <1>7, <1>8, <2>1, <2>2 DEF MutexHeld
<1>10. NothingOwed(m)
  BY <1>1, <1>6 DEF NothingOwed, Owned
<1> QED BY <1>6, <1>9, <1>10 DEF Locked, MutexOk, m

\* A walk that begins at the owner of a mutex.
LEMMA WalkFromOwner ==
  ASSUME NEW k, MutexOk(k), NEW x \in MutexId, k.owner[x] \in Process,
         NEW claim \in Priority \cup {NoClaim}
  PROVE  LET m == RefreshChain(k, k.owner[x], claim) IN
         Locked(k, m) /\ m.state = k.state
<1> DEFINE a == k.owner[x]
           m == RefreshChain(k, a, claim)
<1>1. MutexHeld(k) /\ WalkOk(k) /\ NothingOwed(k)
  BY HeldFields DEF MutexOk
<1>2. Owned(k, a) # {} /\ OwedBut(k, a)
  BY <1>1 DEF Owned, OwedBut, NothingOwed
<1>3. Walked(k, m, a)
  BY <1>1, <1>2, ChainWalks
<1> HIDE DEF m
<1>4. MutexHeld(m) /\ m.owner = k.owner /\ m.state = k.state
  BY <1>1, <1>3, ReprioritisedHeld DEF Walked
<1> QED BY <1>3, <1>4 DEF Locked, MutexOk, Walked, m

LEMMA LockBusyOk ==
  ASSUME NEW k, MutexOk(k), NEW x \in MutexId, NEW i \in Process,
         k.state[i] = "RUNNING", PartitionOf[i] = MutexPartition[x],
         k.owner[x] \in Process \ {i}, NEW wake \in {Armed, NoTick}
  PROVE  Locked(k, LockBusy(k, i, x, wake))
<1> DEFINE l == RefreshChain(k, k.owner[x], k.priority[i])
           n == BlockCurrent(l, i, x, wake, LockOp(x))
           m == BlockOnLock(l, i, x, wake)
<1>1. k.priority[i] \in Priority
  BY SoundTypes DEF MutexOk, MutexHeld
<1>2. Locked(k, l) /\ l.state = k.state
  BY <1>1, WalkFromOwner
<1>3. LockBusy(k, i, x, wake) = m
  BY DEF LockBusy
<1> HIDE DEF l
<1>4. MutexOk(l) /\ l.owner = k.owner
  BY <1>2 DEF Locked
<1>5. Locked(l, n)
  BY <1>2, <1>4, BlockOnLockOk, NotBlockedOk
<1>6. m = IF BlockCurrentStatus(l, i, x) = "OK" THEN n
          ELSE RefreshChain(n, l.owner[x], NoClaim)
  BY DEF BlockOnLock
<1> HIDE DEF n, m
<1>7. MutexOk(n) /\ n.owner = k.owner
  BY <1>4, <1>5 DEF Locked
<1>8. Locked(n, RefreshChain(n, n.owner[x], NoClaim))
  BY <1>7, WalkFromOwner
<1> QED BY <1>3, <1>4, <1>6, <1>7, <1>8 DEF Locked

-----------------------------------------------------------------------------
(* Steps.                                                                  *)

CpuIs(k, c) == c = NoProcess \/ (c \in Process /\ k.current[PartitionOf[c]] = c)
CpuOk == CpuIs(sys, cpu)

IInv == MutexOk(sys) /\ CpuOk

LEMMA CallerRuns ==
  ASSUME IInv, cpu # NoProcess
  PROVE  cpu \in Process /\ sys.state[cpu] = "RUNNING" /\ PartitionOf[cpu] \in Partition
<1>1. cpu \in Process /\ sys.current[PartitionOf[cpu]] = cpu
  BY DEF IInv, CpuOk, CpuIs
<1>2. sys.state[cpu] = "RUNNING"
  BY <1>1, SoundTypes DEF IInv, MutexOk, MutexHeld
<1> QED BY <1>1, <1>2, ConfigAssumption

LEMMA CurrentIs ==
  ASSUME NEW k, MutexOk(k), NEW p \in Partition
  PROVE  k.current[p] \in Process \cup {NoProcess} /\ CpuIs(k, k.current[p])
<1>1. /\ k.current \in [Partition -> Process \cup {NoProcess}]
      /\ \A r \in Partition : k.current[r] # NoProcess => PartitionOf[k.current[r]] = r
  <2>1. Sound(k)
    BY DEF MutexOk, MutexHeld
  <2> QED BY <2>1, SoundTypes
<1>2. k.current[p] # NoProcess =>
        k.current[p] \in Process /\ PartitionOf[k.current[p]] = p
  BY <1>1
<1> QED BY <1>1, <1>2 DEF CpuIs

\* The table l has been made and the CPU goes to what it says.
Ends(l) ==
  /\ MutexOk(sys') /\ Passes(l, sys') /\ CpuIs(sys', cpu')
  /\ sys'.owner = l.owner /\ sys'.priority = l.priority /\ sys'.op = l.op
  /\ \A j \in Process : sys'.result[j] \in {l.result[j], NoResult}

LEMMA SwitchEnds ==
  ASSUME NEW l, MutexOk(l), cpu' \in Process \cup {NoProcess}, CpuIs(l, cpu'),
         sys' = l \/ sys' = Deliver(l, cpu')
  PROVE  Ends(l)
<1>1. CASE sys' = l
  BY <1>1, GoesNowhere DEF Ends, Goes
<1>2. CASE sys' = Deliver(l, cpu')
  BY <1>2, DeliverCalm DEF Ends, Calm, CpuIs
<1> QED BY <1>1, <1>2

LEMMA ResumeEnds ==
  ASSUME NEW l, MutexOk(l), NEW p \in Partition, Resume(l, p)
  PROVE  Ends(l)
<1>1. cpu' = l.current[p] /\ (sys' = l \/ sys' = Deliver(l, cpu'))
  BY DEF Resume
<1>2. l.current[p] \in Process \cup {NoProcess} /\ CpuIs(l, l.current[p])
  BY CurrentIs
<1> QED BY <1>1, <1>2, SwitchEnds

LEMMA CalmEnds ==
  ASSUME NEW k, MutexOk(k), NEW l, Calm(k, l), l.op = k.op, l.result = k.result, Ends(l)
  PROVE  Ends(k)
<1>1. Passes(k, sys')
  BY PassesThen DEF Calm, Ends, MutexOk, MutexHeld
<1> QED BY <1>1 DEF Calm, Ends

LEMMA ReturnEnds ==
  ASSUME IInv, cpu # NoProcess, NEW k, MutexOk(k), Return(k)
  PROVE  Ends(k)
<1>1. PICK l \in {PreemptCheck(k, cpu)} : Resume(l, PartitionOf[cpu])
  BY DEF Return
<1>2. PartitionOf[cpu] \in Partition
  BY CallerRuns
<1>3. l = k \/ l = PartitionSelect(k, PartitionOf[cpu], FALSE)
  BY <1>1 DEF PreemptCheck, PartitionDispatch
<1>4. CASE l = k
  BY <1>1, <1>2, <1>4, ResumeEnds
<1>5. CASE l # k
  <2>1. Calm(k, l) /\ l.op = k.op /\ l.result = k.result
    BY <1>2, <1>3, <1>5, SelectCalm
  <2>2. Ends(l)
    BY <1>1, <1>2, <2>1, ResumeEnds DEF Calm
  <2> QED BY <2>1, <2>2, CalmEnds
<1> QED BY <1>4, <1>5

\* A mutex changes hands to a waiter, or is taken by the caller if it is free.
ChangesHands(x) ==
  LET new == sys'.owner[x] IN
  new # sys.owner[x] /\ new # NoProcess =>
    IF sys.owner[x] = NoProcess THEN new = cpu
    ELSE new \in Waiters(sys, x) /\ ~Waits(sys', new)

SysStep ==
  /\ MutexOk(sys') /\ CpuIs(sys', cpu')
  /\ \A x \in MutexId : ChangesHands(x)

LEMMA PassesSteps ==
  ASSUME MutexOk(sys'), CpuIs(sys', cpu'), Passes(sys, sys')
  PROVE  SysStep
BY DEF SysStep, ChangesHands, Passes, Waiters

\* A table that the handler has made without starting a wait.
LEMMA GoesSteps ==
  ASSUME IInv, NEW k, Goes(sys, k), Ends(k)
  PROVE  SysStep
<1>1. Passes(sys, sys')
  BY PassesThen DEF IInv, Goes, Ends, MutexOk, MutexHeld
<1> QED BY <1>1, PassesSteps DEF Ends

\* An unlock, and whom the mutex goes to.
LEMMA UnlockSteps ==
  ASSUME IInv, NEW m \in MutexId, Unlock(m)
  PROVE  /\ SysStep
         /\ sys'.owner[m] # NoProcess => FirstOfBest(sys, m, sys'.owner[m])
<1>1. PICK k : k = HandOff(sys, m) /\ Return(k)
  BY DEF Unlock
<1>2. cpu # NoProcess /\ sys.owner[m] = cpu /\ cpu \in Process /\ MutexOk(sys)
  BY CallerRuns DEF Unlock, IInv
<1>3. HandedOver(sys, k, m, cpu)
  BY <1>1, <1>2, HandOffSound
<1>4. Goes(sys, k) /\ k.owner = [sys.owner EXCEPT ![m] = HeirOf(sys, m)]
  BY <1>3 DEF HandedOver, PassedOn, Goes
<1>5. Ends(k)
  BY <1>1, <1>2, <1>4, ReturnEnds DEF Goes
<1>6. SysStep
  BY <1>4, <1>5, GoesSteps
<1>7. sys'.owner[m] = HeirOf(sys, m)
  BY <1>2, <1>4, <1>5 DEF MutexOk, MutexHeld, OwnerType, Ends
<1>8. ASSUME HeirOf(sys, m) # NoProcess
      PROVE  FirstOfBest(sys, m, HeirOf(sys, m))
  <2>1. sys.waiters[m] # <<>>
    BY <1>8 DEF HeirOf
  <2> QED BY <1>2, <2>1, HeirComesFirst
<1> QED BY <1>6, <1>7, <1>8

LEMMA LockSteps ==
  ASSUME IInv, NEW m \in MutexId, NEW wake \in {Armed, NoTick}, Lock(m, wake)
  PROVE  SysStep
<1>1. PICK k : /\ k = IF sys.owner[m] = NoProcess THEN [sys EXCEPT !.owner[m] = cpu]
                      ELSE LockBusy(sys, cpu, m, wake)
               /\ Return(k)
  BY DEF Lock
<1>2. /\ cpu # NoProcess /\ MutexPartition[m] = PartitionOf[cpu] /\ sys.owner[m] # cpu
      /\ cpu \in Process /\ sys.state[cpu] = "RUNNING" /\ MutexOk(sys)
  BY CallerRuns DEF Lock, IInv
<1>3. sys.owner \in [MutexId -> Process \cup {NoProcess}]
  BY <1>2 DEF MutexOk, MutexHeld, OwnerType
<1>4. CASE sys.owner[m] = NoProcess
  <2>1. MutexOk(k) /\ k.owner = [sys.owner EXCEPT ![m] = cpu]
    BY <1>1, <1>2, <1>4, LockFreeOk
  <2>2. Ends(k)
    BY <1>1, <1>2, <2>1, ReturnEnds
  <2>3. \A x \in MutexId : sys'.owner[x] = IF x = m THEN cpu ELSE sys.owner[x]
    BY <1>3, <2>1, <2>2 DEF Ends
  <2> QED BY <1>4, <2>2, <2>3 DEF SysStep, Ends, ChangesHands
<1>5. CASE sys.owner[m] # NoProcess
  <2>1. sys.owner[m] \in Process \ {cpu}
    BY <1>2, <1>3, <1>5
  <2>2. Locked(sys, k)
    BY <1>1, <1>2, <1>5, <2>1, LockBusyOk
  <2>3. MutexOk(k) /\ k.owner = sys.owner
    BY <2>2 DEF Locked
  <2>4. Ends(k)
    BY <1>1, <1>2, <2>3, ReturnEnds
  <2> QED BY <2>3, <2>4 DEF SysStep, Ends, ChangesHands
<1> QED BY <1>4, <1>5

LEMMA WaitSteps ==
  ASSUME IInv, Wait
  PROVE  SysStep
<1>1. PICK k : k = [Sleep(sys, cpu) EXCEPT !.wake[cpu] = Armed]
               /\ Resume(k, PartitionOf[cpu])
  BY DEF Wait
<1>2. cpu \in Process /\ sys.state[cpu] = "RUNNING" /\ PartitionOf[cpu] \in Partition
      /\ MutexOk(sys)
  BY CallerRuns DEF Wait, IInv
<1>3. Calm(sys, k)
  BY <1>1, <1>2, SleepCalm
<1>4. Goes(sys, k)
  BY <1>3 DEF Calm, Goes
<1>5. Ends(k)
  BY <1>1, <1>2, <1>4, ResumeEnds DEF Goes
<1> QED BY <1>4, <1>5, GoesSteps

LEMMA YieldSteps ==
  ASSUME IInv, Yield
  PROVE  SysStep
<1>1. PICK k : k = PartitionSelect(sys, PartitionOf[cpu], TRUE)
               /\ Resume(k, PartitionOf[cpu])
  BY DEF Yield, PartitionYield
<1>2. PartitionOf[cpu] \in Partition /\ MutexOk(sys)
  BY CallerRuns DEF Yield, IInv
<1>3. Calm(sys, k)
  BY <1>1, <1>2, SelectCalm
<1>4. Goes(sys, k)
  BY <1>3 DEF Calm, Goes
<1>5. Ends(k)
  BY <1>1, <1>2, <1>4, ResumeEnds DEF Goes
<1> QED BY <1>4, <1>5, GoesSteps

\* What a fault leaves to the process that made it.
Forgets(i) ==
  /\ Owned(sys', i) = {} /\ sys'.priority[i] = BasePriority[i]
  /\ sys'.op[i] = sys.op[i] /\ sys'.result[i] = NoResult
  /\ \A m \in Owned(sys, i) : sys'.owner[m] = NoProcess <=> sys.waiters[m] = <<>>

LEMMA FaultSteps ==
  ASSUME IInv, Fault
  PROVE  /\ SysStep /\ Forgets(cpu)
         /\ \A m \in MutexId :
              sys'.owner[m] # sys.owner[m] /\ sys'.owner[m] # NoProcess =>
                FirstOfBest(sys, m, sys'.owner[m])
<1> DEFINE l == Restart(sys, cpu)
<1>1. PICK k : /\ k = PartitionSelect(l, PartitionOf[cpu], TRUE)
               /\ cpu' = k.current[PartitionOf[cpu]] /\ sys' = Deliver(k, cpu')
  BY DEF Fault, PartitionYield
<1>2. cpu \in Process /\ sys.state[cpu] = "RUNNING" /\ PartitionOf[cpu] \in Partition
      /\ MutexOk(sys)
  BY CallerRuns DEF Fault, IInv
<1>3. Restarted(sys, l, cpu)
  BY <1>2, RestartSound
<1> HIDE DEF l
<1>4. Goes(sys, l)
  BY <1>3 DEF Restarted, Goes
<1>5. Calm(l, k) /\ k.op = l.op /\ k.result = l.result /\ MutexOk(k)
  BY <1>1, <1>2, <1>4, SelectCalm DEF Goes, Calm
<1>6. Ends(k)
  <2>1. cpu' \in Process \cup {NoProcess} /\ CpuIs(k, cpu')
    BY <1>1, <1>2, <1>5, CurrentIs
  <2> QED BY <1>1, <1>5, <2>1, SwitchEnds
<1>7. Ends(l)
  BY <1>4, <1>5, <1>6, CalmEnds DEF Goes
<1>8. SysStep
  BY <1>4, <1>7, GoesSteps
<1>9. /\ sys'.owner = l.owner /\ sys'.priority = l.priority /\ sys'.op = l.op
      /\ sys'.result[cpu] \in {l.result[cpu], NoResult}
  BY <1>2, <1>7 DEF Ends
<1>10. /\ Owned(l, cpu) = {} /\ l.priority[cpu] = BasePriority[cpu]
       /\ l.op[cpu] = sys.op[cpu] /\ l.result[cpu] = NoResult
       /\ \A m \in MutexId : IF sys.owner[m] = cpu THEN GivenUp(sys, l, m, cpu)
                             ELSE l.owner[m] = sys.owner[m]
  BY <1>2, <1>3 DEF Restarted
<1>11. Forgets(cpu)
  BY <1>9, <1>10 DEF Forgets, Owned, GivenUp
<1>12. ASSUME NEW m \in MutexId, sys'.owner[m] # sys.owner[m], sys'.owner[m] # NoProcess
       PROVE  FirstOfBest(sys, m, sys'.owner[m])
  BY <1>2, <1>9, <1>10, <1>12 DEF GivenUp
<1> QED BY <1>8, <1>11, <1>12

LEMMA TickSteps ==
  ASSUME IInv, NEW p \in Partition, NEW due, NEW missed, Tick(p, due, missed)
  PROVE  SysStep
<1> DEFINE h == HandleMisses(sys, cpu, missed)
           e == ExpireLocks(h.table, due)
           k == ReleaseWaits(e, due)
           l == PartitionSelect(k, p, FALSE)
<1>1. /\ cpu' = IF SelectStatus(k, p, FALSE) = "OK" THEN l.current[p] ELSE NoProcess
      /\ sys' = IF cpu' = h.cpu THEN l ELSE Deliver(l, cpu')
  BY DEF Tick, PartitionDispatch
<1>2. MutexOk(sys) /\ Goes(sys, h.table)
  BY HandleMissesGoes DEF IInv
<1> HIDE DEF h
<1>3. Goes(h.table, e)
  BY <1>2, ExpireLocksGoes DEF Goes
<1> HIDE DEF e
<1>4. Goes(e, k)
  BY <1>3, ReleaseWaitsGoes DEF Goes
<1> HIDE DEF k
<1>5. Calm(k, l)
  BY <1>4, SelectCalm DEF Goes
<1> HIDE DEF l
<1>6. Goes(k, l)
  BY <1>5 DEF Calm, Goes
<1>7. Goes(sys, l)
  <2>1. Goes(sys, e)
    BY <1>2, <1>3, GoesThen
  <2>2. Goes(sys, k)
    BY <1>2, <1>4, <2>1, GoesThen
  <2> QED BY <1>2, <1>6, <2>2, GoesThen
<1>8. Ends(l)
  <2>1. MutexOk(l)
    BY <1>7 DEF Goes
  <2>2. cpu' \in Process \cup {NoProcess} /\ CpuIs(l, cpu')
    BY <1>1, <2>1, CurrentIs DEF CpuIs
  <2> QED BY <1>1, <2>1, <2>2, SwitchEnds
<1> QED BY <1>7, <1>8, GoesSteps

LEMMA VarsSteps ==
  ASSUME IInv, [Next]_vars
  PROVE  SysStep
<1>1. CASE Next
  <2>1. CASE \E m \in MutexId : Unlock(m)
    BY <2>1, UnlockSteps
  <2>2. CASE \E m \in MutexId : \E wake \in {Armed, NoTick} : Lock(m, wake)
    BY <2>2, LockSteps
  <2>3. CASE Wait
    BY <2>3, WaitSteps
  <2>4. CASE Yield
    BY <2>4, YieldSteps
  <2>5. CASE Fault
    BY <2>5, FaultSteps
  <2>6. CASE \E p \in Partition, due, missed \in SUBSET Process : Tick(p, due, missed)
    BY <2>6, TickSteps
  <2> QED BY <1>1, <2>1, <2>2, <2>3, <2>4, <2>5, <2>6 DEF Next
<1>2. CASE UNCHANGED vars
  <2>1. sys' = sys /\ cpu' = cpu
    BY <1>2 DEF vars
  <2> QED BY <2>1, GoesNowhere DEF SysStep, IInv, CpuOk, ChangesHands
<1> QED BY <1>1, <1>2

\* Before its first dispatch the table owes nobody anything.
LEMMA BootOk ==
  LET k == Merge(Merge(Registered, WaitFields),
                 [owner |-> [m \in MutexId |-> NoProcess]]) IN
  /\ MutexOk(k) /\ k.owner = [m \in MutexId |-> NoProcess]
  /\ k.priority = BasePriority /\ k.state = [i \in Process |-> "READY"]
<1> DEFINE g == [owner |-> [m \in MutexId |-> NoProcess]]
           k == Merge(Merge(Registered, WaitFields), g)
<1>1. DOMAIN g = {"owner"} /\ g.owner = [m \in MutexId |-> NoProcess]
  OBVIOUS
<1> HIDE DEF g
<1>2. Sound(k) /\ AtBoot(k, g)
  BY <1>1, BootSound DEF TableFields, WaitFieldNames
<1> HIDE DEF k
<1>3. /\ k.state = [i \in Process |-> "READY"] /\ k.priority = BasePriority
      /\ k.halted = [p \in Partition |-> FALSE]
      /\ k.waiters = [o \in WaitList |-> <<>>]
      /\ k.wake = [i \in Process |-> NoTick]
      /\ k.op = [i \in Process |-> NoOp] /\ k.result = [i \in Process |-> NoResult]
      /\ "owner" \in DOMAIN k /\ k.owner = [m \in MutexId |-> NoProcess]
  BY <1>1, <1>2 DEF AtBoot
<1>4. CallsType(k) /\ OwnerType(k)
  BY <1>3 DEF CallsType, OwnerType, Ops, Results
<1>5. \A m \in MutexId : HasOwner(k, m)
  <2>1. \A i : ~IsIn(<<>>, i)
    BY DEF IsIn
  <2> QED BY <1>3, <2>1, MutexLists DEF HasOwner
<1>6. MutexOk(k)
  BY <1>2, <1>3, <1>4, <1>5 DEF MutexOk, MutexHeld, NothingOwed
<1> QED BY <1>3, <1>6 DEF k, g

LEMMA InitOk ==
  ASSUME Init
  PROVE  IInv
<1>1. 0 \in Partition /\ cpu = sys.current[0]
      /\ sys = PartitionSelect(Merge(Merge(Registered, WaitFields),
                 [owner |-> [m \in MutexId |-> NoProcess]]), 0, FALSE)
  BY ConfigAssumption DEF Init, Partition, PartitionDispatch
<1>2. MutexOk(sys)
  BY <1>1, BootOk, SelectCalm DEF Calm
<1>3. CpuOk
  BY <1>1, <1>2, CurrentIs DEF CpuOk
<1> QED BY <1>2, <1>3 DEF IInv

-----------------------------------------------------------------------------
(* What a process is owed.  A walk lowers the priorities along a chain of  *)
(* owners, or raises them; either way it ends with every process on the    *)
(* chain at the best of its own priority and those of its waiters, because *)
(* a walk of NumMutexes + 1 hops leaves the chain or comes back to a       *)
(* process that it has been at.                                            *)

\* The processes that wait for a mutex of i.
WaitersOf(k, i) == {w \in Process : \E m \in Owned(k, i) : IsIn(k.waiters[m], w)}

\* q is the best of the priority of i, a claim and those of its waiters.
Demanded(k, i, claim, q) ==
  /\ q \in Priority /\ q <= claim /\ q <= BasePriority[i]
  /\ \A w \in WaitersOf(k, i) : q <= k.priority[w]
  /\ q = BasePriority[i] \/ q = claim \/ \E w \in WaitersOf(k, i) : q = k.priority[w]

LEMMA WantedExact ==
  ASSUME NEW k, WalkOk(k), NEW i \in Process, NEW claim \in Priority \cup {NoClaim}
  PROVE  Demanded(k, i, claim, WantedPriority(k, i, claim))
<1> DEFINE ofWaiters == {k.priority[w] : w \in UNION {Waiters(k, m) : m \in Owned(k, i)}}
           demands == {BasePriority[i], claim} \cup ofWaiters
           q == WantedPriority(k, i, claim)
<1>1. k.priority \in [Process -> Priority]
  BY DEF WalkOk, Consistent, TableType, TablePart
<1>2. BasePriority[i] \in Priority /\ MaxPriority \in Nat
  BY ConfigAssumption
<1>3. ofWaiters = {k.priority[w] : w \in WaitersOf(k, i)}
  <2>1. UNION {Waiters(k, m) : m \in Owned(k, i)} = WaitersOf(k, i)
    BY DEF Waiters, WaitersOf
  <2> QED BY <2>1
<1>4. demands \subseteq Nat /\ BasePriority[i] \in demands /\ claim \in demands
  BY <1>1, <1>2, <1>3 DEF Priority, NoClaim, WaitersOf
<1>5. q = CHOOSE x \in demands : \A r \in demands : x <= r
  BY DEF WantedPriority
<1>6. q \in demands /\ \A r \in demands : q <= r
  <2> HIDE DEF demands, q
  <2>1. \E x \in demands : \A r \in demands : x <= r
    BY <1>4, BestExists
  <2> QED BY <1>5, <2>1
<1>7. q \in Priority
  BY WantedIs
<1>8. q = BasePriority[i] \/ q = claim \/ \E w \in WaitersOf(k, i) : q = k.priority[w]
  <2> HIDE DEF q
  <2> QED BY <1>3, <1>6
<1>9. \A w \in WaitersOf(k, i) : q <= k.priority[w]
  <2>1. \A w \in WaitersOf(k, i) : k.priority[w] \in demands
    BY <1>3
  <2> HIDE DEF demands, q
  <2> QED BY <1>6, <2>1
<1> HIDE DEF demands, q
<1> QED BY <1>4, <1>6, <1>7, <1>8, <1>9 DEF Demanded, q

\* Who waits for whom is what the walk follows: from a waiter to the owner it
\* waits for, and on only from processes that are on a list, but for process x
\* which owns nothing.
Linked(k, x) ==
  /\ x \in Process => Owned(k, x) = {}
  /\ \A i \in Process : \A w \in WaitersOf(k, i) : Onward(k, w) = i /\ w # i
  /\ \A w \in Process \ {x} :
       Onward(k, w) \in Process => w \in WaitersOf(k, Onward(k, w))

LEMMA LinkedKept ==
  ASSUME NEW k, WalkOk(k), NEW m, Reprioritised(k, m)
  PROVE  /\ \A i : WaitersOf(m, i) = WaitersOf(k, i)
         /\ \A i : Onward(m, i) = Onward(k, i)
BY WalkOkKept DEF WaitersOf, Onward

\* The owner that a process waits for owns a mutex.
LEMMA OnwardOwns ==
  ASSUME NEW k, WalkOk(k), NEW i \in Process, Onward(k, i) # NoProcess
  PROVE  /\ Onward(k, i) \in Process
         /\ \E m \in MutexId : k.owner[m] = Onward(k, i)
<1>1. k.op[i] \in Ops /\ k.op[i].kind = "MUTEX_LOCK" /\ Onward(k, i) = k.owner[k.op[i].id]
  BY DEF WalkOk, Onward
<1>2. k.op[i].id \in MutexId
  BY <1>1 DEF Ops, NoOp, LockOp
<1> QED BY <1>1, <1>2, OnwardIs

\* A sequence with few values, each of which determines the next, comes back to
\* a value that it has had.
LEMMA Revisits ==
  ASSUME NEW M \in Nat, NEW g, NEW h \in [1 .. M + 1 -> 0 .. M - 1],
         \A a, b \in 1 .. M + 1 : h[a] = h[b] => g[a] = g[b],
         \A a, b \in 1 .. M : g[a] = g[b] => g[a + 1] = g[b + 1]
  PROVE  \E j \in 1 .. M : g[j] = g[M + 1]
<1>1. \E a, b \in 1 .. M + 1 : a # b /\ h[a] = h[b]
  <2> DEFINE A == 1 .. M + 1
             B == 0 .. M - 1
  <2>1. /\ IsFiniteSet(A) /\ Cardinality(A) = M + 1
        /\ IsFiniteSet(B) /\ Cardinality(B) = M
    BY FS_Interval
  <2>2. Cardinality(B) < Cardinality(A)
    BY <2>1
  <2>3. h \in [A -> B]
    OBVIOUS
  <2> HIDE DEF A, B
  <2>4. ASSUME \A a, b \in A : h[a] = h[b] => a = b
        PROVE  FALSE
    <3>1. h \in Injection(A, B)
      BY <2>3, <2>4 DEF Injection, IsInjective
    <3>2. Cardinality(A) <= Cardinality(B)
      BY <2>1, <3>1, FS_Injection
    <3> QED BY <2>1, <3>2
  <2>5. \E a, b \in A : a # b /\ h[a] = h[b]
    BY <2>4
  <2> QED BY <2>5 DEF A
<1>2. PICK a, b \in 1 .. M + 1 : a < b /\ g[a] = g[b]
  BY <1>1
<1> DEFINE S == {t \in 0 .. M + 1 - b : g[a + t] = g[b + t]}
<1>3. M + 1 - b \in Nat /\ 0 \in S
  BY <1>2
<1>4. ASSUME NEW t \in 0 .. M + 1 - b, t \in S, t < M + 1 - b
      PROVE  t + 1 \in S
  <2>1. a + t \in 1 .. M /\ b + t \in 1 .. M /\ g[a + t] = g[b + t]
    BY <1>2, <1>4
  <2>2. g[(a + t) + 1] = g[(b + t) + 1]
    BY <2>1
  <2> QED BY <1>2, <1>4, <2>2
<1>5. 0 .. M + 1 - b \subseteq S
  <2> HIDE DEF S
  <2> QED BY <1>3, <1>4, UpToInduction
<1>6. g[a + (M + 1 - b)] = g[b + (M + 1 - b)]
  <2>1. M + 1 - b \in 0 .. M + 1 - b
    BY <1>3
  <2>2. M + 1 - b \in S
    BY <1>5, <2>1
  <2> QED BY <2>2
<1>7. a + (M + 1 - b) \in 1 .. M /\ b + (M + 1 - b) = M + 1
  BY <1>2
<1> QED BY <1>6, <1>7

-----------------------------------------------------------------------------
(* The hops of a walk. *)

\* g follows h in a walk over table k.
Hopped(k, h, g) ==
  /\ Reprioritised(k, g.table) /\ g.claim = NoClaim /\ g.at = Onward(k, h.at)
  /\ \E q : /\ Demanded(h.table, h.at, h.claim, q)
            /\ \A j \in Process :
                 g.table.priority[j] = IF j = h.at THEN q ELSE h.table.priority[j]

OnTheWay(k, h) ==
  /\ Reprioritised(k, h.table)
  /\ h.at \in Process \cup {NoProcess} /\ h.claim \in Priority \cup {NoClaim}

LEMMA HopIs ==
  ASSUME NEW k, WalkOk(k), NEW h, OnTheWay(k, h)
  PROVE  /\ OnTheWay(k, Hop(h))
         /\ IF h.at = NoProcess THEN Hop(h) = h ELSE Hopped(k, h, Hop(h))
<1>1. CASE h.at = NoProcess
  BY <1>1 DEF Hop
<1>2. CASE h.at # NoProcess
  <2> DEFINE t == h.table
             a == h.at
             q == WantedPriority(t, a, h.claim)
             m == SetProcessPriority(t, a, q)
  <2>1. Reprioritised(k, t) /\ a \in Process /\ h.claim \in Priority \cup {NoClaim}
    BY <1>2 DEF OnTheWay
  <2>2. WalkOk(t)
    BY <2>1, WalkOkKept
  <2>3. Demanded(t, a, h.claim, q)
    BY <2>1, <2>2, WantedExact
  <2>4. Hop(h) = [table |-> m, claim |-> NoClaim, at |-> Onward(m, a)]
    BY <1>2 DEF Hop, Arrive
  <2> HIDE DEF t, a, q
  <2>5. q \in Priority
    BY <2>3 DEF Demanded
  <2>6. Reprioritised(t, m) /\ m.priority = [t.priority EXCEPT ![a] = q]
    BY <2>1, <2>2, <2>5, SetPriorityIs DEF WalkOk
  <2> HIDE DEF m
  <2>7. Reprioritised(k, m)
    BY <2>1, <2>6, ReprioritisedThen DEF WalkOk, Extends
  <2>8. Onward(m, a) = Onward(k, a) /\ Onward(k, a) \in Process \cup {NoProcess}
    BY <2>1, <2>7, LinkedKept, OnwardIs
  <2>9. t.priority \in [Process -> Priority]
    BY <2>2 DEF WalkOk, Consistent, TableType, TablePart
  <2>10. \A j \in Process : m.priority[j] = IF j = a THEN q ELSE t.priority[j]
    BY <2>6, <2>9
  <2> QED BY <1>2, <2>3, <2>4, <2>7, <2>8, <2>10 DEF Hopped, OnTheWay, t, a
<1> QED BY <1>1, <1>2

\* The hops of a walk from process i over table k: where it is, and that it
\* never leaves NoProcess again.
Hops(k, f) ==
  \A n \in 0 .. NumMutexes :
    /\ OnTheWay(k, f[n]) /\ OnTheWay(k, f[n + 1])
    /\ IF f[n].at = NoProcess THEN f[n + 1] = f[n] ELSE Hopped(k, f[n], f[n + 1])

LEMMA ChainHops ==
  ASSUME NEW k, WalkOk(k), NEW i \in Process \cup {NoProcess},
         NEW claim \in Priority \cup {NoClaim}
  PROVE  \E f : /\ RefreshChain(k, i, claim) = f[NumMutexes + 1].table
                /\ f[0] = [table |-> k, claim |-> claim, at |-> i]
                /\ Hops(k, f)
<1>1. PICK f : /\ RefreshChain(k, i, claim) = f[NumMutexes + 1].table
               /\ f[0] = [table |-> k, claim |-> claim, at |-> i]
               /\ \A n \in 0 .. NumMutexes : f[n + 1] = Hop(f[n])
  BY ChainUnfolds
<1>2. NumMutexes \in Nat
  BY MutexAssumption
<1> DEFINE S == {n \in 0 .. NumMutexes : OnTheWay(k, f[n])}
<1>3. 0 \in S
  <2>1. Reprioritised(k, k)
    BY DEF Reprioritised, SameBut, WalkOk, Extends, KeepsReady
  <2> QED BY <1>1, <1>2, <2>1 DEF OnTheWay
<1>4. ASSUME NEW n \in 0 .. NumMutexes, n \in S, n < NumMutexes
      PROVE  n + 1 \in S
  <2>1. OnTheWay(k, f[n]) /\ f[n + 1] = Hop(f[n])
    BY <1>1, <1>4
  <2>2. OnTheWay(k, f[n + 1])
    BY <2>1, HopIs
  <2> QED BY <1>2, <1>4, <2>2
<1>5. 0 .. NumMutexes \subseteq S
  <2> HIDE DEF S
  <2> QED BY <1>2, <1>3, <1>4, UpToInduction
<1>6. Hops(k, f)
  <2> SUFFICES ASSUME NEW n \in 0 .. NumMutexes
               PROVE  /\ OnTheWay(k, f[n]) /\ OnTheWay(k, f[n + 1])
                      /\ IF f[n].at = NoProcess THEN f[n + 1] = f[n]
                         ELSE Hopped(k, f[n], f[n + 1])
    BY DEF Hops
  <2>1. OnTheWay(k, f[n]) /\ f[n + 1] = Hop(f[n])
    BY <1>1, <1>5
  <2> QED BY <2>1, HopIs
<1> QED BY <1>1, <1>6

-----------------------------------------------------------------------------
(* A walk that lowers. *)

\* Process i is no less urgent than it is owed ...
Enough(k, i) ==
  /\ k.priority[i] <= BasePriority[i]
  /\ \A w \in WaitersOf(k, i) : k.priority[i] <= k.priority[w]

\* ... and no more urgent.
Caused(k, i) ==
  \/ BasePriority[i] <= k.priority[i]
  \/ \E w \in WaitersOf(k, i) : k.priority[w] <= k.priority[i]

LEMMA WayTypes ==
  ASSUME NEW k, WalkOk(k), NEW h, OnTheWay(k, h)
  PROVE  /\ \A j \in Process : h.table.priority[j] \in Nat /\ BasePriority[j] \in Nat
         /\ \A j : WaitersOf(h.table, j) = WaitersOf(k, j)
         /\ MaxPriority \in Nat
<1>1. WalkOk(h.table)
  BY WalkOkKept DEF OnTheWay
<1>2. h.table.priority \in [Process -> Priority]
  BY <1>1 DEF WalkOk, Consistent, TableType, TablePart
<1>3. \A j : WaitersOf(h.table, j) = WaitersOf(k, j)
  BY LinkedKept DEF OnTheWay
<1> QED BY <1>2, <1>3, ConfigAssumption DEF Priority

LEMMA LowerHop ==
  ASSUME NEW k, WalkOk(k), NEW x, Linked(k, x),
         NEW h, OnTheWay(k, h), h.at \in Process, h.claim = NoClaim,
         \A j \in Process : Enough(h.table, j),
         NEW g, OnTheWay(k, g), Hopped(k, h, g)
  PROVE  /\ \A j \in Process : Enough(g.table, j)
         /\ \A j \in Process :
              j # g.at /\ (j = h.at \/ Caused(h.table, j)) => Caused(g.table, j)
         /\ \A j \in Process : j # h.at => g.table.priority[j] = h.table.priority[j]
<1> DEFINE a == h.at
           old == h.table.priority
           new == g.table.priority
<1>1. PICK q : /\ Demanded(h.table, a, NoClaim, q)
               /\ \A j \in Process : new[j] = IF j = a THEN q ELSE old[j]
  BY DEF Hopped
<1>2. /\ \A j \in Process : old[j] \in Nat /\ new[j] \in Nat /\ BasePriority[j] \in Nat
      /\ \A j : WaitersOf(h.table, j) = WaitersOf(k, j)
      /\ \A j : WaitersOf(g.table, j) = WaitersOf(k, j)
      /\ \A j : WaitersOf(k, j) \subseteq Process
      /\ MaxPriority \in Nat /\ a \in Process /\ g.at = Onward(k, a)
  BY WayTypes DEF WaitersOf, Hopped
<1>3. /\ \A j \in Process : old[j] <= BasePriority[j]
      /\ \A j \in Process : \A w \in WaitersOf(k, j) : old[j] <= old[w]
  BY <1>2 DEF Enough
<1>4. /\ q \in Nat /\ q <= BasePriority[a] /\ \A w \in WaitersOf(k, a) : q <= old[w]
      /\ q = BasePriority[a] \/ \E w \in WaitersOf(k, a) : q = old[w]
  <2>1. q \in Priority /\ q # NoClaim
    BY <1>1, <1>2 DEF Demanded, Priority, NoClaim
  <2> QED BY <1>1, <1>2, <2>1 DEF Demanded, Priority
<1>5. \A j \in Process : \A w \in WaitersOf(k, j) : Onward(k, w) = j /\ w # j
  BY DEF Linked
<1> HIDE DEF a, old, new
<1>6. old[a] <= q
  BY <1>2, <1>3, <1>4
<1>7. ASSUME NEW j \in Process
      PROVE  Enough(g.table, j)
  <2>1. new[j] <= BasePriority[j]
    BY <1>1, <1>3, <1>4
  <2>2. ASSUME NEW w \in WaitersOf(k, j)
        PROVE  new[j] <= new[w]
    <3>1. w \in Process /\ w # j /\ old[j] <= old[w]
      BY <1>2, <1>3, <1>5
    <3>2. CASE j = a
      BY <1>1, <1>4, <3>1, <3>2
    <3>3. CASE j # a
      BY <1>1, <1>2, <1>6, <3>1, <3>3
    <3> QED BY <3>2, <3>3
  <2> QED BY <1>2, <2>1, <2>2 DEF Enough, new
<1>8. ASSUME NEW j \in Process, j # g.at, j = a \/ Caused(h.table, j)
      PROVE  Caused(g.table, j)
  <2>1. CASE j = a
    <3>1. CASE q = BasePriority[a]
      BY <1>1, <1>2, <2>1, <3>1 DEF Caused, new
    <3>2. CASE \E w \in WaitersOf(k, a) : q = old[w]
      <4>1. PICK w \in WaitersOf(k, a) : q = old[w]
        BY <3>2
      <4>2. new[w] = q /\ new[a] = q
        BY <1>1, <1>2, <1>5, <4>1
      <4>3. new[w] <= new[a]
        BY <1>4, <4>2
      <4> QED BY <1>2, <2>1, <4>1, <4>3 DEF Caused, new
    <3> QED BY <1>4, <3>1, <3>2
  <2>2. CASE j # a
    <3>1. new[j] = old[j] /\ Caused(h.table, j)
      BY <1>1, <1>8, <2>2
    <3>2. CASE BasePriority[j] <= old[j]
      BY <3>1, <3>2 DEF Caused, new
    <3>3. CASE \E w \in WaitersOf(k, j) : old[w] <= old[j]
      <4>1. PICK w \in WaitersOf(k, j) : old[w] <= old[j]
        BY <3>3
      <4>2. w \in Process /\ w # a
        BY <1>2, <1>5, <1>8, <4>1
      <4>3. new[w] <= new[j]
        BY <1>1, <3>1, <4>1, <4>2
      <4> QED BY <1>2, <4>1, <4>3 DEF Caused, new
    <3> QED BY <1>2, <3>1, <3>2, <3>3 DEF Caused, old
  <2> QED BY <2>1, <2>2
<1>9. \A j \in Process : j # a => new[j] = old[j]
  BY <1>1
<1> QED BY <1>7, <1>8, <1>9 DEF a, old, new

\* After n hops from process i of a walk over k: who is not in U or about to be
\* visited has what it is owed, and where the walk has been nobody is more
\* urgent than the last process visited.
Lowering(k, x, U, f, n) ==
  /\ f[n].claim = NoClaim /\ (f[n].at \in Process => f[n].at # x)
  /\ \A j \in Process : Enough(f[n].table, j)
  /\ \A j \in Process \ U : j # f[n].at => Caused(f[n].table, j)
  /\ f[n].at \in Process /\ n > 0 =>
       \A b \in 0 .. n - 1 :
         /\ f[b].at \in Process /\ f[b].at # x
         /\ f[n].table.priority[f[n - 1].at] <= f[n].table.priority[f[b].at]

LEMMA LoweringStep ==
  ASSUME NEW k, WalkOk(k), NEW x, Linked(k, x), NEW U, NEW f, Hops(k, f),
         NEW n \in 0 .. NumMutexes, Lowering(k, x, U, f, n)
  PROVE  Lowering(k, x, U, f, n + 1)
<1>0. NumMutexes \in Nat /\ NoProcess \notin Process
  BY MutexAssumption, ConfigAssumption DEF Process, NoProcess
<1>1. /\ OnTheWay(k, f[n]) /\ OnTheWay(k, f[n + 1])
      /\ IF f[n].at = NoProcess THEN f[n + 1] = f[n] ELSE Hopped(k, f[n], f[n + 1])
  BY DEF Hops
<1>2. CASE f[n].at = NoProcess
  BY <1>0, <1>1, <1>2 DEF Lowering
<1>3. CASE f[n].at # NoProcess
  <2> DEFINE h == f[n]
             g == f[n + 1]
  <2>1. h.at \in Process /\ h.at # x /\ h.claim = NoClaim
        /\ (\A j \in Process : Enough(h.table, j)) /\ Hopped(k, h, g)
        /\ OnTheWay(k, h) /\ OnTheWay(k, g)
    BY <1>1, <1>3 DEF Lowering, OnTheWay
  <2>2. /\ \A j \in Process : Enough(g.table, j)
        /\ \A j \in Process :
             j # g.at /\ (j = h.at \/ Caused(h.table, j)) => Caused(g.table, j)
        /\ \A j \in Process : j # h.at => g.table.priority[j] = h.table.priority[j]
    BY <2>1, LowerHop
  <2>3. \A j \in Process \ U : j # g.at => Caused(g.table, j)
    BY <2>2 DEF Lowering
  <2>4. g.claim = NoClaim /\ g.at = Onward(k, h.at)
    BY <2>1 DEF Hopped
  <2>5. ASSUME g.at \in Process
        PROVE  g.at # x
    <3>1. h.at \in WaitersOf(k, g.at)
      BY <2>1, <2>4, <2>5 DEF Linked
    <3> QED BY <2>5, <3>1 DEF Linked, WaitersOf
  <2>6. ASSUME NEW b \in 0 .. n
        PROVE  f[b].at \in Process /\ f[b].at # x
               /\ g.table.priority[h.at] <= g.table.priority[f[b].at]
    <3>1. /\ \A j \in Process : h.table.priority[j] \in Nat /\ g.table.priority[j] \in Nat
          /\ \A j : WaitersOf(g.table, j) = WaitersOf(k, j)
      BY <2>1, WayTypes
    <3>2. CASE f[b].at = h.at
      BY <2>1, <3>1, <3>2
    <3>3. CASE f[b].at # h.at
      <4>1. b \in 0 .. n - 1 /\ n > 0 /\ n - 1 \in 0 .. NumMutexes
        BY <1>0, <2>6, <3>3
      <4>2. f[b].at \in Process /\ f[b].at # x
            /\ f[n - 1].at \in Process /\ f[n - 1].at # x
            /\ h.table.priority[f[n - 1].at] <= h.table.priority[f[b].at]
        <5>1. n - 1 \in 0 .. n - 1
          BY <4>1
        <5> QED BY <2>1, <4>1, <5>1 DEF Lowering
      <4>3. Hopped(k, f[n - 1], f[n])
        <5>1. f[n - 1].at # NoProcess /\ (n - 1) + 1 = n
          BY <1>0, <4>1, <4>2
        <5> QED BY <4>1, <5>1 DEF Hops
      <4>4. Onward(k, f[n - 1].at) = h.at /\ f[n - 1].at # x
        BY <4>2, <4>3 DEF Hopped
      <4>5. f[n - 1].at \in WaitersOf(k, h.at) /\ f[n - 1].at # h.at
        BY <2>1, <4>2, <4>4 DEF Linked
      <4>6. g.table.priority[h.at] <= g.table.priority[f[n - 1].at]
        BY <2>1, <2>2, <3>1, <4>5 DEF Enough
      <4> QED BY <2>1, <2>2, <3>1, <3>3, <4>2, <4>5, <4>6
    <3> QED BY <3>2, <3>3
  <2>7. g.at \in Process /\ n + 1 > 0 =>
          \A b \in 0 .. (n + 1) - 1 :
            /\ f[b].at \in Process /\ f[b].at # x
            /\ f[n + 1].table.priority[f[(n + 1) - 1].at] <= f[n + 1].table.priority[f[b].at]
    <3>1. (n + 1) - 1 = n
      OBVIOUS
    <3> QED BY <2>6, <3>1
  <2> QED BY <2>2, <2>3, <2>4, <2>5, <2>7 DEF Lowering
<1> QED BY <1>2, <1>3

\* A walk that has not left the chain by its last hop is back at a process
\* where it has been.
LEMMA WalkReturns ==
  ASSUME NEW k, WalkOk(k), NEW f, Hops(k, f), f[NumMutexes + 1].at # NoProcess
  PROVE  /\ \A b \in 0 .. NumMutexes + 1 : f[b].at \in Process
         /\ \A b \in 0 .. NumMutexes : f[b + 1].at = Onward(k, f[b].at)
         /\ \E b \in 1 .. NumMutexes : f[b].at = f[NumMutexes + 1].at
<1> DEFINE N == NumMutexes
<1>0. N \in Nat
  BY MutexAssumption
<1>1. ASSUME NEW b \in 0 .. N + 1
      PROVE  f[b].at # NoProcess
  <2> SUFFICES ASSUME f[b].at = NoProcess PROVE FALSE
    OBVIOUS
  <2> DEFINE S == {t \in 0 .. N + 1 - b : f[b + t].at = NoProcess}
  <2>1. N + 1 - b \in Nat /\ 0 \in S
    BY <1>0
  <2>2. ASSUME NEW t \in 0 .. N + 1 - b, t \in S, t < N + 1 - b
        PROVE  t + 1 \in S
    <3>1. b + t \in 0 .. N /\ f[b + t].at = NoProcess /\ (b + t) + 1 = b + (t + 1)
      BY <1>0, <2>2
    <3>2. f[(b + t) + 1] = f[b + t]
      BY <3>1 DEF Hops
    <3> QED BY <1>0, <2>2, <3>1, <3>2
  <2>3. 0 .. N + 1 - b \subseteq S
    <3> HIDE DEF S
    <3> QED BY <2>1, <2>2, UpToInduction
  <2>4. N + 1 - b \in S
    <3>1. N + 1 - b \in 0 .. N + 1 - b
      BY <2>1
    <3> QED BY <2>3, <3>1
  <2>5. b + (N + 1 - b) = N + 1
    BY <1>0
  <2> QED BY <2>4, <2>5
<1>2. ASSUME NEW b \in 0 .. N
      PROVE  /\ f[b].at \in Process /\ f[b + 1].at \in Process
             /\ f[b + 1].at = Onward(k, f[b].at)
  <2>1. b \in 0 .. N + 1 /\ b + 1 \in 0 .. N + 1
    BY <1>0
  <2>2. f[b].at # NoProcess /\ f[b + 1].at # NoProcess
    BY <1>1, <2>1
  <2> QED BY <2>2 DEF Hops, OnTheWay, Hopped
<1>3. \A b \in 0 .. N + 1 : f[b].at \in Process
  <2>1. \A b \in 0 .. N + 1 : b \in 0 .. N \/ (b - 1 \in 0 .. N /\ b = (b - 1) + 1)
    BY <1>0
  <2> QED BY <1>2, <2>1
<1>4. ASSUME NEW b \in 1 .. N + 1
      PROVE  \E m \in MutexId : k.owner[m] = f[b].at
  <2>1. b - 1 \in 0 .. N /\ (b - 1) + 1 = b
    BY <1>0
  <2>2. /\ f[b - 1].at \in Process /\ f[b].at \in Process
        /\ f[b].at = Onward(k, f[b - 1].at)
    BY <1>2, <2>1
  <2>3. f[b].at # NoProcess
    BY <1>1, <2>1
  <2> QED BY <2>2, <2>3, OnwardOwns
<1> DEFINE g == [b \in 1 .. N + 1 |-> f[b].at]
           h == [b \in 1 .. N + 1 |-> CHOOSE m \in MutexId : k.owner[m] = f[b].at]
<1>5. /\ \A b \in 1 .. N + 1 : h[b] \in MutexId /\ k.owner[h[b]] = g[b]
      /\ h \in [1 .. N + 1 -> 0 .. N - 1]
  BY <1>4 DEF MutexId
<1>6. ASSUME NEW a \in 1 .. N, NEW b \in 1 .. N, g[a] = g[b]
      PROVE  g[a + 1] = g[b + 1]
  <2>1. f[a].at = f[b].at /\ f[a + 1].at = f[b + 1].at
    BY <1>0, <1>2, <1>6
  <2> QED BY <1>0, <2>1
<1>7. \E b \in 1 .. N : g[b] = g[N + 1]
  <2>1. \A a, b \in 1 .. N + 1 : h[a] = h[b] => g[a] = g[b]
    BY <1>5
  <2> HIDE DEF g, h, N
  <2> QED BY <1>0, <1>5, <1>6, <2>1, Revisits
<1>8. \E b \in 1 .. N : f[b].at = f[N + 1].at
  BY <1>0, <1>7
<1> QED BY <1>2, <1>3, <1>8

\* The table of a walk over k that settles everyone outside of U.
Lowered(k, m, U) ==
  /\ Reprioritised(k, m)
  /\ \A j \in Process : Enough(m, j)
  /\ \A j \in Process \ U : Caused(m, j)

LEMMA ChainLowers ==
  ASSUME NEW k, WalkOk(k), NEW x, Linked(k, x),
         NEW i \in Process \cup {NoProcess}, i \in Process => i # x,
         \A j \in Process : Enough(k, j),
         NEW U, \A j \in Process \ U : j # i => Caused(k, j)
  PROVE  Lowered(k, RefreshChain(k, i, NoClaim), U)
<1> DEFINE N == NumMutexes
<1>0. N \in Nat /\ NoProcess \notin Process
  BY MutexAssumption, ConfigAssumption DEF Process, NoProcess
<1>1. PICK f : /\ RefreshChain(k, i, NoClaim) = f[N + 1].table
               /\ f[0] = [table |-> k, claim |-> NoClaim, at |-> i]
               /\ Hops(k, f)
  BY ChainHops
<1> DEFINE S == {n \in 0 .. N + 1 : Lowering(k, x, U, f, n)}
<1>2. Lowering(k, x, U, f, 0)
  BY <1>1 DEF Lowering
<1>3. ASSUME NEW n \in 0 .. N + 1, n \in S, n < N + 1
      PROVE  n + 1 \in S
  <2>1. n \in 0 .. N /\ n + 1 \in 0 .. N + 1 /\ Lowering(k, x, U, f, n)
    BY <1>0, <1>3
  <2> QED BY <1>1, <2>1, LoweringStep
<1>4. 0 .. N + 1 \subseteq S
  <2>1. 0 \in S
    BY <1>0, <1>2
  <2> HIDE DEF S
  <2> QED BY <1>0, <2>1, <1>3, UpToInduction
<1>5. Lowering(k, x, U, f, N + 1)
  BY <1>0, <1>4
<1> DEFINE m == f[N + 1].table
           z == f[N + 1].at
<1>6. N \in 0 .. N /\ OnTheWay(k, f[N + 1])
  BY <1>0, <1>1 DEF Hops
<1>7. Reprioritised(k, m) /\ z \in Process \cup {NoProcess}
  BY <1>6 DEF OnTheWay
<1>8. (\A j \in Process : Enough(m, j)) /\ \A j \in Process \ U : j # z => Caused(m, j)
  BY <1>5 DEF Lowering
<1>9. CASE z = NoProcess
  BY <1>0, <1>1, <1>7, <1>8, <1>9 DEF Lowered
<1>10. CASE z \in Process
  <2>1. /\ \A b \in 0 .. N + 1 : f[b].at \in Process
        /\ \A b \in 0 .. N : f[b + 1].at = Onward(k, f[b].at)
        /\ \E b \in 1 .. N : f[b].at = z
    BY <1>0, <1>1, <1>10, WalkReturns
  <2>2. PICK b \in 1 .. N : f[b].at = z
    BY <2>1
  <2>3. \A c \in 0 .. N : f[c].at # x /\ m.priority[f[N].at] <= m.priority[f[c].at]
    <3>1. N + 1 > 0 /\ (N + 1) - 1 = N
      BY <1>0
    <3> QED BY <1>5, <1>10, <3>1 DEF Lowering
  <2>4. b \in 0 .. N /\ z = Onward(k, f[N].at) /\ f[N].at \in Process /\ f[N].at # x
    BY <1>0, <1>6, <2>1, <2>3
  <2>5. m.priority[f[N].at] <= m.priority[z]
    BY <2>2, <2>3, <2>4
  <2>6. f[N].at \in WaitersOf(k, z)
    BY <1>10, <2>4 DEF Linked
  <2>7. WaitersOf(m, z) = WaitersOf(k, z)
    BY <1>7, LinkedKept
  <2>8. Caused(m, z)
    BY <2>5, <2>6, <2>7 DEF Caused
  <2> QED BY <1>1, <1>7, <1>8, <2>8 DEF Lowered
<1> QED BY <1>7, <1>9, <1>10

-----------------------------------------------------------------------------
(* A walk that raises: from the owner of a mutex, with the priority d of   *)
(* the process that is about to wait for it.                               *)

Settled(k) == \A j \in Process : Enough(k, j) /\ Caused(k, j)

Urgent(q, d) == IF q <= d THEN q ELSE d

LEMMA RaiseHop ==
  ASSUME NEW k, WalkOk(k), Settled(k), NEW d \in Priority, NEW V,
         NEW h, OnTheWay(k, h), h.at \in Process,
         \A j \in Process :
           h.table.priority[j] = IF j \in V THEN Urgent(k.priority[j], d) ELSE k.priority[j],
         \/ h.claim = d
         \/ h.claim = NoClaim /\ \E w \in WaitersOf(k, h.at) : w \in V,
         NEW g, OnTheWay(k, g), Hopped(k, h, g)
  PROVE  \A j \in Process :
           g.table.priority[j] = IF j \in V \/ j = h.at THEN Urgent(k.priority[j], d)
                                 ELSE k.priority[j]
<1> DEFINE a == h.at
           p == k.priority
           old == h.table.priority
           new == g.table.priority
<1>1. PICK q : /\ Demanded(h.table, a, h.claim, q)
               /\ \A j \in Process : new[j] = IF j = a THEN q ELSE old[j]
  BY DEF Hopped
<1>2. /\ \A j \in Process : p[j] \in Nat /\ BasePriority[j] \in Nat
      /\ \A j : WaitersOf(h.table, j) = WaitersOf(k, j)
      /\ WaitersOf(k, a) \subseteq Process
      /\ MaxPriority \in Nat /\ a \in Process /\ d \in Nat /\ d # NoClaim
  <2>1. k.priority \in [Process -> Priority]
    BY DEF WalkOk, Consistent, TableType, TablePart
  <2> QED BY <2>1, WayTypes, ConfigAssumption DEF WaitersOf, Priority, NoClaim
<1>3. /\ q \in Nat /\ q # NoClaim /\ q <= BasePriority[a] /\ q <= h.claim
      /\ \A w \in WaitersOf(k, a) : q <= old[w]
      /\ q = BasePriority[a] \/ q = h.claim \/ \E w \in WaitersOf(k, a) : q = old[w]
  BY <1>1, <1>2 DEF Demanded, Priority, NoClaim
<1>4. /\ p[a] <= BasePriority[a] /\ \A w \in WaitersOf(k, a) : p[a] <= p[w]
      /\ BasePriority[a] <= p[a] \/ \E w \in WaitersOf(k, a) : p[w] <= p[a]
  BY <1>2 DEF Settled, Enough, Caused
<1>5. \A j \in Process : old[j] = IF j \in V THEN Urgent(p[j], d) ELSE p[j]
  OBVIOUS
<1>6. /\ h.claim = d \/ (h.claim = NoClaim /\ \E w \in WaitersOf(k, a) : w \in V)
  OBVIOUS
<1> HIDE DEF a, p, old, new
<1>7. \A j \in Process : old[j] <= p[j] /\ Urgent(p[j], d) <= old[j]
      /\ (j \in V => old[j] <= d) /\ old[j] \in Nat
  BY <1>2, <1>5 DEF Urgent
<1>8. q <= p[a]
  <2>1. CASE BasePriority[a] <= p[a]
    BY <1>2, <1>3, <2>1
  <2>2. CASE \E w \in WaitersOf(k, a) : p[w] <= p[a]
    <3>1. PICK w \in WaitersOf(k, a) : p[w] <= p[a]
      BY <2>2
    <3>2. q <= old[w] /\ old[w] <= p[w]
      BY <1>2, <1>3, <1>7, <3>1
    <3> QED BY <1>2, <1>3, <1>7, <3>1, <3>2
  <2> QED BY <1>4, <2>1, <2>2
<1>9. q <= d
  <2>1. CASE h.claim = d
    BY <1>3, <2>1
  <2>2. CASE \E w \in WaitersOf(k, a) : w \in V
    <3>1. PICK w \in WaitersOf(k, a) : w \in V
      BY <2>2
    <3>2. q <= old[w] /\ old[w] <= d /\ old[w] \in Nat
      BY <1>2, <1>3, <1>7, <3>1
    <3> QED BY <1>2, <1>3, <3>2
  <2> QED BY <1>6, <2>1, <2>2
<1>10. p[a] <= q \/ d <= q
  <2>1. CASE q = BasePriority[a]
    BY <1>4, <2>1
  <2>2. CASE q = h.claim
    BY <1>2, <1>3, <1>6, <2>2
  <2>3. CASE \E w \in WaitersOf(k, a) : q = old[w]
    <3>1. PICK w \in WaitersOf(k, a) : q = old[w]
      BY <2>3
    <3>2. w \in Process /\ p[a] <= p[w] /\ Urgent(p[w], d) <= q
      BY <1>2, <1>4, <1>7, <3>1
    <3> QED BY <1>2, <1>3, <3>2 DEF Urgent
  <2> QED BY <1>3, <2>1, <2>2, <2>3
<1>11. q = Urgent(p[a], d)
  BY <1>2, <1>3, <1>8, <1>9, <1>10 DEF Urgent
<1>12. \A j \in Process : new[j] = IF j \in V \/ j = a THEN Urgent(p[j], d) ELSE p[j]
  BY <1>1, <1>5, <1>11
<1> QED BY <1>12 DEF a, p, new

\* The processes where a walk has been before hop n.
Visited(f, n) == {f[b].at : b \in 0 .. n - 1}

Raising(k, d, f, n) ==
  /\ \A j \in Process :
       f[n].table.priority[j] = IF j \in Visited(f, n) THEN Urgent(k.priority[j], d)
                                ELSE k.priority[j]
  /\ f[n].claim = IF n = 0 THEN d ELSE NoClaim

LEMMA RaisingStep ==
  ASSUME NEW k, WalkOk(k), Settled(k), Linked(k, NoProcess), NEW d \in Priority,
         NEW f, Hops(k, f), f[0].at \in Process,
         NEW n \in 0 .. NumMutexes, Raising(k, d, f, n)
  PROVE  Raising(k, d, f, n + 1)
<1>0. NumMutexes \in Nat /\ NoProcess \notin Process
  BY MutexAssumption, ConfigAssumption DEF Process, NoProcess
<1>1. /\ OnTheWay(k, f[n]) /\ OnTheWay(k, f[n + 1])
      /\ IF f[n].at = NoProcess THEN f[n + 1] = f[n] ELSE Hopped(k, f[n], f[n + 1])
  BY DEF Hops
<1>2. Visited(f, n + 1) = Visited(f, n) \cup {f[n].at}
  <2>1. 0 .. (n + 1) - 1 = (0 .. n - 1) \cup {n}
    BY <1>0
  <2> QED BY <2>1 DEF Visited
<1>3. CASE f[n].at = NoProcess
  <2>1. n # 0
    BY <1>0, <1>3
  <2> QED BY <1>0, <1>1, <1>2, <1>3, <2>1 DEF Raising
<1>4. CASE f[n].at # NoProcess
  <2>1. f[n].at \in Process /\ Hopped(k, f[n], f[n + 1])
    BY <1>1, <1>4 DEF OnTheWay
  <2>2. \/ f[n].claim = d
        \/ /\ f[n].claim = NoClaim
           /\ \E w \in WaitersOf(k, f[n].at) : w \in Visited(f, n)
    <3>1. CASE n = 0
      BY <3>1 DEF Raising
    <3>2. CASE n # 0
      <4>1. n - 1 \in 0 .. NumMutexes /\ (n - 1) + 1 = n /\ n - 1 \in 0 .. n - 1
        BY <1>0, <3>2
      <4>2. /\ OnTheWay(k, f[n - 1])
            /\ IF f[n - 1].at = NoProcess THEN f[n] = f[n - 1] ELSE Hopped(k, f[n - 1], f[n])
        BY <4>1 DEF Hops
      <4>3. f[n - 1].at \in Process \ {NoProcess} /\ f[n].at = Onward(k, f[n - 1].at)
        BY <1>0, <1>4, <4>2 DEF OnTheWay, Hopped
      <4>4. f[n - 1].at \in WaitersOf(k, f[n].at)
        BY <2>1, <4>3 DEF Linked
      <4>5. f[n - 1].at \in Visited(f, n)
        BY <4>1 DEF Visited
      <4> QED BY <3>2, <4>4, <4>5 DEF Raising
    <3> QED BY <3>1, <3>2
  <2>3. \A j \in Process :
          f[n].table.priority[j] = IF j \in Visited(f, n) THEN Urgent(k.priority[j], d)
                                   ELSE k.priority[j]
    BY DEF Raising
  <2>4. \A j \in Process :
          f[n + 1].table.priority[j] =
            IF j \in Visited(f, n) \/ j = f[n].at THEN Urgent(k.priority[j], d)
            ELSE k.priority[j]
    BY <1>1, <2>1, <2>2, <2>3, RaiseHop
  <2>5. f[n + 1].claim = NoClaim /\ n + 1 # 0
    BY <2>1 DEF Hopped
  <2> QED BY <1>2, <2>4, <2>5 DEF Raising
<1> QED BY <1>3, <1>4

\* The priorities of a walk over k from process a with claim d: those of the
\* processes visited, which are a and those that come after one of them.
RaisedIn(k, m, a, d, V) ==
  /\ \A j \in Process :
       m.priority[j] = IF j \in V THEN Urgent(k.priority[j], d) ELSE k.priority[j]
  /\ a \in V
  /\ \A y \in V : Onward(k, y) \in V \cup {NoProcess}
  /\ \A y \in V : y # a => \E w \in V : Onward(k, w) = y

Raised(k, m, a, d) ==
  Reprioritised(k, m) /\ \E V \in SUBSET Process : RaisedIn(k, m, a, d, V)

LEMMA ChainRaises ==
  ASSUME NEW k, WalkOk(k), Settled(k), Linked(k, NoProcess), NEW d \in Priority,
         NEW a \in Process
  PROVE  Raised(k, RefreshChain(k, a, d), a, d)
<1> DEFINE N == NumMutexes
<1>0. N \in Nat /\ NoProcess \notin Process
  BY MutexAssumption, ConfigAssumption DEF Process, NoProcess
<1>1. PICK f : /\ RefreshChain(k, a, d) = f[N + 1].table
               /\ f[0] = [table |-> k, claim |-> d, at |-> a]
               /\ Hops(k, f)
  BY ChainHops
<1> DEFINE S == {n \in 0 .. N + 1 : Raising(k, d, f, n)}
<1>2. Raising(k, d, f, 0)
  <2>1. Visited(f, 0) = {}
    BY DEF Visited
  <2> QED BY <1>1, <2>1 DEF Raising
<1>3. ASSUME NEW n \in 0 .. N + 1, n \in S, n < N + 1
      PROVE  n + 1 \in S
  <2>1. n \in 0 .. N /\ n + 1 \in 0 .. N + 1 /\ Raising(k, d, f, n) /\ f[0].at \in Process
    BY <1>0, <1>1, <1>3
  <2> QED BY <1>1, <2>1, RaisingStep
<1>4. 0 .. N + 1 \subseteq S
  <2>1. 0 \in S
    BY <1>0, <1>2
  <2> HIDE DEF S
  <2> QED BY <1>0, <2>1, <1>3, UpToInduction
<1>5. Raising(k, d, f, N + 1)
  BY <1>0, <1>4
<1> DEFINE m == f[N + 1].table
           z == f[N + 1].at
           V == Visited(f, N + 1) \cap Process
<1>6. N \in 0 .. N /\ OnTheWay(k, f[N + 1])
  BY <1>0, <1>1 DEF Hops
<1>7. Reprioritised(k, m) /\ z \in Process \cup {NoProcess}
  BY <1>6 DEF OnTheWay
<1>8. \A y : y \in V <=> y \in Process /\ \E b \in 0 .. N : f[b].at = y
  <2>1. (N + 1) - 1 = N
    BY <1>0
  <2> QED BY <2>1 DEF Visited
<1>9. \A j \in Process : m.priority[j] = IF j \in V THEN Urgent(k.priority[j], d)
                                        ELSE k.priority[j]
  BY <1>5 DEF Raising
<1>10. a \in V
  <2>1. 0 \in 0 .. N /\ f[0].at = a
    BY <1>0, <1>1
  <2> HIDE DEF V
  <2> QED BY <1>8, <2>1
<1>11. \A b \in 0 .. N : f[b].at \in Process => f[b + 1].at = Onward(k, f[b].at)
  BY <1>0, <1>1 DEF Hops, Hopped
<1>12. ASSUME NEW y \in V
       PROVE  Onward(k, y) \in V \cup {NoProcess}
  <2>1. PICK b \in 0 .. N : f[b].at = y
    BY <1>8
  <2>2. f[b + 1].at = Onward(k, y) /\ y \in Process
    BY <1>8, <1>11, <2>1
  <2>3. f[b + 1].at \in Process \cup {NoProcess}
    BY <2>2, OnwardIs
  <2>4. CASE b < N
    <3>1. b + 1 \in 0 .. N
      BY <1>0, <2>4
    <3> HIDE DEF V
    <3> QED BY <1>8, <2>2, <2>3, <3>1
  <2>5. CASE b = N /\ z # NoProcess
    <3>1. \E c \in 1 .. N : f[c].at = z
      BY <1>0, <1>1, <2>5, WalkReturns
    <3>2. \E c \in 0 .. N : f[c].at = z
      BY <1>0, <3>1
    <3>3. z \in V
      <4> HIDE DEF V
      <4> QED BY <1>7, <1>8, <2>5, <3>2
    <3> QED BY <2>2, <2>5, <3>3
  <2>6. b < N \/ b = N
    BY <1>0
  <2> QED BY <2>2, <2>4, <2>5, <2>6
<1>13. ASSUME NEW y \in V, y # a
       PROVE  \E w \in V : Onward(k, w) = y
  <2>1. PICK b \in 0 .. N : f[b].at = y
    BY <1>8
  <2>2. b - 1 \in 0 .. N /\ (b - 1) + 1 = b
    BY <1>0, <1>1, <1>13, <2>1
  <2>3. f[b - 1].at \in Process
    <3>1. f[b - 1].at = NoProcess => f[b] = f[b - 1]
      BY <1>1, <2>2 DEF Hops
    <3>2. OnTheWay(k, f[b - 1])
      BY <1>1, <2>2 DEF Hops
    <3> QED BY <1>0, <1>8, <2>1, <3>1, <3>2 DEF OnTheWay
  <2>4. Onward(k, f[b - 1].at) = y
    BY <1>11, <2>1, <2>2, <2>3
  <2>5. f[b - 1].at \in V
    <3> HIDE DEF V
    <3> QED BY <1>8, <2>2, <2>3
  <2> QED BY <2>4, <2>5
<1>14. RaisedIn(k, m, a, d, V)
  <2> HIDE DEF V, m
  <2> QED BY <1>9, <1>10, <1>12, <1>13 DEF RaisedIn
<1>15. V \in SUBSET Process
  OBVIOUS
<1> HIDE DEF V, m
<1>16. Raised(k, m, a, d)
  BY <1>7, <1>14, <1>15 DEF Raised
<1> QED BY <1>1, <1>16 DEF m

-----------------------------------------------------------------------------
(* What the walks need, and keep: every priority is what the process is    *)
(* owed, every waiter waits in its lock, and owners are of their mutex's   *)
(* partition.  It takes lists that fit: where one is full, the operation   *)
(* that a caller has left behind links it to an owner it does not wait for.*)

OpsMatch(k) ==
  \A j \in Process : Waits(k, j) => k.waitlist[j] \in MutexId /\ k.op[j] = LockOp(k.waitlist[j])

OwnersLocal(k) ==
  \A x \in MutexId : k.owner[x] # NoProcess => PartitionOf[k.owner[x]] = MutexPartition[x]

Just(k) == MutexOk(k) /\ Settled(k) /\ OpsMatch(k) /\ OwnersLocal(k)

LEMMA JustBy ==
  ASSUME NEW k, Just(k), NEW m, MutexOk(m), Passes(k, m), Settled(m)
  PROVE  Just(m)
<1>1. OpsMatch(m)
  BY DEF Just, OpsMatch, Passes, WaitsFewer
<1>2. ASSUME NEW x \in MutexId, m.owner[x] # NoProcess
      PROVE  PartitionOf[m.owner[x]] = MutexPartition[x]
  BY <1>2 DEF Just, OwnersLocal, Passes, MutexOk, MutexHeld, HasOwner
<1> QED BY <1>1, <1>2 DEF Just, OwnersLocal

LEMMA SettledKept ==
  ASSUME NEW k, Settled(k), NEW m, m.owner = k.owner, m.priority = k.priority,
         m.waiters = k.waiters
  PROVE  Settled(m)
<1>1. \A j : WaitersOf(m, j) = WaitersOf(k, j)
  BY DEF WaitersOf, Owned
<1> QED BY <1>1 DEF Settled, Enough, Caused

LEMMA CalmJust ==
  ASSUME NEW k, Just(k), NEW m, Calm(k, m), m.waiters = k.waiters
  PROVE  Just(m)
<1>1. Settled(m)
  BY SettledKept DEF Just, Calm
<1> QED BY <1>1, JustBy DEF Calm

LEMMA JustLinked ==
  ASSUME ListsFit, NEW k, MutexHeld(k), OpsMatch(k)
  PROVE  Linked(k, NoProcess)
<1>1. NoProcess \notin Process
  BY ConfigAssumption DEF Process, NoProcess
<1>2. ASSUME NEW w \in Process, NEW x \in MutexId, IsIn(k.waiters[x], w)
      PROVE  Onward(k, w) = k.owner[x] /\ w # k.owner[x]
  <2>1. Waits(k, w) /\ k.waitlist[w] = x
    BY <1>2, MutexLists DEF MutexHeld, Sound, WaitsSound
  <2>2. k.op[w] = LockOp(x) /\ k.state[w] = "BLOCKED"
    BY <2>1 DEF OpsMatch, Waits
  <2>3. Onward(k, w) = k.owner[x]
    BY <2>2 DEF Onward, LockOp
  <2>4. HasOwner(k, x) /\ k.waiters[x] # <<>>
    BY <1>2 DEF MutexHeld, IsIn
  <2> QED BY <1>2, <2>3, <2>4 DEF HasOwner
<1>3. ASSUME NEW w \in Process, Onward(k, w) \in Process
      PROVE  w \in WaitersOf(k, Onward(k, w))
  <2>1. k.op[w].kind = "MUTEX_LOCK" /\ Onward(k, w) = k.owner[k.op[w].id]
    BY <1>1, <1>3 DEF Onward
  <2>2. k.op[w] # NoOp
    BY <2>1 DEF NoOp
  <2>3. Waits(k, w)
    BY <2>2, ListsFit DEF MutexHeld
  <2>4. k.waitlist[w] \in MutexId /\ k.op[w] = LockOp(k.waitlist[w])
    BY <2>3 DEF OpsMatch
  <2>5. k.op[w].id = k.waitlist[w]
    BY <2>4 DEF LockOp
  <2>6. IsIn(k.waiters[k.waitlist[w]], w)
    BY <2>3, <2>4, MutexLists DEF MutexHeld, Sound, WaitsSound
  <2> QED BY <1>3, <2>1, <2>4, <2>5, <2>6 DEF WaitersOf, Owned
<1>4. \A i \in Process : \A w \in WaitersOf(k, i) : Onward(k, w) = i /\ w # i
  BY <1>2 DEF WaitersOf, Owned
<1> QED BY <1>1, <1>3, <1>4 DEF Linked

\* The walks of RefreshPriorities, one from the owner of each mutex: whoever
\* owns something has been visited.
LEMMA RefreshSettles ==
  ASSUME NEW k, WalkOk(k), NothingOwed(k), NEW x, Linked(k, x),
         \A j \in Process : Enough(k, j)
  PROVE  Lowered(k, RefreshPriorities(k), {})
<1> DEFINE U(n) == {j \in Process : \E y \in MutexId : y >= n /\ k.owner[y] = j}
<1>0. NumMutexes \in Nat
  BY MutexAssumption
<1>1. PICK f : /\ RefreshPriorities(k) = f[NumMutexes]
               /\ f[0] = k
               /\ \A n \in MutexId :
                    f[n + 1] = RefreshChain(f[n], f[n].owner[n], NoClaim)
  BY PrioritiesUnfold
<1> DEFINE S == {n \in 0 .. NumMutexes : Lowered(k, f[n], U(n))}
<1>2. 0 \in S
  <2>1. Reprioritised(k, k)
    BY DEF Reprioritised, SameBut, WalkOk, Extends, KeepsReady
  <2>2. ASSUME NEW j \in Process \ U(0)
        PROVE  Caused(k, j)
    <3>1. Owned(k, j) = {}
      BY <1>0 DEF Owned, MutexId
    <3>2. k.priority[j] = BasePriority[j] /\ BasePriority[j] \in Nat
      BY <3>1, ConfigAssumption DEF NothingOwed, Priority
    <3> QED BY <3>2 DEF Caused
  <2> HIDE DEF U
  <2>3. Lowered(k, k, U(0))
    BY <2>1, <2>2 DEF Lowered
  <2> QED BY <1>0, <1>1, <2>3
<1>3. ASSUME NEW n \in 0 .. NumMutexes, n \in S, n < NumMutexes
      PROVE  n + 1 \in S
  <2> DEFINE l == f[n]
             a == l.owner[n]
  <2>1. /\ Lowered(k, l, U(n)) /\ n \in MutexId
        /\ f[n + 1] = RefreshChain(l, a, NoClaim)
    BY <1>0, <1>1, <1>3 DEF MutexId
  <2> HIDE DEF l
  <2>2. Reprioritised(k, l) /\ WalkOk(l) /\ l.owner = k.owner
        /\ \A i : Owned(l, i) = Owned(k, i)
    BY <2>1, WalkOkKept DEF Lowered
  <2>3. Linked(l, x)
    <3>1. /\ \A i : WaitersOf(l, i) = WaitersOf(k, i)
          /\ \A i : Onward(l, i) = Onward(k, i)
      BY <2>2, LinkedKept
    <3> QED BY <2>2, <3>1 DEF Linked
  <2>4. a \in Process \cup {NoProcess} /\ (a \in Process => a # x)
    <3>1. a \in Process \cup {NoProcess}
      BY <2>1, <2>2 DEF WalkOk, OwnerType
    <3>2. a \in Process => n \in Owned(l, a)
      BY <2>1 DEF Owned
    <3> QED BY <2>3, <3>1, <3>2 DEF Linked
  <2>5. ASSUME NEW j \in Process \ U(n + 1), j # a
        PROVE  Caused(l, j)
    <3>1. j \notin U(n)
      BY <2>1, <2>2, <2>5 DEF MutexId
    <3> QED BY <2>1, <3>1 DEF Lowered
  <2>6. \A j \in Process : Enough(l, j)
    BY <2>1 DEF Lowered
  <2> HIDE DEF U, a
  <2>7. Lowered(l, f[n + 1], U(n + 1))
    BY <2>1, <2>2, <2>3, <2>4, <2>5, <2>6, ChainLowers
  <2>8. Lowered(k, f[n + 1], U(n + 1))
    BY <2>2, <2>7, ReprioritisedThen DEF Lowered, WalkOk, Extends
  <2> QED BY <1>0, <1>3, <2>8
<1>4. 0 .. NumMutexes \subseteq S
  <2> HIDE DEF S
  <2> QED BY <1>0, <1>2, <1>3, UpToInduction
<1>5. U(NumMutexes) = {}
  BY <1>0 DEF MutexId
<1>6. Lowered(k, f[NumMutexes], U(NumMutexes))
  <2> HIDE DEF U
  <2> QED BY <1>0, <1>4
<1> HIDE DEF U
<1> QED BY <1>1, <1>5, <1>6

-----------------------------------------------------------------------------
(* Every step that starts no wait leaves every priority owed: a mutex      *)
(* handed over, a restart, a timeout, a release, a dispatch.               *)

\* Mutex x has left i for its heir, and i may be more urgent than it is owed.
LEMMA PassOnOwes ==
  ASSUME NEW k, Just(k), NEW x \in MutexId, NEW i \in Process, k.owner[x] = i
  PROVE  LET l == PassOn(k, x) IN
         /\ \A j \in Process : Enough(l, j)
         /\ \A j \in Process : j # i => Caused(l, j)
<1> DEFINE l == PassOn(k, x)
           b == HeirOf(k, x)
<1>1. MutexOk(k) /\ Sound(k) /\ Settled(k)
  BY DEF Just, MutexOk, MutexHeld
<1>2. PassedOn(k, l, x, i) /\ MutexHeld(l) /\ l.priority = k.priority
  BY <1>1, PassOnFree, PassOnHeir
<1> HIDE DEF l
<1>3. /\ Sound(l) /\ Passes(k, l) /\ NoProcess \notin Process
      /\ \A y \in MutexId \ {x} : l.waiters[y] = k.waiters[y]
  BY <1>2, ConfigAssumption DEF PassedOn, MutexHeld, Process, NoProcess
<1>4. \A y \in MutexId : l.owner[y] = IF y = x THEN b ELSE k.owner[y]
  BY <1>1, <1>2 DEF PassedOn, MutexOk, MutexHeld, OwnerType
<1>5. \A y \in MutexId : \A j \in Process : IsIn(l.waiters[y], j) => IsIn(k.waiters[y], j)
  BY <1>1, <1>3, WaitersShrink
<1>6. b # NoProcess => /\ b \in Process /\ b # i
                       /\ \A w \in Waiters(k, x) : k.priority[b] <= k.priority[w]
  <2>1. HAVE b # NoProcess
  <2>2. k.waiters[x] # <<>>
    BY <2>1 DEF HeirOf
  <2>3. b \in Process /\ b # i /\ FirstOfBest(k, x, b)
    BY <1>1, <2>2, HeirComesFirst
  <2>4. \A w \in Process : k.priority[w] \in Nat
    BY <1>1, SoundTypes DEF Priority
  <2> HIDE DEF b
  <2>5. ASSUME NEW w \in Waiters(k, x)
        PROVE  k.priority[b] <= k.priority[w]
    <3>1. w \in Process
      BY DEF Waiters
    <3> QED BY <2>3, <2>4, <3>1 DEF FirstOfBest
  <2> QED BY <2>3, <2>5
<1> HIDE DEF b
<1>7. ASSUME NEW j \in Process, NEW w \in WaitersOf(l, j)
      PROVE  w \in WaitersOf(k, j) \/ (j = b /\ w \in Waiters(k, x))
  BY <1>4, <1>5 DEF WaitersOf, Owned, Waiters
<1>8. ASSUME NEW j \in Process, j # i, NEW w \in WaitersOf(k, j)
      PROVE  w \in WaitersOf(l, j)
  BY <1>3, <1>4, <1>8 DEF WaitersOf, Owned
<1>9. ASSUME NEW j \in Process
      PROVE  Enough(l, j)
  <2>1. Enough(k, j)
    BY <1>1 DEF Settled
  <2> QED BY <1>2, <1>3, <1>6, <1>7, <2>1 DEF Enough
<1>10. ASSUME NEW j \in Process, j # i
       PROVE  Caused(l, j)
  <2>1. Caused(k, j)
    BY <1>1 DEF Settled
  <2> QED BY <1>2, <1>8, <1>10, <2>1 DEF Caused
<1> QED BY <1>9, <1>10 DEF l

LEMMA HandOffJust ==
  ASSUME ListsFit, NEW k, Just(k), NEW x \in MutexId, NEW i \in Process, k.owner[x] = i
  PROVE  Just(HandOff(k, x))
<1> DEFINE l == PassOn(k, x)
           m == HandOff(k, x)
<1>1. MutexOk(k)
  BY DEF Just
<1>2. PassedOn(k, l, x, i) /\ MutexHeld(l)
  BY <1>1, PassOnFree, PassOnHeir
<1>3. HandedOver(k, m, x, i) /\ m = RefreshChain(l, i, NoClaim)
  BY <1>1, HandOffSound DEF HandOff
<1>4. (\A j \in Process : Enough(l, j)) /\ \A j \in Process : j # i => Caused(l, j)
  BY PassOnOwes
<1> HIDE DEF l, m
<1>5. OpsMatch(l)
  BY <1>2 DEF Just, OpsMatch, PassedOn, Passes, WaitsFewer
<1>6. Linked(l, NoProcess) /\ WalkOk(l)
  BY <1>2, <1>5, JustLinked, HeldFields
<1>7. i # NoProcess
  BY ConfigAssumption DEF Process, NoProcess
<1>8. Lowered(l, m, {})
  BY <1>3, <1>4, <1>6, <1>7, ChainLowers
<1>9. Settled(m)
  BY <1>8 DEF Lowered, Settled
<1>10. Just(m)
  BY <1>3, <1>9, JustBy DEF HandedOver, PassedOn
<1> QED BY <1>10 DEF m

LEMMA ReleaseAllJust ==
  ASSUME ListsFit, NEW k, Just(k), NEW i \in Process
  PROVE  Just(ReleaseAll(k, i))
<1>1. PICK f : /\ ReleaseAll(k, i) = f[NumMutexes]
               /\ f[0] = k
               /\ \A n \in MutexId : f[n + 1] = ReleaseOne(f[n], n, i)
  BY ReleaseUnfolds
<1>2. NumMutexes \in Nat
  BY MutexAssumption
<1> DEFINE S == {n \in 0 .. NumMutexes : Just(f[n])}
<1>3. 0 \in S
  BY <1>1, <1>2
<1>4. ASSUME NEW n \in 0 .. NumMutexes, n \in S, n < NumMutexes
      PROVE  n + 1 \in S
  <2>1. n \in MutexId /\ f[n + 1] = ReleaseOne(f[n], n, i) /\ Just(f[n])
    BY <1>1, <1>2, <1>4 DEF MutexId
  <2>2. Just(f[n + 1])
    BY <2>1, HandOffJust DEF ReleaseOne
  <2> QED BY <1>2, <1>4, <2>2
<1>5. 0 .. NumMutexes \subseteq S
  <2> HIDE DEF S
  <2> QED BY <1>2, <1>3, <1>4, UpToInduction
<1> QED BY <1>1, <1>2, <1>5

\* Process i, which owns nothing, is off its list; it still has its operation.
LEMMA LeaveLinked ==
  ASSUME ListsFit, NEW k, Just(k), NEW i \in Process, k.state[i] = "BLOCKED",
         Owned(k, i) = {}
  PROVE  LET l == LeaveAny(k, i) IN
         Linked(l, i) /\ \A j \in Process : Enough(l, j)
<1> DEFINE l == LeaveAny(k, i)
           c == ClearBlocked(l, i)
<1>1. MutexOk(k) /\ MutexHeld(k) /\ Sound(k) /\ Settled(k) /\ Linked(k, NoProcess)
  BY JustLinked DEF Just, MutexOk, MutexHeld
<1>2. TableFields \cup WaitFieldNames \cup {"owner"} \subseteq DOMAIN k
  BY <1>1, HeldFields
<1>3. SameBut(k, l, {"waiters"})
  BY <1>1, LeaveWalkOk
<1>4. OffList(k, c, i) /\ c.waiters = l.waiters
  <2>1. c.waiters = l.waiters
    BY <1>2, <1>3 DEF ClearBlocked, SameBut, WaitFieldNames
  <2> QED BY <1>1, <2>1, LeaveSound
<1> HIDE DEF l, c
<1>5. /\ l.state = k.state /\ l.op = k.op /\ l.owner = k.owner /\ l.priority = k.priority
      /\ c.state = k.state
  BY <1>2, <1>3, <1>4 DEF OffList, SameBut, TableFields, WaitFieldNames
<1>6. Sound(c) /\ \A j \in Process : c.waitlist[j] = IF j = i THEN NoList ELSE k.waitlist[j]
  BY <1>1, <1>4 DEF OffList, Sound, IpcType
<1>7. ASSUME NEW x \in MutexId, NEW j \in Process
      PROVE  IsIn(l.waiters[x], j) <=> j # i /\ IsIn(k.waiters[x], j)
  <2>1. x \in WaitList /\ x # NoList
    BY MutexLists, IpcAssumption DEF WaitList, NoList
  <2>2. IsIn(k.waiters[x], j) <=> Waits(k, j) /\ k.waitlist[j] = x
    BY <1>1, <2>1 DEF Sound, WaitsSound
  <2>3. IsIn(c.waiters[x], j) <=> Waits(c, j) /\ c.waitlist[j] = x
    BY <1>6, <2>1 DEF Sound, WaitsSound
  <2> QED BY <1>4, <1>5, <1>6, <2>1, <2>2, <2>3 DEF Waits
<1>8. ASSUME NEW o \in Process, NEW w \in Process
      PROVE  w \in WaitersOf(l, o) <=> w # i /\ w \in WaitersOf(k, o)
  BY <1>5, <1>7 DEF WaitersOf, Owned
<1>9. \A w \in Process : Onward(l, w) = Onward(k, w)
  BY <1>5 DEF Onward
<1>10. NoProcess \notin Process /\ \A o : WaitersOf(l, o) \subseteq Process
  BY ConfigAssumption DEF Process, NoProcess, WaitersOf
<1>11. Linked(l, i)
  <2>1. Owned(l, i) = {}
    BY <1>5 DEF Owned
  <2>2. \A o \in Process : \A w \in WaitersOf(l, o) : Onward(l, w) = o /\ w # o
    BY <1>1, <1>8, <1>9, <1>10 DEF Linked
  <2>3. \A w \in Process \ {i} :
          Onward(l, w) \in Process => w \in WaitersOf(l, Onward(l, w))
    BY <1>1, <1>8, <1>9, <1>10 DEF Linked
  <2> QED BY <2>1, <2>2, <2>3 DEF Linked
<1>12. \A j \in Process : Enough(l, j)
  BY <1>1, <1>5, <1>8, <1>10 DEF Settled, Enough
<1> QED BY <1>11, <1>12 DEF l

LEMMA RestartReleasedJust ==
  ASSUME ListsFit, NEW k, Just(k), NEW i \in Process, Owned(k, i) = {}
  PROVE  Just(RestartReleased(k, i))
<1> DEFINE m == RestartReleased(k, i)
           l == LeaveAny(k, i)
           n == RefreshPriorities(l)
<1>1. Reborn(k, m, i)
  BY RestartReleasedReborn DEF Just
<1>2. m = k \/ k.state[i] \in {"RUNNING", "BLOCKED"}
  BY DEF RestartReleased
<1> HIDE DEF m
<1>3. Passes(k, m) /\ MutexOk(m) /\ m.owner = k.owner
  BY <1>1 DEF Reborn
<1>4. CASE m = k
  BY <1>4 DEF m
<1>5. CASE k.state[i] = "RUNNING"
  <2>1. Settled(m)
    BY <1>1, <1>5, SettledKept DEF Reborn, Just
  <2> QED BY <1>3, <2>1, JustBy DEF m
<1>6. CASE k.state[i] = "BLOCKED"
  <2>1. m.waiters = l.waiters /\ m.priority = n.priority
    BY <1>1, <1>6 DEF Reborn
  <2>2. SameBut(k, l, {"waiters"}) /\ WalkOk(l) /\ NothingOwed(l)
    BY LeaveWalkOk DEF Just
  <2>3. Linked(l, i) /\ \A j \in Process : Enough(l, j)
    BY <1>6, LeaveLinked
  <2> HIDE DEF l
  <2>4. Lowered(l, n, {})
    BY <2>2, <2>3, RefreshSettles
  <2> HIDE DEF n
  <2>5. n.owner = l.owner /\ n.waiters = l.waiters
    BY <2>2, <2>4, WalkOkKept DEF Lowered
  <2>6. l.owner = k.owner
    <3>1. "owner" \in DOMAIN k
      BY DEF Just, MutexOk, MutexHeld
    <3> QED BY <2>2, <3>1 DEF SameBut
  <2>7. Settled(m)
    <3>1. Settled(n)
      BY <2>4 DEF Lowered, Settled
    <3> QED BY <1>3, <2>1, <2>5, <2>6, <3>1, SettledKept
  <2> QED BY <1>3, <2>7, JustBy DEF m
<1> QED BY <1>2, <1>4, <1>5, <1>6 DEF m

LEMMA RestartJust ==
  ASSUME ListsFit, NEW k, Just(k), NEW i \in Process
  PROVE  Just(Restart(k, i))
<1> DEFINE l == ReleaseAll(k, i)
           n == RestartReleased(l, i)
           m == Restart(k, i)
<1>1. Restarted(k, m, i)
  BY RestartSound DEF Just
<1>2. ReleasedUpTo(k, l, i, NumMutexes) /\ Just(l)
  BY ReleaseAllSound, ReleaseAllJust DEF Just
<1>3. m = [n EXCEPT !.result[i] = NoResult]
  BY DEF Restart, RestartStates
<1> HIDE DEF l, m
<1>4. Owned(l, i) = {}
  <2>1. ASSUME NEW x \in MutexId
        PROVE  l.owner[x] # i
    <3>1. x < NumMutexes
      BY MutexAssumption DEF MutexId
    <3> QED BY <1>2, <3>1 DEF ReleasedUpTo, GivenUp
  <2> QED BY <2>1 DEF Owned
<1>5. Just(n)
  BY <1>2, <1>4, RestartReleasedJust
<1> HIDE DEF n
<1>6. TableFields \cup WaitFieldNames \cup {"owner"} \subseteq DOMAIN n
  BY <1>5, HeldFields DEF Just, MutexOk
<1>7. m.owner = n.owner /\ m.priority = n.priority /\ m.waiters = n.waiters
  BY <1>3, <1>6 DEF TableFields, WaitFieldNames
<1>8. Settled(m)
  BY <1>5, <1>7, SettledKept DEF Just
<1> QED BY <1>1, <1>8, JustBy DEF Restarted, m

LEMMA ExpireLocksJust ==
  ASSUME ListsFit, NEW k, Just(k), NEW due
  PROVE  Just(ExpireLocks(k, due))
<1> DEFINE l == ExpireTimeouts(k, due)
           n == RefreshPriorities(l)
           m == ExpireLocks(k, due)
<1>1. MutexOk(k) /\ MutexHeld(k) /\ Sound(k) /\ Settled(k) /\ OpsMatch(k)
  BY DEF Just, MutexOk, MutexHeld
<1>2. Calm(k, l) /\ Goes(k, m) /\ ExpiredUpTo(k, l, due, NumProcesses)
  BY <1>1, ExpireCalm, ExpireLocksGoes, ExpireTimeoutsSound
<1>3. m = IF LockExpires(k, due) THEN n ELSE l
  BY DEF ExpireLocks
<1> HIDE DEF l, m
<1>4. /\ MutexOk(l) /\ MutexHeld(l) /\ Sound(l) /\ Passes(k, l)
      /\ l.owner = k.owner /\ l.priority = k.priority
  BY <1>2 DEF Calm, MutexOk, MutexHeld
<1>5. ASSUME NEW j \in Process
      PROVE  WaitersOf(l, j) \subseteq WaitersOf(k, j)
  <2>1. \A x \in MutexId : \A w \in Process : IsIn(l.waiters[x], w) => IsIn(k.waiters[x], w)
    BY <1>1, <1>4, WaitersShrink
  <2> QED BY <1>4, <2>1 DEF WaitersOf, Owned
<1>6. CASE LockExpires(k, due)
  <2>1. \A j \in Process : Enough(l, j)
    BY <1>1, <1>4, <1>5 DEF Settled, Enough
  <2>2. OpsMatch(l)
    BY <1>1, <1>4 DEF OpsMatch, Passes, WaitsFewer
  <2>3. Linked(l, NoProcess) /\ WalkOk(l) /\ NothingOwed(l)
    BY <1>4, <2>2, JustLinked, HeldFields DEF MutexOk
  <2>4. Lowered(l, n, {})
    BY <2>1, <2>3, RefreshSettles
  <2> HIDE DEF n
  <2>5. Settled(m)
    BY <1>3, <1>6, <2>4 DEF Lowered, Settled
  <2> QED BY <1>2, <2>5, JustBy DEF Goes, m
<1>7. CASE ~LockExpires(k, due)
  <2>1. ASSUME NEW x \in MutexId, NEW w \in Process, IsIn(k.waiters[x], w)
        PROVE  IsIn(l.waiters[x], w)
    <3>1. x \in WaitList /\ x # NoList
      BY MutexLists, IpcAssumption DEF WaitList, NoList
    <3>2. Waits(k, w) /\ k.waitlist[w] = x
      BY <1>1, <2>1, <3>1 DEF Sound, WaitsSound
    <3>3. k.op[w] = LockOp(x)
      BY <1>1, <3>2 DEF OpsMatch
    <3>4. k.op[w].kind = "MUTEX_LOCK"
      BY <3>3 DEF LockOp
    <3>5. ~Expires(k, due, w)
      BY <1>7, <3>4 DEF LockExpires
    <3>6. SameProcess(k, l, w)
      BY <1>2, <3>5 DEF ExpiredUpTo
    <3>7. Waits(l, w) /\ l.waitlist[w] = x
      BY <3>2, <3>6 DEF SameProcess, Waits
    <3> QED BY <1>4, <3>1, <3>7 DEF Sound, WaitsSound
  <2>2. \A j \in Process : WaitersOf(l, j) = WaitersOf(k, j)
    BY <1>4, <1>5, <2>1 DEF WaitersOf, Owned
  <2>3. Settled(l)
    BY <1>1, <1>4, <2>2 DEF Settled, Enough, Caused
  <2> QED BY <1>2, <1>3, <1>7, <2>3, JustBy DEF Goes, m
<1> QED BY <1>6, <1>7

LEMMA ReleaseWaitsJust ==
  ASSUME NEW k, Just(k), NEW due
  PROVE  Just(ReleaseWaits(k, due))
<1>1. PICK f : /\ ReleaseWaits(k, due) = f[NumProcesses]
               /\ f[0] = k
               /\ \A n \in Process : f[n + 1] = ReleaseWait(f[n], due, n)
  BY WaitsUnfold
<1>2. NumProcesses \in Nat
  BY ConfigAssumption
<1> DEFINE S == {n \in 0 .. NumProcesses : Just(f[n])}
<1>3. 0 \in S
  BY <1>1, <1>2
<1>4. ASSUME NEW n \in 0 .. NumProcesses, n \in S, n < NumProcesses
      PROVE  n + 1 \in S
  <2>1. n \in Process /\ f[n + 1] = ReleaseWait(f[n], due, n) /\ Just(f[n])
    BY <1>1, <1>2, <1>4 DEF Process
  <2>2. Calm(f[n], f[n + 1]) /\ f[n + 1].waiters = f[n].waiters
    BY <2>1, ReleaseWaitCalm DEF Just
  <2>3. Just(f[n + 1])
    BY <2>1, <2>2, CalmJust
  <2> QED BY <1>2, <1>4, <2>3
<1>5. 0 .. NumProcesses \subseteq S
  <2> HIDE DEF S
  <2> QED BY <1>2, <1>3, <1>4, UpToInduction
<1> QED BY <1>1, <1>2, <1>5

LEMMA SelectJust ==
  ASSUME NEW k, Just(k), NEW p \in Partition, NEW y \in BOOLEAN
  PROVE  Just(PartitionSelect(k, p, y))
<1> DEFINE m == PartitionSelect(k, p, y)
<1>1. Calm(k, m) /\ m.waiters = k.waiters
  BY SelectCalm DEF Just
<1> HIDE DEF m
<1> QED BY <1>1, CalmJust DEF m

LEMMA HandleMissesJust ==
  ASSUME ListsFit, NEW k, Just(k), NEW c, NEW missed
  PROVE  Just(HandleMisses(k, c, missed).table)
<1>1. PICK f : /\ HandleMisses(k, c, missed) = f[NumProcesses]
               /\ f[0] = [table |-> k, cpu |-> c]
               /\ \A n \in Process : f[n + 1] = HandleMiss(f[n], missed, n)
  BY MissesUnfold
<1>2. NumProcesses \in Nat
  BY ConfigAssumption
<1> DEFINE S == {n \in 0 .. NumProcesses : Just(f[n].table)}
<1>3. 0 \in S
  <2>1. f[0].table = k
    BY <1>1
  <2> QED BY <1>2, <2>1
<1>4. ASSUME NEW n \in 0 .. NumProcesses, n \in S, n < NumProcesses
      PROVE  n + 1 \in S
  <2> DEFINE l == Restart(f[n].table, n)
  <2>1. n \in Process /\ f[n + 1] = HandleMiss(f[n], missed, n) /\ Just(f[n].table)
    BY <1>1, <1>2, <1>4 DEF Process
  <2>2. Just(l) /\ PartitionOf[n] \in Partition
    BY <2>1, RestartJust, ConfigAssumption
  <2>3. f[n + 1].table \in {f[n].table, l, PartitionSelect(l, PartitionOf[n], TRUE)}
    BY <2>1 DEF HandleMiss, AfterMiss, PartitionYield
  <2> HIDE DEF l
  <2>4. Just(PartitionSelect(l, PartitionOf[n], TRUE))
    BY <2>2, SelectJust
  <2>5. Just(f[n + 1].table)
    BY <2>1, <2>2, <2>3, <2>4
  <2> QED BY <1>2, <1>4, <2>5
<1>5. 0 .. NumProcesses \subseteq S
  <2> HIDE DEF S
  <2> QED BY <1>2, <1>3, <1>4, UpToInduction
<1> QED BY <1>1, <1>2, <1>5

-----------------------------------------------------------------------------
(* So does a lock: the owner is raised before the caller waits for it, and *)
(* lowered again if the caller cannot.                                     *)

LEMMA LockFreeJust ==
  ASSUME NEW k, Just(k), NEW x \in MutexId, k.owner[x] = NoProcess, NEW i \in Process,
         PartitionOf[i] = MutexPartition[x]
  PROVE  Just([k EXCEPT !.owner[x] = i])
<1> DEFINE m == [k EXCEPT !.owner[x] = i]
<1>1. MutexOk(k) /\ HasOwner(k, x) /\ OwnerType(k)
  BY DEF Just, MutexOk, MutexHeld
<1>2. TableFields \cup WaitFieldNames \cup {"owner"} \subseteq DOMAIN k
  BY <1>1, HeldFields DEF MutexOk
<1>3. MutexOk(m) /\ m.owner = [k.owner EXCEPT ![x] = i]
  BY <1>1, LockFreeOk
<1>4. /\ m.waiters = k.waiters /\ m.priority = k.priority /\ m.state = k.state
      /\ m.waitlist = k.waitlist /\ m.op = k.op
  BY <1>2 DEF TableFields, WaitFieldNames
<1> HIDE DEF m
<1>5. \A y \in MutexId : m.owner[y] = IF y = x THEN i ELSE k.owner[y]
  BY <1>1, <1>3 DEF OwnerType
<1>6. \A w : ~IsIn(k.waiters[x], w)
  BY <1>1 DEF HasOwner, IsIn
<1>7. \A j \in Process : WaitersOf(m, j) = WaitersOf(k, j)
  <2>1. NoProcess \notin Process
    BY ConfigAssumption DEF Process, NoProcess
  <2> QED BY <1>4, <1>5, <1>6, <2>1 DEF WaitersOf, Owned
<1>8. Settled(m)
  BY <1>4, <1>7 DEF Just, Settled, Enough, Caused
<1>9. OpsMatch(m) /\ OwnersLocal(m)
  BY <1>4, <1>5 DEF Just, OpsMatch, OwnersLocal, Waits
<1> QED BY <1>3, <1>8, <1>9 DEF Just, m

\* A walk that raises leaves all but the owner where it began at what they are
\* owed; that one is at the claim, or at what it is owed.
LEMMA AfterRaise ==
  ASSUME NEW k, WalkOk(k), Settled(k), Linked(k, NoProcess), NEW l, NEW a \in Process,
         NEW d \in Priority, Raised(k, l, a, d)
  PROVE  /\ \A j \in Process : Enough(l, j)
         /\ \A j \in Process : j # a => Caused(l, j)
         /\ l.priority[a] <= d /\ (Caused(l, a) \/ l.priority[a] = d)
         /\ \A j \in Process : k.priority[j] = d => l.priority[j] = d
<1>1. PICK V \in SUBSET Process : RaisedIn(k, l, a, d, V)
  BY DEF Raised
<1>2. Reprioritised(k, l) /\ NoProcess \notin Process
  BY ConfigAssumption DEF Raised, Process, NoProcess
<1>3. \A i : WaitersOf(l, i) = WaitersOf(k, i)
  BY <1>2, LinkedKept
<1>4. d \in Nat /\ \A j \in Process : k.priority[j] \in Nat /\ BasePriority[j] \in Nat
  <2>1. k.priority \in [Process -> Priority]
    BY DEF WalkOk, Consistent, TableType, TablePart
  <2> QED BY <2>1, ConfigAssumption DEF Priority
<1>5. \A j \in Process : /\ j \in V => l.priority[j] = Urgent(k.priority[j], d)
                         /\ j \notin V => l.priority[j] = k.priority[j]
  BY <1>1 DEF RaisedIn
<1>6. \A w \in Process : /\ l.priority[w] \in Nat /\ l.priority[w] <= k.priority[w]
                         /\ (w \in V => l.priority[w] <= d)
                         /\ (l.priority[w] = k.priority[w] \/ (w \in V /\ l.priority[w] = d))
                         /\ (k.priority[w] = d => l.priority[w] = d)
  BY <1>4, <1>5 DEF Urgent
<1>7. ASSUME NEW j \in Process, NEW w \in WaitersOf(k, j), w \in V
      PROVE  j \in V
  BY <1>1, <1>2, <1>7 DEF RaisedIn, Linked
<1>8. ASSUME NEW j \in Process
      PROVE  Enough(l, j)
  <2>1. Enough(k, j)
    BY DEF Settled
  <2>2. l.priority[j] <= BasePriority[j]
    BY <1>4, <1>6, <2>1 DEF Enough
  <2>3. ASSUME NEW w \in WaitersOf(k, j)
        PROVE  l.priority[j] <= l.priority[w]
    <3>1. w \in Process /\ k.priority[j] <= k.priority[w]
      BY <2>1 DEF Enough, WaitersOf
    <3>2. w \in V => j \in V
      BY <1>7
    <3> QED BY <1>4, <1>6, <3>1, <3>2
  <2> QED BY <1>3, <2>2, <2>3 DEF Enough
<1>9. ASSUME NEW j \in Process, l.priority[j] = k.priority[j]
      PROVE  Caused(l, j)
  <2>1. Caused(k, j)
    BY DEF Settled
  <2>2. CASE BasePriority[j] <= k.priority[j]
    BY <1>9, <2>2 DEF Caused
  <2>3. CASE \E w \in WaitersOf(k, j) : k.priority[w] <= k.priority[j]
    <3>1. PICK w \in WaitersOf(k, j) : k.priority[w] <= k.priority[j]
      BY <2>3
    <3>2. l.priority[w] <= l.priority[j]
      BY <1>4, <1>6, <1>9, <3>1 DEF WaitersOf
    <3> QED BY <1>3, <3>1, <3>2 DEF Caused
  <2> QED BY <2>1, <2>2, <2>3 DEF Caused
<1>10. ASSUME NEW j \in Process, j # a, j \in V, l.priority[j] = d
       PROVE  Caused(l, j)
  <2>1. PICK w \in V : Onward(k, w) = j
    BY <1>1, <1>10 DEF RaisedIn
  <2>2. w \in WaitersOf(k, j) /\ w \in Process
    BY <1>2, <2>1 DEF Linked
  <2>3. l.priority[w] <= l.priority[j]
    BY <1>6, <1>10, <2>1, <2>2
  <2> QED BY <1>3, <2>2, <2>3 DEF Caused
<1>11. a \in V
  BY <1>1 DEF RaisedIn
<1> QED BY <1>6, <1>8, <1>9, <1>10, <1>11

\* The caller blocks on x, whose owner it has raised.
LEMMA BlockJust ==
  ASSUME NEW l, MutexOk(l), OpsMatch(l), OwnersLocal(l), NEW x \in MutexId, NEW i \in Process,
         l.state[i] = "RUNNING", PartitionOf[i] = MutexPartition[x],
         l.owner[x] \in Process \ {i}, NEW wake \in {Armed, NoTick},
         BlockCurrentStatus(l, i, x) = "OK",
         \A j \in Process : Enough(l, j),
         \A j \in Process : j # l.owner[x] => Caused(l, j),
         l.priority[l.owner[x]] <= l.priority[i],
         Caused(l, l.owner[x]) \/ l.priority[l.owner[x]] = l.priority[i]
  PROVE  Just(BlockCurrent(l, i, x, wake, LockOp(x)))
<1> DEFINE n == BlockCurrent(l, i, x, wake, LockOp(x))
           a == l.owner[x]
<1>1. MutexHeld(l) /\ Sound(l) /\ x \in WaitList /\ CallsType(l) /\ IpcType(l)
  BY MutexLists DEF MutexOk, MutexHeld, Sound
<1>2. TableFields \cup WaitFieldNames \cup {"owner"} \subseteq DOMAIN l
  BY <1>1, HeldFields
<1>3. OnList(l, n, i, x, wake, LockOp(x)) /\ Locked(l, n)
  BY <1>1, BlockCurrentSound, BlockOnLockOk
<1>4. n.priority = l.priority
  BY <1>2, BlockCurrentPriority DEF TableFields
<1> HIDE DEF n
<1>5. n.owner = l.owner /\ MutexOk(n)
  BY <1>3 DEF Locked
<1>6. ASSUME NEW j \in Process
      PROVE  /\ n.waitlist[j] = IF j = i THEN x ELSE l.waitlist[j]
             /\ n.op[j] = IF j = i THEN LockOp(x) ELSE l.op[j]
             /\ n.state[j] = "BLOCKED" <=> l.state[j] = "BLOCKED" \/ j = i
  <2>1. /\ n.waitlist = [l.waitlist EXCEPT ![i] = x]
        /\ n.op = [l.op EXCEPT ![i] = LockOp(x)]
    BY <1>3 DEF OnList
  <2> QED BY <1>1, <1>3, <2>1 DEF IpcType, CallsType, OnList, GivesWay
<1>7. OpsMatch(n) /\ OwnersLocal(n)
  BY <1>5, <1>6 DEF OpsMatch, OwnersLocal, Waits
<1>8. ASSUME NEW y \in MutexId, NEW j \in Process
      PROVE  IsIn(n.waiters[y], j) <=> IsIn(l.waiters[y], j) \/ (y = x /\ j = i)
  <2>1. y \in WaitList /\ y # NoList /\ Sound(n) /\ x # NoList
    BY <1>3, MutexLists, IpcAssumption DEF WaitList, NoList, OnList
  <2>2. IsIn(l.waiters[y], j) <=> Waits(l, j) /\ l.waitlist[j] = y
    BY <1>1, <2>1 DEF Sound, WaitsSound
  <2>3. IsIn(n.waiters[y], j) <=> Waits(n, j) /\ n.waitlist[j] = y
    BY <2>1 DEF Sound, WaitsSound
  <2>4. l.state[i] # "BLOCKED"
    OBVIOUS
  <2> QED BY <1>6, <2>1, <2>2, <2>3, <2>4 DEF Waits
<1>9. ASSUME NEW j \in Process, NEW w \in Process
      PROVE  w \in WaitersOf(n, j) <=> w \in WaitersOf(l, j) \/ (j = a /\ w = i)
  BY <1>5, <1>8 DEF WaitersOf, Owned
<1>10. \A j : WaitersOf(n, j) \subseteq Process /\ WaitersOf(l, j) \subseteq Process
  BY DEF WaitersOf
<1>11. \A j \in Process : n.priority[j] \in Nat
  BY <1>5, SoundTypes DEF MutexOk, MutexHeld, Priority
<1>12. ASSUME NEW j \in Process
       PROVE  Enough(n, j)
  <2> HIDE DEF a
  <2>1. Enough(l, j) /\ l.priority[a] <= l.priority[i]
    BY DEF a
  <2> QED BY <1>4, <1>9, <1>10, <2>1 DEF Enough
<1>13. ASSUME NEW j \in Process
       PROVE  Caused(n, j)
  <2>1. CASE Caused(l, j)
    BY <1>4, <1>9, <1>10, <2>1 DEF Caused
  <2>2. CASE ~Caused(l, j)
    <3>1. j = a /\ n.priority[j] = n.priority[i]
      BY <1>4, <2>2
    <3>2. i \in WaitersOf(n, j)
      BY <1>9, <3>1
    <3>3. n.priority[i] <= n.priority[j]
      BY <1>11, <3>1
    <3> QED BY <3>2, <3>3 DEF Caused
  <2> QED BY <2>1, <2>2
<1> QED BY <1>5, <1>7, <1>12, <1>13 DEF Just, Settled, n

\* The caller cannot block, and the owner of x is lowered again.
LEMMA NotBlockedJust ==
  ASSUME ListsFit,
         NEW l, MutexOk(l), OpsMatch(l), OwnersLocal(l), NEW x \in MutexId, NEW i \in Process,
         l.state[i] = "RUNNING", PartitionOf[i] = MutexPartition[x],
         l.owner[x] \in Process \ {i}, NEW wake,
         BlockCurrentStatus(l, i, x) # "OK",
         \A j \in Process : Enough(l, j),
         \A j \in Process : j # l.owner[x] => Caused(l, j)
  PROVE  Just(RefreshChain(BlockCurrent(l, i, x, wake, LockOp(x)), l.owner[x], NoClaim))
<1> DEFINE n == BlockCurrent(l, i, x, wake, LockOp(x))
           a == l.owner[x]
           m == RefreshChain(n, a, NoClaim)
<1>1. MutexHeld(l) /\ Sound(l) /\ x \in WaitList /\ CallsType(l)
  BY MutexLists DEF MutexOk, MutexHeld
<1>2. TableFields \cup WaitFieldNames \cup {"owner"} \subseteq DOMAIN l
  BY <1>1, HeldFields
<1>3. NotBlocked(l, n, i) /\ Locked(l, n)
  BY <1>1, BlockCurrentSound, NotBlockedOk
<1> HIDE DEF n
<1>4. /\ n.owner = l.owner /\ n.waiters = l.waiters /\ n.priority = l.priority
      /\ n.state = l.state /\ n.waitlist = l.waitlist
      /\ n.op = [l.op EXCEPT ![i] = n.op[i]]
  BY <1>2, <1>3 DEF NotBlocked, SameBut, TableFields, WaitFieldNames
<1>5. MutexOk(n) /\ MutexHeld(n)
  BY <1>3 DEF Locked, MutexOk
<1>6. OpsMatch(n) /\ OwnersLocal(n)
  <2>1. \A j \in Process : j # i => n.op[j] = l.op[j]
    BY <1>1, <1>4 DEF CallsType
  <2>2. ~Waits(n, i)
    BY <1>4 DEF Waits
  <2>3. ASSUME NEW j \in Process, Waits(n, j)
        PROVE  Waits(l, j) /\ n.waitlist[j] = l.waitlist[j] /\ n.op[j] = l.op[j]
    BY <1>4, <2>1, <2>2, <2>3 DEF Waits
  <2> QED BY <1>4, <2>3 DEF OpsMatch, OwnersLocal
<1>7. \A j : WaitersOf(n, j) = WaitersOf(l, j)
  BY <1>4 DEF WaitersOf, Owned
<1>8. /\ \A j \in Process : Enough(n, j)
      /\ \A j \in Process : j # a => Caused(n, j)
  BY <1>4, <1>7 DEF Enough, Caused
<1>9. Linked(n, NoProcess) /\ WalkOk(n)
  BY <1>5, <1>6, JustLinked, HeldFields
<1>10. a \in Process /\ a # NoProcess /\ n.owner[x] = a
  BY <1>4, ConfigAssumption DEF Process, NoProcess
<1>11. NoClaim \in Priority \cup {NoClaim}
  OBVIOUS
<1>12. Locked(n, m)
  <2>1. Locked(n, RefreshChain(n, n.owner[x], NoClaim))
    BY <1>5, <1>10, <1>11, WalkFromOwner
  <2> QED BY <1>10, <2>1
<1> HIDE DEF a
<1>13. Lowered(n, m, {})
  BY <1>8, <1>9, <1>10, ChainLowers
<1> HIDE DEF m
<1>14. Settled(m) /\ Passes(n, m) /\ MutexOk(m)
  BY <1>5, <1>12, <1>13, ReprioritisedHeld DEF Lowered, Settled, Locked
<1>15. m.owner = n.owner /\ \A j \in Process : Waits(m, j) => Waits(n, j)
                /\ m.waitlist[j] = n.waitlist[j] /\ m.op[j] = n.op[j]
  BY <1>12, <1>14 DEF Locked, Passes, WaitsFewer
<1>16. OpsMatch(m) /\ OwnersLocal(m)
  BY <1>6, <1>15 DEF OpsMatch, OwnersLocal
<1> QED BY <1>14, <1>16 DEF Just, m, n, a

LEMMA LockBusyJust ==
  ASSUME ListsFit, NEW k, Just(k), NEW x \in MutexId, NEW i \in Process,
         k.state[i] = "RUNNING", PartitionOf[i] = MutexPartition[x],
         k.owner[x] \in Process \ {i}, NEW wake \in {Armed, NoTick}
  PROVE  Just(LockBusy(k, i, x, wake))
<1> DEFINE a == k.owner[x]
           d == k.priority[i]
           l == RefreshChain(k, a, d)
<1>1. MutexOk(k) /\ MutexHeld(k) /\ WalkOk(k) /\ Settled(k) /\ Linked(k, NoProcess)
  BY JustLinked, HeldFields DEF Just, MutexOk
<1>2. d \in Priority
  BY <1>1, SoundTypes DEF MutexHeld
<1>3. Locked(k, l) /\ l.state = k.state
  BY <1>1, <1>2, WalkFromOwner
<1>4. Raised(k, l, a, d)
  BY <1>1, <1>2, ChainRaises
<1>5. LockBusy(k, i, x, wake) = BlockOnLock(l, i, x, wake)
  BY DEF LockBusy
<1> HIDE DEF l
<1>6. k.priority[i] = d
  BY DEF d
<1>7. /\ \A j \in Process : Enough(l, j)
      /\ \A j \in Process : j # a => Caused(l, j)
      /\ l.priority[a] <= d /\ (Caused(l, a) \/ l.priority[a] = d)
      /\ l.priority[i] = d
  <2>1. /\ \A j \in Process : Enough(l, j)
        /\ \A j \in Process : j # a => Caused(l, j)
        /\ l.priority[a] <= d /\ (Caused(l, a) \/ l.priority[a] = d)
        /\ \A j \in Process : k.priority[j] = d => l.priority[j] = d
    <3>1. a \in Process
      OBVIOUS
    <3> HIDE DEF a, d
    <3> QED BY <1>1, <1>2, <1>4, <3>1, AfterRaise
  <2> QED BY <1>6, <2>1
<1>8. MutexOk(l) /\ l.owner = k.owner
  BY <1>3 DEF Locked
<1>9. OpsMatch(l) /\ OwnersLocal(l)
  <2>1. l.waitlist = k.waitlist /\ l.op = k.op
    BY <1>1, <1>4, ReprioritisedHeld DEF Raised
  <2> QED BY <1>3, <1>8, <2>1 DEF Just, OpsMatch, OwnersLocal, Waits
<1>10. CASE BlockCurrentStatus(l, i, x) = "OK"
  BY <1>3, <1>5, <1>7, <1>8, <1>9, <1>10, BlockJust DEF BlockOnLock
<1>11. CASE BlockCurrentStatus(l, i, x) # "OK"
  BY <1>3, <1>5, <1>7, <1>8, <1>9, <1>11, NotBlockedJust DEF BlockOnLock
<1> QED BY <1>10, <1>11

-----------------------------------------------------------------------------
(* The process on the CPU: nothing READY in its partition outranks it.     *)

Top(k, c) ==
  c # NoProcess =>
    \A j \in Process : PartitionOf[j] = PartitionOf[c] /\ k.state[j] = "READY" =>
      k.priority[c] <= k.priority[j]

LEMMA BestTops ==
  ASSUME NEW k, Sound(k), NEW p \in Partition, BestRuns(k, p)
  PROVE  Top(k, k.current[p])
<1> DEFINE t == TablePart(k)
           c == k.current[p]
<1> SUFFICES ASSUME c # NoProcess, NEW j \in Process,
                    PartitionOf[j] = PartitionOf[c], k.state[j] = "READY"
             PROVE  k.priority[c] <= k.priority[j]
  BY DEF Top
<1>1. PartitionOf[j] = p /\ k.priority[c] \in Nat /\ k.priority[j] \in Nat
  BY SoundTypes DEF Priority
<1>2. Queued(t, j)
  <2>1. Queued(k, j)
    BY DEF Sound, NoneLostOf
  <2> QED BY <2>1, TableRead
<1>3. t \in TableType /\ QueuesSound(t) /\ t.priority = k.priority
      /\ ReadyMask(t, p) = ReadyMask(k, p)
  BY TableRead DEF Sound, Consistent, TablePart
<1> HIDE DEF t
<1>4. k.priority[j] \in ReadyMask(k, p)
  BY <1>1, <1>2, <1>3, MaskHolds
<1>5. ~HasHigher(k, p, k.priority[c])
  BY DEF BestRuns
<1> QED BY <1>1, <1>4, <1>5 DEF HasHigher

LEMMA DispatchRuns ==
  ASSUME NEW k, MutexOk(k), NEW p \in Partition, NEW y \in BOOLEAN
  PROVE  BestRuns(PartitionSelect(k, p, y), p)
<1> DEFINE m == PartitionSelect(k, p, y)
           t == TablePart(k)
           u == PartitionSelect(t, p, y)
<1>1. Sound(k) /\ ~k.halted[p] /\ Extends(k) /\ Consistent(t)
  BY DEF MutexOk, MutexHeld, Sound, IpcType
<1>2. CASE SelectStatus(k, p, y) = "OK"
  <2>1. SelectStatus(t, p, y) = "OK"
    BY <1>1, <1>2, SelectRead
  <2>2. BestRuns(u, p)
    BY <1>1, <2>1, SelectRuns
  <2>3. TablePart(m) = u
    BY <1>1, LiftSelect DEF Lifts
  <2>4. u.ready = m.ready /\ u.priority = m.priority /\ u.current = m.current
    BY <2>3 DEF TablePart
  <2> HIDE DEF m, u
  <2>5. BestRuns(m, p)
    BY <2>2, <2>4 DEF BestRuns, HasHigher, ReadyMask
  <2> QED BY <2>5 DEF m
<1>3. CASE SelectStatus(k, p, y) # "OK"
  <2>1. m = k /\ k.current[p] = NoProcess
    BY <1>1, <1>3, SelectSound
  <2> QED BY <2>1 DEF BestRuns
<1> QED BY <1>2, <1>3

\* A caller that does not run after a lock has given way to the best.
LEMMA LockBusyRuns ==
  ASSUME NEW k, MutexOk(k), NEW x \in MutexId, NEW i \in Process,
         k.state[i] = "RUNNING", PartitionOf[i] = MutexPartition[x],
         k.owner[x] \in Process \ {i}, NEW wake \in {Armed, NoTick}
  PROVE  LET m == LockBusy(k, i, x, wake) IN
         m.state[i] = "RUNNING" \/ BestRuns(m, PartitionOf[i])
<1> DEFINE a == k.owner[x]
           l == RefreshChain(k, a, k.priority[i])
           n == BlockCurrent(l, i, x, wake, LockOp(x))
           m == LockBusy(k, i, x, wake)
<1>1. k.priority[i] \in Priority /\ a # NoProcess
  BY SoundTypes, ConfigAssumption DEF MutexOk, MutexHeld, Process, NoProcess
<1>2. Locked(k, l) /\ l.state = k.state
  BY <1>1, WalkFromOwner DEF MutexOk
<1>3. m = IF BlockCurrentStatus(l, i, x) = "OK" THEN n
          ELSE RefreshChain(n, l.owner[x], NoClaim)
  BY DEF LockBusy, BlockOnLock
<1> HIDE DEF l, m
<1>4. MutexOk(l) /\ Sound(l) /\ l.owner[x] = a /\ l.state[i] = "RUNNING" /\ x \in WaitList
  BY <1>2, MutexLists DEF Locked, MutexOk, MutexHeld
<1>5. CASE BlockCurrentStatus(l, i, x) = "OK"
  <2>1. OnList(l, n, i, x, wake, LockOp(x))
    BY <1>4, <1>5, BlockCurrentSound
  <2> HIDE DEF n
  <2>2. BestRuns(n, PartitionOf[i])
    BY <2>1 DEF OnList, GivesWay
  <2> QED BY <1>3, <1>5, <2>2 DEF m
<1>6. CASE BlockCurrentStatus(l, i, x) # "OK"
  <2>1. NotBlocked(l, n, i) /\ Locked(l, n)
    BY <1>4, <1>6, BlockCurrentSound, NotBlockedOk
  <2>2. TableFields \subseteq DOMAIN l
    BY <1>4 DEF Sound, IpcType, Extends
  <2> HIDE DEF n
  <2>3. n.state = l.state
    BY <2>1, <2>2 DEF NotBlocked, SameBut, TableFields
  <2>4. MutexOk(n) /\ n.owner[x] = a
    BY <1>4, <2>1 DEF Locked
  <2>5. RefreshChain(n, n.owner[x], NoClaim).state = n.state
    BY <2>4, WalkFromOwner
  <2> QED BY <1>3, <1>4, <1>6, <2>3, <2>4, <2>5 DEF m
<1> QED BY <1>5, <1>6

-----------------------------------------------------------------------------
(* Steps keep what is owed, and the best on the CPU.                       *)

\* The inductive invariant behind inheritance.
JInv == IInv /\ Just(sys) /\ Top(sys, cpu)

JustStep == Just(sys') /\ Top(sys', cpu')

LEMMA SwitchJust ==
  ASSUME NEW l, Just(l), cpu' \in Process \cup {NoProcess}, Top(l, cpu'),
         sys' = l \/ sys' = Deliver(l, cpu')
  PROVE  JustStep
<1>1. CASE sys' = l
  BY <1>1 DEF JustStep
<1>2. CASE sys' = Deliver(l, cpu')
  <2>1. Calm(l, sys') /\ sys'.state = l.state /\ sys'.waiters = l.waiters
    BY <1>2, DeliverCalm DEF Just
  <2>2. Just(sys')
    BY <2>1, CalmJust
  <2>3. Top(sys', cpu')
    BY <2>1 DEF Calm, Top
  <2> QED BY <2>2, <2>3 DEF JustStep
<1> QED BY <1>1, <1>2

LEMMA ResumeJust ==
  ASSUME NEW l, Just(l), NEW p \in Partition, BestRuns(l, p), Resume(l, p)
  PROVE  JustStep
<1>1. cpu' = l.current[p] /\ (sys' = l \/ sys' = Deliver(l, cpu'))
  BY DEF Resume
<1>2. l.current[p] \in Process \cup {NoProcess} /\ Top(l, l.current[p])
  BY CurrentIs, BestTops DEF Just, MutexOk, MutexHeld
<1> QED BY <1>1, <1>2, SwitchJust

LEMMA ReturnJust ==
  ASSUME IInv, cpu # NoProcess, NEW k, Just(k), Return(k),
         k.state[cpu] = "RUNNING" \/ BestRuns(k, PartitionOf[cpu])
  PROVE  JustStep
<1> DEFINE p == PartitionOf[cpu]
<1>1. PICK l \in {PreemptCheck(k, cpu)} : Resume(l, p)
  BY DEF Return
<1>2. p \in Partition /\ cpu \in Process
  BY CallerRuns
<1>3. CASE NeedsPreemption(k, cpu)
  <2>1. l = PartitionSelect(k, p, FALSE)
    BY <1>1, <1>3 DEF PreemptCheck, PartitionDispatch
  <2>2. Just(l) /\ BestRuns(l, p)
    BY <1>2, <2>1, SelectJust, DispatchRuns DEF Just
  <2> QED BY <1>1, <1>2, <2>2, ResumeJust
<1>4. CASE ~NeedsPreemption(k, cpu)
  <2>1. l = k
    BY <1>1, <1>4 DEF PreemptCheck
  <2>2. ASSUME k.state[cpu] = "RUNNING"
        PROVE  BestRuns(k, p)
    <3>1. k.current[p] = cpu
      BY <1>2, <2>2, SoundTypes DEF Just, MutexOk, MutexHeld
    <3> QED BY <1>4, <2>2, <3>1 DEF NeedsPreemption, BestRuns
  <2> QED BY <1>1, <1>2, <2>1, <2>2, ResumeJust
<1> QED BY <1>3, <1>4

LEMMA UnlockJust ==
  ASSUME ListsFit, JInv, NEW m \in MutexId, Unlock(m)
  PROVE  JustStep
<1>1. PICK k : k = HandOff(sys, m) /\ Return(k)
  BY DEF Unlock
<1>2. cpu # NoProcess /\ sys.owner[m] = cpu /\ cpu \in Process
      /\ sys.state[cpu] = "RUNNING" /\ IInv /\ Just(sys)
  BY CallerRuns DEF Unlock, JInv
<1>3. Just(k)
  BY <1>1, <1>2, HandOffJust
<1>4. k.state[cpu] = "RUNNING"
  <2>1. HandedOver(sys, k, m, cpu)
    BY <1>1, <1>2, HandOffSound DEF Just
  <2> QED BY <1>2, <2>1 DEF HandedOver, PassedOn, SameProcess
<1> QED BY <1>1, <1>2, <1>3, <1>4, ReturnJust

LEMMA LockJust ==
  ASSUME ListsFit, JInv, NEW m \in MutexId, NEW wake \in {Armed, NoTick}, Lock(m, wake)
  PROVE  JustStep
<1>1. PICK k : /\ k = IF sys.owner[m] = NoProcess THEN [sys EXCEPT !.owner[m] = cpu]
                      ELSE LockBusy(sys, cpu, m, wake)
               /\ Return(k)
  BY DEF Lock
<1>2. /\ cpu # NoProcess /\ MutexPartition[m] = PartitionOf[cpu] /\ sys.owner[m] # cpu
      /\ cpu \in Process /\ sys.state[cpu] = "RUNNING"
      /\ IInv /\ Just(sys) /\ MutexOk(sys)
  BY CallerRuns DEF Lock, JInv, Just
<1>3. CASE sys.owner[m] = NoProcess
  <2>1. Just(k) /\ k.state = sys.state
    BY <1>1, <1>2, <1>3, LockFreeJust, LockFreeOk
  <2> QED BY <1>1, <1>2, <2>1, ReturnJust
<1>4. CASE sys.owner[m] # NoProcess
  <2>1. sys.owner[m] \in Process \ {cpu}
    BY <1>2, <1>4 DEF MutexOk, MutexHeld, OwnerType
  <2>2. Just(k)
    BY <1>1, <1>2, <1>4, <2>1, LockBusyJust
  <2>3. k.state[cpu] = "RUNNING" \/ BestRuns(k, PartitionOf[cpu])
    BY <1>1, <1>2, <1>4, <2>1, LockBusyRuns
  <2> QED BY <1>1, <1>2, <2>2, <2>3, ReturnJust
<1> QED BY <1>3, <1>4

LEMMA WaitJust ==
  ASSUME JInv, Wait
  PROVE  JustStep
<1> DEFINE l == Sleep(sys, cpu)
           p == PartitionOf[cpu]
<1>1. PICK k : k = [l EXCEPT !.wake[cpu] = Armed] /\ Resume(k, p)
  BY DEF Wait
<1>2. cpu \in Process /\ sys.state[cpu] = "RUNNING" /\ p \in Partition
      /\ Just(sys) /\ MutexOk(sys) /\ Sound(sys) /\ ~sys.halted[p]
  BY CallerRuns DEF Wait, JInv, Just, MutexOk, MutexHeld
<1>3. Calm(sys, k) /\ k.waiters = sys.waiters
  BY <1>1, <1>2, SleepCalm
<1>4. Just(k)
  BY <1>2, <1>3, CalmJust
<1>5. Asleep(sys, l, cpu)
  BY <1>2, SleepSound
<1>6. k.current = l.current /\ k.ready = l.ready /\ k.priority = l.priority
  BY <1>1
<1> HIDE DEF l
<1>7. BestRuns(k, p)
  BY <1>5, <1>6 DEF Asleep, BestRuns, HasHigher, ReadyMask
<1> QED BY <1>1, <1>2, <1>4, <1>7, ResumeJust

LEMMA YieldJust ==
  ASSUME JInv, Yield
  PROVE  JustStep
<1>1. PICK k : k = PartitionSelect(sys, PartitionOf[cpu], TRUE)
               /\ Resume(k, PartitionOf[cpu])
  BY DEF Yield, PartitionYield
<1>2. PartitionOf[cpu] \in Partition /\ Just(sys) /\ MutexOk(sys)
  BY CallerRuns DEF Yield, JInv, Just
<1>3. Just(k) /\ BestRuns(k, PartitionOf[cpu])
  BY <1>1, <1>2, SelectJust, DispatchRuns
<1> QED BY <1>1, <1>2, <1>3, ResumeJust

LEMMA FaultJust ==
  ASSUME ListsFit, JInv, Fault
  PROVE  JustStep
<1> DEFINE l == Restart(sys, cpu)
           p == PartitionOf[cpu]
<1>1. PICK k : k = PartitionSelect(l, p, TRUE)
               /\ cpu' = k.current[p] /\ sys' = Deliver(k, cpu')
  BY DEF Fault, PartitionYield
<1>2. cpu \in Process /\ p \in Partition /\ Just(sys)
  BY CallerRuns DEF Fault, JInv
<1>3. Just(l)
  BY <1>2, RestartJust
<1> HIDE DEF l
<1>4. Just(k) /\ BestRuns(k, p) /\ MutexOk(k)
  BY <1>1, <1>2, <1>3, SelectJust, DispatchRuns DEF Just
<1>5. cpu' \in Process \cup {NoProcess} /\ Top(k, cpu')
  BY <1>1, <1>2, <1>4, CurrentIs, BestTops DEF MutexOk, MutexHeld
<1> QED BY <1>1, <1>4, <1>5, SwitchJust

LEMMA TickJust ==
  ASSUME ListsFit, JInv, NEW p \in Partition, NEW due, NEW missed, Tick(p, due, missed)
  PROVE  JustStep
<1> DEFINE h == HandleMisses(sys, cpu, missed)
           e == ExpireLocks(h.table, due)
           k == ReleaseWaits(e, due)
           l == PartitionSelect(k, p, FALSE)
<1>1. /\ cpu' = IF SelectStatus(k, p, FALSE) = "OK" THEN l.current[p] ELSE NoProcess
      /\ sys' = IF cpu' = h.cpu THEN l ELSE Deliver(l, cpu')
  BY DEF Tick, PartitionDispatch
<1>2. Just(h.table)
  BY HandleMissesJust DEF JInv
<1> HIDE DEF h
<1>3. Just(e)
  BY <1>2, ExpireLocksJust
<1> HIDE DEF e
<1>4. Just(k)
  BY <1>3, ReleaseWaitsJust
<1> HIDE DEF k
<1>5. Just(l) /\ BestRuns(l, p)
  BY <1>4, SelectJust, DispatchRuns DEF Just
<1> HIDE DEF l
<1>6. l.current[p] \in Process \cup {NoProcess} /\ Top(l, l.current[p])
  BY <1>5, CurrentIs, BestTops DEF Just, MutexOk, MutexHeld
<1>7. cpu' \in Process \cup {NoProcess} /\ Top(l, cpu')
  BY <1>1, <1>6 DEF Top
<1> QED BY <1>1, <1>5, <1>7, SwitchJust

LEMMA VarsJust ==
  ASSUME ListsFit, JInv, [Next]_vars
  PROVE  JustStep
<1>1. CASE Next
  <2>1. CASE \E m \in MutexId : Unlock(m)
    BY <2>1, UnlockJust
  <2>2. CASE \E m \in MutexId : \E wake \in {Armed, NoTick} : Lock(m, wake)
    BY <2>2, LockJust
  <2>3. CASE Wait
    BY <2>3, WaitJust
  <2>4. CASE Yield
    BY <2>4, YieldJust
  <2>5. CASE Fault
    BY <2>5, FaultJust
  <2>6. CASE \E p \in Partition, due, missed \in SUBSET Process : Tick(p, due, missed)
    BY <2>6, TickJust
  <2> QED BY <1>1, <2>1, <2>2, <2>3, <2>4, <2>5, <2>6 DEF Next
<1>2. CASE UNCHANGED vars
  <2>1. sys' = sys /\ cpu' = cpu
    BY <1>2 DEF vars
  <2> QED BY <2>1 DEF JInv, JustStep
<1> QED BY <1>1, <1>2

LEMMA InitJust ==
  ASSUME Init
  PROVE  JInv
<1> DEFINE g == [owner |-> [m \in MutexId |-> NoProcess]]
           k == Merge(Merge(Registered, WaitFields), g)
<1>1. 0 \in Partition /\ sys = PartitionSelect(k, 0, FALSE) /\ cpu = sys.current[0]
  BY ConfigAssumption DEF Init, Partition, PartitionDispatch
<1>2. IInv /\ MutexOk(k) /\ k.owner = [m \in MutexId |-> NoProcess]
      /\ k.priority = BasePriority /\ k.state = [i \in Process |-> "READY"]
  BY InitOk, BootOk
<1> HIDE DEF k
<1>3. NoProcess \notin Process
  BY ConfigAssumption DEF Process, NoProcess
<1>4. \A j \in Process : WaitersOf(k, j) = {}
  BY <1>2, <1>3 DEF WaitersOf, Owned
<1>5. Settled(k)
  <2>1. \A j \in Process : BasePriority[j] \in Nat
    BY ConfigAssumption DEF Priority
  <2> QED BY <1>2, <1>4, <2>1 DEF Settled, Enough, Caused
<1>6. Just(k)
  BY <1>2, <1>5 DEF Just, OpsMatch, OwnersLocal, Waits
<1>7. Just(sys) /\ BestRuns(sys, 0)
  BY <1>1, <1>6, SelectJust, DispatchRuns DEF Just
<1>8. Top(sys, cpu)
  BY <1>1, <1>7, BestTops DEF Just, MutexOk, MutexHeld
<1> QED BY <1>2, <1>7, <1>8 DEF JInv

-----------------------------------------------------------------------------
(* From the direct waiters to all that wait for a process.                 *)

LEMMA BlockedOnIs ==
  ASSUME Just(sys)
  PROVE  /\ \A w \in Process : BlockedOn(w) \in Process \cup {NoProcess}
         /\ \A w, j \in Process : BlockedOn(w) = j <=> w \in WaitersOf(sys, j)
         /\ \A w, j \in Process : BlockedOn(w) = j => PartitionOf[w] = PartitionOf[j]
<1>1. /\ MutexHeld(sys) /\ OpsMatch(sys) /\ OwnersLocal(sys) /\ OwnerType(sys)
      /\ WaitsSound(sys) /\ NoProcess \notin Process
  BY ConfigAssumption DEF Just, MutexOk, MutexHeld, Sound, Process, NoProcess
<1>2. ASSUME NEW w \in Process
      PROVE  BlockedOn(w) \in Process \cup {NoProcess}
  BY <1>1 DEF BlockedOn, OpsMatch, OwnerType
<1>3. ASSUME NEW w \in Process, NEW x \in MutexId
      PROVE  IsIn(sys.waiters[x], w) <=> Waits(sys, w) /\ sys.waitlist[w] = x
  BY <1>1, MutexLists DEF WaitsSound
<1>4. ASSUME NEW w \in Process, NEW j \in Process
      PROVE  BlockedOn(w) = j <=> w \in WaitersOf(sys, j)
  BY <1>1, <1>3 DEF BlockedOn, OpsMatch, WaitersOf, Owned
<1>5. ASSUME NEW w \in Process, NEW j \in Process, BlockedOn(w) = j
      PROVE  PartitionOf[w] = PartitionOf[j]
  <2>1. PICK x \in MutexId : sys.owner[x] = j /\ IsIn(sys.waiters[x], w)
    BY <1>4, <1>5 DEF WaitersOf, Owned
  <2> QED BY <1>1, <2>1 DEF MutexHeld, HasOwner, OwnersLocal
<1> QED BY <1>2, <1>4, <1>5

OwnerAfter(j) == IF j = NoProcess THEN NoProcess ELSE BlockedOn(j)

LEMMA WaitsForUnfolds ==
  ASSUME NEW i
  PROVE  \E f : /\ WaitsFor(i) = {f[n] : n \in 0 .. NumProcesses} \ {NoProcess}
                /\ f[0] = BlockedOn(i)
                /\ \A n \in Process : f[n + 1] = OwnerAfter(f[n])
<1> DEFINE G(N, f) == f = [n \in 0 .. N |-> IF n = 0 THEN BlockedOn(i)
                             ELSE IF f[n - 1] = NoProcess THEN NoProcess
                             ELSE BlockedOn(f[n - 1])]
           S == {N \in 0 .. NumProcesses : \E f : G(N, f)}
<1>0. NumProcesses \in Nat
  BY ConfigAssumption
<1>1. 0 \in S
  <2>1. G(0, [n \in 0 .. 0 |-> BlockedOn(i)])
    OBVIOUS
  <2> HIDE DEF G
  <2> QED BY <1>0, <2>1
<1>2. ASSUME NEW n \in 0 .. NumProcesses, n \in S, n < NumProcesses
      PROVE  n + 1 \in S
  <2>1. PICK f : G(n, f)
    BY <1>2
  <2> DEFINE g == [m \in 0 .. n + 1 |->
                     IF m = n + 1 THEN OwnerAfter(f[n]) ELSE f[m]]
  <2>2. G(n + 1, g)
    <3> SUFFICES ASSUME NEW m \in 0 .. n + 1
                 PROVE  g[m] = IF m = 0 THEN BlockedOn(i)
                               ELSE IF g[m - 1] = NoProcess THEN NoProcess
                               ELSE BlockedOn(g[m - 1])
      OBVIOUS
    <3>1. CASE m = n + 1
      BY <3>1 DEF OwnerAfter
    <3>2. CASE m # n + 1
      <4>1. m \in 0 .. n
            /\ f[m] = IF m = 0 THEN BlockedOn(i)
                      ELSE IF f[m - 1] = NoProcess THEN NoProcess
                      ELSE BlockedOn(f[m - 1])
        BY <2>1, <3>2
      <4> QED BY <4>1
    <3> QED BY <3>1, <3>2
  <2> HIDE DEF g, G
  <2> QED BY <2>2, <1>2, <1>0
<1>3. 0 .. NumProcesses \subseteq S
  <2> HIDE DEF S
  <2> QED BY <1>0, <1>1, <1>2, UpToInduction
<1> DEFINE h == CHOOSE f : G(NumProcesses, f)
<1>4. WaitsFor(i) = {h[n] : n \in 0 .. NumProcesses} \ {NoProcess}
  BY DEF WaitsFor
<1>5. G(NumProcesses, h)
  <2> HIDE DEF G
  <2> QED BY <1>0, <1>3
<1> HIDE DEF h
<1>6. h[0] = BlockedOn(i) /\ \A n \in Process : h[n + 1] = OwnerAfter(h[n])
  BY <1>0, <1>5 DEF Process, OwnerAfter
<1> QED BY <1>4, <1>6

\* The chain of owners from process i; a chain as long as the number of
\* processes has been at its last one before, or has ended.
OwnerChain(i, f) ==
  /\ WaitsFor(i) = {f[n] : n \in 0 .. NumProcesses} \ {NoProcess}
  /\ f[0] = BlockedOn(i)
  /\ \A n \in Process : f[n + 1] = OwnerAfter(f[n])
  /\ \A n \in 0 .. NumProcesses : f[n] \in Process \cup {NoProcess}
  /\ f[NumProcesses] # NoProcess => \E n \in Process : f[n] = f[NumProcesses]

LEMMA ChainOfOwners ==
  ASSUME Just(sys), NEW i \in Process
  PROVE  \E f : OwnerChain(i, f)
<1>1. PICK f : /\ WaitsFor(i) = {f[n] : n \in 0 .. NumProcesses} \ {NoProcess}
               /\ f[0] = BlockedOn(i)
               /\ \A n \in Process : f[n + 1] = OwnerAfter(f[n])
  BY WaitsForUnfolds
<1>2. NumProcesses \in Nat
  BY ConfigAssumption
<1> DEFINE S == {n \in 0 .. NumProcesses : f[n] \in Process \cup {NoProcess}}
<1>3. 0 \in S
  BY <1>1, <1>2, BlockedOnIs
<1>4. ASSUME NEW n \in 0 .. NumProcesses, n \in S, n < NumProcesses
      PROVE  n + 1 \in S
  <2>1. n \in Process /\ f[n + 1] = OwnerAfter(f[n]) /\ f[n] \in Process \cup {NoProcess}
    BY <1>1, <1>2, <1>4 DEF Process
  <2>2. f[n + 1] \in Process \cup {NoProcess}
    BY <2>1, BlockedOnIs DEF OwnerAfter
  <2> QED BY <1>2, <1>4, <2>2
<1>5. 0 .. NumProcesses \subseteq S
  <2> HIDE DEF S
  <2> QED BY <1>2, <1>3, <1>4, UpToInduction
<1>6. ASSUME f[NumProcesses] # NoProcess
      PROVE  \E n \in Process : f[n] = f[NumProcesses]
  <2> DEFINE R == {m \in 0 .. NumProcesses : f[NumProcesses - m] # NoProcess}
  <2>1. 0 \in R
    BY <1>2, <1>6
  <2>2. ASSUME NEW m \in 0 .. NumProcesses, m \in R, m < NumProcesses
        PROVE  m + 1 \in R
    <3> DEFINE a == NumProcesses - (m + 1)
    <3>1. a \in Process /\ a + 1 = NumProcesses - m
      BY <1>2, <2>2 DEF Process
    <3>2. f[a + 1] = OwnerAfter(f[a])
      BY <1>1, <3>1
    <3>3. f[a] # NoProcess
      BY <2>2, <3>1, <3>2 DEF OwnerAfter
    <3> QED BY <1>2, <2>2, <3>3
  <2>3. 0 .. NumProcesses \subseteq R
    <3> HIDE DEF R
    <3> QED BY <1>2, <2>1, <2>2, UpToInduction
  <2>4. ASSUME NEW n \in 0 .. NumProcesses
        PROVE  f[n] \in Process
    <3>1. NumProcesses - n \in 0 .. NumProcesses /\ NumProcesses - (NumProcesses - n) = n
      BY <1>2
    <3>2. NumProcesses - n \in R
      BY <2>3, <3>1
    <3>3. f[n] # NoProcess
      BY <3>1, <3>2
    <3> QED BY <1>5, <3>3
  <2> DEFINE g == [a \in 1 .. NumProcesses + 1 |-> f[a - 1]]
  <2>5. g \in [1 .. NumProcesses + 1 -> 0 .. NumProcesses - 1]
    BY <1>2, <2>4 DEF Process
  <2>6. ASSUME NEW a \in 1 .. NumProcesses, NEW b \in 1 .. NumProcesses, g[a] = g[b]
        PROVE  g[a + 1] = g[b + 1]
    <3>1. a - 1 \in Process /\ b - 1 \in Process /\ (a - 1) + 1 = a /\ (b - 1) + 1 = b
      BY <1>2 DEF Process
    <3>2. f[a] = OwnerAfter(f[a - 1]) /\ f[b] = OwnerAfter(f[b - 1])
      BY <1>1, <3>1
    <3>3. f[a - 1] = f[b - 1]
      BY <1>2, <2>6
    <3> QED BY <1>2, <3>2, <3>3
  <2>7. \E a \in 1 .. NumProcesses : g[a] = g[NumProcesses + 1]
    <3> HIDE DEF g
    <3> QED BY <1>2, <2>5, <2>6, Revisits
  <2>8. PICK a \in 1 .. NumProcesses : g[a] = g[NumProcesses + 1]
    BY <2>7
  <2>9. a - 1 \in Process /\ f[a - 1] = f[NumProcesses]
    BY <1>2, <2>8 DEF Process
  <2> QED BY <2>9
<1> QED BY <1>1, <1>5, <1>6 DEF OwnerChain

\* Whoever waits for j waits for all that j waits for.
LEMMA WaitsForFirst ==
  ASSUME Just(sys), NEW w \in Process, NEW j \in Process, BlockedOn(w) = j
  PROVE  j \in WaitsFor(w) /\ WaitsFor(j) \subseteq WaitsFor(w)
<1>1. PICK f : OwnerChain(w, f)
  BY ChainOfOwners
<1>2. PICK g : OwnerChain(j, g)
  BY ChainOfOwners
<1>3. NumProcesses \in Nat \ {0} /\ j # NoProcess
  BY ConfigAssumption DEF Process, NoProcess
<1> DEFINE S == {n \in 0 .. NumProcesses - 1 : f[n + 1] = g[n]}
<1>4. 0 \in S
  <2>1. f[0 + 1] = OwnerAfter(f[0]) /\ 0 \in 0 .. NumProcesses - 1
    BY <1>1, <1>3 DEF OwnerChain, Process
  <2>2. f[0] = j /\ g[0] = BlockedOn(j)
    BY <1>1, <1>2 DEF OwnerChain
  <2> QED BY <1>3, <2>1, <2>2 DEF OwnerAfter
<1>5. ASSUME NEW n \in 0 .. NumProcesses - 1, n \in S, n < NumProcesses - 1
      PROVE  n + 1 \in S
  <2>1. n \in Process /\ n + 1 \in Process /\ f[n + 1] = g[n]
    BY <1>3, <1>5 DEF Process
  <2>2. f[(n + 1) + 1] = OwnerAfter(f[n + 1]) /\ g[n + 1] = OwnerAfter(g[n])
    BY <1>1, <1>2, <2>1 DEF OwnerChain
  <2> QED BY <2>1, <2>2 DEF Process
<1>6. 0 .. NumProcesses - 1 \subseteq S
  <2>1. NumProcesses - 1 \in Nat
    BY <1>3
  <2> HIDE DEF S
  <2> QED BY <1>4, <1>5, <2>1, UpToInduction
<1>7. \A n \in Process : g[n] # NoProcess => g[n] \in WaitsFor(w)
  <2> SUFFICES ASSUME NEW n \in Process, g[n] # NoProcess PROVE g[n] \in WaitsFor(w)
    OBVIOUS
  <2>1. n + 1 \in 0 .. NumProcesses /\ f[n + 1] = g[n]
    BY <1>3, <1>6 DEF Process
  <2> QED BY <1>1, <2>1 DEF OwnerChain
<1>8. ASSUME NEW i \in WaitsFor(j)
      PROVE  i \in WaitsFor(w)
  <2>1. PICK n \in 0 .. NumProcesses : i = g[n] /\ g[n] # NoProcess
    BY <1>2 DEF OwnerChain
  <2>2. CASE n \in Process
    BY <1>7, <2>1, <2>2
  <2>3. CASE n \notin Process
    <3>1. n = NumProcesses
      BY <1>3, <2>3 DEF Process
    <3>2. PICK m \in Process : g[m] = g[NumProcesses]
      BY <1>2, <2>1, <3>1 DEF OwnerChain
    <3> QED BY <1>7, <2>1, <3>1, <3>2
  <2> QED BY <2>2, <2>3
<1>9. f[0] = j /\ 0 \in 0 .. NumProcesses
  BY <1>1, <1>3 DEF OwnerChain
<1>10. j \in WaitsFor(w)
  BY <1>1, <1>3, <1>9 DEF OwnerChain
<1> QED BY <1>8, <1>10

\* Along a chain of owners the priorities only get better.
LEMMA OwnersUrgent ==
  ASSUME Just(sys), NEW j \in Process, NEW i \in WaitsFor(j)
  PROVE  i \in Process /\ sys.priority[i] <= sys.priority[j]
         /\ PartitionOf[i] = PartitionOf[j]
<1>1. PICK f : OwnerChain(j, f)
  BY ChainOfOwners
<1>2. NumProcesses \in Nat /\ NoProcess \notin Process
  BY ConfigAssumption DEF Process, NoProcess
<1>3. \A h \in Process : sys.priority[h] \in Nat
  BY SoundTypes DEF Just, MutexOk, MutexHeld, Priority
<1>4. ASSUME NEW h \in Process, NEW o \in Process, BlockedOn(h) = o
      PROVE  sys.priority[o] <= sys.priority[h] /\ PartitionOf[o] = PartitionOf[h]
  <2>1. h \in WaitersOf(sys, o) /\ PartitionOf[o] = PartitionOf[h]
    BY <1>4, BlockedOnIs
  <2> QED BY <2>1 DEF Just, Settled, Enough
<1> DEFINE Good(h) == h \in Process => /\ sys.priority[h] <= sys.priority[j]
                                       /\ PartitionOf[h] = PartitionOf[j]
           S == {n \in 0 .. NumProcesses : Good(f[n])}
<1>5. 0 \in S
  <2>1. f[0] = BlockedOn(j)
    BY <1>1 DEF OwnerChain
  <2> QED BY <1>2, <1>4, <2>1
<1>6. ASSUME NEW n \in 0 .. NumProcesses, n \in S, n < NumProcesses
      PROVE  n + 1 \in S
  <2>1. n \in Process
    BY <1>2, <1>6 DEF Process
  <2>2. f[n + 1] = OwnerAfter(f[n]) /\ f[n] \in Process \cup {NoProcess}
    BY <1>1, <1>6, <2>1 DEF OwnerChain
  <2>3. Good(f[n + 1])
    <3>1. CASE f[n] = NoProcess
      BY <1>2, <2>2, <3>1 DEF OwnerAfter
    <3>2. CASE f[n] \in Process
      <4>1. f[n + 1] = BlockedOn(f[n]) /\ Good(f[n])
        BY <1>2, <1>6, <2>2, <3>2 DEF OwnerAfter
      <4> QED BY <1>3, <1>4, <3>2, <4>1
    <3> QED BY <2>2, <3>1, <3>2
  <2> HIDE DEF Good
  <2> QED BY <1>2, <1>6, <2>3
<1>7. 0 .. NumProcesses \subseteq S
  <2> HIDE DEF S
  <2> QED BY <1>2, <1>5, <1>6, UpToInduction
<1>8. PICK n \in 0 .. NumProcesses : i = f[n] /\ i # NoProcess
  BY <1>1 DEF OwnerChain
<1> QED BY <1>1, <1>7, <1>8 DEF OwnerChain

\* The best base priority among i and all that wait for it.
LEMMA OwedIs ==
  ASSUME NEW i \in Process
  PROVE  /\ \E j \in Process : /\ j = i \/ i \in WaitsFor(j)
                               /\ OwedPriority(i) = BasePriority[j]
         /\ \A j \in Process : j = i \/ i \in WaitsFor(j) =>
              OwedPriority(i) <= BasePriority[j]
<1> DEFINE Those == {j \in Process : j = i \/ i \in WaitsFor(j)}
           owed == {BasePriority[j] : j \in Those}
<1>1. owed \subseteq Nat /\ BasePriority[i] \in owed
  BY ConfigAssumption DEF Priority
<1>2. OwedPriority(i) = CHOOSE q \in owed : \A r \in owed : q <= r
  BY DEF OwedPriority
<1>3. \E q \in owed : \A r \in owed : q <= r
  <2> HIDE DEF owed
  <2> QED BY <1>1, BestExists
<1>4. OwedPriority(i) \in owed /\ \A r \in owed : OwedPriority(i) <= r
  <2> HIDE DEF owed
  <2> QED BY <1>2, <1>3
<1>5. PICK j \in Those : OwedPriority(i) = BasePriority[j]
  BY <1>4
<1>6. \A h \in Those : OwedPriority(i) <= BasePriority[h]
  BY <1>4
<1> QED BY <1>5, <1>6

\* A priority that is better than the process's own and no deadlock has a
\* cause: going from each process to a waiter that it has its priority from
\* comes to one whose own it is, for it never comes to the same one twice but
\* around a cycle, and back to where it began.
LEMMA OwedToNoMore ==
  ASSUME Just(sys), NEW i \in Process, ~Deadlocked(i)
  PROVE  \E j \in Process : /\ j = i \/ i \in WaitsFor(j)
                            /\ BasePriority[j] <= sys.priority[i]
<1> DEFINE B == {j \in Process : /\ j = i \/ i \in WaitsFor(j)
                                 /\ sys.priority[j] <= sys.priority[i]}
           Causes(j) == {w \in B : BlockedOn(w) = j}
<1> SUFFICES ASSUME \A j \in Process : j = i \/ i \in WaitsFor(j) =>
                      ~(BasePriority[j] <= sys.priority[i])
             PROVE  FALSE
  OBVIOUS
<1>1. \A h \in Process : sys.priority[h] \in Nat /\ BasePriority[h] \in Nat
  BY SoundTypes, ConfigAssumption DEF Just, MutexOk, MutexHeld, Priority
<1>2. ASSUME NEW w \in Process, NEW j \in Process, BlockedOn(w) = j,
             j = i \/ i \in WaitsFor(j)
      PROVE  i \in WaitsFor(w)
  BY <1>2, WaitsForFirst
<1>3. ASSUME NEW j \in B
      PROVE  Causes(j) # {}
  <2>1. j \in Process /\ sys.priority[j] <= sys.priority[i]
        /\ ~(BasePriority[j] <= sys.priority[i]) /\ (j = i \/ i \in WaitsFor(j))
    OBVIOUS
  <2>2. Caused(sys, j)
    BY <2>1 DEF Just, Settled
  <2>3. PICK w \in WaitersOf(sys, j) : sys.priority[w] <= sys.priority[j]
    BY <1>1, <2>1, <2>2 DEF Caused
  <2>4. w \in Process /\ BlockedOn(w) = j
    BY <2>1, <2>3, BlockedOnIs DEF WaitersOf
  <2>5. i \in WaitsFor(w) /\ sys.priority[w] <= sys.priority[i]
    BY <1>1, <1>2, <2>1, <2>3, <2>4
  <2> QED BY <2>4, <2>5
<1>4. ASSUME NEW j \in B
      PROVE  i \notin Causes(j)
  <2>1. BlockedOn(i) = j => i \in WaitsFor(i)
    BY <1>2
  <2> QED BY <2>1 DEF Deadlocked
<1>5. i \in B /\ B \subseteq Process
  BY <1>1
<1> DEFINE c == [j \in B |-> CHOOSE w \in Causes(j) : TRUE]
<1>6. \A j \in B : c[j] \in B /\ BlockedOn(c[j]) = j /\ c[j] # i
  <2> SUFFICES ASSUME NEW j \in B
               PROVE  c[j] \in B /\ BlockedOn(c[j]) = j /\ c[j] # i
    OBVIOUS
  <2>1. c[j] \in Causes(j)
    <3>1. Causes(j) # {} /\ c[j] = CHOOSE w \in Causes(j) : TRUE
      BY <1>3
    <3> HIDE DEF B, Causes, c
    <3> QED BY <3>1
  <2> HIDE DEF c, B
  <2> QED BY <1>4, <2>1
<1>7. DOMAIN c = B /\ c = [j \in B |-> c[j]]
  OBVIOUS
<1>8. IsFiniteSet(B)
  <2>1. IsFiniteSet(Process)
    BY FS_Interval, ConfigAssumption DEF Process
  <2> HIDE DEF B
  <2> QED BY <1>5, <2>1, FS_Subset
<1> DEFINE D == B \ {i}
<1>9. /\ IsFiniteSet(D) /\ Cardinality(B) \in Nat
      /\ Cardinality(D) = Cardinality(B) - 1
  <2> HIDE DEF B
  <2> QED BY <1>5, <1>8, FS_RemoveElement, FS_CardinalityType
<1> HIDE DEF B, Causes, c
<1>10. c \in [B -> D]
  BY <1>6, <1>7
<1>11. \A j, h \in B : c[j] = c[h] => j = h
  BY <1>6
<1> HIDE DEF D
<1>12. c \in Injection(B, D)
  BY <1>10, <1>11 DEF Injection, IsInjective
<1>13. Cardinality(B) <= Cardinality(D)
  BY <1>8, <1>9, <1>12, FS_Injection
<1> QED BY <1>9, <1>13

LEMMA JustInherits ==
  ASSUME Just(sys)
  PROVE  Inherits
<1> SUFFICES ASSUME NEW i \in Process
             PROVE  /\ sys.priority[i] <= OwedPriority(i)
                    /\ ~Deadlocked(i) => sys.priority[i] = OwedPriority(i)
  BY DEF Inherits
<1>1. \A h \in Process : sys.priority[h] \in Nat /\ BasePriority[h] \in Nat
                         /\ sys.priority[h] <= BasePriority[h]
  BY SoundTypes, ConfigAssumption
     DEF Just, MutexOk, MutexHeld, Priority, Settled, Enough
<1>2. PICK j \in Process : /\ j = i \/ i \in WaitsFor(j)
                           /\ OwedPriority(i) = BasePriority[j]
  BY OwedIs
<1>3. sys.priority[i] <= sys.priority[j]
  BY <1>1, <1>2, OwnersUrgent
<1>4. sys.priority[i] <= OwedPriority(i)
  BY <1>1, <1>2, <1>3
<1>5. ASSUME ~Deadlocked(i)
      PROVE  sys.priority[i] = OwedPriority(i)
  <2>1. PICK h \in Process : /\ h = i \/ i \in WaitsFor(h)
                             /\ BasePriority[h] <= sys.priority[i]
    BY <1>5, OwedToNoMore
  <2>2. OwedPriority(i) <= BasePriority[h] /\ OwedPriority(i) \in Nat
    BY <1>1, <1>2, <2>1, OwedIs
  <2> QED BY <1>1, <1>4, <2>1, <2>2
<1> QED BY <1>4, <1>5

-----------------------------------------------------------------------------
(* The theorems.                                                           *)

\* The invariant holds in every reachable state: the records agree, a mutex
\* with waiters has an owner that is not one of them, who owns nothing has its
\* own priority, and the process on the CPU is the one that its partition runs
\* (mutex.c, ipc_block.c, fault_recovery.c).
THEOREM Invariance == Spec => []IInv
<1>1. Init => IInv
  BY InitOk
<1>2. IInv /\ [Next]_vars => IInv'
  BY VarsSteps DEF SysStep, IInv, CpuOk
<1> QED BY <1>1, <1>2, PTL DEF Spec

\* Nobody waits for a mutex that nobody owns, or for its own (mutex.c,
\* maxrtos_mutex_hand_off; fault_recovery.c, release_all).
THEOREM MutexesAreOwned == Spec => []WaitersHaveOwner
<1>1. IInv => WaitersHaveOwner
  BY DEF IInv, MutexOk, MutexHeld, HasOwner, WaitersHaveOwner
<1> QED BY <1>1, Invariance, PTL

\* The wait lists and the PCBs agree, and all state is of its type, after every
\* grant, timeout, restart and failure to block (ipc_block.c, mutex.c).
THEOREM ListsAgree == Spec => []ListsSound
<1>1. IInv => ListsSound
  <2> SUFFICES ASSUME IInv PROVE ListsSound
    OBVIOUS
  <2>1. Sound(sys) /\ CallsType(sys) /\ OwnerType(sys)
    BY DEF IInv, MutexOk, MutexHeld
  <2>2. /\ sys.state \in [Process -> ProcessState]
        /\ sys.priority \in [Process -> Priority]
    BY <2>1, SoundTypes
  <2>3. /\ sys.waiters \in [WaitList -> Seq(Process)]
        /\ sys.waitlist \in [Process -> WaitList \cup {NoList}]
        /\ WaitsSound(sys)
    BY <2>1 DEF Sound, IpcType
  <2>4. cpu \in Process \cup {NoProcess}
    BY DEF IInv, CpuOk, CpuIs
  <2> QED BY <2>1, <2>2, <2>3, <2>4
          DEF ListsSound, TypeOK, CallsType, OwnerType, Ops, Results
<1> QED BY <1>1, Invariance, PTL

\* A mutex goes from its owner to one of its waiters, to the first of the most
\* urgent when it is unlocked or its owner restarted for a fault, and is taken
\* without waiting only when it is free (mutex.c, maxrtos_mutex_hand_off).
THEOREM MutexesGoToTheBest == Spec => HandsToBest
<1>1. ASSUME IInv, [Next]_vars, NEW m \in MutexId,
             sys'.owner[m] # sys.owner[m], sys'.owner[m] # NoProcess
      PROVE  IF sys.owner[m] = NoProcess THEN sys'.owner[m] = cpu
             ELSE /\ sys'.owner[m] \in Waiters(sys, m) /\ ~Waits(sys', sys'.owner[m])
                  /\ Unlock(m) \/ Fault => FirstOfBest(sys, m, sys'.owner[m])
  <2>1. ChangesHands(m)
    BY <1>1, VarsSteps DEF SysStep
  <2>2. Unlock(m) => FirstOfBest(sys, m, sys'.owner[m])
    BY <1>1, UnlockSteps
  <2>3. Fault => FirstOfBest(sys, m, sys'.owner[m])
    BY <1>1, FaultSteps
  <2> QED BY <1>1, <2>1, <2>2, <2>3 DEF ChangesHands
<1>2. IInv /\ [Next]_vars =>
        [\A m \in MutexId :
           LET new == sys'.owner[m] IN
           new # sys.owner[m] /\ new # NoProcess =>
             IF sys.owner[m] = NoProcess THEN new = cpu
             ELSE /\ new \in Waiters(sys, m) /\ ~Waits(sys', new)
                  /\ Unlock(m) \/ Fault =>
                       \A i \in Waiters(sys, m) \ {new} :
                         \/ sys.priority[new] < sys.priority[i]
                         \/ /\ sys.priority[new] = sys.priority[i]
                            /\ IndexIn(sys.waiters[m], new) < IndexIn(sys.waiters[m], i)]_vars
  BY <1>1 DEF FirstOfBest
<1> QED BY <1>2, Invariance, PTL DEF Spec, HandsToBest

\* With wait lists that fit their partitions, a process that is restarted after
\* a fault is left with nothing of what it was doing, and its mutexes are with
\* those that waited for them (fault_recovery.c, maxrtos_fault_recovery_restart).
THEOREM FaultsAreForgotten ==
  ASSUME ListsFit
  PROVE  Spec => RestartForgets
<1>1. ASSUME IInv, Fault
      PROVE  Forgets(cpu) /\ sys.op[cpu] = NoOp
  <2>1. Forgets(cpu)
    BY <1>1, FaultSteps
  <2>2. cpu \in Process /\ sys.state[cpu] = "RUNNING"
    BY <1>1, CallerRuns DEF Fault
  <2>3. ~Waits(sys, cpu)
    BY <2>2 DEF Waits
  <2> QED BY <1>1, <2>1, <2>2, <2>3, ListsFit DEF IInv, MutexOk, MutexHeld
<1>2. IInv /\ [Next]_vars =>
        [Fault =>
           /\ Owned(sys', cpu) = {}
           /\ sys'.priority[cpu] = BasePriority[cpu]
           /\ sys'.op[cpu] = NoOp /\ sys'.result[cpu] = NoResult
           /\ \A m \in Owned(sys, cpu) :
                sys'.owner[m] = NoProcess <=> sys.waiters[m] = <<>>]_vars
  BY <1>1 DEF Forgets
<1> QED BY <1>2, Invariance, PTL DEF Spec, RestartForgets

\* With wait lists that fit their partitions, every priority is the best of the
\* process's own and those of its direct waiters, every waiter is in the call to
\* lock the mutex it waits for, and nothing READY outranks the process on the
\* CPU within its partition (mutex.c, wanted_priority and refresh_chain; svc.c).
THEOREM PrioritiesAreOwed ==
  ASSUME ListsFit
  PROVE  Spec => []JInv
<1>1. Init => JInv
  BY InitJust
<1>2. JInv /\ [Next]_vars => JInv'
  <2> SUFFICES ASSUME JInv, [Next]_vars PROVE JInv'
    OBVIOUS
  <2>1. IInv'
    BY VarsSteps DEF JInv, SysStep, IInv, CpuOk
  <2>2. Just(sys)' /\ Top(sys, cpu)'
    BY VarsJust DEF JustStep
  <2> QED BY <2>1, <2>2 DEF JInv
<1> QED BY <1>1, <1>2, PTL DEF Spec

\* With wait lists that fit their partitions, a process has the best priority of
\* those that wait for it along any chain of owners, and in no deadlock any
\* other (mutex.h, "Priority inheritance"; mutex.c, refresh_chain).
THEOREM InheritanceIsExact ==
  ASSUME ListsFit
  PROVE  Spec => []Inherits
<1>1. JInv => Inherits
  BY JustInherits DEF JInv
<1> QED BY <1>1, PrioritiesAreOwed, PTL

\* With wait lists that fit, an owner runs at the priority of each of the
\* waiters of its mutexes, or at a better one (mutex.h).
THEOREM HoldersAreRaised ==
  ASSUME ListsFit
  PROVE  Spec => []HolderRunsAtWaiters
<1>1. JInv => HolderRunsAtWaiters
  <2> SUFFICES ASSUME JInv, NEW m \in MutexId, NEW i \in Waiters(sys, m)
               PROVE  sys.priority[sys.owner[m]] <= sys.priority[i]
    BY DEF HolderRunsAtWaiters
  <2>1. i \in Process /\ IsIn(sys.waiters[m], i)
    BY DEF Waiters
  <2>2. sys.waiters[m] # <<>>
    BY <2>1 DEF IsIn
  <2>3. sys.owner[m] \in Process
    BY <2>2 DEF JInv, Just, MutexOk, MutexHeld, HasOwner, OwnerType
  <2>4. i \in WaitersOf(sys, sys.owner[m])
    BY <2>1 DEF WaitersOf, Owned
  <2> QED BY <2>3, <2>4 DEF JInv, Just, Settled, Enough
<1> QED BY <1>1, PrioritiesAreOwed, PTL

\* With wait lists that fit, the CPU runs nothing of a partition that is less
\* urgent than a process of it that waits, however indirectly, for one that
\* could run (mutex.h).
THEOREM NobodyIsInverted ==
  ASSUME ListsFit
  PROVE  Spec => []NoInversion
<1>1. JInv => NoInversion
  <2> SUFFICES ASSUME JInv, NEW i \in Process, cpu # NoProcess,
                      PartitionOf[cpu] = PartitionOf[i],
                      NEW j \in WaitsFor(i), sys.state[j] = "READY"
               PROVE  sys.priority[cpu] <= BasePriority[i]
    BY DEF NoInversion
  <2>1. Just(sys) /\ cpu \in Process
    BY CallerRuns DEF JInv
  <2>2. j \in Process /\ sys.priority[j] <= sys.priority[i]
        /\ PartitionOf[j] = PartitionOf[i]
    BY <2>1, OwnersUrgent
  <2>3. sys.priority[cpu] <= sys.priority[j]
    BY <2>2 DEF JInv, Top
  <2>4. sys.priority[i] <= BasePriority[i]
    BY <2>1 DEF Just, Settled, Enough
  <2>5. BasePriority[i] \in Nat /\ \A h \in Process : sys.priority[h] \in Nat
    BY <2>1, SoundTypes, ConfigAssumption DEF Just, MutexOk, MutexHeld, Priority
  <2> QED BY <2>1, <2>2, <2>3, <2>4, <2>5
<1> QED BY <1>1, PrioritiesAreOwed, PTL
=============================================================================
