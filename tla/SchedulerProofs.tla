-------------------------- MODULE SchedulerProofs ---------------------------
(***************************************************************************)
(* The ready queues of scheduler.c, for every number of processes and      *)
(* priorities and every size of the rings: the multiplication and the      *)
(* table of lowest_set_bit find the best priority, the mask has a bit for  *)
(* exactly the rings that hold a process, and the rings are FIFO sequences *)
(* (module ReadyQueues), wherever their heads are.                         *)
(***************************************************************************)
EXTENDS Scheduler, SequenceTheorems, NaturalsInduction, WellFoundedInduction,
        TLAPS

-----------------------------------------------------------------------------
(* The lowest bit that is set.                                             *)

\* What the table holds for the product with 2^n.
Read(n) == Word!BitIndex[Word!TopFive(Word!ShiftLeft(Word!DeBruijn, n)) + 1]

LEMMA Shifted ==
  ASSUME NEW n \in 0 .. 31, NEW j \in 0 .. 4
  PROVE  27 + j \in Word!ShiftLeft(Word!DeBruijn, n)
           <=> 27 + j - n \in Word!DeBruijn
<1>1. Word!DeBruijn \subseteq Int
  BY DEF Word!DeBruijn
<1>2. 27 + j \in Word!Bit
  BY DEF Word!Bit
<1> QED BY <1>1, <1>2 DEF Word!ShiftLeft

Digit(n, j) == IF 27 + j - n \in Word!DeBruijn THEN 1 ELSE 0

LEMMA TopFiveOf ==
  ASSUME NEW n \in 0 .. 31
  PROVE  Word!TopFive(Word!ShiftLeft(Word!DeBruijn, n))
           = Digit(n, 0) + 2 * Digit(n, 1) + 4 * Digit(n, 2) + 8 * Digit(n, 3)
               + 16 * Digit(n, 4)
BY Shifted DEF Word!TopFive, Digit

\* The 32 places of the table agree with the 32 windows of the constant.
LEMMA TableInverts == \A n \in 0 .. 31 : Read(n) = n
BY TopFiveOf DEF Read, Word!BitIndex, Digit, Word!DeBruijn

\* n is the lowest bit of w.
IsLowest(w, n) == n \in w /\ \A c \in w : n <= c

LEMMA Isolates ==
  ASSUME NEW w \in SUBSET (0 .. 31), NEW n, IsLowest(w, n)
  PROVE  Word!Isolated(w) = {n}
<1> DEFINE v   == Word!Complement(w)
           low == {b \in Word!Bit : \A c \in 0 .. b : c \in v}
<1>1. n \in 0 .. 31 /\ n \in w /\ \A c \in w : n <= c
  BY DEF IsLowest
<1>2. \A b \in 0 .. 31 : b \in v <=> b \notin w
  BY DEF Word!Complement, Word!Bit
<1>3. \A b \in 0 .. 31 : b \in low <=> b < n
  <2> HIDE DEF v
  <2>1. \A b \in 0 .. 31 : b < n => \A c \in 0 .. b : c \in v
    BY <1>1, <1>2
  <2>2. \A b \in 0 .. 31 : b >= n => n \in 0 .. b /\ n \notin v
    BY <1>1, <1>2
  <2> QED BY <1>1, <2>1, <2>2 DEF Word!Bit
<1>4. \A b \in 0 .. 31 :
        (b \notin low /\ \A c \in 0 .. b - 1 : c \in low) <=> b = n
  <2> HIDE DEF low
  <2>1. \A b \in 0 .. 31 : b > n => n \in 0 .. b - 1 /\ n \notin low
    BY <1>1, <1>3
  <2>2. \A c \in 0 .. n - 1 : c \in low
    BY <1>1, <1>3
  <2> QED BY <1>1, <1>3, <2>1, <2>2
<1>5. Word!Increment(v)
        = (v \ low) \cup {b \in Word!Bit : b \notin low
                                             /\ \A c \in 0 .. b - 1 : c \in low}
  BY DEF Word!Increment
<1> HIDE DEF v, low
<1>6. \A b \in 0 .. 31 : b \in Word!Increment(v)
                           <=> b = n \/ (b \notin w /\ b \notin low)
  BY <1>2, <1>4, <1>5 DEF Word!Bit
<1>7. Word!Isolated(w) = w \cap Word!Increment(v)
  BY DEF Word!Isolated, v
<1> QED BY <1>1, <1>6, <1>7

LEMMA LeastExists ==
  ASSUME NEW T, T \subseteq Nat, T # {}
  PROVE  \E q \in T : \A r \in T : q <= r
<1>1. PICK q \in T : \A r \in T : ~(<<r, q>> \in OpToRel(<, Nat))
  BY NatLessThanWellFounded, WFMin
<1>2. \A r \in T : ~(r < q)
  BY <1>1 DEF OpToRel
<1> QED BY <1>2

\* maxrtos_scheduler_lowest_set_bit: the multiplication and the table find
\* the lowest bit of every mask, so the best priority that has a process.
THEOREM LowestIsFound ==
  ASSUME NEW m \in SUBSET (0 .. 31), m # {}
  PROVE  IsLowest(m, Lowest(m))
<1>0. m \subseteq Nat
  OBVIOUS
<1>1. PICK n \in m : \A r \in m : n <= r
  BY <1>0, LeastExists
<1>2. IsLowest(m, n)
  BY <1>1 DEF IsLowest
<1>3. Word!Isolated(m) = {n}
  BY <1>2, Isolates
<1>4. UNION {Word!ShiftLeft(Word!DeBruijn, x) : x \in Word!Isolated(m)}
        = Word!ShiftLeft(Word!DeBruijn, n)
  BY <1>3
<1>5. Lowest(m) = Read(n)
  BY <1>4 DEF Lowest, Read, Word!LowestSetBit
<1>6. n \in 0 .. 31
  OBVIOUS
<1> QED BY <1>2, <1>5, <1>6, TableInverts

-----------------------------------------------------------------------------
(* The rings.                                                              *)

\* Indices of a ring are reduced modulo its size, once around at most.
LEMMA Around ==
  ASSUME NEW x \in 0 .. 2 * Capacity - 1
  PROVE  x % Capacity = IF x < Capacity THEN x ELSE x - Capacity
<1>0. Capacity \in Nat \ {0}
  BY SchedulerAssumption
<1>1. ASSUME NEW y \in 0 .. Capacity - 1
      PROVE  y % Capacity = y /\ (y + Capacity) % Capacity = y
  BY <1>0
<1>2. CASE x < Capacity
  BY <1>0, <1>1, <1>2
<1>3. CASE x >= Capacity
  <2>1. x - Capacity \in 0 .. Capacity - 1
    BY <1>0, <1>3
  <2>2. ((x - Capacity) + Capacity) % Capacity = x - Capacity
    BY <2>1, <1>1
  <2>3. (x - Capacity) + Capacity = x
    BY <1>0
  <2> QED BY <2>2, <2>3, <1>0, <1>3
<1> QED BY <1>0, <1>2, <1>3

Behind(x) == IF x < Capacity THEN x ELSE x - Capacity

LEMMA BehindAgain ==
  ASSUME NEW h \in 0 .. Capacity - 1, NEW a \in 0 .. Capacity - 1
  PROVE  /\ Behind(Behind(h + a) + 1) = Behind(h + (a + 1))
         /\ a < Capacity - 1 => Behind(Behind(h + 1) + a) = Behind(h + (a + 1))
<1>1. Capacity \in Nat \ {0}
  BY SchedulerAssumption
<1>2. Behind(Behind(h + a) + 1) = Behind(h + (a + 1))
  BY <1>1 DEF Behind
<1>3. a < Capacity - 1 => Behind(Behind(h + 1) + a) = Behind(h + (a + 1))
  BY <1>1 DEF Behind
<1> QED BY <1>2, <1>3

LEMMA AtIs ==
  ASSUME NEW r, r.head \in Slot, NEW a \in 0 .. Capacity
  PROVE  At(r, a) = Behind(r.head + a) /\ At(r, a) \in Slot
<1>0. Capacity \in Nat \ {0}
  BY SchedulerAssumption
<1>1. r.head + a \in 0 .. 2 * Capacity - 1
  BY <1>0 DEF Slot
<1>2. At(r, a) = Behind(r.head + a)
  BY <1>1, Around DEF At, Behind
<1> QED BY <1>0, <1>1, <1>2 DEF Behind, Slot

\* Different places are in different slots.
LEMMA AtDiffers ==
  ASSUME NEW r, r.head \in Slot,
         NEW a \in 0 .. Capacity - 1, NEW b \in 0 .. Capacity - 1, a # b
  PROVE  At(r, a) # At(r, b)
<1>0. Capacity \in Nat \ {0}
  BY SchedulerAssumption
<1> QED BY <1>0, AtIs DEF Behind, Slot

\* What the operations do to one ring.
Put(r, i) ==
  [r EXCEPT !.items[At(r, r.count)] = i, !.count = @ + 1]
NewHead(r) == (r.head + Capacity - 1) % Capacity
PutFront(r, i) ==
  [r EXCEPT !.head = NewHead(r), !.items[NewHead(r)] = i, !.count = @ + 1]
Drop(r) ==
  [r EXCEPT !.head = (@ + 1) % Capacity, !.count = @ - 1]

\* Membership by fields.
IsRing(m) == m = [x \in {"items", "head", "count"} |-> m[x]]

LEMMA RingIs ==
  ASSUME NEW m, IsRing(m), m.items \in [Slot -> Process \cup {NoProcess}],
         m.head \in Slot, m.count \in 0 .. Capacity
  PROVE  m \in RingType
<1>1. [items |-> m.items, head |-> m.head, count |-> m.count] \in RingType
  BY DEF RingType
<1>2. m = [items |-> m.items, head |-> m.head, count |-> m.count]
  BY DEF IsRing
<1> QED BY <1>1, <1>2

LEMMA PutKeeps ==
  ASSUME NEW r \in RingType, NEW i \in Process, r.count < Capacity
  PROVE  /\ Put(r, i) \in RingType
         /\ Put(r, i).count = r.count + 1
         /\ \A a \in 0 .. r.count :
              Entry(Put(r, i), a) = IF a = r.count THEN i ELSE Entry(r, a)
<1>0. Capacity \in Nat \ {0} /\ r.head \in Slot /\ r.count \in 0 .. Capacity
      /\ r.items \in [Slot -> Process \cup {NoProcess}]
  BY SchedulerAssumption DEF RingType
<1>1. At(r, r.count) \in Slot
  BY <1>0, AtIs
<1>2. /\ Put(r, i).head = r.head
      /\ Put(r, i).count = r.count + 1
      /\ Put(r, i).items = [r.items EXCEPT ![At(r, r.count)] = i]
  BY DEF Put, RingType
<1>3. Put(r, i) \in RingType
  <2>1. IsRing(Put(r, i))
    BY DEF Put, IsRing, RingType
  <2> QED BY <1>0, <1>1, <1>2, <2>1, RingIs
<1>4. ASSUME NEW a \in 0 .. r.count
      PROVE  Entry(Put(r, i), a) = IF a = r.count THEN i ELSE Entry(r, a)
  <2>1. At(Put(r, i), a) = At(r, a)
    BY <1>2 DEF At
  <2>2. At(r, a) \in Slot
    BY <1>0, AtIs
  <2>3. a # r.count => At(r, a) # At(r, r.count)
    BY <1>0, AtDiffers
  <2> QED BY <1>0, <1>1, <1>2, <2>1, <2>2, <2>3 DEF Entry
<1> QED BY <1>2, <1>3, <1>4

LEMMA PutFrontKeeps ==
  ASSUME NEW r \in RingType, NEW i \in Process, r.count < Capacity
  PROVE  /\ PutFront(r, i) \in RingType
         /\ PutFront(r, i).count = r.count + 1
         /\ \A a \in 0 .. r.count :
              Entry(PutFront(r, i), a) = IF a = 0 THEN i ELSE Entry(r, a - 1)
<1>0. Capacity \in Nat \ {0} /\ r.head \in Slot /\ r.count \in 0 .. Capacity
      /\ r.items \in [Slot -> Process \cup {NoProcess}]
  BY SchedulerAssumption DEF RingType
<1>1. NewHead(r) = (IF r.head = 0 THEN Capacity - 1 ELSE r.head - 1)
  <2>1. r.head + Capacity - 1 \in 0 .. 2 * Capacity - 1
    BY <1>0 DEF Slot
  <2>2. NewHead(r) = IF r.head + Capacity - 1 < Capacity
                     THEN r.head + Capacity - 1
                     ELSE (r.head + Capacity - 1) - Capacity
    BY <2>1, Around DEF NewHead
  <2> QED BY <1>0, <2>2 DEF Slot
<1>2. NewHead(r) \in Slot
  BY <1>0, <1>1 DEF Slot
<1>3. /\ PutFront(r, i).head = NewHead(r)
      /\ PutFront(r, i).count = r.count + 1
      /\ PutFront(r, i).items = [r.items EXCEPT ![NewHead(r)] = i]
  BY DEF PutFront, RingType
<1>4. PutFront(r, i) \in RingType
  <2>1. IsRing(PutFront(r, i))
    BY DEF PutFront, IsRing, RingType
  <2> QED BY <1>0, <1>2, <1>3, <2>1, RingIs
<1>5. ASSUME NEW a \in 0 .. r.count
      PROVE  Entry(PutFront(r, i), a) = IF a = 0 THEN i ELSE Entry(r, a - 1)
  <2>1. CASE a = 0
    <3>0. PutFront(r, i).head \in Slot
      BY <1>2, <1>3
    <3>1. At(PutFront(r, i), a) = Behind(NewHead(r) + a)
      BY <1>0, <1>3, <3>0, AtIs
    <3>2. Behind(NewHead(r) + a) = NewHead(r)
      BY <1>0, <1>2, <2>1 DEF Behind, Slot
    <3> QED BY <1>0, <1>2, <1>3, <2>1, <3>1, <3>2 DEF Entry
  <2>2. CASE a # 0
    <3>0. a - 1 \in 0 .. Capacity - 1 /\ a - 1 < Capacity - 1
      BY <1>0, <2>2
    <3>1. At(PutFront(r, i), a) = Behind(NewHead(r) + a)
      BY <1>0, <1>2, <1>3, AtIs
    <3>2. At(r, a - 1) = Behind(r.head + (a - 1)) /\ At(r, a - 1) \in Slot
      BY <1>0, <3>0, AtIs
    <3>3. At(PutFront(r, i), a) = At(r, a - 1) /\ At(r, a - 1) # NewHead(r)
      BY <1>0, <1>1, <3>0, <3>1, <3>2 DEF Behind, Slot
    <3> QED BY <1>0, <1>2, <1>3, <2>2, <3>2, <3>3 DEF Entry
  <2> QED BY <2>1, <2>2
<1> QED BY <1>3, <1>4, <1>5

LEMMA DropKeeps ==
  ASSUME NEW r \in RingType, r.count > 0
  PROVE  /\ Drop(r) \in RingType
         /\ Drop(r).count = r.count - 1
         /\ \A a \in 0 .. r.count - 2 : Entry(Drop(r), a) = Entry(r, a + 1)
<1>0. Capacity \in Nat \ {0} /\ r.head \in Slot /\ r.count \in 0 .. Capacity
      /\ r.items \in [Slot -> Process \cup {NoProcess}]
  BY SchedulerAssumption DEF RingType
<1>1. (r.head + 1) % Capacity = Behind(r.head + 1)
  <2>1. r.head + 1 \in 0 .. 2 * Capacity - 1
    BY <1>0 DEF Slot
  <2> QED BY <2>1, Around DEF Behind
<1>2. Behind(r.head + 1) \in Slot
  BY <1>0 DEF Behind, Slot
<1>3. /\ Drop(r).head = Behind(r.head + 1)
      /\ Drop(r).count = r.count - 1
      /\ Drop(r).items = r.items
  BY <1>1 DEF Drop, RingType
<1>4. Drop(r) \in RingType
  <2>1. IsRing(Drop(r))
    BY DEF Drop, IsRing, RingType
  <2> QED BY <1>0, <1>2, <1>3, <2>1, RingIs
<1>5. ASSUME NEW a \in 0 .. r.count - 2
      PROVE  Entry(Drop(r), a) = Entry(r, a + 1)
  <2>1. At(Drop(r), a) = Behind(Behind(r.head + 1) + a)
    BY <1>0, <1>2, <1>3, AtIs
  <2>2. At(r, a + 1) = Behind(r.head + (a + 1))
    BY <1>0, AtIs
  <2>3. Behind(Behind(r.head + 1) + a) = Behind(r.head + (a + 1))
    <3>1. /\ r.head \in 0 .. Capacity - 1 /\ a \in 0 .. Capacity - 1
          /\ a < Capacity - 1
      BY <1>0 DEF Slot
    <3> QED BY <3>1, BehindAgain
  <2>4. At(Drop(r), a) = At(r, a + 1)
    BY <2>1, <2>2, <2>3
  <2> QED BY <1>3, <2>4 DEF Entry
<1> QED BY <1>3, <1>4, <1>5

LEMMA ShiftUpKeeps ==
  ASSUME NEW r \in RingType, NEW a \in 0 .. r.count - 1
  PROVE  /\ ShiftUp(r, a) \in RingType
         /\ ShiftUp(r, a).count = r.count - 1
         /\ \A b \in 0 .. r.count - 2 :
              Entry(ShiftUp(r, a), b)
                = IF b < a THEN Entry(r, b) ELSE Entry(r, b + 1)
<1>0. Capacity \in Nat \ {0} /\ r.head \in Slot /\ r.count \in 0 .. Capacity
      /\ r.items \in [Slot -> Process \cup {NoProcess}]
  BY SchedulerAssumption DEF RingType
<1> DEFINE moved == [s \in Slot |-> IF \E b \in a .. r.count - 2 : At(r, b) = s
                                    THEN r.items[(s + 1) % Capacity]
                                    ELSE r.items[s]]
<1>1. \A s \in Slot : (s + 1) % Capacity = Behind(s + 1)
                        /\ Behind(s + 1) \in Slot
  <2>1. ASSUME NEW s \in Slot
        PROVE  s + 1 \in 0 .. 2 * Capacity - 1
    BY <1>0 DEF Slot
  <2> QED BY <1>0, <2>1, Around DEF Behind, Slot
<1>2. moved \in [Slot -> Process \cup {NoProcess}]
  BY <1>0, <1>1
<1>3. ShiftUp(r, a) = [r EXCEPT !.items = moved, !.count = @ - 1]
  BY DEF ShiftUp
<1>m. \A s \in Slot : moved[s] = IF \E b \in a .. r.count - 2 : At(r, b) = s
                                 THEN r.items[(s + 1) % Capacity]
                                 ELSE r.items[s]
  OBVIOUS
<1> HIDE DEF moved
<1>4. /\ ShiftUp(r, a).head = r.head
      /\ ShiftUp(r, a).count = r.count - 1
      /\ ShiftUp(r, a).items = moved
  BY <1>3 DEF RingType
<1>5. ShiftUp(r, a) \in RingType
  <2>1. IsRing(ShiftUp(r, a))
    BY <1>3 DEF IsRing, RingType
  <2> QED BY <1>0, <1>2, <1>4, <2>1, RingIs
<1>6. ASSUME NEW b \in 0 .. r.count - 2
      PROVE  Entry(ShiftUp(r, a), b)
               = IF b < a THEN Entry(r, b) ELSE Entry(r, b + 1)
  <2>1. b \in 0 .. Capacity - 1 /\ b + 1 \in 0 .. Capacity
    BY <1>0
  <2>2. At(ShiftUp(r, a), b) = At(r, b) /\ At(r, b) \in Slot
    BY <1>0, <1>4, <2>1, AtIs DEF At
  <2>3. Entry(ShiftUp(r, a), b) = moved[At(r, b)]
    BY <1>4, <2>2 DEF Entry
  <2>4. CASE b < a
    <3>1. \A c \in a .. r.count - 2 : At(r, c) # At(r, b)
      <4> TAKE c \in a .. r.count - 2
      <4>1. c \in 0 .. Capacity - 1 /\ c # b
        BY <1>0, <2>4
      <4> QED BY <1>0, <2>1, <4>1, AtDiffers
    <3> QED BY <1>m, <2>2, <2>3, <2>4, <3>1 DEF Entry
  <2>5. CASE ~(b < a)
    <3>1. b \in a .. r.count - 2
      BY <1>0, <2>5
    <3>2. moved[At(r, b)] = r.items[Behind(At(r, b) + 1)]
      BY <1>1, <1>m, <2>2, <3>1
    <3>3. At(r, b) = Behind(r.head + b) /\ At(r, b + 1) = Behind(r.head + (b + 1))
      BY <1>0, <2>1, AtIs
    <3>4. Behind(At(r, b) + 1) = At(r, b + 1)
      BY <1>0, <2>1, <3>3, BehindAgain DEF Slot
    <3> QED BY <2>3, <2>5, <3>2, <3>4 DEF Entry
  <2> QED BY <2>4, <2>5
<1> QED BY <1>4, <1>5, <1>6

-----------------------------------------------------------------------------
(* The operations on the queue of one priority.                            *)

\* One ring changes, to t.
Changes(q, t) == ring' = [ring EXCEPT ![q] = t]

LEMMA EnqueueIs ==
  ASSUME TypeOK, NEW i \in Process, NEW q \in Priority, Enqueue(i, q)
  PROVE  Changes(q, Put(ring[q], i))
<1>1. ring = [p \in Priority |-> ring[p]]
  BY DEF TypeOK
<1> QED BY <1>1 DEF Enqueue, Changes, Put

LEMMA EnqueueFrontIs ==
  ASSUME TypeOK, NEW i \in Process, NEW q \in Priority, EnqueueFront(i, q)
  PROVE  Changes(q, PutFront(ring[q], i))
<1>1. ring = [p \in Priority |-> ring[p]]
  BY DEF TypeOK
<1> QED BY <1>1 DEF EnqueueFront, Changes, PutFront, NewHead

\* The bit of the ring follows its count.
LEMMA ChangeKeeps ==
  ASSUME MaskExact, NEW q \in Priority, NEW t \in RingType, Changes(q, t),
         mask' = IF t.count = 0 THEN mask \ {q} ELSE mask \cup {q},
         taken' \in Process \cup {NoProcess}
  PROVE  MaskExact'
<1>1. ring' \in [Priority -> RingType]
  BY DEF MaskExact, TypeOK, Changes
<1>2. \A p \in Priority : ring'[p] = IF p = q THEN t ELSE ring[p]
  BY DEF MaskExact, TypeOK, Changes
<1>3. t.count \in Nat
  BY SchedulerAssumption DEF RingType
<1>4. \A p \in Priority : p \in mask' <=> ring'[p].count > 0
  BY <1>2, <1>3 DEF MaskExact
<1>5. mask' \subseteq Priority
  BY DEF MaskExact, TypeOK
<1> QED BY <1>1, <1>4, <1>5 DEF MaskExact, TypeOK

LEMMA BestIsReady ==
  ASSUME MaskExact, mask # {}
  PROVE  /\ Lowest(mask) \in Priority
         /\ ring[Lowest(mask)].count > 0
         /\ \A p \in 0 .. Lowest(mask) - 1 : ring[p].count = 0
<1>1. Priority \subseteq 0 .. 31
  BY SchedulerAssumption DEF Priority
<1>2. mask \in SUBSET (0 .. 31)
  BY <1>1 DEF MaskExact, TypeOK
<1>3. IsLowest(mask, Lowest(mask))
  BY <1>2, LowestIsFound
<1>4. Lowest(mask) \in mask /\ \A c \in mask : Lowest(mask) <= c
  BY <1>3 DEF IsLowest
<1> HIDE DEF Lowest
<1>5. ASSUME NEW p \in 0 .. Lowest(mask) - 1
      PROVE  ring[p].count = 0
  <2>1. Lowest(mask) \in 0 .. MaxPriority
    BY <1>4 DEF MaskExact, TypeOK, Priority
  <2>2. p \in Priority /\ p < Lowest(mask)
    BY <2>1, SchedulerAssumption DEF Priority
  <2>3. p \notin mask
    BY <1>4, <2>1, <2>2, SchedulerAssumption
  <2>4. ring[p].count \in Nat
    BY <2>2, SchedulerAssumption DEF MaskExact, TypeOK, RingType
  <2> QED BY <2>2, <2>3, <2>4 DEF MaskExact
<1> QED BY <1>4, <1>5 DEF MaskExact, TypeOK

LEMMA TakeNextIs ==
  ASSUME MaskExact, TakeNext
  PROVE  \E q \in Priority :
           /\ q = Lowest(mask)
           /\ Changes(q, Drop(ring[q]))
           /\ taken' = Entry(ring[q], 0)
           /\ mask' = IF Drop(ring[q]).count = 0 THEN mask \ {q} ELSE mask \cup {q}
<1>1. mask # {}
  BY DEF TakeNext
<1> DEFINE q == Lowest(mask)
<1>2. q \in Priority /\ ring[q].count > 0
  BY <1>1, BestIsReady
<1>3. /\ ring' = [ring EXCEPT ![q].head = (@ + 1) % Capacity,
                              ![q].count = @ - 1]
      /\ taken' = Entry(ring[q], 0)
      /\ mask' = IF ring'[q].count = 0 THEN mask \ {q} ELSE mask
  BY DEF TakeNext
<1> HIDE DEF q
<1>4. ring = [p \in Priority |-> ring[p]]
  BY DEF MaskExact, TypeOK
<1>5. Changes(q, Drop(ring[q]))
  BY <1>2, <1>3, <1>4 DEF Changes, Drop
<1>6. ring'[q] = Drop(ring[q])
  BY <1>2, <1>4, <1>5 DEF Changes
<1>7. q \in mask
  BY <1>2 DEF MaskExact
<1> QED BY <1>2, <1>3, <1>5, <1>6, <1>7 DEF q

LEMMA RemoveProcessIs ==
  ASSUME MaskExact, NEW i \in Process, NEW q \in Priority, RemoveProcess(i, q)
  PROVE  \E a \in 0 .. ring[q].count - 1 :
           /\ Entry(ring[q], a) = i
           /\ Changes(q, ShiftUp(ring[q], a))
           /\ taken' = i
           /\ mask' = IF ShiftUp(ring[q], a).count = 0
                      THEN mask \ {q} ELSE mask \cup {q}
<1>1. PICK a \in 0 .. Capacity - 1 :
        /\ Found(ring[q], i, a)
        /\ ring' = [ring EXCEPT ![q] = ShiftUp(@, a)]
        /\ taken' = i
  BY DEF RemoveProcess
<1>2. a \in 0 .. ring[q].count - 1 /\ Entry(ring[q], a) = i
  BY <1>1 DEF Found
<1>3. Changes(q, ShiftUp(ring[q], a))
  BY <1>1 DEF Changes
<1>4. ring'[q] = ShiftUp(ring[q], a)
  BY <1>1 DEF MaskExact, TypeOK
<1>5. ring[q].count \in Nat
  BY SchedulerAssumption DEF MaskExact, TypeOK, RingType
<1>6. q \in mask
  BY <1>2, <1>5 DEF MaskExact
<1>7. mask' = IF ring'[q].count = 0 THEN mask \ {q} ELSE mask
  BY DEF RemoveProcess
<1> QED BY <1>1, <1>2, <1>3, <1>4, <1>6, <1>7

LEMMA InitExact == Init => MaskExact
<1> SUFFICES ASSUME Init PROVE MaskExact
  OBVIOUS
<1>1. 0 \in Slot /\ 0 \in 0 .. Capacity
  BY SchedulerAssumption DEF Slot
<1>2. [items |-> [s \in Slot |-> NoProcess], head |-> 0, count |-> 0] \in RingType
  BY <1>1 DEF RingType
<1> QED BY <1>2 DEF Init, MaskExact, TypeOK

LEMMA RingOf ==
  ASSUME TypeOK, NEW q \in Priority
  PROVE  /\ ring[q] \in RingType
         /\ ring[q].count \in 0 .. Capacity
         /\ ring[q].count \in Nat
BY SchedulerAssumption DEF TypeOK, RingType

LEMMA EntryType ==
  ASSUME NEW r \in RingType, NEW a \in 0 .. r.count - 1
  PROVE  Entry(r, a) \in Process \cup {NoProcess}
<1>1. r.head \in Slot /\ r.items \in [Slot -> Process \cup {NoProcess}]
      /\ a \in 0 .. Capacity
  BY SchedulerAssumption DEF RingType
<1>2. At(r, a) \in Slot
  BY <1>1, AtIs
<1> QED BY <1>1, <1>2 DEF Entry

LEMMA NextExact == MaskExact /\ [Next]_vars => MaskExact'
<1> SUFFICES ASSUME MaskExact, [Next]_vars PROVE MaskExact'
  OBVIOUS
<1>t. TypeOK
  BY DEF MaskExact
<1>1. CASE TakeNext
  <2>1. PICK q \in Priority :
          /\ q = Lowest(mask)
          /\ Changes(q, Drop(ring[q]))
          /\ taken' = Entry(ring[q], 0)
          /\ mask' = IF Drop(ring[q]).count = 0 THEN mask \ {q} ELSE mask \cup {q}
    BY <1>1, TakeNextIs
  <2>2. ring[q].count > 0 /\ mask # {}
    BY <1>1, <2>1, BestIsReady DEF TakeNext
  <2>3. Drop(ring[q]) \in RingType
    BY <1>t, <2>2, RingOf, DropKeeps
  <2>4. 0 \in 0 .. ring[q].count - 1
    BY <1>t, <2>2, RingOf
  <2>5. taken' \in Process \cup {NoProcess}
    BY <1>t, <2>1, <2>4, RingOf, EntryType
  <2> QED BY <2>1, <2>3, <2>5, ChangeKeeps
<1>2. ASSUME NEW i \in Process, NEW q \in Priority, Enqueue(i, q)
      PROVE  MaskExact'
  <2>1. Changes(q, Put(ring[q], i))
    BY <1>t, <1>2, EnqueueIs
  <2>2. Put(ring[q], i) \in RingType /\ Put(ring[q], i).count # 0
    BY <1>t, <1>2, RingOf, PutKeeps DEF Enqueue
  <2>3. mask' = mask \cup {q} /\ taken' = NoProcess
    BY <1>2 DEF Enqueue
  <2> QED BY <2>1, <2>2, <2>3, ChangeKeeps
<1>3. ASSUME NEW i \in Process, NEW q \in Priority, EnqueueFront(i, q)
      PROVE  MaskExact'
  <2>1. Changes(q, PutFront(ring[q], i))
    BY <1>t, <1>3, EnqueueFrontIs
  <2>2. PutFront(ring[q], i) \in RingType /\ PutFront(ring[q], i).count # 0
    BY <1>t, <1>3, RingOf, PutFrontKeeps DEF EnqueueFront
  <2>3. mask' = mask \cup {q} /\ taken' = NoProcess
    BY <1>3 DEF EnqueueFront
  <2> QED BY <2>1, <2>2, <2>3, ChangeKeeps
<1>4. ASSUME NEW i \in Process, NEW q \in Priority, RemoveProcess(i, q)
      PROVE  MaskExact'
  <2>1. PICK a \in 0 .. ring[q].count - 1 :
          /\ Entry(ring[q], a) = i
          /\ Changes(q, ShiftUp(ring[q], a))
          /\ taken' = i
          /\ mask' = IF ShiftUp(ring[q], a).count = 0
                     THEN mask \ {q} ELSE mask \cup {q}
    BY <1>4, RemoveProcessIs
  <2>2. ShiftUp(ring[q], a) \in RingType
    BY <1>t, RingOf, ShiftUpKeeps
  <2> QED BY <2>1, <2>2, ChangeKeeps
<1>5. CASE UNCHANGED vars
  BY <1>5 DEF vars, MaskExact, TypeOK
<1> QED BY <1>1, <1>2, <1>3, <1>4, <1>5 DEF Next

\* Heads and counts stay within the rings, and the mask has the bit of exactly
\* the priorities that have a process queued, in every reachable state: so a
\* dispatch neither runs a stale entry nor overlooks a READY process
\* (scheduler.c, maxrtos_scheduler_take_next).
THEOREM MaskIsExact == Spec => []MaskExact
<1>1. Init => MaskExact
  BY InitExact
<1>2. MaskExact /\ [Next]_vars => MaskExact'
  BY NextExact
<1> QED BY <1>1, <1>2, PTL DEF Spec

-----------------------------------------------------------------------------
(* The rings as sequences.                                                 *)

Elem == Process \cup {NoProcess}

LEMMA SequenceOf ==
  ASSUME NEW r \in RingType
  PROVE  /\ AsSequence(r) \in Seq(Elem)
         /\ Len(AsSequence(r)) = r.count
         /\ \A a \in 1 .. r.count : AsSequence(r)[a] = Entry(r, a - 1)
<1>1. r.count \in Nat
  BY SchedulerAssumption DEF RingType
<1>2. \A a \in 1 .. r.count : Entry(r, a - 1) \in Elem
  <2> TAKE a \in 1 .. r.count
  <2>1. a - 1 \in 0 .. r.count - 1
    BY <1>1
  <2> QED BY <2>1, EntryType DEF Elem
<1>3. AsSequence(r) \in [1 .. r.count -> Elem]
  BY <1>2 DEF AsSequence
<1>4. AsSequence(r) \in Seq(Elem)
  BY <1>1, <1>3, SeqDef
<1>5. Len(AsSequence(r)) = r.count
  BY <1>1, <1>3, <1>4, LenProperties
<1> QED BY <1>4, <1>5 DEF AsSequence

\* A sequence is that of ring t if it has its length and entries.
LEMMA SequenceIs ==
  ASSUME NEW t \in RingType, NEW s \in Seq(Elem), Len(s) = t.count,
         \A a \in 1 .. t.count : s[a] = Entry(t, a - 1)
  PROVE  AsSequence(t) = s
<1>1. /\ AsSequence(t) \in Seq(Elem)
      /\ Len(AsSequence(t)) = t.count
      /\ \A a \in 1 .. t.count : AsSequence(t)[a] = Entry(t, a - 1)
  BY SequenceOf
<1> HIDE DEF AsSequence
<1> QED BY <1>1, SeqEqual

\* An insertion at the tail appends.
LEMMA PutAppends ==
  ASSUME NEW r \in RingType, NEW i \in Process, r.count < Capacity
  PROVE  AsSequence(Put(r, i)) = Append(AsSequence(r), i)
<1>1. /\ Put(r, i) \in RingType
      /\ Put(r, i).count = r.count + 1
      /\ \A a \in 0 .. r.count :
           Entry(Put(r, i), a) = IF a = r.count THEN i ELSE Entry(r, a)
  BY PutKeeps
<1>2. /\ AsSequence(r) \in Seq(Elem)
      /\ Len(AsSequence(r)) = r.count
      /\ \A a \in 1 .. r.count : AsSequence(r)[a] = Entry(r, a - 1)
  BY SequenceOf
<1>3. r.count \in Nat /\ i \in Elem
  BY SchedulerAssumption DEF RingType, Elem
<1> DEFINE s == Append(AsSequence(r), i)
<1>4. /\ s \in Seq(Elem)
      /\ Len(s) = r.count + 1
      /\ \A a \in 1 .. r.count : s[a] = AsSequence(r)[a]
      /\ s[r.count + 1] = i
  BY <1>2, <1>3, AppendProperties
<1> HIDE DEF s
<1>5. ASSUME NEW a \in 1 .. r.count + 1
      PROVE  s[a] = Entry(Put(r, i), a - 1)
  <2>1. a - 1 \in 0 .. r.count
    BY <1>3
  <2>2. Entry(Put(r, i), a - 1) = IF a - 1 = r.count THEN i ELSE Entry(r, a - 1)
    BY <1>1, <2>1
  <2>3. CASE a = r.count + 1
    BY <1>3, <1>4, <2>2, <2>3
  <2>4. CASE a # r.count + 1
    <3>1. a \in 1 .. r.count /\ a - 1 # r.count
      BY <1>3, <2>4
    <3> QED BY <1>2, <1>4, <2>2, <3>1
  <2> QED BY <2>3, <2>4
<1> QED BY <1>1, <1>4, <1>5, SequenceIs DEF s

\* An insertion at the head, before the first slot if need be, prepends.
LEMMA PutFrontPrepends ==
  ASSUME NEW r \in RingType, NEW i \in Process, r.count < Capacity
  PROVE  AsSequence(PutFront(r, i)) = <<i>> \o AsSequence(r)
<1>1. /\ PutFront(r, i) \in RingType
      /\ PutFront(r, i).count = r.count + 1
      /\ \A a \in 0 .. r.count :
           Entry(PutFront(r, i), a) = IF a = 0 THEN i ELSE Entry(r, a - 1)
  BY PutFrontKeeps
<1>2. /\ AsSequence(r) \in Seq(Elem)
      /\ Len(AsSequence(r)) = r.count
      /\ \A a \in 1 .. r.count : AsSequence(r)[a] = Entry(r, a - 1)
  BY SequenceOf
<1>3. r.count \in Nat /\ i \in Elem
  BY SchedulerAssumption DEF RingType, Elem
<1> DEFINE s == <<i>> \o AsSequence(r)
<1>4. <<i>> \in Seq(Elem) /\ Len(<<i>>) = 1 /\ <<i>>[1] = i
  BY <1>3
<1>5. /\ s \in Seq(Elem)
      /\ Len(s) = 1 + r.count
      /\ \A a \in 1 .. 1 + r.count :
           s[a] = IF a <= 1 THEN <<i>>[a] ELSE AsSequence(r)[a - 1]
  BY <1>2, <1>4, ConcatProperties
<1> HIDE DEF s
<1>6. ASSUME NEW a \in 1 .. r.count + 1
      PROVE  s[a] = Entry(PutFront(r, i), a - 1)
  <2>1. a - 1 \in 0 .. r.count /\ a \in 1 .. 1 + r.count
    BY <1>3
  <2>2. Entry(PutFront(r, i), a - 1) = IF a - 1 = 0 THEN i
                                       ELSE Entry(r, (a - 1) - 1)
    BY <1>1, <2>1
  <2>3. CASE a = 1
    BY <1>4, <1>5, <2>1, <2>2, <2>3
  <2>4. CASE a # 1
    <3>1. a - 1 \in 1 .. r.count /\ ~(a <= 1)
      BY <1>3, <2>4
    <3> QED BY <1>2, <1>5, <2>1, <2>2, <3>1
  <2> QED BY <2>3, <2>4
<1>7. Len(s) = r.count + 1
  BY <1>3, <1>5
<1> QED BY <1>1, <1>5, <1>6, <1>7, SequenceIs DEF s

\* Taking the head leaves the tail.
LEMMA DropIsTail ==
  ASSUME NEW r \in RingType, r.count > 0
  PROVE  /\ AsSequence(r) # <<>>
         /\ AsSequence(Drop(r)) = Tail(AsSequence(r))
         /\ Head(AsSequence(r)) = Entry(r, 0)
<1>1. /\ Drop(r) \in RingType
      /\ Drop(r).count = r.count - 1
      /\ \A a \in 0 .. r.count - 2 : Entry(Drop(r), a) = Entry(r, a + 1)
  BY DropKeeps
<1> DEFINE s == AsSequence(r)
<1>2. /\ s \in Seq(Elem)
      /\ Len(s) = r.count
      /\ \A a \in 1 .. r.count : s[a] = Entry(r, a - 1)
  BY SequenceOf
<1>3. r.count \in Nat
  BY SchedulerAssumption DEF RingType
<1> HIDE DEF s
<1>4. s # <<>>
  BY <1>2
<1>5. /\ Tail(s) \in Seq(Elem)
      /\ Len(Tail(s)) = r.count - 1
      /\ \A a \in 1 .. Len(Tail(s)) : Tail(s)[a] = s[a + 1]
  BY <1>2, <1>4, HeadTailProperties
<1>6. ASSUME NEW a \in 1 .. r.count - 1
      PROVE  Tail(s)[a] = Entry(Drop(r), a - 1)
  <2>1. a + 1 \in 1 .. r.count /\ a - 1 \in 0 .. r.count - 2
    BY <1>3
  <2>2. s[a + 1] = Entry(r, (a + 1) - 1)
    BY <1>2, <2>1
  <2>3. Entry(Drop(r), a - 1) = Entry(r, (a - 1) + 1)
    BY <1>1, <2>1
  <2>4. (a + 1) - 1 = a /\ (a - 1) + 1 = a
    BY <1>3
  <2> QED BY <1>5, <2>2, <2>3, <2>4
<1>7. AsSequence(Drop(r)) = Tail(s)
  BY <1>1, <1>5, <1>6, SequenceIs
<1>8. Head(s) = Entry(r, 0)
  <2>1. Head(s) = s[1] /\ 1 \in 1 .. r.count
    BY <1>2, <1>3, <1>4
  <2> QED BY <1>2, <2>1
<1> QED BY <1>4, <1>7, <1>8 DEF s

\* Removing the entry a places behind the head keeps the order of the others.
LEMMA ShiftUpRemoves ==
  ASSUME NEW r \in RingType, NEW a \in 0 .. r.count - 1
  PROVE  AsSequence(ShiftUp(r, a))
           = SubSeq(AsSequence(r), 1, (a + 1) - 1)
               \o SubSeq(AsSequence(r), (a + 1) + 1, Len(AsSequence(r)))
<1>1. /\ ShiftUp(r, a) \in RingType
      /\ ShiftUp(r, a).count = r.count - 1
      /\ \A b \in 0 .. r.count - 2 :
           Entry(ShiftUp(r, a), b)
             = IF b < a THEN Entry(r, b) ELSE Entry(r, b + 1)
  BY ShiftUpKeeps
<1> DEFINE s == AsSequence(r)
           u == SubSeq(s, 1, (a + 1) - 1)
           v == SubSeq(s, (a + 1) + 1, Len(s))
<1>2. /\ s \in Seq(Elem)
      /\ Len(s) = r.count
      /\ \A b \in 1 .. r.count : s[b] = Entry(r, b - 1)
  BY SequenceOf
<1>3. r.count \in Nat
  BY SchedulerAssumption DEF RingType
<1> HIDE DEF s
<1>4. \A b \in 1 .. r.count : s[b] \in Elem
  BY <1>2, ElementOfSeq
<1>5. /\ u \in Seq(Elem)
      /\ Len(u) = a
      /\ \A b \in 1 .. a : u[b] = s[b]
  <2>1. (a + 1) - 1 \in Int /\ \A b \in 1 .. (a + 1) - 1 : s[b] \in Elem
    BY <1>3, <1>4
  <2>2. /\ SubSeq(s, 1, (a + 1) - 1) \in Seq(Elem)
        /\ Len(SubSeq(s, 1, (a + 1) - 1))
             = IF 1 <= (a + 1) - 1 THEN ((a + 1) - 1) - 1 + 1 ELSE 0
        /\ \A b \in 1 .. ((a + 1) - 1) - 1 + 1 :
             SubSeq(s, 1, (a + 1) - 1)[b] = s[1 + b - 1]
    BY <2>1, SubSeqProperties
  <2> HIDE DEF u
  <2>3. \A b \in 1 .. a : b \in 1 .. ((a + 1) - 1) - 1 + 1 /\ 1 + b - 1 = b
    BY <1>3
  <2>4. Len(u) = a
    BY <1>3, <2>2 DEF u
  <2> QED BY <2>2, <2>3, <2>4 DEF u
<1>6. /\ v \in Seq(Elem)
      /\ Len(v) = r.count - 1 - a
      /\ \A b \in 1 .. r.count - 1 - a : v[b] = s[a + 1 + b]
  <2>1. /\ (a + 1) + 1 \in Int /\ Len(s) \in Int
        /\ \A b \in (a + 1) + 1 .. Len(s) : s[b] \in Elem
    BY <1>2, <1>3, <1>4
  <2>2. /\ SubSeq(s, (a + 1) + 1, Len(s)) \in Seq(Elem)
        /\ Len(SubSeq(s, (a + 1) + 1, Len(s)))
             = IF (a + 1) + 1 <= Len(s) THEN Len(s) - ((a + 1) + 1) + 1 ELSE 0
        /\ \A b \in 1 .. Len(s) - ((a + 1) + 1) + 1 :
             SubSeq(s, (a + 1) + 1, Len(s))[b] = s[((a + 1) + 1) + b - 1]
    BY <2>1, SubSeqProperties
  <2> HIDE DEF v
  <2>3. \A b \in 1 .. r.count - 1 - a :
          b \in 1 .. r.count - ((a + 1) + 1) + 1 /\ ((a + 1) + 1) + b - 1 = a + 1 + b
    BY <1>3
  <2>4. Len(v) = r.count - 1 - a
    BY <1>2, <1>3, <2>2 DEF v
  <2> QED BY <1>2, <2>2, <2>3, <2>4 DEF v
<1> HIDE DEF u, v
<1>7. /\ u \o v \in Seq(Elem)
      /\ Len(u \o v) = a + (r.count - 1 - a)
      /\ \A b \in 1 .. a + (r.count - 1 - a) :
           (u \o v)[b] = IF b <= a THEN u[b] ELSE v[b - a]
  <2>1. /\ u \o v \in Seq(Elem)
        /\ Len(u \o v) = Len(u) + Len(v)
        /\ \A b \in 1 .. Len(u) + Len(v) :
             (u \o v)[b] = IF b <= Len(u) THEN u[b] ELSE v[b - Len(u)]
    BY <1>5, <1>6, ConcatProperties
  <2> QED BY <1>5, <1>6, <2>1
<1>8. ASSUME NEW b \in 1 .. r.count - 1
      PROVE  (u \o v)[b] = Entry(ShiftUp(r, a), b - 1)
  <2>1. b \in 1 .. a + (r.count - 1 - a) /\ b - 1 \in 0 .. r.count - 2
    BY <1>3
  <2>2. Entry(ShiftUp(r, a), b - 1)
          = IF b - 1 < a THEN Entry(r, b - 1) ELSE Entry(r, (b - 1) + 1)
    BY <1>1, <2>1
  <2>3. CASE b <= a
    <3>1. b \in 1 .. a /\ b \in 1 .. r.count /\ b - 1 < a
      BY <1>3, <2>3
    <3> QED BY <1>2, <1>5, <1>7, <2>1, <2>2, <2>3, <3>1
  <2>4. CASE ~(b <= a)
    <3>1. /\ b - a \in 1 .. r.count - 1 - a /\ a + 1 + (b - a) = b + 1
          /\ b + 1 \in 1 .. r.count /\ (b + 1) - 1 = (b - 1) + 1 /\ ~(b - 1 < a)
      BY <1>3, <2>4
    <3> QED BY <1>2, <1>6, <1>7, <2>1, <2>2, <2>4, <3>1
  <2> QED BY <2>3, <2>4
<1>9. Len(u \o v) = r.count - 1
  BY <1>3, <1>7
<1> QED BY <1>1, <1>7, <1>8, <1>9, SequenceIs DEF s, u, v

-----------------------------------------------------------------------------
(* The refinement of ReadyQueues.                                          *)

Queues == [q \in Priority |-> AsSequence(ring[q])]

\* What an operation on one ring does to the sequences.
LEMMA ChangeMaps ==
  ASSUME TypeOK, NEW q \in Priority, NEW t, Changes(q, t)
  PROVE  Queues' = [Queues EXCEPT ![q] = AsSequence(t)]
<1>1. \A p \in Priority : ring'[p] = IF p = q THEN t ELSE ring[p]
  BY DEF TypeOK, Changes
<1>2. Queues' = [p \in Priority |-> AsSequence(ring'[p])]
  BY DEF Queues, AsSequence, Entry, At
<1>3. \A p \in Priority :
        AsSequence(ring'[p]) = IF p = q THEN AsSequence(t) ELSE Queues[p]
  BY <1>1 DEF Queues
<1> HIDE DEF AsSequence
<1> QED BY <1>2, <1>3 DEF Queues

\* The code's test that a process is in no ring is the one on the sequences.
LEMMA NotHeld ==
  ASSUME TypeOK, NEW i \in Process, NotQueued(i)
  PROVE  i \notin Promise!Held
<1>1. ASSUME NEW q \in Priority, NEW a \in 1 .. Len(Queues[q]), Queues[q][a] = i
      PROVE  FALSE
  <2>1. ring[q] \in RingType /\ ring[q].count \in Nat
    BY RingOf
  <2>2. Queues[q] = AsSequence(ring[q])
    BY DEF Queues
  <2>3. a \in 1 .. ring[q].count /\ Entry(ring[q], a - 1) = i
    BY <1>1, <2>1, <2>2, SequenceOf
  <2>4. a - 1 \in 0 .. ring[q].count - 1
    BY <2>1, <2>3
  <2> QED BY <2>3, <2>4 DEF NotQueued, Entries
<1> QED BY <1>1 DEF Promise!Held, Promise!Priority, Priority, Queues

LEMMA LengthOf ==
  ASSUME TypeOK, NEW q \in Priority
  PROVE  /\ Queues[q] = AsSequence(ring[q])
         /\ Len(Queues[q]) = ring[q].count
<1>1. ring[q] \in RingType
  BY RingOf
<1> QED BY <1>1, SequenceOf DEF Queues

LEMMA InitMaps == Init => Promise!Init
<1> SUFFICES ASSUME Init PROVE Promise!Init
  OBVIOUS
<1>1. \A q \in Priority : AsSequence(ring[q]) = <<>>
  BY DEF Init, AsSequence
<1>2. taken = NoProcess
  BY DEF Init
<1> QED BY <1>1, <1>2 DEF Promise!Init, Promise!Priority, Priority

LEMMA NextMaps ==
  MaskExact /\ [Next]_vars => [Promise!Next]_<<Queues, taken>>
<1> SUFFICES ASSUME MaskExact, [Next]_vars
             PROVE  [Promise!Next]_<<Queues, taken>>
  OBVIOUS
<1>t. TypeOK
  BY DEF MaskExact
<1>1. CASE TakeNext
  <2>1. PICK q \in Priority :
          /\ q = Lowest(mask)
          /\ Changes(q, Drop(ring[q]))
          /\ taken' = Entry(ring[q], 0)
          /\ mask' = IF Drop(ring[q]).count = 0 THEN mask \ {q} ELSE mask \cup {q}
    BY <1>1, TakeNextIs
  <2>2. ring[q].count > 0 /\ \A p \in 0 .. q - 1 : ring[p].count = 0
    BY <1>1, <2>1, BestIsReady DEF TakeNext
  <2>3. /\ AsSequence(ring[q]) # <<>>
        /\ AsSequence(Drop(ring[q])) = Tail(AsSequence(ring[q]))
        /\ Head(AsSequence(ring[q])) = Entry(ring[q], 0)
    BY <1>t, <2>2, RingOf, DropIsTail
  <2>4. Queues' = [Queues EXCEPT ![q] = AsSequence(Drop(ring[q]))]
    BY <1>t, <2>1, ChangeMaps
  <2>5. \A p \in 0 .. q - 1 : Queues[p] = <<>>
    <3> TAKE p \in 0 .. q - 1
    <3>1. p \in Priority
      BY SchedulerAssumption DEF Priority
    <3>2. ring[p].count = 0
      BY <2>2
    <3> QED BY <3>1, <3>2 DEF Queues, AsSequence
  <2>6. Queues[q] = AsSequence(ring[q])
    BY <1>t, LengthOf
  <2>7. Promise!Take(q)
    BY <2>1, <2>3, <2>4, <2>5, <2>6 DEF Promise!Take, Queues
  <2> QED BY <2>7 DEF Promise!Next, Promise!Priority, Priority
<1>2. ASSUME NEW i \in Process, NEW q \in Priority, Enqueue(i, q)
      PROVE  Promise!Next
  <2>1. NotQueued(i) /\ ring[q].count < Capacity /\ taken' = NoProcess
    BY <1>2 DEF Enqueue
  <2>2. Queues' = [Queues EXCEPT ![q] = AsSequence(Put(ring[q], i))]
    BY <1>t, <1>2, EnqueueIs, ChangeMaps
  <2>3. AsSequence(Put(ring[q], i)) = Append(AsSequence(ring[q]), i)
    BY <1>t, <2>1, RingOf, PutAppends
  <2>4. i \notin Promise!Held
    BY <1>t, <2>1, NotHeld
  <2>5. Queues[q] = AsSequence(ring[q]) /\ Len(Queues[q]) = ring[q].count
    BY <1>t, LengthOf
  <2>6. Promise!Add(i, q)
    BY <2>1, <2>2, <2>3, <2>4, <2>5 DEF Promise!Add, Queues
  <2> QED BY <2>6 DEF Promise!Next, Promise!Priority, Priority
<1>3. ASSUME NEW i \in Process, NEW q \in Priority, EnqueueFront(i, q)
      PROVE  Promise!Next
  <2>1. NotQueued(i) /\ ring[q].count < Capacity /\ taken' = NoProcess
    BY <1>3 DEF EnqueueFront
  <2>2. Queues' = [Queues EXCEPT ![q] = AsSequence(PutFront(ring[q], i))]
    BY <1>t, <1>3, EnqueueFrontIs, ChangeMaps
  <2>3. AsSequence(PutFront(ring[q], i)) = <<i>> \o AsSequence(ring[q])
    BY <1>t, <2>1, RingOf, PutFrontPrepends
  <2>4. i \notin Promise!Held
    BY <1>t, <2>1, NotHeld
  <2>5. Queues[q] = AsSequence(ring[q]) /\ Len(Queues[q]) = ring[q].count
    BY <1>t, LengthOf
  <2>6. Promise!AddFront(i, q)
    BY <2>1, <2>2, <2>3, <2>4, <2>5 DEF Promise!AddFront, Queues
  <2> QED BY <2>6 DEF Promise!Next, Promise!Priority, Priority
<1>4. ASSUME NEW i \in Process, NEW q \in Priority, RemoveProcess(i, q)
      PROVE  Promise!Next
  <2>1. PICK a \in 0 .. ring[q].count - 1 :
          /\ Entry(ring[q], a) = i
          /\ Changes(q, ShiftUp(ring[q], a))
          /\ taken' = i
    BY <1>4, RemoveProcessIs
  <2>2. Queues' = [Queues EXCEPT ![q] = AsSequence(ShiftUp(ring[q], a))]
    BY <1>t, <2>1, ChangeMaps
  <2>3. AsSequence(ShiftUp(ring[q], a))
          = SubSeq(AsSequence(ring[q]), 1, (a + 1) - 1)
              \o SubSeq(AsSequence(ring[q]), (a + 1) + 1, Len(AsSequence(ring[q])))
    BY <1>t, RingOf, ShiftUpRemoves
  <2>4. Queues[q] = AsSequence(ring[q]) /\ Len(Queues[q]) = ring[q].count
    BY <1>t, LengthOf
  <2>5. ring[q].count \in 0 .. Capacity /\ Capacity \in Nat
    BY <1>t, RingOf, SchedulerAssumption
  <2>6. a + 1 \in 1 .. ring[q].count /\ a + 1 \in 1 .. Capacity /\ (a + 1) - 1 = a
    BY <2>5
  <2>7. Queues[q][a + 1] = Entry(ring[q], a)
    BY <1>t, <2>4, <2>6, RingOf, SequenceOf
  <2>8. Promise!Remove(q, a + 1)
    BY <2>1, <2>2, <2>3, <2>4, <2>6, <2>7 DEF Promise!Remove, Queues
  <2> QED BY <2>6, <2>8 DEF Promise!Next, Promise!Priority, Priority
<1>5. CASE UNCHANGED vars
  <2>1. ring' = ring /\ taken' = taken
    BY <1>5 DEF vars
  <2>2. Queues' = Queues
    BY <2>1 DEF Queues, AsSequence, Entry, At
  <2> QED BY <2>1, <2>2
<1> QED BY <1>1, <1>2, <1>3, <1>4, <1>5 DEF Next

\* The rings implement a FIFO sequence per priority whatever the number of
\* processes, the size of the rings and the place of their heads: insertion at
\* either end, taking the head of the best queue and removal from the middle
\* keep the order of the others (scheduler.c).
THEOREM RingsAreQueues == Spec => Implements
<1>1. Init => Promise!Init
  BY InitMaps
<1>2. MaskExact /\ [Next]_vars
        => [Promise!Next]_<<[q \in Priority |-> AsSequence(ring[q])], taken>>
  BY NextMaps DEF Queues
<1> QED BY <1>1, <1>2, MaskIsExact, PTL DEF Spec, Implements, Promise!Spec
=============================================================================
