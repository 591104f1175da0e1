-------------------------- MODULE CircularQProofs --------------------------
(***************************************************************************)
(* What the operations of circular_q compute, for every capacity: they     *)
(* keep the indexes in the vector, and on the contents, oldest first, they *)
(* are the operations of a bounded FIFO.                                   *)
(***************************************************************************)
EXTENDS CircularQ, TLAPS

\* Indexes step around the vector: the modulo is a comparison.
LEMMA StepValue ==
  ASSUME NEW n \in Nat, NEW S, NEW q \in QueueType(n, S), NEW i \in 0..n
  PROVE  Step(q, i) = (IF i = n THEN 0 ELSE i + 1) /\ Step(q, i) \in 0..n
<1>1. q.max = n + 1
  BY DEF QueueType
<1>. QED
  BY <1>1 DEF Step

\* The fields of a queue have the types circular_q declares.
LEMMA QueueFields ==
  ASSUME NEW n \in Nat, NEW S, NEW q \in QueueType(n, S)
  PROVE  /\ q.max = n + 1 /\ q.head \in 0..n /\ q.tail \in 0..n /\ q.overrun \in Nat
         /\ q.v \in [0..n -> S \cup {NoItem}]
BY DEF QueueType

\* A new queue is a queue of its capacity, empty, with nothing overrun.
LEMMA NewQEmpty ==
  ASSUME NEW n \in Nat, NEW S
  PROVE  /\ NewQ(n) \in QueueType(n, S)
         /\ Contents(NewQ(n)) = <<>> /\ NewQ(n).overrun = 0
<1>1. NewQ(n) \in QueueType(n, S)
  BY DEF NewQ, QueueType
<1>2. Size(NewQ(n)) = 0 /\ NewQ(n).overrun = 0
  BY DEF NewQ, Size
<1>3. Contents(NewQ(n)) = <<>>
  BY <1>2 DEF Contents
<1>. QED
  BY <1>1, <1>2, <1>3

\* size() in terms of the capacity.
LEMMA SizeValue ==
  ASSUME NEW n \in Nat, NEW S, NEW q \in QueueType(n, S)
  PROVE  Size(q) = IF q.tail >= q.head THEN q.tail - q.head ELSE n + 1 - (q.head - q.tail)
BY QueueFields DEF Size

\* size() stays within the capacity; empty() and full() are its bounds.
LEMMA SizeBounds ==
  ASSUME NEW n \in Nat, NEW S, NEW q \in QueueType(n, S)
  PROVE  /\ Size(q) \in 0..n
         /\ IsEmpty(q) <=> Size(q) = 0
         /\ IsFull(q) <=> Size(q) = n
<1>1. q.max = n + 1 /\ q.head \in 0..n /\ q.tail \in 0..n
  BY QueueFields
<1>2. Step(q, q.tail) = (IF q.tail = n THEN 0 ELSE q.tail + 1)
  BY <1>1, StepValue
<1>. QED
  BY <1>1, <1>2 DEF Size, IsEmpty, IsFull

\* push_back of an item of S keeps the queue in its type.
LEMMA PushBackType ==
  ASSUME NEW n \in Nat, NEW S, NEW q \in QueueType(n, S), NEW m \in S
  PROVE  PushBack(q, m) \in QueueType(n, S)
<1>1. /\ q.max = n + 1 /\ q.head \in 0..n /\ q.tail \in 0..n /\ q.overrun \in Nat
      /\ q.v \in [0..n -> S \cup {NoItem}]
  BY QueueFields
<1>2. Step(q, q.tail) \in 0..n /\ Step(q, q.head) \in 0..n
  BY <1>1, StepValue
<1>3. [q.v EXCEPT ![q.tail] = m] \in [0..n -> S \cup {NoItem}]
  BY <1>1
<1>4. q.max # 0
  BY <1>1
<1>. QED
  BY <1>1, <1>2, <1>3, <1>4 DEF PushBack, QueueType

\* Taking the front keeps the queue in its type.
LEMMA TakeFrontType ==
  ASSUME NEW n \in Nat, NEW S, NEW q \in QueueType(n, S)
  PROVE  TakeFront(q) \in QueueType(n, S)
<1>1. /\ q.max = n + 1 /\ q.head \in 0..n /\ q.tail \in 0..n /\ q.overrun \in Nat
      /\ q.v \in [0..n -> S \cup {NoItem}]
  BY QueueFields
<1>2. Step(q, q.head) \in 0..n
  BY <1>1, StepValue
<1>. QED
  BY <1>1, <1>2 DEF TakeFront, QueueType

\* The slot of the i-th item: the modulo wraps at most once.
LEMMA SlotValue ==
  ASSUME NEW n \in Nat, NEW S, NEW q \in QueueType(n, S), NEW i \in 0..n
  PROVE  (q.head + i) % q.max = IF q.head + i <= n THEN q.head + i ELSE q.head + i - (n + 1)
<1>1. q.max = n + 1 /\ q.head \in 0..n
  BY QueueFields
<1>. QED
  BY <1>1

\* The contents are a sequence as long as the queue's size.
LEMMA ContentsSeq ==
  ASSUME NEW n \in Nat, NEW S, NEW q \in QueueType(n, S)
  PROVE  /\ Contents(q) \in Seq(S \cup {NoItem}) /\ Len(Contents(q)) = Size(q)
         /\ \A i \in 1..Size(q) : /\ (q.head + (i - 1)) % q.max \in 0..n
                                 /\ Contents(q)[i] = q.v[(q.head + (i - 1)) % q.max]
<1>1. q.max = n + 1 /\ q.head \in 0..n /\ q.v \in [0..n -> S \cup {NoItem}]
  BY QueueFields
<1>2. Size(q) \in 0..n
  BY SizeBounds
<1>3. ASSUME NEW i \in 1..Size(q) PROVE (q.head + (i - 1)) % q.max \in 0..n
  BY <1>1, <1>2
<1>4. \A i \in 1..Size(q) : q.v[(q.head + (i - 1)) % q.max] \in S \cup {NoItem}
  BY <1>1, <1>3
<1>5. Contents(q) \in [1..Size(q) -> S \cup {NoItem}]
  BY <1>4 DEF Contents
<1>6. Contents(q) \in Seq(S \cup {NoItem}) /\ Len(Contents(q)) = Size(q)
  BY <1>2, <1>5
<1>7. \A i \in 1..Size(q) : Contents(q)[i] = q.v[(q.head + (i - 1)) % q.max]
  BY DEF Contents
<1>. QED
  BY <1>3, <1>6, <1>7

\* The slots between head and tail are the items', the tail's is not.
LEMMA SlotNotTail ==
  ASSUME NEW n \in Nat, NEW S, NEW q \in QueueType(n, S), NEW i \in 1..Size(q)
  PROVE  (q.head + (i - 1)) % q.max # q.tail
<1>1. q.max = n + 1 /\ q.head \in 0..n /\ q.tail \in 0..n
  BY QueueFields
<1>2. Size(q) \in 0..n
  BY SizeBounds
<1>3. (q.head + (i - 1)) % q.max =
        IF q.head + (i - 1) <= n THEN q.head + (i - 1) ELSE q.head + (i - 1) - (n + 1)
  BY <1>2, SlotValue
<1>4. CASE q.tail >= q.head
  <2>1. Size(q) = q.tail - q.head
    BY <1>4 DEF Size
  <2>. QED
    BY <1>1, <1>2, <1>3, <1>4, <2>1
<1>5. CASE ~(q.tail >= q.head)
  <2>1. Size(q) = n + 1 - (q.head - q.tail)
    BY <1>1, <1>5 DEF Size
  <2>. QED
    BY <1>1, <1>2, <1>3, <1>5, <2>1
<1>. QED
  BY <1>4, <1>5

\* The slot past the last item is the tail's.
LEMMA SlotOfTail ==
  ASSUME NEW n \in Nat, NEW S, NEW q \in QueueType(n, S)
  PROVE  (q.head + Size(q)) % q.max = q.tail
<1>1. q.max = n + 1 /\ q.head \in 0..n /\ q.tail \in 0..n
  BY QueueFields
<1>2. Size(q) \in 0..n
  BY SizeBounds
<1>3. (q.head + Size(q)) % q.max =
        IF q.head + Size(q) <= n THEN q.head + Size(q) ELSE q.head + Size(q) - (n + 1)
  BY <1>2, SlotValue
<1>. QED
  BY <1>1, <1>2, <1>3 DEF Size

\* While there is room, push_back appends; nothing is overrun.
LEMMA PushBackAppends ==
  ASSUME NEW n \in Nat, NEW S, NEW q \in QueueType(n, S), NEW m \in S, ~IsFull(q)
  PROVE  /\ Contents(PushBack(q, m)) = Append(Contents(q), m)
         /\ PushBack(q, m).overrun = q.overrun
<1>. DEFINE p == PushBack(q, m)
<1>1. /\ q.max = n + 1 /\ q.head \in 0..n /\ q.tail \in 0..n
      /\ q.v \in [0..n -> S \cup {NoItem}]
  BY QueueFields
<1>2. p \in QueueType(n, S)
  BY PushBackType
<1>3. /\ p.max = n + 1 /\ p.head = q.head /\ p.tail = Step(q, q.tail)
      /\ p.overrun = q.overrun /\ p.v = [q.v EXCEPT ![q.tail] = m]
  BY <1>1 DEF PushBack
<1>. HIDE DEF p
<1>4. Step(q, q.tail) = IF q.tail = n THEN 0 ELSE q.tail + 1
  BY <1>1, StepValue
<1>5. Size(q) \in 0..n /\ Size(q) # n
  BY SizeBounds
<1>6. Size(p) = Size(q) + 1
  <2>1. Size(q) = IF q.tail >= q.head THEN q.tail - q.head ELSE n + 1 - (q.head - q.tail)
    BY SizeValue
  <2>2. Size(p) = IF p.tail >= p.head THEN p.tail - p.head ELSE n + 1 - (p.head - p.tail)
    BY <1>2, SizeValue
  <2>. QED
    BY SMTT(30), <1>1, <1>3, <1>4, <1>5, <2>1, <2>2
<1>7. /\ Contents(p) \in Seq(S \cup {NoItem}) /\ Len(Contents(p)) = Size(p)
      /\ \A i \in 1..Size(p) : Contents(p)[i] = p.v[(p.head + (i - 1)) % p.max]
  BY <1>2, ContentsSeq
<1>8. /\ Contents(q) \in Seq(S \cup {NoItem}) /\ Len(Contents(q)) = Size(q)
      /\ \A i \in 1..Size(q) : /\ (q.head + (i - 1)) % q.max \in 0..n
                              /\ Contents(q)[i] = q.v[(q.head + (i - 1)) % q.max]
  BY ContentsSeq
<1>9. ASSUME NEW i \in 1..Size(q) PROVE Contents(p)[i] = Contents(q)[i]
  <2>1. (q.head + (i - 1)) % q.max # q.tail
    BY SlotNotTail
  <2>2. i \in 1..Size(p)
    BY <1>5, <1>6
  <2>3. Contents(p)[i] = p.v[(q.head + (i - 1)) % q.max]
    BY <1>1, <1>3, <1>7, <2>2
  <2>. QED
    BY <1>1, <1>3, <1>8, <2>1, <2>3
<1>10. Contents(p)[Size(q) + 1] = m
  <2>1. Contents(p)[Size(q) + 1] = p.v[(q.head + Size(q)) % q.max]
    BY <1>1, <1>3, <1>5, <1>6, <1>7
  <2>. QED
    BY <1>1, <1>3, <2>1, SlotOfTail
<1>11. Contents(p) = Append(Contents(q), m)
  BY <1>5, <1>6, <1>7, <1>8, <1>9, <1>10
<1>. QED
  BY <1>3, <1>11 DEF p

\* On a full queue push_back drops the oldest item, or the new one when the
\* capacity is 0, and counts the drop.
LEMMA PushBackOverruns ==
  ASSUME NEW n \in Nat, NEW S, NEW q \in QueueType(n, S), NEW m \in S, IsFull(q)
  PROVE  /\ Contents(PushBack(q, m)) = Tail(Append(Contents(q), m))
         /\ PushBack(q, m).overrun = q.overrun + 1
<1>. DEFINE p == PushBack(q, m)
<1>1. /\ q.max = n + 1 /\ q.head \in 0..n /\ q.tail \in 0..n /\ q.overrun \in Nat
      /\ q.v \in [0..n -> S \cup {NoItem}]
  BY QueueFields
<1>2. p \in QueueType(n, S)
  BY PushBackType
<1>3. /\ p.max = n + 1 /\ p.head = Step(q, q.head) /\ p.tail = Step(q, q.tail)
      /\ p.overrun = q.overrun + 1 /\ p.v = [q.v EXCEPT ![q.tail] = m]
  BY <1>1 DEF PushBack
<1>. HIDE DEF p
<1>4. /\ Step(q, q.tail) = IF q.tail = n THEN 0 ELSE q.tail + 1
      /\ Step(q, q.head) = IF q.head = n THEN 0 ELSE q.head + 1
      /\ Step(q, q.tail) = q.head
  BY <1>1, StepValue DEF IsFull
<1>5. Size(q) = n
  BY SizeBounds
<1>6. Size(p) = n
  <2>1. Size(p) = IF p.tail >= p.head THEN p.tail - p.head ELSE n + 1 - (p.head - p.tail)
    BY <1>2, SizeValue
  <2>. QED
    BY <1>1, <1>3, <1>4, <2>1
<1>7. /\ Contents(p) \in Seq(S \cup {NoItem}) /\ Len(Contents(p)) = n
      /\ \A i \in 1..n : Contents(p)[i] = p.v[(p.head + (i - 1)) % p.max]
  BY <1>2, <1>6, ContentsSeq
<1>8. /\ Contents(q) \in Seq(S \cup {NoItem}) /\ Len(Contents(q)) = n
      /\ \A i \in 1..n : /\ (q.head + (i - 1)) % q.max \in 0..n
                        /\ Contents(q)[i] = q.v[(q.head + (i - 1)) % q.max]
  BY <1>5, ContentsSeq
<1>9. ASSUME NEW i \in 1..n
      PROVE  (p.head + (i - 1)) % p.max = (q.head + i) % q.max
  <2>1. (q.head + i) % q.max = IF q.head + i <= n THEN q.head + i ELSE q.head + i - (n + 1)
    BY SlotValue
  <2>2. (p.head + (i - 1)) % p.max =
          IF p.head + (i - 1) <= n THEN p.head + (i - 1) ELSE p.head + (i - 1) - (n + 1)
    BY <1>2, SlotValue
  <2>3. p.head = IF q.head = n THEN 0 ELSE q.head + 1
    BY <1>3, <1>4
  <2>. QED
    BY <1>1, <2>1, <2>2, <2>3
<1>10. ASSUME NEW i \in 1..n, i # n PROVE Contents(p)[i] = Contents(q)[i + 1]
  <2>1. i + 1 \in 1..n /\ (q.head + ((i + 1) - 1)) % q.max = (q.head + i) % q.max
    <3>1. (i + 1) - 1 = i
      OBVIOUS
    <3>. QED
      BY <1>10, <3>1
  <2>2. (q.head + i) % q.max # q.tail
    BY <1>5, <2>1, SlotNotTail
  <2>3. Contents(p)[i] = p.v[(q.head + i) % q.max]
    BY <1>7, <1>9
  <2>4. Contents(q)[i + 1] = q.v[(q.head + i) % q.max] /\ (q.head + i) % q.max \in 0..n
    BY <1>8, <2>1
  <2>. QED
    BY <1>1, <1>3, <2>2, <2>3, <2>4
<1>11. n # 0 => Contents(p)[n] = m
  BY <1>1, <1>3, <1>5, <1>7, <1>9, SlotOfTail
<1>12. Contents(p) = Tail(Append(Contents(q), m))
  BY <1>7, <1>8, <1>10, <1>11
<1>. QED
  BY <1>3, <1>12 DEF p

\* Taking the front of a queue that is not empty takes the head of its
\* contents and leaves their tail.
LEMMA TakeFrontTakesHead ==
  ASSUME NEW n \in Nat, NEW S, NEW q \in QueueType(n, S), ~IsEmpty(q)
  PROVE  /\ Contents(q) # <<>> /\ Front(q) = Head(Contents(q))
         /\ Contents(TakeFront(q)) = Tail(Contents(q))
         /\ TakeFront(q).overrun = q.overrun
<1>. DEFINE p == TakeFront(q)
<1>1. /\ q.max = n + 1 /\ q.head \in 0..n /\ q.tail \in 0..n
      /\ q.v \in [0..n -> S \cup {NoItem}]
  BY QueueFields
<1>2. p \in QueueType(n, S)
  BY TakeFrontType
<1>3. /\ p.max = n + 1 /\ p.head = Step(q, q.head) /\ p.tail = q.tail
      /\ p.overrun = q.overrun /\ p.v = [q.v EXCEPT ![q.head] = NoItem]
  BY <1>1 DEF TakeFront
<1>. HIDE DEF p
<1>4. Step(q, q.head) = IF q.head = n THEN 0 ELSE q.head + 1
  BY <1>1, StepValue
<1>5. Size(q) \in 1..n
  BY SizeBounds
<1>6. Size(p) = Size(q) - 1
  <2>1. Size(q) = IF q.tail >= q.head THEN q.tail - q.head ELSE n + 1 - (q.head - q.tail)
    BY SizeValue
  <2>2. Size(p) = IF p.tail >= p.head THEN p.tail - p.head ELSE n + 1 - (p.head - p.tail)
    BY <1>2, SizeValue
  <2>. QED
    BY SMTT(30), <1>1, <1>3, <1>4, <1>5, <2>1, <2>2
<1>7. /\ Contents(p) \in Seq(S \cup {NoItem}) /\ Len(Contents(p)) = Size(p)
      /\ \A i \in 1..Size(p) : Contents(p)[i] = p.v[(p.head + (i - 1)) % p.max]
  BY <1>2, ContentsSeq
<1>8. /\ Contents(q) \in Seq(S \cup {NoItem}) /\ Len(Contents(q)) = Size(q)
      /\ \A i \in 1..Size(q) : /\ (q.head + (i - 1)) % q.max \in 0..n
                              /\ Contents(q)[i] = q.v[(q.head + (i - 1)) % q.max]
  BY ContentsSeq
<1>9. ASSUME NEW i \in 1..Size(p) PROVE Contents(p)[i] = Contents(q)[i + 1]
  <2>1. i \in 1..n /\ i + 1 \in 1..Size(q)
    BY <1>5, <1>6
  <2>2. (q.head + i) % q.max = IF q.head + i <= n THEN q.head + i ELSE q.head + i - (n + 1)
    BY <2>1, SlotValue
  <2>3. (p.head + (i - 1)) % p.max =
          IF p.head + (i - 1) <= n THEN p.head + (i - 1) ELSE p.head + (i - 1) - (n + 1)
    BY <1>2, <2>1, SlotValue
  <2>4. (p.head + (i - 1)) % p.max = (q.head + i) % q.max
    <3>. DEFINE a == (p.head + (i - 1)) % p.max
                b == (q.head + i) % q.max
    <3>1. a = IF p.head + (i - 1) <= n THEN p.head + (i - 1) ELSE p.head + (i - 1) - (n + 1)
      BY <2>3
    <3>2. b = IF q.head + i <= n THEN q.head + i ELSE q.head + i - (n + 1)
      BY <2>2
    <3>3. p.head = IF q.head = n THEN 0 ELSE q.head + 1
      BY <1>3, <1>4
    <3>. HIDE DEF a, b
    <3>4. a = b
      BY <1>1, <2>1, <3>1, <3>2, <3>3
    <3>. QED
      BY <3>4 DEF a, b
  <2>5. (q.head + i) % q.max # q.head
    BY <1>1, <2>1, <2>2
  <2>6. Contents(q)[i + 1] = q.v[(q.head + i) % q.max] /\ (q.head + i) % q.max \in 0..n
    <3>1. (i + 1) - 1 = i
      BY <2>1
    <3>. QED
      BY <1>8, <2>1, <3>1
  <2>7. Contents(p)[i] = p.v[(q.head + i) % q.max]
    BY <1>7, <2>4
  <2>. QED
    BY <1>1, <1>3, <2>5, <2>6, <2>7
<1>10. Contents(p) = Tail(Contents(q))
  BY <1>5, <1>6, <1>7, <1>8, <1>9
<1>11. Contents(q)[1] = q.v[q.head]
  <2>1. 1 \in 1..Size(q) /\ (q.head + (1 - 1)) % q.max = q.head
    BY <1>1, <1>5
  <2>. QED
    BY <1>8, <2>1
<1>. QED
  BY <1>3, <1>5, <1>8, <1>10, <1>11 DEF p, Front

\* Popping the front without taking it leaves the same contents.
LEMMA PopFrontLeavesTail ==
  ASSUME NEW n \in Nat, NEW S, NEW q \in QueueType(n, S), ~IsEmpty(q)
  PROVE  /\ PopFront(q) \in QueueType(n, S)
         /\ Contents(PopFront(q)) = Tail(Contents(q))
<1>. DEFINE p == PopFront(q)
            r == TakeFront(q)
<1>1. /\ q.max = n + 1 /\ q.head \in 0..n /\ q.tail \in 0..n
      /\ q.v \in [0..n -> S \cup {NoItem}]
  BY QueueFields
<1>2. Step(q, q.head) \in 0..n
  BY <1>1, StepValue
<1>3. p \in QueueType(n, S) /\ r \in QueueType(n, S)
  BY <1>1, <1>2, TakeFrontType DEF PopFront, QueueType
<1>4. /\ p.max = r.max /\ p.head = r.head /\ p.tail = r.tail
      /\ p.v = q.v /\ r.v = [q.v EXCEPT ![q.head] = NoItem]
      /\ r.max = n + 1 /\ r.head = Step(q, q.head) /\ r.tail = q.tail
  BY <1>1 DEF PopFront, TakeFront, QueueType
<1>. HIDE DEF p, r
<1>5. Size(p) = Size(r) /\ Size(q) \in 1..n /\ Size(r) \in 0..n
  BY <1>3, <1>4, SizeBounds DEF Size
<1>6. ASSUME NEW i \in 1..Size(r) PROVE Contents(p)[i] = Contents(r)[i]
  <2>. DEFINE k == (r.head + (i - 1)) % r.max
  <2>1. k \in 0..n /\ Contents(r)[i] = r.v[k]
    BY <1>3, ContentsSeq
  <2>2. Contents(p)[i] = p.v[(p.head + (i - 1)) % p.max]
    BY <1>3, <1>5, ContentsSeq
  <2>3. k # q.head
    <3>1. k = IF r.head + (i - 1) <= n THEN r.head + (i - 1) ELSE r.head + (i - 1) - (n + 1)
      BY <1>3, <1>5, SlotValue
    <3>2. r.head = IF q.head = n THEN 0 ELSE q.head + 1
      BY <1>1, <1>4, StepValue
    <3>3. Size(r) = IF r.tail >= r.head THEN r.tail - r.head ELSE n + 1 - (r.head - r.tail)
      BY <1>3, SizeValue
    <3>4. q.tail # q.head
      BY DEF IsEmpty
    <3>. HIDE DEF k
    <3>. QED
      BY SMTT(30), <1>1, <1>4, <1>5, <3>1, <3>2, <3>3, <3>4
  <2>. HIDE DEF k
  <2>4. Contents(p)[i] = p.v[k]
    BY <1>4, <2>2 DEF k
  <2>. QED
    BY <1>1, <1>4, <2>1, <2>3, <2>4
<1>7. Contents(p) = Contents(r)
  BY <1>5, <1>6 DEF Contents
<1>8. Contents(r) = Tail(Contents(q))
  BY TakeFrontTakesHead DEF r
<1>. QED
  BY <1>3, <1>7, <1>8 DEF p

=============================================================================
