----------------------------- MODULE CircularQ -----------------------------
(***************************************************************************)
(* spdlog/details/circular_q.h: the ring buffer under the async queue and  *)
(* under the backtracer.  A queue is a record of the class's fields:       *)
(* max (max_items_), head, tail, overrun (overrun_counter_) and the slots  *)
(* v, indexed from 0.  One slot more than the capacity is allocated, so a  *)
(* full queue keeps its reserved slot at the tail.                         *)
(*                                                                         *)
(* Slots keep what they hold after the queue has moved past them: an       *)
(* overrun item stays in its slot until a later push_back assigns it.      *)
(***************************************************************************)
EXTENDS Naturals, Sequences

CONSTANT NoItem  \* a default-constructed or moved-from element

\* circular_q(size_t max_items): one item is reserved as marker for full q.
NewQ(maxItems) ==
  [max |-> maxItems + 1, head |-> 0, tail |-> 0, overrun |-> 0,
   v |-> [i \in 0..maxItems |-> NoItem]]

\* The queues of capacity maxItems over the items S.
QueueType(maxItems, S) ==
  [max : {maxItems + 1}, head : 0..maxItems, tail : 0..maxItems,
   overrun : Nat, v : [0..maxItems -> S \cup {NoItem}]]

Step(q, i) == (i + 1) % q.max

IsEmpty(q) == q.tail = q.head

IsFull(q) == q.max > 0 /\ Step(q, q.tail) = q.head

Size(q) ==
  IF q.tail >= q.head THEN q.tail - q.head ELSE q.max - (q.head - q.tail)

Front(q) == q.v[q.head]

\* Mutants: the head is not moved past the item overrun; the overrun is not
\* counted.
PushBackKeepHead(q, item) ==
  [q EXCEPT !.v[q.tail] = item,
            !.tail = Step(q, q.tail),
            !.overrun = IF IsFull(q) THEN @ + 1 ELSE @]
PushBackUncounted(q, item) ==
  [q EXCEPT !.v[q.tail] = item,
            !.tail = Step(q, q.tail),
            !.head = IF IsFull(q) THEN Step(q, @) ELSE @]

\* push_back: overrun (oldest) item if no room left; a disabled queue
\* (max_items_ = 0) ignores the item.
PushBack(q, item) ==
  IF q.max = 0 THEN q
  ELSE [max |-> q.max,
        head |-> IF IsFull(q) THEN Step(q, q.head) ELSE q.head,
        tail |-> Step(q, q.tail),
        overrun |-> IF IsFull(q) THEN q.overrun + 1 ELSE q.overrun,
        v |-> [q.v EXCEPT ![q.tail] = item]]

\* Mutant: the item is read and not popped.
TakeFrontUnpopped(q) == q

\* front() moved from, then pop_front(), as the blocking queue uses the pair.
TakeFront(q) ==
  [max |-> q.max, head |-> Step(q, q.head), tail |-> q.tail,
   overrun |-> q.overrun, v |-> [q.v EXCEPT ![q.head] = NoItem]]

\* pop_front alone, of an item that was only read.
PopFront(q) == [q EXCEPT !.head = Step(q, @)]

\* What the queue holds, oldest first: at(0), ..., at(size() - 1).
Contents(q) == [i \in 1..Size(q) |-> q.v[(q.head + (i - 1)) % q.max]]

=============================================================================
