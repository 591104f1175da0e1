--------------------------- MODULE BoundedQueue ---------------------------
(***************************************************************************)
(* What mpmc_blocking_queue promises to the threads that share it: a FIFO  *)
(* of at most Cap items.  An item is put at the end while there is room;   *)
(* the overrunning put drops the oldest item instead of waiting and counts *)
(* the drop; a get takes the oldest item.  Nothing else changes the queue. *)
(***************************************************************************)
EXTENDS Naturals, Sequences

CONSTANTS Cap,    \* number of items the queue can hold
          Items   \* what threads put in it

VARIABLES buf,    \* the items in the queue, oldest first
          lost    \* number of items overrun

vars == <<buf, lost>>

Init == buf = <<>> /\ lost = 0

Put(m) ==
  /\ Len(buf) < Cap
  /\ buf' = Append(buf, m)
  /\ UNCHANGED lost

PutOverrun(m) ==
  /\ Len(buf) = Cap
  /\ buf' = Tail(Append(buf, m))
  /\ lost' = lost + 1

Get ==
  /\ buf # <<>>
  /\ buf' = Tail(buf)
  /\ UNCHANGED lost

Next == Get \/ \E m \in Items : Put(m) \/ PutOverrun(m)

Spec == Init /\ [][Next]_vars

=============================================================================
