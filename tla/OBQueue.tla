------------------------------ MODULE OBQueue ------------------------------
(***************************************************************************)
(* The circular work queue of OrderBook.sol: a fixed ring of QUEUE_CAPACITY *)
(* slots addressed by _queueHead and _queueTail, with the occupancy kept   *)
(* in _queueSize.  Placements stop at QUEUE_PLACE_LIMIT so that the last   *)
(* slots stay free for cancellations.                                      *)
(*                                                                         *)
(* An entry is abstracted to its kind and its queueId, the two fields the  *)
(* ring itself writes.                                                     *)
(***************************************************************************)
EXTENDS Naturals, Sequences

CONSTANTS QUEUE_CAPACITY,      \* slots of the ring (100 in the source)
          QUEUE_PLACE_LIMIT,   \* a PLACE is refused at this occupancy (90)
          ID_SPACE             \* queueId is an unsigned integer modulo this

ASSUME QueueAssumption ==
  /\ QUEUE_CAPACITY \in Nat \ {0}
  /\ QUEUE_PLACE_LIMIT \in 1..QUEUE_CAPACITY
  /\ ID_SPACE \in Nat
  /\ ID_SPACE > QUEUE_CAPACITY + 1

VARIABLES ring,      \* _queue: slot -> entry, Empty once deleted
          head,      \* _queueHead
          tail,      \* _queueTail
          size,      \* _queueSize
          nextId     \* _nextQueueId

vars == <<ring, head, tail, size, nextId>>

Slots == 0..(QUEUE_CAPACITY - 1)
Kinds == {"PLACE", "CANCEL", "CANCEL_ALL"}
Entry == [kind : Kinds, id : 1..(ID_SPACE - 1)]
Empty == [kind |-> "EMPTY", id |-> 0]

Init ==
  /\ ring = [s \in Slots |-> Empty]
  /\ head = 0
  /\ tail = 0
  /\ size = 0
  /\ nextId = 1

\* Mutants: the identifier wraps like the slots; a placement is still accepted at
\* the limit.
NextQueueId_Narrow(n) == IF n + 1 >= QUEUE_CAPACITY THEN 1 ELSE n + 1
CanQueue_AtLimit(kind) ==
  size <= (IF kind = "PLACE" THEN QUEUE_PLACE_LIMIT ELSE QUEUE_CAPACITY)

\* The slot after s, wrapping at the end of the ring.
NextSlot(s) == (s + 1) % QUEUE_CAPACITY

\* The identifier after n: the counter wraps and 0 is skipped.
NextQueueId(n) == IF (n + 1) % ID_SPACE = 0 THEN 1 ELSE n + 1

\* _canQueuePlace / _canQueueCancel.
CanQueue(kind) ==
  size < (IF kind = "PLACE" THEN QUEUE_PLACE_LIMIT ELSE QUEUE_CAPACITY)

\* _allocSlot followed by the store of the new entry into that slot.
Enqueue(kind) ==
  /\ CanQueue(kind)
  /\ ring' = [ring EXCEPT ![tail] = [kind |-> kind, id |-> nextId]]
  /\ tail' = NextSlot(tail)
  /\ nextId' = NextQueueId(nextId)
  /\ size' = size + 1
  /\ head' = head

AdvanceHead ==
  /\ size > 0
  /\ ring' = [ring EXCEPT ![head] = Empty]
  /\ head' = NextSlot(head)
  /\ size' = size - 1
  /\ UNCHANGED <<tail, nextId>>

Next == (\E kind \in Kinds : Enqueue(kind)) \/ AdvanceHead

Spec == Init /\ [][Next]_vars

-----------------------------------------------------------------------------
(* Properties. *)

\* The slot of the i-th entry, and the entries from the head on.
SlotOf(i) == (head + (i - 1)) % QUEUE_CAPACITY
Content == [i \in 1..size |-> ring[SlotOf(i)]]

\* Types, and what ties the four ring variables together: _queueSize stays in
\* the ring, the tail is size slots after the head, occupied slots hold entries
\* and a deleted slot is empty (_allocSlot and _advanceHead).
RingInv ==
  /\ ring \in [Slots -> Entry \cup {Empty}]
  /\ head \in Slots /\ tail \in Slots
  /\ size \in 0..QUEUE_CAPACITY
  /\ nextId \in 1..(ID_SPACE - 1)
  /\ tail = (head + size) % QUEUE_CAPACITY
  /\ \A s \in Slots : ring[s] # Empty <=> \E i \in 1..size : s = SlotOf(i)

\* Two entries in the queue never share a queueId, also when the counter wraps:
\* off-chain readers match Queued events to entries by it.
QueueIdsDistinct ==
  \A i, j \in 1..size : i # j => Content[i].id # Content[j].id

\* The ring implements a bounded first-in first-out queue: wrapping indices
\* never reorder, overwrite or lose an entry.
Fifo == INSTANCE BoundedFifo WITH
          CAPACITY <- QUEUE_CAPACITY, PLACE_LIMIT <- QUEUE_PLACE_LIMIT,
          NextIdAfter <- NextQueueId, q <- Content
FifoSpec == Fifo!Spec
=============================================================================
