-------------------------- MODULE OBQueue_proofs ---------------------------
(***************************************************************************)
(* The ring buffer implements the bounded queue for every capacity.        *)
(***************************************************************************)
EXTENDS OBQueue, SequenceTheorems, TLAPS

\* Reduction of an index that is less than twice the capacity.
LEMMA ModReduce ==
  ASSUME NEW a \in Nat, a < 2 * QUEUE_CAPACITY
  PROVE  a % QUEUE_CAPACITY
           = IF a < QUEUE_CAPACITY THEN a ELSE a - QUEUE_CAPACITY
<1> DEFINE C == QUEUE_CAPACITY
<1>1. C \in Nat /\ C > 0
  BY QueueAssumption
<1>2. CASE a < C
  BY <1>1, <1>2
<1>3. CASE a >= C
  <2>1. a = C * 1 + (a - C) /\ a - C \in 0..(C-1)
    BY <1>1, <1>3
  <2> QED BY <1>1, <1>3, <2>1
<1> QED BY <1>1, <1>2, <1>3

\* Index arithmetic without division, for indices less than twice the capacity.
Wrap(a) == IF a < QUEUE_CAPACITY THEN a ELSE a - QUEUE_CAPACITY

\* NextSlot and SlotOf stay in the ring and are the linear Wrap.
LEMMA Slotting ==
  ASSUME head \in Slots
  PROVE  /\ \A s \in Slots : NextSlot(s) = Wrap(s + 1) /\ NextSlot(s) \in Slots
         /\ \A i \in 1..(QUEUE_CAPACITY + 1) :
              SlotOf(i) = Wrap(head + (i - 1)) /\ SlotOf(i) \in Slots
         /\ \A n \in 0..QUEUE_CAPACITY :
              (head + n) % QUEUE_CAPACITY = Wrap(head + n)
<1>1. QUEUE_CAPACITY \in Nat /\ QUEUE_CAPACITY > 0
  BY QueueAssumption
<1>2. \A n \in 0..QUEUE_CAPACITY, h \in Slots :
        /\ (h + n) % QUEUE_CAPACITY = Wrap(h + n)
        /\ Wrap(h + n) \in Slots
  <2> TAKE n \in 0..QUEUE_CAPACITY, h \in Slots
  <2>1. h + n \in Nat /\ h + n < 2 * QUEUE_CAPACITY
    BY <1>1 DEF Slots
  <2>2. (h + n) % QUEUE_CAPACITY = Wrap(h + n)
    BY <2>1, ModReduce DEF Wrap
  <2> QED BY <1>1, <2>1, <2>2 DEF Wrap, Slots
<1>3. \A i \in 1..(QUEUE_CAPACITY + 1) : i - 1 \in 0..QUEUE_CAPACITY
  BY <1>1
<1> QED BY <1>1, <1>2, <1>3 DEF NextSlot, SlotOf

\* Distinct positions of the queue use distinct slots.
LEMMA SlotsDistinct ==
  ASSUME head \in Slots, NEW i \in 1..QUEUE_CAPACITY, NEW j \in 1..QUEUE_CAPACITY,
         SlotOf(i) = SlotOf(j)
  PROVE  i = j
<1>1. QUEUE_CAPACITY \in Nat /\ QUEUE_CAPACITY > 0
  BY QueueAssumption
<1>2. Wrap(head + (i - 1)) = Wrap(head + (j - 1))
  BY <1>1, Slotting
<1> QED BY <1>1, <1>2 DEF Wrap, Slots

\* The empty ring is right.
LEMMA InitRing == Init => RingInv
<1> SUFFICES ASSUME Init PROVE RingInv
  OBVIOUS
<1>1. head \in Slots /\ QUEUE_CAPACITY \in Nat /\ QUEUE_CAPACITY > 0
  BY QueueAssumption DEF Init, Slots
<1>2. tail = (head + size) % QUEUE_CAPACITY
  BY <1>1, Slotting DEF Init, Wrap
<1> QED BY <1>1, <1>2, QueueAssumption DEF Init, RingInv, Slots

\* Writing at the tail keeps the ring right.
LEMMA EnqueueRing ==
  ASSUME RingInv, NEW kind \in Kinds, Enqueue(kind)
  PROVE  RingInv'
<1> DEFINE C == QUEUE_CAPACITY
           e == [kind |-> kind, id |-> nextId]
<1>1. C \in Nat /\ C > 0 /\ size \in 0..(C - 1) /\ head \in Slots /\ head' = head
  BY QueueAssumption DEF RingInv, Enqueue, CanQueue
<1>2. tail = SlotOf(size + 1)
  BY <1>1 DEF RingInv, SlotOf
<1>3. e \in Entry /\ e # Empty
  BY DEF RingInv, Entry, Empty, Kinds
<1>4. nextId' \in 1..(ID_SPACE - 1)
  <2>1. ID_SPACE \in Nat /\ ID_SPACE > 2 /\ nextId \in 1..(ID_SPACE - 1)
    BY QueueAssumption DEF RingInv
  <2>2. CASE nextId + 1 = ID_SPACE
    BY <2>1, <2>2 DEF Enqueue, NextQueueId
  <2>3. CASE nextId + 1 # ID_SPACE
    BY <2>1, <2>3 DEF Enqueue, NextQueueId
  <2> QED BY <2>2, <2>3
<1>5. tail' \in Slots /\ tail' = (head' + size') % C
  <2>1. tail' = Wrap(tail + 1) /\ tail' \in Slots
    BY Slotting, <1>1 DEF Enqueue, RingInv
  <2>2. tail = Wrap(head + size)
    BY Slotting, <1>1 DEF RingInv
  <2>3. (head + (size + 1)) % C = Wrap(head + (size + 1))
    BY Slotting, <1>1
  <2>4. Wrap(tail + 1) = Wrap(head + (size + 1))
    BY <1>1, <2>2 DEF Wrap, Slots
  <2> QED BY <1>1, <2>1, <2>3, <2>4 DEF Enqueue
<1>6. \A s \in Slots : ring'[s] # Empty <=> \E i \in 1..size' : s = SlotOf(i)
  <2> SUFFICES ASSUME NEW s \in Slots
               PROVE  ring'[s] # Empty <=> \E i \in 1..size' : s = SlotOf(i)
    OBVIOUS
  <2>1. size' = size + 1 /\ 1..size' = 1..size \cup {size + 1}
    BY <1>1 DEF Enqueue
  <2>2. ring' = [ring EXCEPT ![tail] = e] /\ ring \in [Slots -> Entry \cup {Empty}]
    BY DEF Enqueue, RingInv
  <2>3. CASE s = tail
    BY <1>2, <1>3, <2>1, <2>2, <2>3
  <2>4. CASE s # tail
    BY <1>2, <2>1, <2>2, <2>4 DEF RingInv
  <2> QED BY <2>3, <2>4
<1>7. ring' \in [Slots -> Entry \cup {Empty}]
  BY <1>3 DEF Enqueue, RingInv
<1>8. size' \in 0..C
  BY <1>1 DEF Enqueue
<1> QED BY <1>1, <1>4, <1>5, <1>6, <1>7, <1>8 DEF RingInv, SlotOf

\* When the head moves, every position moves one down.
LEMMA AdvanceShifts ==
  ASSUME RingInv, AdvanceHead
  PROVE  /\ head' \in Slots
         /\ \A i \in 1..QUEUE_CAPACITY : SlotOf(i)' = SlotOf(i + 1)
<1> DEFINE C == QUEUE_CAPACITY
<1>1. C \in Nat /\ C > 0 /\ head \in Slots
  BY QueueAssumption DEF RingInv
<1>2. head' = Wrap(head + 1) /\ head' \in Slots
  BY <1>1, Slotting DEF AdvanceHead
<1>3. \A n \in 0..C, h \in Slots : (h + n) % C = Wrap(h + n)
  <2> TAKE n \in 0..C, h \in Slots
  <2>1. h + n \in Nat /\ h + n < 2 * C
    BY <1>1 DEF Slots
  <2> QED BY <2>1, ModReduce DEF Wrap
<1>4. ASSUME NEW i \in 1..C PROVE SlotOf(i)' = SlotOf(i + 1)
  <2>1. i - 1 \in 0..C /\ i \in 0..C
    BY <1>1
  <2>2. (head' + (i - 1)) % C = Wrap(head' + (i - 1))
    BY <1>2, <1>3, <2>1
  <2>3. (head + ((i + 1) - 1)) % C = Wrap(head + i)
    BY <1>1, <1>3, <2>1
  <2>4. Wrap(head' + (i - 1)) = Wrap(head + i)
    BY <1>1, <1>2 DEF Wrap, Slots
  <2> QED BY <2>2, <2>3, <2>4 DEF SlotOf
<1> QED BY <1>2, <1>4

\* Deleting the head keeps the ring right.
LEMMA AdvanceRing ==
  ASSUME RingInv, AdvanceHead
  PROVE  RingInv'
<1> DEFINE C == QUEUE_CAPACITY
<1>1. C \in Nat /\ C > 0 /\ size \in 1..C /\ head \in Slots /\ size' = size - 1
  BY QueueAssumption DEF RingInv, AdvanceHead
<1>2. head' \in Slots /\ \A i \in 1..C : SlotOf(i)' = SlotOf(i + 1)
  BY AdvanceShifts
<1>3. tail' = (head' + size') % C
  <2>1. tail' = SlotOf(size + 1)
    BY <1>1 DEF RingInv, AdvanceHead, SlotOf
  <2>2. \A i \in 1..C : (head' + (i - 1)) % C = SlotOf(i + 1)
    BY <1>2 DEF SlotOf
  <2>3. (head' + (size - 1)) % C = SlotOf(size + 1)
    BY <1>1, <2>2
  <2> QED BY <1>1, <2>1, <2>3
<1>4. head = SlotOf(1)
  BY <1>1, Slotting DEF Wrap, Slots
<1>5. \A s \in Slots : ring'[s] # Empty <=> \E i \in 1..size' : s = SlotOf(i)'
  <2> SUFFICES ASSUME NEW s \in Slots
               PROVE  ring'[s] # Empty <=> \E i \in 1..size' : s = SlotOf(i)'
    OBVIOUS
  <2>1. ring' = [ring EXCEPT ![head] = Empty] /\ ring \in [Slots -> Entry \cup {Empty}]
    BY DEF AdvanceHead, RingInv
  <2>2. (\E i \in 1..size' : s = SlotOf(i)') <=> (\E j \in 2..size : s = SlotOf(j))
    <3>1. ASSUME NEW i \in 1..size', s = SlotOf(i)'
          PROVE  \E j \in 2..size : s = SlotOf(j)
      BY <1>1, <1>2, <3>1
    <3>2. ASSUME NEW j \in 2..size, s = SlotOf(j)
          PROVE  \E i \in 1..size' : s = SlotOf(i)'
      <4>1. j - 1 \in 1..size' /\ j - 1 \in 1..C /\ (j - 1) + 1 = j
        BY <1>1
      <4> QED BY <1>2, <3>2, <4>1
    <3> QED BY <3>1, <3>2
  <2>3. CASE s = head
    <3>1. ASSUME NEW j \in 2..size, s = SlotOf(j) PROVE FALSE
      <4>1. j \in 1..C /\ 1 \in 1..C /\ j # 1
        BY <1>1
      <4> QED BY <1>1, <1>4, <2>3, <3>1, <4>1, SlotsDistinct
    <3> QED BY <2>1, <2>2, <2>3, <3>1
  <2>4. CASE s # head
    <3>1. (\E i \in 1..size : s = SlotOf(i)) <=> (\E j \in 2..size : s = SlotOf(j))
      BY <1>1, <1>4, <2>4
    <3> QED BY <2>1, <2>2, <2>4, <3>1 DEF RingInv
  <2> QED BY <2>3, <2>4
<1>6. /\ ring' \in [Slots -> Entry \cup {Empty}]
      /\ tail' \in Slots /\ size' \in 0..C
      /\ nextId' \in 1..(ID_SPACE - 1)
  BY <1>1 DEF AdvanceHead, RingInv
<1> QED BY <1>2, <1>3, <1>5, <1>6 DEF RingInv

\* The ring variables stay tied together for every capacity: _queueTail is
\* always _queueSize slots after _queueHead, and exactly those slots are used.
THEOREM RingSafe == Spec => []RingInv
<1>1. RingInv /\ [Next]_vars => RingInv'
  <2> SUFFICES ASSUME RingInv, [Next]_vars PROVE RingInv'
    OBVIOUS
  <2>1. ASSUME NEW kind \in Kinds, Enqueue(kind) PROVE RingInv'
    BY <2>1, EnqueueRing
  <2>2. CASE AdvanceHead
    BY <2>2, AdvanceRing
  <2>3. CASE UNCHANGED vars
    BY <2>3 DEF vars, RingInv, SlotOf
  <2> QED BY <2>1, <2>2, <2>3 DEF Next
<1> QED BY <1>1, InitRing, PTL DEF Spec

-----------------------------------------------------------------------------
(* The refinement: the ring's content is the abstract queue. *)

\* A tail, index by index.
LEMMA TailAsFunction ==
  ASSUME NEW S, NEW s \in Seq(S), s # <<>>
  PROVE  Tail(s) = [i \in 1..(Len(s) - 1) |-> s[i + 1]]
<1> DEFINE t == [i \in 1..(Len(s) - 1) |-> s[i + 1]]
<1>1. Len(s) \in Nat /\ Len(s) > 0
  OBVIOUS
<1>2. \A i \in 1..(Len(s) - 1) : s[i + 1] \in S
  BY <1>1
<1>3. t \in Seq(S) /\ Len(t) = Len(s) - 1
  BY <1>1, <1>2
<1>4. /\ Tail(s) \in Seq(S) /\ Len(Tail(s)) = Len(s) - 1
      /\ \A i \in 1..Len(Tail(s)) : Tail(s)[i] = s[i + 1]
  BY HeadTailProperties
<1> QED BY <1>1, <1>3, <1>4, SeqEqual

\* The entries from head to tail, index by index.
LEMMA ContentIsSeq ==
  ASSUME RingInv
  PROVE  /\ Content \in Seq(Entry \cup {Empty})
         /\ Len(Content) = size
         /\ \A i \in 1..size : Content[i] = ring[SlotOf(i)]
<1>1. QUEUE_CAPACITY \in Nat /\ size \in 0..QUEUE_CAPACITY /\ head \in Slots
  BY QueueAssumption DEF RingInv
<1>2. \A i \in 1..size : ring[SlotOf(i)] \in Entry \cup {Empty}
  <2> TAKE i \in 1..size
  <2>1. i \in 1..(QUEUE_CAPACITY + 1)
    BY <1>1
  <2>2. SlotOf(i) \in Slots
    BY <1>1, <2>1, Slotting
  <2> QED BY <2>2 DEF RingInv
<1> QED BY <1>1, <1>2 DEF Content

\* _enqueuePlace, _enqueueCancel and _enqueueCancelAll append.
LEMMA EnqueueIsPut ==
  ASSUME RingInv, NEW kind \in Kinds, Enqueue(kind)
  PROVE  Fifo!Put(kind)
<1> DEFINE e == [kind |-> kind, id |-> nextId]
<1>1. /\ QUEUE_CAPACITY \in Nat /\ size \in 0..(QUEUE_CAPACITY - 1)
      /\ head \in Slots /\ head' = head /\ size' = size + 1
      /\ ring' = [ring EXCEPT ![tail] = e]
      /\ ring \in [Slots -> Entry \cup {Empty}] /\ tail \in Slots
  BY QueueAssumption DEF RingInv, Enqueue, CanQueue
<1>2. tail = SlotOf(size + 1)
  BY <1>1 DEF RingInv, SlotOf
<1>3. Content' = [i \in 1..(size + 1) |-> ring'[SlotOf(i)]]
  BY <1>1 DEF Content, SlotOf
<1>4. \A i \in 1..size : SlotOf(i) \in Slots /\ SlotOf(i) # tail
  <2> SUFFICES ASSUME NEW i \in 1..size PROVE SlotOf(i) \in Slots /\ SlotOf(i) # tail
    OBVIOUS
  <2>1. i \in 1..QUEUE_CAPACITY /\ size + 1 \in 1..QUEUE_CAPACITY /\ i # size + 1
    BY <1>1
  <2> QED BY <1>1, <1>2, <2>1, Slotting, SlotsDistinct
<1>5. /\ \A i \in 1..size : ring'[SlotOf(i)] = ring[SlotOf(i)]
      /\ ring'[SlotOf(size + 1)] = e
  BY <1>1, <1>2, <1>4
<1>6. Append(Content, e) = [i \in 1..(size + 1) |->
                              IF i = size + 1 THEN e ELSE ring[SlotOf(i)]]
  BY <1>1, ContentIsSeq DEF Content
<1>7. Content' = Append(Content, e)
  <2>1. \A i \in 1..(size + 1) :
          ring'[SlotOf(i)] = IF i = size + 1 THEN e ELSE ring[SlotOf(i)]
    BY <1>1, <1>5
  <2> QED BY <1>3, <1>6, <2>1
<1>8. Len(Content) = size
  BY ContentIsSeq
<1> QED BY <1>7, <1>8 DEF Fifo!Put, Enqueue, CanQueue

\* _advanceHead drops the oldest entry.
LEMMA AdvanceIsTake ==
  ASSUME RingInv, AdvanceHead
  PROVE  Fifo!Take
<1>1. /\ QUEUE_CAPACITY \in Nat /\ size \in 1..QUEUE_CAPACITY
      /\ head \in Slots /\ size' = size - 1
      /\ ring' = [ring EXCEPT ![head] = Empty]
      /\ ring \in [Slots -> Entry \cup {Empty}]
  BY QueueAssumption DEF RingInv, AdvanceHead
<1>2. head = SlotOf(1)
  BY <1>1, Slotting DEF Wrap, Slots
<1>3. \A i \in 1..(size - 1) : SlotOf(i)' = SlotOf(i + 1)
  BY <1>1, AdvanceShifts
<1>4. \A i \in 2..size : SlotOf(i) \in Slots /\ SlotOf(i) # head
  <2> SUFFICES ASSUME NEW i \in 2..size PROVE SlotOf(i) \in Slots /\ SlotOf(i) # head
    OBVIOUS
  <2>1. i \in 1..QUEUE_CAPACITY /\ 1 \in 1..QUEUE_CAPACITY /\ i # 1
    BY <1>1
  <2> QED BY <1>1, <1>2, <2>1, Slotting, SlotsDistinct
<1>5. \A i \in 1..(size - 1) : i + 1 \in 2..size
  BY <1>1
<1>6. Content' = [i \in 1..(size - 1) |-> ring[SlotOf(i + 1)]]
  <2>1. \A i \in 1..(size - 1) : ring'[SlotOf(i)'] = ring[SlotOf(i + 1)]
    BY <1>1, <1>3, <1>4, <1>5
  <2> QED BY <1>1, <2>1 DEF Content
<1>7. Len(Content) = size /\ Content # <<>>
  BY <1>1, ContentIsSeq
<1>8. Tail(Content) = [i \in 1..(size - 1) |-> ring[SlotOf(i + 1)]]
  <2>1. Tail(Content) = [i \in 1..(size - 1) |-> Content[i + 1]]
    BY <1>7, ContentIsSeq, TailAsFunction
  <2>2. \A i \in 1..(size - 1) : Content[i + 1] = ring[SlotOf(i + 1)]
    BY <1>1, ContentIsSeq
  <2> QED BY <2>1, <2>2
<1> QED BY <1>6, <1>7, <1>8 DEF Fifo!Take, AdvanceHead

\* For every capacity and placement limit the ring buffer is a bounded
\* first-in first-out queue: no wrap of an index reorders or loses an entry.
THEOREM RingImplementsFifo == Spec => FifoSpec
<1>1. Init => Fifo!Init
  BY QueueAssumption DEF Init, Fifo!Init, Content
<1>2. RingInv /\ [Next]_vars => [Fifo!Next]_<<Content, nextId>>
  <2> SUFFICES ASSUME RingInv, [Next]_vars
               PROVE  [Fifo!Next]_<<Content, nextId>>
    OBVIOUS
  <2>1. ASSUME NEW kind \in Kinds, Enqueue(kind) PROVE Fifo!Next
    BY <2>1, EnqueueIsPut DEF Fifo!Next
  <2>2. CASE AdvanceHead
    BY <2>2, AdvanceIsTake DEF Fifo!Next
  <2>3. CASE UNCHANGED vars
    BY <2>3 DEF vars, Content, SlotOf
  <2> QED BY <2>1, <2>2, <2>3 DEF Next
<1> QED BY <1>1, <1>2, RingSafe, PTL DEF Spec, FifoSpec, Fifo!Spec
-----------------------------------------------------------------------------
(* Identifiers. *)

\* The identifier k steps before n on the cycle 1..ID_SPACE - 1.
Before(n, k) == IF n > k THEN n - k ELSE n - k + (ID_SPACE - 1)

\* The entries hold the identifiers handed out last, in order.
IdsInv == \A i \in 1..size : Content[i].id = Before(nextId, size + 1 - i)

\* Handing out an identifier moves every earlier one a step away.
LEMMA NextIdMovesOn ==
  ASSUME NEW n \in 1..(ID_SPACE - 1), NEW k \in 0..QUEUE_CAPACITY
  PROVE  Before(NextQueueId(n), k + 1) = IF k = 0 THEN n ELSE Before(n, k)
<1>1. ID_SPACE \in Nat /\ QUEUE_CAPACITY \in Nat /\ ID_SPACE > QUEUE_CAPACITY + 1
  BY QueueAssumption
<1>2. CASE n + 1 = ID_SPACE
  <2>1. NextQueueId(n) = 1
    BY <1>1, <1>2 DEF NextQueueId
  <2> QED BY <1>1, <1>2, <2>1 DEF Before
<1>3. CASE n + 1 # ID_SPACE
  <2>1. n + 1 \in Nat /\ n + 1 < ID_SPACE
    BY <1>1, <1>3
  <2>2. NextQueueId(n) = n + 1
    BY <1>1, <2>1 DEF NextQueueId
  <2> QED BY <1>1, <1>3, <2>2 DEF Before
<1> QED BY <1>2, <1>3

\* An entry written at the tail has an id no queued entry has.
LEMMA EnqueueIds ==
  ASSUME RingInv, IdsInv, NEW kind \in Kinds, Enqueue(kind)
  PROVE  IdsInv'
<1> DEFINE e == [kind |-> kind, id |-> nextId]
<1>1. /\ QUEUE_CAPACITY \in Nat /\ size \in 0..(QUEUE_CAPACITY - 1)
      /\ nextId \in 1..(ID_SPACE - 1) /\ size' = size + 1
      /\ nextId' = NextQueueId(nextId)
  BY QueueAssumption DEF RingInv, Enqueue, CanQueue
<1>2. Content' = Append(Content, e)
  BY EnqueueIsPut DEF Fifo!Put
<1>3. Content \in Seq(Entry \cup {Empty}) /\ Len(Content) = size
  BY ContentIsSeq
<1>4. SUFFICES ASSUME NEW i \in 1..(size + 1)
               PROVE  Content'[i].id = Before(nextId', size + 2 - i)
  BY <1>1 DEF IdsInv
<1>5. CASE i = size + 1
  <2>1. Content'[i] = e
    BY <1>2, <1>3, <1>5
  <2>2. Before(nextId', 1) = nextId
    BY <1>1, NextIdMovesOn
  <2> QED BY <1>1, <1>5, <2>1, <2>2
<1>6. CASE i # size + 1
  <2>1. i \in 1..size /\ size + 1 - i \in 1..QUEUE_CAPACITY
        /\ (size + 1 - i) + 1 = size + 2 - i
    BY <1>1, <1>6
  <2>2. Content'[i] = Content[i]
    BY <1>2, <1>3, <2>1
  <2>3. Before(nextId', (size + 1 - i) + 1) = Before(nextId, size + 1 - i)
    BY <1>1, <2>1, NextIdMovesOn
  <2> QED BY <2>1, <2>2, <2>3 DEF IdsInv
<1> QED BY <1>5, <1>6

\* Deleting the head leaves ids distinct.
LEMMA AdvanceIds ==
  ASSUME RingInv, IdsInv, AdvanceHead
  PROVE  IdsInv'
<1>1. /\ QUEUE_CAPACITY \in Nat /\ size \in 1..QUEUE_CAPACITY
      /\ size' = size - 1 /\ nextId' = nextId
  BY QueueAssumption DEF RingInv, AdvanceHead
<1>2. Content' = Tail(Content)
  BY AdvanceIsTake DEF Fifo!Take
<1>3. Content \in Seq(Entry \cup {Empty}) /\ Len(Content) = size
  BY ContentIsSeq
<1>4. SUFFICES ASSUME NEW i \in 1..(size - 1)
               PROVE  Content'[i].id = Before(nextId, size - i)
  BY <1>1 DEF IdsInv
<1>5. i + 1 \in 1..size /\ size + 1 - (i + 1) = size - i
  BY <1>1
<1>6. Content'[i] = Content[i + 1]
  BY <1>1, <1>2, <1>3
<1> QED BY <1>5, <1>6 DEF IdsInv

\* Identifiers that belong to a queue are closer to each other than the cycle is
\* long, so that no two are the same.
LEMMA IdsApart ==
  ASSUME RingInv, IdsInv
  PROVE  QueueIdsDistinct
<1>1. /\ ID_SPACE \in Nat /\ QUEUE_CAPACITY \in Nat /\ ID_SPACE > QUEUE_CAPACITY + 1
      /\ size \in 0..QUEUE_CAPACITY /\ nextId \in 1..(ID_SPACE - 1)
  BY QueueAssumption DEF RingInv
<1>2. SUFFICES ASSUME NEW i \in 1..size, NEW j \in 1..size, i # j
               PROVE  Content[i].id # Content[j].id
  BY DEF QueueIdsDistinct
<1>3. Before(nextId, size + 1 - i) # Before(nextId, size + 1 - j)
  BY <1>1, <1>2 DEF Before
<1> QED BY <1>3 DEF IdsInv

\* Two entries of the queue never share a queueId, whatever the capacity and the
\* width of the counter: _nextQueueId wraps and skips 0, but the queue is shorter
\* than its cycle.
THEOREM IdsNeverShared == Spec => []QueueIdsDistinct
<1>1. Init => IdsInv
  BY DEF Init, IdsInv
<1>2. RingInv /\ IdsInv /\ [Next]_vars => IdsInv'
  <2> SUFFICES ASSUME RingInv, IdsInv, [Next]_vars PROVE IdsInv'
    OBVIOUS
  <2>1. ASSUME NEW kind \in Kinds, Enqueue(kind) PROVE IdsInv'
    BY <2>1, EnqueueIds
  <2>2. CASE AdvanceHead
    BY <2>2, AdvanceIds
  <2>3. CASE UNCHANGED vars
    BY <2>3 DEF vars, IdsInv, Content, SlotOf
  <2> QED BY <2>1, <2>2, <2>3 DEF Next
<1> QED BY <1>1, <1>2, RingSafe, IdsApart, PTL DEF Spec
=============================================================================
