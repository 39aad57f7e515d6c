------------------------- MODULE OrderBook_proofs --------------------------
(***************************************************************************)
(* Proofs about the control of the order book: the queue and the chain of  *)
(* self-calls that works it off, the deferred shutdown and the drain.  The *)
(* effect of an entry on the book (HeadEffect) stays an opaque value: none *)
(* of these facts depends on how orders match.                             *)
(***************************************************************************)
EXTENDS OrderBookSystem, Sums, SequenceTheorems

Calls == {"processHead", "shutdown"}

-----------------------------------------------------------------------------
(* Sequences. *)

Has(c, s) == \E i \in DOMAIN s : s[i] = c

\* The elements of a concatenation.
LEMMA InConcat ==
  ASSUME NEW S, NEW s \in Seq(S), NEW t \in Seq(S), NEW x
  PROVE  /\ s \o t \in Seq(S)
         /\ Has(x, s \o t) <=> Has(x, s) \/ Has(x, t)
<1>1. /\ s \o t \in Seq(S) /\ Len(s \o t) = Len(s) + Len(t)
      /\ \A i \in 1..(Len(s) + Len(t)) :
           (s \o t)[i] = IF i <= Len(s) THEN s[i] ELSE t[i - Len(s)]
  BY ConcatProperties
<1>2. /\ DOMAIN s = 1..Len(s) /\ DOMAIN t = 1..Len(t) /\ Len(s) \in Nat /\ Len(t) \in Nat
      /\ DOMAIN (s \o t) = 1..(Len(s) + Len(t))
  BY <1>1, LenProperties
<1>3. ASSUME NEW i \in DOMAIN (s \o t), (s \o t)[i] = x
      PROVE  (\E j \in DOMAIN s : s[j] = x) \/ (\E j \in DOMAIN t : t[j] = x)
  <2>1. CASE i <= Len(s)
    BY <1>1, <1>2, <1>3, <2>1
  <2>2. CASE ~(i <= Len(s))
    <3>1. i - Len(s) \in 1..Len(t) /\ t[i - Len(s)] = x
      BY <1>1, <1>2, <1>3, <2>2
    <3> QED BY <1>2, <3>1
  <2> QED BY <2>1, <2>2
<1>4. ASSUME NEW j \in DOMAIN s, s[j] = x
      PROVE  \E i \in DOMAIN (s \o t) : (s \o t)[i] = x
  <2>1. j \in 1..(Len(s) + Len(t)) /\ j <= Len(s)
    BY <1>2
  <2> QED BY <1>1, <1>2, <1>4, <2>1
<1>5. ASSUME NEW j \in DOMAIN t, t[j] = x
      PROVE  \E i \in DOMAIN (s \o t) : (s \o t)[i] = x
  <2>1. Len(s) + j \in 1..(Len(s) + Len(t)) /\ ~(Len(s) + j <= Len(s))
        /\ (Len(s) + j) - Len(s) = j
    BY <1>2
  <2> QED BY <1>1, <1>2, <1>5, <2>1
<1> QED BY <1>1, <1>3, <1>4, <1>5 DEF Has

\* Removing the head keeps every other element.
LEMMA InTail ==
  ASSUME NEW S, NEW s \in Seq(S), s # <<>>, NEW x, x # Head(s)
  PROVE  /\ Tail(s) \in Seq(S)
         /\ Has(x, s) => Has(x, Tail(s))
<1>1. /\ Tail(s) \in Seq(S) /\ Len(Tail(s)) = Len(s) - 1
      /\ \A i \in 1..Len(Tail(s)) : Tail(s)[i] = s[i + 1]
      /\ DOMAIN s = 1..Len(s) /\ DOMAIN Tail(s) = 1..Len(Tail(s)) /\ Len(s) \in Nat
  BY HeadTailProperties, LenProperties
<1>2. ASSUME NEW i \in DOMAIN s, s[i] = x
      PROVE  \E j \in DOMAIN Tail(s) : Tail(s)[j] = x
  <2>1. i # 1
    BY <1>2
  <2>2. i - 1 \in 1..Len(Tail(s)) /\ (i - 1) + 1 = i
    BY <1>1, <2>1
  <2> QED BY <1>1, <1>2, <2>2
<1> QED BY <1>1, <1>2 DEF Has

-----------------------------------------------------------------------------
(* The queue value. *)

\* A finite queue of entries, whatever they are, within the capacity.
IsQueue(q) == (\E E : q \in Seq(E)) /\ Len(q) \in 0..QUEUE_CAPACITY

\* What fits keeps the queue within a limit that is no more than the capacity.
LEMMA FittingBounded ==
  ASSUME NEW E, NEW q \in Seq(E), NEW es \in Seq(E), NEW limit \in 0..QUEUE_CAPACITY,
         Len(q) <= QUEUE_CAPACITY
  PROVE  /\ q \o Fitting(es, q, limit) \in Seq(E)
         /\ Len(q \o Fitting(es, q, limit)) <= QUEUE_CAPACITY
<1> DEFINE room == Max({0, limit - Len(q)})
           k == Min({Len(es), room})
<1>1. QUEUE_CAPACITY \in Nat /\ Len(q) \in Nat /\ Len(es) \in Nat /\ limit \in Nat
  BY OrderBookAssumption, LenProperties
<1>2. room = IF limit > Len(q) THEN limit - Len(q) ELSE 0
  BY <1>1, MaxOfTwo
<1>3. room \in Nat /\ Len(q) + room <= QUEUE_CAPACITY
  BY <1>1, <1>2
<1>4. k \in Nat /\ k <= Len(es) /\ k <= room
  <2> HIDE DEF room
  <2> QED BY <1>1, <1>3, MinOfTwo
<1>5. Fitting(es, q, limit) = SubSeq(es, 1, k)
  BY DEF Fitting
<1> HIDE DEF k
<1>6. SubSeq(es, 1, k) \in Seq(E) /\ Len(SubSeq(es, 1, k)) = k
  <2>1. \A i \in 1..k : es[i] \in E
    BY <1>1, <1>4, ElementOfSeq
  <2> QED BY <1>4, <2>1, SubSeqProperties
<1> QED BY <1>1, <1>3, <1>4, <1>5, <1>6, ConcatProperties

\* The part of a batch that fits is a part of the batch.
LEMMA FittingIsPart ==
  ASSUME NEW E, NEW C, NEW q \in Seq(E), NEW es \in Seq(C), NEW limit \in 0..QUEUE_CAPACITY
  PROVE  Fitting(es, q, limit) \in Seq(C)
<1> DEFINE room == Max({0, limit - Len(q)})
           k == Min({Len(es), room})
<1>1. Len(q) \in Nat /\ Len(es) \in Nat /\ limit \in Nat
  BY OrderBookAssumption, LenProperties
<1>2. room = IF 0 >= limit - Len(q) THEN 0 ELSE limit - Len(q)
  BY <1>1, MaxOfTwo
<1>3. room \in Nat
  BY <1>1, <1>2
<1>4. k \in Nat /\ k <= Len(es)
  <2> HIDE DEF room
  <2> QED BY <1>1, <1>3, MinOfTwo
<1>5. Fitting(es, q, limit) = SubSeq(es, 1, k)
  BY DEF Fitting
<1> HIDE DEF k
<1>6. \A i \in 1..k : es[i] \in C
  BY <1>1, <1>4, ElementOfSeq
<1> QED BY <1>4, <1>5, <1>6, SubSeqProperties

-----------------------------------------------------------------------------
(* One pass of _processHeadCore. *)

\* The queue a pass leaves behind is a queue, and no longer than before.
LEMMA CoreQueue ==
  ASSUME NEW q, NEW calls, NEW before, NEW after, IsQueue(q),
         ProcessHeadCore(q, calls, before, after)
  PROVE  IsQueue(queue')
<1>1. PICK E : q \in Seq(E)
  BY DEF IsQueue
<1>2. Len(q) \in 0..QUEUE_CAPACITY /\ QUEUE_CAPACITY \in Nat
  BY OrderBookAssumption DEF IsQueue
<1>3. CASE queue' = q
  BY <1>3
<1>4. ASSUME q # <<>>
      PROVE  /\ IsQueue(Tail(q))
             /\ \A e : IsQueue(<<e>> \o Tail(q))
  <2>1. Tail(q) \in Seq(E) /\ Len(Tail(q)) = Len(q) - 1 /\ Len(q) > 0
    BY <1>1, <1>2, <1>4, HeadTailProperties, EmptySeq
  <2>2. IsQueue(Tail(q))
    BY <1>2, <2>1 DEF IsQueue
  <2>3. ASSUME NEW e PROVE IsQueue(<<e>> \o Tail(q))
    <3> DEFINE F == E \cup {e}
    <3>1. Tail(q) \in Seq(F) /\ <<e>> \in Seq(F) /\ Len(<<e>>) = 1
      <4>1. <<e>> \in Seq(F) /\ Len(<<e>>) = 1
        OBVIOUS
      <4> QED BY <2>1, <4>1, SeqMonotonic
    <3>2. <<e>> \o Tail(q) \in Seq(F) /\ Len(<<e>> \o Tail(q)) = Len(q)
      <4> HIDE DEF F
      <4> QED BY <1>2, <2>1, <3>1, ConcatProperties
    <3> QED BY <1>2, <3>2 DEF IsQueue
  <2> QED BY <2>2, <2>3
<1>5. CASE q # <<>> /\ RefuseHead(q, calls, before, after)
  BY <1>4, <1>5 DEF RefuseHead
<1>6. CASE q # <<>> /\ ExecuteHead(q, calls, before, after)
  <2>1. queue' = Tail(q) \/ \E e : queue' = <<e>> \o Tail(q)
    BY <1>6, Zenon DEF ExecuteHead, Commit, KeepOrAdvance
  <2> QED BY <1>4, <1>6, <2>1, Zenon
<1> QED BY <1>3, <1>5, <1>6 DEF ProcessHeadCore

\* Before the drain a pass sends the continuation its new queue needs; during
\* the drain it changes nothing.
LEMMA CoreCalls ==
  ASSUME NEW q, NEW calls \in Seq(Calls), NEW before, NEW after,
         ProcessHeadCore(q, calls, before, after), nextOrderId \in Nat \ {0}
  PROVE  /\ selfCalls' \in Seq(Calls)
         /\ \A c : Has(c, calls) => Has(c, selfCalls')
         /\ nextOrderId' \in Nat \ {0}
         /\ shuttingDown => queue' = q /\ selfCalls' = calls /\ nextOrderId' = nextOrderId
         /\ ~shuttingDown /\ queue' # <<>> => Has("processHead", selfCalls')
         /\ ~shuttingDown /\ queue' = <<>> /\ shutdownPending => Has("shutdown", selfCalls')
<1>1. nextOrderId' \in {nextOrderId, nextOrderId + 1}
  BY Zenon DEF ProcessHeadCore, RefuseHead, ExecuteHead, Commit
<1>2. CASE shuttingDown
  <2>1. queue' = q /\ selfCalls' = calls \o <<>> /\ nextOrderId' = nextOrderId
    BY <1>2 DEF ProcessHeadCore
  <2>2. calls \o <<>> = calls
    BY ConcatEmptySeq
  <2> QED BY <1>2, <2>1, <2>2
<1>3. CASE ~shuttingDown
  <2>1. selfCalls' = calls \o NextCall(queue')
    <3>1. CASE queue' = q /\ selfCalls' = calls \o NextCall(q)
      BY <3>1
    <3>2. CASE RefuseHead(q, calls, before, after)
      BY <3>2 DEF RefuseHead
    <3>3. CASE ExecuteHead(q, calls, before, after)
      BY <3>3 DEF ExecuteHead, Commit
    <3> QED BY <1>3, <3>1, <3>2, <3>3 DEF ProcessHeadCore
  <2>2. /\ queue' # <<>> => NextCall(queue') = <<"processHead">>
        /\ queue' = <<>> /\ shutdownPending => NextCall(queue') = <<"shutdown">>
        /\ queue' = <<>> /\ ~shutdownPending => NextCall(queue') = <<>>
    BY DEF NextCall
  <2>3. NextCall(queue') \in Seq(Calls)
    <3>1. /\ <<"processHead">> \in Seq(Calls) /\ <<"shutdown">> \in Seq(Calls)
          /\ <<>> \in Seq(Calls)
      BY DEF Calls
    <3> QED BY <2>2, <3>1, Zenon
  <2>4. \A c : Has(c, selfCalls') <=> Has(c, calls) \/ Has(c, NextCall(queue'))
    <3> TAKE c
    <3> DEFINE next == NextCall(queue')
    <3>1. next \in Seq(Calls) /\ selfCalls' = calls \o next
      BY <2>1, <2>3
    <3> HIDE DEF next
    <3>2. Has(c, calls \o next) <=> Has(c, calls) \/ Has(c, next)
      BY <3>1, InConcat
    <3> QED BY <3>1, <3>2 DEF next
  <2>5. selfCalls' \in Seq(Calls)
    BY <2>1, <2>3, ConcatProperties
  <2>6. \A c : Has(c, <<c>>)
    BY DEF Has
  <2> QED BY <1>1, <1>3, <2>2, <2>4, <2>5, <2>6
<1> QED BY <1>2, <1>3

-----------------------------------------------------------------------------
(* The queues the message handlers hand to _processHeadCore. *)

\* An entry a handler has just queued for operation nonce of note n.
Fresh(e, n, nonce) ==
  /\ IsEntry(e) /\ e.owner = n /\ e.nonce = nonce /\ e.filledAccum = 0
  /\ e.precheckDone = FALSE /\ e.precheckAccum = 0
  /\ e.kind = "place" => e.target = NoOrder /\ ValidPlace(e.op)

\* What a handler hands to _processHeadCore: the queue as it was, then entries
\* of its own operation, the last of them marked.
Handed(q, n, nonce) ==
  /\ IsQueue(q)
  /\ Len(q) >= Len(queue)
  /\ \A i \in 1..Len(queue) : q[i] = queue[i]
  /\ \A i \in (Len(queue) + 1)..Len(q) :
       Fresh(q[i], n, nonce) /\ (q[i].batchEnd <=> i = Len(q))

\* The fields of a new entry.
MadeOf(e, kind, n, op, target, nonce) ==
  /\ Shaped(e)
  /\ e.kind = kind /\ e.owner = n /\ e.op = op /\ e.target = target
  /\ e.filledAccum = 0 /\ e.precheckDone = FALSE /\ e.precheckAccum = 0
  /\ e.batchEnd = FALSE /\ e.nonce = nonce

\* A queue entry has the fields it was made of.
LEMMA EntryShape ==
  \A kind, n, op, target, nonce :
    MadeOf(Entry(kind, n, op, target, nonce), kind, n, op, target, nonce)
BY DEF Entry, EntryFields, MadeOf, Shaped

\* An entry that nothing has been done for yet.
LEMMA FreshIsEntry ==
  ASSUME NEW e, NEW n \in Notes, NEW nonce, Shaped(e), e.owner = n, e.nonce = nonce,
         e.target \in Nat, e.filledAccum = 0, e.precheckDone = FALSE, e.precheckAccum = 0,
         e.batchEnd = TRUE \/ e.batchEnd = FALSE,
         e.kind \in {"place", "cancel", "cancelAll"},
         e.kind = "place" => /\ e.op \in PlaceParams /\ ValidPlace(e.op)
                             /\ e.target = NoOrder
  PROVE  Fresh(e, n, nonce)
<1>1. e.batchEnd \in BOOLEAN /\ e.precheckDone \in BOOLEAN
  BY Zenon
<1>2. e.filledAccum \in Nat /\ e.owner \in Notes
  OBVIOUS
<1>3. e.kind = "place" => IsOrder(e.op)
  BY DEF ValidPlace, IsOrder
<1>4. IsEntry(e)
  BY <1>1, <1>2, <1>3, Zenon DEF IsEntry
<1> QED BY <1>4, Zenon DEF Fresh

\* The entries the entry points make.
LEMMA EntryFresh ==
  ASSUME NEW n \in Notes, NEW nonce
  PROVE  /\ \A id \in Nat : Fresh(Entry("cancel", n, NoPlace, id, nonce), n, nonce)
         /\ Fresh(Entry("cancelAll", n, NoPlace, NoOrder, nonce), n, nonce)
         /\ \A p \in PlaceParams : ValidPlace(p) =>
              Fresh(Entry("place", n, p, NoOrder, nonce), n, nonce)
<1>1. ASSUME NEW kind \in {"cancel", "cancelAll"}, NEW id \in Nat
      PROVE  Fresh(Entry(kind, n, NoPlace, id, nonce), n, nonce)
  <2> DEFINE e == Entry(kind, n, NoPlace, id, nonce)
  <2>1. MadeOf(e, kind, n, NoPlace, id, nonce)
    BY EntryShape
  <2> HIDE DEF e
  <2>2. Fresh(e, n, nonce)
    BY <2>1, FreshIsEntry, Zenon DEF MadeOf
  <2> QED BY <2>2 DEF e
<1>2. ASSUME NEW p \in PlaceParams, ValidPlace(p)
      PROVE  Fresh(Entry("place", n, p, NoOrder, nonce), n, nonce)
  <2> DEFINE e == Entry("place", n, p, NoOrder, nonce)
  <2>1. NoOrder \in Nat
    BY DEF NoOrder
  <2>2. MadeOf(e, "place", n, p, NoOrder, nonce)
    BY EntryShape
  <2> HIDE DEF e
  <2>4. Fresh(e, n, nonce)
    BY <1>2, <2>1, <2>2, FreshIsEntry, Zenon DEF MadeOf
  <2> QED BY <2>4 DEF e
<1>3. NoOrder \in Nat
  BY DEF NoOrder
<1> QED BY <1>1, <1>2, <1>3

\* Marking the last of the new entries, if there is one.
LEMMA MarkedIsHanded ==
  ASSUME IsQueue(queue), NEW n, NEW nonce, NEW q, IsQueue(q), Len(q) >= Len(queue),
         \A i \in 1..Len(queue) : q[i] = queue[i],
         \A i \in (Len(queue) + 1)..Len(q) : Fresh(q[i], n, nonce) /\ q[i].batchEnd = FALSE
  PROVE  LET q3 == IF Len(q) > Len(queue) THEN MarkBatchEnd(q) ELSE q IN
         /\ Handed(q3, n, nonce) /\ Len(q3) = Len(q)
         /\ \A i \in (Len(queue) + 1)..Len(q3) : q3[i].kind = q[i].kind
<1>1. Len(queue) \in Nat /\ Len(q) \in Nat
  BY OrderBookAssumption DEF IsQueue
<1>2. CASE Len(q) > Len(queue)
  <2> DEFINE last == q[Len(q)]
             e == [last EXCEPT !.batchEnd = TRUE]
             q3 == MarkBatchEnd(q)
  <2>1. PICK E : q \in Seq(E)
    BY DEF IsQueue
  <2> DEFINE F == E \cup {e}
  <2>2. q \in Seq(F) /\ Len(q) \in 1..Len(q) /\ e \in F
        /\ Len(q) \in (Len(queue) + 1)..Len(q)
    BY <1>1, <1>2, <2>1, SeqMonotonic
  <2>3. q3 = [q EXCEPT ![Len(q)] = e]
    BY DEF MarkBatchEnd
  <2>4. Fresh(last, n, nonce)
    BY <2>2
  <2>5. Fresh(e, n, nonce) /\ e.batchEnd = TRUE /\ e.kind = last.kind
    <3> HIDE DEF last
    <3>1. last = [f \in EntryFields |-> last[f]]
      BY <2>4 DEF Fresh, IsEntry, Shaped
    <3>2. /\ Shaped(e)
          /\ e.kind = last.kind /\ e.owner = last.owner /\ e.target = last.target
          /\ e.filledAccum = last.filledAccum /\ e.precheckDone = last.precheckDone
          /\ e.precheckAccum = last.precheckAccum /\ e.nonce = last.nonce
          /\ e.op = last.op /\ e.batchEnd = TRUE
      BY <3>1, Zenon DEF EntryFields, Shaped
    <3> HIDE DEF e
    <3> QED BY <2>4, <3>2, Zenon DEF Fresh, IsEntry
  <2> HIDE DEF e, F
  <2>6. /\ q3 \in Seq(F) /\ Len(q3) = Len(q)
        /\ \A i \in 1..Len(q) : q3[i] = IF i = Len(q) THEN e ELSE q[i]
    BY <2>2, <2>3, ExceptSeq
  <2> HIDE DEF q3
  <2>7. IsQueue(q3)
    BY <2>6 DEF IsQueue
  <2>8. \A i \in 1..Len(queue) : q3[i] = queue[i]
    <3>1. \A i \in 1..Len(queue) : i \in 1..Len(q) /\ i # Len(q)
      BY <1>1, <1>2
    <3> QED BY <2>6, <3>1
  <2>9. ASSUME NEW i \in (Len(queue) + 1)..Len(q3)
        PROVE  /\ Fresh(q3[i], n, nonce) /\ (q3[i].batchEnd <=> i = Len(q3))
               /\ q3[i].kind = q[i].kind
    <3>1. i \in 1..Len(q) /\ i \in (Len(queue) + 1)..Len(q)
      BY <1>1, <2>6
    <3>2. CASE i = Len(q)
      BY <2>5, <2>6, <3>1, <3>2
    <3>3. CASE i # Len(q)
      BY <2>6, <3>1, <3>3
    <3> QED BY <3>2, <3>3
  <2>10. Handed(q3, n, nonce)
    BY <1>1, <1>2, <2>6, <2>7, <2>8, <2>9 DEF Handed
  <2> QED BY <1>2, <2>6, <2>9, <2>10 DEF q3
<1>3. CASE ~(Len(q) > Len(queue))
  <2>1. (Len(queue) + 1)..Len(q) = {}
    BY <1>1, <1>3
  <2>2. Handed(q, n, nonce)
    BY <2>1 DEF Handed
  <2> QED BY <1>3, <2>1, <2>2
<1> QED BY <1>2, <1>3

-----------------------------------------------------------------------------
(* The placements of a batch. *)

\* The state of the loop of executeBatch after order p.
Admit(a, n, p, nonce) ==
  IF ValidPlace(p) /\ Len(a.queue) < QUEUE_PLACE_LIMIT
  THEN [a EXCEPT !.queue = Append(@, Entry("place", n, p, NoOrder, nonce))]
  ELSE [a EXCEPT !.refused = Append(@, RejectedMsg(n, p, nonce))]

Admits(r, n, orders, nonce, q, m) ==
  r = [k \in 0..m |-> IF k = 0 THEN [queue |-> q, refused |-> <<>>]
                      ELSE Admit(r[k - 1], n, orders[k], nonce)]

\* The loop that admits a batch has a run.
LEMMA AdmitsExist ==
  ASSUME NEW n, NEW orders, NEW nonce, NEW q, NEW len \in Nat
  PROVE  \E r : Admits(r, n, orders, nonce, q, len)
<1> DEFINE start == [queue |-> q, refused |-> <<>>]
           bad == {m \in Nat : ~ \E r : Admits(r, n, orders, nonce, q, m)}
<1>1. ASSUME bad # {} PROVE FALSE
  <2>1. PICK m \in bad : \A k \in bad : m <= k
    <3>1. bad \in SUBSET Nat
      OBVIOUS
    <3> HIDE DEF bad
    <3> QED BY <1>1, <3>1, LeastNatural
  <2>2. m \in Nat /\ ~ \E r : Admits(r, n, orders, nonce, q, m)
    OBVIOUS
  <2>3. CASE m = 0
    <3> DEFINE r == [k \in 0..0 |-> start]
    <3>1. Admits(r, n, orders, nonce, q, 0)
      BY DEF Admits
    <3> QED BY <2>2, <2>3, <3>1
  <2>4. CASE m # 0
    <3>1. m - 1 \in Nat /\ m - 1 \notin bad
      BY <2>1, <2>2, <2>4
    <3>2. PICK r : Admits(r, n, orders, nonce, q, m - 1)
      BY <3>1
    <3> DEFINE e(k) == IF k = 0 THEN start ELSE Admit(r[k - 1], n, orders[k], nonce)
               r2 == [k \in 0..m |-> e(k)]
    <3>3. \A k \in 0..(m - 1) : r[k] = e(k)
      BY <3>2 DEF Admits
    <3>4. \A k \in 0..m : k # 0 => k - 1 \in 0..(m - 1) /\ k - 1 \in 0..m
      BY <2>2
    <3>5. \A k \in 0..m : r2[k] = e(k)
      OBVIOUS
    <3>6. \A k \in 0..m : k # 0 => r2[k - 1] = r[k - 1]
      <4> HIDE DEF e, r2
      <4> QED BY <3>3, <3>4, <3>5
    <3>7. r2 = [k \in 0..m |-> IF k = 0 THEN start ELSE Admit(r2[k - 1], n, orders[k], nonce)]
      <4> DEFINE g(k) == IF k = 0 THEN start ELSE Admit(r2[k - 1], n, orders[k], nonce)
      <4>1. \A k \in 0..m : e(k) = g(k)
        <5> HIDE DEF r2
        <5> QED BY <3>6
      <4> HIDE DEF e, g
      <4>2. r2 = [k \in 0..m |-> g(k)]
        BY <4>1
      <4> QED BY <4>2 DEF g
    <3> QED BY <2>2, <3>7, Zenon DEF Admits
  <2> QED BY <2>3, <2>4
<1> QED BY <1>1

\* The local recursion of Enqueued is that loop.
LEMMA EnqueuedLoop ==
  ASSUME NEW n, NEW orders, Len(orders) \in Nat, NEW nonce, NEW q
  PROVE  \E r : /\ Admits(r, n, orders, nonce, q, Len(orders))
                /\ Enqueued(n, orders, nonce, q) = r[Len(orders)]
<1> DEFINE r == CHOOSE f : Admits(f, n, orders, nonce, q, Len(orders))
<1>1. Admits(r, n, orders, nonce, q, Len(orders))
  BY AdmitsExist
<1>2. Enqueued(n, orders, nonce, q) = r[Len(orders)]
  BY DEF Enqueued, Admits, Admit
<1> QED BY <1>1, <1>2, Zenon

Rejections(n, nonce) == {RejectedMsg(n, p, nonce) : p \in PlaceParams}

\* Every order of a batch is queued or refused, in the order sent.
QueuedOrRefused(a, n, orders, nonce, q) ==
  /\ IsQueue(a.queue) /\ Len(a.queue) >= Len(q)
  /\ \A i \in 1..Len(q) : a.queue[i] = q[i]
  /\ \A i \in (Len(q) + 1)..Len(a.queue) :
       /\ Fresh(a.queue[i], n, nonce)
       /\ a.queue[i].kind = "place" /\ a.queue[i].batchEnd = FALSE
  /\ a.refused \in Seq(Rejections(n, nonce))
  /\ (Len(a.queue) - Len(q)) + Len(a.refused) = Len(orders)

\* A batch order is queued or refused, never both and never neither.
LEMMA EnqueuedQueue ==
  ASSUME NEW E0, NEW q \in Seq(E0), Len(q) <= QUEUE_CAPACITY, NEW n \in Notes,
         NEW orders \in Seq(PlaceParams), NEW nonce
  PROVE  QueuedOrRefused(Enqueued(n, orders, nonce, q), n, orders, nonce, q)
<1> DEFINE E == E0 \cup {Entry("place", n, p, NoOrder, nonce) : p \in PlaceParams}
           R == Rejections(n, nonce)
           New(e) == Fresh(e, n, nonce) /\ e.kind = "place" /\ e.batchEnd = FALSE
           Good(a, k) ==
             /\ a = [queue |-> a.queue, refused |-> a.refused]
             /\ a.queue \in Seq(E) /\ Len(a.queue) >= Len(q)
             /\ Len(a.queue) <= QUEUE_CAPACITY
             /\ \A i \in 1..Len(q) : a.queue[i] = q[i]
             /\ \A i \in (Len(q) + 1)..Len(a.queue) : New(a.queue[i])
             /\ a.refused \in Seq(R)
             /\ (Len(a.queue) - Len(q)) + Len(a.refused) = k
           len == Len(orders)
<1>1. /\ QUEUE_CAPACITY \in Nat /\ QUEUE_PLACE_LIMIT \in Nat
      /\ QUEUE_PLACE_LIMIT <= QUEUE_CAPACITY
      /\ Len(q) \in Nat /\ len \in Nat /\ \A k \in 1..len : orders[k] \in PlaceParams
  BY OrderBookAssumption, LenProperties, ElementOfSeq
<1>2. PICK r : Admits(r, n, orders, nonce, q, len) /\ Enqueued(n, orders, nonce, q) = r[len]
  BY <1>1, EnqueuedLoop
<1>3. /\ r[0] = [queue |-> q, refused |-> <<>>]
      /\ \A k \in 1..len : r[k] = Admit(r[k - 1], n, orders[k], nonce)
  BY <1>1, <1>2 DEF Admits
<1>4. Good(r[0], 0)
  <2>1. q \in Seq(E)
    BY SeqMonotonic
  <2>2. <<>> \in Seq(R) /\ Len(<<>>) = 0
    OBVIOUS
  <2>3. (Len(q) + 1)..Len(q) = {}
    BY <1>1
  <2> HIDE DEF E, R, New
  <2> QED BY <1>1, <1>3, <2>1, <2>2, <2>3
<1>5. ASSUME NEW k \in 1..len, Good(r[k - 1], k - 1) PROVE Good(r[k], k)
  <2> DEFINE a == r[k - 1]
             c == r[k]
             p == orders[k]
             e == Entry("place", n, p, NoOrder, nonce)
             m == RejectedMsg(n, p, nonce)
  <2>1. c = Admit(a, n, p, nonce) /\ p \in PlaceParams
    BY <1>1, <1>3
  <2>2. e \in E /\ m \in R
    BY <2>1 DEF Rejections
  <2>3. NoOrder \in Nat
    BY DEF NoOrder
  <2>4. ValidPlace(p) => New(e)
    <3>1. e.kind = "place" /\ e.batchEnd = FALSE
      BY EntryShape DEF e, MadeOf
    <3>2. ValidPlace(p) => Fresh(e, n, nonce)
      BY <2>1, EntryFresh, Zenon
    <3> QED BY <3>1, <3>2
  <2> HIDE DEF E, R, New, e, m, p
  <2>5. Good(a, k - 1)
    BY <1>5, Zenon
  <2> HIDE DEF a, c
  <2>6. Len(a.queue) \in Nat /\ Len(a.refused) \in Nat
    BY <2>5, LenProperties
  <2>7. CASE ValidPlace(p) /\ Len(a.queue) < QUEUE_PLACE_LIMIT
    <3>1. c.queue = Append(a.queue, e) /\ c.refused = a.refused
          /\ c = [queue |-> c.queue, refused |-> c.refused]
      BY <2>1, <2>5, <2>7, Zenon DEF Admit, e
    <3>2. /\ c.queue \in Seq(E) /\ Len(c.queue) = Len(a.queue) + 1
          /\ \A i \in 1..Len(a.queue) : c.queue[i] = a.queue[i]
          /\ c.queue[Len(a.queue) + 1] = e
      BY <2>2, <2>5, <3>1, AppendProperties
    <3>3. \A i \in 1..Len(q) : c.queue[i] = q[i]
      <4>1. \A i \in 1..Len(q) : i \in 1..Len(a.queue)
        BY <1>1, <2>5, <2>6
      <4> QED BY <2>5, <3>2, <4>1
    <3>4. ASSUME NEW i \in (Len(q) + 1)..Len(c.queue) PROVE New(c.queue[i])
      <4>1. i \in (Len(q) + 1)..Len(a.queue) \/ i = Len(a.queue) + 1
        BY <1>1, <2>6, <3>2
      <4>2. i \in (Len(q) + 1)..Len(a.queue) => i \in 1..Len(a.queue)
        BY <1>1, <2>6
      <4> QED BY <2>4, <2>5, <2>7, <3>2, <4>1, <4>2
    <3>5. Len(c.queue) >= Len(q) /\ Len(c.queue) <= QUEUE_CAPACITY
          /\ (Len(c.queue) - Len(q)) + Len(c.refused) = k
      <4> DEFINE x == Len(a.queue)
                 y == Len(q)
                 z == Len(a.refused)
      <4>1. x \in Int /\ y \in Int /\ z \in Int /\ k \in Int
        BY <1>1, <2>6
      <4>2. x >= y /\ (x - y) + z = k - 1 /\ x < QUEUE_PLACE_LIMIT
        BY <2>5, <2>7
      <4>3. Len(c.queue) = x + 1 /\ Len(c.refused) = z
        BY <3>1, <3>2
      <4> HIDE DEF x, y, z
      <4>4. x + 1 >= y /\ x + 1 <= QUEUE_CAPACITY /\ ((x + 1) - y) + z = k
        BY <1>1, <4>1, <4>2
      <4> QED BY <4>3, <4>4, Zenon DEF y
    <3>6. Good(c, k)
      BY <2>5, <3>1, <3>2, <3>3, <3>4, <3>5
    <3> QED BY <3>6, Zenon DEF c
  <2>8. CASE ~(ValidPlace(p) /\ Len(a.queue) < QUEUE_PLACE_LIMIT)
    <3>1. c.queue = a.queue /\ c.refused = Append(a.refused, m)
          /\ c = [queue |-> c.queue, refused |-> c.refused]
      BY <2>1, <2>5, <2>8, Zenon DEF Admit, m
    <3>2. c.refused \in Seq(R) /\ Len(c.refused) = Len(a.refused) + 1
      BY <2>2, <2>5, <3>1, AppendProperties
    <3>3. (Len(c.queue) - Len(q)) + Len(c.refused) = k
      <4>1. (Len(a.queue) - Len(q)) + Len(a.refused) = k - 1
        BY <2>5
      <4>2. c.queue = a.queue /\ Len(c.refused) = Len(a.refused) + 1
        BY <3>1, <3>2
      <4>3. k \in Nat
        BY <1>1
      <4> DEFINE x == Len(a.queue)
                 y == Len(q)
                 z == Len(a.refused)
      <4>4. x \in Int /\ y \in Int /\ z \in Int /\ (x - y) + z = k - 1
        <5>1. x \in Int /\ y \in Int /\ z \in Int
          BY <1>1, <2>6
        <5>2. (x - y) + z = k - 1
          BY <4>1, Zenon
        <5> QED BY <5>1, <5>2, Zenon
      <4> HIDE DEF x, y, z
      <4>5. (x - y) + (z + 1) = k
        BY <4>3, <4>4
      <4> QED BY <4>2, <4>5, Zenon DEF x, y, z
    <3>4. Good(c, k)
      BY <2>5, <3>1, <3>2, <3>3
    <3> QED BY <3>4, Zenon DEF c
  <2> QED BY <2>7, <2>8, Zenon
<1> HIDE DEF Good
<1> DEFINE bad == {k \in 0..len : ~Good(r[k], k)}
<1>6. ASSUME bad # {} PROVE FALSE
  <2>1. bad \in SUBSET Nat
    OBVIOUS
  <2>2. PICK k \in bad : \A m \in bad : k <= m
    BY <1>6, <2>1, LeastNatural, Zenon
  <2>3. k \in 0..len /\ ~Good(r[k], k)
    OBVIOUS
  <2>4. k # 0
    BY <1>4, <2>3
  <2>5. k \in 1..len /\ k - 1 \in 0..len /\ ~(k <= k - 1)
    BY <1>1, <2>3, <2>4
  <2>6. Good(r[k - 1], k - 1)
    BY <2>2, <2>5
  <2> QED BY <1>5, <2>3, <2>5, <2>6
<1>7. Good(r[len], len)
  <2>1. len \in 0..len
    BY <1>1
  <2> QED BY <1>6, <2>1
<1> DEFINE a == Enqueued(n, orders, nonce, q)
<1>8. Good(a, len)
  BY <1>2, <1>7
<1> HIDE DEF a
<1>9. IsQueue(a.queue)
  <2>1. a.queue \in Seq(E) /\ Len(a.queue) <= QUEUE_CAPACITY
    BY <1>8 DEF Good
  <2> HIDE DEF E
  <2> QED BY <1>1, <2>1, LenProperties DEF IsQueue
<1> QED BY <1>8, <1>9 DEF Good, a, QueuedOrRefused

-----------------------------------------------------------------------------
(* The queues the message handlers hand to _processHeadCore. *)

\* executeBatch queues within the capacity and runs one pass.  The last new entry
\* is marked; with none, the batch is acknowledged at once.
LEMMA BatchRunsCore ==
  ASSUME IsQueue(queue), NEW n \in Notes, NEW orders \in Seq(PlaceParams),
         NEW cancels \in Seq(Nat), NEW nonce,
         ExecuteBatch(n, orders, cancels, nonce)
  PROVE  \E q, before, after :
            /\ Handed(q, n, nonce) /\ ProcessHeadCore(q, selfCalls, before, after)
            /\ before \in Seq(Rejections(n, nonce))
            /\ after = IF Len(q) > Len(queue) THEN <<>> ELSE <<BatchCompleteMsg(n, nonce)>>
            /\ \E m \in Len(queue)..Len(q) :
                 /\ \A i \in (Len(queue) + 1)..Len(q) : q[i].kind = "place" <=> i > m
                 /\ (Len(q) - m) + Len(before) = Len(orders)
<1> DEFINE cancelled == [i \in DOMAIN cancels |->
                           Entry("cancel", n, NoPlace, cancels[i], nonce)]
           fit == Fitting(cancelled, queue, QUEUE_CAPACITY)
           q1 == queue \o fit
           a == Enqueued(n, orders, nonce, q1)
           q2 == a.queue
           anyQueued == Len(q2) > Len(queue)
           q3 == IF anyQueued THEN MarkBatchEnd(q2) ELSE q2
           after == IF anyQueued THEN <<>> ELSE <<BatchCompleteMsg(n, nonce)>>
           C == {Entry("cancel", n, NoPlace, id, nonce) : id \in Nat}
<1>1. PICK E0 : queue \in Seq(E0)
  BY DEF IsQueue
<1> DEFINE E == E0 \cup C
<1>2. queue \in Seq(E) /\ Len(queue) <= QUEUE_CAPACITY /\ Len(queue) \in Nat
  BY <1>1, SeqMonotonic, LenProperties DEF IsQueue
<1>3. cancelled \in Seq(C) /\ C \subseteq E
  <2>1. DOMAIN cancels = 1..Len(cancels) /\ Len(cancels) \in Nat
        /\ \A i \in 1..Len(cancels) : cancels[i] \in Nat
    BY LenProperties, ElementOfSeq
  <2>2. \A i \in 1..Len(cancels) : cancelled[i] \in C
    BY <2>1
  <2>3. C \subseteq E
    OBVIOUS
  <2> HIDE DEF C, E
  <2> QED BY <2>1, <2>2, <2>3, IsASeq
<1>4. \A e \in C : Fresh(e, n, nonce) /\ e.kind = "cancel" /\ e.batchEnd = FALSE
  <2> SUFFICES ASSUME NEW id \in Nat
               PROVE  LET e == Entry("cancel", n, NoPlace, id, nonce) IN
                      Fresh(e, n, nonce) /\ e.kind = "cancel" /\ e.batchEnd = FALSE
    BY Zenon
  <2> DEFINE e == Entry("cancel", n, NoPlace, id, nonce)
  <2>1. Fresh(e, n, nonce)
    BY Zenon, EntryFresh
  <2>2. e.kind = "cancel" /\ e.batchEnd = FALSE
    BY EntryShape DEF MadeOf
  <2> QED BY <2>1, <2>2
<1> HIDE DEF C, E, cancelled
<1>5. fit \in Seq(C) /\ q1 \in Seq(E) /\ Len(q1) <= QUEUE_CAPACITY
  <2>1. QUEUE_CAPACITY \in 0..QUEUE_CAPACITY
    BY OrderBookAssumption
  <2>2. cancelled \in Seq(E)
    BY <1>3, SeqMonotonic
  <2>3. fit \in Seq(C)
    BY <1>2, <1>3, <2>1, FittingIsPart
  <2> QED BY <1>2, <2>1, <2>2, <2>3, FittingBounded, Zenon
<1> HIDE DEF fit
<1>6. /\ Len(q1) = Len(queue) + Len(fit) /\ Len(fit) \in Nat
      /\ \A i \in 1..Len(queue) : q1[i] = queue[i]
      /\ \A i \in (Len(queue) + 1)..Len(q1) : q1[i] \in C
  <2>1. fit \in Seq(E) /\ Len(fit) \in Nat
    BY <1>3, <1>5, SeqMonotonic, LenProperties
  <2>2. /\ Len(q1) = Len(queue) + Len(fit)
        /\ \A i \in 1..(Len(queue) + Len(fit)) :
             q1[i] = IF i <= Len(queue) THEN queue[i] ELSE fit[i - Len(queue)]
    BY <1>2, <2>1, ConcatProperties
  <2> HIDE DEF q1
  <2>3. ASSUME NEW i \in 1..Len(queue) PROVE q1[i] = queue[i]
    <3>1. i \in 1..(Len(queue) + Len(fit)) /\ i <= Len(queue)
      BY <1>2, <2>1
    <3> QED BY <2>2, <3>1
  <2>4. ASSUME NEW i \in (Len(queue) + 1)..Len(q1) PROVE q1[i] \in C
    <3>1. i \in 1..(Len(queue) + Len(fit)) /\ ~(i <= Len(queue)) /\ i - Len(queue) \in 1..Len(fit)
      BY <1>2, <2>1, <2>2
    <3>2. fit[i - Len(queue)] \in C
      BY <1>5, <3>1, ElementOfSeq
    <3> QED BY <2>2, <3>1, <3>2
  <2> QED BY <2>1, <2>2, <2>3, <2>4
<1> HIDE DEF q1
<1>7. /\ IsQueue(q2) /\ Len(q2) >= Len(q1)
      /\ \A i \in 1..Len(q1) : q2[i] = q1[i]
      /\ \A i \in (Len(q1) + 1)..Len(q2) :
           Fresh(q2[i], n, nonce) /\ q2[i].kind = "place" /\ q2[i].batchEnd = FALSE
      /\ a.refused \in Seq(Rejections(n, nonce))
      /\ (Len(q2) - Len(q1)) + Len(a.refused) = Len(orders)
  <2>1. QueuedOrRefused(a, n, orders, nonce, q1)
    BY <1>5, EnqueuedQueue
  <2> HIDE DEF a
  <2> QED BY <2>1, Zenon DEF QueuedOrRefused
<1>8. ProcessHeadCore(q3, selfCalls, a.refused, after)
  BY DEF ExecuteBatch, q1, fit, cancelled
<1> HIDE DEF a
<1>9. Len(q2) \in Nat /\ Len(q1) \in Nat
  BY <1>7, <1>2, <1>6 DEF IsQueue
<1>10. /\ Len(q2) >= Len(queue)
       /\ \A i \in 1..Len(queue) : q2[i] = queue[i]
       /\ \A i \in (Len(queue) + 1)..Len(q2) :
            Fresh(q2[i], n, nonce) /\ q2[i].batchEnd = FALSE
            /\ (q2[i].kind = "place" <=> i > Len(q1))
  <2>1. Len(q2) >= Len(queue)
    BY <1>2, <1>6, <1>7, <1>9
  <2>2. ASSUME NEW i \in 1..Len(queue) PROVE q2[i] = queue[i]
    <3>1. i \in 1..Len(q1)
      BY <1>2, <1>6
    <3> QED BY <1>6, <1>7, <3>1
  <2>3. ASSUME NEW i \in (Len(queue) + 1)..Len(q2)
        PROVE  Fresh(q2[i], n, nonce) /\ q2[i].batchEnd = FALSE
               /\ (q2[i].kind = "place" <=> i > Len(q1))
    <3>1. CASE i > Len(q1)
      <4>1. i \in (Len(q1) + 1)..Len(q2)
        BY <1>2, <1>9, <3>1
      <4> QED BY <1>7, <3>1, <4>1
    <3>2. CASE ~(i > Len(q1))
      <4>1. i \in (Len(queue) + 1)..Len(q1) /\ i \in 1..Len(q1)
        BY <1>2, <1>9, <3>2
      <4>2. q2[i] \in C
        BY <1>6, <1>7, <4>1
      <4> QED BY <1>4, <3>2, <4>2
    <3> QED BY <3>1, <3>2, Zenon
  <2> QED BY <2>1, <2>2, <2>3, Zenon
<1> HIDE DEF q2
<1>11. /\ Handed(q3, n, nonce) /\ Len(q3) = Len(q2)
       /\ \A i \in (Len(queue) + 1)..Len(q3) : q3[i].kind = "place" <=> i > Len(q1)
  BY <1>2, <1>7, <1>9, <1>10, MarkedIsHanded, Zenon
<1> HIDE DEF q3
<1>12. Len(q1) \in Len(queue)..Len(q3)
  BY <1>2, <1>6, <1>7, <1>9, <1>11
<1>13. (Len(q3) - Len(q1)) + Len(a.refused) = Len(orders)
  BY <1>7, <1>11
<1> QED BY <1>7, <1>8, <1>11, <1>12, <1>13, Zenon

\* cancelAllOrders appends one marked entry if there is room and runs one pass.
LEMMA CancelAllRunsCore ==
  ASSUME IsQueue(queue), NEW n \in Notes, NEW nonce, CancelAllOrders(n, nonce)
  PROVE  \E q, after :
            /\ Handed(q, n, nonce) /\ ProcessHeadCore(q, selfCalls, <<>>, after)
            /\ after = IF Len(q) > Len(queue) THEN <<>> ELSE <<BatchCompleteMsg(n, nonce)>>
            /\ \A i \in (Len(queue) + 1)..Len(q) : q[i].kind # "place"
<1> DEFINE e0 == Entry("cancelAll", n, NoPlace, NoOrder, nonce)
           e == [e0 EXCEPT !.batchEnd = TRUE]
           room == Len(queue) < QUEUE_CAPACITY
           q == IF room THEN Append(queue, e) ELSE queue
           after == IF room THEN <<>> ELSE <<BatchCompleteMsg(n, nonce)>>
<1>1. ProcessHeadCore(q, selfCalls, <<>>, after)
  BY DEF CancelAllOrders
<1>2. PICK E : queue \in Seq(E)
  BY DEF IsQueue
<1>3. Len(queue) \in Nat /\ Len(queue) <= QUEUE_CAPACITY /\ QUEUE_CAPACITY \in Nat
  BY OrderBookAssumption DEF IsQueue
<1>4. Fresh(e, n, nonce) /\ e.batchEnd = TRUE /\ e.kind = "cancelAll"
  <2>1. MadeOf(e0, "cancelAll", n, NoPlace, NoOrder, nonce)
    BY EntryShape
  <2> HIDE DEF e0
  <2>2. /\ Shaped(e)
        /\ e.kind = e0.kind /\ e.owner = e0.owner /\ e.target = e0.target
        /\ e.filledAccum = e0.filledAccum /\ e.precheckDone = e0.precheckDone
        /\ e.precheckAccum = e0.precheckAccum /\ e.nonce = e0.nonce /\ e.batchEnd = TRUE
    BY <2>1, Zenon DEF EntryFields, Shaped, MadeOf
  <2> HIDE DEF e
  <2>3. NoOrder \in Nat
    BY DEF NoOrder
  <2> QED BY <2>1, <2>2, <2>3, FreshIsEntry, Zenon DEF MadeOf
<1> HIDE DEF e
<1>5. CASE room
  <2> DEFINE F == E \cup {e}
  <2>1. queue \in Seq(F) /\ e \in F
    BY <1>2, SeqMonotonic
  <2> HIDE DEF F
  <2>2. /\ q \in Seq(F) /\ Len(q) = Len(queue) + 1
        /\ \A i \in 1..Len(queue) : q[i] = queue[i]
        /\ q[Len(queue) + 1] = e
    BY <1>5, <2>1, AppendProperties
  <2> HIDE DEF q
  <2>3. IsQueue(q)
    BY <1>3, <1>5, <2>2 DEF IsQueue
  <2>4. \A i \in (Len(queue) + 1)..Len(q) : i = Len(queue) + 1 /\ i = Len(q)
    BY <1>3, <2>2
  <2>5. Handed(q, n, nonce)
    BY <1>3, <1>4, <2>2, <2>3, <2>4 DEF Handed
  <2>6. \A i \in (Len(queue) + 1)..Len(q) : q[i].kind # "place"
    BY <1>4, <2>2, <2>4
  <2>7. after = IF Len(q) > Len(queue) THEN <<>> ELSE <<BatchCompleteMsg(n, nonce)>>
    BY <1>3, <1>5, <2>2
  <2> QED BY <1>1, <2>5, <2>6, <2>7
<1>6. CASE ~room
  <2>1. q = queue /\ (Len(queue) + 1)..Len(queue) = {}
    BY <1>3, <1>6
  <2>2. Handed(q, n, nonce)
    BY <1>3, <2>1 DEF Handed
  <2>3. after = IF Len(q) > Len(queue) THEN <<>> ELSE <<BatchCompleteMsg(n, nonce)>>
    BY <1>3, <1>6, <2>1
  <2>4. \A i \in (Len(queue) + 1)..Len(q) : q[i].kind # "place"
    BY <2>1
  <2> HIDE DEF q, after
  <2> QED BY <1>1, <2>2, <2>3, <2>4
<1> QED BY <1>5, <1>6

-----------------------------------------------------------------------------
(* The inductive invariant. *)

CtrlInv == IsQueue(queue) /\ TypeOK /\ NoStuckHead

\* NoStuckHead in terms of Has.
LEMMA InFlight == \A c : c \in SelfCallsInFlight <=> Has(c, selfCalls)
BY DEF SelfCallsInFlight, Has

\* The self-calls in flight after a step.
LEMMA InFlightNext == \A c : c \in SelfCallsInFlight' <=> Has(c, selfCalls')
BY DEF SelfCallsInFlight, Has

\* A deployed book is idle.
LEMMA InitCtrl == Init => CtrlInv
<1> SUFFICES ASSUME Init PROVE CtrlInv
  OBVIOUS
<1>1. queue = <<>> /\ selfCalls = <<>> /\ nextOrderId = 1 /\ shutdownCursor = 0
      /\ shuttingDown = FALSE /\ shutdownPending = FALSE /\ alive = TRUE
  BY DEF Init, OBInit
<1>2. IsQueue(queue)
  <2>1. <<>> \in Seq({}) /\ Len(<<>>) = 0
    OBVIOUS
  <2> QED BY <1>1, <2>1, OrderBookAssumption DEF IsQueue
<1>3. TypeOK
  <2>1. selfCalls \in Seq({"processHead", "shutdown"})
    BY <1>1
  <2>2. Len(queue) \in 0..QUEUE_CAPACITY
    BY <1>2 DEF IsQueue
  <2>3. nextOrderId \in Nat \ {0} /\ shutdownCursor \in 0..nextOrderId
    BY <1>1
  <2>4. shuttingDown \in BOOLEAN /\ shutdownPending \in BOOLEAN /\ alive \in BOOLEAN
    BY <1>1, Zenon
  <2> QED BY <2>1, <2>2, <2>3, <2>4, Zenon DEF TypeOK
<1>4. NoStuckHead
  BY <1>1 DEF NoStuckHead
<1> QED BY <1>2, <1>3, <1>4 DEF CtrlInv

\* A handler that ends in a pass of _processHeadCore keeps the invariant:
\* calls are the self-calls left after the one it consumed, if it did.
LEMMA CoreKeepsCtrl ==
  ASSUME CtrlInv, alive, NEW q, NEW calls \in Seq(Calls), NEW before, NEW after,
         IsQueue(q), ProcessHeadCore(q, calls, before, after),
         shuttingDown => q = queue,
         Has("shutdown", selfCalls) => Has("shutdown", calls),
         UNCHANGED <<shuttingDown, shutdownPending, shutdownCursor, alive>>
  PROVE  CtrlInv'
<1>1. /\ nextOrderId \in Nat \ {0} /\ shutdownCursor \in 0..nextOrderId
      /\ shuttingDown \in BOOLEAN /\ shutdownPending \in BOOLEAN /\ alive \in BOOLEAN
  BY DEF CtrlInv, TypeOK
<1>2. /\ selfCalls' \in Seq(Calls)
      /\ nextOrderId' \in Nat \ {0}
      /\ shuttingDown => queue' = q /\ selfCalls' = calls /\ nextOrderId' = nextOrderId
      /\ ~shuttingDown /\ queue' # <<>> => Has("processHead", selfCalls')
      /\ ~shuttingDown /\ queue' = <<>> /\ shutdownPending => Has("shutdown", selfCalls')
  BY <1>1, CoreCalls, Zenon
<1>3. nextOrderId' \in {nextOrderId, nextOrderId + 1}
  BY Zenon DEF ProcessHeadCore, RefuseHead, ExecuteHead, Commit
<1>4. IsQueue(queue)'
  BY CoreQueue DEF IsQueue
<1>5. TypeOK'
  <2>1. Len(queue') \in 0..QUEUE_CAPACITY
    BY <1>4 DEF IsQueue
  <2>2. shutdownCursor' \in 0..nextOrderId'
    BY <1>1, <1>3
  <2> QED BY <1>1, <1>2, <2>1, <2>2 DEF TypeOK, Calls
<1>6. NoStuckHead'
  <2>1. CASE shuttingDown
    <3>1. queue = <<>> /\ Has("shutdown", selfCalls)
          /\ shutdownCursor \in 1..(nextOrderId - 1)
      BY <2>1, InFlight DEF CtrlInv, NoStuckHead
    <3>2. queue' = <<>> /\ Has("shutdown", selfCalls')
          /\ shutdownCursor' \in 1..(nextOrderId' - 1)
      BY <1>2, <2>1, <3>1
    <3> QED BY <3>2, InFlightNext DEF NoStuckHead
  <2>2. CASE ~shuttingDown
    BY <1>2, <2>2, InFlightNext DEF NoStuckHead
  <2> QED BY <2>1, <2>2
<1> QED BY <1>4, <1>5, <1>6 DEF CtrlInv

\* Where a drain pass stops: past its start unless nothing is left to scan.
LEMMA DrainRange ==
  ASSUME nextOrderId \in Nat \ {0}, shutdownCursor \in 0..nextOrderId
  PROVE  /\ DrainTo \in 1..nextOrderId
         /\ DrainTo >= shutdownCursor
         /\ shutdownCursor \in 1..(nextOrderId - 1) => DrainTo > shutdownCursor
<1>1. MAX_SHUTDOWN_BATCH \in Nat /\ MAX_SHUTDOWN_BATCH > 0
  BY OrderBookAssumption
<1>2. DrainFrom \in 1..nextOrderId /\ DrainFrom >= shutdownCursor
      /\ (shutdownCursor # 0 => DrainFrom = shutdownCursor)
  BY DEF DrainFrom
<1>3. DrainTo = IF nextOrderId <= DrainFrom + MAX_SHUTDOWN_BATCH
                THEN nextOrderId ELSE DrainFrom + MAX_SHUTDOWN_BATCH
  BY <1>1, <1>2, MinOfTwo DEF DrainTo
<1> QED BY <1>1, <1>2, <1>3

\* A shutdown message, from the market or from the book itself.
LEMMA ShutdownKeepsCtrl ==
  ASSUME CtrlInv, NEW calls \in Seq(Calls), Shutdown(calls),
         Has("processHead", selfCalls) => Has("processHead", calls)
  PROVE  CtrlInv'
<1>1. /\ nextOrderId \in Nat \ {0} /\ shutdownCursor \in 0..nextOrderId
      /\ shuttingDown \in BOOLEAN /\ shutdownPending \in BOOLEAN /\ alive \in BOOLEAN
      /\ Len(queue) \in 0..QUEUE_CAPACITY
  BY DEF CtrlInv, TypeOK
<1>2. queue' = queue /\ nextOrderId' = nextOrderId /\ alive
  BY Zenon DEF Shutdown, DeferShutdown, Drain
<1>3. IsQueue(queue)'
  BY <1>2 DEF CtrlInv, IsQueue
<1>4. CASE DeferShutdown(calls)
  <2>1. /\ queue # <<>> /\ ~shuttingDown /\ shutdownPending' = TRUE
        /\ selfCalls' = calls /\ shuttingDown' = shuttingDown
        /\ shutdownCursor' = shutdownCursor /\ alive' = alive
    BY <1>4 DEF DeferShutdown
  <2>2. Has("processHead", selfCalls')
    BY <1>2, <2>1, InFlight DEF CtrlInv, NoStuckHead
  <2>3. TypeOK'
    BY <1>1, <1>2, <2>1 DEF TypeOK, Calls
  <2>4. NoStuckHead'
    BY <1>2, <2>1, <2>2, InFlightNext DEF NoStuckHead
  <2> QED BY <1>3, <2>3, <2>4 DEF CtrlInv
<1>5. CASE Drain(calls)
  <2>1. /\ shuttingDown' = TRUE /\ shutdownPending' = FALSE
        /\ shutdownCursor' = DrainTo
    BY <1>5 DEF Drain
  <2>2. DrainTo \in 1..nextOrderId
    BY <1>1, DrainRange
  <2>3. /\ nextOrderId' \in Nat \ {0} /\ shutdownCursor' \in 0..nextOrderId'
        /\ Len(queue') \in 0..QUEUE_CAPACITY
    BY <1>1, <1>2, <2>1, <2>2
  <2>4. shuttingDown' \in BOOLEAN /\ shutdownPending' \in BOOLEAN
    BY <2>1, Zenon
  <2>5. queue = <<>>
    BY <1>2, <1>5 DEF Drain, CtrlInv, NoStuckHead
  <2>6. CASE DrainTo >= nextOrderId
    <3>1. alive' = FALSE /\ selfCalls' = <<>>
      BY <1>5, <2>6 DEF Drain
    <3>2. selfCalls' \in Seq({"processHead", "shutdown"})
      BY <3>1
    <3>3. alive' \in BOOLEAN
      BY <3>1, Zenon
    <3>4. TypeOK'
      BY <2>3, <2>4, <3>2, <3>3, Zenon DEF TypeOK
    <3>5. NoStuckHead'
      BY <3>1 DEF NoStuckHead
    <3> QED BY <1>3, <3>4, <3>5 DEF CtrlInv
  <2>7. CASE ~(DrainTo >= nextOrderId)
    <3>1. alive' = alive /\ selfCalls' = Append(calls, "shutdown")
      BY <1>5, <2>7 DEF Drain
    <3>2. selfCalls' \in Seq(Calls) /\ Has("shutdown", selfCalls')
      <4>1. "shutdown" \in Calls
        BY DEF Calls
      <4>2. /\ Append(calls, "shutdown") \in Seq(Calls)
            /\ Len(Append(calls, "shutdown")) = Len(calls) + 1
            /\ Append(calls, "shutdown")[Len(calls) + 1] = "shutdown"
        BY <4>1, AppendProperties
      <4>3. Len(calls) + 1 \in DOMAIN Append(calls, "shutdown")
        BY <4>2, LenProperties
      <4> QED BY <3>1, <4>2, <4>3 DEF Has
    <3>3. TypeOK'
      BY <1>1, <2>3, <2>4, <3>1, <3>2, Zenon DEF TypeOK, Calls
    <3>4. shutdownCursor' \in 1..(nextOrderId' - 1)
      BY <1>1, <1>2, <2>1, <2>2, <2>7
    <3>5. NoStuckHead'
      BY <1>2, <2>1, <2>5, <3>2, <3>4, InFlightNext DEF NoStuckHead
    <3> QED BY <1>3, <3>3, <3>5 DEF CtrlInv
  <2> QED BY <2>6, <2>7
<1> QED BY <1>4, <1>5 DEF Shutdown

-----------------------------------------------------------------------------
(* Every action. *)

\* Every message keeps the control state right.
LEMMA StepCtrl == CtrlInv /\ [Next]_vars => CtrlInv'
<1> SUFFICES ASSUME CtrlInv, [Next]_vars PROVE CtrlInv'
  OBVIOUS
<1>1. IsQueue(queue) /\ selfCalls \in Seq(Calls)
  BY DEF CtrlInv, TypeOK, Calls
<1>2. ASSUME NEW n \in Notes, NEW orders \in Batches, NEW cancels \in Cancels,
             SendBatch(n, orders, cancels)
      PROVE  CtrlInv'
  <2>1. orders \in Seq(PlaceParams) /\ cancels \in Seq(Nat)
    BY EnvironmentAssumption
  <2>2. ExecuteBatch(n, orders, cancels, ops + 1)
    BY <1>2 DEF SendBatch
  <2>3. PICK q, before, after :
          IsQueue(q) /\ ProcessHeadCore(q, selfCalls, before, after)
    BY <1>1, <2>1, <2>2, BatchRunsCore, Zenon DEF Handed
  <2>4. /\ alive /\ ~shuttingDown
        /\ UNCHANGED <<shuttingDown, shutdownPending, shutdownCursor, alive>>
    BY <2>2 DEF ExecuteBatch, Accepting
  <2> QED BY <1>1, <2>3, <2>4, CoreKeepsCtrl
<1>3. ASSUME NEW n \in Notes, SendCancelAll(n)
      PROVE  CtrlInv'
  <2>1. CancelAllOrders(n, ops + 1)
    BY <1>3 DEF SendCancelAll
  <2>2. PICK q, before, after :
          IsQueue(q) /\ ProcessHeadCore(q, selfCalls, before, after)
    BY <1>1, <2>1, CancelAllRunsCore DEF Handed
  <2>3. /\ alive /\ ~shuttingDown
        /\ UNCHANGED <<shuttingDown, shutdownPending, shutdownCursor, alive>>
    BY <2>1 DEF CancelAllOrders, Accepting
  <2> QED BY <1>1, <2>2, <2>3, CoreKeepsCtrl
<1>4. CASE Poke
  <2>1. /\ alive /\ ProcessHeadCore(queue, selfCalls, <<>>, <<>>)
        /\ UNCHANGED <<shuttingDown, shutdownPending, shutdownCursor, alive>>
    BY <1>4 DEF Poke, PokeProcessHead
  <2> QED BY <1>1, <2>1, CoreKeepsCtrl
<1>5. CASE SelfProcessHead
  <2>1. /\ alive /\ ProcessHeadCore(queue, Tail(selfCalls), <<>>, <<>>)
        /\ selfCalls # <<>> /\ Head(selfCalls) = "processHead"
        /\ UNCHANGED <<shuttingDown, shutdownPending, shutdownCursor, alive>>
    BY <1>5 DEF SelfProcessHead
  <2>2. /\ Tail(selfCalls) \in Seq(Calls)
        /\ Has("shutdown", selfCalls) => Has("shutdown", Tail(selfCalls))
    <3>1. "shutdown" # Head(selfCalls)
      BY <2>1
    <3> QED BY <1>1, <2>1, <3>1, InTail
  <2> QED BY <1>1, <2>1, <2>2, CoreKeepsCtrl, Zenon
<1>6. CASE SelfShutdown
  <2>1. selfCalls # <<>> /\ Head(selfCalls) = "shutdown" /\ Shutdown(Tail(selfCalls))
    BY <1>6 DEF SelfShutdown
  <2>2. /\ Tail(selfCalls) \in Seq(Calls)
        /\ Has("processHead", selfCalls) => Has("processHead", Tail(selfCalls))
    <3>1. "processHead" # Head(selfCalls)
      BY <2>1
    <3> QED BY <1>1, <2>1, <3>1, InTail
  <2> QED BY <2>1, <2>2, ShutdownKeepsCtrl, Zenon
<1>7. CASE SendShutdown
  BY <1>1, <1>7, ShutdownKeepsCtrl DEF SendShutdown, PMPShutdown
<1>8. ASSUME UNCHANGED <<nextOrderId, queue, shuttingDown, shutdownPending,
                         shutdownCursor, alive, selfCalls>>
      PROVE  CtrlInv'
  BY <1>8 DEF CtrlInv, IsQueue, TypeOK, NoStuckHead, SelfCallsInFlight
<1>9. ASSUME NEW t \in 1..MaxTime, Reschedule(t)
      PROVE  CtrlInv'
  BY <1>8, <1>9 DEF Reschedule, SetResultStart
<1>10. CASE Pass
  BY <1>8, <1>10 DEF Pass, Tick
<1>11. CASE UNCHANGED vars
  BY <1>8, <1>11 DEF vars, obVars
<1> QED BY <1>2, <1>3, <1>4, <1>5, <1>6, <1>7, <1>9, <1>10, <1>11 DEF Next, SelfCall

\* The control state is well typed and the queue within its capacity, for every
\* capacity, placement limit and batch (OrderBook.sol:473-608).
THEOREM TypeCorrect == Spec => []TypeOK
BY InitCtrl, StepCtrl, PTL DEF Spec, CtrlInv

\* A queue entry always has a processHead call coming, and a shutdown that was
\* requested is never forgotten: the self-call chain of _processHeadCore and
\* shutdown does not break whatever messages interleave.
THEOREM NeverStuck == Spec => []NoStuckHead
BY InitCtrl, StepCtrl, PTL DEF Spec, CtrlInv

\* A pass of _processHeadCore during a drain leaves the drain alone.
LEMMA CoreStepsAside ==
  ASSUME CtrlInv, alive, shuttingDown, NEW calls, NEW before, NEW after,
         ProcessHeadCore(queue, calls, before, after),
         UNCHANGED <<shuttingDown, shutdownCursor>>, ~SelfShutdown
  PROVE  DrainStep
<1>1. nextOrderId \in Nat /\ shutdownCursor \in 0..nextOrderId
  BY DEF CtrlInv, TypeOK
<1>2. nextOrderId' = nextOrderId
  BY DEF ProcessHeadCore
<1> QED BY <1>1, <1>2 DEF DrainStep

\* The drain cursor moves only as the shutdown loop moves it.
LEMMA StepDrain == CtrlInv /\ [Next]_vars => [DrainStep]_vars
<1> SUFFICES ASSUME CtrlInv, Next, shuttingDown PROVE DrainStep
  BY DEF DrainStep
<1>1. nextOrderId \in Nat \ {0} /\ shutdownCursor \in 0..nextOrderId
  BY DEF CtrlInv, TypeOK
<1>2. alive => shutdownCursor \in 1..(nextOrderId - 1)
  BY DEF CtrlInv, NoStuckHead
<1>3. ASSUME NEW calls, Shutdown(calls) PROVE DrainStep
  <2>1. /\ alive /\ shuttingDown' = TRUE /\ nextOrderId' = nextOrderId
        /\ shutdownCursor' = DrainTo
    BY <1>3 DEF Shutdown, DeferShutdown, Drain
  <2>2. DrainTo \in 1..nextOrderId /\ DrainTo > shutdownCursor
    BY <1>1, <1>2, <2>1, DrainRange
  <2> QED BY <1>1, <2>1, <2>2 DEF DrainStep
<1>4. ASSUME ~SelfShutdown, UNCHANGED <<shuttingDown, nextOrderId, shutdownCursor>>
      PROVE  DrainStep
  BY <1>1, <1>4 DEF DrainStep
<1>5. ASSUME NEW n \in Notes, NEW orders \in Batches, NEW cancels \in Cancels,
             SendBatch(n, orders, cancels)
      PROVE  DrainStep
  BY <1>5 DEF SendBatch, ExecuteBatch, Accepting
<1>6. ASSUME NEW n \in Notes, SendCancelAll(n)
      PROVE  DrainStep
  BY <1>6 DEF SendCancelAll, CancelAllOrders, Accepting
<1>7. CASE SelfShutdown
  BY <1>3, <1>7 DEF SelfShutdown
<1>8. CASE SendShutdown
  BY <1>3, <1>8 DEF SendShutdown, PMPShutdown
<1>9. CASE Poke /\ ~SelfShutdown
  BY <1>9, CoreStepsAside DEF Poke, PokeProcessHead
<1>10. CASE SelfProcessHead
  <2>1. ~SelfShutdown
    BY <1>10 DEF SelfProcessHead, SelfShutdown
  <2> QED BY <1>10, <2>1, CoreStepsAside DEF SelfProcessHead
<1>11. ASSUME NEW t \in 1..MaxTime, Reschedule(t), ~SelfShutdown
       PROVE  DrainStep
  BY <1>4, <1>11 DEF Reschedule, SetResultStart
<1>12. CASE Pass /\ ~SelfShutdown
  BY <1>4, <1>12 DEF Pass, Tick
<1> QED BY <1>5, <1>6, <1>7, <1>8, <1>9, <1>10, <1>11, <1>12 DEF Next, SelfCall

\* The drain of OrderBook.sol:1487-1491 makes progress: the latch holds, no
\* identifier is issued and every drain pass moves the cursor, for every batch
\* size and any interleaving with other messages.
THEOREM DrainProgress == Spec => DrainAdvances
BY InitCtrl, StepCtrl, StepDrain, PTL DEF Spec, DrainAdvances

=============================================================================
