------------------------- MODULE BookState_proofs --------------------------
(***************************************************************************)
(* Proofs about the content of the order book: whatever the queue executes, *)
(* whatever a drain cancels, every view of the resting orders agrees and   *)
(* no two of them cross.                                                   *)
(***************************************************************************)
EXTENDS OrderBook_proofs, MatchLoop_proofs

-----------------------------------------------------------------------------
(* What executing an entry does to the book. *)

IdOf(h) == IF h.target = NoOrder THEN nextOrderId ELSE h.target

\* An order that a pass has begun to match is the last one announced, and it is
\* matched on from the head of the queue before anything else is executed.
EntryInv(h, i) ==
  /\ IsEntry(h)
  /\ (h.kind = "place" /\ h.target # NoOrder) =>
       i = 1 /\ h.target = nextOrderId - 1 /\ h.target \notin Ids
QueueInv(q) == \A i \in DOMAIN q : EntryInv(q[i], i)

\* The inductive invariant of the book's content.
BookInv ==
  /\ Agrees(book) /\ Apart(book)
  /\ Ids \subseteq 1..(nextOrderId - 1)
  /\ QueueInv(queue)

Effect(r, h) ==
  /\ r.keep \in BOOLEAN
  /\ Agrees(r.b) /\ Apart(r.b)
  /\ DOMAIN r.b.orders \subseteq IF h.kind = "place" /\ ~r.keep
                                 THEN Ids \cup {IdOf(h)} ELSE Ids
  /\ r.keep => IF h.kind = "place" THEN Continues(r.entry, h, IdOf(h))
               ELSE r.entry = h

\* An order still to be executed is newer than every resting one.
LEMMA NewestOrder ==
  ASSUME BookInv, nextOrderId \in Nat \ {0}, NEW h, EntryInv(h, 1), h.kind = "place"
  PROVE  IdOf(h) \in 1..nextOrderId /\ \A i \in Ids : i < IdOf(h)
<1>1. \A i \in Ids : i \in 1..(nextOrderId - 1)
  BY DEF BookInv
<1>2. CASE h.target = NoOrder
  BY <1>1, <1>2 DEF IdOf
<1>3. CASE h.target # NoOrder
  <2>1. h.target = nextOrderId - 1 /\ h.target \notin Ids /\ IdOf(h) = h.target
    BY <1>3 DEF EntryInv, IdOf
  <2>2. h.target # 0
    BY <1>3 DEF NoOrder
  <2> QED BY <1>1, <2>1, <2>2
<1> QED BY <1>2, <1>3

\* What one pass over the head entry does to the book.
LEMMA EffectKeeps ==
  ASSUME BookInv, nextOrderId \in Nat \ {0}, NEW h, EntryInv(h, 1)
  PROVE  Effect(HeadEffect(h), h)
<1> DEFINE r == HeadEffect(h)
<1>1. Agrees(book) /\ Apart(book) /\ IsBook(book) /\ IsEntry(h)
  BY DEF BookInv, EntryInv, Agrees
<1>2. ASSUME NEW ids, Len(ids) \in Nat
      PROVE  LET c == CancelEach(book, ids, h.nonce) IN
             /\ Agrees(c.b) /\ Apart(c.b) /\ DOMAIN c.b.orders \subseteq Ids
  <2> DEFINE c == CancelEach(book, ids, h.nonce).b
  <2>1. Agrees(c) /\ Within(c, book)
    BY <1>1, <1>2, CancelKeeps
  <2> HIDE DEF c
  <2>2. Apart(c)
    BY <1>1, <2>1, WithinOrder
  <2> QED BY <2>1, <2>2 DEF c, Within, Ids
<1>3. CASE h.kind = "cancel"
  <2> DEFINE c == DoCancel(book, h.owner, h.target, h.nonce)
  <2>1. r = Leave(h, c.b, fees, c.msgs)
    BY <1>3 DEF HeadEffect
  <2>2. Agrees(c.b) /\ Apart(c.b) /\ DOMAIN c.b.orders \subseteq Ids
    <3>1. CASE c = CancelEach(book, <<h.target>>, h.nonce)
      <4>1. Len(<<h.target>>) \in Nat
        OBVIOUS
      <4> QED BY <1>2, <3>1, <4>1
    <3>2. CASE c = [b |-> book, msgs |-> <<>>]
      BY <1>1, <3>2 DEF Ids
    <3> QED BY <3>1, <3>2 DEF DoCancel
  <2> HIDE DEF c
  <2>3. r.keep = FALSE /\ r.b = c.b
    BY <2>1 DEF Leave
  <2> HIDE DEF r
  <2>4. Effect(r, h)
    BY <1>3, <2>2, <2>3, Zenon DEF Effect
  <2> QED BY <2>4 DEF r
<1>4. CASE h.kind = "cancelAll"
  <2> DEFINE c == DoCancelAll(book, h.owner, h.nonce)
             all == book.owners[h.owner]
             k == Min({Len(all), MAX_CANCEL_ALL_PER_CALL})
             ids == SubSeq(all, 1, k)
             more == Len(c.msgs) >= MAX_CANCEL_ALL_PER_CALL
  <2>1. r = [Leave(h, c.b, fees, c.msgs) EXCEPT !.keep = more]
    BY <1>4 DEF HeadEffect
  <2>2. c = CancelEach(book, ids, h.nonce)
    BY DEF DoCancelAll
  <2>3. Len(ids) \in Nat
    <3>1. all \in Seq(Nat)
      BY <1>1 DEF IsBook, IsEntry
    <3>2. Len(all) \in Nat /\ MAX_CANCEL_ALL_PER_CALL \in Nat
      BY <3>1, LenProperties, MatchingAssumption
    <3>3. k \in Nat /\ k <= Len(all)
      <4> HIDE DEF all
      <4> QED BY <3>2, MinOfTwo
    <3> HIDE DEF k
    <3>4. \A i \in 1..k : all[i] \in Nat
      BY <3>1, <3>2, <3>3, ElementOfSeq
    <3>5. ids \in Seq(Nat)
      <4> HIDE DEF all
      <4> QED BY <3>2, <3>3, <3>4, SubSeqProperties
    <3> HIDE DEF ids
    <3> QED BY <3>5, LenProperties
  <2> HIDE DEF ids
  <2>4. Agrees(c.b) /\ Apart(c.b) /\ DOMAIN c.b.orders \subseteq Ids
    BY <1>2, <2>2, <2>3
  <2> HIDE DEF c
  <2>5. more \in BOOLEAN
    OBVIOUS
  <2> HIDE DEF more
  <2>6. r.keep = more /\ r.b = c.b /\ r.entry = h
    BY <2>1 DEF Leave
  <2> HIDE DEF r
  <2>7. r.keep \in BOOLEAN
    BY <2>5, <2>6, Zenon
  <2>8. Effect(r, h)
    BY <1>4, <2>4, <2>6, <2>7 DEF Effect
  <2> QED BY <2>8 DEF r
<1>5. CASE h.kind = "place"
  <2> DEFINE id == IdOf(h)
  <2>1. r = DoPlace(book, fees, h, id)
    BY <1>5 DEF HeadEffect, IdOf
  <2>2. id \in 1..nextOrderId /\ \A i \in Ids : i < id
    BY <1>5, NewestOrder
  <2>3. id \in Nat /\ \A i \in DOMAIN book.orders : i < id
    BY <2>2 DEF Ids
  <2> HIDE DEF id
  <2>4. Placed(r, book, h, id)
    BY <1>1, <1>5, <2>1, <2>3, PlaceKeeps
  <2> HIDE DEF r
  <2>5. Effect(r, h)
    BY <1>5, <2>4 DEF Effect, Placed, Ids, id
  <2> QED BY <2>5 DEF r
<1> QED BY <1>1, <1>3, <1>4, <1>5 DEF IsEntry

\* The entries behind the head are untouched.
LEMMA TailInv ==
  ASSUME NEW q, IsQueue(q), q # <<>>, QueueInv(q)
  PROVE  /\ EntryInv(Head(q), 1)
         /\ \A i \in DOMAIN Tail(q) :
              IsEntry(Tail(q)[i]) /\ (Tail(q)[i].kind = "place" => Tail(q)[i].target = NoOrder)
<1>1. PICK E : q \in Seq(E)
  BY DEF IsQueue
<1>2. /\ Tail(q) \in Seq(E) /\ Len(Tail(q)) = Len(q) - 1 /\ Head(q) = q[1]
      /\ \A i \in 1..Len(Tail(q)) : Tail(q)[i] = q[i + 1]
      /\ DOMAIN q = 1..Len(q) /\ DOMAIN Tail(q) = 1..Len(Tail(q)) /\ Len(q) \in Nat
  BY <1>1, HeadTailProperties, LenProperties
<1>3. 1 \in DOMAIN q
  BY <1>1, <1>2, EmptySeq
<1>4. \A i \in DOMAIN Tail(q) : i + 1 \in DOMAIN q /\ i + 1 # 1 /\ Tail(q)[i] = q[i + 1]
  BY <1>2
<1> QED BY <1>2, <1>3, <1>4 DEF QueueInv, EntryInv

Untouched(h) == IsEntry(h) /\ (h.kind = "place" => h.target = NoOrder)

\* A queue with a new head before the same tail.
LEMMA HeadAndTail ==
  ASSUME NEW q, IsQueue(q), q # <<>>, NEW e
  PROVE  LET q2 == <<e>> \o Tail(q) IN
         /\ DOMAIN q2 = 1..(Len(Tail(q)) + 1) /\ Len(Tail(q)) \in Nat
         /\ q2[1] = e
         /\ \A i \in 2..(Len(Tail(q)) + 1) :
              i - 1 \in DOMAIN Tail(q) /\ q2[i] = Tail(q)[i - 1]
<1>1. PICK E : q \in Seq(E)
  BY DEF IsQueue
<1> DEFINE F == E \cup {e}
           t == Tail(q)
           q2 == <<e>> \o t
<1>2. t \in Seq(E)
  BY <1>1, HeadTailProperties
<1>3. t \in Seq(F) /\ <<e>> \in Seq(F) /\ Len(<<e>>) = 1 /\ <<e>>[1] = e
  BY <1>2, SeqMonotonic
<1> HIDE DEF F, t
<1>4. /\ q2 \in Seq(F) /\ Len(q2) = 1 + Len(t)
      /\ \A i \in 1..(1 + Len(t)) : q2[i] = IF i <= 1 THEN <<e>>[i] ELSE t[i - 1]
  BY <1>3, ConcatProperties
<1>5. Len(t) \in Nat /\ DOMAIN t = 1..Len(t) /\ DOMAIN q2 = 1..(1 + Len(t))
  BY <1>3, <1>4, LenProperties
<1> HIDE DEF q2
<1>6. 1 \in 1..(1 + Len(t)) /\ 1..(1 + Len(t)) = 1..(Len(t) + 1)
  BY <1>5
<1>7. q2[1] = e
  BY <1>3, <1>4, <1>6
<1>8. \A i \in 2..(Len(t) + 1) : i \in 1..(1 + Len(t)) /\ ~(i <= 1) /\ i - 1 \in DOMAIN t
  BY <1>5
<1>9. \A i \in 2..(Len(t) + 1) : i - 1 \in DOMAIN t /\ q2[i] = t[i - 1]
  BY <1>4, <1>8
<1> QED BY <1>5, <1>6, <1>7, <1>9 DEF q2, t

\* A pass of _processHeadCore keeps the book right and its entries in turn.
LEMMA CoreKeepsBook ==
  ASSUME BookInv, nextOrderId \in Nat \ {0}, NEW q, IsQueue(q), QueueInv(q),
         NEW calls, NEW before, NEW after, ProcessHeadCore(q, calls, before, after)
  PROVE  BookInv'
<1>1. CASE queue' = q /\ UNCHANGED <<book, nextOrderId, fees>>
  BY <1>1 DEF BookInv, QueueInv, EntryInv, Ids
<1>2. ASSUME q # <<>>
      PROVE  EntryInv(Head(q), 1) /\ \A i \in DOMAIN Tail(q) : Untouched(Tail(q)[i])
  BY <1>2, TailInv DEF Untouched
<1>3. CASE q # <<>> /\ RefuseHead(q, calls, before, after)
  <2>1. queue' = Tail(q) /\ book' = book /\ nextOrderId' = nextOrderId
    BY <1>3 DEF RefuseHead
  <2>2. QueueInv(queue)'
    BY <1>2, <1>3, <2>1 DEF QueueInv, EntryInv, Untouched
  <2> QED BY <2>1, <2>2 DEF BookInv, Ids
<1>4. CASE q # <<>> /\ ExecuteHead(q, calls, before, after)
  <2> DEFINE h == Head(q)
             r == HeadEffect(h)
  <2>1. EntryInv(h, 1) /\ \A i \in DOMAIN Tail(q) : Untouched(Tail(q)[i])
    BY <1>2, <1>4
  <2>2. Effect(r, h)
    BY <2>1, EffectKeeps
  <2>3. /\ queue' = KeepOrAdvance(r, q) /\ book' = r.b
        /\ nextOrderId' = IF h.kind = "place" /\ h.target = NoOrder
                          THEN nextOrderId + 1 ELSE nextOrderId
    BY <1>4 DEF ExecuteHead, Commit
  <2> HIDE DEF r, h
  <2>4. Agrees(book') /\ Apart(book')
    BY <2>2, <2>3 DEF Effect
  <2>5. h.kind = "place" => IdOf(h) = nextOrderId' - 1 /\ IdOf(h) \in 1..nextOrderId
                            /\ \A i \in Ids : i < IdOf(h)
    <3> SUFFICES ASSUME h.kind = "place"
                 PROVE  IdOf(h) = nextOrderId' - 1 /\ IdOf(h) \in 1..nextOrderId
                        /\ \A i \in Ids : i < IdOf(h)
      OBVIOUS
    <3>1. IdOf(h) \in 1..nextOrderId /\ \A i \in Ids : i < IdOf(h)
      BY <2>1, NewestOrder
    <3>2. IdOf(h) = nextOrderId' - 1
      BY <2>1, <2>3 DEF IdOf, EntryInv
    <3> QED BY <3>1, <3>2
  <2>6. Ids' \subseteq Ids \cup (IF h.kind = "place" /\ ~r.keep THEN {IdOf(h)} ELSE {})
    BY <2>2, <2>3 DEF Effect, Ids
  <2>7. Ids' \subseteq 1..(nextOrderId' - 1)
    <3> SUFFICES ASSUME NEW i \in Ids' PROVE i \in 1..(nextOrderId' - 1)
      OBVIOUS
    <3>1. i \in Ids => i \in 1..(nextOrderId - 1)
      BY DEF BookInv
    <3>2. nextOrderId' >= nextOrderId /\ nextOrderId' \in Nat
      BY <2>3
    <3>3. CASE i \in Ids
      BY <3>1, <3>2, <3>3
    <3>4. CASE i \notin Ids
      <4>1. h.kind = "place" /\ i = IdOf(h)
        BY <2>6, <3>4
      <4>2. i = nextOrderId' - 1 /\ i \in 1..nextOrderId
        BY <2>5, <4>1
      <4> DEFINE n == nextOrderId'
      <4>3. n \in Nat /\ i = n - 1
        BY <3>2, <4>2, Zenon
      <4> HIDE DEF n
      <4>5. i >= 1
        BY <4>2
      <4>4. i \in 1..(n - 1)
        BY <4>3, <4>5
      <4> QED BY <4>4 DEF n
    <3> QED BY <3>3, <3>4
  <2>8. QueueInv(queue)'
    <3>1. CASE ~r.keep
      <4>1. queue' = Tail(q)
        BY <2>3, <3>1 DEF KeepOrAdvance
      <4> QED BY <2>1, <4>1 DEF QueueInv, EntryInv, Untouched
    <3>2. CASE r.keep
      <4>1. queue' = <<r.entry>> \o Tail(q)
        BY <2>3, <3>2 DEF KeepOrAdvance
      <4>2. /\ DOMAIN queue' = 1..(Len(Tail(q)) + 1) /\ Len(Tail(q)) \in Nat
            /\ queue'[1] = r.entry
            /\ \A i \in 2..(Len(Tail(q)) + 1) :
                 i - 1 \in DOMAIN Tail(q) /\ queue'[i] = Tail(q)[i - 1]
        BY <1>4, <4>1, HeadAndTail
      <4>3. IsEntry(r.entry)
            /\ (r.entry.kind = "place" =>
                  r.entry.target = nextOrderId' - 1 /\ r.entry.target \notin Ids')
        <5>1. CASE h.kind = "place"
          <6>1. Continues(r.entry, h, IdOf(h)) /\ Ids' \subseteq Ids
            BY <2>2, <2>6, <3>2, <5>1 DEF Effect
          <6>2. IdOf(h) \notin Ids
            <7> SUFFICES ASSUME IdOf(h) \in Ids PROVE FALSE
              OBVIOUS
            <7>1. IdOf(h) < IdOf(h) /\ IdOf(h) \in Nat
              BY <2>5, <5>1
            <7> QED BY <7>1
          <6> QED BY <2>5, <5>1, <6>1, <6>2 DEF Continues
        <5>2. CASE h.kind # "place"
          BY <2>1, <2>2, <3>2, <5>2 DEF Effect, EntryInv
        <5> QED BY <5>1, <5>2
      <4>4. ASSUME NEW i \in DOMAIN queue' PROVE EntryInv(queue[i], i)'
        <5>1. CASE i = 1
          BY <4>2, <4>3, <5>1 DEF EntryInv
        <5>2. CASE i # 1
          <6>1. i \in 2..(Len(Tail(q)) + 1)
            BY <4>2, <5>2
          <6>2. Untouched(queue'[i])
            BY <2>1, <4>2, <6>1, Zenon
          <6> QED BY <6>2 DEF EntryInv, Untouched
        <5> QED BY <5>1, <5>2
      <4> QED BY <4>4 DEF QueueInv
    <3> QED BY <3>1, <3>2
  <2> QED BY <2>4, <2>7, <2>8 DEF BookInv
<1> QED BY <1>1, <1>3, <1>4 DEF ProcessHeadCore

\* The scan of a drain pass has a result after each identifier.
Scans(r, ids, from, n) ==
  r = [k \in 0..n |-> IF k = 0 THEN <<>>
                      ELSE IF from + k - 1 \in ids THEN Append(r[k - 1], from + k - 1)
                           ELSE r[k - 1]]

\* The scan of the shutdown drain over the order ids has a run.
LEMMA ScansExist ==
  ASSUME NEW ids, NEW from, NEW n \in Nat
  PROVE  \E r : Scans(r, ids, from, n)
<1> DEFINE bad == {m \in Nat : ~ \E r : Scans(r, ids, from, m)}
           Found(a, k) == IF from + k - 1 \in ids THEN Append(a, from + k - 1) ELSE a
<1>1. ASSUME bad # {} PROVE FALSE
  <2>1. PICK m \in bad : \A k \in bad : m <= k
    <3>1. bad \in SUBSET Nat
      OBVIOUS
    <3> HIDE DEF bad
    <3> QED BY <1>1, <3>1, LeastNatural
  <2>2. m \in Nat /\ ~ \E r : Scans(r, ids, from, m)
    OBVIOUS
  <2>3. CASE m = 0
    <3> DEFINE r == [k \in 0..0 |-> <<>>]
    <3>1. Scans(r, ids, from, 0)
      BY DEF Scans
    <3> QED BY <2>2, <2>3, <3>1
  <2>4. CASE m # 0
    <3>1. m - 1 \in Nat /\ m - 1 \notin bad
      BY <2>1, <2>2, <2>4
    <3>2. PICK r : Scans(r, ids, from, m - 1)
      BY <3>1
    <3> DEFINE e(k) == IF k = 0 THEN <<>> ELSE Found(r[k - 1], k)
               r2 == [k \in 0..m |-> e(k)]
    <3>3. \A k \in 0..(m - 1) : r[k] = e(k)
      BY <3>2, Zenon DEF Scans
    <3>4. \A k \in 0..m : k # 0 => k - 1 \in 0..(m - 1) /\ k - 1 \in 0..m
      BY <2>2
    <3>5. \A k \in 0..m : r2[k] = e(k)
      OBVIOUS
    <3>6. \A k \in 0..m : k # 0 => r2[k - 1] = r[k - 1]
      <4> HIDE DEF e, r2
      <4> QED BY <3>3, <3>4, <3>5
    <3>7. r2 = [k \in 0..m |-> IF k = 0 THEN <<>> ELSE Found(r2[k - 1], k)]
      <4> DEFINE g(k) == IF k = 0 THEN <<>> ELSE Found(r2[k - 1], k)
      <4>1. \A k \in 0..m : e(k) = g(k)
        <5> HIDE DEF r2, Found
        <5> QED BY <3>6
      <4> HIDE DEF e, g
      <4>2. r2 = [k \in 0..m |-> g(k)]
        BY <4>1
      <4> QED BY <4>2 DEF g
    <3> QED BY <2>2, <3>7, Zenon DEF Scans
  <2> QED BY <2>3, <2>4
<1> QED BY <1>1

\* A drain pass finds the resting orders among the identifiers it scans.
LEMMA DrainBatchFound ==
  ASSUME nextOrderId \in Nat \ {0}, shutdownCursor \in 0..nextOrderId
  PROVE  /\ DrainBatch \in Seq(Nat)
         /\ \A x : Has(x, DrainBatch) <=> x \in Ids /\ x \in DrainFrom..(DrainTo - 1)
         /\ \A i, j \in DOMAIN DrainBatch : i < j => DrainBatch[i] < DrainBatch[j]
<1> DEFINE n == DrainTo - DrainFrom
           from == DrainFrom
           r == CHOOSE f : Scans(f, Ids, from, n)
           Good(a, k) ==
             /\ a \in Seq(Nat)
             /\ \A x : Has(x, a) <=> x \in Ids /\ x \in from..(from + k - 1)
             /\ \A i, j \in DOMAIN a : i < j => a[i] < a[j]
<1>1. n \in Nat /\ from \in Nat
  <2>1. MAX_SHUTDOWN_BATCH \in Nat /\ MAX_SHUTDOWN_BATCH > 0
    BY OrderBookAssumption
  <2>2. DrainFrom \in 1..nextOrderId
    BY DEF DrainFrom
  <2>3. DrainTo = IF nextOrderId <= DrainFrom + MAX_SHUTDOWN_BATCH
                  THEN nextOrderId ELSE DrainFrom + MAX_SHUTDOWN_BATCH
    BY <2>1, <2>2, MinOfTwo DEF DrainTo
  <2> QED BY <2>1, <2>2, <2>3
<1>2. Scans(r, Ids, from, n)
  <2> HIDE DEF n, from
  <2> QED BY <1>1, ScansExist
<1>3. DrainBatch = r[n]
  BY DEF DrainBatch, Scans, Ids
<1> HIDE DEF r, from, n
<1>4. /\ r[0] = <<>>
      /\ \A k \in 1..n : r[k] = IF from + k - 1 \in Ids
                                THEN Append(r[k - 1], from + k - 1) ELSE r[k - 1]
  <2> DEFINE g(k) == IF k = 0 THEN <<>>
                     ELSE IF from + k - 1 \in Ids THEN Append(r[k - 1], from + k - 1)
                          ELSE r[k - 1]
  <2>1. r = [k \in 0..n |-> g(k)]
    BY <1>2, Zenon DEF Scans
  <2> HIDE DEF g
  <2>2. \A k \in 0..n : r[k] = g(k)
    BY <2>1
  <2>3. 0 \in 0..n /\ \A k \in 1..n : k \in 0..n /\ k # 0
    BY <1>1
  <2> QED BY <2>2, <2>3, Zenon DEF g
<1>5. Good(r[0], 0)
  <2>1. from..(from + 0 - 1) = {}
    BY <1>1
  <2>2. <<>> \in Seq(Nat) /\ DOMAIN <<>> = {}
    OBVIOUS
  <2> QED BY <1>4, <2>1, <2>2 DEF Has
<1>6. ASSUME NEW k \in 1..n, Good(r[k - 1], k - 1) PROVE Good(r[k], k)
  <2> DEFINE a == r[k - 1]
             c == r[k]
             id == from + k - 1
  <2>1. id \in Nat /\ from..(from + k - 1) = from..(from + (k - 1) - 1) \cup {id}
        /\ id \notin from..(from + (k - 1) - 1)
        /\ \A x \in from..(from + (k - 1) - 1) : x < id
    BY <1>1
  <2>2. c = IF id \in Ids THEN Append(a, id) ELSE a
    BY <1>4
  <2>3. /\ a \in Seq(Nat)
        /\ \A x : Has(x, a) <=> x \in Ids /\ x \in from..(from + (k - 1) - 1)
        /\ \A i, j \in DOMAIN a : i < j => a[i] < a[j]
    BY <1>6
  <2> HIDE DEF a, c, id
  <2>4. CASE id \notin Ids
    <3>1. c = a
      BY <2>2, <2>4
    <3>2. \A x : x \in Ids /\ x \in from..(from + k - 1)
                 <=> x \in Ids /\ x \in from..(from + (k - 1) - 1)
      BY <2>1, <2>4
    <3>3. Good(c, k)
      BY <2>3, <3>1, <3>2
    <3> QED BY <3>3 DEF c
  <2>5. CASE id \in Ids
    <3>1. /\ c \in Seq(Nat) /\ Len(c) = Len(a) + 1 /\ Len(a) \in Nat
          /\ \A i \in 1..Len(a) : c[i] = a[i]
          /\ c[Len(a) + 1] = id
          /\ DOMAIN a = 1..Len(a) /\ DOMAIN c = 1..(Len(a) + 1)
      BY <2>1, <2>2, <2>3, <2>5, AppendProperties, LenProperties
    <3>2. ASSUME NEW x PROVE Has(x, c) <=> Has(x, a) \/ x = id
      <4>1. ASSUME NEW i \in DOMAIN c, c[i] = x PROVE Has(x, a) \/ x = id
        <5>1. i \in 1..Len(a) \/ i = Len(a) + 1
          BY <3>1
        <5> QED BY <3>1, <4>1, <5>1 DEF Has
      <4>2. ASSUME NEW i \in DOMAIN a, a[i] = x PROVE Has(x, c)
        <5>1. i \in DOMAIN c /\ c[i] = x
          BY <3>1, <4>2
        <5> QED BY <5>1 DEF Has
      <4>3. Has(id, c)
        <5>1. Len(a) + 1 \in DOMAIN c
          BY <3>1
        <5> QED BY <3>1, <5>1 DEF Has
      <4>4. Has(x, c) => Has(x, a) \/ x = id
        BY <4>1 DEF Has
      <4>5. Has(x, a) => Has(x, c)
        BY <4>2 DEF Has
      <4> QED BY <4>3, <4>4, <4>5
    <3>3. \A x : Has(x, c) <=> x \in Ids /\ x \in from..(from + k - 1)
      BY <2>1, <2>3, <2>5, <3>2
    <3>4. ASSUME NEW i \in DOMAIN c, NEW j \in DOMAIN c, i < j PROVE c[i] < c[j]
      <4>1. i \in DOMAIN a /\ c[i] = a[i]
        BY <3>1, <3>4
      <4>2. CASE j \in DOMAIN a
        BY <2>3, <3>1, <3>4, <4>1, <4>2
      <4>3. CASE j \notin DOMAIN a
        <5>1. j = Len(a) + 1
          BY <3>1, <4>3
        <5>2. Has(a[i], a)
          BY <4>1 DEF Has
        <5> QED BY <2>1, <2>3, <3>1, <4>1, <5>1, <5>2
      <4> QED BY <4>2, <4>3
    <3>5. Good(c, k)
      BY <3>1, <3>3, <3>4
    <3> QED BY <3>5 DEF c
  <2> QED BY <2>4, <2>5
<1> HIDE DEF Good
<1> DEFINE bad == {k \in 0..n : ~Good(r[k], k)}
<1>7. ASSUME bad # {} PROVE FALSE
  <2>1. bad \in SUBSET Nat
    OBVIOUS
  <2>2. PICK k \in bad : \A m \in bad : k <= m
    BY <1>7, <2>1, LeastNatural, Zenon
  <2>3. k \in 0..n /\ ~Good(r[k], k)
    OBVIOUS
  <2>4. k # 0
    BY <1>5, <2>3
  <2>5. k \in 1..n /\ k - 1 \in 0..n /\ ~(k <= k - 1)
    BY <1>1, <2>3, <2>4
  <2>6. Good(r[k - 1], k - 1)
    BY <2>2, <2>5
  <2> QED BY <1>6, <2>3, <2>5, <2>6
<1>8. Good(DrainBatch, n)
  <2>1. n \in 0..n
    BY <1>1
  <2> QED BY <1>3, <1>7, <2>1
<1>9. from + n - 1 = DrainTo - 1
  <2>1. DrainTo \in Int
    BY DrainRange
  <2> QED BY <1>1, <2>1 DEF n, from
<1> QED BY <1>8, <1>9 DEF Good, from

\* A shutdown message keeps the book right.
LEMMA ShutdownKeepsBook ==
  ASSUME BookInv, CtrlInv, NEW calls, Shutdown(calls)
  PROVE  BookInv'
<1>1. nextOrderId \in Nat \ {0} /\ shutdownCursor \in 0..nextOrderId
  BY DEF CtrlInv, TypeOK
<1>2. queue' = queue /\ nextOrderId' = nextOrderId
  BY Zenon DEF Shutdown, DeferShutdown, Drain
<1>3. CASE DeferShutdown(calls)
  BY <1>2, <1>3 DEF DeferShutdown, BookInv, QueueInv, EntryInv, Ids
<1>4. CASE Drain(calls)
  <2> DEFINE c == CancelEach(book, DrainBatch, 0).b
  <2>1. book' = c
    BY <1>4 DEF Drain
  <2>2. Len(DrainBatch) \in Nat
    BY <1>1, DrainBatchFound, LenProperties
  <2>3. Agrees(c) /\ Within(c, book)
    BY <2>2, CancelKeeps DEF BookInv
  <2> HIDE DEF c
  <2>4. Apart(c) /\ DOMAIN c.orders \subseteq Ids
    BY <2>3, WithinOrder DEF BookInv, Within, Ids
  <2>5. Ids' \subseteq Ids
    BY <2>1, <2>4 DEF Ids
  <2>6. QueueInv(queue)'
    BY <1>2, <2>5, Zenon DEF BookInv, QueueInv, EntryInv
  <2> QED BY <1>2, <2>1, <2>3, <2>4, <2>5, <2>6 DEF BookInv
<1> QED BY <1>3, <1>4 DEF Shutdown

\* What a handler hands on is in turn if the queue was.
LEMMA HandedInv ==
  ASSUME QueueInv(queue), IsQueue(queue), NEW q, NEW n, NEW nonce, Handed(q, n, nonce)
  PROVE  QueueInv(q)
<1>1. /\ Len(queue) \in Nat /\ Len(q) \in Nat /\ DOMAIN queue = 1..Len(queue)
      /\ DOMAIN q = 1..Len(q)
  BY LenProperties DEF Handed, IsQueue
<1> SUFFICES ASSUME NEW i \in DOMAIN q PROVE EntryInv(q[i], i)
  BY DEF QueueInv
<1>2. CASE i \in DOMAIN queue
  BY <1>1, <1>2, Zenon DEF Handed, QueueInv
<1>3. CASE i \notin DOMAIN queue
  <2>1. i \in (Len(queue) + 1)..Len(q)
    BY <1>1, <1>3
  <2>2. Fresh(q[i], n, nonce)
    BY <2>1 DEF Handed
  <2> QED BY <2>2 DEF Fresh, EntryInv
<1> QED BY <1>2, <1>3

\* A deployed book is right.
LEMMA InitBook == Init => BookInv
<1> SUFFICES ASSUME Init PROVE BookInv
  OBVIOUS
<1>1. book = EmptyBook /\ queue = <<>>
  BY DEF Init, OBInit
<1>2. Agrees(book) /\ Apart(book) /\ Ids = {}
  BY <1>1, EmptyAgrees DEF Ids
<1>3. QueueInv(queue)
  BY <1>1 DEF QueueInv
<1> QED BY <1>2, <1>3 DEF BookInv

\* Every message keeps the book right.
LEMMA StepBook == CtrlInv /\ BookInv /\ [Next]_vars => BookInv'
<1> SUFFICES ASSUME CtrlInv, BookInv, [Next]_vars PROVE BookInv'
  OBVIOUS
<1>1. IsQueue(queue) /\ nextOrderId \in Nat \ {0} /\ QueueInv(queue)
  BY DEF CtrlInv, TypeOK, BookInv
<1>2. ASSUME NEW n \in Notes, NEW orders \in Batches, NEW cancels \in Cancels,
             SendBatch(n, orders, cancels)
      PROVE  BookInv'
  <2>1. orders \in Seq(PlaceParams) /\ cancels \in Seq(Nat)
    BY EnvironmentAssumption
  <2>2. ExecuteBatch(n, orders, cancels, ops + 1)
    BY <1>2 DEF SendBatch
  <2>3. PICK q, before, after :
          Handed(q, n, ops + 1) /\ ProcessHeadCore(q, selfCalls, before, after)
    BY <1>1, <2>1, <2>2, BatchRunsCore, Zenon
  <2>4. IsQueue(q) /\ QueueInv(q)
    BY <1>1, <2>3, HandedInv DEF Handed
  <2> QED BY <1>1, <2>3, <2>4, CoreKeepsBook
<1>3. ASSUME NEW n \in Notes, SendCancelAll(n)
      PROVE  BookInv'
  <2>1. CancelAllOrders(n, ops + 1)
    BY <1>3 DEF SendCancelAll
  <2>2. PICK q, after :
          Handed(q, n, ops + 1) /\ ProcessHeadCore(q, selfCalls, <<>>, after)
    BY <1>1, <2>1, CancelAllRunsCore
  <2>3. IsQueue(q) /\ QueueInv(q)
    BY <1>1, <2>2, HandedInv, Zenon DEF Handed
  <2> QED BY <1>1, <2>2, <2>3, CoreKeepsBook
<1>4. CASE Poke
  BY <1>1, <1>4, CoreKeepsBook DEF Poke, PokeProcessHead
<1>5. CASE SelfProcessHead
  BY <1>1, <1>5, CoreKeepsBook DEF SelfProcessHead
<1>6. CASE SelfShutdown
  BY <1>6, ShutdownKeepsBook DEF SelfShutdown
<1>7. CASE SendShutdown
  BY <1>7, ShutdownKeepsBook DEF SendShutdown, PMPShutdown
<1>8. ASSUME UNCHANGED <<book, nextOrderId, queue>> PROVE BookInv'
  BY <1>8 DEF BookInv, QueueInv, EntryInv, Ids
<1>9. ASSUME NEW t \in 1..MaxTime, Reschedule(t) PROVE BookInv'
  BY <1>8, <1>9 DEF Reschedule, SetResultStart
<1>10. CASE Pass
  BY <1>8, <1>10 DEF Pass, Tick
<1>11. CASE UNCHANGED vars
  BY <1>8, <1>11 DEF vars, obVars
<1> QED BY <1>2, <1>3, <1>4, <1>5, <1>6, <1>7, <1>9, <1>10, <1>11 DEF Next, SelfCall

\* The inductive invariant is what the run checks, and more.
LEMMA BookInvConsistent == CtrlInv /\ BookInv => BookConsistent
<1> SUFFICES ASSUME CtrlInv, BookInv PROVE BookConsistent
  OBVIOUS
<1>1. /\ Agrees(book) /\ IsBook(book) /\ Apart(book) /\ Ids \subseteq 1..(nextOrderId - 1)
      /\ DOMAIN book.levels = LevelKeys
  BY DEF BookInv, Agrees, IsBook
<1>2. ASSUME NEW k \in DOMAIN book.levels
      PROVE  LET l == book.levels[k]
                 ids == {i \in Ids : LevelOf(book.orders[i]) = k}
             IN l.total = SumAmounts(ids) /\ InOrder(l.fifo, ids)
  <2>1. LevelAgrees(book, k)
    BY <1>1 DEF Agrees
  <2> QED BY <2>1, Zenon DEF LevelAgrees, AtLevel, TotalAt, SumAmounts, Ids
<1>3. ASSUME NEW n \in Notes
      PROVE  InOrder(book.owners[n], {i \in Ids : book.orders[i].owner = n})
  <2>1. InOrder(book.owners[n], OfOwner(book, n))
    BY <1>1 DEF Agrees
  <2> QED BY <2>1 DEF OfOwner, Ids
<1>4. \A i \in Ids : book.orders[i].amount > 0
  <2> SUFFICES ASSUME NEW i \in Ids PROVE book.orders[i].amount > 0
    OBVIOUS
  <2>1. book.orders[i] \in OrderRec
    BY <1>1 DEF IsBook, Ids
  <2> QED BY <2>1 DEF OrderRec
<1>5. Uncrossed
  BY <1>1 DEF Uncrossed, Apart, Ids
<1>6. book.count = Cardinality(Ids)
  BY <1>1 DEF Agrees, Ids
<1> QED BY <1>1, <1>2, <1>3, <1>4, <1>5, <1>6, Zenon DEF BookConsistent

\* Every view of the book agrees and no resting orders cross, whatever orders,
\* cancels, passes and drains interleave and wherever the match cap, the pre-check
\* and the queue interrupt a placement: the argument behind _insertIntoBook,
\* _removeFromBook and the match loop of _doPlace (OrderBook.sol:1023-1206).
THEOREM BookStaysConsistent == Spec => []BookConsistent
<1>1. Init => CtrlInv /\ BookInv
  BY InitCtrl, InitBook
<1>2. CtrlInv /\ BookInv /\ [Next]_vars => CtrlInv' /\ BookInv'
  BY StepCtrl, StepBook
<1> QED BY <1>1, <1>2, BookInvConsistent, PTL DEF Spec

=============================================================================
