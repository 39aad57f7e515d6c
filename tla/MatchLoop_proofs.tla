-------------------------- MODULE MatchLoop_proofs --------------------------
(***************************************************************************)
(* Proofs about the match loop and about a whole placement: each match is  *)
(* with the order that comes first, the loop stops only when nothing it    *)
(* could trade with is left or its cap is reached, a remainder that rests  *)
(* does not cross, and what an order reserved covers its fills.            *)
(***************************************************************************)
EXTENDS BookMatching_proofs

-----------------------------------------------------------------------------
(* Sequences of anything. *)

IsSeq(s) == \E S : s \in Seq(S)

\* What a concatenation is made of.
LEMMA Joined ==
  ASSUME NEW s, IsSeq(s), NEW t, IsSeq(t)
  PROVE  /\ IsSeq(s \o t) /\ Len(s) \in Nat /\ Len(t) \in Nat
         /\ DOMAIN s = 1..Len(s) /\ DOMAIN t = 1..Len(t)
         /\ Len(s \o t) = Len(s) + Len(t) /\ DOMAIN (s \o t) = 1..(Len(s) + Len(t))
         /\ \A i \in 1..(Len(s) + Len(t)) :
              (s \o t)[i] = IF i <= Len(s) THEN s[i] ELSE t[i - Len(s)]
<1>1. PICK S : s \in Seq(S)
  BY DEF IsSeq
<1>2. PICK T : t \in Seq(T)
  BY DEF IsSeq
<1> DEFINE U == S \cup T
<1>3. s \in Seq(U) /\ t \in Seq(U)
  BY <1>1, <1>2, SeqMonotonic
<1> HIDE DEF U
<1>4. /\ s \o t \in Seq(U) /\ Len(s \o t) = Len(s) + Len(t)
      /\ \A i \in 1..(Len(s) + Len(t)) :
           (s \o t)[i] = IF i <= Len(s) THEN s[i] ELSE t[i - Len(s)]
  BY <1>3, ConcatProperties
<1>5. /\ Len(s) \in Nat /\ Len(t) \in Nat /\ DOMAIN s = 1..Len(s) /\ DOMAIN t = 1..Len(t)
      /\ DOMAIN (s \o t) = 1..Len(s \o t)
  BY <1>3, <1>4, LenProperties
<1> QED BY <1>4, <1>5 DEF IsSeq

\* The empty and the one-element sequence.
LEMMA ShortSeqs ==
  /\ IsSeq(<<>>) /\ DOMAIN <<>> = {}
  /\ \A m : IsSeq(<<m>>) /\ DOMAIN <<m>> = 1..1 /\ <<m>>[1] = m
<1>1. <<>> \in Seq({}) /\ DOMAIN <<>> = {}
  OBVIOUS
<1>2. ASSUME NEW m PROVE <<m>> \in Seq({m}) /\ DOMAIN <<m>> = 1..1 /\ <<m>>[1] = m
  OBVIOUS
<1> QED BY <1>1, <1>2, Zenon DEF IsSeq

-----------------------------------------------------------------------------
(* Books that only lost orders, or parts of them. *)

Within(c, b) ==
  /\ DOMAIN c.orders \subseteq DOMAIN b.orders
  /\ \A i \in DOMAIN c.orders :
       /\ c.orders[i].owner = b.orders[i].owner
       /\ c.orders[i].book = b.orders[i].book
       /\ c.orders[i].isBuy = b.orders[i].isBuy
       /\ c.orders[i].price = b.orders[i].price

\* A book that lost orders to one that lost orders has lost orders.
LEMMA WithinOrder ==
  ASSUME NEW a, NEW b, NEW c, Within(c, b)
  PROVE  /\ Within(b, a) => Within(c, a)
         /\ Apart(b) => Apart(c)
<1>1. ASSUME Within(b, a) PROVE Within(c, a)
  BY <1>1 DEF Within
<1>2. ASSUME Apart(b) PROVE Apart(c)
  BY <1>2 DEF Within, Apart
<1> QED BY <1>1, <1>2

\* _removeFromBook loses one order and changes no other.
LEMMA RemoveWithin ==
  ASSUME NEW b, Agrees(b), NEW id
  PROVE  /\ Agrees(RemoveFromBook(b, id))
         /\ Within(RemoveFromBook(b, id), b)
         /\ DOMAIN RemoveFromBook(b, id).orders = DOMAIN b.orders \ {id}
         /\ \A i \in DOMAIN b.orders \ {id} :
              RemoveFromBook(b, id).orders[i] = b.orders[i]
<1>1. CASE id \in DOMAIN b.orders
  <2> DEFINE c == RemoveFromBook(b, id)
  <2>1. /\ Agrees(c) /\ DOMAIN c.orders = DOMAIN b.orders \ {id}
        /\ \A i \in DOMAIN b.orders \ {id} : c.orders[i] = b.orders[i]
    BY <1>1, RemoveKeeps
  <2> HIDE DEF c
  <2>2. Within(c, b)
    BY <2>1 DEF Within
  <2> QED BY <2>1, <2>2 DEF c
<1>2. CASE id \notin DOMAIN b.orders
  <2>1. RemoveFromBook(b, id) = b
    BY <1>2 DEF RemoveFromBook
  <2>2. Within(b, b) /\ DOMAIN b.orders \ {id} = DOMAIN b.orders
    BY <1>2 DEF Within
  <2> QED BY <2>1, <2>2
<1> QED BY <1>1, <1>2

\* A partial fill changes the amount of one order only.
LEMMA ReduceWithin ==
  ASSUME NEW b, Agrees(b), NEW id \in DOMAIN b.orders,
         NEW trade \in Nat, trade < b.orders[id].amount
  PROVE  Within(ReduceOrder(b, id, trade), b)
<1> DEFINE c == ReduceOrder(b, id, trade)
           p == Reduced(b.orders[id], trade)
<1>1. /\ DOMAIN c.orders = DOMAIN b.orders
      /\ \A i \in DOMAIN b.orders : c.orders[i] = IF i = id THEN p ELSE b.orders[i]
  BY ReduceKeeps
<1>2. b.orders[id] \in OrderRec
  BY DEF Agrees, IsBook
<1>3. /\ p.owner = b.orders[id].owner /\ p.book = b.orders[id].book
      /\ p.isBuy = b.orders[id].isBuy /\ p.price = b.orders[id].price
  BY <1>2 DEF OrderRec, Reduced
<1> HIDE DEF c, p
<1>4. Within(c, b)
  BY <1>1, <1>3 DEF Within
<1> QED BY <1>4 DEF c

-----------------------------------------------------------------------------
(* Cancelling a sequence of orders. *)

Unlinks(r, b, ids, n) ==
  r = [k \in 0..n |-> IF k = 0 THEN b ELSE RemoveFromBook(r[k - 1], ids[k])]

\* The loop of a cancel-all or of a drain pass has a state after each order.
LEMMA UnlinksExist ==
  ASSUME NEW b, NEW ids, NEW n \in Nat
  PROVE  \E r : Unlinks(r, b, ids, n)
<1> DEFINE bad == {m \in Nat : ~ \E r : Unlinks(r, b, ids, m)}
<1>1. ASSUME bad # {} PROVE FALSE
  <2>1. PICK m \in bad : \A k \in bad : m <= k
    <3>1. bad \in SUBSET Nat
      OBVIOUS
    <3> HIDE DEF bad
    <3> QED BY <1>1, <3>1, LeastNatural
  <2>2. m \in Nat /\ ~ \E r : Unlinks(r, b, ids, m)
    OBVIOUS
  <2>3. CASE m = 0
    <3> DEFINE r == [k \in 0..0 |-> b]
    <3>1. Unlinks(r, b, ids, 0)
      BY DEF Unlinks
    <3> QED BY <2>2, <2>3, <3>1
  <2>4. CASE m # 0
    <3>1. m - 1 \in Nat /\ m - 1 \notin bad
      BY <2>1, <2>2, <2>4
    <3>2. PICK r : Unlinks(r, b, ids, m - 1)
      BY <3>1
    <3> DEFINE e(k) == IF k = 0 THEN b ELSE RemoveFromBook(r[k - 1], ids[k])
               r2 == [k \in 0..m |-> e(k)]
    <3>3. \A k \in 0..(m - 1) : r[k] = e(k)
      BY <3>2 DEF Unlinks
    <3>4. \A k \in 0..m : k # 0 => k - 1 \in 0..(m - 1) /\ k - 1 \in 0..m
      BY <2>2
    <3>5. \A k \in 0..m : r2[k] = e(k)
      OBVIOUS
    <3>6. \A k \in 0..m : k # 0 => r2[k - 1] = r[k - 1]
      <4> HIDE DEF e, r2
      <4> QED BY <3>3, <3>4, <3>5
    <3>7. \A k \in 0..m : e(k) = IF k = 0 THEN b ELSE RemoveFromBook(r2[k - 1], ids[k])
      <4> HIDE DEF r2
      <4> QED BY <3>6
    <3>8. r2 = [k \in 0..m |-> IF k = 0 THEN b ELSE RemoveFromBook(r2[k - 1], ids[k])]
      <4> DEFINE g(k) == IF k = 0 THEN b ELSE RemoveFromBook(r2[k - 1], ids[k])
      <4>1. \A k \in 0..m : e(k) = g(k)
        BY <3>7
      <4> HIDE DEF e, g
      <4>2. r2 = [k \in 0..m |-> g(k)]
        BY <4>1
      <4> QED BY <4>2 DEF g
    <3> QED BY <2>2, <3>8, Zenon DEF Unlinks
  <2> QED BY <2>3, <2>4
<1> QED BY <1>1

\* The local recursion of CancelEach is that loop.
LEMMA CancelEachLoop ==
  ASSUME NEW b, NEW ids, Len(ids) \in Nat, NEW nonce
  PROVE  \E r : Unlinks(r, b, ids, Len(ids)) /\ CancelEach(b, ids, nonce).b = r[Len(ids)]
<1> DEFINE r == CHOOSE f : Unlinks(f, b, ids, Len(ids))
<1>1. Unlinks(r, b, ids, Len(ids))
  BY UnlinksExist
<1>2. CancelEach(b, ids, nonce).b = r[Len(ids)]
  BY DEF CancelEach, Unlinks
<1> QED BY <1>1, <1>2, Zenon

\* Cancelling removes exactly the given orders and keeps every view right.
LEMMA CancelKeeps ==
  ASSUME NEW b, Agrees(b), NEW ids, Len(ids) \in Nat, NEW nonce
  PROVE  LET c == CancelEach(b, ids, nonce).b IN
         /\ Agrees(c) /\ Within(c, b)
         /\ DOMAIN c.orders = DOMAIN b.orders \ {ids[j] : j \in 1..Len(ids)}
         /\ \A i \in DOMAIN c.orders : c.orders[i] = b.orders[i]
<1> DEFINE Gone(k) == {ids[j] : j \in 1..k}
           Good(c, k) == /\ Agrees(c) /\ Within(c, b)
                         /\ DOMAIN c.orders = DOMAIN b.orders \ Gone(k)
                         /\ \A i \in DOMAIN c.orders : c.orders[i] = b.orders[i]
           n == Len(ids)
<1>1. PICK r : Unlinks(r, b, ids, n) /\ CancelEach(b, ids, nonce).b = r[n]
  BY CancelEachLoop
<1>2. r[0] = b /\ \A k \in 1..n : r[k] = RemoveFromBook(r[k - 1], ids[k])
  BY <1>1 DEF Unlinks
<1>3. Good(b, 0)
  <2>1. Gone(0) = {}
    OBVIOUS
  <2>2. Within(b, b)
    BY DEF Within
  <2> QED BY <2>1, <2>2
<1>4. ASSUME NEW k \in 1..n, Good(r[k - 1], k - 1) PROVE Good(r[k], k)
  <2> DEFINE d == r[k - 1]
             c == r[k]
  <2>1. c = RemoveFromBook(d, ids[k])
    BY <1>2
  <2>2. /\ Agrees(d) /\ Within(d, b) /\ DOMAIN d.orders = DOMAIN b.orders \ Gone(k - 1)
        /\ \A i \in DOMAIN d.orders : d.orders[i] = b.orders[i]
    BY <1>4
  <2>3. Gone(k) = Gone(k - 1) \cup {ids[k]}
    <3>1. 1..k = 1..(k - 1) \cup {k}
      OBVIOUS
    <3> QED BY <3>1, Zenon
  <2> HIDE DEF c, d, Gone
  <2>4. /\ Agrees(c) /\ Within(c, d) /\ DOMAIN c.orders = DOMAIN d.orders \ {ids[k]}
        /\ \A i \in DOMAIN d.orders \ {ids[k]} : c.orders[i] = d.orders[i]
    BY <2>1, <2>2, RemoveWithin
  <2>5. Within(c, b)
    BY <2>2, <2>4, WithinOrder
  <2>6. DOMAIN c.orders = DOMAIN b.orders \ Gone(k)
    BY <2>2, <2>3, <2>4
  <2>7. \A i \in DOMAIN c.orders : c.orders[i] = b.orders[i]
    BY <2>2, <2>4
  <2> QED BY <2>4, <2>5, <2>6, <2>7 DEF c
<1> HIDE DEF Good
<1> DEFINE bad == {k \in 0..n : ~Good(r[k], k)}
<1>5. ASSUME bad # {} PROVE FALSE
  <2>1. bad \in SUBSET Nat
    OBVIOUS
  <2>2. PICK k \in bad : \A m \in bad : k <= m
    BY <1>5, <2>1, LeastNatural, Zenon
  <2>3. k \in 0..n /\ ~Good(r[k], k)
    OBVIOUS
  <2>4. k # 0
    BY <1>2, <1>3, <2>3
  <2>5. k \in 1..n /\ k - 1 \in 0..n /\ ~(k <= k - 1)
    BY <2>3, <2>4
  <2>6. Good(r[k - 1], k - 1)
    BY <2>2, <2>5
  <2> QED BY <1>4, <2>3, <2>5, <2>6
<1>6. Good(r[n], n)
  <2>1. n \in 0..n
    OBVIOUS
  <2> QED BY <1>5, <2>1
<1> QED BY <1>1, <1>6 DEF Good

-----------------------------------------------------------------------------
(* The best opposite level. *)

\* What the match loop assumes of the taker it was given.
IsTaker(t) ==
  /\ t.owner \in Notes /\ t.id \in Nat
  /\ t.op.book \in Books /\ t.op.isBuy \in BOOLEAN /\ t.op.amount \in Nat
  /\ ~IsMarket(t.op) => t.op.price \in Prices

Opp(p, q) == <<p.book, ~p.isBuy, q>>

\* Level q comes before level last in the walk of order p.
Better(p, q, last) == last # NoPrice /\ IF p.isBuy THEN q < last ELSE q > last

\* NextOpposite returns the first level with orders that the walk has not passed.
LEMMA NextIsBest ==
  ASSUME NEW b, Agrees(b), NEW p, p.book \in Books, p.isBuy \in BOOLEAN,
         NEW last \in Prices \cup {NoPrice}
  PROVE  LET q == NextOpposite(b, p, last) IN
         /\ q # NoPrice => q \in Prices /\ b.levels[Opp(p, q)].fifo # <<>>
         /\ q = NoPrice \/ q \in Prices
         /\ \A r \in Prices :
              (b.levels[Opp(p, r)].fifo # <<>> /\ r # last /\ ~Better(p, r, last))
              => q # NoPrice /\ (r = q \/ Better(p, q, r))
<1> DEFINE O == OppositePrices(b, p)
           beyond == {q \in O : last # NoPrice => IF p.isBuy THEN q > last ELSE q < last}
           q == NextOpposite(b, p, last)
<1>1. Prices \subseteq Nat \ {0} /\ NoPrice = 0 /\ last \in Nat
  BY MatchingAssumption DEF NoPrice
<1>2. O \subseteq Prices /\ \A r \in Prices : r \in O <=> b.levels[Opp(p, r)].fifo # <<>>
  BY DEF OppositePrices, Opp
<1>3. IsFiniteSet(O)
  <2> DEFINE D == DOMAIN b.orders
             P == {b.orders[i].price : i \in D}
  <2>1. IsFiniteSet(P)
    <3> DEFINE g == [i \in D |-> b.orders[i].price]
    <3>1. IsFiniteSet(D)
      BY DEF Agrees, IsBook
    <3>2. g \in Surjection(D, P)
      BY DEF Surjection
    <3> HIDE DEF D, g, P
    <3> QED BY <3>1, <3>2, FS_Surjection
  <2>2. ASSUME NEW r \in O PROVE r \in P
    <3>1. r \in Prices /\ Opp(p, r) \in LevelKeys /\ b.levels[Opp(p, r)].fifo # <<>>
      BY <1>2, Zenon DEF Opp, LevelKeys
    <3>2. b.levels[Opp(p, r)] \in LevelRec
          /\ InOrder(b.levels[Opp(p, r)].fifo, AtLevel(b, Opp(p, r)))
      BY <3>1 DEF Agrees, LevelAgrees, IsBook
    <3>3. b.levels[Opp(p, r)].fifo \in Seq(Nat)
      BY <3>2 DEF LevelRec
    <3>4. AtLevel(b, Opp(p, r)) # {}
      BY <3>1, <3>2, <3>3, HeadInOrder, Zenon
    <3>5. PICK i \in D : LevelOf(b.orders[i]) = Opp(p, r)
      BY <3>4 DEF AtLevel
    <3>6. b.orders[i].price = r
      BY <3>5 DEF LevelOf, Opp
    <3> QED BY <3>6
  <2> HIDE DEF O, P
  <2> QED BY <2>1, <2>2, FS_Subset
<1> HIDE DEF O
<1>4. beyond \subseteq O /\ beyond \in SUBSET Nat /\ IsFiniteSet(beyond)
  <2>1. beyond \subseteq O
    OBVIOUS
  <2> QED BY <1>1, <1>2, <1>3, <2>1, FS_Subset, Zenon
<1>5. q = IF beyond = {} THEN NoPrice ELSE IF p.isBuy THEN Min(beyond) ELSE Max(beyond)
  BY DEF NextOpposite, O
<1>6. \A r \in Prices : (r \in O /\ r # last /\ ~Better(p, r, last)) => r \in beyond
  BY <1>1 DEF Better
<1> HIDE DEF beyond, q
<1>7. CASE beyond = {}
  BY <1>2, <1>5, <1>6, <1>7 DEF q
<1>8. CASE beyond # {} /\ p.isBuy
  <2>1. q \in beyond /\ \A y \in beyond : q <= y
    BY <1>4, <1>5, <1>8, MinOfNaturals, Zenon
  <2>2. \A r \in beyond : r = q \/ q < r
    BY <1>4, <2>1
  <2>3. q \in Prices /\ q # NoPrice /\ \A r \in Prices : r # NoPrice
    BY <1>1, <1>2, <1>4, <2>1
  <2> QED BY <1>2, <1>4, <1>6, <1>8, <2>1, <2>2, <2>3, Zenon DEF Better, q
<1>9. CASE beyond # {} /\ ~p.isBuy
  <2>1. PICK n \in Nat : \A y \in beyond : y <= n
    BY <1>4, FiniteBounded
  <2>2. q \in beyond /\ \A y \in beyond : y <= q
    BY <1>4, <1>5, <1>9, <2>1, MaxOfNaturals, Zenon
  <2>3. \A r \in beyond : r = q \/ q > r
    BY <1>4, <2>2
  <2>4. q \in Prices /\ q # NoPrice /\ \A r \in Prices : r # NoPrice
    BY <1>1, <1>2, <1>4, <2>2
  <2> QED BY <1>2, <1>4, <1>6, <1>9, <2>2, <2>3, <2>4, Zenon DEF Better, q
<1> QED BY <1>7, <1>8, <1>9 DEF q

-----------------------------------------------------------------------------
(* One step of the match loop. *)

\* Products of naturals are naturals.
LEMMA ProductNatural == \A x, y \in Nat : x * y \in Nat
OBVIOUS

\* The integer division of the contract stays in the naturals.
LEMMA QuotientNatural == \A x \in Nat : \A y \in Nat \ {0} : x \div y \in Nat
OBVIOUS

\* A trade never exceeds the resting order; only a quote can be too small for it.
LEMMA TradeSizeBounds ==
  ASSUME NEW p, NEW remaining \in Nat, NEW amount \in Nat \ {0}, NEW price \in Prices
  PROVE  LET trade == TradeSize(p, remaining, amount, price) IN
         /\ trade \in Nat /\ trade <= amount
         /\ ~IsMarketBuy(p) => trade = IF remaining <= amount THEN remaining ELSE amount
         /\ IsMarketBuy(p) => Notional(trade, price) <= remaining
<1> DEFINE afford == (remaining * FULL_PERCENT) \div price
<1>1. price \in Nat \ {0} /\ FULL_PERCENT \in Nat
  BY MatchingAssumption
<1>2. afford \in Nat
  <2>1. remaining * FULL_PERCENT \in Nat
    BY <1>1, ProductNatural
  <2> HIDE DEF afford
  <2> QED BY <1>1, <2>1, QuotientNatural DEF afford
<1>3. TradeSize(p, remaining, amount, price)
        = IF IsMarketBuy(p) THEN Min({amount, afford}) ELSE Min({remaining, amount})
  BY DEF TradeSize
<1> HIDE DEF afford
<1>4. /\ Min({amount, afford}) = IF amount <= afford THEN amount ELSE afford
      /\ Min({remaining, amount}) = IF remaining <= amount THEN remaining ELSE amount
  BY <1>2, MinOfTwo
<1>5. ASSUME NEW trade \in Nat, trade <= afford PROVE Notional(trade, price) <= remaining
  <2> DEFINE a == trade * price
             all == remaining * FULL_PERCENT
  <2>1. a \in Nat /\ all \in Nat
    BY <1>1, MulNat
  <2>2. price * afford <= all
    <3> HIDE DEF all
    <3> QED BY <1>1, <2>1, DivBounds DEF afford, all
  <2>3. a <= price * afford
    BY <1>1, <1>2, <1>5, SMT
  <2>4. price * afford \in Nat
    BY <1>1, <1>2, MulNat
  <2>5. all = FULL_PERCENT * remaining
    BY <1>1, SMT
  <2> HIDE DEF a, all
  <2>6. a <= FULL_PERCENT * remaining
    BY <2>1, <2>2, <2>3, <2>4, <2>5
  <2>7. a \div FULL_PERCENT <= remaining
    BY <2>1, <2>6, DivWithin, MatchingAssumption
  <2> QED BY <2>7 DEF Notional, a
<1>6. CASE IsMarketBuy(p)
  <2> DEFINE trade == TradeSize(p, remaining, amount, price)
  <2>1. trade \in Nat /\ trade <= amount /\ trade <= afford
    BY <1>2, <1>3, <1>4, <1>6
  <2> HIDE DEF trade
  <2>2. Notional(trade, price) <= remaining
    BY <1>5, <2>1
  <2> QED BY <1>6, <2>1, <2>2 DEF trade
<1>7. CASE ~IsMarketBuy(p)
  BY <1>3, <1>4, <1>7
<1> QED BY <1>6, <1>7

\* The quote value of a trade is a natural.
LEMMA NotionalNatural == \A a, q \in Nat : Notional(a, q) \in Nat
<1> TAKE a, q \in Nat
<1>1. FULL_PERCENT \in Nat \ {0} /\ a * q \in Nat
  BY MatchingAssumption, ProductNatural
<1> DEFINE x == a * q
<1> HIDE DEF x
<1> QED BY <1>1, QuotientNatural DEF x, Notional

\* The state of the loop over book b0: the orders still to visit are of the level
\* at price and in its order, and that level crosses.
Walking(t, b0, s) ==
  /\ s = [b |-> s.b, fees |-> s.fees, msgs |-> s.msgs, filled |-> s.filled,
          remaining |-> s.remaining, price |-> s.price, todo |-> s.todo,
          matches |-> s.matches, stop |-> s.stop]
  /\ Agrees(s.b) /\ Within(s.b, b0)
  /\ s.filled \in Nat /\ s.remaining \in Nat /\ s.matches \in Nat
  /\ s.stop \in {"go", "done", "cap", "dust"}
  /\ s.stop \in {"cap", "dust"} => s.remaining > 0
  /\ s.price \in Prices \cup {NoPrice} /\ s.todo \in Seq(Nat)
  /\ s.price = NoPrice => s.todo = <<>>
  /\ s.price # NoPrice =>
       /\ PricesCross(t.op, s.price)
       /\ \E S \in SUBSET AtLevel(s.b, Opp(t.op, s.price)) : InOrder(s.todo, S)

LevelEmpty(b, p, q) == b.levels[Opp(p, q)].fifo = <<>>

\* Every level the walk has passed is used up, and so is what it visited of the
\* level it is at.  A market buy may leave a maker behind it that it cannot pay.
Exhausts(t, s) ==
  (~IsMarketBuy(t.op) /\ s.remaining > 0) =>
    /\ s.stop # "dust"
    /\ s.stop = "go" =>
         /\ s.price # NoPrice => s.b.levels[Opp(t.op, s.price)].fifo = s.todo
         /\ \A q \in Prices : Better(t.op, q, s.price) => LevelEmpty(s.b, t.op, q)
    /\ s.stop = "done" =>
         \A q \in Prices : PricesCross(t.op, q) => LevelEmpty(s.b, t.op, q)

\* The two callbacks of a match.
MakerFill(t, maker, id, trade) ==
  FilledMsg(maker.owner, id, maker.isBuy, t.op.book, trade, maker.price, 0, FALSE,
            maker.amount = trade)
TakerFill(t, price, trade, isFinal) ==
  FilledMsg(t.owner, t.id, t.op.isBuy, t.op.book, trade, price,
            IF t.op.isBuy /\ ~IsMarket(t.op) THEN Notional(trade, t.op.price - price) ELSE 0,
            TRUE, isFinal)
Spent(t, price, trade) == IF IsMarketBuy(t.op) THEN Notional(trade, price) ELSE trade

\* Order i of book b is to be matched before order j.
Ahead(b, i, j) ==
  LET o == b.orders[i] p == b.orders[j] IN
  /\ o.book = p.book /\ o.isBuy = p.isBuy
  /\ \/ IF o.isBuy THEN o.price > p.price ELSE o.price < p.price
     \/ o.price = p.price /\ i < j

\* Taker t has traded with resting order id, the first there is; a market buy may
\* have passed makers it cannot pay.
Matched(t, s, s2, id, trade) ==
  LET maker == s.b.orders[id]
      spent == Spent(t, maker.price, trade)
  IN /\ s.remaining > 0 /\ s2.stop = "go"
     /\ id \in DOMAIN s.b.orders /\ LevelOf(maker) = Opp(t.op, maker.price)
     /\ PricesCross(t.op, maker.price)
     /\ trade \in Nat \ {0} /\ trade <= maker.amount
     /\ spent \in Nat /\ spent <= s.remaining
     /\ s2.remaining = s.remaining - spent /\ s2.filled = s.filled + trade
     /\ s2.msgs = s.msgs \o <<MakerFill(t, maker, id, trade),
                               TakerFill(t, maker.price, trade, spent = s.remaining)>>
     /\ DOMAIN s2.b.orders = IF maker.amount = trade THEN DOMAIN s.b.orders \ {id}
                             ELSE DOMAIN s.b.orders
     /\ \A i \in DOMAIN s2.b.orders :
          s2.b.orders[i] = IF i = id THEN Reduced(maker, trade) ELSE s.b.orders[i]
     /\ ~IsMarketBuy(t.op) => \A i \in DOMAIN s.b.orders : ~Ahead(s.b, i, id)

\* One step of the loop: it has stopped, or made a match.
Steps(t, s, s2) ==
  \/ /\ s2.b = s.b /\ s2.msgs = s.msgs /\ s2.remaining = s.remaining
     /\ s2.filled = s.filled /\ s2.stop # "go"
  \/ \E id, trade : Matched(t, s, s2, id, trade)

\* What a step of the walk of t over b0 that goes on leaves.
Advanced(t, b0, s, s2) ==
  /\ Walking(t, b0, s2) /\ Exhausts(t, s2) /\ Steps(t, s, s2)
  /\ s2.stop = "go" => s2.matches = s.matches + 1

\* The first order of the best level with orders comes first.
LEMMA FirstIsAhead ==
  ASSUME NEW b, Agrees(b), NEW p, p.isBuy \in BOOLEAN, p.book \in Books,
         NEW price \in Prices, b.levels[Opp(p, price)].fifo # <<>>,
         \A q \in Prices : Better(p, q, price) => LevelEmpty(b, p, q)
  PROVE  \A i \in DOMAIN b.orders : ~Ahead(b, i, Head(b.levels[Opp(p, price)].fifo))
<1> DEFINE key == Opp(p, price)
           id == Head(b.levels[key].fifo)
           maker == b.orders[id]
<1>1. \A q \in Prices : /\ Opp(p, q) \in LevelKeys
                        /\ b.levels[Opp(p, q)].fifo \in Seq(Nat)
                        /\ InOrder(b.levels[Opp(p, q)].fifo, AtLevel(b, Opp(p, q)))
  <2> SUFFICES ASSUME NEW q \in Prices
               PROVE  /\ Opp(p, q) \in LevelKeys
                      /\ b.levels[Opp(p, q)].fifo \in Seq(Nat)
                      /\ InOrder(b.levels[Opp(p, q)].fifo, AtLevel(b, Opp(p, q)))
    OBVIOUS
  <2>1. Opp(p, q) \in LevelKeys
    BY Zenon DEF Opp, LevelKeys
  <2> QED BY <2>1 DEF Agrees, IsBook, LevelRec, LevelAgrees
<1>2. id \in AtLevel(b, key) /\ \A i \in AtLevel(b, key) : id <= i /\ i \in Nat
  <2> DEFINE l == b.levels[key].fifo
  <2>1. l \in Seq(Nat) /\ InOrder(l, AtLevel(b, key)) /\ l # <<>>
    BY <1>1
  <2> HIDE DEF l
  <2>2. DOMAIN l = 1..Len(l) /\ Len(l) \in Nat /\ 1 \in 1..Len(l) /\ Head(l) = l[1]
        /\ \A k \in 1..Len(l) : l[k] \in Nat
    BY <2>1, LenProperties, EmptySeq, HeadTailProperties, ElementOfSeq
  <2>3. \A k \in 1..Len(l) : k = 1 \/ 1 < k
    BY <2>2
  <2>4. \A k \in 1..Len(l) : Head(l) <= l[k]
    BY <2>1, <2>2, <2>3 DEF InOrder
  <2>5. \A i \in AtLevel(b, key) : \E k \in 1..Len(l) : l[k] = i
    BY <2>1, <2>2 DEF InOrder
  <2>6. Head(l) \in AtLevel(b, key)
    BY <2>1, <2>2 DEF InOrder
  <2> QED BY <2>2, <2>4, <2>5, <2>6 DEF l
<1> HIDE DEF id
<1>3. /\ id \in DOMAIN b.orders /\ maker.price = price /\ maker.book = p.book
      /\ maker.isBuy = ~p.isBuy /\ id \in Nat
  BY <1>2 DEF AtLevel, LevelOf, Opp
<1>4. price \in Nat /\ price # NoPrice
  BY MatchingAssumption DEF NoPrice
<1>5. ASSUME NEW i \in DOMAIN b.orders, Ahead(b, i, id) PROVE FALSE
  <2> DEFINE o == b.orders[i]
  <2>1. o \in OrderRec
    BY DEF Agrees, IsBook
  <2>2. o.price \in Prices /\ o.price \in Nat
    BY <2>1, MatchingAssumption, Zenon DEF OrderRec
  <2>3. i \in AtLevel(b, Opp(p, o.price))
    BY <1>3, <1>5 DEF AtLevel, LevelOf, Opp, Ahead
  <2>4. ~LevelEmpty(b, p, o.price)
    <3> DEFINE l == b.levels[Opp(p, o.price)].fifo
    <3>1. l \in Seq(Nat) /\ InOrder(l, AtLevel(b, Opp(p, o.price)))
      BY <1>1, <2>2
    <3> HIDE DEF l, o
    <3>2. l # <<>>
      BY <2>3, <3>1, HeadInOrder, Zenon
    <3> QED BY <3>2 DEF LevelEmpty, l
  <2>5. CASE o.price = price
    <3>1. i \in AtLevel(b, key) /\ i < id
      BY <1>3, <1>5, <2>2, <2>3, <2>5 DEF Ahead
    <3> QED BY <1>2, <1>3, <3>1
  <2>6. CASE o.price # price
    <3>1. IF o.isBuy THEN o.price > price ELSE o.price < price
      BY <1>3, <1>5, <2>6 DEF Ahead
    <3>2. o.isBuy = ~p.isBuy
      BY <1>3, <1>5 DEF Ahead
    <3>3. Better(p, o.price, price)
      BY <1>4, <3>1, <3>2, Zenon DEF Better
    <3> QED BY <2>2, <2>4, <3>3
  <2> QED BY <2>5, <2>6
<1> QED BY <1>5 DEF id

\* One fill at a level: price is the level, todo what is to visit there.
LEMMA FillKeeps ==
  ASSUME NEW t, IsTaker(t), NEW b0, NEW s, Walking(t, b0, s),
         NEW price \in Prices, PricesCross(t.op, price),
         NEW todo \in Seq(Nat), todo # <<>>,
         NEW S \in SUBSET AtLevel(s.b, Opp(t.op, price)), InOrder(todo, S),
         s.stop = "go", s.remaining > 0,
         ~IsMarketBuy(t.op) =>
           /\ s.b.levels[Opp(t.op, price)].fifo = todo
           /\ \A q \in Prices : Better(t.op, q, price) => LevelEmpty(s.b, t.op, q)
  PROVE  Advanced(t, b0, s, Fill(t, s, todo, price,
           TradeSize(t.op, s.remaining, s.b.orders[Head(todo)].amount, price)))
<1> DEFINE b == s.b
           id == Head(todo)
           maker == b.orders[id]
           key == Opp(t.op, price)
           trade == TradeSize(t.op, s.remaining, maker.amount, price)
           spent == IF IsMarketBuy(t.op) THEN Notional(trade, price) ELSE trade
           fee == TakerFee(Notional(trade, price))
           s2 == Fill(t, s, todo, price, trade)
<1>1. /\ Agrees(b) /\ Within(b, b0) /\ IsBook(b)
      /\ s.filled \in Nat /\ s.remaining \in Nat /\ s.matches \in Nat
      /\ s = [b |-> s.b, fees |-> s.fees, msgs |-> s.msgs, filled |-> s.filled,
              remaining |-> s.remaining, price |-> s.price, todo |-> s.todo,
              matches |-> s.matches, stop |-> s.stop]
  BY DEF Walking, Agrees
<1>2. key \in LevelKeys /\ price \in Nat /\ price # NoPrice
  BY MatchingAssumption, Zenon DEF IsTaker, Opp, LevelKeys, NoPrice
<1>3. id \in S /\ Tail(todo) \in Seq(Nat) /\ InOrder(Tail(todo), S \ {id})
      /\ Unlink(todo, id) = Tail(todo)
  BY HeadInOrder, Zenon
<1>4. id \in DOMAIN b.orders /\ LevelOf(maker) = key /\ maker \in OrderRec
      /\ maker.amount \in Nat \ {0}
  <2>1. id \in AtLevel(b, key)
    BY <1>3
  <2>2. id \in DOMAIN b.orders /\ LevelOf(maker) = key
    BY <2>1 DEF AtLevel
  <2> QED BY <1>1, <2>1, <2>2, TotalType
<1>5. /\ trade \in Nat /\ trade <= maker.amount
      /\ ~IsMarketBuy(t.op) => trade = IF s.remaining <= maker.amount
                                       THEN s.remaining ELSE maker.amount
      /\ IsMarketBuy(t.op) => Notional(trade, price) <= s.remaining
  <2> DEFINE m == maker.amount
             d == TradeSize(t.op, s.remaining, m, price)
  <2>1. m \in Nat \ {0}
    BY <1>4
  <2> HIDE DEF m
  <2>2. /\ d \in Nat /\ d <= m
        /\ ~IsMarketBuy(t.op) => d = IF s.remaining <= m THEN s.remaining ELSE m
        /\ IsMarketBuy(t.op) => Notional(d, price) <= s.remaining
    BY <1>1, <2>1, TradeSizeBounds
  <2> QED BY <2>2 DEF m
<1> HIDE DEF b, id, trade
<1>6. CASE trade = 0
  <2>1. IsMarketBuy(t.op)
    BY <1>1, <1>4, <1>5, <1>6
  <2>2. s2 = [s EXCEPT !.stop = "dust"]
    BY <1>6 DEF Fill
  <2>3. s2 = [b |-> s.b, fees |-> s.fees, msgs |-> s.msgs, filled |-> s.filled,
              remaining |-> s.remaining, price |-> s.price, todo |-> s.todo,
              matches |-> s.matches, stop |-> "dust"]
    BY <1>1, <2>2
  <2> HIDE DEF s2
  <2>4. Walking(t, b0, s2)
    BY <2>3 DEF Walking
  <2>5. Exhausts(t, s2) /\ s2.stop # "go"
    BY <2>1, <2>3 DEF Exhausts
  <2>6. Steps(t, s, s2)
    BY <2>3 DEF Steps
  <2> QED BY <2>4, <2>5, <2>6, Zenon DEF Advanced, s2, trade, b, id
<1>7. CASE trade # 0
  <2> DEFINE c == IF maker.amount = trade THEN RemoveFromBook(b, id)
                  ELSE ReduceOrder(b, id, trade)
             left == Max({0, s.remaining - spent})
  <2>1. s2 = Trade(t, s, id, maker, trade, price, spent, fee, Tail(todo))
    BY <1>7 DEF Fill, id, b
  <2>2. /\ s2 = [b |-> s2.b, fees |-> s2.fees, msgs |-> s2.msgs, filled |-> s2.filled,
                 remaining |-> s2.remaining, price |-> s2.price, todo |-> s2.todo,
                 matches |-> s2.matches, stop |-> s2.stop]
        /\ s2.b = c /\ s2.remaining = left /\ s2.filled = s.filled + trade
        /\ s2.price = price /\ s2.todo = Tail(todo) /\ s2.matches = s.matches + 1
        /\ s2.stop = "go"
    BY <2>1 DEF Trade, b
  <2>9. s2.msgs = s.msgs \o <<MakerFill(t, maker, id, trade),
                              TakerFill(t, maker.price, trade, spent = s.remaining)>>
    <3>1. maker.price = price
      BY <1>4 DEF LevelOf, Opp
    <3> HIDE DEF maker, spent, fee, s2
    <3>2. Trade(t, s, id, maker, trade, price, spent, fee, Tail(todo)).msgs
            = s.msgs \o <<MakerFill(t, maker, id, trade),
                          TakerFill(t, maker.price, trade, spent = s.remaining)>>
      BY <3>1, Zenon DEF Trade, MakerFill, TakerFill
    <3> QED BY <2>1, <3>2
  <2> HIDE DEF s2
  <2>3. spent \in Nat /\ (~IsMarketBuy(t.op) => spent = trade)
    BY <1>2, <1>5, NotionalNatural
  <2> HIDE DEF spent
  <2>4. left \in Nat /\ (spent <= s.remaining => left = s.remaining - spent)
    <3>1. 0 \in Int /\ s.remaining - spent \in Int
      BY <1>1, <2>3
    <3>2. left = IF 0 >= s.remaining - spent THEN 0 ELSE s.remaining - spent
      BY <3>1, MaxOfTwo
    <3> QED BY <1>1, <2>3, <3>2
  <2> HIDE DEF left
  <2>5. Agrees(c) /\ Within(c, b) /\ AtLevel(b, key) \ {id} \subseteq AtLevel(c, key)
    <3>1. CASE maker.amount = trade
      <4>1. /\ Agrees(c) /\ Within(c, b) /\ DOMAIN c.orders = DOMAIN b.orders \ {id}
            /\ \A i \in DOMAIN b.orders \ {id} : c.orders[i] = b.orders[i]
        BY <1>1, <3>1, RemoveWithin
      <4> QED BY <4>1, Zenon DEF AtLevel
    <3>2. CASE maker.amount # trade
      <4>1. c = ReduceOrder(b, id, trade) /\ trade < maker.amount
        BY <1>4, <1>5, <3>2, SMTT(30)
      <4>2. /\ Agrees(c) /\ Within(c, b) /\ DOMAIN c.orders = DOMAIN b.orders
            /\ \A i \in DOMAIN b.orders \ {id} : c.orders[i] = b.orders[i]
        BY <1>1, <1>4, <1>5, <4>1, ReduceKeeps, ReduceWithin
      <4> QED BY <4>2 DEF AtLevel
    <3> QED BY <3>1, <3>2, Zenon
  <2>6. \A k \in LevelKeys : c.levels[k].fifo
          = IF maker.amount = trade /\ k = key THEN Unlink(b.levels[k].fifo, id)
            ELSE b.levels[k].fifo
    <3>1. CASE maker.amount = trade
      BY <1>1, <1>4, <3>1, RemoveKeeps
    <3>2. CASE maker.amount # trade
      <4>1. c = ReduceOrder(b, id, trade) /\ trade < maker.amount
        BY <1>4, <1>5, <3>2
      <4> QED BY <1>1, <1>4, <1>5, <3>2, <4>1, ReduceKeeps
    <3> QED BY <3>1, <3>2, Zenon
  <2> HIDE DEF c
  <2>7. Walking(t, b0, s2)
    <3>1. Within(c, b0)
      BY <1>1, <2>5, WithinOrder
    <3>2. S \ {id} \in SUBSET AtLevel(c, key)
      BY <2>5 DEF b
    <3>3. s.filled + trade \in Nat /\ s.matches + 1 \in Nat
      BY <1>1, <1>5
    <3> QED BY <1>2, <1>3, <2>2, <2>4, <2>5, <3>1, <3>2, <3>3, Zenon DEF Walking
  <2>8. Exhausts(t, s2)
    <3> SUFFICES ASSUME ~IsMarketBuy(t.op), left > 0
                 PROVE  /\ c.levels[key].fifo = Tail(todo)
                        /\ \A q \in Prices : Better(t.op, q, price) => LevelEmpty(c, t.op, q)
      BY <2>2, Zenon DEF Exhausts
    <3>1. maker.amount = trade
      BY <1>1, <1>4, <1>5, <2>3, <2>4
    <3>2. c.levels[key].fifo = Tail(todo)
      BY <1>2, <1>3, <2>6, <3>1, Zenon DEF b
    <3>3. ASSUME NEW q \in Prices, Better(t.op, q, price) PROVE LevelEmpty(c, t.op, q)
      <4>1. Opp(t.op, q) \in LevelKeys
        BY Zenon DEF Opp, LevelKeys, IsTaker
      <4>2. q # price
        BY <1>2, <3>3, MatchingAssumption DEF Better
      <4>3. Opp(t.op, q) # key
        BY <4>2 DEF Opp
      <4>4. b.levels[Opp(t.op, q)].fifo = <<>>
        BY <3>3 DEF LevelEmpty, b
      <4> QED BY <2>6, <4>1, <4>3, <4>4 DEF LevelEmpty
    <3> QED BY <3>2, <3>3
  <2>10. /\ DOMAIN c.orders = IF maker.amount = trade THEN DOMAIN b.orders \ {id}
                             ELSE DOMAIN b.orders
         /\ \A i \in DOMAIN c.orders :
              c.orders[i] = IF i = id THEN Reduced(maker, trade) ELSE b.orders[i]
    <3>1. CASE maker.amount = trade
      <4>1. /\ DOMAIN c.orders = DOMAIN b.orders \ {id}
            /\ \A i \in DOMAIN b.orders \ {id} : c.orders[i] = b.orders[i]
        BY <1>1, <1>4, <3>1, RemoveKeeps DEF c
      <4> QED BY <3>1, <4>1
    <3>2. CASE maker.amount # trade
      <4>1. c = ReduceOrder(b, id, trade) /\ trade < maker.amount
        BY <1>4, <1>5, <3>2 DEF c
      <4>2. /\ DOMAIN c.orders = DOMAIN b.orders
            /\ \A i \in DOMAIN b.orders :
                 c.orders[i] = IF i = id THEN Reduced(maker, trade) ELSE b.orders[i]
        BY <1>1, <1>4, <1>5, <4>1, ReduceKeeps
      <4> QED BY <3>2, <4>2, Zenon
    <3> QED BY <3>1, <3>2
  <2>11. spent = Spent(t, maker.price, trade) /\ spent <= s.remaining
    <3>1. maker.price = price
      BY <1>4 DEF LevelOf, Opp
    <3> QED BY <1>1, <1>4, <1>5, <3>1 DEF spent, Spent
  <2>14. ~IsMarketBuy(t.op) => \A i \in DOMAIN b.orders : ~Ahead(b, i, id)
    <3> SUFFICES ASSUME ~IsMarketBuy(t.op)
                 PROVE  \A i \in DOMAIN b.orders : ~Ahead(b, i, id)
      OBVIOUS
    <3>1. b.levels[Opp(t.op, price)].fifo = todo
          /\ \A q \in Prices : Better(t.op, q, price) => LevelEmpty(b, t.op, q)
      BY DEF b
    <3>2. t.op.isBuy \in BOOLEAN /\ t.op.book \in Books
      BY DEF IsTaker
    <3> HIDE DEF b
    <3> QED BY <1>1, <3>1, <3>2, FirstIsAhead DEF id
  <2>12. Matched(t, s, s2, id, trade)
    <3>1. maker.price = price
      BY <1>4 DEF LevelOf, Opp
    <3>2. trade \in Nat \ {0} /\ left = s.remaining - spent
      BY <1>5, <1>7, <2>4, <2>11
    <3> HIDE DEF fee
    <3> QED BY <1>4, <1>5, <2>2, <2>3, <2>9, <2>10, <2>11, <2>14, <3>1, <3>2, Zenon DEF Matched, b
  <2>13. Steps(t, s, s2)
    BY <2>12 DEF Steps
  <2> QED BY <2>2, <2>7, <2>8, <2>13, Zenon DEF Advanced, s2, trade, b, id
<1> QED BY <1>6, <1>7

\* The walk ends, or fills one order, at the level it is at or enters.
LEMMA StepKeeps ==
  ASSUME NEW t, IsTaker(t), NEW b0, NEW s, Walking(t, b0, s), Exhausts(t, s)
  PROVE  LET s2 == MatchStep(t, s) IN
         /\ Walking(t, b0, s2) /\ Exhausts(t, s2)
         /\ s2 = s \/ Steps(t, s, s2)
         /\ s2.stop = "go" =>
              s.stop = "go" /\ s2.matches = s.matches + 1 /\ s.matches < MAX_MATCHES_PER_CALL
<1> DEFINE Stopped(r) == [s EXCEPT !.stop = r]
           Good(s2) == /\ Walking(t, b0, s2) /\ Exhausts(t, s2)
                       /\ s2 = s \/ Steps(t, s, s2)
                       /\ s2.stop = "go" => s.stop = "go" /\ s2.matches = s.matches + 1
                                            /\ s.matches < MAX_MATCHES_PER_CALL
<1>1. /\ s = [b |-> s.b, fees |-> s.fees, msgs |-> s.msgs, filled |-> s.filled,
              remaining |-> s.remaining, price |-> s.price, todo |-> s.todo,
              matches |-> s.matches, stop |-> s.stop]
      /\ Agrees(s.b) /\ IsBook(s.b)
      /\ s.price \in Prices \cup {NoPrice} /\ s.todo \in Seq(Nat)
      /\ s.matches \in Nat /\ s.remaining \in Nat
  BY DEF Walking, Agrees
<1>2. ASSUME NEW r \in {"done", "cap"}, r = "cap" => s.remaining > 0,
             r = "done" => \A q \in Prices : (~IsMarketBuy(t.op) /\ s.remaining > 0 /\
                             PricesCross(t.op, q)) => LevelEmpty(s.b, t.op, q)
      PROVE  Good(Stopped(r))
  <2> DEFINE s2 == Stopped(r)
  <2>1. s2 = [b |-> s.b, fees |-> s.fees, msgs |-> s.msgs, filled |-> s.filled,
              remaining |-> s.remaining, price |-> s.price, todo |-> s.todo,
              matches |-> s.matches, stop |-> r]
    BY <1>1
  <2> HIDE DEF s2
  <2>2. Walking(t, b0, s2)
    BY <1>2, <2>1 DEF Walking
  <2>3. Exhausts(t, s2)
    BY <1>2, <2>1, Zenon DEF Exhausts
  <2>4. s2.stop # "go" /\ Steps(t, s, s2)
    BY <2>1 DEF Steps
  <2> QED BY <2>2, <2>3, <2>4 DEF s2
<1>3. ASSUME NEW price \in Prices, NEW todo \in Seq(Nat), todo # <<>>, s.stop = "go",
             PricesCross(t.op, price) \/ s.remaining = 0,
             \E S \in SUBSET AtLevel(s.b, Opp(t.op, price)) : InOrder(todo, S),
             (~IsMarketBuy(t.op) /\ s.remaining > 0) =>
               /\ s.b.levels[Opp(t.op, price)].fifo = todo
               /\ \A q \in Prices : Better(t.op, q, price) => LevelEmpty(s.b, t.op, q)
      PROVE  Good(MatchAt(t, s, price, todo))
  <2>1. CASE s.remaining = 0
    <3>1. MatchAt(t, s, price, todo) = Stopped("done")
      BY <2>1 DEF MatchAt
    <3>2. Good(Stopped("done"))
      BY <1>2, <2>1
    <3> QED BY <3>1, <3>2
  <2>2. CASE s.remaining # 0 /\ s.matches >= MAX_MATCHES_PER_CALL
    <3>1. price # NoPrice
      BY MatchingAssumption DEF NoPrice
    <3>2. MatchAt(t, s, price, todo) = Stopped("cap")
      BY <1>3, <2>2, <3>1 DEF MatchAt
    <3>3. s.remaining > 0
      BY <1>1, <2>2
    <3>4. Good(Stopped("cap"))
      BY <1>2, <3>3
    <3> QED BY <3>2, <3>4
  <2>3. CASE s.remaining # 0 /\ ~(s.matches >= MAX_MATCHES_PER_CALL)
    <3> DEFINE trade == TradeSize(t.op, s.remaining, s.b.orders[Head(todo)].amount, price)
               s2 == Fill(t, s, todo, price, trade)
    <3>1. price # NoPrice
      BY MatchingAssumption DEF NoPrice
    <3>2. MatchAt(t, s, price, todo) = s2
      BY <1>3, <2>3, <3>1 DEF MatchAt
    <3>3. s.remaining > 0 /\ s.matches < MAX_MATCHES_PER_CALL
      BY <1>1, <2>3, MatchingAssumption
    <3>4. PICK S \in SUBSET AtLevel(s.b, Opp(t.op, price)) : InOrder(todo, S)
      BY <1>3
    <3>5. PricesCross(t.op, price)
      BY <1>3, <2>3
    <3>6. Advanced(t, b0, s, s2)
      <4>1. ~IsMarketBuy(t.op) =>
              /\ s.b.levels[Opp(t.op, price)].fifo = todo
              /\ \A q \in Prices : Better(t.op, q, price) => LevelEmpty(s.b, t.op, q)
        BY <1>3, <3>3
      <4> QED BY <1>3, <3>3, <3>4, <3>5, <4>1, FillKeeps, Zenon
    <3> HIDE DEF s2
    <3> QED BY <1>3, <3>2, <3>3, <3>6, Zenon DEF Advanced
  <2> QED BY <2>1, <2>2, <2>3
<1>4. CASE s.stop # "go"
  <2>1. MatchStep(t, s) = s
    BY <1>4 DEF MatchStep
  <2> QED BY <1>4, <2>1
<1>5. CASE s.stop = "go" /\ s.todo # <<>>
  <2>1. MatchStep(t, s) = MatchAt(t, s, s.price, s.todo)
    BY <1>5 DEF MatchStep
  <2>2. /\ s.price # NoPrice /\ s.price \in Prices /\ PricesCross(t.op, s.price)
        /\ \E S \in SUBSET AtLevel(s.b, Opp(t.op, s.price)) : InOrder(s.todo, S)
    BY <1>1, <1>5 DEF Walking
  <2>3. (~IsMarketBuy(t.op) /\ s.remaining > 0) =>
          /\ s.b.levels[Opp(t.op, s.price)].fifo = s.todo
          /\ \A q \in Prices : Better(t.op, q, s.price) => LevelEmpty(s.b, t.op, q)
    BY <1>5, <2>2 DEF Exhausts
  <2>4. Good(MatchAt(t, s, s.price, s.todo))
    BY <1>1, <1>3, <1>5, <2>2, <2>3
  <2> QED BY <2>1, <2>4
<1>6. CASE s.stop = "go" /\ s.todo = <<>>
  <2> DEFINE q == NextOpposite(s.b, t.op, s.price)
             todo == s.b.levels[Opp(t.op, q)].fifo
  <2>1. MatchStep(t, s) = MatchAt(t, s, q, todo)
    BY <1>6 DEF MatchStep, EnterLevel, Opp
  <2>2. /\ q # NoPrice => q \in Prices /\ todo # <<>>
        /\ \A r \in Prices :
              (~LevelEmpty(s.b, t.op, r) /\ r # s.price /\ ~Better(t.op, r, s.price))
              => q # NoPrice /\ (r = q \/ Better(t.op, q, r))
    BY <1>1, NextIsBest DEF IsTaker, LevelEmpty
  <2> HIDE DEF q
  \* What the walk has passed is used up, so q is the first level with orders.
  <2>3. ASSUME ~IsMarketBuy(t.op), s.remaining > 0, NEW r \in Prices,
               ~LevelEmpty(s.b, t.op, r)
        PROVE  q # NoPrice /\ (r = q \/ Better(t.op, q, r))
    <3>1. r # NoPrice
      BY MatchingAssumption DEF NoPrice
    <3>2. r # s.price
      BY <1>6, <2>3, <3>1 DEF Exhausts, LevelEmpty
    <3>3. ~Better(t.op, r, s.price)
      BY <1>6, <2>3 DEF Exhausts
    <3> QED BY <2>2, <2>3, <3>2, <3>3
  <2>4. CASE s.remaining = 0 \/ q = NoPrice \/ ~PricesCross(t.op, q)
    <3>1. MatchAt(t, s, q, todo) = Stopped("done")
      BY <2>4, Zenon DEF MatchAt
    <3>2. ASSUME NEW r \in Prices, ~IsMarketBuy(t.op), s.remaining > 0, PricesCross(t.op, r)
          PROVE  LevelEmpty(s.b, t.op, r)
      <4> SUFFICES ASSUME ~LevelEmpty(s.b, t.op, r) PROVE FALSE
        OBVIOUS
      <4>1. q # NoPrice /\ (r = q \/ Better(t.op, q, r)) /\ q \in Prices
        BY <2>2, <2>3, <3>2
      <4>2. ~PricesCross(t.op, q)
        BY <1>1, <2>4, <3>2, <4>1
      <4>3. ~IsMarket(t.op) /\ t.op.price \in Prices
        BY <4>2 DEF PricesCross, IsTaker
      <4>4. r \in Nat /\ q \in Nat /\ t.op.price \in Nat
        BY <4>1, <4>3, MatchingAssumption, Zenon
      <4> QED BY <3>2, <4>1, <4>2, <4>3, <4>4 DEF PricesCross, Better
    <3>3. Good(Stopped("done"))
      BY <1>2, <3>2
    <3> QED BY <2>1, <3>1, <3>3
  <2>5. CASE ~(s.remaining = 0 \/ q = NoPrice \/ ~PricesCross(t.op, q))
    <3>1. q \in Prices /\ todo # <<>> /\ PricesCross(t.op, q)
      BY <2>2, <2>5
    <3>2. Opp(t.op, q) \in LevelKeys
      BY <3>1, Zenon DEF IsTaker, Opp, LevelKeys
    <3>3. todo \in Seq(Nat) /\ InOrder(todo, AtLevel(s.b, Opp(t.op, q)))
      BY <1>1, <3>2 DEF IsBook, LevelRec, Agrees, LevelAgrees
    <3>4. ASSUME ~IsMarketBuy(t.op), s.remaining > 0, NEW r \in Prices, Better(t.op, r, q)
          PROVE  LevelEmpty(s.b, t.op, r)
      <4> SUFFICES ASSUME ~LevelEmpty(s.b, t.op, r) PROVE FALSE
        OBVIOUS
      <4>1. r = q \/ Better(t.op, q, r)
        BY <2>3, <3>4
      <4>2. r \in Nat /\ q \in Nat
        BY <3>1, MatchingAssumption
      <4> QED BY <3>4, <4>1, <4>2 DEF Better
    <3>5. Good(MatchAt(t, s, q, todo))
      <4>1. \E S \in SUBSET AtLevel(s.b, Opp(t.op, q)) : InOrder(todo, S)
        BY <3>3
      <4>2. (~IsMarketBuy(t.op) /\ s.remaining > 0) =>
              /\ s.b.levels[Opp(t.op, q)].fifo = todo
              /\ \A r \in Prices : Better(t.op, r, q) => LevelEmpty(s.b, t.op, r)
        BY <3>4
      <4> HIDE DEF todo, Good
      <4> QED BY <1>3, <1>6, <3>1, <3>3, <4>1, <4>2
    <3> QED BY <2>1, <3>5, Zenon
  <2> QED BY <2>4, <2>5
<1> QED BY <1>4, <1>5, <1>6

-----------------------------------------------------------------------------
(* The whole loop. *)

Runs(r, t, start, n) ==
  r = [k \in 0..n |-> IF k = 0 THEN start ELSE MatchStep(t, r[k - 1])]

\* The loop has a state after each number of steps.
LEMMA RunsExist ==
  ASSUME NEW t, NEW start, NEW n \in Nat
  PROVE  \E r : Runs(r, t, start, n)
<1> DEFINE bad == {m \in Nat : ~ \E r : Runs(r, t, start, m)}
<1>1. ASSUME bad # {} PROVE FALSE
  <2>1. PICK m \in bad : \A k \in bad : m <= k
    <3>1. bad \in SUBSET Nat
      OBVIOUS
    <3> HIDE DEF bad
    <3> QED BY <1>1, <3>1, LeastNatural
  <2>2. m \in Nat /\ ~ \E r : Runs(r, t, start, m)
    OBVIOUS
  <2>3. CASE m = 0
    <3> DEFINE r == [k \in 0..0 |-> start]
    <3>1. Runs(r, t, start, 0)
      BY DEF Runs
    <3> QED BY <2>2, <2>3, <3>1
  <2>4. CASE m # 0
    <3>1. m - 1 \in Nat /\ m - 1 \notin bad
      BY <2>1, <2>2, <2>4
    <3>2. PICK r : Runs(r, t, start, m - 1)
      BY <3>1
    <3> DEFINE e(k) == IF k = 0 THEN start ELSE MatchStep(t, r[k - 1])
               r2 == [k \in 0..m |-> e(k)]
    <3>3. \A k \in 0..(m - 1) : r[k] = e(k)
      BY <3>2 DEF Runs
    <3>4. \A k \in 0..m : k # 0 => k - 1 \in 0..(m - 1) /\ k - 1 \in 0..m
      BY <2>2
    <3>5. \A k \in 0..m : r2[k] = e(k)
      OBVIOUS
    <3>6. \A k \in 0..m : k # 0 => r2[k - 1] = r[k - 1]
      <4> HIDE DEF e, r2
      <4> QED BY <3>3, <3>4, <3>5
    <3>7. r2 = [k \in 0..m |-> IF k = 0 THEN start ELSE MatchStep(t, r2[k - 1])]
      <4> DEFINE g(k) == IF k = 0 THEN start ELSE MatchStep(t, r2[k - 1])
      <4>1. \A k \in 0..m : e(k) = g(k)
        <5> HIDE DEF r2
        <5> QED BY <3>6
      <4> HIDE DEF e, g
      <4>2. r2 = [k \in 0..m |-> g(k)]
        BY <4>1
      <4> QED BY <4>2 DEF g
    <3> QED BY <2>2, <3>7, Zenon DEF Runs
  <2> QED BY <2>3, <2>4
<1> QED BY <1>1

StartOf(t, b, fees, filled) ==
  [b |-> b, fees |-> fees, msgs |-> <<>>, filled |-> filled,
   remaining |-> t.op.amount, price |-> NoPrice, todo |-> <<>>,
   matches |-> 0, stop |-> "go"]

\* The local recursion of MatchLoop is that loop.
LEMMA LoopRuns ==
  ASSUME NEW t, NEW b, NEW fees, NEW filled
  PROVE  \E r : /\ Runs(r, t, StartOf(t, b, fees, filled), MAX_MATCHES_PER_CALL + 1)
                /\ MatchLoop(t, b, fees, filled) = r[MAX_MATCHES_PER_CALL + 1]
<1> DEFINE n == MAX_MATCHES_PER_CALL + 1
           r == CHOOSE f : Runs(f, t, StartOf(t, b, fees, filled), n)
<1>1. n \in Nat
  BY MatchingAssumption
<1>2. Runs(r, t, StartOf(t, b, fees, filled), n)
  <2> HIDE DEF n
  <2> QED BY <1>1, RunsExist
<1>3. MatchLoop(t, b, fees, filled) = r[n]
  BY DEF MatchLoop, Runs, StartOf
<1> QED BY <1>2, <1>3, Zenon

\* The states of the loop.  It stops within its cap, and a remainder of it that is
\* no market buy's has met every crossing level.
LoopOf(r, n, t, b, fees, filled) ==
  /\ n \in Nat /\ r[0] = StartOf(t, b, fees, filled) /\ r[n].stop # "go"
  /\ \A k \in 0..n : Walking(t, b, r[k]) /\ Exhausts(t, r[k])
  /\ \A k \in 1..n : r[k] = r[k - 1] \/ Steps(t, r[k - 1], r[k])

\* The whole match loop: a run of steps that each keep the book right.
LEMMA LoopKeeps ==
  ASSUME NEW t, IsTaker(t), NEW b, Agrees(b), NEW fees, NEW filled \in Nat
  PROVE  \E r, n : LoopOf(r, n, t, b, fees, filled) /\ MatchLoop(t, b, fees, filled) = r[n]
<1> DEFINE max == MAX_MATCHES_PER_CALL
           n == max + 1
           start == StartOf(t, b, fees, filled)
           Good(s, k) == /\ Walking(t, b, s) /\ Exhausts(t, s)
                         /\ s.stop = "go" => s.matches = k
<1>1. max \in Nat /\ n \in Nat
  BY MatchingAssumption
<1>2. PICK r : Runs(r, t, start, n) /\ MatchLoop(t, b, fees, filled) = r[n]
  BY LoopRuns
<1> HIDE DEF max
<1>3. r[0] = start /\ \A k \in 1..n : r[k] = MatchStep(t, r[k - 1])
  <2> HIDE DEF start
  <2> QED BY <1>1, <1>2 DEF Runs
<1>4. Good(start, 0)
  <2>1. Walking(t, b, start)
    <3>1. Within(b, b)
      BY DEF Within
    <3>2. t.op.amount \in Nat
      BY DEF IsTaker
    <3>3. /\ start = [b |-> start.b, fees |-> start.fees, msgs |-> start.msgs,
                       filled |-> start.filled, remaining |-> start.remaining,
                       price |-> start.price, todo |-> start.todo,
                       matches |-> start.matches, stop |-> start.stop]
          /\ start.b = b /\ start.filled = filled /\ start.remaining = t.op.amount
          /\ start.price = NoPrice /\ start.todo = <<>> /\ start.matches = 0
          /\ start.stop = "go"
      BY Zenon DEF StartOf
    <3> HIDE DEF start
    <3>4. start.todo \in Seq(Nat)
      BY <3>3
    <3> QED BY <3>1, <3>2, <3>3, <3>4 DEF Walking
  <2>2. Exhausts(t, start)
    BY DEF Exhausts, StartOf, Better
  <2> QED BY <2>1, <2>2 DEF StartOf
<1>5. ASSUME NEW k \in 1..n, Good(r[k - 1], k - 1)
      PROVE  /\ Good(r[k], k) /\ (r[k].stop = "go" => k - 1 < max)
             /\ r[k] = r[k - 1] \/ Steps(t, r[k - 1], r[k])
  <2> DEFINE s == r[k - 1]
             s2 == r[k]
  <2>1. s2 = MatchStep(t, s)
    BY <1>3
  <2>2. Walking(t, b, s) /\ Exhausts(t, s) /\ (s.stop = "go" => s.matches = k - 1)
    BY <1>5
  <2> HIDE DEF s, s2
  <2>3. /\ Walking(t, b, s2) /\ Exhausts(t, s2) /\ (s2 = s \/ Steps(t, s, s2))
        /\ s2.stop = "go" => s.stop = "go" /\ s2.matches = s.matches + 1 /\ s.matches < max
    BY <2>1, <2>2, StepKeeps DEF max
  <2>4. s2.stop = "go" => s2.matches = k /\ k - 1 < max
    BY <2>2, <2>3
  <2> QED BY <2>3, <2>4 DEF s2, s
<1> HIDE DEF Good
<1> DEFINE bad == {k \in 0..n : ~Good(r[k], k)}
<1>6. ASSUME bad # {} PROVE FALSE
  <2>1. bad \in SUBSET Nat
    OBVIOUS
  <2>2. PICK k \in bad : \A m \in bad : k <= m
    BY <1>6, <2>1, LeastNatural, Zenon
  <2>3. k \in 0..n /\ ~Good(r[k], k)
    OBVIOUS
  <2>4. k # 0
    BY <1>3, <1>4, <2>3
  <2>5. k \in 1..n /\ k - 1 \in 0..n /\ ~(k <= k - 1)
    BY <1>1, <2>3, <2>4
  <2>6. Good(r[k - 1], k - 1)
    BY <2>2, <2>5
  <2> QED BY <1>5, <2>3, <2>5, <2>6
<1>7. n \in 1..n /\ n - 1 \in 0..n /\ ~(n - 1 < max) /\ n \in 0..n
  BY <1>1
<1>8. Good(r[n], n) /\ Good(r[n - 1], n - 1)
  BY <1>6, <1>7
<1>9. r[n].stop # "go"
  BY <1>5, <1>7, <1>8
<1>10. \A k \in 0..n : Walking(t, b, r[k]) /\ Exhausts(t, r[k])
  BY <1>6 DEF Good
<1>11. \A k \in 1..n : r[k] = r[k - 1] \/ Steps(t, r[k - 1], r[k])
  <2> SUFFICES ASSUME NEW k \in 1..n PROVE r[k] = r[k - 1] \/ Steps(t, r[k - 1], r[k])
    OBVIOUS
  <2>1. k - 1 \in 0..n
    BY <1>1
  <2> QED BY <1>5, <1>6, <2>1
<1> HIDE DEF n
<1>12. LoopOf(r, n, t, b, fees, filled)
  BY <1>1, <1>3, <1>9, <1>10, <1>11 DEF LoopOf
<1> QED BY <1>2, <1>12

-----------------------------------------------------------------------------
(* What rounding down costs: parts never come to more than the whole. *)

\* Rounding down, two parts of an amount cost no more than the whole.
LEMMA NotionalAdds ==
  ASSUME NEW a \in Nat, NEW b \in Nat, NEW q \in Nat
  PROVE  /\ Notional(a, q) \in Nat /\ Notional(b, q) \in Nat /\ Notional(a + b, q) \in Nat
         /\ Notional(a, q) + Notional(b, q) <= Notional(a + b, q)
BY SharesAdd, MatchingAssumption DEF Notional

\* Rounding down, two parts of a price cost no more than the whole.
LEMMA NotionalOfPrices ==
  ASSUME NEW a \in Nat, NEW q \in Nat, NEW r \in Nat
  PROVE  /\ Notional(a, q) \in Nat /\ Notional(a, r) \in Nat /\ Notional(a, q + r) \in Nat
         /\ Notional(a, q) + Notional(a, r) <= Notional(a, q + r)
<1>1. a * q = q * a /\ a * r = r * a /\ a * (q + r) = (q + r) * a
  BY SMT
<1> DEFINE w == FULL_PERCENT
           x == q * a
           y == r * a
           z == (q + r) * a
<1>2. w \in Nat \ {0}
  BY MatchingAssumption
<1>3. x \div w \in Nat /\ y \div w \in Nat /\ z \div w \in Nat
      /\ x \div w + y \div w <= z \div w
  BY <1>2, SharesAdd
<1>4. Notional(a, q) = x \div w /\ Notional(a, r) = y \div w /\ Notional(a, q + r) = z \div w
  BY <1>1 DEF Notional
<1> HIDE DEF x, y, z, w
<1> QED BY <1>3, <1>4

\* Rounding down, the fees of the parts are no more than the fee of the whole.
LEMMA FeesAdd ==
  ASSUME NEW x \in Nat, NEW y \in Nat, NEW z \in Nat, x + y <= z
  PROVE  /\ TakerFee(x) \in Nat /\ TakerFee(y) \in Nat /\ TakerFee(z) \in Nat
         /\ TakerFee(x) + TakerFee(y) <= TakerFee(z)
<1> DEFINE w == FEE_DENOMINATOR
           c == TAKER_FEE_RATE
           u == (x + y) * c
           v == z * c
<1>1. w \in Nat \ {0} /\ c \in Nat
  BY MatchingAssumption
<1>2. /\ TakerFee(x) \in Nat /\ TakerFee(y) \in Nat /\ u \div w \in Nat
      /\ TakerFee(x) + TakerFee(y) <= u \div w
  BY <1>1, SharesAdd DEF TakerFee
<1>3. u \in Nat /\ v \in Nat /\ u <= v
  <2>1. u \in Nat /\ v \in Nat
    BY <1>1, MulNat
  <2>2. PICK d \in Nat : z = x + y + d
    <3>1. z - (x + y) \in Nat /\ z = x + y + (z - (x + y))
      OBVIOUS
    <3> QED BY <3>1
  <2>3. v = u + d * c /\ d * c \in Nat
    BY <1>1, <2>2, SMT
  <2> QED BY <2>1, <2>3
<1>4. v \div w = TakerFee(z)
  BY DEF TakerFee
<1> HIDE DEF u, v, w
<1>5. u \div w <= v \div w /\ v \div w \in Nat
  BY <1>1, <1>3, DivGrows
<1> QED BY <1>2, <1>4, <1>5

\* What is still locked for a buy of which rem is left.
Reserve(p, rem) ==
  IF IsMarket(p) THEN rem + TakerFee(rem)
  ELSE Notional(rem, p.price) + TakerFee(Notional(rem, p.price))

\* What one fill as a taker takes from a buyer.
TakerCharge(p, price, trade) ==
  Notional(trade, price)
    + (IF IsMarket(p) THEN 0 ELSE Notional(trade, p.price - price))
    + TakerFee(Notional(trade, price))

\* A fill takes no more than the part of the reserve that it frees.
LEMMA TakerCovers ==
  ASSUME NEW p, p.isBuy, p.price \in Nat, NEW rem \in Nat, NEW trade \in Nat,
         NEW price \in Nat, PricesCross(p, price), NEW spent \in Nat,
         spent = IF IsMarket(p) THEN Notional(trade, price) ELSE trade, spent <= rem
  PROVE  /\ TakerCharge(p, price, trade) \in Nat
         /\ Reserve(p, rem) \in Nat /\ Reserve(p, rem - spent) \in Nat
         /\ TakerCharge(p, price, trade) + Reserve(p, rem - spent) <= Reserve(p, rem)
<1> DEFINE left == rem - spent
           n == Notional(trade, price)
<1>1. left \in Nat /\ spent + left = rem
  OBVIOUS
<1>2. n \in Nat
  BY NotionalNatural, Zenon
<1>3. CASE IsMarket(p)
  <2>1. spent = n /\ Reserve(p, rem) = rem + TakerFee(rem)
        /\ Reserve(p, left) = left + TakerFee(left)
        /\ TakerCharge(p, price, trade) = n + 0 + TakerFee(n)
    BY <1>3 DEF Reserve, TakerCharge
  <2> HIDE DEF left, n
  <2>2. /\ TakerFee(n) \in Nat /\ TakerFee(left) \in Nat /\ TakerFee(rem) \in Nat
        /\ TakerFee(n) + TakerFee(left) <= TakerFee(rem)
    <3>1. n + left <= rem
      BY <1>1, <1>2, <2>1
    <3> QED BY <1>1, <1>2, <3>1, FeesAdd, Zenon
  <2>3. Reserve(p, left) \in Nat /\ Reserve(p, rem) \in Nat
        /\ n + TakerFee(n) + Reserve(p, left) <= Reserve(p, rem)
    BY <1>1, <1>2, <2>1, <2>2
  <2> QED BY <1>2, <2>1, <2>2, <2>3 DEF left
<1>4. CASE ~IsMarket(p)
  <2> DEFINE P == p.price
             refund == Notional(trade, P - price)
             all == Notional(rem, P)
             rest == Notional(left, P)
             mine == Notional(trade, P)
  <2>1. P \in Nat /\ P - price \in Nat /\ price + (P - price) = P
    BY <1>4 DEF PricesCross
  <2>2. spent = trade
    BY <1>4
  <2>3. n + refund <= mine /\ refund \in Nat /\ mine \in Nat
    <3>1. n + refund <= Notional(trade, price + (P - price)) /\ refund \in Nat
          /\ Notional(trade, price + (P - price)) \in Nat
      <4> HIDE DEF P
      <4> QED BY <2>1, NotionalOfPrices, Zenon
    <3> QED BY <2>1, <3>1
  <2>4. mine + rest <= all /\ all \in Nat /\ rest \in Nat
    <3>1. mine + rest <= Notional(trade + left, P) /\ rest \in Nat
          /\ Notional(trade + left, P) \in Nat
      <4> HIDE DEF left, P
      <4> QED BY <1>1, <2>1, NotionalAdds, Zenon
    <3>2. trade + left = rem
      BY <1>1, <2>2
    <3> QED BY <3>1, <3>2
  <2>5. /\ Reserve(p, rem) = all + TakerFee(all) /\ Reserve(p, left) = rest + TakerFee(rest)
        /\ TakerCharge(p, price, trade) = n + refund + TakerFee(n)
    BY <1>4 DEF Reserve, TakerCharge
  <2> HIDE DEF n, refund, all, rest, mine, left
  <2>6. /\ TakerFee(n) \in Nat /\ TakerFee(rest) \in Nat /\ TakerFee(all) \in Nat
        /\ TakerFee(n) + TakerFee(rest) <= TakerFee(all)
    <3>1. n + rest <= all
      BY <1>2, <2>3, <2>4
    <3> QED BY <1>2, <2>4, <3>1, FeesAdd, Zenon
  <2>7. Reserve(p, left) \in Nat /\ Reserve(p, rem) \in Nat
        /\ n + refund + TakerFee(n) \in Nat
        /\ n + refund + TakerFee(n) + Reserve(p, left) <= Reserve(p, rem)
    <3> DEFINE f == TakerFee(n)
               g == TakerFee(rest)
               k == TakerFee(all)
    <3>1. f \in Nat /\ g \in Nat /\ k \in Nat /\ f + g <= k
      BY <2>6
    <3> HIDE DEF f, g, k
    <3>2. n + refund + f + (rest + g) <= all + k
      BY <1>2, <2>3, <2>4, <3>1
    <3>3. n + refund + f \in Nat /\ rest + g \in Nat /\ all + k \in Nat
      BY <1>2, <2>3, <2>4, <3>1
    <3> QED BY <2>5, <3>2, <3>3 DEF f, g, k
  <2> QED BY <2>5, <2>7 DEF left
<1> QED BY <1>3, <1>4

\* A fill as a maker takes its notional only.
LEMMA MakerCovers ==
  ASSUME NEW p, ~IsMarket(p), p.price \in Nat, NEW rem \in Nat, NEW trade \in Nat,
         trade <= rem
  PROVE  /\ Notional(trade, p.price) \in Nat
         /\ Reserve(p, rem) \in Nat /\ Reserve(p, rem - trade) \in Nat
         /\ Notional(trade, p.price) + Reserve(p, rem - trade) <= Reserve(p, rem)
<1> DEFINE left == rem - trade
           n == Notional(trade, p.price)
           rest == Notional(left, p.price)
           all == Notional(rem, p.price)
<1>1. left \in Nat /\ trade + left = rem
  OBVIOUS
<1>2. n \in Nat /\ rest \in Nat /\ all \in Nat /\ n + rest <= all
  <2>1. n \in Nat /\ rest \in Nat /\ Notional(trade + left, p.price) \in Nat
        /\ n + rest <= Notional(trade + left, p.price)
    <3> HIDE DEF left
    <3> QED BY <1>1, NotionalAdds, Zenon
  <2> QED BY <1>1, <2>1
<1>3. Reserve(p, rem) = all + TakerFee(all) /\ Reserve(p, left) = rest + TakerFee(rest)
  BY DEF Reserve
<1> HIDE DEF n, rest, all, left
<1>4. /\ TakerFee(n) \in Nat /\ TakerFee(rest) \in Nat /\ TakerFee(all) \in Nat
      /\ TakerFee(n) + TakerFee(rest) <= TakerFee(all)
  BY <1>2, FeesAdd
<1>5. Reserve(p, left) \in Nat /\ Reserve(p, rem) \in Nat
      /\ n + Reserve(p, left) <= Reserve(p, rem)
  BY <1>2, <1>3, <1>4
<1> QED BY <1>2, <1>5 DEF n, left

\* The whole order locks its whole reserve, and a remainder can be returned.
LEMMA ReserveBounds ==
  ASSUME NEW p, p.isBuy, p.price \in Nat, p.amount \in Nat, NEW rem \in Nat
  PROVE  /\ Reserve(p, p.amount) = Lock(p) /\ Lock(p) \in Nat /\ Reserve(p, rem) \in Nat
         /\ (IF IsMarket(p) THEN rem ELSE Notional(rem, p.price)) <= Reserve(p, rem)
<1>1. Notional(rem, p.price) \in Nat /\ Notional(p.amount, p.price) \in Nat
  BY NotionalNatural, Zenon
<1>2. ASSUME NEW x \in Nat PROVE TakerFee(x) \in Nat
  BY <1>2, FeesAdd
<1>3. Reserve(p, p.amount) = Lock(p)
  BY DEF Reserve, Lock, Cost, FeeReserve
<1>4. \A x \in Nat : TakerFee(x) \in Nat
  BY <1>2
<1>5. Reserve(p, p.amount) \in Nat
  BY <1>1, <1>4 DEF Reserve
<1>6. Reserve(p, rem) \in Nat
      /\ (IF IsMarket(p) THEN rem ELSE Notional(rem, p.price)) <= Reserve(p, rem)
  BY <1>1, <1>4 DEF Reserve
<1> QED BY <1>3, <1>5, <1>6

-----------------------------------------------------------------------------
(* _doPlace. *)

\* An order that crosses no level of the other side keeps the book apart.
LEMMA InsertApart ==
  ASSUME NEW b, Agrees(b), Apart(b), NEW id \in Nat, \A i \in DOMAIN b.orders : i < id,
         NEW o \in OrderRec,
         \A q \in Prices : (IF o.isBuy THEN o.price >= q ELSE q >= o.price)
                           => b.levels[<<o.book, ~o.isBuy, q>>].fifo = <<>>
  PROVE  Apart(InsertIntoBook(b, id, o))
<1> DEFINE c == InsertIntoBook(b, id, o)
<1>1. /\ DOMAIN c.orders = DOMAIN b.orders \cup {id}
      /\ \A i \in DOMAIN b.orders \cup {id} : c.orders[i] = IF i = id THEN o ELSE b.orders[i]
  BY InsertKeeps
<1>2. id \notin DOMAIN b.orders /\ \A i \in DOMAIN b.orders : b.orders[i] \in OrderRec
  BY DEF Agrees, IsBook
<1>3. /\ o.price \in Nat /\ o.isBuy \in BOOLEAN /\ o.book \in Books
      /\ \A i \in DOMAIN b.orders : b.orders[i].price \in Prices /\ b.orders[i].price \in Nat
  BY <1>2, MatchingAssumption, Zenon DEF OrderRec
\* An order of the other side is on a level with orders, so it does not cross.
<1>4. ASSUME NEW j \in DOMAIN b.orders, b.orders[j].book = o.book,
             b.orders[j].isBuy = ~o.isBuy
      PROVE  IF o.isBuy THEN o.price < b.orders[j].price ELSE b.orders[j].price < o.price
  <2> DEFINE q == b.orders[j].price
             k == <<o.book, ~o.isBuy, q>>
  <2>1. k \in LevelKeys /\ j \in AtLevel(b, k)
    BY <1>3, <1>4, Zenon DEF LevelKeys, AtLevel, LevelOf
  <2>2. b.levels[k].fifo \in Seq(Nat) /\ InOrder(b.levels[k].fifo, AtLevel(b, k))
    BY <2>1 DEF Agrees, IsBook, LevelRec, LevelAgrees
  <2>3. b.levels[k].fifo # <<>>
    BY <2>1, <2>2, HeadInOrder, Zenon
  <2>4. q \in Prices /\ q \in Nat
    BY <1>3
  <2> HIDE DEF q
  <2>5. ~(IF o.isBuy THEN o.price >= q ELSE q >= o.price)
    BY <2>3, <2>4
  <2>6. IF o.isBuy THEN o.price < q ELSE q < o.price
    BY <1>3, <2>4, <2>5
  <2> QED BY <2>6 DEF q
<1> HIDE DEF c
<1>5. ASSUME NEW i \in DOMAIN c.orders, NEW j \in DOMAIN c.orders,
             c.orders[i].book = c.orders[j].book, c.orders[i].isBuy, ~c.orders[j].isBuy
      PROVE  c.orders[i].price < c.orders[j].price
  <2>1. CASE i = id /\ j # id
    <3>1. j \in DOMAIN b.orders /\ c.orders[j] = b.orders[j] /\ c.orders[i] = o
      BY <1>1, <2>1
    <3>2. b.orders[j].book = o.book /\ b.orders[j].isBuy = ~o.isBuy /\ o.isBuy
      BY <1>2, <1>3, <1>5, <3>1 DEF OrderRec
    <3> QED BY <1>4, <3>1, <3>2
  <2>2. CASE i # id /\ j = id
    <3>1. i \in DOMAIN b.orders /\ c.orders[i] = b.orders[i] /\ c.orders[j] = o
      BY <1>1, <2>2
    <3>2. b.orders[i].book = o.book /\ b.orders[i].isBuy = ~o.isBuy /\ ~o.isBuy
      BY <1>2, <1>3, <1>5, <3>1 DEF OrderRec
    <3> QED BY <1>4, <3>1, <3>2
  <2>3. CASE i # id /\ j # id
    <3>1. /\ i \in DOMAIN b.orders /\ c.orders[i] = b.orders[i]
          /\ j \in DOMAIN b.orders /\ c.orders[j] = b.orders[j]
      BY <1>1, <2>3
    <3> QED BY <1>5, <3>1 DEF Apart
  <2>4. CASE i = id /\ j = id
    BY <1>5, <2>4
  <2> QED BY <2>1, <2>2, <2>3, <2>4
<1>6. Apart(c)
  BY <1>5 DEF Apart
<1> QED BY <1>6 DEF c

\* The entry a pass leaves at the head goes on as the order it has announced.
Continues(e, h, id) ==
  /\ IsEntry(e) /\ e.kind = h.kind /\ e.owner = h.owner /\ e.nonce = h.nonce
  /\ e.batchEnd = h.batchEnd /\ e.target = id

\* What a placement leaves: the orders it used up are gone, the rest is right,
\* and its own remainder rests, is kept at the head or is gone.
Placed(r, b, h, id) ==
  /\ r.keep \in BOOLEAN
  /\ Agrees(r.b) /\ Apart(r.b)
  /\ DOMAIN r.b.orders \subseteq DOMAIN b.orders \cup {id}
  /\ r.keep => DOMAIN r.b.orders \subseteq DOMAIN b.orders /\ Continues(r.entry, h, id)

\* A placement that is over has left a right book.
LEMMA LeavePlaced ==
  ASSUME NEW h, NEW b, NEW c, NEW fees, NEW msgs, NEW id, Agrees(c), Apart(c),
         DOMAIN c.orders \subseteq DOMAIN b.orders \cup {id}
  PROVE  Placed(Leave(h, c, fees, msgs), b, h, id)
BY DEF Placed, Leave

\* _doPlace keeps the book right and announces what it leaves.
LEMMA PlaceKeeps ==
  ASSUME NEW b, Agrees(b), Apart(b), NEW fees, NEW h, IsEntry(h), h.kind = "place",
         NEW id \in Nat, \A i \in DOMAIN b.orders : i < id
  PROVE  Placed(DoPlace(b, fees, h, id), b, h, id)
<1> DEFINE t == [owner |-> h.owner, id |-> id, op |-> h.op, nonce |-> h.nonce]
           first == IF h.target = NoOrder THEN <<PlacedMsg(h.owner, id, h.op, h.nonce)>>
                    ELSE <<>>
           P(r) == Placed(r, b, h, id)
<1>1. t.op = h.op /\ t.owner = h.owner /\ t.id = id /\ t.nonce = h.nonce
  OBVIOUS
<1>0. h = [f \in EntryFields |-> h[f]]
  BY DEF IsEntry, Shaped
<1>2. DoPlace(b, fees, h, id) = Place(b, fees, h, t, first)
  BY DEF DoPlace
<1> HIDE DEF t, first
<1>3. IsTaker(t)
  BY <1>1 DEF IsTaker, IsEntry, IsOrder, PlaceParams
<1>4. ASSUME NEW msgs PROVE P(Leave(h, b, fees, msgs))
  BY DEF Placed, Leave
<1>5. ASSUME NEW msgs, NEW s, Walking(t, b, s), Exhausts(t, s), s.stop \notin {"go", "cap"}
      PROVE  P(RestOrLeave(h, t, s, msgs))
  <2>1. Agrees(s.b) /\ Within(s.b, b) /\ Apart(s.b) /\ s.remaining \in Nat /\ s.filled \in Nat
    BY <1>5, WithinOrder DEF Walking
  <2>2. CASE s.remaining > 0 /\ t.op.flags \cap {"IOC", "FOK", "MARKET"} = {}
    <3> DEFINE o == RestingOrder(t, s.remaining, s.filled)
               c == InsertIntoBook(s.b, id, o)
    <3>1. RestOrLeave(h, t, s, msgs) = Leave(h, c, s.fees, msgs)
      BY <1>1, <2>2, Zenon DEF RestOrLeave
    <3>2. ~IsMarket(t.op) /\ ~IsMarketBuy(t.op)
      BY <2>2 DEF IsMarket, IsMarketBuy
    <3>3. /\ o \in OrderRec /\ o.book = t.op.book /\ o.isBuy = t.op.isBuy
          /\ o.price = t.op.price
      <4>1. /\ o.owner = t.owner /\ o.book = t.op.book /\ o.isBuy = t.op.isBuy
            /\ o.price = t.op.price /\ o.amount = s.remaining
            /\ o.initialAmount = t.op.amount /\ o.filledAccum = s.filled
            /\ o = [owner |-> o.owner, book |-> o.book, isBuy |-> o.isBuy,
                    price |-> o.price, amount |-> o.amount,
                    initialAmount |-> o.initialAmount, filledAccum |-> o.filledAccum]
        BY Zenon DEF RestingOrder
      <4> HIDE DEF o
      <4> QED BY <1>3, <2>1, <2>2, <3>2, <4>1 DEF OrderRec, IsTaker
    <3> HIDE DEF o
    <3>4. s.stop = "done"
      BY <1>5, <2>2, <3>2 DEF Walking, Exhausts
    <3>5. ASSUME NEW q \in Prices, IF o.isBuy THEN o.price >= q ELSE q >= o.price
          PROVE  s.b.levels[<<o.book, ~o.isBuy, q>>].fifo = <<>>
      <4>1. PricesCross(t.op, q)
        BY <3>3, <3>5 DEF PricesCross
      <4>2. LevelEmpty(s.b, t.op, q)
        BY <1>5, <2>2, <3>2, <3>4, <4>1 DEF Exhausts
      <4> QED BY <3>3, <4>2 DEF LevelEmpty, Opp
    <3>6. \A i \in DOMAIN s.b.orders : i < id
      BY <2>1 DEF Within
    <3>7. Apart(c)
      BY <2>1, <3>3, <3>5, <3>6, InsertApart
    <3>8. Agrees(c) /\ DOMAIN c.orders = DOMAIN s.b.orders \cup {id}
      BY <2>1, <3>3, <3>6, InsertKeeps
    <3> HIDE DEF c
    <3>9. DOMAIN c.orders \subseteq DOMAIN b.orders \cup {id}
      BY <2>1, <3>8 DEF Within
    <3> QED BY <3>1, <3>7, <3>8, <3>9, LeavePlaced, Zenon
  <2>3. CASE ~(s.remaining > 0 /\ t.op.flags \cap {"IOC", "FOK", "MARKET"} = {})
    <3>1. \E m : RestOrLeave(h, t, s, msgs) = Leave(h, s.b, s.fees, m)
      BY <2>3, Zenon DEF RestOrLeave
    <3>2. DOMAIN s.b.orders \subseteq DOMAIN b.orders \cup {id}
      BY <2>1 DEF Within
    <3> QED BY <2>1, <3>1, <3>2, LeavePlaced, Zenon
  <2> QED BY <2>2, <2>3
<1>6. ASSUME NEW s, Walking(t, b, s), Exhausts(t, s), s.stop # "go"
      PROVE  P(AfterMatch(h, t, s, first))
  <2>1. CASE s.stop = "cap"
    <3> DEFINE r == AfterMatch(h, t, s, first)
               e == [h EXCEPT !.op.amount = s.remaining, !.target = t.id,
                              !.precheckDone = TRUE, !.precheckAccum = 0,
                              !.precheckLast = NoPrice, !.filledAccum = s.filled]
               p == [h.op EXCEPT !.amount = s.remaining]
    <3>1. r.b = s.b /\ r.keep = TRUE /\ r.entry = e
      BY <2>1 DEF AfterMatch
    <3>2. /\ Shaped(e)
          /\ e.kind = h.kind /\ e.owner = h.owner /\ e.op = p /\ e.target = id
          /\ e.filledAccum = s.filled /\ e.precheckDone = TRUE
          /\ e.batchEnd = h.batchEnd /\ e.nonce = h.nonce
      BY <1>0, <1>1, Zenon DEF EntryFields, Shaped
    <3> HIDE DEF e, r
    <3>3. /\ Agrees(s.b) /\ Within(s.b, b) /\ Apart(s.b)
          /\ s.remaining \in Nat /\ s.remaining > 0 /\ s.filled \in Nat
      BY <1>6, <2>1, WithinOrder DEF Walking
    <3>4. /\ p \in PlaceParams /\ p.flags = h.op.flags /\ p.price = h.op.price
          /\ p.amount > 0 /\ p.minAmount = h.op.minAmount
      BY <3>3 DEF PlaceParams, IsEntry, IsOrder
    <3> HIDE DEF p
    <3>5. IsOrder(p)
      BY <3>4 DEF IsMarket, IsEntry, IsOrder
    <3>6. Continues(e, h, id)
      BY <3>2, <3>3, <3>4, <3>5, Zenon DEF Continues, IsEntry
    <3>7. DOMAIN s.b.orders \subseteq DOMAIN b.orders
      BY <3>3 DEF Within
    <3>8. Placed(r, b, h, id)
      BY <3>1, <3>3, <3>6, <3>7, Zenon DEF Placed
    <3> QED BY <3>8 DEF r
  <2>2. CASE s.stop # "cap"
    BY <1>5, <1>6, <2>2 DEF AfterMatch
  <2> QED BY <2>1, <2>2
<1>7. ASSUME NEW checked PROVE P(AfterPrecheck(b, fees, h, t, checked, first))
  <2> DEFINE r == AfterPrecheck(b, fees, h, t, checked, first)
  <2>1. CASE checked.state = "short"
    <3>1. \E m : r = Leave(h, b, fees, m)
      BY <2>1 DEF AfterPrecheck
    <3> QED BY <1>4, <3>1
  <2>2. CASE checked.state = "yield"
    <3> DEFINE e == [h EXCEPT !.target = t.id, !.precheckAccum = checked.accum,
                              !.precheckLast = checked.last]
    <3>1. r.b = b /\ r.keep = TRUE /\ r.entry = e
      BY <2>2 DEF AfterPrecheck
    <3>2. /\ Shaped(e)
          /\ e.kind = h.kind /\ e.owner = h.owner /\ e.op = h.op /\ e.target = id
          /\ e.filledAccum = h.filledAccum /\ e.precheckDone = h.precheckDone
          /\ e.batchEnd = h.batchEnd /\ e.nonce = h.nonce
      BY <1>0, <1>1, Zenon DEF EntryFields, Shaped
    <3> HIDE DEF e, r
    <3>3. Continues(e, h, id)
      BY <3>2, Zenon DEF Continues, IsEntry
    <3>4. Placed(r, b, h, id)
      BY <3>1, <3>3, Zenon DEF Placed
    <3> QED BY <3>4 DEF r
  <2>3. CASE checked.state \notin {"short", "yield"}
    <3> DEFINE s == MatchLoop(t, b, fees, h.filledAccum)
    <3>1. r = AfterMatch(h, t, s, first)
      BY <2>3 DEF AfterPrecheck
    <3>2. Walking(t, b, s) /\ Exhausts(t, s) /\ s.stop # "go"
      <4>1. PICK r0, n : LoopOf(r0, n, t, b, fees, h.filledAccum) /\ s = r0[n]
        BY <1>3, LoopKeeps DEF IsEntry
      <4>2. n \in 0..n
        BY <4>1 DEF LoopOf
      <4> QED BY <4>1, <4>2 DEF LoopOf
    <3> QED BY <1>6, <3>1, <3>2, Zenon
  <2> QED BY <2>1, <2>2, <2>3
<1>8. P(Place(b, fees, h, t, first))
  <2> HIDE DEF P
  <2>1. \/ \E m : Place(b, fees, h, t, first) = Leave(h, b, fees, m)
        \/ \E checked : Place(b, fees, h, t, first)
                          = AfterPrecheck(b, fees, h, t, checked, first)
    BY Zenon DEF Place
  <2> QED BY <1>4, <1>7, <2>1
<1> QED BY <1>2, <1>8
=============================================================================
