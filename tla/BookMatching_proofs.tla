------------------------ MODULE BookMatching_proofs -------------------------
(***************************************************************************)
(* Proofs about the views of the book: orders, levels, owner lists and the *)
(* count agree after an order is inserted, reduced or removed.             *)
(***************************************************************************)
EXTENDS BookMatching, Sums, SequenceTheorems

-----------------------------------------------------------------------------
(* Lists in order. *)

WithoutAt(s, p) == SubSeq(s, 1, p - 1) \o SubSeq(s, p + 1, Len(s))

\* What is left of a sequence without its p-th element.
LEMMA RemovedAt ==
  ASSUME NEW T, NEW s \in Seq(T), NEW p \in 1..Len(s)
  PROVE  /\ WithoutAt(s, p) \in Seq(T)
         /\ Len(WithoutAt(s, p)) = Len(s) - 1
         /\ \A i \in 1..(Len(s) - 1) :
              WithoutAt(s, p)[i] = IF i < p THEN s[i] ELSE s[i + 1]
<1> DEFINE u == SubSeq(s, 1, p - 1)
           v == SubSeq(s, p + 1, Len(s))
<1>1. Len(s) \in Nat /\ p \in Int /\ p - 1 \in Int /\ p + 1 \in Int
  BY LenProperties
<1>2. \A i \in 1..Len(s) : s[i] \in T
  BY ElementOfSeq
<1>3. u \in Seq(T) /\ Len(u) = p - 1 /\ \A i \in 1..(p - 1) : u[i] = s[i]
  <2>1. \A i \in 1..(p - 1) : s[i] \in T
    BY <1>1, <1>2
  <2>2. /\ u \in Seq(T) /\ Len(u) = IF 1 <= p - 1 THEN (p - 1) - 1 + 1 ELSE 0
        /\ \A i \in 1..((p - 1) - 1 + 1) : u[i] = s[1 + i - 1]
    BY <1>1, <2>1, SubSeqProperties
  <2> HIDE DEF u
  <2> QED BY <1>1, <2>2
<1>4. /\ v \in Seq(T) /\ Len(v) = Len(s) - p
      /\ \A i \in 1..(Len(s) - p) : v[i] = s[p + i]
  <2>1. \A i \in (p + 1)..Len(s) : s[i] \in T
    BY <1>1, <1>2
  <2>2. /\ v \in Seq(T) /\ Len(v) = IF p + 1 <= Len(s) THEN Len(s) - (p + 1) + 1 ELSE 0
        /\ \A i \in 1..(Len(s) - (p + 1) + 1) : v[i] = s[(p + 1) + i - 1]
    BY <1>1, <2>1, SubSeqProperties
  <2> HIDE DEF v
  <2> QED BY <1>1, <2>2
<1>5. WithoutAt(s, p) = u \o v
  BY DEF WithoutAt
<1> HIDE DEF u, v
<1>6. /\ u \o v \in Seq(T) /\ Len(u \o v) = Len(u) + Len(v)
      /\ \A i \in 1..(Len(u) + Len(v)) :
           (u \o v)[i] = IF i <= Len(u) THEN u[i] ELSE v[i - Len(u)]
  BY <1>3, <1>4, ConcatProperties, Zenon
<1>7. ASSUME NEW i \in 1..(Len(s) - 1)
      PROVE  (u \o v)[i] = IF i < p THEN s[i] ELSE s[i + 1]
  <2>1. i \in 1..(Len(u) + Len(v))
    BY <1>1, <1>3, <1>4
  <2>2. CASE i < p
    BY <1>1, <1>3, <1>6, <2>1, <2>2
  <2>3. CASE ~(i < p)
    <3>1. i - Len(u) \in 1..(Len(s) - p) /\ p + (i - Len(u)) = i + 1 /\ ~(i <= Len(u))
      BY <1>1, <1>3, <2>3
    <3>2. v[i - Len(u)] = s[i + 1]
      BY <1>4, <3>1, Zenon
    <3> QED BY <1>6, <2>1, <2>3, <3>1, <3>2
  <2> QED BY <2>2, <2>3, Zenon
<1> QED BY <1>1, <1>3, <1>4, <1>5, <1>6, <1>7

\* Unlinking a node leaves the others in order.
LEMMA UnlinkInOrder ==
  ASSUME NEW S, NEW s \in Seq(Nat), InOrder(s, S), NEW id \in S
  PROVE  /\ Unlink(s, id) \in Seq(Nat)
         /\ InOrder(Unlink(s, id), S \ {id})
<1> DEFINE p == CHOOSE i \in DOMAIN s : s[i] = id
           u == WithoutAt(s, p)
<1>1. DOMAIN s = 1..Len(s) /\ Len(s) \in Nat /\ \A i \in 1..Len(s) : s[i] \in Nat
  BY LenProperties
<1>2. p \in 1..Len(s) /\ s[p] = id
  BY <1>1 DEF InOrder
<1> HIDE DEF p
<1>3. /\ u \in Seq(Nat) /\ Len(u) = Len(s) - 1
      /\ \A i \in 1..(Len(s) - 1) : u[i] = IF i < p THEN s[i] ELSE s[i + 1]
  BY <1>2, RemovedAt
<1>4. DOMAIN u = 1..(Len(s) - 1)
  BY <1>3, LenProperties
<1>5. Unlink(s, id) = u
  BY DEF Unlink, WithoutAt, p
<1> HIDE DEF u
<1>6. ASSUME NEW i \in 1..(Len(s) - 1), NEW j \in 1..(Len(s) - 1), i < j
      PROVE  u[i] < u[j]
  <2> DEFINE ii == IF i < p THEN i ELSE i + 1
             jj == IF j < p THEN j ELSE j + 1
  <2>1. ii \in 1..Len(s) /\ jj \in 1..Len(s) /\ ii < jj
    BY <1>1, <1>2, <1>6
  <2>2. u[i] = s[ii] /\ u[j] = s[jj]
    BY <1>3, Zenon
  <2> HIDE DEF ii, jj
  <2> QED BY <1>1, <2>1, <2>2, Zenon DEF InOrder
<1>7. ASSUME NEW i \in 1..(Len(s) - 1) PROVE u[i] \in S \ {id}
  <2> DEFINE ii == IF i < p THEN i ELSE i + 1
  <2>1. ii \in 1..Len(s) /\ ii # p
    BY <1>1, <1>2
  <2>4. u[i] = s[ii]
    BY <1>3
  <2>2. s[ii] # s[p]
    <3>1. ii < p \/ p < ii
      BY <1>1, <1>2, <2>1
    <3> HIDE DEF ii
    <3>2. s[ii] < s[p] \/ s[p] < s[ii]
      BY <1>1, <1>2, <2>1, <3>1, Zenon DEF InOrder
    <3> QED BY <1>1, <1>2, <2>1, <3>2
  <2> HIDE DEF ii
  <2>3. s[ii] \in S
    BY <1>1, <2>1, Zenon DEF InOrder
  <2> QED BY <1>2, <2>1, <2>2, <2>3, <2>4
<1>8. ASSUME NEW x \in S \ {id} PROVE \E i \in 1..(Len(s) - 1) : u[i] = x
  <2>1. PICK k \in 1..Len(s) : s[k] = x
    BY <1>1 DEF InOrder
  <2>2. k # p
    BY <1>2, <2>1
  <2>3. CASE k < p
    <3>1. k \in 1..(Len(s) - 1)
      BY <1>1, <1>2, <2>3
    <3> QED BY <1>3, <2>1, <2>3, <3>1, Zenon
  <2>4. CASE k > p
    <3>1. k - 1 \in 1..(Len(s) - 1) /\ ~(k - 1 < p) /\ (k - 1) + 1 = k
      BY <1>1, <1>2, <2>4
    <3> QED BY <1>3, <2>1, <3>1, Zenon
  <2> QED BY <1>1, <1>2, <2>2, <2>3, <2>4
<1>9. {u[i] : i \in DOMAIN u} = S \ {id}
  BY <1>4, <1>7, <1>8, Zenon
<1> QED BY <1>3, <1>4, <1>5, <1>6, <1>9, Zenon DEF InOrder

\* A new identifier goes to the end.
LEMMA AppendInOrder ==
  ASSUME NEW S, NEW s \in Seq(Nat), InOrder(s, S), NEW id \in Nat,
         \A i \in S : i < id
  PROVE  /\ Append(s, id) \in Seq(Nat)
         /\ InOrder(Append(s, id), S \cup {id})
<1> DEFINE u == Append(s, id)
<1>1. DOMAIN s = 1..Len(s) /\ Len(s) \in Nat /\ \A i \in 1..Len(s) : s[i] \in Nat
  BY LenProperties
<1>2. /\ u \in Seq(Nat) /\ Len(u) = Len(s) + 1
      /\ \A i \in 1..Len(s) : u[i] = s[i]
      /\ u[Len(s) + 1] = id
  BY AppendProperties
<1>3. DOMAIN u = 1..(Len(s) + 1)
  BY <1>2, LenProperties
<1> HIDE DEF u
<1>4. \A i \in 1..Len(s) : s[i] \in S
  BY <1>1 DEF InOrder
<1>5. \A x \in S : \E i \in 1..Len(s) : s[i] = x
  BY <1>1 DEF InOrder
<1>6. ASSUME NEW i \in 1..(Len(s) + 1), NEW j \in 1..(Len(s) + 1), i < j
      PROVE  u[i] < u[j]
  <2>1. i \in 1..Len(s)
    BY <1>1, <1>6
  <2>2. CASE j = Len(s) + 1
    BY <1>2, <1>4, <2>1, <2>2
  <2>3. CASE j # Len(s) + 1
    <3>1. j \in 1..Len(s)
      BY <1>1, <2>3
    <3> QED BY <1>1, <1>2, <1>6, <2>1, <3>1, Zenon DEF InOrder
  <2> QED BY <2>2, <2>3
<1>7. ASSUME NEW i \in 1..(Len(s) + 1) PROVE u[i] \in S \cup {id}
  <2>1. CASE i = Len(s) + 1
    BY <1>2, <2>1
  <2>2. CASE i # Len(s) + 1
    <3>1. i \in 1..Len(s)
      BY <1>1, <2>2
    <3> QED BY <1>2, <1>4, <3>1
  <2> QED BY <2>1, <2>2
<1>8. ASSUME NEW x \in S \cup {id} PROVE \E i \in 1..(Len(s) + 1) : u[i] = x
  <2>1. CASE x = id
    BY <1>1, <1>2, <2>1
  <2>2. CASE x \in S
    <3>1. PICK i \in 1..Len(s) : s[i] = x
      BY <1>5, <2>2
    <3>2. i \in 1..(Len(s) + 1)
      BY <1>1
    <3> QED BY <1>2, <3>1, <3>2
  <2> QED BY <2>1, <2>2
<1>9. {u[i] : i \in DOMAIN u} = S \cup {id}
  BY <1>3, <1>7, <1>8, Zenon
<1> QED BY <1>2, <1>3, <1>6, <1>9 DEF InOrder, u

\* Head and tail of a list in order.
LEMMA HeadInOrder ==
  ASSUME NEW S, NEW s \in Seq(Nat), InOrder(s, S)
  PROVE  /\ s = <<>> <=> S = {}
         /\ s # <<>> => /\ Head(s) \in S
                        /\ Tail(s) \in Seq(Nat)
                        /\ InOrder(Tail(s), S \ {Head(s)})
                        /\ Unlink(s, Head(s)) = Tail(s)
<1>1. DOMAIN s = 1..Len(s) /\ Len(s) \in Nat /\ \A i \in 1..Len(s) : s[i] \in Nat
  BY LenProperties
<1>2. s = <<>> => S = {}
  BY DEF InOrder
<1>3. ASSUME s # <<>>
      PROVE  /\ Head(s) \in S
             /\ Tail(s) \in Seq(Nat)
             /\ InOrder(Tail(s), S \ {Head(s)})
             /\ Unlink(s, Head(s)) = Tail(s)
  <2>1. Len(s) > 0 /\ Head(s) = s[1] /\ 1 \in 1..Len(s)
    BY <1>1, <1>3, EmptySeq
  <2>2. Head(s) \in S
    BY <1>1, <2>1 DEF InOrder
  <2>3. /\ Tail(s) \in Seq(Nat) /\ Len(Tail(s)) = Len(s) - 1
        /\ \A i \in 1..(Len(s) - 1) : Tail(s)[i] = s[i + 1]
    BY <1>3, HeadTailProperties
  <2> DEFINE p == CHOOSE i \in DOMAIN s : s[i] = Head(s)
  <2>4. p = 1
    <3>1. p \in 1..Len(s) /\ s[p] = s[1]
      BY <1>1, <2>1
    <3> HIDE DEF p
    <3>2. 1 < p => s[1] < s[p]
      BY <1>1, <2>1, <3>1 DEF InOrder
    <3> QED BY <1>1, <2>1, <3>1, <3>2
  <2>5. /\ WithoutAt(s, 1) \in Seq(Nat) /\ Len(WithoutAt(s, 1)) = Len(s) - 1
        /\ \A i \in 1..(Len(s) - 1) :
             WithoutAt(s, 1)[i] = IF i < 1 THEN s[i] ELSE s[i + 1]
    BY <2>1, RemovedAt
  <2>6. WithoutAt(s, 1) = Tail(s)
    <3>1. \A i \in 1..Len(Tail(s)) : WithoutAt(s, 1)[i] = Tail(s)[i]
      BY <1>1, <2>3, <2>5
    <3> QED BY <2>3, <2>5, <3>1, SeqEqual, Zenon
  <2>7. Unlink(s, Head(s)) = Tail(s)
    BY <2>4, <2>6, Zenon DEF Unlink, WithoutAt
  <2>8. InOrder(Unlink(s, Head(s)), S \ {Head(s)})
    BY <2>2, UnlinkInOrder
  <2> QED BY <2>2, <2>3, <2>7, <2>8, Zenon
<1> QED BY <1>2, <1>3

-----------------------------------------------------------------------------
(* The views of a book. *)

OrderRec == [owner : Notes, book : Books, isBuy : BOOLEAN, price : Prices,
             amount : Nat \ {0}, initialAmount : Nat, filledAccum : Nat]
LevelKeys == Books \X BOOLEAN \X Prices
LevelRec == [fifo : Seq(Nat), total : Nat]

IsBook(b) ==
  /\ b = [orders |-> b.orders, levels |-> b.levels, owners |-> b.owners,
          count |-> b.count]
  /\ b.orders \in [DOMAIN b.orders -> OrderRec]
  /\ DOMAIN b.orders \in SUBSET Nat /\ IsFiniteSet(DOMAIN b.orders)
  /\ b.levels \in [LevelKeys -> LevelRec]
  /\ b.owners \in [Notes -> Seq(Nat)]

AtLevel(b, k) == {i \in DOMAIN b.orders : LevelOf(b.orders[i]) = k}
OfOwner(b, n) == {i \in DOMAIN b.orders : b.orders[i].owner = n}
TotalAt(b, k) ==
  SumFunctionOnSet([i \in AtLevel(b, k) |-> b.orders[i].amount], AtLevel(b, k))

\* The level, the owner's list and the count agree with the orders.
LevelAgrees(b, k) ==
  InOrder(b.levels[k].fifo, AtLevel(b, k)) /\ b.levels[k].total = TotalAt(b, k)
Agrees(b) ==
  /\ IsBook(b)
  /\ b.count = Cardinality(DOMAIN b.orders)
  /\ \A k \in LevelKeys : LevelAgrees(b, k)
  /\ \A n \in Notes : InOrder(b.owners[n], OfOwner(b, n))

\* No buy meets or exceeds a sell of the same book.
Apart(b) ==
  \A i, j \in DOMAIN b.orders :
    (/\ b.orders[i].book = b.orders[j].book
     /\ b.orders[i].isBuy /\ ~b.orders[j].isBuy)
    => b.orders[i].price < b.orders[j].price

\* The level of an order is a level of the book.
LEMMA LevelOfOrder ==
  ASSUME NEW o \in OrderRec
  PROVE  LevelOf(o) \in LevelKeys
BY DEF OrderRec, LevelKeys, LevelOf

\* The book a deployed OrderBook starts with is right.
LEMMA EmptyAgrees == Agrees(EmptyBook) /\ Apart(EmptyBook) /\ DOMAIN EmptyBook.orders = {}
<1> DEFINE b == EmptyBook
<1>1. /\ b.orders = <<>> /\ b.count = 0
      /\ b.levels = [k \in LevelKeys |-> EmptyLevel]
      /\ b.owners = [n \in Notes |-> <<>>]
      /\ b = [orders |-> b.orders, levels |-> b.levels, owners |-> b.owners,
              count |-> b.count]
  BY DEF EmptyBook, LevelKeys
<1>2. DOMAIN b.orders = {} /\ IsFiniteSet({}) /\ Cardinality({}) = 0
  BY <1>1, FS_EmptySet
<1> HIDE DEF b
<1>3. EmptyLevel \in LevelRec /\ EmptyLevel.fifo = <<>> /\ EmptyLevel.total = 0
  BY DEF EmptyLevel, LevelRec
<1>4. b.orders \in [{} -> OrderRec]
  BY <1>1
<1>5. IsBook(b)
  <2>1. b.levels \in [LevelKeys -> LevelRec] /\ b.owners \in [Notes -> Seq(Nat)]
    BY <1>1, <1>3
  <2> QED BY <1>1, <1>2, <1>4, <2>1 DEF IsBook
<1>6. InOrder(<<>>, {})
  BY DEF InOrder
<1>7. ASSUME NEW k \in LevelKeys PROVE LevelAgrees(b, k)
  <2>1. AtLevel(b, k) = {}
    BY <1>2 DEF AtLevel
  <2>2. TotalAt(b, k) = 0
    BY <2>1, SumEmpty DEF TotalAt
  <2> QED BY <1>1, <1>3, <1>6, <2>1, <2>2 DEF LevelAgrees
<1>8. ASSUME NEW n \in Notes PROVE InOrder(b.owners[n], OfOwner(b, n))
  <2>1. OfOwner(b, n) = {}
    BY <1>2 DEF OfOwner
  <2> QED BY <1>1, <1>6, <2>1
<1> QED BY <1>1, <1>2, <1>5, <1>7, <1>8 DEF Agrees, Apart, b

\* The total of a level is a natural number, and its orders are finitely many.
LEMMA TotalType ==
  ASSUME NEW b, IsBook(b), NEW k
  PROVE  /\ IsFiniteSet(AtLevel(b, k)) /\ AtLevel(b, k) \subseteq DOMAIN b.orders
         /\ \A i \in AtLevel(b, k) : b.orders[i] \in OrderRec /\ b.orders[i].amount \in Nat \ {0}
         /\ TotalAt(b, k) \in Nat
         /\ \A i \in AtLevel(b, k) : b.orders[i].amount <= TotalAt(b, k)
<1> DEFINE A == AtLevel(b, k)
           f == [i \in A |-> b.orders[i].amount]
<1>1. A \subseteq DOMAIN b.orders /\ IsFiniteSet(A)
  BY FS_Subset DEF IsBook, AtLevel
<1>2. \A i \in DOMAIN b.orders : b.orders[i] \in OrderRec
  BY DEF IsBook
<1>3. \A i \in A : b.orders[i] \in OrderRec /\ b.orders[i].amount \in Nat \ {0}
  BY <1>1, <1>2 DEF OrderRec
<1> HIDE DEF A
<1>4. \A i \in A : f[i] \in Nat /\ f[i] = b.orders[i].amount
  BY <1>3
<1>5. TotalAt(b, k) = SumFunctionOnSet(f, A)
  BY DEF TotalAt, A
<1> HIDE DEF f
<1>6. SumFunctionOnSet(f, A) \in Nat
  BY <1>1, <1>4, SumType
<1>7. \A i \in A : f[i] <= SumFunctionOnSet(f, A)
  BY <1>1, <1>4, SumBounds
<1> QED BY <1>1, <1>3, <1>4, <1>5, <1>6, <1>7 DEF A

\* Without order id, the total of its level is less by its amount.
LEMMA TotalWithout ==
  ASSUME NEW b, IsBook(b), NEW c, IsBook(c), NEW id \in DOMAIN b.orders,
         DOMAIN c.orders = DOMAIN b.orders \ {id},
         \A i \in DOMAIN c.orders : c.orders[i] = b.orders[i],
         NEW k
  PROVE  /\ AtLevel(c, k) = AtLevel(b, k) \ {id}
         /\ TotalAt(c, k) = IF k = LevelOf(b.orders[id])
                            THEN TotalAt(b, k) - b.orders[id].amount ELSE TotalAt(b, k)
<1> DEFINE A == AtLevel(b, k)
           B == AtLevel(c, k)
           f == [i \in A |-> b.orders[i].amount]
           g == [i \in B |-> c.orders[i].amount]
<1>1. B = A \ {id}
  BY DEF AtLevel
<1>2. IsFiniteSet(A) /\ IsFiniteSet(B)
  BY TotalType
<1>3. \A i \in A : f[i] \in Nat /\ f[i] = b.orders[i].amount
  BY TotalType
<1>4. \A i \in B : g[i] = f[i]
  BY <1>1 DEF AtLevel
<1>5. SumFunctionOnSet(g, B) = SumFunctionOnSet(f, B)
  <2> HIDE DEF f, g, A, B
  <2> QED BY <1>2, <1>4, SumSame
<1>6. id \in A <=> k = LevelOf(b.orders[id])
  BY DEF AtLevel
<1>7. CASE id \in A
  <2>1. SumFunctionOnSet(f, A) = f[id] + SumFunctionOnSet(f, A \ {id})
    <3>1. \A i \in A : f[i] \in Int
      BY <1>3
    <3> HIDE DEF f, A
    <3> QED BY <1>2, <1>7, <3>1, SumSplit
  <2>2. SumFunctionOnSet(f, B) \in Nat
    <3>1. \A i \in B : f[i] \in Nat
      BY <1>1, <1>3
    <3> HIDE DEF f, B
    <3> QED BY <1>2, <3>1, SumType
  <2>3. TotalAt(c, k) = SumFunctionOnSet(f, B) /\ TotalAt(b, k) = SumFunctionOnSet(f, A)
    BY <1>5 DEF TotalAt
  <2>4. f[id] \in Nat /\ f[id] = b.orders[id].amount
    BY <1>3, <1>7
  <2> HIDE DEF f, g, A, B
  <2>5. TotalAt(c, k) = TotalAt(b, k) - b.orders[id].amount
    BY <1>1, <2>1, <2>2, <2>3, <2>4
  <2> QED BY <1>1, <1>6, <1>7, <2>5 DEF A, B
<1>8. CASE id \notin A
  <2>1. B = A
    BY <1>1, <1>8
  <2>2. TotalAt(c, k) = TotalAt(b, k)
    BY <1>5, <2>1 DEF TotalAt
  <2> HIDE DEF f, g, A, B
  <2> QED BY <1>1, <1>6, <1>8, <2>2 DEF A, B
<1> QED BY <1>7, <1>8

\* _removeFromBook: the order is gone from every view, and nothing else changes.
LEMMA RemoveKeeps ==
  ASSUME NEW b, Agrees(b), NEW id \in DOMAIN b.orders
  PROVE  /\ Agrees(RemoveFromBook(b, id))
         /\ DOMAIN RemoveFromBook(b, id).orders = DOMAIN b.orders \ {id}
         /\ \A i \in DOMAIN b.orders \ {id} :
              RemoveFromBook(b, id).orders[i] = b.orders[i]
         /\ \A k \in LevelKeys : RemoveFromBook(b, id).levels[k].fifo
              = IF k = LevelOf(b.orders[id]) THEN Unlink(b.levels[k].fifo, id)
                ELSE b.levels[k].fifo
<1> DEFINE o == b.orders[id]
           key == LevelOf(o)
           old == b.levels[key]
           left == Unlink(old.fifo, id)
           total == IF old.total >= o.amount THEN old.total - o.amount ELSE 0
           new == IF left = <<>> THEN EmptyLevel ELSE [fifo |-> left, total |-> total]
           c == RemoveFromBook(b, id)
           D == DOMAIN b.orders
<1>1. /\ c.orders = [i \in D \ {id} |-> b.orders[i]]
      /\ c.levels = [b.levels EXCEPT ![key] = new]
      /\ c.owners = [b.owners EXCEPT ![o.owner] = Unlink(@, id)]
      /\ c.count = b.count - 1
      /\ c = [orders |-> c.orders, levels |-> c.levels, owners |-> c.owners,
              count |-> c.count]
  BY Zenon DEF RemoveFromBook, Restrict
<1>2. o \in OrderRec /\ key \in LevelKeys /\ o.owner \in Notes /\ o.amount \in Nat \ {0}
  <2>1. o \in OrderRec
    BY DEF Agrees, IsBook
  <2> QED BY <2>1, LevelOfOrder DEF OrderRec
<1> HIDE DEF c
<1>3. old \in LevelRec /\ old.fifo \in Seq(Nat) /\ old.total \in Nat
      /\ InOrder(old.fifo, AtLevel(b, key)) /\ old.total = TotalAt(b, key)
  BY <1>2 DEF Agrees, IsBook, LevelAgrees, LevelRec
<1>4. left \in Seq(Nat) /\ InOrder(left, AtLevel(b, key) \ {id})
  <2>1. id \in AtLevel(b, key)
    BY DEF AtLevel
  <2> QED BY <1>3, <2>1, UnlinkInOrder
<1>5. total \in Nat /\ total = old.total - o.amount
  <2>1. o.amount <= TotalAt(b, key)
    <3>1. id \in AtLevel(b, key)
      BY DEF AtLevel
    <3> QED BY <3>1, TotalType DEF Agrees
  <2> HIDE DEF old, o, key
  <2> QED BY <1>2, <1>3, <2>1
<1>6. left = <<>> => old.total - o.amount = 0
  <2>1. SUFFICES ASSUME left = <<>> PROVE old.total - o.amount = 0
    OBVIOUS
  <2> DEFINE A == AtLevel(b, key)
             g == [i \in A |-> b.orders[i].amount]
  <2>2. A \ {id} = {} /\ id \in A
    <3>1. id \in A
      BY DEF AtLevel
    <3>2. InOrder(<<>>, A \ {id})
      BY <1>4, <2>1
    <3> QED BY <3>1, <3>2 DEF InOrder
  <2>3. IsFiniteSet(A) /\ \A i \in A : g[i] \in Int /\ g[i] = b.orders[i].amount
    BY TotalType DEF Agrees
  <2>4. TotalAt(b, key) = SumFunctionOnSet(g, A)
    BY DEF TotalAt
  <2> HIDE DEF A, g
  <2>5. SumFunctionOnSet(g, A) = g[id] + SumFunctionOnSet(g, {})
    BY <2>2, <2>3, SumSplit
  <2>6. SumFunctionOnSet(g, {}) = 0
    BY SumEmpty
  <2>7. g[id] = o.amount
    BY <2>2, <2>3
  <2> QED BY <1>2, <1>3, <2>4, <2>5, <2>6, <2>7
<1>7. new \in LevelRec /\ new.fifo = left /\ new.total = old.total - o.amount
  <2>1. CASE left = <<>>
    <3>1. EmptyLevel \in LevelRec /\ EmptyLevel.fifo = <<>> /\ EmptyLevel.total = 0
      BY DEF EmptyLevel, LevelRec
    <3> QED BY <1>6, <2>1, <3>1
  <2>2. CASE left # <<>>
    <3>1. [fifo |-> left, total |-> total] \in LevelRec
      BY <1>4, <1>5 DEF LevelRec
    <3> QED BY <1>5, <2>2, <3>1, Zenon
  <2> QED BY <2>1, <2>2, Zenon
<1> HIDE DEF new, left, total
<1>8. b.owners[o.owner] \in Seq(Nat) /\ InOrder(b.owners[o.owner], OfOwner(b, o.owner))
      /\ id \in OfOwner(b, o.owner)
  BY <1>2, Zenon DEF Agrees, IsBook, OfOwner
<1>9. Unlink(b.owners[o.owner], id) \in Seq(Nat)
      /\ InOrder(Unlink(b.owners[o.owner], id), OfOwner(b, o.owner) \ {id})
  BY <1>8, UnlinkInOrder, Zenon
<1>10. DOMAIN c.orders = D \ {id} /\ \A i \in D \ {id} : c.orders[i] = b.orders[i]
  BY <1>1
<1>11. /\ IsFiniteSet(D) /\ D \in SUBSET Nat /\ b.orders \in [D -> OrderRec]
       /\ b.levels \in [LevelKeys -> LevelRec] /\ b.owners \in [Notes -> Seq(Nat)]
       /\ b.count = Cardinality(D)
  BY DEF Agrees, IsBook
<1>12. IsFiniteSet(D \ {id}) /\ Cardinality(D \ {id}) = Cardinality(D) - 1
  BY <1>11, FS_RemoveElement, Zenon
<1>13. IsBook(c)
  <2>1. c.orders \in [D \ {id} -> OrderRec]
    BY <1>1, <1>11
  <2>2. c.levels \in [LevelKeys -> LevelRec]
    BY <1>1, <1>2, <1>7, <1>11
  <2>3. c.owners \in [Notes -> Seq(Nat)]
    BY <1>1, <1>2, <1>9, <1>11
  <2> QED BY <1>1, <1>10, <1>11, <1>12, <2>1, <2>2, <2>3 DEF IsBook
<1>14. ASSUME NEW k \in LevelKeys
       PROVE  /\ c.levels[k] = IF k = key THEN new ELSE b.levels[k]
              /\ LevelAgrees(c, k)
  <2>1. c.levels[k] = IF k = key THEN new ELSE b.levels[k]
    BY <1>1, <1>2, <1>11
  <2>2. /\ AtLevel(c, k) = AtLevel(b, k) \ {id}
        /\ TotalAt(c, k) = IF k = key THEN TotalAt(b, k) - o.amount ELSE TotalAt(b, k)
    BY <1>10, <1>13, TotalWithout DEF Agrees
  <2>3. CASE k = key
    <3>1. TotalAt(c, k) = new.total
      BY <1>3, <1>7, <2>2, <2>3
    <3>2. InOrder(new.fifo, AtLevel(c, k))
      BY <1>4, <1>7, <2>2, <2>3
    <3> QED BY <2>1, <2>3, <3>1, <3>2 DEF LevelAgrees
  <2>4. CASE k # key
    <3>1. AtLevel(c, k) = AtLevel(b, k)
      BY <2>2, <2>4 DEF AtLevel
    <3>2. LevelAgrees(b, k)
      BY DEF Agrees
    <3> QED BY <2>1, <2>2, <2>4, <3>1, <3>2 DEF LevelAgrees
  <2> QED BY <2>1, <2>3, <2>4
<1>15. ASSUME NEW n \in Notes PROVE InOrder(c.owners[n], OfOwner(c, n))
  <2>1. OfOwner(c, n) = OfOwner(b, n) \ {id}
    BY <1>10 DEF OfOwner
  <2>2. CASE n = o.owner
    BY <1>1, <1>9, <1>11, <2>1, <2>2
  <2>3. CASE n # o.owner
    <3>1. OfOwner(c, n) = OfOwner(b, n)
      BY <2>1, <2>3 DEF OfOwner
    <3>2. c.owners[n] = b.owners[n]
      BY <1>1, <1>11, <2>3
    <3> QED BY <3>1, <3>2 DEF Agrees
  <2> QED BY <2>2, <2>3
<1>16. Agrees(c)
  <2>1. c.count = Cardinality(DOMAIN c.orders)
    BY <1>1, <1>10, <1>11, <1>12
  <2> QED BY <1>13, <1>14, <1>15, <2>1 DEF Agrees
<1>17. ASSUME NEW k \in LevelKeys
       PROVE  c.levels[k].fifo = IF k = key THEN Unlink(b.levels[k].fifo, id)
                                 ELSE b.levels[k].fifo
  BY <1>7, <1>14 DEF left
<1> QED BY <1>10, <1>16, <1>17 DEF c

Reduced(o, trade) == [o EXCEPT !.amount = @ - trade, !.filledAccum = @ + trade]

\* The partial-fill branch of _doPlace: the order and its level shrink together.
LEMMA ReduceKeeps ==
  ASSUME NEW b, Agrees(b), NEW id \in DOMAIN b.orders,
         NEW trade \in Nat, trade < b.orders[id].amount
  PROVE  /\ Agrees(ReduceOrder(b, id, trade))
         /\ DOMAIN ReduceOrder(b, id, trade).orders = DOMAIN b.orders
         /\ \A i \in DOMAIN b.orders : ReduceOrder(b, id, trade).orders[i]
              = IF i = id THEN Reduced(b.orders[id], trade) ELSE b.orders[i]
         /\ \A k \in LevelKeys :
              ReduceOrder(b, id, trade).levels[k].fifo = b.levels[k].fifo
<1> DEFINE o == b.orders[id]
           key == LevelOf(o)
           old == b.levels[key]
           p == [o EXCEPT !.amount = @ - trade, !.filledAccum = @ + trade]
           new == [old EXCEPT !.total = @ - trade]
           c == ReduceOrder(b, id, trade)
           D == DOMAIN b.orders
<1>1. /\ IsFiniteSet(D) /\ D \in SUBSET Nat /\ b.orders \in [D -> OrderRec]
      /\ b.levels \in [LevelKeys -> LevelRec] /\ b.owners \in [Notes -> Seq(Nat)]
      /\ b.count = Cardinality(D)
      /\ b = [orders |-> b.orders, levels |-> b.levels, owners |-> b.owners,
              count |-> b.count]
  BY DEF Agrees, IsBook
<1>2. o \in OrderRec /\ key \in LevelKeys /\ o.amount \in Nat
  <2>1. o \in OrderRec
    BY <1>1
  <2> QED BY <2>1, LevelOfOrder DEF OrderRec
<1>3. /\ c.orders = [b.orders EXCEPT ![id] = p]
      /\ c.levels = [b.levels EXCEPT ![key] = new]
      /\ c.owners = b.owners
      /\ c.count = b.count
      /\ c = [orders |-> c.orders, levels |-> c.levels, owners |-> c.owners,
              count |-> c.count]
  <2>1. c = [b EXCEPT !.orders[id].amount = @ - trade,
                      !.orders[id].filledAccum = @ + trade,
                      !.levels[key].total = @ - trade]
    BY DEF ReduceOrder
  <2> HIDE DEF c, key
  <2>2. /\ c.owners = b.owners /\ c.count = b.count
        /\ c = [orders |-> c.orders, levels |-> c.levels, owners |-> c.owners,
                count |-> c.count]
    BY <1>1, <2>1, Zenon
  <2>3. c.levels = [b.levels EXCEPT ![key] = new]
    BY <1>1, <2>1
  <2>4. c.orders = [b.orders EXCEPT ![id] = p]
    BY <1>1, <2>1
  <2> QED BY <2>2, <2>3, <2>4
<1> HIDE DEF c
<1>4. /\ p \in OrderRec /\ p.amount = o.amount - trade /\ p.owner = o.owner
      /\ p.book = o.book /\ p.isBuy = o.isBuy /\ p.price = o.price
  <2>1. o \in OrderRec /\ trade < o.amount
    BY <1>2
  <2>2. o.amount - trade \in Nat \ {0} /\ o.filledAccum + trade \in Nat
    <3> HIDE DEF o
    <3> QED BY <2>1 DEF OrderRec
  <2> HIDE DEF o
  <2>3. p.amount = o.amount - trade /\ p.filledAccum = o.filledAccum + trade
    BY <2>1 DEF OrderRec
  <2>4. p.owner = o.owner /\ p.book = o.book /\ p.isBuy = o.isBuy /\ p.price = o.price
    BY <2>1 DEF OrderRec
  <2>5. p \in OrderRec
    BY <2>1, <2>2, Zenon DEF OrderRec
  <2> QED BY <2>3, <2>4, <2>5
<1>5. old \in LevelRec /\ old.total \in Nat
      /\ InOrder(old.fifo, AtLevel(b, key)) /\ old.total = TotalAt(b, key)
  BY <1>1, <1>2 DEF Agrees, LevelAgrees, LevelRec
<1>6. id \in AtLevel(b, key)
  BY DEF AtLevel
<1>7. new \in LevelRec /\ new.fifo = old.fifo /\ new.total = old.total - trade
  <2>1. o.amount <= old.total
    BY <1>5, <1>6, TotalType DEF Agrees
  <2>2. old.total - trade \in Nat
    BY <1>2, <1>5, <2>1
  <2> HIDE DEF old
  <2> QED BY <1>5, <2>2 DEF LevelRec
<1> HIDE DEF p, new
<1>8. DOMAIN c.orders = D /\ \A i \in D : c.orders[i] = IF i = id THEN p ELSE b.orders[i]
  BY <1>1, <1>3
<1>9. LevelOf(p) = key
  BY <1>4 DEF LevelOf
<1>10. IsBook(c)
  <2>1. c.orders \in [D -> OrderRec]
    BY <1>1, <1>3, <1>4
  <2>2. c.levels \in [LevelKeys -> LevelRec]
    BY <1>1, <1>2, <1>3, <1>7
  <2> QED BY <1>1, <1>3, <1>8, <2>1, <2>2 DEF IsBook
<1>11. \A k : AtLevel(c, k) = AtLevel(b, k)
  BY <1>8, <1>9 DEF AtLevel
<1>12. \A n : OfOwner(c, n) = OfOwner(b, n)
  BY <1>4, <1>8 DEF OfOwner
<1>13. ASSUME NEW k \in LevelKeys
       PROVE  /\ c.levels[k] = IF k = key THEN new ELSE b.levels[k]
              /\ LevelAgrees(c, k)
  <2> DEFINE A == AtLevel(b, k)
             g == [i \in A |-> b.orders[i].amount]
             h == [i \in A |-> c.orders[i].amount]
  <2>1. c.levels[k] = IF k = key THEN new ELSE b.levels[k]
    BY <1>1, <1>2, <1>3
  <2>2. TotalAt(b, k) = SumFunctionOnSet(g, A) /\ TotalAt(c, k) = SumFunctionOnSet(h, A)
    BY <1>11 DEF TotalAt
  <2>3. IsFiniteSet(A) /\ A \subseteq D
        /\ \A i \in A : g[i] \in Int /\ g[i] = b.orders[i].amount
    BY TotalType DEF Agrees
  <2>4. \A i \in A : h[i] \in Int /\ h[i] = c.orders[i].amount
    <3>1. \A i \in AtLevel(c, k) : c.orders[i].amount \in Nat
      BY <1>10, TotalType
    <3> QED BY <1>11, <3>1
  <2>5. \A i \in A \ {id} : h[i] = g[i]
    BY <1>8, <2>3, <2>4
  <2>6. CASE k = key
    <3>1. id \in A /\ g[id] = o.amount /\ h[id] = o.amount - trade
      <4>1. id \in A
        BY <1>6, <2>6
      <4> QED BY <1>4, <1>8, <2>3, <2>4, <4>1
    <3> HIDE DEF A, g, h
    <3>2. SumFunctionOnSet(h, A) = SumFunctionOnSet(g, A) - g[id] + h[id]
      BY <2>3, <2>4, <2>5, <3>1, SumChange
    <3>3. SumFunctionOnSet(g, A) \in Nat
      BY <1>5, <2>2, <2>6
    <3>4. TotalAt(c, k) = new.total
      BY <1>2, <1>5, <1>7, <2>2, <2>6, <3>1, <3>2, <3>3
    <3>5. InOrder(new.fifo, AtLevel(c, k))
      BY <1>5, <1>7, <1>11, <2>6
    <3> QED BY <2>1, <2>6, <3>4, <3>5 DEF LevelAgrees
  <2>7. CASE k # key
    <3>1. id \notin A
      BY <2>7 DEF AtLevel
    <3>2. \A i \in A : h[i] = g[i]
      BY <2>5, <3>1
    <3> HIDE DEF A, g, h
    <3>3. TotalAt(c, k) = TotalAt(b, k)
      BY <2>2, <2>3, <3>2, SumSame
    <3>4. LevelAgrees(b, k)
      BY DEF Agrees
    <3> QED BY <1>11, <2>1, <2>7, <3>3, <3>4 DEF LevelAgrees
  <2> QED BY <2>1, <2>6, <2>7
<1>14. Agrees(c)
  <2>1. \A n \in Notes : InOrder(c.owners[n], OfOwner(c, n))
    BY <1>3, <1>12 DEF Agrees
  <2> QED BY <1>1, <1>3, <1>8, <1>10, <1>13, <2>1 DEF Agrees
<1>15. \A k \in LevelKeys : c.levels[k].fifo = b.levels[k].fifo
  BY <1>7, <1>13
<1> QED BY <1>8, <1>14, <1>15 DEF c, p, Reduced

\* _insertIntoBook: a new order goes to the end of its level and of its owner's list.
LEMMA InsertKeeps ==
  ASSUME NEW b, Agrees(b), NEW id \in Nat, \A i \in DOMAIN b.orders : i < id,
         NEW o \in OrderRec
  PROVE  /\ Agrees(InsertIntoBook(b, id, o))
         /\ DOMAIN InsertIntoBook(b, id, o).orders = DOMAIN b.orders \cup {id}
         /\ \A i \in DOMAIN b.orders \cup {id} : InsertIntoBook(b, id, o).orders[i]
              = IF i = id THEN o ELSE b.orders[i]
<1> DEFINE key == LevelOf(o)
           old == b.levels[key]
           new == [fifo |-> Append(old.fifo, id), total |-> old.total + o.amount]
           c == InsertIntoBook(b, id, o)
           D == DOMAIN b.orders
<1>1. /\ IsFiniteSet(D) /\ D \in SUBSET Nat /\ b.orders \in [D -> OrderRec]
      /\ b.levels \in [LevelKeys -> LevelRec] /\ b.owners \in [Notes -> Seq(Nat)]
      /\ b.count = Cardinality(D)
  BY DEF Agrees, IsBook
<1>2. key \in LevelKeys /\ o.owner \in Notes /\ o.amount \in Nat
  BY LevelOfOrder DEF OrderRec
<1>3. /\ c.orders = [i \in D \cup {id} |-> IF i = id THEN o ELSE b.orders[i]]
      /\ c.levels = [b.levels EXCEPT ![key] = new]
      /\ c.owners = [b.owners EXCEPT ![o.owner] = Append(@, id)]
      /\ c.count = b.count + 1
      /\ c = [orders |-> c.orders, levels |-> c.levels, owners |-> c.owners,
              count |-> c.count]
  BY DEF InsertIntoBook
<1> HIDE DEF c
<1>4. old \in LevelRec /\ old.fifo \in Seq(Nat) /\ old.total \in Nat
      /\ InOrder(old.fifo, AtLevel(b, key)) /\ old.total = TotalAt(b, key)
  BY <1>1, <1>2 DEF Agrees, LevelAgrees, LevelRec
<1>5. id \notin D
  BY <1>1
<1>6. Append(old.fifo, id) \in Seq(Nat) /\ InOrder(Append(old.fifo, id), AtLevel(b, key) \cup {id})
  <2>1. \A i \in AtLevel(b, key) : i < id
    BY DEF AtLevel
  <2> QED BY <1>4, <2>1, AppendInOrder
<1>7. new \in LevelRec /\ new.fifo = Append(old.fifo, id) /\ new.total = old.total + o.amount
  <2>1. old.total + o.amount \in Nat
    BY <1>2, <1>4
  <2> QED BY <1>6, <2>1 DEF LevelRec
<1> HIDE DEF new
<1>8. b.owners[o.owner] \in Seq(Nat) /\ InOrder(b.owners[o.owner], OfOwner(b, o.owner))
  BY <1>1, <1>2 DEF Agrees
<1>9. Append(b.owners[o.owner], id) \in Seq(Nat)
      /\ InOrder(Append(b.owners[o.owner], id), OfOwner(b, o.owner) \cup {id})
  <2>1. \A i \in OfOwner(b, o.owner) : i < id
    BY DEF OfOwner
  <2> QED BY <1>8, <2>1, AppendInOrder
<1>10. DOMAIN c.orders = D \cup {id}
       /\ \A i \in D \cup {id} : c.orders[i] = IF i = id THEN o ELSE b.orders[i]
  BY <1>3
<1>11. IsFiniteSet(D \cup {id}) /\ Cardinality(D \cup {id}) = Cardinality(D) + 1
  BY <1>1, <1>5, FS_AddElement, Zenon
<1>12. IsBook(c)
  <2>1. c.orders \in [D \cup {id} -> OrderRec]
    BY <1>1, <1>3
  <2>2. c.levels \in [LevelKeys -> LevelRec]
    BY <1>1, <1>2, <1>3, <1>7
  <2>3. c.owners \in [Notes -> Seq(Nat)]
    BY <1>1, <1>2, <1>3, <1>9
  <2>4. D \cup {id} \in SUBSET Nat
    BY <1>1
  <2> QED BY <1>3, <1>10, <1>11, <2>1, <2>2, <2>3, <2>4 DEF IsBook
<1>13. ASSUME NEW k \in LevelKeys PROVE LevelAgrees(c, k)
  <2>1. c.levels[k] = IF k = key THEN new ELSE b.levels[k]
    BY <1>1, <1>2, <1>3
  <2>2. /\ AtLevel(b, k) = AtLevel(c, k) \ {id}
        /\ TotalAt(b, k) = IF k = key THEN TotalAt(c, k) - o.amount ELSE TotalAt(c, k)
    <3>1. /\ DOMAIN b.orders = DOMAIN c.orders \ {id} /\ id \in DOMAIN c.orders
          /\ \A i \in DOMAIN b.orders : b.orders[i] = c.orders[i]
          /\ c.orders[id] = o
      BY <1>5, <1>10
    <3> QED BY <1>12, <3>1, TotalWithout DEF Agrees
  <2>3. TotalAt(c, k) \in Nat
    BY <1>12, TotalType
  <2>4. CASE k = key
    <3>1. AtLevel(c, k) = AtLevel(b, k) \cup {id}
      <4>1. id \in AtLevel(c, k)
        BY <1>10, <2>4 DEF AtLevel
      <4> QED BY <2>2, <4>1
    <3>2. TotalAt(c, k) = new.total
      BY <1>2, <1>4, <1>7, <2>2, <2>3, <2>4
    <3>3. InOrder(new.fifo, AtLevel(c, k))
      BY <1>6, <1>7, <2>4, <3>1
    <3> QED BY <2>1, <2>4, <3>2, <3>3 DEF LevelAgrees
  <2>5. CASE k # key
    <3>1. AtLevel(c, k) = AtLevel(b, k)
      <4>1. id \notin AtLevel(c, k)
        BY <1>10, <2>5 DEF AtLevel
      <4> QED BY <2>2, <4>1
    <3>2. LevelAgrees(b, k)
      BY DEF Agrees
    <3> QED BY <2>1, <2>2, <2>5, <3>1, <3>2 DEF LevelAgrees
  <2> QED BY <2>4, <2>5
<1>14. ASSUME NEW n \in Notes PROVE InOrder(c.owners[n], OfOwner(c, n))
  <2>1. CASE n = o.owner
    <3>1. OfOwner(c, n) = OfOwner(b, n) \cup {id}
      BY <1>5, <1>10, <2>1 DEF OfOwner
    <3>2. c.owners[n] = Append(b.owners[n], id)
      BY <1>1, <1>3, <2>1
    <3> QED BY <1>9, <2>1, <3>1, <3>2
  <2>2. CASE n # o.owner
    <3>1. OfOwner(c, n) = OfOwner(b, n)
      BY <1>5, <1>10, <2>2 DEF OfOwner
    <3>2. c.owners[n] = b.owners[n]
      BY <1>1, <1>3, <2>2
    <3> QED BY <3>1, <3>2 DEF Agrees
  <2> QED BY <2>1, <2>2
<1>15. Agrees(c)
  <2>1. c.count = Cardinality(DOMAIN c.orders)
    BY <1>1, <1>3, <1>10, <1>11
  <2> QED BY <1>12, <1>13, <1>14, <2>1 DEF Agrees
<1> QED BY <1>10, <1>15 DEF c
=============================================================================
