-------------------------- MODULE OrderBookSystem --------------------------
(***************************************************************************)
(* The order book closed with its environment: notes that send batches and *)
(* cancel-all requests, accounts that poke the public processHead, and the *)
(* market (PMP), which sends shutdown once and may move the result start.  *)
(* History variables record what the book told the notes about each order  *)
(* and each operation; the properties relate them to the book's state.     *)
(***************************************************************************)
EXTENDS OrderBook

CONSTANTS Batches,     \* the order sequences a batch may carry
          Cancels,     \* the sequences of identifiers a batch may cancel
          MaxOps,      \* bound: operations the notes send
          MaxPokes,    \* bound: external processHead calls
          MaxTime,     \* bound: the clock
          MayShutdown  \* whether the market shuts the book down

ASSUME EnvironmentAssumption ==
  /\ \A orders \in Batches : orders \in Seq(PlaceParams)
  /\ \A ids \in Cancels : ids \in Seq(Nat)
  /\ MaxOps \in Nat /\ MaxPokes \in Nat /\ MaxTime \in Nat
  /\ MayShutdown \in BOOLEAN

VARIABLES ops, pokes,  \* counters for the bounds; ops is the last opNonce
          shutdownSent,
          hist,        \* order id -> what its owner has been told of it
          asked,       \* nonce -> number of orders sent
          answers,     \* nonce -> how many were answered Placed or Rejected
          acked        \* nonce -> how many BatchComplete were sent

envVars == <<ops, pokes, shutdownSent>>
histVars == <<hist, asked, answers, acked>>
vars == <<obVars, envVars, histVars>>

Nonces == 1..MaxOps

-----------------------------------------------------------------------------
(* History. *)

NewOrder(m) ==
  [owner |-> m.to, op |-> m.op, filled |-> 0, spent |-> 0, returned |-> 0,
   ends |-> 0]

\* What a Filled callback takes out of the owner's collateral: a buy pays the
\* notional, gets the price improvement back and pays the fee as a taker.
FillCharge(m) ==
  IF m.isBuy
  THEN Notional(m.amount, m.price) + m.refund + (IF m.isRebate THEN 0 ELSE m.fee)
  ELSE 0

Record(h, m) ==
  CASE m.type = "Placed" ->
         [i \in DOMAIN h \cup {m.id} |-> IF i = m.id THEN NewOrder(m) ELSE h[i]]
    [] m.type = "Filled" /\ m.id \in DOMAIN h ->
         [h EXCEPT ![m.id].filled = @ + m.amount,
                   ![m.id].spent = @ + FillCharge(m),
                   ![m.id].ends = IF m.isFinal THEN @ + 1 ELSE @]
    [] m.type = "Cancelled" /\ m.id \in DOMAIN h ->
         [h EXCEPT ![m.id].returned = @ + m.amount, ![m.id].ends = @ + 1]
    [] OTHER -> h

\* The history once a step's callbacks have arrived, first to last.
Recorded(h, msgs) ==
  LET told[k \in 0..Len(msgs)] ==
        IF k = 0 THEN h ELSE Record(told[k - 1], msgs[k])
  IN told[Len(msgs)]

Count(msgs, types, nonce) ==
  Cardinality({i \in DOMAIN msgs : msgs[i].type \in types /\ msgs[i].nonce = nonce})

Observe ==
  /\ hist' = Recorded(hist, out')
  /\ answers' = [k \in Nonces |->
                   answers[k] + Count(out', {"Placed", "Rejected"}, k)]
  /\ acked' = [k \in Nonces |-> acked[k] + Count(out', {"BatchComplete"}, k)]

-----------------------------------------------------------------------------

Init ==
  /\ OBInit
  /\ resultStart \in 1..MaxTime
  /\ ops = 0 /\ pokes = 0 /\ shutdownSent = FALSE
  /\ hist = <<>>
  /\ asked = [k \in Nonces |-> 0]
  /\ answers = [k \in Nonces |-> 0]
  /\ acked = [k \in Nonces |-> 0]

SendBatch(n, orders, cancels) ==
  /\ ops < MaxOps
  /\ ExecuteBatch(n, orders, cancels, ops + 1)
  /\ ops' = ops + 1
  /\ asked' = [asked EXCEPT ![ops + 1] = Len(orders)]
  /\ Observe
  /\ UNCHANGED <<pokes, shutdownSent>>

SendCancelAll(n) ==
  /\ ops < MaxOps
  /\ CancelAllOrders(n, ops + 1)
  /\ ops' = ops + 1
  /\ Observe
  /\ UNCHANGED <<pokes, shutdownSent, asked>>

Poke ==
  /\ pokes < MaxPokes
  /\ PokeProcessHead
  /\ pokes' = pokes + 1
  /\ Observe
  /\ UNCHANGED <<ops, shutdownSent, asked>>

SendShutdown ==
  /\ MayShutdown /\ ~shutdownSent
  /\ PMPShutdown
  /\ shutdownSent' = TRUE
  /\ Observe
  /\ UNCHANGED <<ops, pokes, asked>>

SelfCall ==
  /\ SelfProcessHead \/ SelfShutdown
  /\ Observe
  /\ UNCHANGED <<envVars, asked>>

Reschedule(t) ==
  /\ SetResultStart(t)
  /\ UNCHANGED <<envVars, histVars>>

Pass ==
  /\ now < MaxTime
  /\ Tick
  /\ UNCHANGED <<envVars, histVars>>

Next ==
  \/ \E n \in Notes, orders \in Batches, cancels \in Cancels :
       SendBatch(n, orders, cancels)
  \/ \E n \in Notes : SendCancelAll(n)
  \/ Poke
  \/ SendShutdown
  \/ SelfCall
  \/ \E t \in 1..MaxTime : Reschedule(t)
  \/ Pass

Spec == Init /\ [][Next]_vars

\* Weak fairness of SelfCall: the chain delivers every message a contract sends
\* to itself.  ENABLED <<SelfCall>>_vars is written out: the account exists and
\* a call is in flight.  Nothing is assumed of the notes or of the market.
FairSpec == /\ Spec
            /\ []<>(~(alive /\ selfCalls # <<>>)) \/ []<><<SelfCall>>_vars

-----------------------------------------------------------------------------
(* Properties. *)

Ids == DOMAIN book.orders

SumAmounts(ids) == SumFunctionOnSet([i \in ids |-> book.orders[i].amount], ids)

\* The type of the book's control state (OrderBook.sol:181-236): the queue never
\* exceeds its capacity, and only the two continuations are ever self-called.
TypeOK ==
  /\ nextOrderId \in Nat \ {0}
  /\ Len(queue) \in 0..QUEUE_CAPACITY
  /\ shuttingDown \in BOOLEAN /\ shutdownPending \in BOOLEAN
  /\ shutdownCursor \in 0..nextOrderId
  /\ alive \in BOOLEAN
  /\ selfCalls \in Seq({"processHead", "shutdown"})

\* No buy of a book meets or exceeds a sell of the same book.
Uncrossed ==
  \A i, j \in Ids :
    (/\ book.orders[i].book = book.orders[j].book
     /\ book.orders[i].isBuy /\ ~book.orders[j].isBuy)
    => book.orders[i].price < book.orders[j].price

\* Every view of the book agrees (_insertIntoBook, _removeFromBook and the
\* partial-fill branch of _doPlace): a resting order is on exactly one level
\* and in its owner's list once, a level's totalAmount is the sum of its
\* orders, level and owner lists are in placement order, the count is right.
\* Resting orders do not cross: _doPlace inserts a remainder only after its
\* match loop has used up every crossing level, across all its continuations.
BookConsistent ==
  /\ Ids \subseteq 1..(nextOrderId - 1)
  /\ book.count = Cardinality(Ids)
  /\ \A k \in DOMAIN book.levels :
       LET l == book.levels[k]
           ids == {i \in Ids : LevelOf(book.orders[i]) = k}
       IN /\ l.total = SumAmounts(ids)
          /\ InOrder(l.fifo, ids)
  /\ \A n \in Notes :
       InOrder(book.owners[n], {i \in Ids : book.orders[i].owner = n})
  /\ \A i \in Ids : book.orders[i].amount > 0
  /\ Uncrossed

InProgress == {h \in {queue[i] : i \in DOMAIN queue} :
                 h.kind = "place" /\ h.target # NoOrder}
Ended(i) == hist[i].ends > 0

\* No order is lost or ended twice: while the book lives, the orders that were
\* announced and have not ended are exactly the resting ones and the one being
\* matched at the queue's head, and destruction leaves none.  The owner frees
\* its open-order slot on the terminal callback only.
OrderLifecycle ==
  /\ \A i \in DOMAIN hist : hist[i].ends <= 1
  /\ {i \in DOMAIN hist : ~Ended(i)} = Ids \cup {h.target : h \in InProgress}
  /\ InProgress # {} => Ids \cap {h.target : h \in InProgress} = {}
  /\ ~alive => \A i \in DOMAIN hist : Ended(i)

\* Fill-or-kill and minAmount hold across continuations (the argument of the
\* comment at OrderBook.sol:1012-1018): once such an order is no longer being
\* matched it has traded at least its minimum or nothing at all.
FillGuarantee ==
  \A i \in DOMAIN hist :
    (i \notin {h.target : h \in InProgress} /\ hist[i].filled > 0)
    => hist[i].filled >= MinFill(hist[i].op)

\* What the callbacks of an order take from its owner: a buy is never charged
\* and returned more than it locked (cost and fee reserve), whatever the
\* rounding of its fills; a sell that ended has sold or got back every token.
CollateralCovered ==
  \A i \in DOMAIN hist :
    LET h == hist[i] IN
    IF h.op.isBuy THEN h.spent + h.returned <= Lock(h.op)
    ELSE Ended(i) => h.filled + h.returned = h.op.amount

PendingOf(k) ==
  Cardinality({i \in DOMAIN queue : /\ queue[i].nonce = k
                                    /\ queue[i].kind = "place"
                                    /\ queue[i].target = NoOrder})

\* Every order a note sends is answered once, Placed or Rejected, whether it
\* is invalid, finds the queue full, is executed or meets a shutdown; only
\* those still untouched in the queue are not yet answered.  Every operation
\* is acknowledged once, and not while an entry of it is left in the queue:
\* its last entry, and no other, carries the isBatchEnd mark.
AnsweredOnce ==
  /\ \A k \in Nonces : asked[k] = answers[k] + PendingOf(k)
  /\ \A k \in 1..ops :
       LET mine == {i \in DOMAIN queue : queue[i].nonce = k} IN
       IF mine = {} THEN acked[k] = 1
       ELSE /\ acked[k] = 0
            /\ {i \in mine : queue[i].batchEnd} = {Max(mine)}

SelfCallsInFlight == {selfCalls[i] : i \in DOMAIN selfCalls}

\* The book cannot get stuck: a queue entry always has a processHead call
\* coming, a deferred shutdown is promoted once the queue is empty, a drain
\* has identifiers left to scan and goes on until the account is gone, and it
\* never runs beside queue entries.
NoStuckHead ==
  alive =>
    /\ queue # <<>> => "processHead" \in SelfCallsInFlight
    /\ queue = <<>> /\ shutdownPending => "shutdown" \in SelfCallsInFlight
    /\ shuttingDown => /\ queue = <<>>
                       /\ "shutdown" \in SelfCallsInFlight
                       /\ shutdownCursor \in 1..(nextOrderId - 1)

\* What the termination argument at OrderBook.sol:1487-1491 rests on: once the
\* drain is latched it stays latched, no identifier is handed out any more, and
\* the scan cursor only moves forward, by at least one per drain pass, up to
\* the frozen _nextOrderId.
DrainStep ==
  shuttingDown =>
    /\ shuttingDown'
    /\ nextOrderId' = nextOrderId
    /\ shutdownCursor' \in shutdownCursor..nextOrderId
    /\ SelfShutdown => shutdownCursor' > shutdownCursor
DrainAdvances == [][DrainStep]_vars

MakerFills == {out[i] : i \in {j \in DOMAIN out :
                                 out[j].type = "Filled" /\ out[j].isRebate}}

\* Whether resting order i comes before order j of the same side and price rule.
Before(i, j, b) ==
  LET o == b.orders[i] p == b.orders[j] IN
  /\ o.book = p.book /\ o.isBuy = p.isBuy
  /\ \/ IF o.isBuy THEN o.price > p.price ELSE o.price < p.price
     \/ o.price = p.price /\ i < j

TakerOf(m) == CHOOSE f \in {out'[i] : i \in DOMAIN out'} :
                f.type = "Filled" /\ ~f.isRebate

\* Priority of one step: an order is matched only if all that come before it
\* are used up by the same step.
BestFirst ==
  \A m \in MakerFills', i \in Ids :
    (m.id \in Ids /\ Before(i, m.id, book)) => i \notin Ids'

MarketBuyStep ==
  \E m \in MakerFills' : LET i == TakerOf(m).id IN
    i \in DOMAIN hist' /\ IsMarketBuy(hist'[i].op)

\* Price-time priority of limit orders and market sells (OrderBook.sol:866).
\* A market buy whose last fill cost nothing goes on past a maker it did not
\* use up (OrderBook.sol:993).
PriceTimePriority == [][MarketBuyStep \/ BestFirst]_vars

\* Every operation the book accepted is acknowledged in the end, which frees
\* the note's busy latch, also when the book is shut down under it, and a
\* shutdown ends in destruction, whatever is queued when it arrives.  (Both are
\* for good, and a behaviour has finitely many operations.)
WorkEnds ==
  []<>(/\ \A k \in 1..ops : acked[k] = 1
       /\ shutdownSent => ~alive)
=============================================================================
