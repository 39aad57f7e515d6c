--------------------------- MODULE BookMatching ----------------------------
(***************************************************************************)
(* The matching engine of OrderBook.sol as operators on a book value: the  *)
(* price levels, the insertion and removal of resting orders, the fee      *)
(* arithmetic, the fill-or-kill pre-check and the capped match loop.       *)
(*                                                                         *)
(* An (outcomeId, epochId) pair is one element of Books: the contract never *)
(* compares orders of two outcomes or of two epochs.  The intrusive linked *)
(* lists are sequences of order identifiers in link order; client order    *)
(* identifiers, event emission and gas are left out.                       *)
(***************************************************************************)
EXTENDS Integers, Sequences, FiniteSetsExt, Functions

CONSTANTS Notes,                 \* owners (depositHash)
          Books,                 \* (outcomeId, epochId) pairs
          Prices,                \* valid limit prices, tick multiples above 0
          FULL_PERCENT,          \* price unit
          TAKER_FEE_RATE, FEE_DENOMINATOR,
          MAKER_REBATE_NUM, MAKER_REBATE_DEN,
          LOT, MIN_NOTIONAL,     \* lotSize and minOrderNotional of the token
          MAX_MATCHES_PER_CALL,
          MAX_PRECHECK_ITERATIONS,
          MAX_CANCEL_ALL_PER_CALL

ASSUME MatchingAssumption ==
  /\ Prices \subseteq Nat \ {0}
  /\ FULL_PERCENT \in Nat \ {0}
  /\ TAKER_FEE_RATE \in 0..FEE_DENOMINATOR
  /\ FEE_DENOMINATOR \in Nat \ {0}
  /\ MAKER_REBATE_NUM \in 0..MAKER_REBATE_DEN
  /\ MAKER_REBATE_DEN \in Nat \ {0}
  /\ LOT \in Nat \ {0}
  /\ MIN_NOTIONAL \in Nat
  /\ MAX_MATCHES_PER_CALL \in Nat \ {0}
  /\ MAX_PRECHECK_ITERATIONS \in Nat \ {0}
  /\ MAX_CANCEL_ALL_PER_CALL \in Nat \ {0}

NoPrice == 0
NoOrder == 0

-----------------------------------------------------------------------------
(* Arithmetic: every division rounds down, as in Solidity. *)

Notional(amount, price) == (amount * price) \div FULL_PERCENT

CollateralFor(isBuy, price, amount) ==
  IF isBuy THEN Notional(amount, price) ELSE amount

TakerFee(notional) == (notional * TAKER_FEE_RATE) \div FEE_DENOMINATOR
MakerRebate(fee) == (fee * MAKER_REBATE_NUM) \div MAKER_REBATE_DEN

\* The parameters of one placement.
PlaceParams ==
  [book : Books, isBuy : BOOLEAN, price : Nat, amount : Nat, minAmount : Nat,
   flags : SUBSET {"POST_ONLY", "IOC", "FOK", "MARKET"}]

IsMarket(p) == "MARKET" \in p.flags
IsMarketBuy(p) == IsMarket(p) /\ p.isBuy

\* Collateral a buy commits at placement: its cost and the worst-case fee.
Cost(p) == IF IsMarket(p) THEN p.amount ELSE Notional(p.amount, p.price)
FeeReserve(p) == IF p.isBuy THEN TakerFee(Cost(p)) ELSE 0
Lock(p) == IF p.isBuy THEN Cost(p) + FeeReserve(p) ELSE 0

\* The checks executeBatch applies before it queues a placement.
ValidPlace(p) ==
  /\ p.amount > 0
  /\ "POST_ONLY" \in p.flags => p.flags = {"POST_ONLY"} /\ p.minAmount = 0
  /\ ~({"IOC", "FOK"} \subseteq p.flags)
  /\ IF IsMarket(p)
     THEN /\ p.flags \cap {"IOC", "FOK"} = {}
          /\ p.minAmount = 0
          /\ p.isBuy => p.amount >= MIN_NOTIONAL
     ELSE /\ p.amount % LOT = 0
          /\ p.minAmount <= p.amount
          /\ p.price \in Prices
          /\ Notional(p.amount, p.price) >= MIN_NOTIONAL

-----------------------------------------------------------------------------
(* Callbacks to the PrivateNote of an owner. *)

\* The callback has no minAmount argument; op carries it for the properties.
PlacedMsg(owner, id, p, nonce) ==
  [to |-> owner, type |-> "Placed", id |-> id, op |-> p,
   feeReserve |-> FeeReserve(p), lock |-> Lock(p), nonce |-> nonce]

RejectedMsg(owner, p, nonce) ==
  [to |-> owner, type |-> "Rejected", op |-> p, nonce |-> nonce]

CancelledMsg(owner, id, isBuy, amount, book, nonce) ==
  [to |-> owner, type |-> "Cancelled", id |-> id, isBuy |-> isBuy,
   amount |-> amount, book |-> book, nonce |-> nonce]

FilledMsg(owner, id, isBuy, book, trade, price, refund, isTaker, isFinal) ==
  LET fee == TakerFee(Notional(trade, price)) IN
  [to |-> owner, type |-> "Filled", id |-> id, isBuy |-> isBuy, book |-> book,
   amount |-> trade, price |-> price, refund |-> refund,
   fee |-> IF isTaker THEN fee ELSE MakerRebate(fee),
   isRebate |-> ~isTaker, isFinal |-> isFinal]

BatchCompleteMsg(owner, nonce) ==
  [to |-> owner, type |-> "BatchComplete", nonce |-> nonce]

-----------------------------------------------------------------------------
(* The book: resting orders, price levels, owner lists, order count. *)

EmptyLevel == [fifo |-> <<>>, total |-> 0]

EmptyBook ==
  [orders |-> <<>>,
   levels |-> [k \in Books \X BOOLEAN \X Prices |-> EmptyLevel],
   owners |-> [n \in Notes |-> <<>>],
   count  |-> 0]

LevelOf(o) == <<o.book, o.isBuy, o.price>>

\* Mutant of InsertIntoBook: a new order goes to the front of its level.
InsertIntoBook_Lifo(b, id, o) ==
  [orders |-> [i \in DOMAIN b.orders \cup {id} |->
                 IF i = id THEN o ELSE b.orders[i]],
   levels |-> [b.levels EXCEPT ![LevelOf(o)] =
                 [fifo |-> <<id>> \o @.fifo, total |-> @.total + o.amount]],
   owners |-> [b.owners EXCEPT ![o.owner] = Append(@, id)],
   count  |-> b.count + 1]

InsertIntoBook(b, id, o) ==
  [orders |-> [i \in DOMAIN b.orders \cup {id} |->
                 IF i = id THEN o ELSE b.orders[i]],
   levels |-> [b.levels EXCEPT ![LevelOf(o)] =
                 [fifo |-> Append(@.fifo, id), total |-> @.total + o.amount]],
   owners |-> [b.owners EXCEPT ![o.owner] = Append(@, id)],
   count  |-> b.count + 1]

\* s lists the identifiers of S once each, in the order they were handed out.
InOrder(s, S) ==
  /\ {s[i] : i \in DOMAIN s} = S
  /\ \A i, j \in DOMAIN s : i < j => s[i] < s[j]

\* A linked list without the node id: what was before it, then what was after.
Unlink(s, id) ==
  LET at == CHOOSE i \in DOMAIN s : s[i] = id
  IN SubSeq(s, 1, at - 1) \o SubSeq(s, at + 1, Len(s))

\* Unlinks an order from its level and its owner; a removed slot is left alone.
RemoveFromBook(b, id) ==
  IF id \notin DOMAIN b.orders
  THEN b
  ELSE LET o == b.orders[id]
           old == b.levels[LevelOf(o)]
           left == Unlink(old.fifo, id)
           total == IF old.total >= o.amount THEN old.total - o.amount ELSE 0
       IN [orders |-> Restrict(b.orders, DOMAIN b.orders \ {id}),
           levels |-> [b.levels EXCEPT ![LevelOf(o)] =
                         IF left = <<>> THEN EmptyLevel
                         ELSE [fifo |-> left, total |-> total]],
           owners |-> [b.owners EXCEPT ![o.owner] = Unlink(@, id)],
           count  |-> b.count - 1]

\* A partial fill shrinks the resting order and its level together.
ReduceOrder(b, id, trade) ==
  [b EXCEPT !.orders[id].amount = @ - trade,
            !.orders[id].filledAccum = @ + trade,
            !.levels[LevelOf(b.orders[id])].total = @ - trade]

\* Removes the orders of a sequence, first to last, and answers their owners.
CancelEach(b, ids, nonce) ==
  LET left[k \in 0..Len(ids)] ==
        IF k = 0 THEN b ELSE RemoveFromBook(left[k - 1], ids[k])
  IN [b |-> left[Len(ids)],
      msgs |-> [i \in DOMAIN ids |->
                  LET o == b.orders[ids[i]] IN
                  CancelledMsg(o.owner, ids[i], o.isBuy,
                               CollateralFor(o.isBuy, o.price, o.amount),
                               o.book, nonce)]]

DoCancel(b, owner, id, nonce) ==
  IF id \in DOMAIN b.orders /\ b.orders[id].owner = owner
  THEN CancelEach(b, <<id>>, nonce)
  ELSE [b |-> b, msgs |-> <<>>]

DoCancelAll(b, owner, nonce) ==
  LET ids == b.owners[owner] IN
  CancelEach(b, SubSeq(ids, 1, Min({Len(ids), MAX_CANCEL_ALL_PER_CALL})), nonce)

-----------------------------------------------------------------------------
(* Level navigation and crossing. *)

OppositePrices(b, p) ==
  {q \in Prices : b.levels[<<p.book, ~p.isBuy, q>>].fifo # <<>>}

\* Best opposite price, or the next worse one after last; NoPrice if none.
NextOpposite(b, p, last) ==
  LET beyond == {q \in OppositePrices(b, p) :
                   last # NoPrice => IF p.isBuy THEN q > last ELSE q < last}
  IN IF beyond = {} THEN NoPrice
     ELSE IF p.isBuy THEN Min(beyond) ELSE Max(beyond)

PricesCross(p, q) ==
  IsMarket(p) \/ (IF p.isBuy THEN p.price >= q ELSE q >= p.price)

-----------------------------------------------------------------------------
(* The resumable FOK / minAmount pre-check. *)

MinFill(p) == IF "FOK" \in p.flags THEN p.amount ELSE p.minAmount

\* The walk's state once a level has been added; open, reached or yield.
Walked(p, accum, last, walked) ==
  [accum |-> accum, last |-> last, walked |-> walked,
   state |-> IF accum >= MinFill(p) THEN "reached"
             ELSE IF walked >= MAX_PRECHECK_ITERATIONS THEN "yield" ELSE "open"]

\* The walk at level price q; short if no crossing level is left.
PrecheckAt(b, p, s, q) ==
  IF q = NoPrice \/ ~PricesCross(p, q) THEN [s EXCEPT !.state = "short"]
  ELSE Walked(p, s.accum + b.levels[<<p.book, ~p.isBuy, q>>].total, q,
              s.walked + 1)

PrecheckStep(b, p, s) ==
  IF s.state # "open" THEN s
  ELSE PrecheckAt(b, p, s, NextOpposite(b, p, s.last))

\* Mutant of Precheck: a resumed walk starts again at the best level.
Precheck_Restarts(b, p, accum, last) ==
  LET start == [accum |-> accum, walked |-> 0, state |-> "open",
                last |-> NoPrice]
      walk[k \in 0..(MAX_PRECHECK_ITERATIONS + 1)] ==
        IF k = 0 THEN start ELSE PrecheckStep(b, p, walk[k - 1])
  IN walk[MAX_PRECHECK_ITERATIONS + 1]

\* The cursor counts only once a level has been walked (inPrecheckAccum > 0).
Precheck(b, p, accum, last) ==
  LET start == [accum |-> accum, walked |-> 0, state |-> "open",
                last |-> IF accum = 0 THEN NoPrice ELSE last]
      walk[k \in 0..(MAX_PRECHECK_ITERATIONS + 1)] ==
        IF k = 0 THEN start ELSE PrecheckStep(b, p, walk[k - 1])
  IN walk[MAX_PRECHECK_ITERATIONS + 1]

-----------------------------------------------------------------------------
(* The match loop.  Its state s holds the book, the fees and callbacks so  *)
(* far, what remains of the taker (quote for a market buy, base otherwise) *)
(* and the cursor: the level price and the orders still to visit there.    *)

\* Mutant of TradeSize: a market buy is not capped by what its quote affords.
TradeSize_Uncapped(p, remaining, makerAmount, price) ==
  Min({remaining, makerAmount})

TradeSize(p, remaining, makerAmount, price) ==
  IF IsMarketBuy(p)
  THEN Min({makerAmount, (remaining * FULL_PERCENT) \div price})
  ELSE Min({remaining, makerAmount})

\* The state after taker t trades with resting order id for a taker fee.
Trade(t, s, id, maker, trade, price, spent, fee, rest) ==
  [b |-> IF maker.amount = trade THEN RemoveFromBook(s.b, id)
         ELSE ReduceOrder(s.b, id, trade),
   fees |-> [protocol |-> s.fees.protocol + fee - MakerRebate(fee),
             rebates |-> s.fees.rebates + MakerRebate(fee)],
   msgs |-> s.msgs \o
     << FilledMsg(maker.owner, id, maker.isBuy, t.op.book, trade, price, 0,
                  FALSE, maker.amount = trade),
        FilledMsg(t.owner, t.id, t.op.isBuy, t.op.book, trade, price,
                  IF t.op.isBuy /\ ~IsMarket(t.op)
                  THEN Notional(trade, t.op.price - price) ELSE 0,
                  TRUE, spent = s.remaining) >>,
   remaining |-> Max({0, s.remaining - spent}),
   filled |-> s.filled + trade,
   price |-> price,
   todo |-> rest,
   matches |-> s.matches + 1,
   stop |-> "go"]

\* One match of taker t against the first order of todo, of the given size;
\* nothing is traded if the quote left does not pay for one unit.
Fill(t, s, todo, price, trade) ==
  IF trade = 0 THEN [s EXCEPT !.stop = "dust"]
  ELSE Trade(t, s, Head(todo), s.b.orders[Head(todo)], trade, price,
             IF IsMarketBuy(t.op) THEN Notional(trade, price) ELSE trade,
             TakerFee(Notional(trade, price)), Tail(todo))

\* The next step of the walk at a level: orders todo are still to visit.
MatchAt(t, s, price, todo) ==
  IF s.remaining = 0 \/ price = NoPrice \/ ~PricesCross(t.op, price)
  THEN [s EXCEPT !.stop = "done"]
  ELSE IF s.matches >= MAX_MATCHES_PER_CALL THEN [s EXCEPT !.stop = "cap"]
  ELSE Fill(t, s, todo, price,
            TradeSize(t.op, s.remaining, s.b.orders[Head(todo)].amount, price))

\* The walk enters the level at price, the best one not yet visited.
EnterLevel(t, s, price) ==
  MatchAt(t, s, price, s.b.levels[<<t.op.book, ~t.op.isBuy, price>>].fifo)

MatchStep(t, s) ==
  CASE s.stop # "go" -> s
    [] s.stop = "go" /\ s.todo # <<>> -> MatchAt(t, s, s.price, s.todo)
    [] OTHER -> EnterLevel(t, s, NextOpposite(s.b, t.op, s.price))

MatchLoop(t, b, fees, filled) ==
  LET start == [b |-> b, fees |-> fees, msgs |-> <<>>, filled |-> filled,
                remaining |-> t.op.amount, price |-> NoPrice, todo |-> <<>>,
                matches |-> 0, stop |-> "go"]
      run[k \in 0..(MAX_MATCHES_PER_CALL + 1)] ==
        IF k = 0 THEN start ELSE MatchStep(t, run[k - 1])
  IN run[MAX_MATCHES_PER_CALL + 1]

-----------------------------------------------------------------------------
(* _doPlace on queue entry h, whose order has identifier id. *)

\* A queue entry, as far as executing it depends on its shape.
EntryFields == {"kind", "owner", "op", "target", "filledAccum", "precheckDone",
                "precheckAccum", "precheckLast", "batchEnd", "nonce"}
Shaped(h) == h = [f \in EntryFields |-> h[f]]
\* What is left of the checks of executeBatch while a placement is executed.
IsOrder(p) ==
  /\ p \in PlaceParams /\ p.amount > 0
  /\ IF IsMarket(p) THEN "FOK" \notin p.flags /\ p.minAmount = 0 ELSE p.price \in Prices
IsEntry(h) ==
  /\ Shaped(h) /\ h.kind \in {"place", "cancel", "cancelAll"}
  /\ h.owner \in Notes /\ h.target \in Nat /\ h.filledAccum \in Nat
  /\ h.batchEnd \in BOOLEAN /\ h.precheckDone \in BOOLEAN
  /\ h.kind = "place" => IsOrder(h.op)

\* The taker leaves without resting; returnAmt is what OrderBook reports.
CancelNoBookEntry(t, remaining) ==
  <<CancelledMsg(t.owner, t.id, t.op.isBuy,
                 IF IsMarketBuy(t.op) THEN remaining
                 ELSE CollateralFor(t.op.isBuy, t.op.price, remaining),
                 t.op.book, t.nonce)>>

RestingOrder(t, remaining, filled) ==
  [owner |-> t.owner, book |-> t.op.book, isBuy |-> t.op.isBuy,
   price |-> t.op.price, amount |-> remaining,
   initialAmount |-> t.op.amount, filledAccum |-> filled]

\* Result: new book and fees, callbacks, and the entry to keep at the head
\* (keep = TRUE) when the pre-check or the match loop has to be continued.
Leave(h, b, fees, msgs) ==
  [b |-> b, fees |-> fees, msgs |-> msgs, keep |-> FALSE, entry |-> h]

\* The taker whose match loop ended in s rests, or leaves with its remainder.
RestOrLeave(h, t, s, msgs) ==
  IF s.remaining > 0 /\ t.op.flags \cap {"IOC", "FOK", "MARKET"} = {}
  THEN Leave(h, InsertIntoBook(s.b, t.id,
                               RestingOrder(t, s.remaining, s.filled)),
             s.fees, msgs)
  ELSE Leave(h, s.b, s.fees,
             IF s.remaining > 0 THEN msgs \o CancelNoBookEntry(t, s.remaining)
             ELSE msgs)

\* Mutant of AfterMatch: the remainder rests when the match cap is hit.
AfterMatch_NoContinuation(h, t, s, placed) ==
  RestOrLeave(h, t, s, placed \o s.msgs)

AfterMatch(h, t, s, placed) ==
  IF s.stop = "cap"
  THEN [b |-> s.b, fees |-> s.fees, msgs |-> placed \o s.msgs, keep |-> TRUE,
        entry |-> [h EXCEPT !.op.amount = s.remaining, !.target = t.id,
                            !.precheckDone = TRUE, !.precheckAccum = 0,
                            !.precheckLast = NoPrice,
                            !.filledAccum = s.filled]]
  ELSE RestOrLeave(h, t, s, placed \o s.msgs)

\* What the pre-check found: too little, not finished, or go on and match.
AfterPrecheck(b, fees, h, t, checked, placed) ==
  CASE checked.state = "short" ->
         Leave(h, b, fees, placed \o CancelNoBookEntry(t, t.op.amount))
    [] checked.state = "yield" ->
         [b |-> b, fees |-> fees, msgs |-> placed, keep |-> TRUE,
          entry |-> [h EXCEPT !.target = t.id,
                              !.precheckAccum = checked.accum,
                              !.precheckLast = checked.last]]
    [] OTHER ->
         AfterMatch(h, t, MatchLoop(t, b, fees, h.filledAccum), placed)

PostOnlyCrosses(p, best) ==
  "POST_ONLY" \in p.flags /\ best # NoPrice /\ PricesCross(p, best)

\* A walk that need not be made: no minimum, or an earlier pass made it.
NoWalk == [accum |-> 0, last |-> NoPrice, walked |-> 0, state |-> "reached"]

Place(b, fees, h, t, placed) ==
  IF h.target = NoOrder /\ PostOnlyCrosses(t.op, NextOpposite(b, t.op, NoPrice))
  THEN Leave(h, b, fees, placed \o CancelNoBookEntry(t, t.op.amount))
  ELSE AfterPrecheck(b, fees, h, t,
         IF MinFill(t.op) > 0 /\ ~h.precheckDone
         THEN Precheck(b, t.op, h.precheckAccum, h.precheckLast) ELSE NoWalk,
         placed)

DoPlace(b, fees, h, id) ==
  Place(b, fees, h,
        [owner |-> h.owner, id |-> id, op |-> h.op, nonce |-> h.nonce],
        IF h.target = NoOrder THEN <<PlacedMsg(h.owner, id, h.op, h.nonce)>>
        ELSE <<>>)
=============================================================================
