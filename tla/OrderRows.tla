------------------------------ MODULE OrderRows ------------------------------
(***************************************************************************)
(* live_orders and trades of one order book: the projectors of its events, *)
(* and what GET /depth, /trades, /orders and /account/balances and the     *)
(* resolution of a cancel request read from them.                          *)
(*                                                                         *)
(* i is the event's msg_chain_order.  Prices and amounts stay in chain     *)
(* units here (Served has the grid they are shown on).                     *)
(***************************************************************************)
EXTENDS ReadModel

CONSTANTS OrderIds,
          OwnerNotes \* private notes that own orders

OrderTables == [orders |-> [o \in OrderIds |-> NULL], trades |-> {}]

ClosedStatuses == {"FILLED", "CANCELLED", "REJECTED"}

NewOrderRow(e, i) ==
  [outcome |-> e.outcome, isBuy |-> e.isBuy, price |-> e.price, initial |-> e.amount,
   remaining |-> e.amount, status |-> "OPEN", owner |-> NULL,
   placed |-> i, last |-> i]

-----------------------------------------------------------------------------
(* Projectors. *)

\* A replay rewrites only a row that no later event has touched.
ApplyOrderPlaced(db, e, i) ==
  LET row == db.orders[e.id]
      new == NewOrderRow(e, i)
  IN IF row = NULL THEN Applied([db EXCEPT !.orders[e.id] = new])
     ELSE IF row.status \notin ClosedStatuses /\ row.remaining = row.initial
     THEN Applied([db EXCEPT !.orders[e.id] =
            [new EXCEPT !.owner = row.owner, !.placed = row.placed,
                        !.last = Greatest(row.last, i)]])
     ELSE Applied(db)

\* The first owner is kept.
ApplyOrderPlacedConfirmed(db, e) ==
  UpdateRow(db, "orders", e.id, LAMBDA r : [r EXCEPT !.owner = Coalesce(@, e.note)])

\* A terminal row ignores a fill; an open row without remainder keeps its status.
FilledRow(r, amount, i) ==
  IF r.status \in ClosedStatuses THEN r
  ELSE [r EXCEPT !.remaining = IF @ > amount THEN @ - amount ELSE 0,
                 !.status = IF r.remaining > 0 /\ r.remaining <= amount
                            THEN "FILLED" ELSE @,
                 !.last = Greatest(@, i)]

TradeOf(db, e, i) ==
  [id |-> i, outcome |-> db.orders[e.id].outcome, price |-> e.price, qty |-> e.amount,
   buyerMaker |-> ~db.orders[e.id].isBuy, time |-> TRUE]

\* The taker's event is recorded once per chain order, whatever the order's state.
TapeAfter(db, e, i) ==
  IF e.taker /\ \A t \in db.trades : t.id # i
  THEN db.trades \cup {TradeOf(db, e, i)} ELSE db.trades

ApplyOrderFilled(db, e, i) ==
  IF db.orders[e.id] = NULL THEN Deferred(db)
  ELSE Applied([db EXCEPT !.orders[e.id] = FilledRow(@, e.amount, i),
                          !.trades = TapeAfter(db, e, i)])

\* Mutant: a cancellation closes only an order that has not traded.
CancelledRow_Untraded(r, i) ==
  IF r.status \in ClosedStatuses \/ r.remaining < r.initial THEN r
  ELSE [r EXCEPT !.status = "CANCELLED", !.last = Greatest(@, i)]

\* A terminal status is kept; the remainder stays, so the executed part shows.
CancelledRow(r, i) ==
  IF r.status \in ClosedStatuses THEN r
  ELSE [r EXCEPT !.status = "CANCELLED", !.last = Greatest(@, i)]

ApplyOrderCancelled(db, e, i) ==
  UpdateRow(db, "orders", e.id, LAMBDA r : CancelledRow(r, i))

-----------------------------------------------------------------------------
(* What the API serves. *)

RowsOf(db) == {o \in OrderIds : db.orders[o] # NULL}
Resting(db) == {o \in RowsOf(db) : db.orders[o].status = "OPEN" /\ db.orders[o].remaining > 0}

RowsFor(db, outcome) == {o \in RowsOf(db) : db.orders[o].outcome = outcome}

\* get_depth, first statement: the remainders summed per side and price.
DepthLevels(db, outcome) ==
  LET open == Resting(db) \cap RowsFor(db, outcome)
      level(o) == [isBuy |-> db.orders[o].isBuy, price |-> db.orders[o].price]
      qty(l) == MapThenSumSet(LAMBDA o : db.orders[o].remaining,
                              {o \in open : level(o) = l})
  IN {<<l, qty(l)>> : l \in {level(o) : o \in open}}

\* get_depth, last statement: lastUpdateId.
LastUpdateId(db, outcome) ==
  Max({db.orders[o].last : o \in RowsFor(db, outcome)} \cup {0})

\* order_from_row: the public status; NULL for a row that is skipped.
PublicStatus(r) ==
  CASE r.status = "OPEN" /\ r.remaining = 0 -> NULL
    [] r.status = "OPEN" /\ r.remaining = r.initial -> "NEW"
    [] r.status = "OPEN" /\ 0 < r.remaining /\ r.remaining < r.initial -> "PARTIALLY_FILLED"
    [] r.status = "FILLED" -> "FILLED"
    [] r.status = "CANCELLED" -> "CANCELED"
    [] OTHER -> NULL

ExecutedQty(r) == r.initial - r.remaining

Behind(db, note, cursor) ==
  {o \in RowsOf(db) : db.orders[o].owner = note
                      /\ (cursor = NULL \/ db.orders[o].placed < cursor)}

\* list_orders: the newest orders of a note behind the cursor, and the next one.
OrdersPage(db, note, cursor, limit) ==
  LET rows == Behind(db, note, cursor)
      page == {o \in rows : Cardinality({p \in rows : db.orders[p].placed
                                                       > db.orders[o].placed}) < limit}
  IN [orders |-> {o \in page : PublicStatus(db.orders[o]) # NULL},
      next   |-> IF page = rows THEN NULL
                 ELSE Min({db.orders[o].placed : o \in page})]

\* resolve_for_cancel: the order must be open, of the outcome that the request
\* names, and owned by the caller's note.
ResolveForCancel(db, o, outcome, note) ==
  /\ o \in Resting(db)
  /\ db.orders[o].outcome = outcome /\ db.orders[o].owner = note

SumOpenSellRemaining(db, note, outcome) ==
  MapThenSumSet(LAMBDA o : db.orders[o].remaining,
                {o \in RowsFor(db, outcome) :
                   /\ db.orders[o].owner = note /\ ~db.orders[o].isBuy
                   /\ db.orders[o].status = "OPEN"})
==============================================================================
