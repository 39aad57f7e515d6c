--------------------------- MODULE PredictionIndex ---------------------------
(***************************************************************************)
(* The prediction side of the indexer and of the read API: the contracts   *)
(* emit events, the projection loop and the two reconcilers write the      *)
(* tables, clients read them.  A reconciler fetches an account's state and *)
(* writes it later, so it may write a state the chain has left behind.     *)
(***************************************************************************)
EXTENDS MarketRows, OrderRows, Reprojection

CONSTANTS FULL,       \* the price of certainty, FULL_PERCENT of the book
          PAGE_LIMIT  \* limit of an /orders page

VARIABLES pmp,     \* the market contracts
          book,    \* the order book: the orders placed so far
          fetched, \* the market reconciler's BOC in hand
          listBoc, \* the event list reconciler's
          reader   \* a client paging through GET /orders

taskVars == <<fetched, listBoc>>
predVars == <<pmp, book, taskVars, reader>>

NewPmp == [st |-> "none", confirmed |-> {}, approved |-> {}, timings |-> 0,
           frozen |-> FALSE, resolved |-> FALSE, cancelled |-> FALSE]
NoReader == [note |-> NULL, cursor |-> NULL, visible |-> {}, got |-> {}, repeated |-> FALSE]

PredInit ==
  /\ pmp = [p \in Pmps |-> NewPmp]
  /\ book = [o \in OrderIds |-> NULL]
  /\ fetched = NULL /\ listBoc = NULL /\ reader = NoReader

-----------------------------------------------------------------------------
(* The contracts, as far as the indexer can tell. *)

Market(p, new, events) ==
  /\ pmp' = [pmp EXCEPT ![p] = new]
  /\ Emit(events)
  /\ UNCHANGED <<done, after, floor, aged, db, faults, plan, book, taskVars, reader>>

Event(type, p) == [type |-> type, pmp |-> p]
Alive(p) == pmp[p].st = "alive"
FullyApproved(p) == pmp[p].approved = plan.lists

\* The note announces the market before its constructor has run.
DeployPmp(p) ==
  /\ pmp[p].st = "none" /\ p \in plan.pmps
  /\ Market(p, [pmp[p] EXCEPT !.st = "announced"], <<Event("PMPDeployed", p)>>)

Construct(p) ==
  /\ pmp[p].st = "announced"
  /\ Market(p, [pmp[p] EXCEPT !.st = "alive"], <<>>)

ConfirmEvent(p, l) ==
  /\ Alive(p) /\ l \in plan.lists \ pmp[p].confirmed
  /\ Market(p, [pmp[p] EXCEPT !.confirmed = @ \cup {l}],
            <<[type |-> "EventConfirmed", pmp |-> p, list |-> l]>>)

\* approveEvent; the first one sets the outcomes.
Approve(p, l) ==
  /\ Alive(p) /\ l \in pmp[p].confirmed \ pmp[p].approved
  /\ Market(p, [pmp[p] EXCEPT !.approved = @ \cup {l}], <<>>)

\* rejectEvent, sent by a list instead of a confirmation.
Reject(p, l) ==
  /\ Alive(p) /\ l \in plan.lists \ pmp[p].confirmed /\ "reject" \in plan.moves
  /\ Market(p, [pmp[p] EXCEPT !.st = "gone"], <<Event("PMPRejected", p)>>)

SetTimings(p) ==
  /\ Alive(p) /\ FullyApproved(p) /\ ~pmp[p].resolved
  /\ pmp[p].timings < Len(plan.timings)
  /\ Market(p, [pmp[p] EXCEPT !.timings = @ + 1],
            <<[type |-> "TimingsSet", pmp |-> p,
               timings |-> plan.timings[pmp[p].timings + 1]]>>)

Freeze(p) ==
  /\ Alive(p) /\ pmp[p].timings > 0 /\ ~pmp[p].frozen
  /\ Market(p, [pmp[p] EXCEPT !.frozen = TRUE], <<Event("PoolsFrozen", p)>>)

\* resolve calls _ensureFrozen first.
Resolve(p, o) ==
  /\ Alive(p) /\ pmp[p].timings > 0 /\ ~pmp[p].resolved /\ ~pmp[p].cancelled
  /\ Market(p, [pmp[p] EXCEPT !.frozen = TRUE, !.resolved = TRUE],
            (IF pmp[p].frozen THEN <<>> ELSE <<Event("PoolsFrozen", p)>>)
              \o <<[type |-> "Resolved", pmp |-> p, outcome |-> o]>>)

CancelEvent(p) ==
  /\ Alive(p) /\ FullyApproved(p) /\ ~pmp[p].cancelled /\ ~pmp[p].resolved
  /\ "cancel" \in plan.moves
  /\ Market(p, [pmp[p] EXCEPT !.cancelled = TRUE], <<Event("EventCancelled", p)>>)

\* A settled market destroys itself once it is paid out.
Destroy(p) ==
  /\ Alive(p) /\ (pmp[p].resolved \/ pmp[p].cancelled)
  /\ Market(p, [pmp[p] EXCEPT !.st = "gone"], <<>>)

MarketStep ==
  \E p \in Pmps :
    \/ DeployPmp(p) \/ Construct(p) \/ SetTimings(p) \/ Freeze(p)
    \/ CancelEvent(p) \/ Destroy(p)
    \/ \E l \in EventLists : ConfirmEvent(p, l) \/ Approve(p, l) \/ Reject(p, l)
    \/ \E o \in Outcomes : Resolve(p, o)

\* The order book; an order is plan.orders[o], and book[o] what became of it.
Book(new, events) ==
  /\ book' = new
  /\ Emit(events)
  /\ UNCHANGED <<done, after, floor, aged, db, faults, plan, pmp, taskVars, reader>>

Live(o) == book[o] # NULL /\ book[o].st = "live"
Crosses(o, m) ==
  LET t == plan.orders[o]  r == plan.orders[m]
  IN /\ Live(m) /\ t.isBuy # r.isBuy
     /\ t.market \/ (IF t.isBuy THEN t.price >= r.price ELSE t.price <= r.price)

\* A market BUY is denominated in quote, so are its amount and its remainder.
QuoteTaker(o) == plan.orders[o].market /\ plan.orders[o].isBuy

\* One match of taker o with maker m: the two OrderFilled events, maker first.
FillStep(o, s, m) ==
  LET price == plan.orders[m].price
      afford == IF QuoteTaker(o) THEN (s.rem * FULL) \div price ELSE s.rem
      trade == Min({afford, s.book[m].rem})
      fill(id, taker) == [type |-> "OrderFilled", id |-> id, amount |-> trade,
                          taker |-> taker, price |-> price]
  IN IF trade = 0 THEN s
     ELSE [book   |-> [s.book EXCEPT ![m].rem = @ - trade, ![m].exec = @ + trade,
                         ![m].st = IF s.book[m].rem = trade THEN "filled" ELSE @],
           rem    |-> s.rem - (IF QuoteTaker(o) THEN (trade * price) \div FULL ELSE trade),
           exec   |-> s.exec + trade,
           events |-> s.events \o <<fill(m, FALSE), fill(o, TRUE)>>]

\* The orders of this log are for one outcome of the book.
TheOutcome == 0

\* _doPlace: OrderPlaced, the matches, then the remainder rests or is returned.
Place(o) ==
  /\ o \in DOMAIN plan.orders /\ book[o] = NULL
  /\ \A q \in DOMAIN plan.orders : q < o => book[q] # NULL
  /\ LET t == plan.orders[o]
         makers == SetToSortSeq({m \in OrderIds : m < o /\ Crosses(o, m)}, <)
         start == [book |-> book, rem |-> t.amount, exec |-> 0,
                   events |-> <<[type |-> "OrderPlaced", id |-> o,
                                 outcome |-> TheOutcome, isBuy |-> t.isBuy,
                                 price |-> t.price, amount |-> t.amount]>>]
         s == FoldLeft(LAMBDA acc, m : FillStep(o, acc, m), start, makers)
         st == IF s.rem = 0 THEN "filled" ELSE IF t.market THEN "cancelled" ELSE "live"
     IN Book([s.book EXCEPT ![o] = [rem |-> s.rem, exec |-> s.exec, st |-> st,
                                    confirmed |-> FALSE]],
             s.events \o (IF st = "cancelled"
                          THEN <<[type |-> "OrderCancelled", id |-> o]>> ELSE <<>>))

\* The owner's note hears of the placement and confirms it.
ConfirmOrder(o) ==
  /\ book[o] # NULL /\ ~book[o].confirmed /\ plan.orders[o].note # NULL
  /\ Book([book EXCEPT ![o].confirmed = TRUE],
          <<[type |-> "OrderPlacedConfirmed", id |-> o, note |-> plan.orders[o].note]>>)

CancelOrder(o) ==
  /\ Live(o)
  /\ Book([book EXCEPT ![o].st = "cancelled"], <<[type |-> "OrderCancelled", id |-> o]>>)

BookStep == \E o \in OrderIds : Place(o) \/ ConfirmOrder(o) \/ CancelOrder(o)

-----------------------------------------------------------------------------
(* The projector of one event, project_event. *)

ProjectPrediction(d, e, i) ==
  CASE e.type = "OracleDeployed"          -> ApplyOracleDeployed(d, e)
    [] e.type = "OracleEventListDeployed" -> ApplyOracleEventListDeployed(d, e)
    [] e.type = "EventAdded"              -> ApplyEventAdded(d, e)
    [] e.type = "RangeEventAdded"         -> ApplyRangeEventAdded(d, e)
    [] e.type = "EventConfirmed"          -> ApplyEventConfirmed(d, e)
    [] e.type = "PMPDeployed"             -> ApplyPMPDeployed(d, e)
    [] e.type = "TimingsSet"              -> ApplyTimingsSet(d, e)
    [] e.type = "PoolsFrozen"             -> ApplyPoolsFrozen(d, e)
    [] e.type = "Resolved"                -> ApplyResolved(d, e)
    [] e.type = "EventCancelled" -> ApplyPmpCancellation(d, e, "EVENT_CANCELLED")
    [] e.type = "PMPRejected" -> ApplyPmpCancellation(d, e, "PMP_REJECTED_BY_ORACLE")
    [] e.type = "OrderPlaced"             -> ApplyOrderPlaced(d, e, i)
    [] e.type = "OrderPlacedConfirmed"    -> ApplyOrderPlacedConfirmed(d, e)
    [] e.type = "OrderFilled"             -> ApplyOrderFilled(d, e, i)
    [] e.type = "OrderCancelled"          -> ApplyOrderCancelled(d, e, i)

-----------------------------------------------------------------------------
(* The reconcilers. *)

Write(tables) ==
  /\ db' = tables
  /\ UNCHANGED <<stream, left, log, done, after, floor, aged, faults, plan, pmp, book, reader>>

\* The market's BOC is fetched and the getters are run on it.
FetchMarket(p) ==
  /\ fetched = NULL /\ p \in PendingMarkets(db) /\ Alive(p)
  /\ fetched' = [pmp |-> p, cancelled |-> pmp[p].cancelled,
                 outcomes |-> IF pmp[p].approved = {} THEN {} ELSE Outcomes]
  /\ Write(db) /\ UNCHANGED listBoc

\* No active account, or an error on the way: backed off until CoolDown.
MarketFails(p) ==
  /\ p \in PendingMarkets(db)
  /\ \/ fetched = NULL /\ ~Alive(p)
     \/ fetched # NULL /\ fetched.pmp = p /\ "fail" \in plan.moves
  /\ Write([db EXCEPT !.markets[p] = StampFailure(@)])
  /\ fetched' = NULL /\ UNCHANGED listBoc

StoreMarket ==
  /\ fetched # NULL
  /\ Write([db EXCEPT !.markets[fetched.pmp] = WriteMarket(@, fetched)])
  /\ fetched' = NULL /\ UNCHANGED listBoc

\* The back-off of a failed market has elapsed.
CoolDown(p) ==
  /\ db.markets[p] # NULL /\ db.markets[p].failed
  /\ Write([db EXCEPT !.markets[p].failed = FALSE])
  /\ UNCHANGED taskVars

\* The list's BOC; the event may have been removed from it, or have no metadata.
FetchList(l, events) ==
  /\ listBoc = NULL /\ l \in PendingLists(db)
  /\ listBoc' = [list |-> l, events |-> events]
  /\ Write(db) /\ UNCHANGED fetched

StoreList ==
  /\ listBoc # NULL
  /\ Write(WriteList(db, listBoc.list, listBoc.events))
  /\ listBoc' = NULL /\ UNCHANGED fetched

ListCoolDown(l) ==
  /\ db.lists[l] # NULL /\ db.lists[l].failed
  /\ Write([db EXCEPT !.lists[l].failed = FALSE])
  /\ UNCHANGED taskVars

\* ref_tokens is seeded by the operator.
SeedTokens ==
  /\ ~db.tokens /\ Write([db EXCEPT !.tokens = TRUE]) /\ UNCHANGED taskVars

ReconcileStep ==
  \/ \E p \in Pmps : FetchMarket(p) \/ MarketFails(p) \/ CoolDown(p)
  \/ \E l \in EventLists : ListCoolDown(l) \/ \E ev \in {{}, {l}} : FetchList(l, ev)
  \/ StoreMarket \/ StoreList \/ SeedTokens

-----------------------------------------------------------------------------
(* A client that reads all its orders, page by page. *)

StartPaging(note) ==
  /\ reader = NoReader /\ "page" \in plan.moves
  /\ reader' = [NoReader EXCEPT !.note = note, !.visible = Behind(db, note, NULL)]
  /\ UNCHANGED <<projVars, plan, pmp, book, taskVars>>

ReadPage ==
  /\ reader.note # NULL /\ reader.cursor # 0
  /\ LET page == OrdersPage(db, reader.note, reader.cursor, PAGE_LIMIT)
     IN reader' = [reader EXCEPT !.cursor = Coalesce(page.next, 0),
                                 !.got = @ \cup page.orders,
                                 !.repeated = @ \/ reader.got \cap page.orders # {}]
  /\ UNCHANGED <<projVars, plan, pmp, book, taskVars>>

ClientStep == ReadPage \/ \E note \in OwnerNotes : StartPaging(note)

PredictionStep == MarketStep \/ BookStep \/ ReconcileStep \/ ClientStep

-----------------------------------------------------------------------------
(* Properties.  Rows(t) are the rows of table t that exist. *)

Rows(t) == {k \in DOMAIN db[t] : db[t][k] # NULL}
LimitOrders == {o \in Rows("orders") : ~QuoteTaker(o)}

\* The filter of the listing and the status of the response agree on every row at
\* every time (STATUS_CASE against compute_status).
FilterAgrees ==
  \A now \in 0..5 : \A p \in Rows("markets") :
    LET status == StatusCase(db.markets[p], now)
        page == ListMarkets(db, status, now)
    IN db.markets[p].reconciled =>
         IF Serve(db.markets[p], now) = "MarketInconsistent" THEN page = "MarketInconsistent"
         ELSE p \in page /\ Serve(db.markets[p], now) = status

\* Once the log is projected, a market row says what the chain says, although
\* the reconciler may have written a BOC older than the events.  Timings set
\* twice need the projection to have gone without a fault.
MarketMirrors ==
  Settled => \A p \in Rows("markets") :
    LET m == db.markets[p]
        ended == pmp[p].cancelled \/ (pmp[p].st = "gone" /\ ~pmp[p].resolved)
    IN /\ (m.frozenAt # NULL) = pmp[p].frozen
       /\ (m.resolvedAt # NULL) = pmp[p].resolved
       /\ (m.cancelledAt # NULL) = ended /\ (m.isCancelled => ended)
       /\ OracleBlock(db, p) = pmp[p].confirmed
       /\ faults = 0 => m.timings = (IF pmp[p].timings = 0 THEN NULL
                                     ELSE plan.timings[pmp[p].timings])

\* A timed market whose events are all projected can be served, at any time.
TimedServable ==
  Settled => \A p \in Rows("markets"), now \in 0..5 :
    db.markets[p].timings # NULL => Serve(db.markets[p], now) # "MarketInconsistent"

\* A market served as cancelled is never served as anything else again.
CancelledForGood ==
  \A p \in Rows("markets") :
    StatusCase(db.markets[p], 0) = "CANCELLED"
      => StatusCase(db'.markets[p], 0) = "CANCELLED"

\* Once the log is projected, the depth is that of the book, in whatever order
\* the events were applied; without faults every order shows what it executed.
OrdersMirror ==
  Settled => \A o \in LimitOrders :
    LET r == db.orders[o]
    IN /\ (r.status = "OPEN") = Live(o)
       /\ Live(o) => r.remaining = book[o].rem
       /\ faults = 0 => ExecutedQty(r) = book[o].exec

\* The tape has one trade for each match, whatever became of the orders' rows.
TapeMirrors ==
  Settled => {t.id : t \in db.trades}
               = {i \in DOMAIN log : log[i].type = "OrderFilled" /\ log[i].taker}

\* A terminal order never reopens, nor changes how it ended.
TerminalKept ==
  \A o \in Rows("orders") :
    db.orders[o].status \in ClosedStatuses
      => db'.orders[o].status = db.orders[o].status

\* Without faults a changed depth has a larger lastUpdateId.
DepthStamped ==
  faults' = 0 /\ DepthLevels(db', TheOutcome) # DepthLevels(db, TheOutcome)
    => LastUpdateId(db', TheOutcome) > LastUpdateId(db, TheOutcome)

\* Paging returns every order that was visible at the start, once, whatever is
\* projected between the pages.
PagedOnce ==
  /\ ~reader.repeated
  /\ reader.cursor = 0 => reader.visible \subseteq reader.got
==============================================================================
