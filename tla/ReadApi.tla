------------------------------- MODULE ReadApi -------------------------------
(***************************************************************************)
(* The listings of the read API while the indexer writes: a client walks   *)
(* a listing page by page, and any commit, or the passing of time, may     *)
(* fall between two pages and between two statements of one request.       *)
(*                                                                         *)
(* The tables are those of MarketRows, OrderRows and InferenceRows, with   *)
(* the columns a listing sorts or filters by; a surrogate id is the number *)
(* that names the row.  A symbol names an outcome.                         *)
(*                                                                         *)
(* A query maps the names of the parameters that are present to values; a  *)
(* value may be blank, or one that does not parse.  A row's key is a pair  *)
(* in ascending order; descending columns are negated.                     *)
(***************************************************************************)
EXTENDS MarketRows, InferenceRows, Served

CONSTANTS DEFAULT_LIMIT, MAX_LIMIT,
          Oracles,    \* rows of oracles
          I64_MAX,    \* sort key of a market without timings
          MAX_CREATED \* creation times of books are clamped to it

VARIABLES db,   \* the tables
          now,  \* the clock
          walk  \* the client's walk

readVars == <<db, now, walk>>

ReadTables ==
  [markets |-> [p \in Pmps |-> NULL], orders |-> [o \in OrderIds |-> NULL],
   oracles |-> [o \in Oracles |-> NULL], lists |-> [l \in EventLists |-> NULL],
   events |-> [l \in EventLists |-> NULL], books |-> [b \in Books |-> NULL],
   infOrders |-> [o \in InfIds |-> NULL], trades |-> {}, infTrades |-> {},
   unprojected |-> [b \in Books |-> FALSE], stale |-> [x \in {"capture"} |-> FALSE]]

-----------------------------------------------------------------------------
(* How a query parameter is read, and how a listing is cut into pages. *)

Raw(q, k) == IF k \in DOMAIN q THEN q[k] ELSE NULL

\* A blank parameter counts as absent ...
NonEmptyQuery(q, k) == IF Raw(q, k) = BLANK THEN NULL ELSE Raw(q, k)
Given(q, k) == NonEmptyQuery(q, k) # NULL
\* ... or is refused; one of a type must parse.  NULL if there is no error.
NonBlankQuery(q, k) == IF Raw(q, k) = BLANK THEN "MissingParameter" ELSE NULL
OptionalTypedQuery(q, k) == IF Raw(q, k) = GARBAGE THEN "InvalidParameter" ELSE NULL

ErrorIf(holds, error) == IF holds THEN error ELSE NULL
FirstError(errors) ==
  LET found == SelectSeq(errors, LAMBDA e : e # NULL)
  IN IF found = <<>> THEN NULL ELSE Head(found)

\* The public listings clamp a limit, the order listings and the tape refuse it.
ClampedLimit(q) ==
  IF ~Given(q, "limit") THEN DEFAULT_LIMIT ELSE Max({1, Min({q.limit, MAX_LIMIT})})
LimitError(q) ==
  ErrorIf(Given(q, "limit") /\ Raw(q, "limit") # GARBAGE /\ Raw(q, "limit") \notin 1..MAX_LIMIT,
          "MissingParameter")
StrictLimit(q) == IF Given(q, "limit") THEN q.limit ELSE DEFAULT_LIMIT

\* decode_cursor
CursorError(q) == ErrorIf(Raw(q, "cursor") = GARBAGE, "InvalidParameter")

-----------------------------------------------------------------------------

Before(a, b) == a[1] < b[1] \/ (a[1] = b[1] /\ a[2] < b[2])

Past(cursor, key) == cursor = NULL \/ Before(cursor, key)

Nth(keys, n) == CHOOSE k \in keys : Cardinality({j \in keys : Before(j, k)}) = n - 1

\* has_more and next_cursor, from the keys of limit + 1 rows.
NextCursor(keys, limit) == IF Cardinality(keys) > limit THEN Nth(keys, limit) ELSE NULL

\* The rows of the page that begins behind the cursor, and the next cursor.
Page(rows, Key(_), cursor, limit) ==
  LET keys == {Key(r) : r \in rows}
      ahead == {k \in keys : Past(cursor, k)}
      fetched == {k \in ahead : Cardinality({j \in ahead : Before(j, k)}) <= limit}
  IN [rows |-> {r \in rows : /\ Key(r) \in ahead
                             /\ Cardinality({j \in ahead : Before(j, Key(r))}) < limit},
      next |-> NextCursor(fetched, limit)]

-----------------------------------------------------------------------------
(* The listings. *)

\* A filter holds when its parameter is absent or F holds of its value.
Filter(q, k, F(_)) == Given(q, k) => F(q[k])

-----------------------------------------------------------------------------
(* GET /prediction/markets *)

MarketsParams ==
  {"status", "quoteAsset", "oracleName", "resolvesFrom", "closingBefore", "sort", "cursor", "limit"}

\* build_markets_request; one market excludes every other parameter.
BuildMarketsRequest(q) ==
  FirstError(<<
    OptionalTypedQuery(q, "closingBefore"), OptionalTypedQuery(q, "limit"),
    ErrorIf(Given(q, "market") /\ \E k \in MarketsParams : Given(q, k), "MissingParameter"),
    ErrorIf(Raw(q, "status") = GARBAGE, "InvalidParameter"),
    ErrorIf(Given(q, "sort") /\ q.sort \notin {"resultStart", "createdAt"}, "InvalidParameter"),
    CursorError(q)>>)

VisibleMarket(d, p) == d.markets[p] # NULL /\ d.markets[p].reconciled
OracleNames(d, p) ==
  {d.oracles[d.lists[l].oracle].name : l \in {m \in OracleBlock(d, p) : d.lists[m] # NULL}}

\* build_listing_query
Markets(d, q, t) ==
  {p \in Pmps :
     /\ VisibleMarket(d, p)
     /\ Filter(q, "market", LAMBDA v : p = v)
     /\ Filter(q, "status", LAMBDA v : StatusCase(d.markets[p], t) \in v)
     /\ Filter(q, "quoteAsset", LAMBDA v : d.markets[p].token = v)
     /\ Filter(q, "oracleName", LAMBDA v : v \in OracleNames(d, p))
     /\ Filter(q, "resolvesFrom", LAMBDA v : \E l \in OracleBlock(d, p) : d.events[l].range = v)
     /\ Filter(q, "closingBefore", LAMBDA v : /\ d.markets[p].timings # NULL
                                              /\ ResultEnd(d.markets[p]) < v)}

MarketKey(d, q, p) ==
  IF Raw(q, "sort") = "createdAt" THEN <<-d.markets[p].created, -p>>
  ELSE <<IF d.markets[p].timings = NULL THEN I64_MAX ELSE ResultStart(d.markets[p]), p>>

\* aggregate_oracle_events: a market resolves from one book at most.
OneRange(d, p) ==
  Cardinality({d.events[l].range : l \in OracleBlock(d, p)} \ {NULL}) <= 1

-----------------------------------------------------------------------------
(* GET /oracles: an event list offers one event, so the lists are the items. *)

BuildOraclesRequest(q) ==
  FirstError(<<OptionalTypedQuery(q, "deadlineBefore"), OptionalTypedQuery(q, "limit"),
               ErrorIf(Raw(q, "eventId") = GARBAGE, "InvalidParameter"), CursorError(q)>>)

\* oracle_event_availability
Available(d, q, t, l) ==
  /\ d.lists[l] # NULL /\ d.events[l] # NULL
  /\ ~d.events[l].deleted /\ d.events[l].meta /\ d.events[l].deadline > t
  /\ Filter(q, "eventId", LAMBDA v : l = v)
  /\ Filter(q, "deadlineBefore", LAMBDA v : d.events[l].deadline < v)

EventsOf(d, q, t, oracles) ==
  {l \in EventLists : Available(d, q, t, l) /\ d.lists[l].oracle \in oracles}

OracleHeads(d, q, t) ==
  {o \in Oracles : /\ Filter(q, "oracleAddress", LAMBDA v : o = v)
                   /\ EventsOf(d, q, t, {o}) # {}}
OracleKey(d, o) == <<d.oracles[o].name, o>>

-----------------------------------------------------------------------------
(* GET /prediction/orders, with the note of the credential. *)

\* get_orders, GetOrdersUseCase: a blank status means all of them, a blank cursor
\* is refused; a market and a symbol go together.
GetOrders(q) ==
  FirstError(<<
    NonBlankQuery(q, "market"), NonBlankQuery(q, "symbol"),
    ErrorIf(Given(q, "market") # Given(q, "symbol"), "MissingParameter"),
    OptionalTypedQuery(q, "limit"), ErrorIf(Raw(q, "status") = GARBAGE, "InvalidParameter"),
    LimitError(q), NonBlankQuery(q, "cursor"),
    CursorError(q)>>)

\* list_orders, first statement: the book and outcome of a market and a symbol.
OrdersTarget(d, q) ==
  IF ~Given(q, "market") THEN NULL
  ELSE IF ~VisibleMarket(d, q.market) \/ q.symbol \notin d.markets[q.market].outcomes
  THEN "InvalidMarketOrSymbol"
  ELSE ErrorIf(d.markets[q.market].book = NULL, "MarketInconsistent")

\* build_status_predicate, in the database.
StatusPredicate(r, statuses) ==
  \/ "NEW" \in statuses /\ r.status = "OPEN" /\ r.remaining = r.initial
  \/ "PARTIALLY_FILLED" \in statuses /\ r.status = "OPEN" /\ 0 < r.remaining
                                     /\ r.remaining < r.initial
  \/ "FILLED" \in statuses /\ r.status = "FILLED"
  \/ "CANCELED" \in statuses /\ r.status = "CANCELLED"

OrdersOf(d, q, note) ==
  {o \in RowsOf(d) :
     /\ d.orders[o].owner = note /\ VisibleMarket(d, d.orders[o].market)
     /\ Filter(q, "market", LAMBDA v : d.orders[o].market = v /\ d.orders[o].outcome = q.symbol)
     /\ Filter(q, "status", LAMBDA v : StatusPredicate(d.orders[o], v))}

-----------------------------------------------------------------------------
(* GET /inference/markets, /inference/depth: one predicate in four statements. *)

\* build_inference_markets_request: here a parameter that is blank is present too.
BuildInferenceMarketsRequest(q) ==
  IF Given(q, "book")
  THEN ErrorIf(DOMAIN q \cap {"status", "sort", "cursor", "limit", "liquidity"} # {},
               "MissingParameter")
  ELSE FirstError(<<
         ErrorIf(Given(q, "status") /\ q.status # "TRADING", "InvalidParameter"),
         ErrorIf(Given(q, "sort") /\ q.sort # "createdAt", "InvalidParameter"),
         NonBlankQuery(q, "liquidity"),
         ErrorIf(Raw(q, "liquidity") = GARBAGE, "InvalidParameter"),
         OptionalTypedQuery(q, "limit"), CursorError(q)>>)

OpenSide(d, b, isBuy) ==
  {o \in OpenIds(d, b) : d.infOrders[o].remaining > 0 /\ d.infOrders[o].isBuy = isBuy}
Unexpired(r, t) == r.deadline = NULL \/ r.deadline > t

\* side_exists of inference_liquidity_predicate
SideExists(d, b, t, isBuy) == \E o \in OpenSide(d, b, isBuy) : Unexpired(d.infOrders[o], t)

\* inference_liquidity_predicate
Liquid(d, b, t, filter) ==
  CASE filter = "BUY"  -> SideExists(d, b, t, TRUE)
    [] filter = "SELL" -> SideExists(d, b, t, FALSE)
    [] filter = "ANY"  -> SideExists(d, b, t, TRUE) \/ SideExists(d, b, t, FALSE)
    [] filter = "BOTH" -> SideExists(d, b, t, TRUE) /\ SideExists(d, b, t, FALSE)

\* top_of_book_joins
BestQuote(d, b, t, isBuy) ==
  LET prices == {d.infOrders[o].price :
                   o \in {p \in OpenSide(d, b, isBuy) : Unexpired(d.infOrders[p], t)}}
  IN IF prices = {} THEN NULL ELSE IF isBuy THEN Max(prices) ELSE Min(prices)

\* ask_volume_join
AskVolume(d, b, t) ==
  MapThenSumSet(LAMBDA o : d.infOrders[o].remaining,
                {o \in OpenSide(d, b, FALSE) : Unexpired(d.infOrders[o], t)})

\* get_inference_depth_impl, one side: the best levels, and the total of them all.
InferenceDepth(d, b, t, isBuy, limit) ==
  LET makers == {o \in OpenSide(d, b, isBuy) : Unexpired(d.infOrders[o], t)}
      prices == {d.infOrders[o].price : o \in makers}
      best == {p \in prices : Cardinality({r \in prices : Better(isBuy, r, p)}) < limit}
      qty(s) == MapThenSumSet(LAMBDA o : d.infOrders[o].remaining, s)
  IN [levels |-> [p \in best |-> qty({o \in makers : d.infOrders[o].price = p})],
      total  |-> qty(makers)]

InferenceMarkets(d, q, t) ==
  {b \in Books : /\ Visible(d, b)
                 /\ Filter(q, "book", LAMBDA v : b = v)
                 /\ Filter(q, "liquidity", LAMBDA v : Liquid(d, b, t, v))}

BookKey(d, b) ==
  LET created == d.books[b].created
  IN <<-(IF created = NULL THEN 0 ELSE Min({created, MAX_CREATED})), -b>>

-----------------------------------------------------------------------------
(* GET /inference/orders *)

DbStatus == [LIVE |-> "OPEN", FILLED |-> "FILLED", CANCELLED |-> "CANCELLED", EXPIRED |-> "EXPIRED"]

\* get_inference_orders, GetInferenceOrdersUseCase
GetInferenceOrders(q) ==
  FirstError(<<
    ErrorIf(~Given(q, "book"), "MissingParameter"),
    NonBlankQuery(q, "tokenContract"), NonBlankQuery(q, "note"),
    NonBlankQuery(q, "side"), NonBlankQuery(q, "status"), OptionalTypedQuery(q, "limit"),
    NonBlankQuery(q, "includeExpired"), ErrorIf(Raw(q, "includeExpired") = GARBAGE, "InvalidParameter"),
    ErrorIf(Given(q, "tokenContract") /\ Given(q, "note"), "InvalidParameter"),
    ErrorIf(Raw(q, "side") = GARBAGE, "InvalidParameter"),
    ErrorIf(Raw(q, "status") = GARBAGE, "InvalidParameter"),
    LimitError(q), NonBlankQuery(q, "cursor"), CursorError(q)>>)

\* resolve_sides: only SELL rows name a TokenContract.
Sides(q) ==
  {isBuy \in BOOLEAN : /\ Filter(q, "side", LAMBDA v : isBuy = (v = "BUY"))
                       /\ Given(q, "tokenContract") => ~isBuy}
StatusesOf(q) == IF Given(q, "status") THEN q.status ELSE DOMAIN DbStatus

\* An order in the book that can no longer be matched is left out, except when
\* the question is whether a TokenContract is in use.
DeadlineCut(q, s) ==
  Raw(q, "includeExpired") # TRUE /\ ~Given(q, "tokenContract") /\ s = "LIVE"

\* build_snapshot_query: a branch for every side and status.
InferenceOrders(d, q, t) ==
  {o \in InfIds :
     LET r == d.infOrders[o]
     IN /\ r # NULL /\ r.book = q.book /\ r.isBuy \in Sides(q)
        /\ \E s \in StatusesOf(q) : r.status = DbStatus[s] /\ (DeadlineCut(q, s) => Unexpired(r, t))
        /\ Filter(q, "tokenContract", LAMBDA v : r.tc = v)
        /\ Filter(q, "note", LAMBDA v : r.note = v)}

\* list_inference_orders_impl: unknown book, or no complete view for the question.
InferenceOrdersGate(d, q) ==
  IF ~Visible(d, q.book) THEN "InvalidMarketOrSymbol"
  ELSE ErrorIf(/\ Given(q, "tokenContract")
               /\ Raw(q, "side") # "BUY" /\ "LIVE" \in StatusesOf(q)
               /\ LookupRefused(d, q.book, d.unprojected[q.book], d.stale["capture"]),
               "MarketInconsistent")

-----------------------------------------------------------------------------
(* The walk: begin, then ask, select and assemble for every page. *)

Walk(route, query, note) ==
  [pc |-> "begin", route |-> route, query |-> query, note |-> note, cursor |-> NULL,
   clock |-> 0, page |-> NULL, got |-> {}, again |-> {}, stable |-> {}, moved |-> {}]

ReadInit(tables, w) == db = tables /\ now = 0 /\ walk = w

\* The request for the next page.
Request(w) ==
  IF w.cursor = NULL THEN w.query
  ELSE [k \in DOMAIN w.query \cup {"cursor"} |-> IF k = "cursor" THEN w.cursor ELSE w.query[k]]

RequestError(w) ==
  LET q == Request(w)
  IN CASE w.route = "markets"          -> BuildMarketsRequest(q)
       [] w.route = "oracles"          -> BuildOraclesRequest(q)
       [] w.route = "orders"           -> IF GetOrders(q) # NULL THEN GetOrders(q)
                                           ELSE OrdersTarget(db, q)
       [] w.route = "inferenceMarkets" -> BuildInferenceMarketsRequest(q)
       [] w.route = "inferenceOrders"  -> GetInferenceOrders(q)

PageLimit(w) ==
  IF w.route \in {"orders", "inferenceOrders"} THEN StrictLimit(w.query) ELSE ClampedLimit(w.query)

\* The rows of a listing and their keys.
Rows(w, d, t) ==
  CASE w.route = "markets"          -> Markets(d, w.query, t)
    [] w.route = "oracles"          -> OracleHeads(d, w.query, t)
    [] w.route = "orders"           -> OrdersOf(d, w.query, w.note)
    [] w.route = "inferenceMarkets" -> InferenceMarkets(d, w.query, t)
    [] w.route = "inferenceOrders"  -> InferenceOrders(d, w.query, t)

RowKey(w, d, r) ==
  CASE w.route = "markets"          -> MarketKey(d, w.query, r)
    [] w.route = "oracles"          -> OracleKey(d, r)
    [] w.route = "orders"           -> <<-d.orders[r].placed, 0>>
    [] w.route = "inferenceMarkets" -> BookKey(d, r)
    [] w.route = "inferenceOrders"  -> <<-r, 0>>

\* The page's own statement: a lookup that finds nothing, the gate, and a market
\* whose row contradicts itself fail it.
SelectError(w, rows) ==
  CASE w.route = "markets" /\ Given(w.query, "market") /\ rows = {} -> "InvalidMarketOrSymbol"
    [] w.route = "inferenceMarkets" /\ Given(w.query, "book") /\ rows = {} -> "InvalidMarketOrSymbol"
    [] w.route = "inferenceOrders" -> InferenceOrdersGate(db, w.query)
    [] w.route = "markets" -> ErrorIf(\E p \in rows : Serve(db.markets[p], w.clock)
                                                        = "MarketInconsistent", "MarketInconsistent")
    [] OTHER -> NULL

\* order_from_row leaves out the orders that cannot be shown.
Shown(w, d, rows) ==
  IF w.route = "orders" THEN {o \in rows : ShowsOrder(d.orders[o])} ELSE rows

-----------------------------------------------------------------------------

\* What a listing of everything would hold, for the walk's record of the items
\* that were there all along with the same key.
Items(w, d, t) ==
  IF w.route = "oracles" THEN EventsOf(d, w.query, t, OracleHeads(d, w.query, t))
  ELSE Shown(w, d, Rows(w, d, t))
ItemKey(w, d, i) == RowKey(w, d, IF w.route = "oracles" THEN d.lists[i].oracle ELSE i)

Witness(w, d, t, e, u) ==
  LET both == Items(w, d, t) \cap Items(w, e, u)
      same == {i \in both : ItemKey(w, d, i) = ItemKey(w, e, i)}
  IN IF w.pc \in {"begin", "done", "failed"} THEN w
     ELSE [w EXCEPT !.stable = @ \cap same, !.moved = @ \cup (both \ same)]

\* The request is read; for a market's orders the market is looked up.
Ask ==
  /\ walk.pc \in {"begin", "next"}
  /\ walk' = IF RequestError(walk) # NULL THEN [walk EXCEPT !.pc = "failed"]
             ELSE [walk EXCEPT !.pc = "select", !.clock = now,
                     !.stable = IF walk.pc = "begin" THEN Items(walk, db, now) ELSE @]
  /\ UNCHANGED <<db, now>>

Select ==
  /\ walk.pc = "select"
  /\ LET page == Page(Rows(walk, db, walk.clock), LAMBDA r : RowKey(walk, db, r),
                      walk.cursor, PageLimit(walk))
     IN walk' = IF SelectError(walk, page.rows) # NULL THEN [walk EXCEPT !.pc = "failed"]
                ELSE [walk EXCEPT !.pc = "assemble",
                        !.page = [page EXCEPT !.rows = Shown(walk, db, @)]]
  /\ UNCHANGED <<db, now>>

\* The remaining statements, and the response: the events of the oracles on the
\* page, the oracle blocks of its markets.
Assemble ==
  /\ walk.pc = "assemble"
  /\ LET items == IF walk.route = "oracles"
                  THEN EventsOf(db, walk.query, walk.clock, walk.page.rows) ELSE walk.page.rows
     IN walk' = IF walk.route = "markets" /\ \E p \in items : ~OneRange(db, p)
                THEN [walk EXCEPT !.pc = "failed"]
                ELSE [walk EXCEPT !.pc = IF walk.page.next = NULL THEN "done" ELSE "next",
                        !.cursor = walk.page.next, !.page = NULL,
                        !.got = @ \cup items, !.again = @ \cup (walk.got \cap items)]
  /\ UNCHANGED <<db, now>>

ReadStep == Ask \/ Select \/ Assemble

\* The indexer commits a row, or what the projector makes of an event.
Committed(w) ==
  CASE "event" \in DOMAIN w /\ w.event.type = "OrderFilled" -> ApplyOrderFilled(db, w.event, w.at).db
    [] "event" \in DOMAIN w /\ w.event.type = "OrderCancelled" -> ApplyOrderCancelled(db, w.event, w.at).db
    [] w.table \in {"trades", "infTrades"} ->
         [db EXCEPT ![w.table] = {t \in @ : t.id # w.row.id} \cup {w.row}]
    [] OTHER -> [db EXCEPT ![w.table][w.key] = w.row]

Commit(w) ==
  /\ db' = Committed(w)
  /\ walk' = Witness(walk, db, now, db', now)
  /\ UNCHANGED now

Tick ==
  /\ now' = now + 1
  /\ walk' = Witness(walk, db, now, db, now')
  /\ UNCHANGED db

-----------------------------------------------------------------------------
(* Point reads: a client asks again and again for the depth, the tape or  *)
(* its balances of one book, while the indexer writes.  The statements of *)
(* one request have no common snapshot, except where the code opens a     *)
(* transaction.                                                            *)

VARIABLES poll \* the client's requests and their answers

\* stake: what the chain has of the note's stake in the market.
Poll(route, query, note, stake, times) ==
  [pc |-> "ask", route |-> route, query |-> query, note |-> note, stake |-> stake,
   times |-> times, error |-> NULL, clock |-> 0, outcomes |-> {}, levels |-> NULL, asOf |-> 0,
   answers |-> <<>>]

PollInit(p) == poll = p

-----------------------------------------------------------------------------
(* The parameters. *)

MarketAndSymbol(q) == ErrorIf(~Given(q, "market") \/ ~Given(q, "symbol"), "MissingParameter")
BookGiven(q) == ErrorIf(~Given(q, "book"), "MissingParameter")

\* get_depth, get_trades, get_inference_depth, get_inference_trades,
\* get_account_balances
PollParamError(p) ==
  LET q == p.query
  IN CASE p.route = "depth"    -> FirstError(<<MarketAndSymbol(q), OptionalTypedQuery(q, "limit")>>)
       [] p.route = "trades"   -> FirstError(<<MarketAndSymbol(q), OptionalTypedQuery(q, "limit"),
                                               LimitError(q)>>)
       [] p.route = "balances" -> ErrorIf(~Given(q, "market"), "MissingParameter")
       [] OTHER                -> FirstError(<<BookGiven(q), OptionalTypedQuery(q, "limit")>>)

\* Only the prediction tape refuses a limit.
PollLimit(p) == IF p.route = "trades" THEN StrictLimit(p.query) ELSE ClampedLimit(p.query)

-----------------------------------------------------------------------------
(* The target: the same gate as for a market's orders, or for a book's. *)

\* Mutant: every statement sees the commits before it.
SecondRead_Committed(snapshot, d, m) == d.markets[m].outcomes

\* resolve_market_for_balances: in a REPEATABLE READ transaction the second
\* statement sees what the first one saw.
SecondRead(snapshot, d, m) == snapshot

BalancesTarget(d, m) ==
  IF ~VisibleMarket(d, m) THEN "InvalidMarketOrSymbol"
  ELSE ErrorIf(d.markets[m].book = NULL, "MarketInconsistent")

InferenceTarget(d, b) == ErrorIf(~Visible(d, b), "InvalidMarketOrSymbol")

TargetError(p, d) ==
  CASE p.route \in {"depth", "trades"} -> OrdersTarget(d, p.query)
    [] p.route = "balances"            -> BalancesTarget(d, p.query.market)
    [] OTHER                           -> InferenceTarget(d, p.query.book)

-----------------------------------------------------------------------------
(* The answers. *)

\* The orders of one market's book; only one market trades here.
BookOf(d, m) ==
  [d EXCEPT !.orders = [o \in OrderIds |-> IF @[o] # NULL /\ @[o].market = m THEN @[o] ELSE NULL]]

\* get_inference_depth_impl, last statement.
InferenceLastUpdateId(d, b) ==
  Max({d.infOrders[o].last : o \in {i \in InfIds : /\ d.infOrders[i] # NULL
                                                   /\ d.infOrders[i].book = b}} \cup {0})

UpTo(p, d) ==
  IF p.route = "depth" THEN LastUpdateId(BookOf(d, p.query.market), p.query.symbol)
  ELSE InferenceLastUpdateId(d, p.query.book)

\* list_inference_trades_impl: prices are whole, and there is no grid.
InferenceTape(d, b, limit) ==
  {[id |-> t.id, qty |-> t.qty, quoteQty |-> t.price * t.qty, buyerMaker |-> t.buyerMaker] :
     t \in Newest({u \in d.infTrades : u.book = b}, limit)}

Levels(p, d) ==
  IF p.route = "depth" THEN Depth(BookOf(d, p.query.market), p.query.symbol, PollLimit(p))
  ELSE [error |-> NULL,
        levels |-> [isBuy \in BOOLEAN |->
                      InferenceDepth(d, p.query.book, p.clock, isBuy, PollLimit(p))]]

TapeOf(p, d) ==
  IF p.route = "trades" THEN Tape(BookOf(d, p.query.market), p.query.symbol, PollLimit(p))
  ELSE [error |-> NULL, trades |-> InferenceTape(d, p.query.book, PollLimit(p))]

\* sum_open_sell_remaining of every outcome that has a row.
OpenSellSums(d, m, note) ==
  LET book == BookOf(d, m)
  IN [x \in {book.orders[o].outcome : o \in Resting(book)} |-> SumOpenSellRemaining(book, note, x)]

-----------------------------------------------------------------------------
(* The steps of a request. *)

Fails(p, e) == [p EXCEPT !.pc = "failed", !.error = e]
Answers(p, a) ==
  [p EXCEPT !.answers = Append(@, a), !.times = @ - 1, !.levels = NULL,
            !.pc = IF p.times = 1 THEN "done" ELSE "ask"]

RefusalOf(p, d) == IF PollParamError(p) # NULL THEN PollParamError(p) ELSE TargetError(p, d)

\* The parameters are read, and the target is looked up.
PollAsks ==
  /\ poll.pc = "ask"
  /\ poll' = IF RefusalOf(poll, db) # NULL THEN Fails(poll, RefusalOf(poll, db))
             ELSE IF poll.route = "balances"
             THEN [poll EXCEPT !.pc = "outcomes", !.outcomes = db.markets[poll.query.market].outcomes]
             ELSE [poll EXCEPT !.pc = "read", !.clock = now]
  /\ UNCHANGED readVars

\* The market's row has their number; they must be as many.
PollReadsOutcomes ==
  /\ poll.pc = "outcomes"
  /\ LET outcomes == SecondRead(poll.outcomes, db, poll.query.market)
     IN poll' = IF Cardinality(outcomes) # Cardinality(poll.outcomes)
                THEN Fails(poll, "MarketInconsistent")
                ELSE [poll EXCEPT !.pc = "read"]
  /\ UNCHANGED readVars

\* The levels; the tape; the stake of the chain joined with the sums.
PollReads ==
  /\ poll.pc = "read"
  /\ LET levels == Levels(poll, db)
         tape == TapeOf(poll, db)
         sums == OpenSellSums(db, poll.query.market, poll.note)
         rows == MarketBalances(poll.stake, sums, poll.outcomes)
     IN poll' = CASE poll.route \in {"depth", "inferenceDepth"} ->
                       IF levels.error # NULL THEN Fails(poll, levels.error)
                       ELSE [poll EXCEPT !.pc = "finish", !.levels = levels.levels,
                                         !.asOf = UpTo(poll, db)]
                  [] poll.route \in {"trades", "inferenceTrades"} ->
                       IF tape.error # NULL THEN Fails(poll, tape.error) ELSE Answers(poll, tape.trades)
                  [] poll.route = "balances" ->
                       IF rows.error # NULL THEN Fails(poll, rows.error) ELSE Answers(poll, rows.rows)
  /\ UNCHANGED readVars

\* lastUpdateId is read after the levels.
PollFinishes ==
  /\ poll.pc = "finish"
  /\ poll' = Answers(poll, [levels |-> poll.levels, asOf |-> poll.asOf, upTo |-> UpTo(poll, db)])
  /\ UNCHANGED readVars

PollStep == PollAsks \/ PollReadsOutcomes \/ PollReads \/ PollFinishes

-----------------------------------------------------------------------------
(* Properties. *)

\* The levels of an answer hold nothing later than its lastUpdateId, and a later
\* answer never goes back behind an earlier one: not when the order touched last is
\* cancelled or filled between two polls, or between the two statements of one.
DepthNotAhead ==
  poll.route \in {"depth", "inferenceDepth"} =>
    \A i \in DOMAIN poll.answers :
      /\ poll.answers[i].asOf <= poll.answers[i].upTo
      /\ \A j \in 1..(i - 1) : poll.answers[j].upTo <= poll.answers[i].asOf

\* A trade that was served once is served again until as many newer trades as a
\* page holds are, also when a trade's missing time is repaired in between: a client
\* that polls often enough misses none.
TapeSlides ==
  poll.route \in {"trades", "inferenceTrades"} =>
    \A i \in DOMAIN poll.answers : \A j \in 1..(i - 1) : \A t \in poll.answers[j] :
      \/ t \in poll.answers[i]
      \/ /\ Cardinality(poll.answers[i]) = PollLimit(poll)
         /\ \A u \in poll.answers[i] : u.id > t.id

\* The balances of a market are refused as inconsistent only while the note has
\* tokens or orders of outcomes that the reconciler has not written yet, not because
\* it writes them while the request is under way.
BalancesAnswered ==
  poll.route = "balances" /\ poll.error = "MarketInconsistent" =>
    ~(DOMAIN poll.stake.amount \cup DOMAIN OpenSellSums(db, poll.query.market, poll.note)
        \subseteq poll.outcomes)
==============================================================================
