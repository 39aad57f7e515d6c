------------------------------ MODULE MCService ------------------------------
EXTENDS ServiceSystem, TLC

CONSTANTS n1, n2, d1, d2, k1, k2

NoWalk == [Walk("markets", <<>>, NULL) EXCEPT !.pc = "done"]
NoPoll == [Poll("depth", <<>>, NULL, <<>>, 0) EXCEPT !.pc = "done"]
\* The file keeps the indexer from starting.
NoStream == [Stream(<<>>, <<>>, NULL, <<>>, <<>>, 0) EXCEPT
               !.up = FALSE, !.file = Config({}, {}, FALSE)]
NoFeed == Feed([a \in {"root"} |-> <<>>], <<>>, <<>>, <<>>, <<>>)
Scenario(p, tables, w, q) ==
  [plan |-> p, tables |-> tables, walk |-> w, poll |-> q, feed |-> NoFeed, scan |-> NoScan,
   stream |-> NoStream]

Quiet == [token |-> "NACKL", nominal |-> 2, count |-> 0, shapes |-> {1}, inFlight |-> 1,
          poolRuns |-> 0, userRuns |-> 0, crashes |-> 0, stale |-> 0, others |-> 0,
          payments |-> 0, submits |-> 0, starts |-> 0, requests |-> 0, disabled |-> 0,
          writes |-> <<>>, ticks |-> 0, acquires |-> 0, elapses |-> 0]

\* Others pay any mix and present vouchers again.
RootPlans ==
  {[Quiet EXCEPT !.payments = 3, !.submits = 2, !.inFlight = 2],
   [Quiet EXCEPT !.payments = 2, !.submits = 4, !.inFlight = 3]}

\* Runs of mint_pn_pool, stopped anywhere.
PoolPlans ==
  {[Quiet EXCEPT !.poolRuns = 2, !.count = 2, !.crashes = 1, !.shapes = {1, 2}, !.inFlight = 2],
   [Quiet EXCEPT !.poolRuns = 3, !.count = 1, !.crashes = 2, !.stale = 1, !.token = "SHELL"]}

\* Runs of onboard_user: undisturbed, or stopped anywhere, beside other traffic.
UserPlans ==
  {[Quiet EXCEPT !.userRuns = 3, !.crashes = 2, !.shapes = {1, 2}],
   [Quiet EXCEPT !.userRuns = 2, !.crashes = 1, !.stale = 1, !.others = 1, !.token = "SHELL",
                 !.inFlight = 2]}

\* Both tools and the API.
ApiPlans ==
  {[Quiet EXCEPT !.poolRuns = 2, !.count = 1, !.starts = 2, !.requests = 2],
   [Quiet EXCEPT !.poolRuns = 2, !.count = 1, !.starts = 2, !.requests = 1, !.disabled = 1],
   [Quiet EXCEPT !.poolRuns = 1, !.count = 1, !.starts = 2, !.requests = 2, !.disabled = 1]}

-----------------------------------------------------------------------------
(* Listings: tables, commits to come, queries. *)

Write(table, key, row) == [table |-> table, key |-> key, row |-> row]
Reads(tables, writes, ticks, route, queries) ==
  {Scenario([Quiet EXCEPT !.writes = w, !.ticks = ticks], tables, Walk(route, q, n1), NoPoll) :
     w \in writes, q \in queries}

MarketRow(created, timings) ==
  [outcomes |-> {1}, book |-> TRUE, reconciled |-> TRUE, created |-> created, token |-> "NACKL",
   timings |-> timings] @@ NewMarket
EventRow(pmp, range, deadline) ==
  [confirmed |-> pmp, range |-> range, meta |-> TRUE, deadline |-> deadline, deleted |-> FALSE]
Frozen(m) == [m EXCEPT !.frozenAt = TRUE]
Cancelled(m) == [m EXCEPT !.isCancelled = TRUE, !.cancelledAt = TRUE, !.reason = "ORACLE"]

T1 == <<1, 2, 3, 4>>
\* Two markets with one sort key, one without timings, and a new one.
MarketTables4 ==
  [ReadTables EXCEPT
     !.oracles = [o \in Oracles |-> [name |-> 1]],
     !.lists = [l \in EventLists |-> [oracle |-> IF l = 3 THEN 2 ELSE 1]],
     !.events = (1 :> EventRow(1, 1, 2) @@ 2 :> EventRow(NULL, NULL, 3) @@ 3 :> EventRow(2, NULL, 4)),
     !.markets = (1 :> MarketRow(1, T1) @@ 2 :> MarketRow(1, T1) @@ 3 :> MarketRow(2, NULL)
                  @@ 4 :> NULL)]
MarketWrites ==
  {<<Write("markets", 3, MarketRow(2, <<1, 2, 4, 5>>)), Write("markets", 4, MarketRow(2, NULL)),
     Write("markets", 1, Cancelled(MarketRow(1, T1)))>>,
   <<Write("markets", 3, MarketRow(2, <<1, 2, 2, 3>>)), Write("markets", 2, Frozen(MarketRow(1, T1))),
     Write("events", 2, EventRow(1, 2, 3))>>}
MarketQueries ==
  {[limit |-> 1], [limit |-> 2, sort |-> "createdAt"], [limit |-> 9, quoteAsset |-> "NACKL"],
   [limit |-> 1, status |-> {"UPCOMING", "STAKING", "PENDING"}],
   [limit |-> 0, oracleName |-> 1, cursor |-> BLANK],
   [limit |-> BLANK, resolvesFrom |-> 1], [closingBefore |-> 5], [market |-> 1], [market |-> 4],
   [market |-> 1, limit |-> 1], [limit |-> GARBAGE], [sort |-> "name"], [status |-> GARBAGE]}

\* The same oracles: events are added, deleted, and pass their deadline.
OracleWrites ==
  {<<Write("events", 1, [EventRow(1, 1, 2) EXCEPT !.deleted = TRUE]),
     Write("events", 3, EventRow(2, NULL, 3))>>,
   <<Write("events", 2, [EventRow(NULL, NULL, 3) EXCEPT !.deleted = TRUE])>>}
OracleQueries ==
  {[limit |-> 1], [limit |-> 1, deadlineBefore |-> 4], [eventId |-> 2], [oracleAddress |-> 2],
   [eventId |-> GARBAGE], [deadlineBefore |-> GARBAGE]}

OrderRow(i, note, remaining, status) ==
  [market |-> 1, outcome |-> 1, isBuy |-> TRUE, price |-> 10, initial |-> 20, remaining |-> remaining,
   status |-> status, owner |-> note, placed |-> i, last |-> i]
\* Orders of two notes, two of them not fit to be shown: one off the grid.
OrderTables4 ==
  [MarketTables4 EXCEPT
     !.orders = (1 :> OrderRow(1, n1, 20, "OPEN") @@ 2 :> OrderRow(2, n1, 0, "OPEN")
                 @@ 3 :> OrderRow(3, n2, 20, "OPEN") @@ 4 :> OrderRow(4, n1, 15, "OPEN") @@ 5 :> NULL)]
OrderWrites ==
  {<<Write("orders", 5, OrderRow(5, n1, 20, "OPEN")), Write("orders", 1, OrderRow(1, n1, 10, "OPEN")),
     Write("orders", 4, OrderRow(4, n1, 0, "FILLED"))>>}
OrderQueries ==
  {[limit |-> 1], [limit |-> 1, status |-> {"NEW", "PARTIALLY_FILLED"}], [status |-> BLANK],
   [limit |-> 1, market |-> 1, symbol |-> 1], [market |-> 4, symbol |-> 1], [market |-> 1],
   [limit |-> 9], [limit |-> GARBAGE], [cursor |-> BLANK], [market |-> BLANK, symbol |-> BLANK],
   [status |-> GARBAGE]}

InfRow(b, isBuy, price, deadline, status) ==
  [book |-> b, isBuy |-> isBuy, note |-> IF isBuy THEN n1 ELSE n2, tc |-> IF isBuy THEN NULL ELSE d1,
   price |-> price, deadline |-> deadline, initial |-> 2, remaining |-> IF status = "OPEN" THEN 2 ELSE 0,
   status |-> status, swept |-> FALSE, last |-> 1]
BookRow(created) == [created |-> created, reconciled |-> TRUE] @@ NewBook
\* Books with one sort key after the clamp, orders that lapse.
BookTables4 ==
  [ReadTables EXCEPT
     !.books = (1 :> BookRow(7) @@ 2 :> BookRow(5) @@ 3 :> BookRow(NULL)),
     !.infOrders = (1 :> InfRow(1, FALSE, 2, 1, "OPEN") @@ 2 :> InfRow(1, FALSE, 3, NULL, "OPEN")
                    @@ 3 :> InfRow(2, TRUE, 1, 2, "OPEN") @@ 4 :> NULL)]
BookWrites ==
  {<<Write("infOrders", 4, InfRow(1, TRUE, 2, 2, "OPEN")),
     Write("infOrders", 2, InfRow(1, FALSE, 3, NULL, "FILLED"))>>,
   <<Write("unprojected", 1, TRUE), Write("unprojected", 1, FALSE), Write("stale", "capture", TRUE)>>}
BookQueries ==
  {[limit |-> 1], [liquidity |-> "ANY", limit |-> 1], [liquidity |-> "BOTH"], [liquidity |-> "SELL"],
   [book |-> 1], [book |-> 1, limit |-> BLANK], [liquidity |-> BLANK], [liquidity |-> GARBAGE],
   [status |-> "CLOSED"]}
InfQueries ==
  {[book |-> 1, limit |-> 1], [book |-> 1, status |-> {"LIVE"}, limit |-> 1],
   [book |-> 1, tokenContract |-> d1, limit |-> 1], [book |-> 1, tokenContract |-> d1, side |-> "BUY"],
   [book |-> 1, note |-> n1, side |-> "BUY", includeExpired |-> TRUE],
   [book |-> 1, note |-> n1, tokenContract |-> d1], [book |-> BLANK], [book |-> 1, side |-> GARBAGE],
   [book |-> 1, limit |-> 0], [book |-> 1, includeExpired |-> GARBAGE], [book |-> 1, status |-> GARBAGE]}

ReadPlans ==
  Reads(MarketTables4, MarketWrites, 3, "markets", MarketQueries)
    \cup Reads(MarketTables4, OracleWrites, 3, "oracles", OracleQueries)
    \cup Reads(OrderTables4, OrderWrites, 0, "orders", OrderQueries)
    \cup Reads(BookTables4, BookWrites, 3, "inferenceMarkets", BookQueries)
    \cup Reads(BookTables4, BookWrites, 3, "inferenceOrders", InfQueries)

-----------------------------------------------------------------------------
(* Polls. *)

Event(type, id, amount, at) ==
  [event |-> [type |-> type, id |-> id, amount |-> amount, price |-> 10, taker |-> TRUE], at |-> at]
Fill(id, amount, at) == Event("OrderFilled", id, amount, at)
CancelOf(id, at) == Event("OrderCancelled", id, 0, at)
Polls(tables, writes, ticks, route, queries, stakes, times) ==
  {Scenario([Quiet EXCEPT !.writes = w, !.ticks = ticks], tables, NoWalk,
            Poll(route, q, n1, s, times)) : w \in writes, q \in queries, s \in stakes}

AskRow(i, note, price) == [OrderRow(i, note, 20, "OPEN") EXCEPT !.isBuy = FALSE, !.price = price]
PollTables ==
  [MarketTables4 EXCEPT
     !.orders = (1 :> OrderRow(1, n1, 20, "OPEN") @@ 2 :> AskRow(2, n1, 20) @@ 3 :> AskRow(3, n2, 30)
                 @@ 4 :> NULL @@ 5 :> NULL),
     !.trades = {[id |-> 1, outcome |-> 1, price |-> 10, qty |-> 10, buyerMaker |-> TRUE, time |-> TRUE]}]

\* Fills and cancellations of the orders touched last, and one off the grid.
TradeWrites ==
  {<<Fill(2, 10, 4), CancelOf(3, 5), Fill(1, 20, 6), Write("orders", 4, OrderRow(7, n2, 20, "OPEN"))>>,
   <<Fill(3, 10, 4), Fill(3, 5, 5), CancelOf(3, 6), Fill(1, 10, 7)>>}
\* A trade without a time, which is repaired.
Untimed(time) ==
  Write("trades", 5, [id |-> 5, outcome |-> 1, price |-> 10, qty |-> 10, buyerMaker |-> FALSE,
                      time |-> time])
TapeWrites == {<<Fill(2, 10, 4), Untimed(NULL), Fill(3, 20, 6), Untimed(TRUE)>>}

PairQueries == {[market |-> 1, symbol |-> 1], [market |-> 1, symbol |-> 1, limit |-> 1]}
BadPairs == {[market |-> 1, symbol |-> BLANK], [market |-> 4, symbol |-> 1],
             [market |-> 1, symbol |-> 1, limit |-> GARBAGE], [market |-> 1, symbol |-> 1, limit |-> 0]}

NoStake == [f \in {"amount", "debt", "coupons"} |-> <<>>]
OneStake == [f \in {"amount", "debt", "coupons"} |-> (1 :> 2)]
\* A market that was reconciled before its event was approved.
UnapprovedTables ==
  [PollTables EXCEPT !.markets[1] = [MarketRow(1, NULL) EXCEPT !.outcomes = {}],
                     !.orders = [o \in OrderIds |-> NULL], !.trades = {}]
OutcomesWritten == Write("markets", 1, MarketRow(1, T1))

TapeRow(i, ticks) ==
  Write("infTrades", i, [id |-> i, book |-> 1, price |-> 2, qty |-> ticks, buyerMaker |-> TRUE,
                         time |-> TRUE])
InfTouched(o, row, i) == Write("infOrders", o, [row EXCEPT !.last = i])
MatchWrites ==
  {<<InfTouched(4, InfRow(1, TRUE, 2, 2, "OPEN"), 2), TapeRow(3, 1),
     InfTouched(4, InfRow(1, TRUE, 2, 2, "FILLED"), 3), TapeRow(4, 2),
     InfTouched(2, InfRow(1, FALSE, 3, NULL, "CANCELLED"), 5)>>}
MatchQueries == {[book |-> 1, limit |-> 1], [book |-> BLANK], [book |-> 1, limit |-> GARBAGE]}

PollPlans ==
  Polls(PollTables, TradeWrites, 0, "depth", PairQueries \cup BadPairs, {NoStake}, 3)
    \cup Polls(PollTables, TapeWrites \cup TradeWrites, 0, "trades", PairQueries \cup BadPairs, {NoStake}, 3)
    \cup Polls(PollTables, TradeWrites, 0, "balances", {[market |-> 1], [market |-> 4], <<>>}, {OneStake}, 2)
    \cup Polls(UnapprovedTables, {<<OutcomesWritten, Write("orders", 1, AskRow(2, n1, 20))>>}, 0,
               "balances", {[market |-> 1]}, {NoStake, OneStake}, 2)
    \cup Polls(BookTables4, MatchWrites, 2, "inferenceDepth", MatchQueries, {NoStake}, 2)
    \cup Polls(BookTables4, MatchWrites, 0, "inferenceTrades", MatchQueries, {NoStake}, 3)

-----------------------------------------------------------------------------
(* Reads of the SDK. *)

At(id, at, kind, of) == [id |-> id, at |-> at, kind |-> kind, of |-> of, body |-> "there"]
Late(e) == [e EXCEPT !.body = "absent"]
Garbled(e) == [e EXCEPT !.body = "garbled"]
Comes(what, of, n) == [what |-> what, of |-> of, now |-> n]
Scanning(f, s) == [Scenario(Quiet, ReadTables, NoWalk, NoPoll) EXCEPT !.feed = f, !.scan = s]
RootLog(es) == [a \in {"root"} |-> es]

\* Five notes, of which three are ours; one is handed over, one more comes.
NoteFeed ==
  Feed(RootLog([i \in 1..5 |-> At(i, i, "deployed", i)]),
       (1 :> k1 @@ 2 :> k2 @@ 3 :> NULL @@ 4 :> k1 @@ 5 :> k1 @@ 6 :> k1), <<>>, <<>>,
       <<Comes("event", "root", At(6, 6, "deployed", 6)), Comes("key", 4, k2), Comes("key", 3, k1)>>)
\* Three oracles, one of them announced twice, and the markets of their lists.
OracleFeed ==
  Feed(RootLog(<<At(1, 1, "deployed", 1), At(2, 2, "deployed", 2), Garbled(At(3, 3, "deployed", 3)),
                 At(4, 4, "deployed", 1)>>),
       <<>>, (1 :> {1, 2} @@ 2 :> {3} @@ 3 :> {1} @@ 4 :> NULL),
       (<<1, 1>> :> "active" @@ <<1, 2>> :> NULL @@ <<2, 3>> :> "closed" @@ <<3, 1>> :> "active"
        @@ <<1, 3>> :> "active"),
       <<Comes("market", <<1, 2>>, "active"), Comes("event", "root", At(5, 5, "deployed", 4)),
         Comes("market", <<1, 1>>, "closed"), Comes("list", 1, {1, 2, 3}), Comes("list", 2, NULL)>>)

\* Two notes with events in one second.
HistoryFeed ==
  Feed("root" :> <<>>
         @@ "a" :> <<At(1, 1, "staked", 1), At(3, 2, "staked", 1), Garbled(At(4, 2, "other", 1)),
                     At(5, 3, "staked", 1), At(7, 3, "staked", 1)>>
         @@ "b" :> <<At(2, 1, "staked", 2), At(6, 3, "staked", 2)>>,
       <<>>, <<>>, <<>>,
       <<Comes("event", "a", At(8, 4, "staked", 1)), Comes("event", "b", At(9, 4, "staked", 2))>>)

\* The client id 1 was used at second 1; its new order comes late, among others.
WaitFeed ==
  Feed(RootLog(<<At(1, 1, "placed", 1), At(2, 2, "cancelled", 1), At(3, 2, "placed", 2)>>),
       <<>>, <<>>, <<>>,
       <<Comes("event", "root", Late(At(4, 2, "placed", 1))), Comes("event", "root", At(5, 3, "filled", 1)),
         Comes("body", "root", 4), Comes("event", "root", Garbled(At(6, 3, "placed", 3)))>>)

ScanPlans ==
  {Scanning(NoteFeed, Scan("notes", <<>>))}
    \cup {Scanning(OracleFeed, Scan("markets", [active |-> a])) : a \in BOOLEAN}
    \cup {Scanning(HistoryFeed, Scan("history", [accounts |-> as, limit |-> l])) :
            as \in {<<"a">>, <<"a", "b">>}, l \in {1, 2}}
    \cup {Scanning(WaitFeed, Scan("wait", [kind |-> k, of |-> 1, since |-> 2, known |-> 3])) :
            k \in {"placed", "cancelled", "filled"}}

\* Calls of one client through its limiter.
CallPlans == {Scenario([Quiet EXCEPT !.acquires = 3, !.elapses = 5], ReadTables, NoWalk, NoPoll)}

-----------------------------------------------------------------------------
(* Streams of edges, the files and builds to come. *)

Sound(id) == [id |-> id, sound |-> TRUE]
Edge(m, kind, name) ==
  LET e == EventOf(Type(kind, name))
  IN [msg |-> m, order |-> TRUE, src |-> IF kind = "OrderBook" THEN 1 ELSE 2, dst |-> e.emit,
      body |-> Sound(e.id), of |-> e.type]
Edges ==
  <<Edge(1, "OrderBook", "OrderPlaced"), Edge(2, "RootModel", "ContractDeployed"),
    Edge(3, "OrderBook", "Queued"), Edge(2, "RootModel", "ContractDeployed"),
    Edge(4, "TokenContract", "ContractDeployed"), Edge(5, "SuperRoot", "RootRegistered"),
    Edge(6, "OrderBook", "OrderCancelled")>>
OddEdges ==
  <<[Edge(1, "OrderBook", "OrderPlaced") EXCEPT !.dst = 144], Edge(2, "Other", "Noise"),
    [Edge(3, "TokenContract", "ContractDeployed") EXCEPT !.dst = 700],
    [Edge(4, "OrderBook", "PartialFill") EXCEPT !.body = GARBAGE],
    [Edge(5, "OrderBook", "PartialFill") EXCEPT !.order = FALSE],
    [Edge(6, "OrderBook", "OrderPlaced") EXCEPT !.body.sound = FALSE],
    [Edge(7, "OrderBook", "OrderPlaced") EXCEPT !.dst = NULL],
    [Edge(8, "OrderBook", "OrderCancelled") EXCEPT !.body = NULL]>>

Projected(es, n) ==
  [m \in {es[i].msg : i \in 1..n} |->
     [type |-> (CHOOSE e \in ToSet(es) : e.msg = m).of, processed |-> TRUE]]
Files1 == <<Config({}, {Type("OrderBook", "OrderCancelled")}, TRUE), Config({1}, {Type("OrderBook", "Queued")}, TRUE),
            Config({}, {Type("OrderBook", "PartialFill")}, TRUE), Config({}, {}, TRUE)>>
Streams ==
  {Stream(Edges, <<>>, NULL, Files1, <<"new">>, 1),
   Stream(Edges, Projected(Edges, 2), BLANK, <<Config({}, {}, FALSE), Config({2}, {}, TRUE)>>, <<"new">>, 1),
   Stream(OddEdges, <<>>, NULL, <<>>, <<"new">>, 1)}

StreamPlans == {[Scenario(Quiet, ReadTables, NoWalk, NoPoll) EXCEPT !.stream = s] : s \in Streams}

Noteworks == {Scenario(p, ReadTables, NoWalk, NoPoll) :
                p \in RootPlans \cup PoolPlans \cup UserPlans \cup ApiPlans}
MCPlans == Noteworks \cup ReadPlans \cup PollPlans \cup ScanPlans \cup CallPlans \cup StreamPlans

Pay2(n, s, f) == [NoEcc EXCEPT !["NACKL"] = n, !["SHELL"] = s, !["SHELL_FEE"] = f]
MCPayments == {Pay2(2, 1, 0), Pay2(0, 3, 0), Pay2(0, 2, 0), Pay2(2, 0, 0), Pay2(2, 2, 0),
               Pay2(0, 1, 2)}

Query(ps) == [i \in DOMAIN ps |-> <<ps[i], i>>]
MCRequests ==
  {[query |-> Query(q), age |-> a, recv |-> r] :
     q \in {<<"timestamp", "limit", "signature">>, <<"limit", "timestamp", "signature">>},
     a \in {-2, -1, 3, 4, 5}, r \in {NULL, 9}}
==============================================================================
