----------------------------- MODULE TradingApi ------------------------------
(***************************************************************************)
(* The write side of the HTTP API in front of the trading notes.  A lane   *)
(* is a client with one request at a time: the use case resolves it        *)
(* against the read model, validates and encodes it, signs an external     *)
(* message to the note and waits for its execution.  The wait is bounded;  *)
(* the message may still execute after the client has been told            *)
(* RequestTimeout, and the client may then send its request again.         *)
(***************************************************************************)
EXTENDS TradingSystem, Served

CONSTANT U64_MAX

ASSUME GridAssumption ==
  /\ FULL_PERCENT = 10 ^ PRICE_BPS_DECIMALS
  /\ LOT = 10 ^ (QUOTE_DECIMALS - QUANTITY_PRECISION)

VARIABLES lane,  \* the client's requests and the one in progress
          late   \* messages whose sender no longer waits

apiVars == <<lane, late>>

TickSize == PowerOfTenNeg(PRICE_PRECISION)
StepSize == PowerOfTenNeg(QUANTITY_PRECISION)
MinNotional == ScaleUintToDecimal(MIN_NOTIONAL, QUOTE_DECIMALS)

ApiInit ==
  /\ TradeInit
  /\ lane = [l \in DOMAIN plan.lanes |->
               [asks |-> plan.lanes[l].asks, at |-> "idle", call |-> Nothing,
                tries |-> 0]]
  /\ late = {}

NoteOf(l) == plan.lanes[l].note
AskIndex(l) == Len(plan.lanes[l].asks) - Len(lane[l].asks) + 1

-----------------------------------------------------------------------------
(* Validation.  e ?? f is the error e or, without one, f. *)

e ?? f == IF e # Ok THEN e ELSE f
Check(holds, error) == IF holds THEN Ok ELSE error

\* parse::<u64>.
ParseU64(id) == Check(id # NULL, "MissingParameter") ?? Check(id <= U64_MAX, "InvalidParameter")

\* The fields of an item: the handlers of one order and of a batch treat them alike.
ParseItem(it) ==
  Check(it.side # NULL, "MissingParameter")
  ?? Check(it.side \in {"BUY", "SELL"}, "InvalidParameter")
  ?? Check(it.qty # NULL, "MissingParameter")
  ?? Check(it.type \in {NULL, "LIMIT", "MARKET"}, "InvalidParameter")
  ?? Check(it.tif \in {NULL, "GTC", "IOC", "FOK", "POST_ONLY"}, "InvalidParameter")

OrderType(it) == IF it.type = NULL THEN "LIMIT" ELSE it.type
IsBuy(it) == it.side = "BUY"

BuildNewOrderInput(a) == Check(a.market # NULL, "MissingParameter") ?? ParseItem(a.items[1])

\* The error of the first f(x) that fails.
FirstError(s, f(_)) == FoldLeft(LAMBDA e, x : e ?? f(x), Ok, s)

BuildBatchOrdersInput(a) ==
  Check(a.market # NULL /\ a.items # NULL, "MissingParameter")
  ?? FirstError(a.items, ParseItem)

BuildCancelInput(a) == Check(a.market # NULL, "MissingParameter") ?? ParseU64(a.ids[1])

BuildCancelBatchInput(a) ==
  Check(a.market # NULL /\ a.ids # NULL, "MissingParameter") ?? FirstError(a.ids, ParseU64)

BuildFullSetInput(a) == Check(a.market # NULL /\ a.collateral # NULL, "MissingParameter")

EncodeFlags(it) ==
  CASE OrderType(it) = "MARKET" -> {"MARKET"}
    [] OrderType(it) = "LIMIT" -> {it.tif} \ {NULL, "GTC"}

\* Mutant: the tick of the price is not checked.
PriceError_OffTick(p) == PrecisionWithin(p, PRICE_BPS_DECIMALS)

PriceError(p) ==
  PrecisionWithin(p, PRICE_PRECISION)
  ?? Check(IsMultipleOf(p, TickSize), "PrecisionExceeded")
  ?? PrecisionWithin(p, PRICE_BPS_DECIMALS)

QuantityError(q) ==
  PrecisionWithin(q, QUANTITY_PRECISION)
  ?? Check(IsMultipleOf(q, StepSize), "PrecisionExceeded")
  ?? PrecisionWithin(q, QUOTE_DECIMALS)
  ?? Check(q.m > 0, "OrderValidationFailed")
  ?? Check(LiftDecimal(q, QUOTE_DECIMALS) <= U64_MAX, "OrderValidationFailed")

\* A market sell has no price to take its notional from.
NotionalEnough(it) ==
  CASE OrderType(it) = "LIMIT" -> NotionalMeetsMinimum(it.price, it.qty, MinNotional)
    [] OrderType(it) = "MARKET" /\ IsBuy(it) ->
         NotionalMeetsMinimum([m |-> 1, d |-> 0], it.qty, MinNotional)
    [] OTHER -> TRUE

\* validate_and_encode_order_item: the checks, in its order.
ValidateItem(it) ==
  Check(OrderType(it) = "MARKET" => it.tif \in {NULL, "IOC"}, "InvalidParameter")
  ?? Check(OrderType(it) = "LIMIT" => it.price # NULL, "MissingParameter")
  ?? Check(OrderType(it) = "MARKET" => it.price = NULL, "InvalidParameter")
  ?? (IF it.price = NULL THEN Ok ELSE PriceError(it.price))
  ?? QuantityError(it.qty)
  ?? Check(NotionalEnough(it), "OrderValidationFailed")
  ?? (IF it.cid = NULL THEN Ok ELSE Check(it.cid <= U64_MAX, "InvalidParameter"))

\* validate_and_encode_order_item: the order; a missing identifier is drawn at
\* random, here as one that nobody else uses.
Encoded(outcome, it, fresh) ==
  [book |-> outcome, isBuy |-> IsBuy(it), flags |-> EncodeFlags(it),
   price |-> IF it.price = NULL THEN 0 ELSE LiftDecimal(it.price, PRICE_BPS_DECIMALS),
   amount |-> LiftDecimal(it.qty, QUOTE_DECIMALS), minAmount |-> 0,
   cid |-> IF it.cid = NULL THEN fresh ELSE it.cid]

GenerateClientOrderId(l, i) ==
  100 * l + 10 * AskIndex(l) + MAX_BATCH_SIZE * lane[l].tries + i

-----------------------------------------------------------------------------
(* The use cases: what they check before they call the chain.  The market  *)
(* and the symbol of a request are the outcome they name.                  *)

\* compute_status of a frozen market that is not resolved (MarketRows has the rest).
Status == IF Trading THEN "TRADING" ELSE "RESOLVING"
ResolveForNewOrder(a) == Check(a.market \in Books, "InvalidMarketOrSymbol")
ResolveForBuyFullSet(a) == Check(a.market \in Books, "InvalidMarketOrSymbol")

\* Open orders of the caller among ids, as the query finds them.
ResolveForCancelBatch(l, a) ==
  {i \in Range(a.ids) : ResolveForCancel(db, i, a.market, NoteOf(l))}

CreateOrder(a) ==
  BuildNewOrderInput(a)
  ?? ResolveForNewOrder(a)
  ?? Check(Status = "TRADING", "OrderValidationFailed")
  ?? ValidateItem(a.items[1])

CreateBatchOrders(a) ==
  BuildBatchOrdersInput(a)
  ?? Check(a.items # <<>>, "InvalidParameter")
  ?? ResolveForNewOrder(a)
  ?? Check(Status = "TRADING", "OrderValidationFailed")
  ?? Check(Len(a.items) <= MAX_BATCH_SIZE, "InvalidParameter")
  ?? FirstError(a.items, ValidateItem)

CancelOneOrder(l, a) ==
  BuildCancelInput(a)
  ?? Check(ResolveForCancel(db, a.ids[1], a.market, NoteOf(l)), "UnknownOrder")
  ?? Check(Status = "TRADING", "OrderValidationFailed")

\* A batch cancellation up to its second read of the database ...
CancelBatchOrders(a) ==
  BuildCancelBatchInput(a)
  ?? Check(a.ids # <<>>, "InvalidParameter")
  ?? ResolveForNewOrder(a)
  ?? Check(Status = "TRADING", "OrderValidationFailed")
  ?? Check(Len(a.ids) <= MAX_BATCH_SIZE, "InvalidParameter")
  ?? Check(IsInjective(a.ids), "InvalidParameter")

\* ... and from there: every order is found or none is cancelled.
CancelResolution(l, a) ==
  Check(ResolveForCancelBatch(l, a) = Range(a.ids), "UnknownOrder")
  ?? Check(Status = "TRADING", "OrderValidationFailed")

BuyFullSet(a) ==
  BuildFullSetInput(a)
  ?? ResolveForBuyFullSet(a)
  ?? Check(Status \in {"AWAITING_FREEZE", "TRADING"}, "OrderValidationFailed")
  ?? Check(PrecisionWithin(a.collateral, QUOTE_DECIMALS) = Ok, "InvalidParameter")
  ?? Check(a.collateral.m > 0, "InvalidParameter")
  ?? Check(LiftDecimal(a.collateral, QUOTE_DECIMALS) <= U64_MAX, "InvalidParameter")

UseCase(l, a) ==
  CASE a.ask = "order"       -> CreateOrder(a)
    [] a.ask = "batch"       -> CreateBatchOrders(a)
    [] a.ask = "cancel"      -> CancelOneOrder(l, a)
    [] a.ask = "cancelBatch" -> CancelBatchOrders(a)
    [] a.ask = "fullSet"     -> BuyFullSet(a)

-----------------------------------------------------------------------------
(* The chain sender. *)

SubmitOrder(l, a) ==
  [call |-> "place", order |-> Encoded(a.market, a.items[1], GenerateClientOrderId(l, 1))]

SubmitBatchOrder(l, a) ==
  [call |-> "batch", cancels |-> <<>>,
   orders |-> [i \in DOMAIN a.items |->
                 Encoded(a.market, a.items[i], GenerateClientOrderId(l, i))]]

SubmitCancel(a) == [call |-> "cancel", id |-> a.ids[1]]

\* The chain has no batch of cancellations: it is a batch that places nothing.
SubmitCancelBatch(a) == [call |-> "batch", orders |-> <<>>, cancels |-> a.ids]

SubmitSplit(a) == [call |-> "split", amount |-> LiftDecimal(a.collateral, QUOTE_DECIMALS)]

\* The payloads of the sender, and what its encoding can carry.
U64 == 0..U64_MAX
NewOrderPayload ==
  [book : Books, isBuy : BOOLEAN, flags : SUBSET {"MARKET", "IOC", "FOK", "POST_ONLY"},
   price : Nat, amount : U64, minAmount : {0}, cid : U64]
NewBatchOrderPayload(c) == Len(c.orders) \in 1..MAX_BATCH_SIZE /\ Range(c.orders) \subseteq NewOrderPayload
CancelOrderPayload == [call : {"cancel"}, id : U64]
CancelBatchOrderPayload(c) ==
  Len(c.cancels) \in 1..MAX_BATCH_SIZE /\ IsInjective(c.cancels) /\ Range(c.cancels) \subseteq U64
SplitFullSetPayload == [call : {"split"}, amount : U64 \ {0}]

CallOf(l, a) ==
  CASE a.ask = "order"       -> SubmitOrder(l, a)
    [] a.ask = "batch"       -> SubmitBatchOrder(l, a)
    [] a.ask = "cancel"      -> SubmitCancel(a)
    [] a.ask = "cancelBatch" -> SubmitCancelBatch(a)
    [] a.ask = "fullSet"     -> SubmitSplit(a)

-----------------------------------------------------------------------------
(* A request runs. *)

Idle(r) == [r EXCEPT !.at = "idle", !.call = Nothing]
NextAsk(r) == [Idle(r) EXCEPT !.asks = Tail(@), !.tries = 0]
Dispatched(l, r) ==
  [r EXCEPT !.at = "wait", !.call = CallOf(l, Head(r.asks))]

Elsewhere == Quiet /\ UNCHANGED <<noteVars, envVars, late>>

ReadsDatabase(l) ==
  /\ lane[l].at = "idle" /\ lane[l].asks # <<>>
  /\ LET a == Head(lane[l].asks) IN
     lane' = [lane EXCEPT ![l] =
                CASE UseCase(l, a) # Ok -> NextAsk(@)
                  [] UseCase(l, a) = Ok /\ a.ask = "cancelBatch" ->
                       [@ EXCEPT !.at = "reread"]
                  [] OTHER -> Dispatched(l, @)]
  /\ Elsewhere

ReadsAgain(l) ==
  /\ lane[l].at = "reread"
  /\ lane' = [lane EXCEPT ![l] =
                IF CancelResolution(l, Head(@.asks)) = Ok
                THEN Dispatched(l, @) ELSE NextAsk(@)]
  /\ Elsewhere

\* The note executes message c.
Runs(l, c) ==
  /\ NoteExecutes(NoteOf(l), c)
  /\ Quiet /\ UNCHANGED <<calls, envVars>>

Executes(l) ==
  /\ lane[l].at = "wait"
  /\ Runs(l, lane[l].call)
  /\ lane' = [lane EXCEPT ![l].at = "done"]
  /\ UNCHANGED late

Responds(l) ==
  /\ lane[l].at = "done"
  /\ lane' = [lane EXCEPT ![l] = NextAsk(@)]
  /\ Elsewhere

\* map_tvm_exit_code.
MapExitCode(code) ==
  CASE code \in {102, 142, 150, 151, 160, 168} -> "OrderValidationFailed"
    [] code = 121 -> "OrderPnBusy"
    [] code = 129 -> "InvalidParameter"
    [] code \in {130, 161, 162} -> "MarketInconsistent"
    [] code \in {163, 164} -> "PrecisionExceeded"
    [] OTHER -> "Unexpected"

\* The note refuses the message; a client retries when its note is busy.
ChainRefuses(l) ==
  LET code == CallRefusal(notes[NoteOf(l)], lane[l].call) IN
  /\ lane[l].at = "wait" /\ code # OK
  /\ lane' = [lane EXCEPT ![l] =
                IF MapExitCode(code) = "OrderPnBusy" THEN Idle(@) ELSE NextAsk(@)]
  /\ Elsewhere

\* The wait is over: RequestTimeout.  The message stays under way, and the
\* client sends its request again, with the same client identifier.
TimesOut(l) ==
  /\ "timeout" \in plan.moves /\ lane[l].at \in {"wait", "done"}
  /\ late' = IF lane[l].at = "done" THEN late
             ELSE late \cup {[lane |-> l, ask |-> AskIndex(l), call |-> lane[l].call,
                              try |-> lane[l].tries]}
  /\ lane' = [lane EXCEPT ![l] =
                IF @.tries < plan.retries THEN [Idle(@) EXCEPT !.tries = @ + 1]
                ELSE NextAsk(@)]
  /\ Quiet /\ UNCHANGED <<noteVars, envVars>>

LateExecutes(m) ==
  /\ Runs(m.lane, m.call)
  /\ late' = late \ {m}
  /\ UNCHANGED lane

\* An external message that is not accepted before it expires is gone.
Expires(m) ==
  /\ late' = late \ {m}
  /\ Quiet /\ UNCHANGED <<noteVars, envVars, lane>>

ApiStep ==
  \/ \E l \in DOMAIN lane :
       ReadsDatabase(l) \/ ReadsAgain(l) \/ Executes(l) \/ Responds(l)
       \/ ChainRefuses(l) \/ TimesOut(l)
  \/ \E m \in late : LateExecutes(m) \/ Expires(m)

ApiNext == (TradeNext /\ UNCHANGED apiVars) \/ ApiStep

ApiSpec == ApiInit /\ [][ApiNext]_<<tradeVars, apiVars>>

\* Only the contracts are fair: nothing is assumed of owners and clients.
FairApiSpec == ApiSpec /\ Delivery

-----------------------------------------------------------------------------
(* The balances the API serves: the free part from the note on the chain,  *)
(* the part in orders from the read model.                                 *)

GetDetails(n) ==
  [balance |-> [t \in {"quote"} |-> notes[n].balance],
   locked  |-> [t \in {"quote"} |-> notes[n].locked]]

\* A trading note has no debt and no coupons in its record.
GetStake(n) ==
  LET amount == IF notes[n].stake.exists THEN notes[n].stake.amount ELSE <<>>
      none == [b \in DOMAIN amount |-> 0]
  IN [amount |-> amount, debt |-> none, coupons |-> none]

GetAccount(n) == AccountBalances(GetDetails(n).balance, GetDetails(n).locked)
GetAccountBalances(n) ==
  MarketBalances(GetStake(n), [b \in Books |-> SumOpenSellRemaining(db, n, b)], Books)

-----------------------------------------------------------------------------
(* Properties. *)

CaughtUp == Still /\ feed = <<>> /\ "index" \in plan.moves

OpenBuys(n) == {o \in Resting(db) : db.orders[o].isBuy /\ db.orders[o].owner = n}

\* GET /account, /account/balances and /orders read the chain, or the read model,
\* or both; once the chain is quiet and the indexer has caught up they fit
\* together: the free tokens and the ones in open sells of all notes are the tokens
\* that exist of the outcome, and the locked collateral of a note covers the open
\* buys it lists, with nothing locked when there are none.
BalancesAddUp ==
  CaughtUp =>
    /\ \A n \in Notes : GetAccountBalances(n).error = NULL
    /\ \A b \in Books :
         SumOf([n \in Notes |-> LET row == GetAccountBalances(n).rows[b]
                                IN row.free + row.lockedInOrders]) = market.supply[b]
    /\ \A n \in Notes :
         LET locked == GetAccount(n)["quote"].locked
         IN /\ locked >= MapThenSumSet(LAMBDA o : Notional(db.orders[o].remaining, db.orders[o].price),
                                       OpenBuys(n))
            /\ OpenBuys(n) = {} => locked = 0

\* The best prices of the book on the chain.
BestOnChain(b, isBuy) ==
  LET prices == {book.orders[o].price : o \in {p \in DOMAIN book.orders :
                   book.orders[p].book = b /\ book.orders[p].isBuy = isBuy}}
  IN {p \in prices : \A q \in prices : ~Better(isBuy, q, p)}

\* GET /depth shows the book: once the indexer has caught up the request is not
\* refused, the best level of either side has the best price of the chain, and the
\* two do not cross.
DepthMirrorsBook ==
  CaughtUp => \A b \in Books :
    LET depth == Depth(db, b, 1)
        shown(isBuy) == {l.price : l \in {k \in depth.levels : k.isBuy = isBuy}}
    IN /\ depth.error = NULL
       /\ \A isBuy \in BOOLEAN : shown(isBuy) = {ShownPrice(p) : p \in BestOnChain(b, isBuy)}
       /\ \A bid \in shown(TRUE), ask \in shown(FALSE) : bid.m < ask.m

\* What a client is told of the book, its depth and its balances, from rows made of
\* the book's own events and from the chain, is what the contracts hold.
AnswersMirrorBook == RowsMirrorBook /\ DepthMirrorsBook /\ BalancesAddUp

PlacedBy(c) ==
  CASE c.call = "place" -> {c.order} [] c.call = "batch" -> Range(c.orders) [] OTHER -> {}

\* What the API validates on the display grid of the read model is valid on
\* the chain's: neither the note nor the book refuses an order of the API for
\* its size, its lot, its tick or its notional.
GridAgrees ==
  \A l \in DOMAIN lane : lane[l].at = "wait" =>
    \A o \in PlacedBy(lane[l].call) :
      /\ Refusal(OrderChecks(NewNote(0), o)) \in {OK, 142}
      /\ ValidPlace(o)

\* Whatever a request holds, what goes to the chain for it fits its encoding: no
\* amount or identifier exceeds 64 bits, a batch places or cancels between one and
\* MAX_BATCH_SIZE orders, and cancels none of them twice.
PayloadsFit ==
  \A l \in DOMAIN lane : lane[l].at = "wait" =>
    LET c == lane[l].call
    IN CASE c.call = "place"  -> c.order \in NewOrderPayload
         [] c.call = "cancel" -> c \in CancelOrderPayload
         [] c.call = "split"  -> c \in SplitFullSetPayload
         [] c.call = "batch" /\ c.cancels = <<>> -> NewBatchOrderPayload(c)
         [] c.call = "batch" /\ c.cancels # <<>> -> CancelBatchOrderPayload(c)

\* A request that the API has accepted is one the chain can accept: each order is on
\* the chain's grid and each payload fits its encoding.
ValidForChain == GridAgrees /\ PayloadsFit
=============================================================================
