------------------------------- MODULE Served --------------------------------
(***************************************************************************)
(* What the API answers of a prediction book and of a note.  The chain     *)
(* counts prices in basis points and amounts in atoms; the API shows them  *)
(* on the coarser grid of the outcome, exactly or not at all.              *)
(*                                                                         *)
(* A decimal string stands for the exact value it parses to: the digits m  *)
(* with d of them behind the point.  Trailing zeros count, as in the code: *)
(* "0.50" has two decimals.                                                *)
(***************************************************************************)
EXTENDS OrderRows, Integers

CONSTANTS PRICE_BPS_DECIMALS, QUOTE_DECIMALS, \* chain scales of price and amount
          PRICE_PRECISION, QUANTITY_PRECISION \* of the token, in ref_tokens

ASSUME ScaleAssumption ==
  PRICE_PRECISION \in 0..PRICE_BPS_DECIMALS /\ QUANTITY_PRECISION \in 0..QUOTE_DECIMALS

Ok == "Ok"

\* A string that is no decimal number.
Malformed == [m |-> 0, d |-> -1]

\* parse_positive_decimal: its error, if any.
PrecisionWithin(v, decimals) ==
  CASE v = Malformed -> "InvalidParameter"
    [] v # Malformed /\ v.d > decimals -> "PrecisionExceeded"
    [] OTHER -> Ok

\* lift_decimal: the value in units of 10^-decimals, if it has no more decimals.
LiftDecimal(v, decimals) == v.m * 10 ^ (decimals - v.d)

CommonScale(v, w) == IF v.d >= w.d THEN v.d ELSE w.d

IsMultipleOf(v, step) ==
  LET scale == CommonScale(v, step)
  IN LiftDecimal(v, scale) % LiftDecimal(step, scale) = 0

NotionalMeetsMinimum(price, quantity, least) ==
  LET product == [m |-> price.m * quantity.m, d |-> price.d + quantity.d]
      scale == CommonScale(product, least)
  IN LiftDecimal(product, scale) >= LiftDecimal(least, scale)

\* The reconciler derives the grid of an outcome from the token's precisions.
PowerOfTenNeg(precision) == [m |-> 1, d |-> precision]
ScaleUintToDecimal(raw, scale) == [m |-> raw, d |-> scale]

-----------------------------------------------------------------------------

\* descale_pow10: the dropped digits must be zero.
Descalable(raw, k) == raw % 10 ^ k = 0
Descaled(raw, k) == raw \div 10 ^ k

PriceDrop == PRICE_BPS_DECIMALS - PRICE_PRECISION
AmountDrop == QUOTE_DECIMALS - QUANTITY_PRECISION

OnGrid(price, amount) == Descalable(price, PriceDrop) /\ Descalable(amount, AmountDrop)
ShownPrice(price) == ScaleUintToDecimal(Descaled(price, PriceDrop), PRICE_PRECISION)
ShownAmount(amount) == ScaleUintToDecimal(Descaled(amount, AmountDrop), QUANTITY_PRECISION)

\* order_from_row: a row off the grid is left out of the page.
ShowsOrder(r) ==
  PublicStatus(r) # NULL /\ OnGrid(r.price, r.initial) /\ Descalable(ExecutedQty(r), AmountDrop)

-----------------------------------------------------------------------------
(* GET /depth *)

Better(isBuy, p, q) == IF isBuy THEN p > q ELSE p < q

\* One side of the statement: its best levels.
TopLevels(db, outcome, isBuy, limit) ==
  LET side == {l \in DepthLevels(db, outcome) : l[1].isBuy = isBuy}
  IN {l \in side :
        Cardinality({k \in side : Better(isBuy, k[1].price, l[1].price)}) < limit}

ShownLevel(l) == [isBuy |-> l[1].isBuy, price |-> ShownPrice(l[1].price), qty |-> ShownAmount(l[2])]

\* One level off the grid fails the request.
Depth(db, outcome, limit) ==
  LET levels == TopLevels(db, outcome, TRUE, limit) \cup TopLevels(db, outcome, FALSE, limit)
  IN IF \A l \in levels : OnGrid(l[1].price, l[2])
     THEN [error |-> NULL, levels |-> {ShownLevel(l) : l \in levels}]
     ELSE [error |-> "MarketInconsistent", levels |-> {}]

-----------------------------------------------------------------------------
(* GET /trades *)

\* order by trade_id desc limit n, without the trades that have no time.
Newest(trades, limit) ==
  LET timed == {t \in trades : t.time # NULL}
  IN {t \in timed : Cardinality({u \in timed : u.id > t.id}) < limit}

\* quoteQty is the chain's notional, in atoms.
ShownTrade(t) ==
  [id |-> t.id, price |-> ShownPrice(t.price), qty |-> ShownAmount(t.qty),
   quoteQty |-> ScaleUintToDecimal((t.price * t.qty) \div 10 ^ PRICE_BPS_DECIMALS, QUOTE_DECIMALS),
   buyerMaker |-> t.buyerMaker]

\* One trade off the grid fails the request.
Tape(db, outcome, limit) ==
  LET trades == Newest({t \in db.trades : t.outcome = outcome}, limit)
  IN IF \A t \in trades : OnGrid(t.price, t.qty)
     THEN [error |-> NULL, trades |-> {ShownTrade(t) : t \in trades}]
     ELSE [error |-> "MarketInconsistent", trades |-> {}]

-----------------------------------------------------------------------------
(* GET /account and /account/balances: all the decimals of the chain. *)

ValueAt(f, x) == IF x \in DOMAIN f THEN f[x] ELSE 0

\* GetAccountUseCase: the union of the two maps of getDetails.
AccountBalances(balance, locked) ==
  [tt \in DOMAIN balance \cup DOMAIN locked |->
     [free |-> ValueAt(balance, tt), locked |-> ValueAt(locked, tt)]]

\* The three arrays of a stake record are all empty or have every outcome.
StakeShape(stake, outcomes) ==
  \/ \A f \in {"amount", "debt", "coupons"} : DOMAIN stake[f] = {}
  \/ \A f \in {"amount", "debt", "coupons"} : DOMAIN stake[f] = outcomes

AddDecimalStrs(stake, b) ==
  ValueAt(stake.amount, b) + ValueAt(stake.debt, b) + ValueAt(stake.coupons, b)

\* GetMarketBalancesUseCase, from the note's record and the sums of its sells.
MarketBalances(stake, sums, outcomes) ==
  IF StakeShape(stake, outcomes) /\ DOMAIN sums \subseteq outcomes
  THEN [error |-> NULL,
        rows |-> [b \in outcomes |-> [free |-> AddDecimalStrs(stake, b),
                                      lockedInOrders |-> ValueAt(sums, b)]]]
  ELSE [error |-> "MarketInconsistent", rows |-> <<>>]
==============================================================================
