----------------------------- MODULE MCTrading ------------------------------
(* Small instances of the trading notes and of the API for TLC. *)
EXTENDS TradingApi

CONSTANTS n1, n2, yes, no

Order(b, buys, px, size, fl, id) ==
  [book |-> b, isBuy |-> buys, flags |-> fl, price |-> px, amount |-> size,
   minAmount |-> 0, cid |-> id]

PlaceOne(o) == [call |-> "place", order |-> o]
Batch(os, ids) == [call |-> "batch", orders |-> os, cancels |-> ids]
Cancel(id) == [call |-> "cancel", id |-> id]
CancelByClient(id) == [call |-> "cancelByClient", cid |-> id]
CancelAll == [call |-> "cancelAll"]
Split(k) == [call |-> "split", amount |-> k]
Merge(k) == [call |-> "merge", amounts |-> [b \in Books |-> k]]
Claim == [call |-> "claim"]
Delete == [call |-> "delete"]
Transfer(to, k) == [call |-> "transfer", to |-> to, amount |-> k]
Withdraw == [call |-> "withdraw"]

Scenario(moves, c1, c2) ==
  [moves |-> moves, resultStart |-> 1, funds |-> (n1 :> 8 @@ n2 :> 8), custody |-> 16,
   winner |-> yes, calls |-> (n1 :> c1 @@ n2 :> c2), lanes |-> <<>>, retries |-> 0]

Sell(px, size, id) == Order(yes, FALSE, px, size, {}, id)
Buy(px, size, id) == Order(yes, TRUE, px, size, {}, id)

\* Resting and crossing limits, a cancellation that races the fill.
Crossing == Scenario({},
  <<Split(4), PlaceOne(Sell(50, 2, 1)), Cancel(1), PlaceOne(Sell(100, 1, 1)), CancelByClient(1)>>,
  <<PlaceOne(Buy(100, 3, 1)), PlaceOne(Order(yes, TRUE, 0, 3, {"MARKET"}, 0)), CancelAll>>)

\* The same with the indexer behind the book, on fewer calls.
Followed == Scenario({"index"},
  <<Split(4), PlaceOne(Sell(50, 3, 1)), PlaceOne(Sell(100, 1, 2)), CancelAll>>,
  <<PlaceOne(Buy(100, 2, 1))>>)

\* Batches that place and cancel, a fill-or-kill, a cancellation of everything.
Batched == Scenario({},
  <<Split(5), Batch(<<Sell(100, 2, 1), Buy(50, 2, 2)>>, <<>>), Batch(<<Sell(50, 2, 3)>>, <<1>>), CancelAll>>,
  <<Batch(<<Buy(100, 1, 1), Buy(50, 2, 2)>>, <<>>), PlaceOne(Order(yes, TRUE, 100, 3, {"FOK"}, 3))>>)

\* The book closes while orders rest and calls are under way.
Closing == Scenario({"time"},
  <<Split(4), PlaceOne(Sell(100, 2, 1)), Cancel(1), Claim, Withdraw>>,
  <<PlaceOne(Buy(100, 1, 1)), PlaceOne(Buy(50, 2, 2)), Claim, Withdraw>>)

\* Full sets are split and merged while a token of them is for sale.
Sets == Scenario({},
  <<Split(5), PlaceOne(Sell(100, 2, 1)), PlaceOne(Order(no, FALSE, 100, 2, {}, 2)), Merge(2),
    CancelAll, Merge(2), Delete>>,
  <<Split(1), Split(2), PlaceOne(Buy(100, 1, 0)), Merge(1)>>)

\* A resting buy is filled in pieces too small to cost anything.
Pieces == Scenario({},
  <<Split(2), PlaceOne(Order(yes, FALSE, 0, 1, {"MARKET"}, 1)),
    PlaceOne(Order(yes, FALSE, 0, 1, {"MARKET"}, 2))>>,
  <<PlaceOne(Buy(50, 2, 1)), CancelByClient(1), Withdraw>>)

\* Value moves between the notes and leaves; the root cannot pay everything.
Exits == [Scenario({},
  <<Transfer(n2, 3), PlaceOne(Buy(50, 2, 1)), Cancel(1), Withdraw, Transfer(n2, 1)>>,
  <<Transfer(n1, 2), Withdraw, Split(2)>>) EXCEPT !.custody = 14]

\* Decimals of the API and its requests.
Dec(m, d) == [m |-> m, d |-> d]
Item(side, type, tif, px, qty, id) ==
  [side |-> side, type |-> type, tif |-> tif, price |-> px, qty |-> qty, cid |-> id]
AskOrder(it) == [ask |-> "order", market |-> yes, items |-> <<it>>]
AskBatch(its) == [ask |-> "batch", market |-> yes, items |-> its]
AskCancel(id) == [ask |-> "cancel", market |-> yes, ids |-> <<id>>]
AskCancelBatch(ids) == [ask |-> "cancelBatch", market |-> yes, ids |-> ids]
AskFullSet(c) == [ask |-> "fullSet", market |-> yes, collateral |-> c]
Requests(moves, n, asks) ==
  [Scenario(moves, <<>>, <<>>) EXCEPT !.lanes = <<[note |-> n, asks |-> asks]>>]

\* Every kind of item once: prices and quantities on and off the grid.
Items ==
  {Requests({}, n1, <<AskOrder(Item(side, type, tif, px, qty, NULL))>>) :
     side \in {"BUY", "SELL"}, type \in {NULL, "MARKET"}, tif \in {NULL, "IOC", "FOK", "POST_ONLY"},
     px \in {NULL, Dec(0, 0), Dec(5, 1), Dec(10, 1), Dec(5, 2), Dec(50, 2)},
     qty \in {Dec(0, 1), Dec(1, 1), Dec(3, 1), Dec(3, 2), Dec(999, 1), Dec(100, 0)}}

LimitBuy(id) == Item("BUY", "LIMIT", NULL, Dec(5, 1), Dec(4, 1), id)

\* Requests with a field that is absent, unknown, malformed or out of range.
Unparsable ==
  {Requests({}, n1, <<a>>) : a \in
     {AskOrder(Item(NULL, "LIMIT", NULL, Dec(5, 1), Dec(3, 1), NULL)),
      AskOrder(Item("HOLD", "LIMIT", NULL, Dec(5, 1), Dec(3, 1), NULL)),
      AskOrder(Item("BUY", "STOP", NULL, Dec(5, 1), Dec(3, 1), NULL)),
      AskOrder(Item("BUY", "LIMIT", "DAY", Dec(5, 1), Dec(3, 1), NULL)),
      AskOrder(Item("BUY", "LIMIT", NULL, Malformed, Dec(3, 1), NULL)),
      AskOrder(Item("BUY", "LIMIT", NULL, Dec(5, 1), NULL, NULL)),
      AskOrder(Item("BUY", "LIMIT", NULL, Dec(5, 1), Malformed, NULL)),
      AskOrder(Item("BUY", "LIMIT", NULL, Dec(5, 1), Dec(3, 1), U64_MAX + 1)),
      [AskOrder(Item("BUY", "LIMIT", NULL, Dec(5, 1), Dec(3, 1), 1)) EXCEPT !.market = NULL],
      AskBatch(<<>>), AskBatch(NULL), AskCancel(NULL), AskCancel(U64_MAX + 1),
      AskCancelBatch(NULL), AskCancelBatch(<<>>), AskCancelBatch(<<1, NULL>>),
      AskFullSet(NULL), AskFullSet(Malformed), AskFullSet(Dec(0, 0)), AskFullSet(Dec(1000, 1)),
      [AskFullSet(Dec(2, 1)) EXCEPT !.market = "elsewhere"]}}

\* A request that times out is repeated, while its order is filled in part.
Retried ==
  [Scenario({"timeout"}, <<>>, <<Split(4), PlaceOne(Sell(50, 2, 1)), PlaceOne(Sell(50, 2, 2))>>) EXCEPT
     !.retries = 1,
     !.lanes = << [note |-> n1, asks |-> <<AskOrder(LimitBuy(1))>>] >>]

\* Two clients of one note: a full set and orders, cancelled by the other.
Clients ==
  [Scenario({"index", "time"}, <<>>, <<>>) EXCEPT
     !.lanes = << [note |-> n1, asks |-> <<AskFullSet(Dec(2, 1)), AskOrder(LimitBuy(1)),
                                           AskCancelBatch(<<1, 2>>)>>],
                  [note |-> n1, asks |-> <<AskBatch(<<LimitBuy(2)>>), AskCancel(1)>>] >>]

\* Both tokens of a set are for sale when a cancellation comes too late.
SoldOut == Scenario({"time"},
  <<Split(2), PlaceOne(Sell(100, 2, 1)), PlaceOne(Order(no, FALSE, 100, 2, {}, 2)), Cancel(1)>>,
  <<>>)

DropPlans == {SoldOut}
TradePlans == {Crossing, Followed, Batched, Closing, Sets, Pieces, Exits, Retried, Clients} \cup Items \cup Unparsable
=============================================================================
