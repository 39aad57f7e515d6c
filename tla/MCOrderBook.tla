---------------------------- MODULE MCOrderBook ----------------------------
(* Small instances of the order book for TLC. *)
EXTENDS OrderBookSystem, TLC

CONSTANTS n1, n2, b1

Limit(buys, px, size, fl, min) ==
  [book |-> b1, isBuy |-> buys, flags |-> fl, price |-> px,
   amount |-> size, minAmount |-> min]

\* Orders for the matching questions, at two prices that do not divide
\* FULL_PERCENT: resting and aggressive limits of several sizes, one of each
\* execution flag, a minAmount order and both market kinds.
MatchOrders ==
  { Limit(FALSE, 3, 3, {}, 0), Limit(FALSE, 5, 1, {}, 0), Limit(FALSE, 5, 4, {}, 0),
    Limit(TRUE, 5, 4, {}, 2), Limit(TRUE, 5, 4, {"FOK"}, 0),
    Limit(TRUE, 3, 2, {"POST_ONLY"}, 0), Limit(TRUE, 5, 4, {"IOC"}, 0),
    Limit(TRUE, 0, 2, {"MARKET"}, 0), Limit(TRUE, 0, 4, {"MARKET"}, 0),
    Limit(FALSE, 0, 3, {"MARKET"}, 0) }

SingleBatches == {<<o>> : o \in MatchOrders}
NoCancels == {<<>>}

\* Batches for the queue and shutdown questions: no order, a resting pair, and
\* a fill-or-kill whose pre-check yields with an order too small to be valid.
QueueBatches ==
  { <<>>, <<Limit(FALSE, 1, 2, {}, 0), Limit(FALSE, 2, 1, {}, 0)>>,
    <<Limit(TRUE, 2, 3, {"FOK"}, 0), Limit(FALSE, 1, 1, {}, 0)>> }
TwoCancels == {<<>>, <<1, 2>>}

NoteSymmetry == Permutations(Notes)
=============================================================================
