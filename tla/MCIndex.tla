------------------------------- MODULE MCIndex -------------------------------
(***************************************************************************)
(* Instances of IndexSystem: each plan is a small scenario of one part.    *)
(***************************************************************************)
EXTENDS IndexSystem

CONSTANTS p1, l1, yes, no, n1, n2, b1, b2, d1, d2, m1

None == [x \in {} |-> NULL]
Quiet ==
  [boot |-> <<>>, tokens |-> TRUE, pmps |-> {}, lists |-> {}, timings |-> <<>>,
   moves |-> {}, orders |-> None, inf |-> None, models |-> None, versions |-> None]

\* A market with one oracle, from its deployment to its end.
Oracles ==
  <<[type |-> "OracleDeployed"],
    [type |-> "OracleEventListDeployed", list |-> l1, text |-> NULL],
    [type |-> "EventAdded", list |-> l1]>>
Life ==
  [Quiet EXCEPT !.boot = Oracles, !.pmps = {p1}, !.lists = {l1},
                !.timings = <<<<1, 2, 3, 4>>>>, !.moves = {"fault"}]
\* The same, cancelled on the way, with reconcilers that fail.
Unread == [Life EXCEPT !.moves = {"cancel", "fail"}]
\* Timings that are set twice; no list has to approve.
Retimed ==
  [Quiet EXCEPT !.pmps = {p1}, !.timings = <<<<1, 2, 3, 4>>, <<1, 2, 4, 5>>>>,
                !.moves = {"cancel", "fault"}]

Limit(isBuy, price, amount, note) ==
  [isBuy |-> isBuy, price |-> price, amount |-> amount, market |-> FALSE, note |-> note]
\* A maker matched twice, a taker whose rest is matched by a market order; the
\* confirmations are left to the next plan.
Orders ==
  [Quiet EXCEPT !.orders =
     <<Limit(FALSE, 1, 2, NULL), Limit(TRUE, 1, 3, NULL),
       [Limit(FALSE, 0, 2, NULL) EXCEPT !.market = TRUE]>>,
                !.moves = {"fault"}]
Paging ==
  [Quiet EXCEPT !.orders = <<Limit(FALSE, 2, 1, n1), Limit(FALSE, 2, 1, n1)>>,
                !.moves = {"page"}]

\* Inference orders: BUYs of n2, SELLs of n1 that offer deal d1.
Inf(isBuy, ticks, rests) ==
  [book |-> b1, isBuy |-> isBuy, ticks |-> ticks, rests |-> rests, sub |-> FALSE,
   note |-> IF isBuy THEN n2 ELSE n1, tc |-> IF isBuy THEN NULL ELSE d1]
Scenario(orders, moves) ==
  [Quiet EXCEPT !.models = [b \in Books |-> m1], !.versions = [b \in Books |-> 1],
                !.inf = orders, !.moves = moves]

\* A taker that vanishes with its remainder, swept while its fill is on the way.
Sweeps ==
  Scenario(<<Inf(FALSE, 1, TRUE), Inf(TRUE, 2, FALSE), [Inf(FALSE, 1, TRUE) EXCEPT !.tc = d2]>>,
           {"sweep", "lag", "live"})
\* A SELL that is asked for while its events are on the way.
Lags == Scenario(<<Inf(TRUE, 1, TRUE), Inf(FALSE, 2, TRUE)>>, {"sweep", "lag", "fault"})
\* A placement that was never captured.
Losses == Scenario(<<Inf(FALSE, 1, TRUE), Inf(TRUE, 2, TRUE)>>, {"sweep", "lag", "lose", "live"})
\* Account states that go back; the order in the middle never rests.
Rollback ==
  Scenario(<<Inf(TRUE, 1, TRUE), Inf(TRUE, 1, FALSE), Inf(TRUE, 1, TRUE)>>, {"sweep", "stale", "live"})
\* Two books of one model, the second one of a newer version.
Versions ==
  [Scenario(<<Inf(TRUE, 1, TRUE), [Inf(TRUE, 1, TRUE) EXCEPT !.book = b2]>>, {"sweep", "fail", "live"})
     EXCEPT !.versions = (b1 :> 1 @@ b2 :> 2)]
\* A subscription, partially filled, that is cancelled or expires.
Ends ==
  Scenario(<<[Inf(TRUE, 2, TRUE) EXCEPT !.sub = TRUE], Inf(FALSE, 1, TRUE)>>,
           {"sweep", "fault", "InferenceOrderExpired"})
Expiring ==
  [Ends EXCEPT !.moves = {"sweep", "live", "InferenceOrderCancelled", "InferenceOrderExpired"}]
\* A deal that is matched again, by another buyer, after a no-show.
Rematch ==
  Scenario(<<Inf(TRUE, 1, TRUE), Inf(FALSE, 1, FALSE),
             [Inf(TRUE, 2, TRUE) EXCEPT !.note = n1], Inf(FALSE, 2, TRUE)>>, {"deal", "fault"})
\* The same deal opened and brought to its end, without faults.
Streams == [Rematch EXCEPT !.moves = {"deal", "open"},
                           !.boot = <<[type |-> "ContractDeployed", tc |-> d1]>>]

\* A market order to buy, for quote, what rests at half the price of certainty.
MarketBuy ==
  [Quiet EXCEPT !.orders =
     <<Limit(FALSE, 2, 2, NULL), [Limit(TRUE, 0, 2, NULL) EXCEPT !.market = TRUE]>>]
\* A market that its oracle may refuse, or cancel before it has timings.
Refused == [Life EXCEPT !.tokens = FALSE, !.timings = <<>>, !.moves = {"reject", "cancel", "fault"}]

SafePlans ==
  {Life, Unread, Retimed, Orders, Paging, Sweeps, Lags, Losses, Rollback, Versions, Ends, Rematch,
   Streams, Expiring, MarketBuy, Refused}
=============================================================================
