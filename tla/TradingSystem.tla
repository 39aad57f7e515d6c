---------------------------- MODULE TradingSystem ----------------------------
(***************************************************************************)
(* Notes that trade on one order book, together with the book itself, the  *)
(* market that mints and pays the outcome tokens and the root that holds   *)
(* the money.  The messages of one contract to another arrive in sending   *)
(* order; messages of different senders arrive in any order.               *)
(*                                                                         *)
(* A note has one message to the book, the market or another note in       *)
(* flight at most, because it is busy until the answer; the book's         *)
(* messages to a note queue up in inbox.  The market is reduced to what a  *)
(* trading note sees of PMP: full sets are minted and merged one token of  *)
(* each outcome per unit of collateral, and the winner is fixed once the   *)
(* book has reported its shutdown (Market models the rest).                *)
(***************************************************************************)
EXTENDS TradingNote, OrderRows

CONSTANTS Plans,      \* scenarios, one of which is chosen in Init
          BASKET      \* collateral of the smallest full set

VARIABLES plan,
          notes,      \* the state of every PrivateNote
          calls,      \* what each note's owner still has to do
          sent,       \* the message of a note under way
          inbox,      \* the book's messages to a note
          reply,      \* the answer of the market or of another note
          withdrawal, \* a withdrawal at the root
          market, report,
          root,
          cidOf,      \* the clientOrderId stored with each order
          feed, db, tick

noteVars == <<notes, calls, sent, inbox, reply, withdrawal>>
envVars == <<market, report, root, cidOf, feed, db, tick>>
tradeVars == <<plan, obVars, noteVars, envVars>>

Nothing == [type |-> "nothing"]

TradeInit ==
  /\ plan \in Plans
  /\ OBInit /\ resultStart = plan.resultStart
  /\ notes = [n \in Notes |-> NewNote(plan.funds[n])]
  /\ calls = plan.calls
  /\ sent = [n \in Notes |-> Nothing]
  /\ inbox = [n \in Notes |-> <<>>]
  /\ reply = [n \in Notes |-> Nothing]
  /\ withdrawal = [n \in Notes |-> Nothing]
  /\ market = [vault |-> 0, supply |-> [b \in Books |-> 0], done |-> FALSE]
  /\ report = FALSE
  /\ root = [custody |-> plan.custody, fees |-> 0]
  /\ cidOf = <<>>
  /\ feed = <<>> /\ tick = 0
  /\ db = OrderTables

Quiet == UNCHANGED <<plan, book, nextOrderId, fees, queue, shuttingDown,
                     shutdownPending, shutdownCursor, alive, selfCalls, now,
                     resultStart>>
         /\ out' = <<>>

-----------------------------------------------------------------------------
(* The owner's calls. *)

CallRefusal(s, c) ==
  CASE c.call = "place"          -> PlaceRefusal(s, c.order)
    [] c.call = "batch"          -> BatchRefusal(s, c.orders, c.cancels)
    [] c.call = "cancel"         -> CancelRefusal(s)
    [] c.call = "cancelByClient" -> CancelByClientRefusal(s, c.cid)
    [] c.call = "cancelAll"      -> CancelRefusal(s)
    [] c.call = "split"          -> SplitRefusal(s, c.amount)
    [] c.call = "merge"          -> MergeRefusal(s, c.amounts)
    [] c.call = "claim"          -> ClaimRefusal(s)
    [] c.call = "delete"         -> DeleteRefusal(s)
    [] c.call = "transfer"       -> TransferRefusal(s, c.amount)
    [] c.call = "withdraw"       -> WithdrawRefusal(s)

AfterCall(s, c) ==
  CASE c.call = "place"     -> PlaceOrder(s, c.order)
    [] c.call = "batch"     -> PlaceBatch(s, c.orders, c.cancels)
    [] c.call \in {"cancel", "cancelByClient"} -> CancelOrder(s)
    [] c.call = "cancelAll" -> NoteCancelAll(s)
    [] c.call = "split"     -> SplitFullSet(s, c.amount)
    [] c.call = "merge"     -> MergeFullSet(s, c.amounts)
    [] c.call = "claim"     -> NoteClaim(s)
    [] c.call = "delete"    -> DeleteStake(s)
    [] c.call = "transfer"  -> InitTransfer(s, c.to, c.amount)
    [] c.call = "withdraw"  -> WithdrawTokens(s)

ToBook(s, orders, cancels) ==
  [type |-> "executeBatch", orders |-> orders, cancels |-> cancels,
   nonce |-> s.opNonce + 1]

\* The message the call sends; s is the state before it.
MessageOf(s, c) ==
  CASE c.call = "place"          -> ToBook(s, <<c.order>>, <<>>)
    [] c.call = "batch"          -> ToBook(s, c.orders, c.cancels)
    [] c.call = "cancel"         -> ToBook(s, <<>>, <<c.id>>)
    [] c.call = "cancelByClient" -> ToBook(s, <<>>, <<s.cids[c.cid]>>)
    [] c.call = "cancelAll"      -> [type |-> "cancelAllOrders", nonce |-> s.opNonce + 1]
    [] c.call = "split"          -> [type |-> "split", collateral |-> c.amount]
    [] c.call = "merge"          -> [type |-> "merge", amounts |-> c.amounts]
    [] c.call \in {"claim", "delete"} -> [type |-> c.call, amounts |-> s.stake.amount]
    [] c.call = "transfer"       -> [type |-> "transfer", to |-> c.to, amount |-> c.amount]
    [] c.call = "withdraw"       -> [type |-> "withdraw", amount |-> s.balance]

\* The note executes call c of its owner.
NoteExecutes(n, c) ==
  LET s == notes[n] IN
  /\ CallRefusal(s, c) = OK
  /\ notes' = [notes EXCEPT ![n] = AfterCall(s, c)]
  /\ IF c.call = "withdraw"
     THEN withdrawal' = [withdrawal EXCEPT ![n] = MessageOf(s, c)] /\ UNCHANGED sent
     ELSE sent' = [sent EXCEPT ![n] = MessageOf(s, c)] /\ UNCHANGED withdrawal
  /\ UNCHANGED <<inbox, reply>>

\* The owner of n waits for a busy note and gives up a call that is refused.
OwnerCalls(n) ==
  /\ calls[n] # <<>>
  /\ calls' = [calls EXCEPT ![n] = Tail(@)]
  /\ \/ NoteExecutes(n, Head(calls[n]))
     \/ /\ notes[n].busy = None /\ CallRefusal(notes[n], Head(calls[n])) # OK
        /\ UNCHANGED <<notes, sent, inbox, reply, withdrawal>>
  /\ Quiet /\ UNCHANGED envVars

-----------------------------------------------------------------------------
(* The book.  What a transaction sends is delivered to the inboxes, and    *)
(* its events join the feed of the indexer.                                *)

WithCid(m, ids) ==
  IF m.type \in {"Filled", "Cancelled"} THEN [cid |-> ids[m.id]] @@ m ELSE m

EventOf(m) ==
  CASE m.type = "Placed" -> <<[ev |-> "OrderPlaced", id |-> m.id,
                               outcome |-> m.op.book, isBuy |-> m.op.isBuy,
                               price |-> m.op.price, amount |-> m.op.amount]>>
    [] m.type = "Filled" -> <<[ev |-> "OrderFilled", id |-> m.id, amount |-> m.amount,
                               price |-> m.price, taker |-> ~m.isRebate]>>
    [] m.type = "Cancelled" -> <<[ev |-> "OrderCancelled", id |-> m.id]>>
    [] OTHER -> <<>>

\* The scenarios that do not ask about the read model leave the indexer out.
Indexed(events) == IF "index" \in plan.moves THEN events ELSE <<>>

\* The effects of a transaction of the book outside the book.
Sends(arrivals) ==
  LET placed == {i \in DOMAIN out' : out'[i].type = "Placed"}
      ids == [id \in DOMAIN cidOf \cup {out'[i].id : i \in placed} |->
                IF id \in DOMAIN cidOf THEN cidOf[id]
                ELSE out'[CHOOSE i \in placed : out'[i].id = id].op.cid]
      fee == {i \in DOMAIN out' : out'[i].type = "ProtocolFee"}
  IN /\ inbox' = [n \in Notes |-> arrivals[n] \o
                    LET mine == SelectSeq(out', LAMBDA m : m.to = n)
                    IN [i \in DOMAIN mine |-> WithCid(mine[i], ids)]]
     /\ cidOf' = ids
     /\ feed' = feed \o Indexed(FlattenSeq([i \in DOMAIN out' |-> EventOf(out'[i])]))
     /\ report' = (report \/ \E i \in DOMAIN out' : out'[i].type = "ShutdownComplete")
     /\ root' = [root EXCEPT !.fees = @ + MapThenSumSet(LAMBDA i : out'[i].amount, fee)]

BookAccepts(n) ==
  /\ sent[n].type \in {"executeBatch", "cancelAllOrders"}
  /\ IF sent[n].type = "executeBatch"
     THEN ExecuteBatch(n, sent[n].orders, sent[n].cancels, sent[n].nonce)
     ELSE CancelAllOrders(n, sent[n].nonce)
  /\ sent' = [sent EXCEPT ![n] = Nothing]
  /\ Sends(inbox)
  /\ UNCHANGED <<plan, notes, calls, reply, withdrawal, market, db, tick>>

BookBounces(n) ==
  /\ sent[n].type \in {"executeBatch", "cancelAllOrders"} /\ ~Accepting
  /\ sent' = [sent EXCEPT ![n] = Nothing]
  /\ inbox' = [inbox EXCEPT ![n] = Append(@, [type |-> "Bounce"])]
  /\ Quiet
  /\ UNCHANGED <<notes, calls, reply, withdrawal, envVars>>

BookContinues ==
  /\ SelfProcessHead \/ SelfShutdown
  /\ Sends(inbox)
  /\ UNCHANGED <<plan, notes, calls, sent, reply, withdrawal, market, db, tick>>

\* triggerOrderBookShutdown, once the result time has come.
MarketShutsDown ==
  /\ now >= resultStart /\ ~shuttingDown /\ ~shutdownPending
  /\ PMPShutdown
  /\ Sends(inbox)
  /\ UNCHANGED <<plan, notes, calls, sent, reply, withdrawal, market, db, tick>>

TimePasses ==
  /\ "time" \in plan.moves /\ now < resultStart
  /\ Tick
  /\ UNCHANGED <<plan, noteVars, envVars>>

-----------------------------------------------------------------------------
(* The notes receive. *)

FromBook(s, m) ==
  CASE m.type = "Placed"        -> OnOrderPlaced(s, m)
    [] m.type = "Rejected"      -> OnOrderRejected(s, m)
    [] m.type = "Cancelled"     -> OnOrderCancelled(s, m)
    [] m.type = "Filled"        -> OnOrderFilled(s, m)
    [] m.type = "BatchComplete" -> OnBatchComplete(s, m)
    [] m.type = "Bounce"        -> OnBounce(s, "book")

NoteHears(n) ==
  /\ inbox[n] # <<>>
  /\ LET m == Head(inbox[n]) IN
     /\ notes' = [notes EXCEPT ![n] = FromBook(@, m)]
     /\ feed' = feed \o
          IF m.type = "Placed"
          THEN Indexed(<<[ev |-> "OrderPlacedConfirmed", id |-> m.id, note |-> n]>>)
          ELSE <<>>
  /\ inbox' = [inbox EXCEPT ![n] = Tail(@)]
  /\ Quiet
  /\ UNCHANGED <<calls, sent, reply, withdrawal, market, report, root, cidOf, db, tick>>

FromOthers(s, m) ==
  CASE m.type = "SplitAccepted"    -> OnSplitAccepted(s, m)
    [] m.type = "MergeAccepted"    -> OnMergeAccepted(s, m)
    [] m.type = "ClaimAccepted"    -> OnClaimAccepted(s, m)
    [] m.type = "ForfeitAccepted"  -> OnForfeitAccepted(s)
    [] m.type = "TransferAccepted" -> OnTransferAccepted(s)
    [] m.type = "Bounce"           -> OnBounce(s, m.from)

NoteIsAnswered(n) ==
  /\ reply[n] # Nothing
  /\ notes' = [notes EXCEPT ![n] = FromOthers(@, reply[n])]
  /\ reply' = [reply EXCEPT ![n] = Nothing]
  /\ Quiet
  /\ UNCHANGED <<calls, sent, inbox, withdrawal, envVars>>

\* Another note offers a transfer: a withdrawn note refuses it.
ReceivesTransfer(n) ==
  /\ sent[n].type = "transfer"
  /\ LET to == sent[n].to IN
     IF notes[to].withdrawn
     THEN /\ reply' = [reply EXCEPT ![n] = [type |-> "Bounce", from |-> to]]
          /\ UNCHANGED notes
     ELSE /\ reply' = [reply EXCEPT ![n] = [type |-> "TransferAccepted"]]
          /\ notes' = [notes EXCEPT ![to] = OfferTransfer(@, sent[n].amount)]
  /\ sent' = [sent EXCEPT ![n] = Nothing]
  /\ Quiet
  /\ UNCHANGED <<calls, inbox, withdrawal, envVars>>

-----------------------------------------------------------------------------
(* The market. *)

Trading == now < resultStart
Minted(c) == (c \div BASKET) * BASKET
Uniform(k) == [b \in Books |-> k]
Mergeable(amounts) == Minted(Min({amounts[b] : b \in Books}))

Answer(n, m) ==
  /\ reply' = [reply EXCEPT ![n] = m]
  /\ sent' = [sent EXCEPT ![n] = Nothing]
  /\ Quiet
  /\ UNCHANGED <<notes, calls, inbox, withdrawal, report, root, cidOf, feed, db, tick>>

Refuse(n) == Answer(n, [type |-> "Bounce", from |-> "market"]) /\ UNCHANGED market

Moved(supply, by(_)) == [b \in Books |-> supply[b] + by(b)]

MarketSplits(n) ==
  /\ sent[n].type = "split"
  /\ LET used == Minted(sent[n].collateral) IN
     IF Trading /\ used > 0
     THEN /\ market' = [market EXCEPT !.vault = @ + used,
                                      !.supply = Moved(@, LAMBDA b : used)]
          /\ Answer(n, [type |-> "SplitAccepted", amounts |-> Uniform(used), used |-> used])
     ELSE Refuse(n)

MarketMerges(n) ==
  /\ sent[n].type = "merge"
  /\ LET t == Mergeable(sent[n].amounts) IN
     IF Trading /\ t > 0
     THEN /\ market' = [market EXCEPT !.vault = @ - t,
                                      !.supply = Moved(@, LAMBDA b : -t)]
          /\ Answer(n, [type |-> "MergeAccepted", amounts |-> Uniform(t), collateral |-> t])
     ELSE Refuse(n)

\* A claim is paid once the book is drained; a forfeit is always accepted.
MarketSettles(n) ==
  /\ sent[n].type \in {"claim", "delete"}
  /\ LET held == sent[n].amounts
         paid == IF sent[n].type = "claim" THEN Get(held, plan.winner) ELSE 0
     IN IF market.done \/ sent[n].type = "delete"
        THEN /\ market' = [market EXCEPT !.vault = @ - paid,
                                         !.supply = Moved(@, LAMBDA b : -Get(held, b))]
             /\ Answer(n, IF sent[n].type = "delete" THEN [type |-> "ForfeitAccepted"]
                          ELSE [type |-> "ClaimAccepted", outcome |-> plan.winner,
                                payout |-> paid])
        ELSE Refuse(n)

MarketHearsReport ==
  /\ report
  /\ market' = [market EXCEPT !.done = TRUE]
  /\ report' = FALSE
  /\ Quiet
  /\ UNCHANGED <<noteVars, root, cidOf, feed, db, tick>>

-----------------------------------------------------------------------------
(* The root pays a withdrawal or, when it cannot, reverts it.              *)
(* _deployedValues never exceeds the reserve (Solvent) and both lose what  *)
(* is paid: custody is _deployedValues, and the test of the reserve is     *)
(* never the stricter one.                                                 *)

RootPays(n) ==
  /\ withdrawal[n].type = "withdraw"
  /\ LET amount == withdrawal[n].amount IN
     IF root.custody >= amount
     THEN /\ root' = [root EXCEPT !.custody = @ - amount]
          /\ withdrawal' = [withdrawal EXCEPT ![n] = Nothing]
     ELSE /\ withdrawal' = [withdrawal EXCEPT ![n].type = "revert"]
          /\ UNCHANGED root
  /\ Quiet
  /\ UNCHANGED <<notes, calls, sent, inbox, reply, market, report, cidOf, feed, db, tick>>

WithdrawReverted(n) ==
  /\ withdrawal[n].type = "revert"
  /\ notes' = [notes EXCEPT ![n] = RevertWithdraw(@, withdrawal[n].amount)]
  /\ withdrawal' = [withdrawal EXCEPT ![n] = Nothing]
  /\ Quiet
  /\ UNCHANGED <<calls, sent, inbox, reply, envVars>>

-----------------------------------------------------------------------------
(* The indexer follows in chain order (Reprojection models its retries). *)

ProjectOrder(e) ==
  CASE e.ev = "OrderPlaced"          -> ApplyOrderPlaced(db, e, tick + 1)
    [] e.ev = "OrderPlacedConfirmed" -> ApplyOrderPlacedConfirmed(db, e)
    [] e.ev = "OrderFilled"          -> ApplyOrderFilled(db, e, tick + 1)
    [] e.ev = "OrderCancelled"       -> ApplyOrderCancelled(db, e, tick + 1)

IndexerFollows ==
  /\ feed # <<>>
  /\ db' = ProjectOrder(Head(feed)).db
  /\ feed' = Tail(feed)
  /\ tick' = tick + 1
  /\ Quiet
  /\ UNCHANGED <<noteVars, market, report, root, cidOf>>

-----------------------------------------------------------------------------

NoteStep ==
  \E n \in Notes :
    \/ NoteHears(n) \/ NoteIsAnswered(n) \/ ReceivesTransfer(n) \/ WithdrawReverted(n)
BookStep == (\E n \in Notes : BookAccepts(n) \/ BookBounces(n)) \/ BookContinues
MarketStep ==
  (\E n \in Notes : MarketSplits(n) \/ MarketMerges(n) \/ MarketSettles(n))
  \/ MarketHearsReport \/ (\E n \in Notes : RootPays(n))

TradeNext ==
  \/ \E n \in Notes : OwnerCalls(n)
  \/ BookStep \/ NoteStep \/ MarketStep \/ IndexerFollows
  \/ MarketShutsDown \/ TimePasses

\* Something is on its way to a contract.
Deliverable ==
  \/ \E n \in Notes : \/ sent[n] # Nothing \/ inbox[n] # <<>>
                      \/ reply[n] # Nothing \/ withdrawal[n] # Nothing
  \/ (alive /\ selfCalls # <<>>) \/ report

\* The chain goes on delivering while there is something to deliver: weak
\* fairness of the deliveries together, ENABLED written out.
Delivery ==
  []<>(~Deliverable) \/ []<><<BookStep \/ NoteStep \/ MarketStep>>_tradeVars

-----------------------------------------------------------------------------
(* Properties. *)

SumOf(f) == MapThenSumSet(LAMBDA x : f[x], DOMAIN f)

\* No message is under way and the book has no work left.
Still ==
  /\ \A n \in Notes : /\ sent[n] = Nothing /\ reply[n] = Nothing
                      /\ withdrawal[n] = Nothing /\ inbox[n] = <<>>
  /\ queue = <<>> /\ selfCalls = <<>>

OrdersOf(n) == {o \in DOMAIN book.orders : book.orders[o].owner = n}

\* Nothing is created or lost, whatever was placed, filled, cancelled, rejected,
\* bounced, transferred or reverted on the way: when no message is under way the
\* balances and locks of the notes, the market's vault, the fees and what the root
\* has paid out add up to the deposits, and the outcome tokens in stake records and
\* resting sells are the ones the market has minted and not taken back.
MoneyConserved ==
  Still =>
    /\ SumOf([n \in Notes |-> notes[n].balance + notes[n].locked])
         + market.vault + fees.protocol + root.fees + (plan.custody - root.custody)
       = SumOf(plan.funds)
    /\ \A b \in Books :
         SumOf([n \in Notes |-> Get(notes[n].stake.amount, b)])
           + MapThenSumSet(LAMBDA o : book.orders[o].amount,
                           {o \in DOMAIN book.orders : book.orders[o].book = b
                                                       /\ ~book.orders[o].isBuy})
         = market.supply[b]

\* Once everything is delivered, the open count, the client identifiers and the
\* locked collateral are those of the book, with nothing left in the slots of an
\* operation in progress.
RecordAgrees ==
  Still => \A n \in Notes :
    LET s == notes[n]
        buys == {o \in OrdersOf(n) : book.orders[o].isBuy}
    IN /\ s.open = Cardinality(OrdersOf(n))
       /\ s.cids = [c \in {cidOf[o] : o \in OrdersOf(n)} \ {0} |->
                      CHOOSE o \in OrdersOf(n) : cidOf[o] = c]
       /\ DOMAIN s.locks = buys /\ s.locked = SumOf(s.locks)
       /\ \A o \in buys : s.locks[o] >= Notional(book.orders[o].amount, book.orders[o].price)
       /\ s.busy = None /\ s.busyNonce = 0 /\ s.stake.candidate = 0
       /\ s.pendingBuy = 0 /\ s.pendingCid = 0 /\ s.transfer = 0
       /\ s = NoBatch(s)

\* A withdrawn note has no order in the book, in the queue or under way, and no
\* message that brings value is on its way.
WithdrawnIsEmpty ==
  \A n \in Notes : notes[n].withdrawn =>
    /\ notes[n].balance = 0 /\ notes[n].locked = 0 /\ ~notes[n].stake.exists
    /\ OrdersOf(n) = {} /\ reply[n] = Nothing
    /\ \A i \in DOMAIN queue : queue[i].owner = n => queue[i].kind # "place"
    /\ \A i \in DOMAIN inbox[n] : inbox[n][i].type \in {"BatchComplete", "Bounce"}

\* The live orders of a note by the stage they are in.
Live(n) ==
  {<<"book", o>> : o \in OrdersOf(n)}
  \cup {<<"queue", i>> : i \in {j \in DOMAIN queue : queue[j].owner = n /\ queue[j].kind = "place"}}
  \cup (IF sent[n].type = "executeBatch"
        THEN {<<"sent", i>> : i \in DOMAIN sent[n].orders} ELSE {})

LiveCid(n, x) ==
  CASE x[1] = "book" -> cidOf[x[2]]
    [] x[1] = "queue" -> queue[x[2]].op.cid
    [] x[1] = "sent" -> sent[n].orders[x[2]].cid

\* A client identifier belongs to one live order, under way, queued or resting.
ClientIdUnique ==
  \A n \in Notes : \A x, y \in Live(n) :
    (x # y /\ LiveCid(n, x) = LiveCid(n, y)) => LiveCid(n, x) = 0

\* What a note knows of its orders is true: its own record agrees with the book, a
\* repeated request with the identifier of a live order places nothing, also when
\* fills and cancellations of other orders are reported in between, and a note that
\* is withdrawn has left nothing behind.
NoteMirrorsBook == RecordAgrees /\ ClientIdUnique /\ WithdrawnIsEmpty

\* What the indexer makes of the real book's events: once it has caught up,
\* the open rows are the resting orders, with their owners and remainders.
RowsMirrorBook ==
  Still /\ feed = <<>> /\ "index" \in plan.moves =>
    /\ Resting(db) = DOMAIN book.orders
    /\ \A o \in Resting(db) : /\ db.orders[o].remaining = book.orders[o].amount
                              /\ db.orders[o].owner = book.orders[o].owner

\* Returned tokens find their record: when a note hears that a sell has been
\* cancelled, the stake record that takes the tokens exists.  onOrderCancelled
\* drops them otherwise, which deleteStake (PrivateNote.sol:1658) and
\* onMergeAccepted (PrivateNote.sol:1933) say cannot happen.
CancelFindsRecord ==
  \A n \in Notes :
    (inbox[n] # <<>> /\ Head(inbox[n]).type = "Cancelled" /\ ~Head(inbox[n]).isBuy)
    => notes[n].stake.exists /\ Head(inbox[n]).book \in DOMAIN notes[n].stake.amount

\* A note that has called a contract becomes free again: every answer,
\* rejection or bounce of the book, the market or another note releases it.
BusyReleased ==
  \A n \in Notes : notes[n].busy # None ~> notes[n].busy = None
=============================================================================
