----------------------------- MODULE OrderBook -----------------------------
(***************************************************************************)
(* The OrderBook contract as a state machine: one action per message it    *)
(* handles.  A message handler is one transaction, so every action is the  *)
(* whole handler.  Work that does not fit one transaction is continued by  *)
(* messages the contract sends to itself; selfCalls holds those in flight, *)
(* in sending order, which is the order a sender's messages to one         *)
(* receiver are delivered in.  out holds the messages the last transaction *)
(* sent to other contracts.                                                *)
(***************************************************************************)
EXTENDS BookMatching, FiniteSets

CONSTANTS QUEUE_CAPACITY, QUEUE_PLACE_LIMIT,
          MAX_SHUTDOWN_BATCH, MAX_BATCH_SIZE

ASSUME OrderBookAssumption ==
  /\ QUEUE_CAPACITY \in Nat \ {0}
  /\ QUEUE_PLACE_LIMIT \in 1..QUEUE_CAPACITY
  /\ MAX_SHUTDOWN_BATCH \in Nat \ {0}
  /\ MAX_BATCH_SIZE \in Nat \ {0}

VARIABLES book, nextOrderId, fees,     \* _orders, _levels, ...; _nextOrderId
          queue,                       \* the ring buffer's content, head first
          shuttingDown, shutdownPending, shutdownCursor,
          alive,                       \* the account exists
          selfCalls, out,
          now, resultStart             \* block time and _resultStart

obVars == <<book, nextOrderId, fees, queue, shuttingDown, shutdownPending,
            shutdownCursor, alive, selfCalls, out, now, resultStart>>

-----------------------------------------------------------------------------
(* Queue entries. *)

NoPlace == [book |-> CHOOSE b \in Books : TRUE, isBuy |-> FALSE, flags |-> {},
            price |-> 0, amount |-> 0, minAmount |-> 0]

Entry(kind, owner, op, target, nonce) ==
  [kind |-> kind, owner |-> owner, op |-> op, target |-> target,
   filledAccum |-> 0, precheckDone |-> FALSE, precheckAccum |-> 0,
   precheckLast |-> NoPrice, batchEnd |-> FALSE, nonce |-> nonce]

\* The first entries of a sequence that the queue q has room for.
Fitting(entries, q, limit) ==
  SubSeq(entries, 1, Min({Len(entries), Max({0, limit - Len(q)})}))

MarkBatchEnd(q) == [q EXCEPT ![Len(q)].batchEnd = TRUE]

Ack(h) ==
  IF h.batchEnd THEN <<BatchCompleteMsg(h.owner, h.nonce)>> ELSE <<>>

OBInit ==
  /\ book = EmptyBook
  /\ nextOrderId = 1
  /\ fees = [protocol |-> 0, rebates |-> 0]
  /\ queue = <<>>
  /\ shuttingDown = FALSE
  /\ shutdownPending = FALSE
  /\ shutdownCursor = 0
  /\ alive = TRUE
  /\ selfCalls = <<>>
  /\ out = <<>>
  /\ now = 0

-----------------------------------------------------------------------------
(* _processHeadCore, run on queue q with self-calls calls still in flight; *)
(* before and after are the messages the caller sends around it.           *)

\* Mutants of NextCall: a deferred shutdown is not promoted when the queue
\* empties; the pass after the last one in a pending shutdown is forgotten.
NextCall_NotPromoted(q) == IF q # <<>> THEN <<"processHead">> ELSE <<>>
NextCall_StopsPending(q) ==
  IF shutdownPending THEN <<"shutdown">>
  ELSE IF q # <<>> THEN <<"processHead">> ELSE <<>>

\* The continuation a pass sends once the queue has become q.
NextCall(q) ==
  CASE q # <<>> -> <<"processHead">>
    [] q = <<>> /\ shutdownPending -> <<"shutdown">>
    [] OTHER -> <<>>

\* Mutants of RefuseHead: untouched placements are dropped without an answer;
\* an order already announced is answered Rejected instead of Cancelled.
RefuseHead_Silent(q, calls, before, after) ==
  /\ queue' = Tail(q)
  /\ selfCalls' = calls \o NextCall(Tail(q))
  /\ out' = before \o Ack(Head(q)) \o after
  /\ UNCHANGED <<book, nextOrderId, fees>>
RefuseHead_AlwaysRejected(q, calls, before, after) ==
  LET h == Head(q) IN
  /\ queue' = Tail(q)
  /\ selfCalls' = calls \o NextCall(Tail(q))
  /\ out' = before \o (IF h.kind = "place"
                       THEN <<RejectedMsg(h.owner, h.op, h.nonce)>> ELSE <<>>)
             \o Ack(h) \o after
  /\ UNCHANGED <<book, nextOrderId, fees>>

\* A pending shutdown refuses every entry that has not begun to match.
RefuseHead(q, calls, before, after) ==
  LET h == Head(q)
      refusal ==
        CASE h.kind # "place" -> <<>>
          [] h.kind = "place" /\ h.target = NoOrder ->
               <<RejectedMsg(h.owner, h.op, h.nonce)>>
          [] OTHER ->
               <<CancelledMsg(h.owner, h.target, h.op.isBuy,
                              CollateralFor(h.op.isBuy, h.op.price, h.op.amount),
                              h.op.book, h.nonce)>>
  IN /\ queue' = Tail(q)
     /\ selfCalls' = calls \o NextCall(Tail(q))
     /\ out' = before \o refusal \o Ack(h) \o after
     /\ UNCHANGED <<book, nextOrderId, fees>>

\* What executing entry h does to the book, and whether it stays at the head.
HeadEffect(h) ==
  CASE h.kind = "cancel" ->
         LET c == DoCancel(book, h.owner, h.target, h.nonce)
         IN Leave(h, c.b, fees, c.msgs)
    [] h.kind = "cancelAll" ->
         LET c == DoCancelAll(book, h.owner, h.nonce)
         IN [Leave(h, c.b, fees, c.msgs) EXCEPT
               !.keep = Len(c.msgs) >= MAX_CANCEL_ALL_PER_CALL]
    [] h.kind = "place" ->
         DoPlace(book, fees, h,
                 IF h.target = NoOrder THEN nextOrderId ELSE h.target)

\* An entry is acknowledged when it leaves the head.
HeadAck(h, r) == IF r.keep THEN <<>> ELSE Ack(h)

\* The entry h at the head has had effect r, and the queue has become q2.
Commit(h, r, q2, calls, before, after) ==
  /\ queue' = q2
  /\ selfCalls' = calls \o NextCall(q2)
  /\ out' = before \o r.msgs \o HeadAck(h, r) \o after
  /\ book' = r.b
  /\ fees' = r.fees
  /\ nextOrderId' = IF h.kind = "place" /\ h.target = NoOrder
                    THEN nextOrderId + 1 ELSE nextOrderId

KeepOrAdvance(r, q) == IF r.keep THEN <<r.entry>> \o Tail(q) ELSE Tail(q)

ExecuteHead(q, calls, before, after) ==
  \E r \in {HeadEffect(Head(q))} :
    Commit(Head(q), r, KeepOrAdvance(r, q), calls, before, after)

ProcessHeadCore(q, calls, before, after) ==
  \/ /\ shuttingDown \/ q = <<>>
     /\ queue' = q
     /\ selfCalls' = calls \o (IF shuttingDown THEN <<>> ELSE NextCall(q))
     /\ out' = before \o after
     /\ UNCHANGED <<book, nextOrderId, fees>>
  \/ /\ ~shuttingDown /\ q # <<>>
     /\ shutdownPending /\ ~Head(q).precheckDone
     /\ RefuseHead(q, calls, before, after)
  \/ /\ ~shuttingDown /\ q # <<>>
     /\ ~(shutdownPending /\ ~Head(q).precheckDone)
     /\ ExecuteHead(q, calls, before, after)

-----------------------------------------------------------------------------
(* Messages from the notes.  A message the guards refuse bounces. *)

Accepting == alive /\ ~shuttingDown /\ now < resultStart

\* The placements of a batch in turn: a valid one is queued while there is room,
\* every other is refused.
Enqueued(n, orders, nonce, q) ==
  LET after[k \in 0..Len(orders)] ==
        IF k = 0 THEN [queue |-> q, refused |-> <<>>]
        ELSE LET a == after[k - 1] p == orders[k] IN
             IF ValidPlace(p) /\ Len(a.queue) < QUEUE_PLACE_LIMIT
             THEN [a EXCEPT !.queue =
                     Append(@, Entry("place", n, p, NoOrder, nonce))]
             ELSE [a EXCEPT !.refused = Append(@, RejectedMsg(n, p, nonce))]
  IN after[Len(orders)]

ExecuteBatch(n, orders, cancels, nonce) ==
  LET cancelled == [i \in DOMAIN cancels |->
                      Entry("cancel", n, NoPlace, cancels[i], nonce)]
      a == Enqueued(n, orders, nonce,
                    queue \o Fitting(cancelled, queue, QUEUE_CAPACITY))
      anyQueued == Len(a.queue) > Len(queue)
  IN /\ Accepting
     /\ Len(orders) <= MAX_BATCH_SIZE /\ Len(cancels) <= MAX_BATCH_SIZE
     /\ ProcessHeadCore(IF anyQueued THEN MarkBatchEnd(a.queue) ELSE a.queue,
          selfCalls, a.refused,
          IF anyQueued THEN <<>> ELSE <<BatchCompleteMsg(n, nonce)>>)
     /\ UNCHANGED <<shuttingDown, shutdownPending, shutdownCursor, alive,
                    now, resultStart>>

CancelAllOrders(n, nonce) ==
  LET room == Len(queue) < QUEUE_CAPACITY
      entry == [Entry("cancelAll", n, NoPlace, NoOrder, nonce) EXCEPT
                  !.batchEnd = TRUE]
  IN /\ Accepting
     /\ ProcessHeadCore(IF room THEN Append(queue, entry) ELSE queue, selfCalls,
          <<>>, IF room THEN <<>> ELSE <<BatchCompleteMsg(n, nonce)>>)
     /\ UNCHANGED <<shuttingDown, shutdownPending, shutdownCursor, alive,
                    now, resultStart>>

\* processHead is public: any account may run a pass besides the self-calls.
PokeProcessHead ==
  /\ alive
  /\ ProcessHeadCore(queue, selfCalls, <<>>, <<>>)
  /\ UNCHANGED <<shuttingDown, shutdownPending, shutdownCursor, alive, now,
                 resultStart>>

SelfProcessHead ==
  /\ alive /\ selfCalls # <<>> /\ Head(selfCalls) = "processHead"
  /\ ProcessHeadCore(queue, Tail(selfCalls), <<>>, <<>>)
  /\ UNCHANGED <<shuttingDown, shutdownPending, shutdownCursor, alive, now,
                 resultStart>>

-----------------------------------------------------------------------------
(* Shutdown: deferred behind the queue, then a drain in batches. *)

ShutdownCompleteMsg == [to |-> "PMP", type |-> "ShutdownComplete"]
ProtocolFeeMsg(amount) ==
  [to |-> "RootPN", type |-> "ProtocolFee", amount |-> amount]

DrainFrom == IF shutdownCursor = 0 THEN 1 ELSE shutdownCursor
\* Mutant of DrainTo: a pass scans one identifier less than its batch.
DrainTo_Short == Min({nextOrderId, DrainFrom + MAX_SHUTDOWN_BATCH - 1})
DrainTo == Min({nextOrderId, DrainFrom + MAX_SHUTDOWN_BATCH})

\* The resting orders among the identifiers this pass scans.
DrainBatch ==
  LET found[k \in 0..(DrainTo - DrainFrom)] ==
        IF k = 0 THEN <<>>
        ELSE LET id == DrainFrom + k - 1 IN
             IF id \in DOMAIN book.orders THEN Append(found[k - 1], id)
             ELSE found[k - 1]
  IN found[DrainTo - DrainFrom]

DeferShutdown(calls) ==
  /\ queue # <<>> /\ ~shuttingDown
  /\ shutdownPending' = TRUE
  /\ selfCalls' = calls
  /\ out' = <<>>
  /\ UNCHANGED <<book, nextOrderId, fees, queue, shuttingDown, shutdownCursor,
                 alive>>

Drain(calls) ==
  LET c == CancelEach(book, DrainBatch, 0)
      finished == DrainTo >= nextOrderId
  IN /\ queue = <<>> \/ shuttingDown
     /\ shuttingDown' = TRUE
     /\ shutdownPending' = FALSE
     /\ shutdownCursor' = DrainTo
     /\ book' = c.b
     /\ IF finished
        THEN /\ out' = c.msgs
                  \o (IF fees.protocol > 0
                      THEN <<ProtocolFeeMsg(fees.protocol)>> ELSE <<>>)
                  \o <<ShutdownCompleteMsg>>
             /\ fees' = [fees EXCEPT !.protocol = 0]
             /\ alive' = FALSE
             /\ selfCalls' = <<>>
        ELSE /\ out' = c.msgs
             /\ selfCalls' = Append(calls, "shutdown")
             /\ UNCHANGED <<fees, alive>>
     /\ UNCHANGED <<nextOrderId, queue>>

Shutdown(calls) ==
  /\ alive
  /\ DeferShutdown(calls) \/ Drain(calls)
  /\ UNCHANGED <<now, resultStart>>

PMPShutdown == Shutdown(selfCalls)

SelfShutdown ==
  /\ selfCalls # <<>> /\ Head(selfCalls) = "shutdown"
  /\ Shutdown(Tail(selfCalls))

-----------------------------------------------------------------------------
(* Timing. *)

SetResultStart(t) ==
  /\ alive /\ now < resultStart /\ t > now
  /\ resultStart' = t
  /\ out' = <<>>
  /\ UNCHANGED <<book, nextOrderId, fees, queue, shuttingDown, shutdownPending,
                 shutdownCursor, alive, selfCalls, now>>

Tick ==
  /\ now' = now + 1
  /\ out' = <<>>
  /\ UNCHANGED <<book, nextOrderId, fees, queue, shuttingDown, shutdownPending,
                 shutdownCursor, alive, selfCalls, resultStart>>
=============================================================================
