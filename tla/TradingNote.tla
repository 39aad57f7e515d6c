----------------------------- MODULE TradingNote -----------------------------
(***************************************************************************)
(* The trading side of a PrivateNote: the owner's calls that place and     *)
(* cancel orders, split and merge full sets, claim, move value to another  *)
(* note or withdraw it, and the callbacks and bounces that answer them.    *)
(* An operator maps the note's state s to the state the handler leaves;    *)
(* the messages it sends are added by TradingSystem.                       *)
(*                                                                         *)
(* One event and one token type are modelled: _stakes and                  *)
(* _openOrdersByEvent have one key, an outcome is a member of Books.  Debt *)
(* and coupons belong to StakeNote, the inference maps to the other        *)
(* market; all are empty here.                                             *)
(***************************************************************************)
EXTENDS OrderBook, SequencesExt

None == "none"
InFlight == -1    \* the sentinel type(uint128).max of _clientOrderIds

\* A record that exists may have no amounts yet: amount is then empty.
NoStake == [exists |-> FALSE, amount |-> <<>>,
            candidate |-> 0, outcome |-> None, bet |-> "CLEAN"]

NewNote(balance) ==
  [balance |-> balance, locked |-> 0, reserves |-> <<>>, locks |-> <<>>,
   open |-> 0, stake |-> NoStake, cids |-> <<>>,
   busy |-> None, opNonce |-> 0, busyNonce |-> 0,
   pendingBuy |-> 0, pendingCid |-> 0,
   batch |-> FALSE, batchLock |-> 0, batchSells |-> <<>>, batchCids |-> <<>>,
   transfer |-> 0, forfeit |-> FALSE, withdrawn |-> FALSE]

Without(f, keys) == [k \in DOMAIN f \ keys |-> f[k]]
With(f, k, v) == [x \in DOMAIN f \cup {k} |-> IF x = k THEN v ELSE f[x]]
Get(f, k) == IF k \in DOMAIN f THEN f[k] ELSE 0

\* require(...) in the order of the code: the exit code of the first that fails.
OK == 0
Refusal(checks) ==
  LET failed == SelectSeq(checks, LAMBDA c : ~c[1])
  IN IF failed = <<>> THEN OK ELSE Head(failed)[2]

\* amount.push(0) up to numOutcomes; a record is created where there is none.
Sized(st) ==
  [st EXCEPT !.exists = TRUE,
             !.amount = IF DOMAIN @ = {} THEN [b \in Books |-> 0] ELSE @]

AddTokens(st, b, amount) == [Sized(st) EXCEPT !.amount[b] = @ + amount]

\* _lockedInOrders is never taken below zero.
Unlock(s, lock) == [s EXCEPT !.locked = IF @ >= lock THEN @ - lock ELSE 0]

-----------------------------------------------------------------------------
(* Orders. *)

\* The checks one order has to pass, apart from the balance of a buy.
OrderChecks(s, p) ==
  << <<p.amount > 0, 102>>,
     <<p.cid = 0 \/ p.cid \notin DOMAIN s.cids, 129>>,
     <<IsMarket(p) => p.minAmount = 0, 129>>,
     <<IsMarketBuy(p) => p.amount >= MIN_NOTIONAL, 160>>,
     <<IsMarket(p) \/ p.amount % LOT = 0, 163>>,
     <<IsMarket(p) \/ p.price \in Prices, 164>>,
     <<IsMarket(p) \/ Notional(p.amount, p.price) >= MIN_NOTIONAL, 160>>,
     <<p.isBuy \/ s.stake.exists, 142>>,
     <<p.isBuy \/ p.book \in DOMAIN s.stake.amount, 130>>,
     <<p.isBuy \/ Get(s.stake.amount, p.book) >= p.amount, 102>> >>

\* The order's client identifier is reserved and the tokens of a sell leave
\* the stake.
Reserve(s, p) ==
  [s EXCEPT !.cids = IF p.cid = 0 THEN @ ELSE With(@, p.cid, InFlight),
            !.stake = IF p.isBuy THEN @
                      ELSE [@ EXCEPT !.amount[p.book] = @ - p.amount]]

LockBalance(s, lock) ==
  [s EXCEPT !.balance = @ - lock, !.locked = @ + lock]

\* The note is busy with the book until an answer carries the new nonce.
Dispatch(s) ==
  [s EXCEPT !.busy = "book", !.opNonce = @ + 1, !.busyNonce = s.opNonce + 1]

PlaceRefusal(s, p) ==
  Refusal(<< <<~s.withdrawn, 151>>, <<s.busy = None, 121>> >>
          \o OrderChecks(s, p)
          \o << <<p.isBuy => s.balance >= Lock(p), 102>> >>)

PlaceOrder(s, p) ==
  LET r == LockBalance(Reserve(s, p), Lock(p)) IN
  Dispatch([r EXCEPT
    !.pendingCid = IF p.cid = 0 THEN @ ELSE p.cid,
    !.pendingBuy = IF p.isBuy THEN Lock(p) ELSE @,
    !.stake = IF p.isBuy THEN @
              ELSE [@ EXCEPT !.candidate = p.amount, !.outcome = p.book,
                             !.bet = "OB_SELL"]])

\* The loop of placeBatch: an order is checked against what the ones before
\* it have reserved.
Admit(acc, p) ==
  LET code == Refusal(OrderChecks(acc.s, p)) IN
  IF acc.code # OK \/ code # OK
  THEN [acc EXCEPT !.code = IF @ # OK THEN @ ELSE code]
  ELSE [acc EXCEPT
          !.s = Reserve(@, p), !.lock = @ + Lock(p),
          !.sells = IF p.isBuy THEN @
                    ELSE Append(@, [book |-> p.book, amount |-> p.amount]),
          !.cids = IF p.cid = 0 THEN @ ELSE Append(@, p.cid)]

Admitted(s, orders) ==
  FoldLeft(Admit, [code |-> OK, s |-> s, lock |-> 0, sells |-> <<>>,
                   cids |-> s.batchCids], orders)

BatchRefusal(s, orders, cancels) ==
  LET acc == Admitted(s, orders) IN
  Refusal(<< <<s.busy = None, 121>>,
             <<Len(orders) + Len(cancels) > 0, 162>>,
             <<Len(orders) <= MAX_BATCH_SIZE /\ Len(cancels) <= MAX_BATCH_SIZE, 161>>,
             <<orders # <<>> => ~s.withdrawn, 151>>,
             <<acc.code = OK, acc.code>>,
             <<s.balance >= acc.lock, 102>> >>)

PlaceBatch(s, orders, cancels) ==
  LET acc == Admitted(s, orders) IN
  Dispatch([LockBalance(acc.s, acc.lock) EXCEPT
              !.batch = TRUE, !.batchLock = acc.lock,
              !.batchSells = acc.sells, !.batchCids = acc.cids])

CancelRefusal(s) == Refusal(<< <<s.busy = None, 121>> >>)
CancelOrder(s) == Dispatch(s)

CancelByClientRefusal(s, cid) ==
  Refusal(<< <<s.busy = None, 121>>, <<cid # 0, 129>>,
             <<cid \in DOMAIN s.cids, 158>>,
             <<Get(s.cids, cid) # InFlight, 121>> >>)

NoteCancelAll(s) == [Dispatch(s) EXCEPT !.batch = TRUE]

-----------------------------------------------------------------------------
(* The book's answers. *)

FreeCid(s, cid) ==
  IF cid = 0 THEN s ELSE [s EXCEPT !.cids = Without(@, {cid})]

\* The slot a bounce would restore is cleared by the answer to a single order.
ClearPendingCid(s, cid) ==
  IF cid # 0 /\ ~s.batch /\ s.pendingCid = cid
  THEN [s EXCEPT !.pendingCid = 0] ELSE s

\* A callback of an earlier operation must not touch the slots of this one.
Acks(s, nonce) == ~s.batch /\ nonce = s.busyNonce

Release(s, nonce) ==
  IF nonce = s.busyNonce /\ s.busy = "book"
  THEN [s EXCEPT !.busy = None, !.busyNonce = 0] ELSE s

DropCandidate(st) ==
  IF st.exists /\ st.bet = "OB_SELL" THEN [st EXCEPT !.candidate = 0] ELSE st

OnOrderPlaced(s, m) ==
  LET cid == m.op.cid
      t == [ClearPendingCid(s, cid) EXCEPT
              !.cids = IF cid = 0 THEN @ ELSE With(@, cid, m.id),
              !.reserves = IF m.feeReserve = 0 THEN @ ELSE With(@, m.id, m.feeReserve),
              !.locks = IF m.lock = 0 THEN @ ELSE With(@, m.id, m.lock),
              !.open = @ + 1]
  IN IF ~Acks(s, m.nonce) THEN t
     ELSE Release([t EXCEPT !.pendingBuy = 0, !.stake = DropCandidate(@)], m.nonce)

OnOrderRejected(s, m) ==
  LET t == ClearPendingCid(FreeCid(s, m.op.cid), m.op.cid) IN
  IF m.op.isBuy
  THEN [Unlock(t, Lock(m.op)) EXCEPT
          !.balance = @ + Lock(m.op),
          !.pendingBuy = IF Acks(s, m.nonce) THEN 0 ELSE @]
  ELSE [t EXCEPT !.stake = DropCandidate(AddTokens(@, m.op.book, m.op.amount))]

CloseOrder(s) == [s EXCEPT !.open = IF @ > 0 THEN @ - 1 ELSE 0]

\* A sell's tokens return to the stake record if there is one with amounts.
ReturnTokens(st, b, amount) ==
  IF st.exists /\ b \in DOMAIN st.amount
  THEN [st EXCEPT !.amount[b] = @ + amount] ELSE st

OnOrderCancelled(s, m) ==
  LET t == CloseOrder(FreeCid(s, m.cid))
      lock == Get(s.locks, m.id)
      returned == IF lock > 0 THEN lock ELSE m.amount + Get(s.reserves, m.id)
      u == IF m.isBuy
           THEN [Unlock(t, returned) EXCEPT
                   !.balance = @ + returned,
                   !.reserves = Without(@, {m.id}), !.locks = Without(@, {m.id})]
           ELSE [t EXCEPT !.stake = ReturnTokens(@, m.book, m.amount)]
  IN IF s.batch THEN u ELSE Release(u, m.nonce)

\* Mutant: what a final fill leaves of the order's lock is not returned.
BoughtLock_NoResidual(s, m, consumed) ==
  LET lock == Get(s.locks, m.id)
      dec == IF lock >= consumed THEN consumed ELSE lock
  IN [s EXCEPT !.locked = @ - (IF m.isFinal THEN lock ELSE dec),
               !.locks = IF m.isFinal THEN Without(@, {m.id})
                         ELSE With(@, m.id, lock - dec)]

\* The order's lock shrinks by what the fill consumed; a final fill returns
\* the rest.
BoughtLock(s, m, consumed) ==
  LET lock == Get(s.locks, m.id)
      dec == IF lock >= consumed THEN consumed ELSE lock
  IN IF m.isFinal
     THEN [s EXCEPT !.balance = @ + (lock - dec), !.locked = @ - lock,
                    !.locks = Without(@, {m.id})]
     ELSE [s EXCEPT !.locked = @ - dec, !.locks = With(@, m.id, lock - dec)]

Bought(s, m) ==
  LET reserve == Get(s.reserves, m.id)
      left == IF m.isRebate THEN reserve
              ELSE IF reserve >= m.fee THEN reserve - m.fee ELSE 0
      feeRefund == IF m.isFinal THEN left ELSE 0
      rebate == IF m.isRebate THEN m.fee ELSE 0
      consumed == m.refund + feeRefund + Notional(m.amount, m.price) + (m.fee - rebate)
  IN BoughtLock([s EXCEPT
                   !.stake = AddTokens(@, m.book, m.amount),
                   !.reserves = IF left - feeRefund = 0 THEN Without(@, {m.id})
                                ELSE With(@, m.id, left),
                   !.balance = @ + m.refund + feeRefund + rebate],
                m, consumed)

Sold(s, m) ==
  LET proceeds == Notional(m.amount, m.price) IN
  [s EXCEPT !.balance = CASE m.isRebate -> @ + proceeds + m.fee
                          [] ~m.isRebate /\ proceeds > m.fee -> @ + (proceeds - m.fee)
                          [] OTHER -> @]

\* Mutant: every fill frees the client identifier.
OnOrderFilled_FreesEarly(s, m) ==
  LET t == FreeCid(s, m.cid)
      u == IF m.isBuy THEN Bought(t, m) ELSE Sold(t, m)
  IN IF m.isFinal THEN CloseOrder(u) ELSE u

OnOrderFilled(s, m) ==
  LET t == IF m.isFinal THEN FreeCid(s, m.cid) ELSE s
      u == IF m.isBuy THEN Bought(t, m) ELSE Sold(t, m)
  IN IF m.isFinal THEN CloseOrder(u) ELSE u

NoBatch(s) ==
  [s EXCEPT !.batch = FALSE, !.batchLock = 0, !.batchSells = <<>>, !.batchCids = <<>>]

\* Mutant: only a batch operation is released by the sentinel.
OnBatchComplete_WasBatch(s, m) ==
  IF m.nonce # s.busyNonce THEN s
  ELSE IF s.batch THEN Release(NoBatch(s), m.nonce) ELSE NoBatch(s)

OnBatchComplete(s, m) ==
  IF m.nonce # s.busyNonce THEN s ELSE Release(NoBatch(s), m.nonce)

-----------------------------------------------------------------------------
(* Full sets, claims and forfeits: the market answers. *)

SplitRefusal(s, collateral) ==
  Refusal(<< <<s.busy = None, 121>>, <<~s.withdrawn, 151>>,
             <<collateral > 0, 102>>, <<s.balance >= collateral, 102>> >>)

SplitFullSet(s, collateral) ==
  [s EXCEPT !.balance = @ - collateral, !.busy = "market",
            !.stake = [@ EXCEPT !.exists = TRUE, !.candidate = collateral,
                                !.bet = "CLEAN"]]

OnSplitAccepted(s, m) ==
  LET st == Sized(s.stake) IN
  [s EXCEPT !.busy = None,
            !.stake = [st EXCEPT !.amount = [b \in Books |-> @[b] + m.amounts[b]],
                                 !.candidate = 0],
            !.balance = IF st.candidate > m.used THEN @ + (st.candidate - m.used) ELSE @]

MergeRefusal(s, amounts) ==
  Refusal(<< <<s.busy = None, 121>>, <<~s.withdrawn, 151>>,
             <<s.stake.exists, 142>>, <<DOMAIN s.stake.amount = Books, 129>>,
             <<\A b \in Books : Get(s.stake.amount, b) >= amounts[b], 102>> >>)

MergeFullSet(s, amounts) ==
  [s EXCEPT !.busy = "market",
            !.stake = [@ EXCEPT !.candidate = MapThenSumSet(LAMBDA b : amounts[b], Books),
                                !.bet = "MERGE"]]

IsEmpty(st) == \A b \in DOMAIN st.amount : st.amount[b] = 0

\* A record without tokens is kept while orders of the event are open.
KeepRecord(s, st) == IF IsEmpty(st) /\ s.open = 0 THEN NoStake ELSE st

OnMergeAccepted(s, m) ==
  [s EXCEPT !.busy = None, !.balance = @ + m.collateral,
            !.stake = KeepRecord(s, [@ EXCEPT
                        !.amount = [b \in Books |-> @[b] - m.amounts[b]],
                        !.candidate = 0])]

ClaimRefusal(s) ==
  Refusal(<< <<s.stake.exists, 142>>, <<~s.withdrawn, 151>>,
             <<s.busy = None, 121>>, <<s.stake.candidate = 0, 122>>,
             <<s.open = 0, 167>> >>)

NoteClaim(s) == [s EXCEPT !.busy = "market"]

OnClaimAccepted(s, m) ==
  IF m.outcome = None THEN [s EXCEPT !.busy = None]
  ELSE [s EXCEPT !.busy = None, !.balance = @ + m.payout, !.stake = NoStake]

DeleteRefusal(s) ==
  Refusal(<< <<s.busy = None, 121>>, <<s.stake.exists, 142>>, <<s.open = 0, 167>> >>)

DeleteStake(s) == [s EXCEPT !.busy = "market", !.forfeit = TRUE]

OnForfeitAccepted(s) ==
  [s EXCEPT !.busy = None, !.busyNonce = 0, !.forfeit = FALSE, !.stake = NoStake]

-----------------------------------------------------------------------------
(* Value leaves the note. *)

\* Orders in flight or in the book must be gone first.
NothingInBooks(s) ==
  << <<s.locked = 0, 144>>, <<s.pendingBuy = 0, 144>>, <<s.batchLock = 0, 144>>,
     <<s.open = 0, 167>> >>

TransferRefusal(s, amount) ==
  Refusal(<< <<~s.withdrawn, 151>>, <<s.busy = None, 121>>, <<~s.stake.exists, 121>>,
             <<amount > 0 /\ s.balance >= amount, 102>> >> \o NothingInBooks(s))

InitTransfer(s, to, amount) ==
  [s EXCEPT !.balance = @ - amount, !.transfer = amount, !.busy = to]

OfferTransfer(s, amount) == [s EXCEPT !.balance = @ + amount]
OnTransferAccepted(s) == [s EXCEPT !.transfer = 0, !.busy = None]

WithdrawRefusal(s) ==
  Refusal(<< <<~s.withdrawn, 151>>, <<s.busy = None, 121>>, <<~s.stake.exists, 121>> >>
          \o NothingInBooks(s))

WithdrawTokens(s) == [s EXCEPT !.balance = 0, !.withdrawn = TRUE]

RevertWithdraw(s, amount) ==
  [s EXCEPT !.balance = @ + amount, !.withdrawn = FALSE]

-----------------------------------------------------------------------------
(* A message of the note was refused: what the call had taken is restored. *)

BounceBatch(s) ==
  LET restored == FoldLeft(LAMBDA st, p : [st EXCEPT !.amount[p.book] = @ + p.amount],
                           s.stake, s.batchSells)
  IN NoBatch([Unlock(s, s.batchLock) EXCEPT
       !.balance = @ + s.batchLock,
       !.stake = IF @.exists THEN restored ELSE @,
       !.cids = Without(@, Range(s.batchCids)),
       !.busy = None, !.busyNonce = 0])

FreePendingCid(s) ==
  [s EXCEPT !.cids = Without(@, {s.pendingCid} \ {0}), !.pendingCid = 0]

BounceBuy(s) ==
  [FreePendingCid(Unlock(s, s.pendingBuy)) EXCEPT
     !.balance = @ + s.pendingBuy, !.pendingBuy = 0, !.busy = None, !.busyNonce = 0]

\* The last path: a stake, a full set, a claim, a cancellation or a sell.  A
\* record without tokens is deleted.
BounceStake(s) ==
  LET st == s.stake
      sell == st.bet = "OB_SELL"
      back == IF sell THEN [st EXCEPT !.amount[st.outcome] = @ + st.candidate] ELSE st
      t == IF sell THEN FreePendingCid(s) ELSE s
  IN [t EXCEPT !.busy = None, !.busyNonce = 0,
               !.balance = IF st.bet = "CLEAN" THEN @ + st.candidate ELSE @,
               !.stake = IF IsEmpty(back) THEN NoStake ELSE [back EXCEPT !.candidate = 0]]

OnBounce(s, from) ==
  CASE s.busy # from -> s
    [] s.busy = from /\ s.forfeit -> OnForfeitAccepted(s)
    [] s.busy = from /\ ~s.forfeit /\ s.batch -> BounceBatch(s)
    [] s.busy = from /\ ~s.forfeit /\ ~s.batch /\ s.pendingBuy > 0 -> BounceBuy(s)
    [] s.busy = from /\ ~s.forfeit /\ ~s.batch /\ s.pendingBuy = 0 /\ s.transfer > 0 ->
         [s EXCEPT !.balance = @ + s.transfer, !.transfer = 0, !.busy = None]
    [] OTHER -> BounceStake(s)
=============================================================================
