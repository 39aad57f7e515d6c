----------------------------- MODULE StakeNote -----------------------------
(***************************************************************************)
(* The side of a note (PrivateNote.sol) that stakes in one market: its     *)
(* stake record, the amount staged while the market's answer is pending,   *)
(* and the busy latch.  Orders, transfers and withdrawals are left out.    *)
(***************************************************************************)
EXTENDS MarketPools

CONSTANTS MIN_STAKE, LOT_SIZE

ASSUME NoteAssumption == MIN_STAKE \in Nat \ {0} /\ LOT_SIZE \in Nat \ {0}

VARIABLE note

NoStake == [has |-> FALSE, pos |-> NoPools, amount |-> 0, outcome |-> None, bet |-> "clean"]

\* Notes with the given balances, coupons and debts.
NoteInit(purse) ==
  note = [n \in Notes |-> [balance |-> purse[n].balance, coupons |-> purse[n].coupons,
                           debt |-> purse[n].debt, busy |-> FALSE,
                           pendingForfeit |-> FALSE, stake |-> NoStake]]

StakeSize(a) == a >= MIN_STAKE /\ a % LOT_SIZE = 0

\* The owner's call takes the latch and sends m to the market.
Request(n, s, m) ==
  /\ ~note[n].busy
  /\ note' = [note EXCEPT ![n] = [s EXCEPT !.busy = TRUE]]
  /\ toPmp' = [toPmp EXCEPT ![n] = Append(@, m)]
  /\ UNCHANGED <<toNote, toList, fromList, book, now>>

\* d gives the initial stakes, whether they match the outcomes, the oracle
\* lists, and those of them whose fee is not paid.
DeployPMP(n, d) ==
  /\ note[n].debt = 0 /\ ~note[n].stake.has
  /\ \A o \in Outcomes : StakeSize(d.initial[o])
  /\ note[n].balance >= SumFunction(d.initial)
  /\ Request(n, [note[n] EXCEPT !.balance = @ - SumFunction(d.initial),
                                !.stake = [NoStake EXCEPT !.has = TRUE,
                                             !.amount = SumFunction(d.initial)]],
             [type |-> "deploy", initial |-> d.initial, lengthOk |-> d.lengthOk,
              lists |-> d.lists, underpaid |-> d.underpaid])

BetOf(n, coupon) ==
  IF coupon THEN "coupon" ELSE IF note[n].debt > 0 THEN "debt" ELSE "clean"

\* The amount is staged in the record until the market answers.
Staged(s, a, o, bet) ==
  [s EXCEPT !.stake.has = TRUE, !.stake.amount = a, !.stake.outcome = o, !.stake.bet = bet]

SetStake(n, o, a, coupon) ==
  /\ StakeSize(a) /\ note[n].stake.amount = 0
  /\ IF coupon THEN note[n].coupons >= a ELSE note[n].balance >= a
  /\ Request(n, Staged(IF coupon THEN [note[n] EXCEPT !.coupons = @ - a]
                                 ELSE [note[n] EXCEPT !.balance = @ - a],
                       a, o, BetOf(n, coupon)),
             [type |-> "acceptStake", outcome |-> o, amount |-> a,
              bet |-> BetOf(n, coupon)])

Position(n, type) == [type |-> type, pos |-> note[n].stake.pos]

CancelStakeOp(n) == note[n].stake.has /\ Request(n, note[n], Position(n, "cancelStake"))

DeleteStake(n) ==
  /\ note[n].stake.has
  /\ Request(n, [note[n] EXCEPT !.pendingForfeit = TRUE], Position(n, "forfeitStake"))

ClaimOp(n) ==
  /\ note[n].stake.has /\ note[n].stake.amount = 0
  /\ Request(n, note[n], Position(n, "claim"))

Split(n, f) ==
  /\ f > 0 /\ note[n].balance >= f /\ note[n].debt = 0
  /\ Request(n, Staged([note[n] EXCEPT !.balance = @ - f], f, note[n].stake.outcome, "clean"),
             [type |-> "splitFullSet", collateral |-> f])

\* The owner offers up to `most` tokens of every outcome.
Merge(n, most) ==
  /\ note[n].debt = 0 /\ note[n].stake.has
  /\ \E amounts \in {[o \in Outcomes |-> Least(note[n].stake.pos["clean"][o], most)]} :
       Request(n, Staged(note[n], SumFunction(amounts), note[n].stake.outcome, "merge"),
               [type |-> "mergeFullSet", amounts |-> amounts])

-----------------------------------------------------------------------------
(* Callbacks of the market.  All but three demand that the latch is taken. *)

Receive(n, s, out) ==
  /\ note' = [note EXCEPT ![n] = s]
  /\ toNote' = Consume(toNote, n)
  /\ toPmp' = [toPmp EXCEPT ![n] = @ \o out]
  /\ UNCHANGED <<toList, fromList, book, now>>

Answer(n, type) == HeadIs(toNote, n, type) /\ note[n].busy

\* The next message is an answer to a note that waits for none.  The note would
\* refuse it; no behaviour gets there (EveryRequestAnswered), so no action does.
Unexpected(n) ==
  /\ toNote[n] # <<>> /\ ~note[n].busy
  /\ Head(toNote[n]).type \notin {"initialFailed", "cleanRefund", "acceptFee", "bounce"}

OnInitialStakesAccepted(n) ==
  /\ Answer(n, "initialAccepted")
  /\ Receive(n, [note[n] EXCEPT !.busy = FALSE, !.stake.has = TRUE, !.stake.amount = 0,
                                !.stake.pos["clean"] = Head(toNote[n]).amounts], <<>>)

OnInitialStakesFailed(n) ==
  /\ HeadIs(toNote, n, "initialFailed")
  /\ Receive(n, [note[n] EXCEPT !.busy = FALSE, !.stake = NoStake,
                                !.balance = IF note[n].stake.has
                                            THEN @ + Head(toNote[n]).value ELSE @], <<>>)

Refundable(s, amounts) == [o \in Outcomes |-> Least(amounts[o], s.stake.pos["clean"][o])]

OnPmpCleanRefund(n) ==
  /\ HeadIs(toNote, n, "cleanRefund")
  /\ \E m \in {Head(toNote[n])} : \E r \in {Refundable(note[n], m.amounts)} :
       Receive(n, IF note[n].stake.has
                  THEN [note[n] EXCEPT !.stake.pos["clean"] = Minus(@, r),
                                       !.balance = @ + Least(SumFunction(r), m.value)]
                  ELSE note[n],
               <<[type |-> "confirmRefund"]>>)

OnForfeitAccepted(n) ==
  /\ Answer(n, "forfeitAccepted")
  /\ Receive(n, [note[n] EXCEPT !.busy = FALSE, !.pendingForfeit = FALSE,
                                !.stake = NoStake], <<>>)

OnStakeCancelled(n) ==
  /\ Answer(n, "stakeCancelled")
  /\ Receive(n, [note[n] EXCEPT !.busy = FALSE, !.stake = NoStake,
                                !.balance = @ + Head(toNote[n]).value,
                                !.coupons = @ + Head(toNote[n]).coupon], <<>>)

OnStakeAccepted(n) ==
  /\ Answer(n, "stakeAccepted")
  /\ Receive(n, [note[n] EXCEPT !.busy = FALSE, !.stake.has = TRUE, !.stake.amount = 0,
                   !.stake.pos[Head(toNote[n]).bet][note[n].stake.outcome] =
                     @ + note[n].stake.amount], <<>>)

OnSplitAccepted(n) ==
  /\ Answer(n, "splitAccepted")
  /\ Receive(n, [note[n] EXCEPT !.busy = FALSE, !.stake.has = TRUE, !.stake.amount = 0,
                   !.stake.pos["clean"] = Plus(@, Head(toNote[n]).amounts),
                   !.balance = @ + Monus(note[n].stake.amount, Head(toNote[n]).used)], <<>>)

Merged(s, amounts) == [s EXCEPT !.amount = 0, !.pos["clean"] = Minus(@, amounts)]

OnMergeAccepted(n) ==
  /\ Answer(n, "mergeAccepted")
  /\ \E m \in {Head(toNote[n])} : \E s \in {Merged(note[n].stake, m.amounts)} :
       Receive(n, [note[n] EXCEPT !.busy = FALSE, !.balance = @ + m.value,
                                  !.stake = IF s.pos = NoPools THEN NoStake ELSE s], <<>>)

OnClaimAccepted(n) ==
  /\ Answer(n, "claimAccepted")
  /\ \E m \in {Head(toNote[n])} :
       \/ /\ m.outcome = None
          /\ Receive(n, [note[n] EXCEPT !.busy = FALSE], <<>>)
       \/ /\ m.outcome # None
          /\ Receive(n, [note[n] EXCEPT !.busy = FALSE, !.balance = @ + m.value,
                                        !.debt = Monus(@ + m.coupon, m.debtPaid),
                                        !.stake = NoStake], <<>>)

AcceptFee(n) ==
  /\ HeadIs(toNote, n, "acceptFee")
  /\ Receive(n, [note[n] EXCEPT !.balance = @ + Head(toNote[n]).value], <<>>)

\* Mutant: coupons come back as collateral.
Restored_ToBalance(s) ==
  IF s.stake.bet = "merge" THEN s ELSE [s EXCEPT !.balance = @ + s.stake.amount]

\* What a bounced request gives back, by what was staged.
Restored(s) ==
  CASE s.stake.bet = "coupon" -> [s EXCEPT !.coupons = @ + s.stake.amount]
    [] s.stake.bet = "merge" -> s
    [] OTHER -> [s EXCEPT !.balance = @ + s.stake.amount]

\* Mutant: the latch stays taken.
Emptied_Busy(s) ==
  [s EXCEPT !.stake = IF s.stake.pos = NoPools THEN NoStake ELSE [@ EXCEPT !.amount = 0]]

Emptied(s) ==
  [s EXCEPT !.busy = FALSE,
            !.stake = IF s.stake.pos = NoPools THEN NoStake ELSE [@ EXCEPT !.amount = 0]]

OnBounce(n) ==
  /\ HeadIs(toNote, n, "bounce")
  /\ \/ ~note[n].busy /\ Receive(n, note[n], <<>>)
     \/ /\ note[n].busy /\ note[n].pendingForfeit
        /\ Receive(n, [note[n] EXCEPT !.busy = FALSE, !.pendingForfeit = FALSE,
                                      !.stake = NoStake], <<>>)
     \/ /\ note[n].busy /\ ~note[n].pendingForfeit
        /\ Receive(n, Emptied(Restored(note[n])), <<>>)
=============================================================================
