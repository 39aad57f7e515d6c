--------------------------- MODULE Market_proofs ----------------------------
(***************************************************************************)
(* Proofs about a prediction market.  It never has two verdicts: for this  *)
(* its storage stays opaque but for the two fields the verdict depends on. *)
(* And its arithmetic is right for amounts of any size: the division of    *)
(* the pool gives out all of it, and a claim leaves enough for the claims  *)
(* that follow.                                                            *)
(***************************************************************************)
EXTENDS Market, Sums

Storage(p) == {"resolved", "cancelled"} \subseteq DOMAIN p

Good(p) == Storage(p) /\ ~(Resolved(p) /\ p.cancelled)

\* Storage q differs from p in nothing that the verdict depends on.
Same(p, q) == Storage(q) /\ q.resolved = p.resolved /\ q.cancelled = p.cancelled

\* What leaves the two fields alone keeps the verdict unique.
LEMMA SameGood ==
  ASSUME NEW p, NEW q, Good(p), Same(p, q)
  PROVE  Good(q)
BY DEF Good, Same, Resolved

\* A market that does not exist has no verdict.
LEMMA FreshGood == Good(Fresh)
BY DEF Good, Fresh, Storage, Resolved

\* The helpers of every handler.
LEMMA HelpersSame ==
  ASSUME NEW p, Storage(p)
  PROVE  Same(p, Touched(p)) /\ Same(p, Frozen(p))
<1>1. Same(p, Touched(p))
  BY DEF Storage, Same, Touched
<1>2. ASSUME NEW refund, NEW cut PROVE Same(p, FrozenWith(p, refund, cut))
  BY DEF Storage, Same, FrozenWith
<1>3. Same(p, Frozen(p))
  BY <1>2 DEF Storage, Same, Frozen
<1> QED BY <1>1, <1>3

\* Stakes and full sets.
LEMMA StakesSame ==
  ASSUME NEW p, Storage(p)
  PROVE  /\ \A m : Same(p, WithStake(p, m))
         /\ \A t : Same(p, WithSplit(p, t))
         /\ \A t : Same(p, WithMerge(p, t))
<1>1. \A m : Same(p, WithStake(p, m))
  BY DEF Storage, Same, WithStake
<1>2. \A t : Same(p, WithSplit(p, t))
  BY DEF Storage, Same, WithSplit
<1>3. \A t : Same(p, WithMerge(p, t))
  BY DEF Storage, Same, WithMerge
<1> QED BY <1>1, <1>2, <1>3

\* Set-up, timings, refunds and forfeits.
LEMMA OthersSame ==
  ASSUME NEW p, Storage(p)
  PROVE  /\ Same(p, FirstApproval(p))
         /\ \A l, key : Same(p, Approved(p, l, key))
         /\ \A v : Same(p, WithTimings(p, v))
         /\ \A pos : Same(p, WithRefund(p, pos))
         /\ \A n, pos : Same(p, WithForfeit(p, n, pos))
         /\ Same(p, ReportTo(p))
<1>1. Same(p, FirstApproval(p))
  BY DEF Storage, Same, FirstApproval
<1>2. \A l, key : Same(p, Approved(p, l, key))
  BY DEF Storage, Same, Approved
<1>3. \A v : Same(p, WithTimings(p, v))
  BY DEF Storage, Same, WithTimings
<1>4. \A pos : Same(p, WithRefund(p, pos))
  BY DEF Storage, Same, WithRefund
<1>5. \A n, pos : Same(p, WithForfeit(p, n, pos))
  BY DEF Storage, Same, WithForfeit
<1>6. Same(p, ReportTo(p))
  <2>1. Same(p, Touched(p)) BY HelpersSame
  <2> QED BY <2>1 DEF Storage, Same, ReportTo
<1> QED BY <1>1, <1>2, <1>3, <1>4, <1>5, <1>6

\* The two decisions.
LEMMA CancelGood ==
  ASSUME NEW p, Storage(p), ~Resolved(p)
  PROVE  Good(WithCancel(p))
<1> DEFINE q == [p EXCEPT !.cancelled = TRUE, !.countReleased = TRUE]
<1>1. Storage(q) /\ q.resolved = p.resolved
  BY DEF Storage
<1>2. Good(q)
  BY <1>1 DEF Good, Resolved
<1> HIDE DEF q
<1>3. Same(q, Touched(q))
  BY <1>1, HelpersSame
<1> QED BY <1>2, <1>3, SameGood DEF WithCancel, q

\* A result is set on a market that is not cancelled only.
LEMMA OutcomeGood ==
  ASSUME NEW p, NEW o, NEW r, Storage(p), ~p.cancelled
  PROVE  Good(WithOutcome(p, o, r))
BY DEF Storage, Good, Resolved, WithOutcome

\* A handler that commits storage p, and one that may also close the market.
LEMMA CommitGood ==
  ASSUME NEW p, NEW out, NEW lists, Good(p),
         Commit(p, out, lists) \/ Finish(p, out, lists) \/ Destroy(p, out, lists)
  PROVE  Good(pmp')
<1>1. CASE Commit(p, out, lists)
  BY <1>1 DEF Commit, Effects
<1>2. CASE Destroy(p, out, lists)
  BY <1>2, FreshGood DEF Destroy, Effects
<1>3. CASE Finish(p, out, lists)
  <2>1. \/ Commit(p, out, lists)
        \/ \E o2, l2 : Destroy(p, o2, l2)
    BY <1>3 DEF Finish
  <2> QED BY <2>1, FreshGood DEF Commit, Destroy, Effects
<1> QED BY <1>1, <1>2, <1>3

\* The deployment (PMP constructor).
LEMMA ConstructorGood ==
  ASSUME Good(pmp), NEW n \in Notes, Constructor(n)
  PROVE  Good(pmp')
<1>1. CASE Bounced(n)
  BY <1>1 DEF Bounced, Commit, Effects
<1>2. CASE \E m : pmp' = [Fresh EXCEPT !.alive = TRUE, !.deployer = n,
                                       !.initial = m.initial, !.lengthOk = m.lengthOk,
                                       !.lists = m.lists]
  BY <1>2 DEF Good, Fresh, Storage, Resolved
<1> QED BY <1>1, <1>2 DEF Constructor

\* The answers of the oracle lists (approveEvent, rejectEvent, onBounce).
LEMMA ListsGood ==
  ASSUME Good(pmp), NEW l \in Lists,
         RejectEvent(l) \/ OnListBounce(l) \/ ApproveEvent(l)
  PROVE  Good(pmp')
<1>1. CASE RejectEvent(l)
  BY <1>1, FreshGood DEF RejectEvent, Abandon, Destroy, Effects, BouncedToList
<1>2. CASE OnListBounce(l)
  BY <1>2, FreshGood DEF OnListBounce, Abandon, Destroy, Commit, Effects
<1>3. CASE ApproveEvent(l)
  <2>1. Storage(pmp) /\ Storage(FirstApproval(pmp)) /\ Same(pmp, FirstApproval(pmp))
    BY OthersSame DEF Good, Same
  <2>2. Good(FirstApproval(pmp))
    BY <2>1, SameGood
  <2>3. \A key : Good(Approved(FirstApproval(pmp), l, key)) /\ Good(Approved(pmp, l, key))
    BY <2>1, <2>2, OthersSame, SameGood
  <2> QED BY <1>3, <2>3, FreshGood
          DEF ApproveEvent, BouncedToList, Destroy, Commit, Effects
<1> QED BY <1>1, <1>2, <1>3

\* Staking and full sets (acceptStake, splitFullSet, mergeFullSet).
LEMMA StakingGood ==
  ASSUME Good(pmp), NEW n \in Notes,
         AcceptStake(n) \/ SplitFullSet(n) \/ MergeFullSet(n) \/ ConfirmRefund(n)
  PROVE  Good(pmp')
<1>0. /\ Storage(pmp) /\ Good(Touched(pmp)) /\ Storage(Touched(pmp))
      /\ Good(Frozen(pmp)) /\ Storage(Frozen(pmp))
  BY HelpersSame, SameGood DEF Good, Same
<1>1. Good(Touched(Frozen(pmp))) /\ Storage(Touched(Frozen(pmp)))
  BY <1>0, HelpersSame, SameGood DEF Good
<1>2. CASE AcceptStake(n)
  <2>1. \A m : Good(WithStake(Touched(pmp), m))
    BY <1>0, StakesSame, SameGood
  <2> QED BY <1>2, <2>1 DEF AcceptStake, Bounced, Commit, Effects
<1>3. CASE SplitFullSet(n)
  <2>1. \A t : Good(WithSplit(Touched(Frozen(pmp)), t))
    BY <1>1, StakesSame, SameGood
  <2> QED BY <1>3, <2>1 DEF SplitFullSet, Bounced, Commit, Effects
<1>4. CASE MergeFullSet(n)
  <2>1. \A t : Good(WithMerge(Touched(Frozen(pmp)), t))
    BY <1>1, StakesSame, SameGood
  <2> QED BY <1>4, <2>1 DEF MergeFullSet, Bounced, Commit, Effects
<1>5. CASE ConfirmRefund(n)
  <2>1. Good([Touched(pmp) EXCEPT !.refundPending = FALSE])
    BY <1>0 DEF Good, Storage, Resolved
  <2> QED BY <1>5, <2>1 DEF ConfirmRefund, Bounced, Commit, Effects
<1> QED BY <1>2, <1>3, <1>4, <1>5

\* Payouts (claim, cancelStake, forfeitStake, confirmRefundReceived).
LEMMA SettlingGood ==
  ASSUME Good(pmp), NEW n \in Notes,
         Claim(n) \/ CancelStake(n) \/ ForfeitStake(n)
  PROVE  Good(pmp')
<1>0. Storage(pmp) /\ Good(Touched(pmp)) /\ Storage(Touched(pmp))
  BY HelpersSame, SameGood DEF Good, Same
<1>1. CASE Claim(n)
  <2>1. ASSUME NEW d, ClaimDebtRefund(n, Touched(pmp), d) PROVE Good(pmp')
    <3>1. Good([Touched(pmp) EXCEPT !.debtRemaining = @ - d, !.unclaimed = @ - d])
      BY <1>0 DEF Good, Storage, Resolved
    <3> QED BY <2>1, <3>1, CommitGood DEF ClaimDebtRefund
  <2>2. ASSUME NEW pos, NEW capped, NEW pay,
               ClaimWin(n, Touched(pmp), pos, capped, pay)
        PROVE  Good(pmp')
    <3> DEFINE q == [Touched(pmp) EXCEPT
                       !.rewards.clean = @ - capped.clean,
                       !.rewards.debt = @ - capped.debt,
                       !.rewards.coupon = @ - capped.coupon,
                       !.unclaimed = @ - PaidTotal(pay),
                       !.totalWin = Monus(@, Mass(pos, Touched(pmp).resolved))]
    <3>1. Good(q)
      BY <1>0 DEF Good, Storage, Resolved
    <3> HIDE DEF q
    <3> QED BY <2>2, <3>1, CommitGood DEF ClaimWin, q
  <2>3. CASE Bounced(n)
    BY <2>3 DEF Bounced, Commit, Effects
  <2>4. CASE \E out : Commit(Touched(pmp), out, {})
    BY <1>0, <2>4 DEF Commit, Effects
  <2> QED BY <1>1, <2>1, <2>2, <2>3, <2>4 DEF Claim
<1>2. CASE CancelStake(n)
  <2>1. CASE Bounced(n)
    BY <2>1 DEF Bounced, Commit, Effects
  <2>2. ASSUME NEW pos, CancelOk(n, pos) PROVE Good(WithRefund(Touched(AfterGrace(pmp)), pos))
    <3>1. Good(AfterGrace(pmp))
      BY <1>0, <2>2, CancelGood DEF AfterGrace, GraceOver
    <3>2. Good(Touched(AfterGrace(pmp)))
      BY <3>1, HelpersSame, SameGood DEF Good
    <3> QED BY <3>2, OthersSame, SameGood DEF Good
  <2> QED BY <1>2, <2>1, <2>2, CommitGood DEF CancelStake
<1>3. CASE ForfeitStake(n)
  <2>1. CASE Bounced(n)
    BY <2>1 DEF Bounced, Commit, Effects
  <2>2. \A pos : Good(WithForfeit(Touched(pmp), n, pos))
    BY <1>0, OthersSame, SameGood
  <2> QED BY <1>3, <2>1, <2>2, CommitGood DEF ForfeitStake
<1> QED BY <1>1, <1>2, <1>3

\* The end of the book (onOrderBookShutdownComplete).
LEMMA BookGood ==
  ASSUME Good(pmp), BookDrained \/ OnOrderBookShutdownComplete
  PROVE  Good(pmp')
<1>1. Good(ReportTo(pmp))
  BY OthersSame, SameGood DEF Good
<1> QED BY <1>1, FreshGood DEF BookDrained, OnOrderBookShutdownComplete, Effects

\* The freeze (freezeNow).
LEMMA FreezeGood ==
  ASSUME Good(pmp), FreezeNow
  PROVE  Good(pmp')
<1>1. Good(Frozen(pmp))
  BY HelpersSame, SameGood DEF Good
<1> QED BY <1>1 DEF FreezeNow, Commit, Effects

\* Only these three steps decide anything.
LEMMA DecisionsGood ==
  ASSUME Good(pmp), Oracles
  PROVE  Good(pmp')
<1>0. Storage(pmp) /\ Good(Touched(pmp)) /\ Storage(Touched(pmp))
  BY HelpersSame, SameGood DEF Good, Same
<1>1. ASSUME NEW k \in Keys, NEW v \in ResultTimes, SubmitSetTimings(k, v)
      PROVE  Good(pmp')
  <2>1. Good([Touched(pmp) EXCEPT !.timings = Cast(@, k, v)])
    BY <1>0 DEF Good, Storage, Resolved
  <2> DEFINE p == WithTimings(Touched(pmp), v)
  <2>2. Good(p)
    BY <1>0, OthersSame, SameGood
  <2>3. Good(Touched(FreezeIfEnded(p)))
    <3> HIDE DEF p
    <3>1. Good(FreezeIfEnded(p))
      BY <2>2, HelpersSame, SameGood DEF FreezeIfEnded, Good
    <3> QED BY <3>1, HelpersSame, SameGood DEF Good
  <2> QED BY <1>0, <1>1, <2>1, <2>3 DEF SubmitSetTimings, Commit, Effects
<1>2. ASSUME NEW k \in Keys, NEW o \in Outcomes, SubmitResolve(k, o)
      PROVE  Good(pmp')
  <2>1. Good([Touched(pmp) EXCEPT !.outcomes = Cast(@, k, o)])
    BY <1>0 DEF Good, Storage, Resolved
  <2> DEFINE p == Touched(Frozen(pmp))
  <2>2. Same(pmp, p)
    BY <1>0, HelpersSame DEF Same
  <2>3. ResolveAllowed(pmp) => \A r : Good(WithOutcome(p, o, r))
    BY <2>2, OutcomeGood DEF Same, ResolveAllowed
  <2> QED BY <1>0, <1>2, <2>1, <2>3 DEF SubmitResolve, Commit, Effects
<1>3. ASSUME NEW k \in Keys, SubmitCancelEvent(k)
      PROVE  Good(pmp')
  <2>1. Good([Touched(pmp) EXCEPT !.cancels = @ \cup {k}])
    BY <1>0 DEF Good, Storage, Resolved
  <2> DEFINE q == [Touched(pmp) EXCEPT !.cancels = {}]
  <2>2. Storage(q) /\ q.resolved = pmp.resolved
    BY <1>0, HelpersSame DEF Storage, Same
  <2>3. CancelAllowed(pmp) => Good(WithCancel(q))
    <3> HIDE DEF q
    <3> QED BY <2>2, CancelGood DEF CancelAllowed, Resolved
  <2> QED BY <1>0, <1>3, <2>1, <2>3 DEF SubmitCancelEvent, Commit, Effects
<1> QED BY <1>1, <1>2, <1>3 DEF Oracles

\* No market is ever both resolved and cancelled, for any number of notes,
\* lists and outcomes (the guards of PMP.resolve and PMP.cancelEvent).
THEOREM VerdictUnique == Spec => []OneVerdict
<1>1. MarketInit => Good(pmp)
  BY FreshGood DEF MarketInit
<1>2. Good(pmp) /\ [MarketNext]_vars => Good(pmp)'
  <2> SUFFICES ASSUME Good(pmp), [MarketNext]_vars PROVE Good(pmp')
    OBVIOUS
  <2>1. CASE AtMarket
    BY <2>1, ConstructorGood, ListsGood, StakingGood, SettlingGood, BookGood DEF AtMarket
  <2>2. CASE Oracles
    BY <2>2, DecisionsGood
  <2>3. CASE Freeze
    BY <2>3, FreezeGood DEF Freeze
  <2>4. CASE UNCHANGED pmp
    BY <2>4
  <2> QED BY <2>1, <2>2, <2>3, <2>4
          DEF MarketNext, Tick, Owner, Callback, AtList, ListOwner, vars
<1>3. Good(pmp) => OneVerdict
  BY DEF Good, OneVerdict
<1> QED BY <1>1, <1>2, <1>3, PTL DEF Spec

-----------------------------------------------------------------------------
(* The division at the resolution. *)

\* The lesser of two amounts is an amount, and at most either.
LEMMA LeastBetween ==
  ASSUME NEW a \in Nat, NEW b \in Nat
  PROVE  Least(a, b) \in Nat /\ Least(a, b) <= b /\ Least(a, b) <= a
BY DEF Least

\* A cap that is not reached changes nothing.
LEMMA LeastFirst ==
  ASSUME NEW a \in Nat, NEW b \in Nat, a <= b
  PROVE  Least(a, b) = a
BY DEF Least

\* A share is an amount.
LEMMA ShareNat ==
  ASSUME NEW a \in Nat, NEW c \in Nat
  PROVE  (a * c) \div FULL_PERCENT \in Nat
BY MulNat, DivBounds, PercentAssumption

\* The rate of the debt winners is an amount.
LEMMA DebtCoefNat ==
  ASSUME NEW clean \in Nat, NEW debt \in Nat, NEW budget \in Nat
  PROVE  DebtCoef(clean, debt, budget) \in Nat
<1>1. CASE clean + debt = 0
  BY <1>1 DEF DebtCoef
<1>2. CASE clean + debt # 0
  <2> DEFINE base == (budget * FULL_PERCENT) \div (clean + debt)
             keep == FULL_PERCENT - DEBT_REDISTRIBUTION_PERCENT
  <2>1. clean + debt \in Nat \ {0} /\ FULL_PERCENT \in Nat /\ keep \in Nat
    BY <1>2, PercentAssumption
  <2>2. base \in Nat
    BY <2>1, MulNat, DivBounds
  <2>3. (base * keep) \div FULL_PERCENT \in Nat
    <3> HIDE DEF base, keep
    <3> QED BY <2>1, <2>2, ShareNat
  <2> QED BY <1>2, <2>2, <2>3 DEF DebtCoef
<1> QED BY <1>1, <1>2

\* The rate of the coupon winners is an amount.
LEMMA CouponCoefNat ==
  ASSUME NEW clean \in Nat, NEW debt \in Nat, NEW coupon \in Nat, NEW budget \in Nat,
         clean + debt + coupon > 0
  PROVE  CouponCoef(clean, debt, coupon, budget) \in Nat
<1>1. (budget * FULL_PERCENT) \div (clean + debt + coupon) \in Nat
  <2>1. clean + debt + coupon \in Nat \ {0} /\ FULL_PERCENT \in Nat
    BY PercentAssumption
  <2> QED BY <2>1, MulNat, DivBounds
<1> QED BY <1>1, LeastBetween, PercentAssumption DEF CouponCoef

\* The buckets hold amounts, and what is given out is `sum` in all.
GivesOut(r, sum) ==
  /\ r.fee \in Nat /\ r.clean \in Nat /\ r.debt \in Nat /\ r.coupon \in Nat
  /\ r.fee + PaidTotal(r) = sum

\* What is left after the coupons goes to the debt and clean winners.
LEMMA AfterCouponsGivesOut ==
  ASSUME NEW clean \in Nat, NEW debt \in Nat, NEW fee \in Nat, NEW couponCoef \in Nat,
         NEW couponPaid \in Nat, NEW debtCoef \in Nat, NEW budget \in Nat
  PROVE  GivesOut(AfterCoupons(clean, debt, fee, couponCoef, couponPaid, debtCoef, budget),
                  clean + debt + fee + couponPaid + budget)
<1> DEFINE profit == Least((debt * debtCoef) \div FULL_PERCENT, budget)
<1>1. profit \in Nat /\ profit <= budget
  BY ShareNat, LeastBetween
<1> HIDE DEF profit
<1>2. GivesOut(Rewards(clean, debt, fee, couponCoef, couponPaid, debtCoef, profit, budget),
               clean + debt + fee + couponPaid + budget)
  BY <1>1 DEF Rewards, GivesOut, PaidTotal
<1> QED BY <1>2 DEF AfterCoupons, profit

\* What is left after the fee goes to the three kinds of winners.
LEMMA AfterFeeGivesOut ==
  ASSUME NEW clean \in Nat, NEW debt \in Nat, NEW coupon \in Nat, NEW fee \in Nat,
         NEW coef \in Nat, NEW budget \in Nat
  PROVE  GivesOut(AfterFee(clean, debt, coupon, fee, coef, budget),
                  clean + debt + fee + budget)
<1> DEFINE paid == Least((coupon * coef) \div FULL_PERCENT, budget)
<1>1. paid \in Nat /\ paid <= budget
  BY ShareNat, LeastBetween
<1> HIDE DEF paid
<1>2. budget - paid \in Nat
  BY <1>1
<1> DEFINE rest == budget - paid
<1> HIDE DEF rest
<1>3. DebtCoef(clean, debt, rest) \in Nat
  BY <1>2, DebtCoefNat DEF rest
<1>4. GivesOut(AfterCoupons(clean, debt, fee, coef, paid,
                            DebtCoef(clean, debt, rest), rest),
               clean + debt + fee + paid + rest)
  BY <1>1, <1>2, <1>3, AfterCouponsGivesOut DEF rest
<1>5. clean + debt + fee + paid + rest = clean + debt + fee + budget
  BY <1>1 DEF rest
<1> QED BY <1>4, <1>5 DEF AfterFee, paid, rest

\* The resolution of a market with a winning side gives out the whole pool:
\* the creator's fee and the three reward buckets add up to _totalPool, and
\* none is negative, whatever the stakes and the rounding (PMP.resolve).
THEOREM DivisionExact ==
  ASSUME NEW clean \in Nat, NEW debt \in Nat, NEW coupon \in Nat, NEW total \in Nat,
         clean + debt <= total, clean + debt + coupon > 0
  PROVE  LET r == Division(clean, debt, coupon, total)
         IN /\ r.fee \in Nat /\ r.clean \in Nat /\ r.debt \in Nat /\ r.coupon \in Nat
            /\ r.fee + PaidTotal(r) = total
<1> DEFINE budget == Monus(total, clean + debt)
           fee == Least((total * FEE_PERCENT) \div FULL_PERCENT, budget)
<1>1. budget \in Nat /\ budget = total - (clean + debt)
  BY DEF Monus
<1>2. fee \in Nat /\ fee <= budget
  <2>1. (total * FEE_PERCENT) \div FULL_PERCENT \in Nat
    BY ShareNat, PercentAssumption
  <2> HIDE DEF budget
  <2> QED BY <1>1, <2>1, LeastBetween
<1> DEFINE rest == budget - fee
           coef == CouponCoef(clean, debt, coupon, rest)
<1> HIDE DEF budget, fee
<1>3. rest \in Nat /\ clean + debt + fee + rest = total
  BY <1>1, <1>2
<1> HIDE DEF rest
<1>4. coef \in Nat
  BY <1>3, CouponCoefNat
<1> HIDE DEF coef
<1>5. GivesOut(AfterFee(clean, debt, coupon, fee, coef, rest), total)
  BY <1>2, <1>3, <1>4, AfterFeeGivesOut
<1> QED BY <1>5 DEF Division, GivesOut, budget, fee, rest, coef

-----------------------------------------------------------------------------
(* Claims.  The buckets cover what the formulas give to winners with the   *)
(* stated stakes in all.                                                   *)

Enough(r, clean, debt, coupon) ==
  /\ DueClean(r, clean) <= r.clean
  /\ DueDebt(r, debt) <= r.debt
  /\ DueCoupon(r, coupon) <= r.coupon

\* A part of a pool earns no more than its share of the budget, when the rate
\* is at most the budget per unit of a mass that contains the part.
LEMMA RateWithinBudget ==
  ASSUME NEW part \in Nat, NEW mass \in Nat \ {0}, NEW budget \in Nat, NEW rate \in Nat,
         part <= mass, rate <= (budget * FULL_PERCENT) \div mass
  PROVE  (part * rate) \div FULL_PERCENT <= budget
<1> DEFINE perUnit == (budget * FULL_PERCENT) \div mass
           x == (part * rate) \div FULL_PERCENT
<1>1. FULL_PERCENT \in Nat \ {0} /\ budget * FULL_PERCENT \in Nat /\ part * rate \in Nat
  BY PercentAssumption, MulNat
<1>2. perUnit \in Nat /\ mass * perUnit <= budget * FULL_PERCENT
  BY <1>1, DivBounds
<1>3. x \in Nat /\ FULL_PERCENT * x <= part * rate
  BY <1>1, DivBounds
<1>4. rate <= perUnit
  OBVIOUS
<1> HIDE DEF perUnit, x
<1>5. part * rate <= mass * rate /\ mass * rate <= mass * perUnit
  BY <1>2, <1>4, SMT
<1>6. FULL_PERCENT * x <= budget * FULL_PERCENT
  <2>1. mass * rate \in Nat /\ mass * perUnit \in Nat /\ FULL_PERCENT * x \in Nat
    BY <1>1, <1>2, <1>3, MulNat
  <2> QED BY <1>1, <1>2, <1>3, <1>5, <2>1
<1>7. x <= budget
  <2> SUFFICES ASSUME x >= budget + 1 PROVE FALSE
    BY <1>3
  <2>1. FULL_PERCENT * x >= FULL_PERCENT * (budget + 1)
    BY <1>1, <1>3, SMT
  <2>2. FULL_PERCENT * (budget + 1) = budget * FULL_PERCENT + FULL_PERCENT
    BY <1>1, SMT
  <2> QED BY <1>1, <1>3, <1>6, <2>1, <2>2, MulNat
<1> QED BY <1>7 DEF x

\* The redistribution from debt to clean winners only lowers a rate.
LEMMA ReducedRate ==
  ASSUME NEW base \in Nat, NEW keep \in Nat, keep <= FULL_PERCENT
  PROVE  (base * keep) \div FULL_PERCENT <= base
<1> DEFINE x == (base * keep) \div FULL_PERCENT
<1>1. FULL_PERCENT \in Nat \ {0} /\ base * keep \in Nat
  BY PercentAssumption, MulNat
<1>2. x \in Nat /\ FULL_PERCENT * x <= base * keep
  BY <1>1, DivBounds
<1> HIDE DEF x
<1>3. base * keep <= FULL_PERCENT * base
  BY <1>1, SMT
<1>4. FULL_PERCENT * x <= FULL_PERCENT * base
  BY <1>1, <1>2, <1>3, MulNat
<1>5. x <= base
  BY <1>1, <1>2, <1>4, SMT
<1> QED BY <1>5 DEF x

\* The debt winners earn no more than the budget.
LEMMA DebtCoefWithin ==
  ASSUME NEW clean \in Nat, NEW debt \in Nat, NEW budget \in Nat
  PROVE  (debt * DebtCoef(clean, debt, budget)) \div FULL_PERCENT <= budget
<1>1. CASE clean + debt = 0
  <2>1. DebtCoef(clean, debt, budget) = 0
    BY <1>1 DEF DebtCoef
  <2>2. (debt * 0) \div FULL_PERCENT = 0
    BY PercentAssumption, SMT
  <2> QED BY <2>1, <2>2
<1>2. CASE clean + debt # 0
  <2> DEFINE base == (budget * FULL_PERCENT) \div (clean + debt)
             keep == FULL_PERCENT - DEBT_REDISTRIBUTION_PERCENT
  <2>1. /\ clean + debt \in Nat \ {0} /\ FULL_PERCENT \in Nat
        /\ keep \in Nat /\ keep <= FULL_PERCENT
    BY <1>2, PercentAssumption
  <2>2. base \in Nat
    BY <2>1, MulNat, DivBounds
  <2>3. (base * keep) \div FULL_PERCENT <= base
    <3> HIDE DEF base, keep
    <3> QED BY <2>1, <2>2, ReducedRate
  <2>4. DebtCoef(clean, debt, budget) <= base
    BY <1>2, <2>2, <2>3 DEF DebtCoef
  <2>5. DebtCoef(clean, debt, budget) \in Nat
    BY DebtCoefNat
  <2> QED BY <2>1, <2>4, <2>5, RateWithinBudget
<1> QED BY <1>1, <1>2

\* The coupon winners earn no more than the budget.
LEMMA CouponCoefWithin ==
  ASSUME NEW clean \in Nat, NEW debt \in Nat, NEW coupon \in Nat, NEW budget \in Nat,
         clean + debt + coupon > 0
  PROVE  (coupon * CouponCoef(clean, debt, coupon, budget)) \div FULL_PERCENT <= budget
<1> DEFINE perUnit == (budget * FULL_PERCENT) \div (clean + debt + coupon)
           coef == CouponCoef(clean, debt, coupon, budget)
<1>1. clean + debt + coupon \in Nat \ {0} /\ coupon <= clean + debt + coupon
  OBVIOUS
<1>2. perUnit \in Nat
  BY <1>1, PercentAssumption, MulNat, DivBounds
<1>3. coef \in Nat
  BY CouponCoefNat
<1>4. coef <= perUnit
  <2> HIDE DEF perUnit
  <2> QED BY <1>2, LeastBetween, PercentAssumption DEF CouponCoef, perUnit
<1> HIDE DEF coef
<1>5. (coupon * coef) \div FULL_PERCENT <= budget
  BY <1>1, <1>3, <1>4, RateWithinBudget
<1> QED BY <1>5 DEF coef

\* All clean winners together earn all that is left.
LEMMA SelfShare ==
  ASSUME NEW a \in Nat \ {0}, NEW c \in Nat
  PROVE  (a * c) \div a = c
<1>1. a * c \in Nat
  BY MulNat
<1>2. (a * c) \div a \in Nat /\ a * ((a * c) \div a) <= a * c
  BY <1>1, DivBounds
<1>3. c <= (a * c) \div a
  BY <1>1, DivLargest
<1> DEFINE x == (a * c) \div a
<1> HIDE DEF x
<1>4. x \in Nat /\ a * x <= a * c => x <= c
  BY SMT
<1> QED BY <1>2, <1>3, <1>4 DEF x

\* Buckets filled by rates within the budget cover all that is due.
LEMMA RewardsEnough ==
  ASSUME NEW clean \in Nat, NEW debt \in Nat, NEW coupon \in Nat, NEW fee \in Nat,
         NEW coef \in Nat, NEW paid \in Nat, NEW debtCoef \in Nat, NEW profit \in Nat,
         NEW budget \in Nat, profit <= budget,
         (debt * debtCoef) \div FULL_PERCENT = profit,
         (coupon * coef) \div FULL_PERCENT = paid
  PROVE  Enough(Rewards(clean, debt, fee, coef, paid, debtCoef, profit, budget),
                clean, debt, coupon)
<1> DEFINE r == Rewards(clean, debt, fee, coef, paid, debtCoef, profit, budget)
<1>1. DueClean(r, clean) <= r.clean
  <2>1. clean > 0 => (clean * (budget - profit)) \div clean = budget - profit
    BY SelfShare
  <2> QED BY <2>1 DEF DueClean, Rewards
<1>2. DueDebt(r, debt) <= r.debt
  BY DEF DueDebt, Rewards
<1>3. DueCoupon(r, coupon) <= r.coupon
  BY DEF DueCoupon, Rewards
<1> QED BY <1>1, <1>2, <1>3 DEF Enough

\* The buckets of a resolution cover what the formulas of a claim give to all
\* winners together: the caps of PMP.resolve on the coupon and debt rewards
\* never bind, and rounding never overdraws a bucket (PMP.resolve).
THEOREM DivisionEnough ==
  ASSUME NEW clean \in Nat, NEW debt \in Nat, NEW coupon \in Nat, NEW total \in Nat,
         clean + debt <= total, clean + debt + coupon > 0
  PROVE  Enough(Division(clean, debt, coupon, total), clean, debt, coupon)
<1> DEFINE budget == Monus(total, clean + debt)
           fee == Least((total * FEE_PERCENT) \div FULL_PERCENT, budget)
<1>1. budget \in Nat
  BY DEF Monus
<1>2. fee \in Nat /\ fee <= budget
  <2>1. (total * FEE_PERCENT) \div FULL_PERCENT \in Nat
    BY ShareNat, PercentAssumption
  <2> HIDE DEF budget
  <2> QED BY <1>1, <2>1, LeastBetween
<1> DEFINE afterFee == budget - fee
           coef == CouponCoef(clean, debt, coupon, afterFee)
           paid == Least((coupon * coef) \div FULL_PERCENT, afterFee)
<1> HIDE DEF budget, fee
<1>3. afterFee \in Nat
  BY <1>1, <1>2
<1> HIDE DEF afterFee
<1>4. coef \in Nat /\ (coupon * coef) \div FULL_PERCENT <= afterFee
  BY <1>3, CouponCoefNat, CouponCoefWithin
<1> HIDE DEF coef
<1>5. (coupon * coef) \div FULL_PERCENT \in Nat
  BY <1>4, ShareNat
<1>6. paid \in Nat /\ paid <= afterFee /\ (coupon * coef) \div FULL_PERCENT = paid
  BY <1>3, <1>4, <1>5 DEF Least
<1> HIDE DEF paid
<1> DEFINE rest == afterFee - paid
           debtCoef == DebtCoef(clean, debt, rest)
           profit == Least((debt * debtCoef) \div FULL_PERCENT, rest)
<1>7. rest \in Nat
  BY <1>3, <1>6
<1> HIDE DEF rest
<1>8. debtCoef \in Nat /\ (debt * debtCoef) \div FULL_PERCENT <= rest
  BY <1>7, DebtCoefNat, DebtCoefWithin
<1> HIDE DEF debtCoef
<1>9. (debt * debtCoef) \div FULL_PERCENT \in Nat
  BY <1>8, ShareNat
<1>10. profit \in Nat /\ profit <= rest /\ (debt * debtCoef) \div FULL_PERCENT = profit
  BY <1>7, <1>8, <1>9 DEF Least
<1> HIDE DEF profit
<1>11. Enough(Rewards(clean, debt, fee, coef, paid, debtCoef, profit, rest),
              clean, debt, coupon)
  BY <1>2, <1>4, <1>6, <1>7, <1>8, <1>10, RewardsEnough
<1> QED BY <1>11
        DEF Division, AfterFee, AfterCoupons, budget, fee, afterFee, coef, paid,
            rest, debtCoef, profit

-----------------------------------------------------------------------------

\* The state of the buckets after a claim that takes `pay` from them.
Claimed(r, pay) ==
  [r EXCEPT !.clean = @ - pay.clean, !.debt = @ - pay.debt, !.coupon = @ - pay.coupon]

RewardsType ==
  [fee : Nat, couponCoef : Nat, debtCoef : Nat, winClean : Nat, profitToClean : Nat,
   clean : Nat, debt : Nat, coupon : Nat]

\* Two claims earn no more than one claim of both stakes.
LEMMA DuesAdd ==
  ASSUME NEW r \in RewardsType, NEW a \in Nat, NEW b \in Nat
  PROVE  /\ DueClean(r, a) \in Nat /\ DueDebt(r, a) \in Nat /\ DueCoupon(r, a) \in Nat
         /\ DueClean(r, a) + DueClean(r, b) <= DueClean(r, a + b)
         /\ DueDebt(r, a) + DueDebt(r, b) <= DueDebt(r, a + b)
         /\ DueCoupon(r, a) + DueCoupon(r, b) <= DueCoupon(r, a + b)
<1>1. /\ r.winClean \in Nat /\ r.profitToClean \in Nat
      /\ r.debtCoef \in Nat /\ r.couponCoef \in Nat /\ FULL_PERCENT \in Nat \ {0}
  BY PercentAssumption DEF RewardsType
<1>2. DueClean(r, a) \in Nat /\ DueClean(r, a) + DueClean(r, b) <= DueClean(r, a + b)
  <2>1. CASE r.winClean = 0
    BY <2>1 DEF DueClean
  <2>2. CASE r.winClean > 0
    <3> DEFINE s(x) == (x * r.profitToClean) \div r.winClean
    <3>0. r.winClean \in Nat \ {0} /\ r.profitToClean \in Nat
      BY <1>1, <2>2
    <3>1. s(a) \in Nat /\ s(b) \in Nat /\ s(a + b) \in Nat /\ s(a) + s(b) <= s(a + b)
      BY <3>0, SharesAdd, Zenon
    <3>2. \A x : DueClean(r, x) = IF x > 0 THEN x + s(x) ELSE 0
      BY <2>2, Zenon DEF DueClean
    <3> HIDE DEF s
    <3> QED BY <3>1, <3>2
  <2> QED BY <1>1, <2>1, <2>2
<1>3. DueDebt(r, a) \in Nat /\ DueDebt(r, a) + DueDebt(r, b) <= DueDebt(r, a + b)
  <2> DEFINE s(x) == (x * r.debtCoef) \div FULL_PERCENT
  <2>1. s(a) \in Nat /\ s(b) \in Nat /\ s(a + b) \in Nat /\ s(a) + s(b) <= s(a + b)
    BY <1>1, SharesAdd
  <2>2. \A x \in Nat : DueDebt(r, x) = IF x > 0 THEN x + s(x) ELSE 0
    BY DEF DueDebt
  <2> HIDE DEF s
  <2> QED BY <2>1, <2>2
<1>4. DueCoupon(r, a) \in Nat /\ DueCoupon(r, a) + DueCoupon(r, b) <= DueCoupon(r, a + b)
  BY <1>1, SharesAdd DEF DueCoupon
<1> QED BY <1>2, <1>3, <1>4

\* A claim is paid in full and leaves the buckets sufficient for all who have
\* not claimed: with DivisionEnough, the caps of PMP.claim never bind, in
\* whatever order and in however many parts the winners claim (PMP.claim).
THEOREM ClaimInFull ==
  ASSUME NEW r \in RewardsType, NEW pos \in [BetTypes -> [Outcomes -> Nat]],
         NEW o \in Outcomes,
         NEW clean \in Nat, NEW debt \in Nat, NEW coupon \in Nat,
         Enough(r, pos["clean"][o] + clean, pos["debt"][o] + debt,
                pos["coupon"][o] + coupon)
  PROVE  /\ Capped(r, pos, o) = [clean |-> DueClean(r, pos["clean"][o]),
                                 debt |-> DueDebt(r, pos["debt"][o]),
                                 coupon |-> DueCoupon(r, pos["coupon"][o])]
         /\ Claimed(r, Capped(r, pos, o)) \in RewardsType
         /\ Enough(Claimed(r, Capped(r, pos, o)), clean, debt, coupon)
<1> DEFINE a == pos["clean"][o]
           b == pos["debt"][o]
           c == pos["coupon"][o]
           pay == [clean |-> DueClean(r, a), debt |-> DueDebt(r, b),
                   coupon |-> DueCoupon(r, c)]
<1>1. a \in Nat /\ b \in Nat /\ c \in Nat
  BY DEF BetTypes
<1>2. Enough(r, a + clean, b + debt, c + coupon)
  OBVIOUS
<1> HIDE DEF a, b, c
<1>3. r.clean \in Nat /\ r.debt \in Nat /\ r.coupon \in Nat
  BY DEF RewardsType
<1>4. /\ DueClean(r, a) \in Nat /\ DueDebt(r, b) \in Nat /\ DueCoupon(r, c) \in Nat
      /\ DueClean(r, clean) \in Nat /\ DueDebt(r, debt) \in Nat /\ DueCoupon(r, coupon) \in Nat
      /\ DueClean(r, a + clean) \in Nat /\ DueDebt(r, b + debt) \in Nat
      /\ DueCoupon(r, c + coupon) \in Nat
  <2>1. a + clean \in Nat /\ b + debt \in Nat /\ c + coupon \in Nat
    BY <1>1
  <2> QED BY <1>1, <2>1, DuesAdd
<1>5. /\ DueClean(r, a) + DueClean(r, clean) <= r.clean
      /\ DueDebt(r, b) + DueDebt(r, debt) <= r.debt
      /\ DueCoupon(r, c) + DueCoupon(r, coupon) <= r.coupon
  <2>1. /\ DueClean(r, a) + DueClean(r, clean) <= DueClean(r, a + clean)
        /\ DueDebt(r, b) + DueDebt(r, debt) <= DueDebt(r, b + debt)
        /\ DueCoupon(r, c) + DueCoupon(r, coupon) <= DueCoupon(r, c + coupon)
    BY <1>1, DuesAdd
  <2> QED BY <1>2, <1>3, <1>4, <2>1 DEF Enough
<1>6. Capped(r, pos, o) = pay
  <2>1. /\ Least(DueClean(r, a), r.clean) = DueClean(r, a)
        /\ Least(DueDebt(r, b), r.debt) = DueDebt(r, b)
        /\ Least(DueCoupon(r, c), r.coupon) = DueCoupon(r, c)
    <3>1. /\ DueClean(r, a) <= r.clean /\ DueDebt(r, b) <= r.debt
          /\ DueCoupon(r, c) <= r.coupon
      BY <1>3, <1>4, <1>5
    <3> QED BY <1>3, <1>4, <3>1, LeastFirst
  <2> QED BY <2>1, Zenon DEF Capped, a, b, c
<1> DEFINE r2 == Claimed(r, pay)
<1>7. /\ r2 \in RewardsType
      /\ r2.clean = r.clean - DueClean(r, a) /\ r2.debt = r.debt - DueDebt(r, b)
      /\ r2.coupon = r.coupon - DueCoupon(r, c)
      /\ r2.winClean = r.winClean /\ r2.profitToClean = r.profitToClean
      /\ r2.debtCoef = r.debtCoef /\ r2.couponCoef = r.couponCoef
  <2>1. /\ r.clean - DueClean(r, a) \in Nat /\ r.debt - DueDebt(r, b) \in Nat
        /\ r.coupon - DueCoupon(r, c) \in Nat
    BY <1>3, <1>4, <1>5
  <2> DEFINE x == r.clean - DueClean(r, a)
             y == r.debt - DueDebt(r, b)
             z == r.coupon - DueCoupon(r, c)
  <2>2. r2 = [r EXCEPT !.clean = x, !.debt = y, !.coupon = z]
    BY Zenon DEF Claimed
  <2> HIDE DEF r2, x, y, z
  <2>3. x \in Nat /\ y \in Nat /\ z \in Nat
    BY <2>1 DEF x, y, z
  <2>4. /\ r2 \in RewardsType /\ r2.clean = x /\ r2.debt = y /\ r2.coupon = z
        /\ r2.winClean = r.winClean /\ r2.profitToClean = r.profitToClean
        /\ r2.debtCoef = r.debtCoef /\ r2.couponCoef = r.couponCoef
    BY <2>2, <2>3 DEF RewardsType
  <2> QED BY <2>4 DEF x, y, z
<1> HIDE DEF r2
<1>8. /\ DueClean(r2, clean) = DueClean(r, clean) /\ DueDebt(r2, debt) = DueDebt(r, debt)
      /\ DueCoupon(r2, coupon) = DueCoupon(r, coupon)
  BY <1>7 DEF DueClean, DueDebt, DueCoupon
<1>9. Enough(r2, clean, debt, coupon)
  BY <1>3, <1>4, <1>5, <1>7, <1>8 DEF Enough
<1> QED BY <1>6, <1>7, <1>9 DEF r2, pay, a, b, c
=============================================================================
