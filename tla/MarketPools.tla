---------------------------- MODULE MarketPools ----------------------------
(***************************************************************************)
(* The arithmetic of a prediction market (PMP.sol): normalisation of the   *)
(* clean pools at the freeze, the basket of a full set, the division of    *)
(* the pool among the winners, and one claim; then the messages between    *)
(* the contracts of a market.  Amounts are natural numbers; every division *)
(* rounds down as in the code.                                             *)
(***************************************************************************)
EXTENDS Integers, Sequences, FiniteSets, FiniteSetsExt, Functions

CONSTANTS Outcomes,
          FULL_PERCENT, FEE_PERCENT, COUPON_POOL_LIMIT_PERCENT,
          COUPON_MAX_PAYOUT_MULTIPLIER, DEBT_REDISTRIBUTION_PERCENT

ASSUME PercentAssumption ==
  /\ IsFiniteSet(Outcomes) /\ Outcomes # {}
  /\ FULL_PERCENT \in Nat \ {0} /\ FEE_PERCENT \in 0..FULL_PERCENT
  /\ COUPON_POOL_LIMIT_PERCENT \in 0..FULL_PERCENT
  /\ COUPON_MAX_PAYOUT_MULTIPLIER \in Nat
  /\ DEBT_REDISTRIBUTION_PERCENT \in 0..(FULL_PERCENT - 1)

BetTypes == {"clean", "debt", "coupon"}

Zero == [o \in Outcomes |-> 0]
NoPools == [t \in BetTypes |-> Zero]

Least(a, b) == IF a < b THEN a ELSE b
Monus(a, b) == IF a > b THEN a - b ELSE 0
Plus(f, g) == [o \in Outcomes |-> f[o] + g[o]]
Minus(f, g) == [o \in Outcomes |-> f[o] - g[o]]
Scale(k, f) == [o \in Outcomes |-> k * f[o]]
PlusAll(p, q) == [t \in BetTypes |-> Plus(p[t], q[t])]
MinusAll(p, q) == [t \in BetTypes |-> Minus(p[t], q[t])]
Covers(p, q) == \A t \in BetTypes, o \in Outcomes : p[t][o] >= q[t][o]

\* The stake of one bet type on one outcome.
Single(t, o, a) == [NoPools EXCEPT ![t][o] = a]

\* The mass of outcome o over all bet types, and the real money of a position.
Mass(p, o) == p["clean"][o] + p["debt"][o] + p["coupon"][o]
RealTotal(p) == SumFunction(p["clean"]) + SumFunction(p["debt"])

-----------------------------------------------------------------------------
(* The freeze. *)

\* What each clean pool exceeds a multiple of the smallest initial stake by.
Remainders(clean, initial) ==
  [o \in Outcomes |-> clean[o] % Min(Range(initial))]

gcd[p \in Nat \X Nat] == IF p[2] = 0 THEN p[1] ELSE gcd[<<p[2], p[1] % p[2]>>]

GcdOf(S) == FoldSet(LAMBDA a, b : gcd[<<a, b>>], 0, S)

\* The units of each outcome in one basket.
Units(clean) ==
  [o \in Outcomes |->
     IF clean[o] = 0 THEN 0 ELSE clean[o] \div GcdOf(Range(clean))]

\* The baskets a merge of the given amounts makes up.
Baskets(amount, units) ==
  Min({amount[o] \div units[o] : o \in {k \in Outcomes : units[k] > 0}})

CouponAllowed(p, o, a) ==
  p["coupon"][o] + a <=
    ((Mass(p, o) + a) * COUPON_POOL_LIMIT_PERCENT) \div FULL_PERCENT

-----------------------------------------------------------------------------
(* The division of the pool, in the order the code deducts: creator fee,   *)
(* coupon winners, debt winners, and the rest to the clean winners.        *)

DebtCoef(clean, debt, budget) ==
  IF clean + debt = 0 THEN 0
  ELSE LET base == (budget * FULL_PERCENT) \div (clean + debt)
       IN IF clean > 0
          THEN (base * (FULL_PERCENT - DEBT_REDISTRIBUTION_PERCENT))
                 \div FULL_PERCENT
          ELSE base

Rewards(clean, debt, fee, couponCoef, couponPaid, debtCoef, debtProfit, budget) ==
  [fee |-> fee, couponCoef |-> couponCoef, debtCoef |-> debtCoef,
   winClean |-> clean, profitToClean |-> budget - debtProfit,
   clean |-> clean + (budget - debtProfit), debt |-> debt + debtProfit,
   coupon |-> couponPaid]

AfterCoupons(clean, debt, fee, couponCoef, couponPaid, debtCoef, budget) ==
  Rewards(clean, debt, fee, couponCoef, couponPaid, debtCoef,
          Least((debt * debtCoef) \div FULL_PERCENT, budget), budget)

CouponCoef(clean, debt, coupon, budget) ==
  LET perUnit == (budget * FULL_PERCENT) \div (clean + debt + coupon)
  IN IF clean + debt > 0 THEN Least(perUnit, COUPON_MAX_PAYOUT_MULTIPLIER)
                         ELSE perUnit

AfterFee(clean, debt, coupon, fee, coef, budget) ==
  LET paid == Least((coupon * coef) \div FULL_PERCENT, budget)
  IN AfterCoupons(clean, debt, fee, coef, paid,
                  DebtCoef(clean, debt, budget - paid), budget - paid)

\* clean, debt and coupon are the winning pools, total the whole pool.
Division(clean, debt, coupon, total) ==
  LET budget == Monus(total, clean + debt)
      fee == Least((total * FEE_PERCENT) \div FULL_PERCENT, budget)
  IN AfterFee(clean, debt, coupon, fee,
              CouponCoef(clean, debt, coupon, budget - fee), budget - fee)

NoRewards ==
  [fee |-> 0, couponCoef |-> 0, debtCoef |-> 0, winClean |-> 0,
   profitToClean |-> 0, clean |-> 0, debt |-> 0, coupon |-> 0]

-----------------------------------------------------------------------------
(* A claim: what the formulas give for a position with the given winning   *)
(* stakes, and what the caps on the reward buckets leave of it.            *)

DueClean(r, a) ==
  IF r.winClean > 0 /\ a > 0
  THEN a + (a * r.profitToClean) \div r.winClean ELSE 0
DueDebt(r, a) == IF a > 0 THEN a + (a * r.debtCoef) \div FULL_PERCENT ELSE 0
DueCoupon(r, a) == (a * r.couponCoef) \div FULL_PERCENT

\* The part of the debt repaid by the profit of a debt stake.
DebtPaid(r, payout, principal) ==
  IF r.winClean = 0 THEN 0
  ELSE (Monus(payout, principal) * DEBT_REDISTRIBUTION_PERCENT)
         \div (FULL_PERCENT - DEBT_REDISTRIBUTION_PERCENT)

Capped(r, pos, o) ==
  [clean |-> Least(DueClean(r, pos["clean"][o]), r.clean),
   debt |-> Least(DueDebt(r, pos["debt"][o]), r.debt),
   coupon |-> Least(DueCoupon(r, pos["coupon"][o]), r.coupon)]

PaidTotal(pay) == pay.clean + pay.debt + pay.coupon

\* A payout beyond the balance is cut from the coupon, debt and clean parts
\* in this order.
Trimmed(pay, balance) ==
  LET d == Monus(PaidTotal(pay), balance)
      c == Least(d, pay.coupon)
      b == Least(d - c, pay.debt)
  IN [coupon |-> pay.coupon - c, debt |-> pay.debt - b,
      clean |-> pay.clean - Least(d - c - b, pay.clean)]

-----------------------------------------------------------------------------
(* The messages between one market (PMP), the notes that stake in it, the  *)
(* oracle event lists that confirm it and its order book.  Messages of one *)
(* sender to one receiver arrive in order; a message that its receiver     *)
(* refuses, or whose receiver does not exist, bounces to the sender.       *)

CONSTANTS Notes, Lists,
          Keys,  \* the keys of oracles
          None   \* no note, outcome or time

VARIABLES toPmp,     \* note -> messages on their way to the market
          toNote,    \* note -> messages of the market to the note
          toList,    \* list -> messages of the market to the list
          fromList,  \* list -> messages of the list to the market
          book,      \* where the order book of the market is in its life
          now        \* block.timestamp

netVars == <<toPmp, toNote, toList, fromList, book, now>>

\* "closing": shutdown was sent and the drain runs; "done": the report of
\* its end is on its way to the market.
BookStates == {"none", "open", "closing", "done", "gone"}

Deliver(chan, out) ==
  [k \in DOMAIN chan |-> chan[k] \o SelectSeq(out, LAMBDA m : m.to = k)]

HeadIs(chan, k, type) == chan[k] # <<>> /\ Head(chan[k]).type = type
Consume(chan, k) == [chan EXCEPT ![k] = Tail(@)]

NetInit ==
  /\ toPmp = [n \in Notes |-> <<>>] /\ toNote = [n \in Notes |-> <<>>]
  /\ toList = [l \in Lists |-> <<>>] /\ fromList = [l \in Lists |-> <<>>]
  /\ book = "none"
=============================================================================
