-------------------------------- MODULE PMP --------------------------------
(***************************************************************************)
(* The prediction market contract (PMP.sol).  `pmp` holds its storage; a   *)
(* handler is one action that reads one message, and either commits its    *)
(* changes and messages or refuses the message, which then bounces.  Votes *)
(* of oracles and freezeNow are external messages.  The order book is      *)
(* reduced to its life: deployed by the freeze, told to shut down once,    *)
(* reporting back once (OrderBook models the drain itself).                *)
(***************************************************************************)
EXTENDS MarketPools

CONSTANTS ResultTimes,     \* the result starts oracles propose
          THRESHOLD, GRACE_PERIOD, MIN_RESULT_GAP

ASSUME GovernanceAssumption ==
  /\ Lists # {} /\ IsFiniteSet(Lists) /\ IsFiniteSet(Keys)
  /\ ResultTimes \subseteq Nat \ {0}
  /\ THRESHOLD \in 1..10000 /\ GRACE_PERIOD \in Nat /\ MIN_RESULT_GAP \in Nat
  /\ None \notin Outcomes \cup Notes \cup ResultTimes

VARIABLE pmp

NoVotes(values) == [vote |-> [k \in Keys |-> None], count |-> [v \in values |-> 0]]

\* The storage of an account that does not exist, or was just created.
Fresh ==
  [alive |-> FALSE, deployer |-> None, initial |-> Zero, lengthOk |-> TRUE,
   lists |-> {}, confirmed |-> {}, keys |-> {}, trusted |-> {}, approved |-> FALSE,
   stakeStart |-> 0, resultStart |-> 0, cancelled |-> FALSE,
   countReleased |-> FALSE,
   timings |-> NoVotes(ResultTimes), outcomes |-> NoVotes(Outcomes),
   cancels |-> {},
   frozen |-> FALSE, refundPending |-> FALSE, units |-> Zero,
   pool |-> NoPools, forfeited |-> NoPools, creatorForfeited |-> Zero,
   totalPool |-> 0, unclaimed |-> 0,
   resolved |-> None, rewards |-> NoRewards, totalWin |-> 0,
   debtRefund |-> FALSE, debtRemaining |-> 0,
   bookDone |-> FALSE, shutdownTriggered |-> FALSE]

-----------------------------------------------------------------------------
(* Conditions. *)

StakeEnd(p) == p.stakeStart + (p.resultStart - p.stakeStart) \div 10

AllConfirmed(p) == p.confirmed = p.lists

Quorum(p) == (Cardinality(p.lists) * THRESHOLD + 9999) \div 10000

Resolved(p) == p.resolved # None

\* triggerOrderBookShutdown, called from ensureBalance in every handler.
Touched(p) ==
  IF /\ ~p.shutdownTriggered /\ ~p.bookDone
     /\ p.resultStart # 0 /\ p.frozen
     /\ now >= p.resultStart \/ p.cancelled
  THEN [p EXCEPT !.shutdownTriggered = TRUE] ELSE p

-----------------------------------------------------------------------------
(* Messages. *)

Msg(to, type) == [to |-> to, type |-> type]

\* _releaseOracleCounts: the lists told to drop their confirmation.
Releases(p) == IF p.countReleased THEN {} ELSE p.confirmed

Fee(p, a) ==
  IF a = 0 THEN <<>> ELSE <<[to |-> p.deployer, type |-> "acceptFee", value |-> a]>>

InitialFailed(p) ==
  <<[to |-> p.deployer, type |-> "initialFailed", value |-> SumFunction(p.initial)]>>

\* The book's life as the market's transaction moves it: the freeze deploys
\* it and the shutdown latch, when it rises, sends shutdown.
BookAfter(p) ==
  IF p.shutdownTriggered /\ ~pmp.shutdownTriggered THEN "closing"
  ELSE IF p.frozen /\ ~pmp.frozen THEN "open" ELSE book

\* Storage p, messages out to notes, and cancelEvent to the given lists.
Effects(p, out, lists) ==
  /\ pmp' = p
  /\ toNote' = Deliver(toNote, out)
  /\ toList' = [l \in Lists |-> IF l \in lists
                                THEN Append(toList[l], Msg(l, "cancelEvent"))
                                ELSE toList[l]]
  /\ UNCHANGED now

Commit(p, out, lists) == Effects(p, out, lists) /\ book' = BookAfter(p)

\* selfdestruct, after ensureBalance.
Destroy(p, out, lists) ==
  Effects(Fresh, out, lists) /\ book' = BookAfter(Touched(p))

FromNote(n, type) ==
  /\ HeadIs(toPmp, n, type)
  /\ toPmp' = Consume(toPmp, n) /\ UNCHANGED fromList

FromList(l, type) ==
  /\ HeadIs(fromList, l, type)
  /\ fromList' = Consume(fromList, l) /\ UNCHANGED toPmp

External == pmp.alive /\ UNCHANGED <<toPmp, fromList>>

Bounced(n) == Commit(pmp, <<Msg(n, "bounce")>>, {})

BouncedToList(l) ==
  /\ toList' = [toList EXCEPT ![l] = Append(@, Msg(l, "bounce"))]
  /\ UNCHANGED <<pmp, toNote, book, now>>

-----------------------------------------------------------------------------
(* Set-up: the constructor and the answers of the oracle lists. *)

Constructor(n) ==
  /\ FromNote(n, "deploy")
  /\ \/ /\ ~pmp.alive
        /\ \E m \in {Head(toPmp[n])} :
             /\ pmp' = [Fresh EXCEPT !.alive = TRUE, !.deployer = n,
                                     !.initial = m.initial, !.lengthOk = m.lengthOk,
                                     !.lists = m.lists]
             /\ toList' = [l \in Lists |->
                             IF l \in m.lists
                             THEN Append(toList[l], [to |-> l, type |-> "confirmEvent",
                                                     paid |-> l \notin m.underpaid])
                             ELSE toList[l]]
        /\ UNCHANGED <<toNote, book, now>>
     \/ pmp.alive /\ Bounced(n)

\* rejectEvent, and onBounce of a confirmEvent before the market is cancelled.
Abandon(p) == Destroy(p, InitialFailed(p), Releases(p))

RejectEvent(l) ==
  /\ FromList(l, "rejectEvent")
  /\ \/ pmp.alive /\ Abandon(pmp)
     \/ ~pmp.alive /\ BouncedToList(l)

OnListBounce(l) ==
  /\ FromList(l, "bounce")
  /\ \/ pmp.alive /\ ~pmp.cancelled /\ Abandon(pmp)
     \/ /\ ~pmp.alive \/ pmp.cancelled
        /\ Commit(pmp, <<>>, IF pmp.cancelled THEN {l} ELSE {})

FirstApproval(p) ==
  [p EXCEPT !.pool["clean"] = p.initial,
            !.totalPool = SumFunction(p.initial),
            !.unclaimed = SumFunction(p.initial)]

\* m is the approval of list l; the trusted address, if it names one, votes
\* with its key.
Approved(p, l, m) ==
  [p EXCEPT !.confirmed = @ \cup {l}, !.keys = @ \cup {m.key},
            !.trusted = @ \cup ({m.trust} \ {None})]

ApproveEvent(l) ==
  /\ FromList(l, "approveEvent")
  /\ \/ /\ ~pmp.alive \/ (l \notin pmp.confirmed /\ pmp.cancelled)
        /\ BouncedToList(l)
     \/ /\ pmp.alive
        /\ l \in pmp.confirmed
        /\ Commit(pmp, <<>>, {})
     \/ /\ pmp.alive /\ l \notin pmp.confirmed /\ ~pmp.cancelled
        /\ \E m \in {Head(fromList[l])} :
             \/ /\ pmp.confirmed = {} /\ ~pmp.lengthOk
                /\ Destroy(pmp, InitialFailed(pmp), {l})
             \/ /\ pmp.confirmed = {} /\ pmp.lengthOk
                /\ Commit(Approved(FirstApproval(pmp), l, m),
                          <<[to |-> pmp.deployer, type |-> "initialAccepted",
                             amounts |-> pmp.initial]>>, {})
             \/ /\ pmp.confirmed # {} /\ m.key \in pmp.keys
                /\ Destroy(pmp, InitialFailed(pmp), pmp.confirmed \cup {l})
             \/ /\ pmp.confirmed # {} /\ m.key \notin pmp.keys
                /\ m.trust \in pmp.trusted
                /\ BouncedToList(l)
             \/ /\ pmp.confirmed # {} /\ m.key \notin pmp.keys
                /\ m.trust \notin pmp.trusted
                /\ Commit(Approved(pmp, l, m), <<>>, {})

-----------------------------------------------------------------------------
(* The freeze. *)

CanFreeze(p) == p.frozen \/ (p.approved /\ ~p.cancelled /\ now >= StakeEnd(p))

FreezeRefund(p) == Remainders(p.pool["clean"], p.initial)

\* The part of a refund that comes off what the creator forfeited.
ForfeitCut(p, refund) ==
  [o \in Outcomes |-> Least(refund[o], p.creatorForfeited[o])]

\* Mutant: the refund stays among the forfeits.
FrozenWith_ForfeitsKept(p, refund, cut) ==
  [p EXCEPT !.frozen = TRUE,
            !.pool["clean"] = Minus(@, refund),
            !.totalPool = @ - SumFunction(refund),
            !.unclaimed = Monus(@, SumFunction(refund)),
            !.refundPending = SumFunction(refund) > 0,
            !.units = Units(Minus(p.pool["clean"], refund))]
FrozenWith(p, refund, cut) ==
  [p EXCEPT !.frozen = TRUE,
            !.pool["clean"] = Minus(@, refund),
            !.creatorForfeited = Minus(@, cut),
            !.forfeited["clean"] = [o \in Outcomes |-> Monus(@[o], cut[o])],
            !.totalPool = @ - SumFunction(refund),
            !.unclaimed = Monus(@, SumFunction(refund)),
            !.refundPending = SumFunction(refund) > 0,
            !.units = Units(Minus(p.pool["clean"], refund))]

\* _ensureFrozen where CanFreeze holds.
Frozen(p) ==
  IF p.frozen THEN p
  ELSE FrozenWith(p, FreezeRefund(p), ForfeitCut(p, FreezeRefund(p)))

FreezeMsgs(p) ==
  IF p.frozen \/ SumFunction(FreezeRefund(p)) = 0 THEN <<>>
  ELSE <<[to |-> p.deployer, type |-> "cleanRefund", amounts |-> FreezeRefund(p),
          value |-> Least(SumFunction(FreezeRefund(p)), p.unclaimed)]>>

FreezeNow ==
  /\ External
  /\ ~pmp.frozen /\ CanFreeze(pmp)
  /\ Commit(Frozen(pmp), FreezeMsgs(pmp), {})

ConfirmRefund(n) ==
  /\ FromNote(n, "confirmRefund")
  /\ \/ /\ pmp.alive /\ n = pmp.deployer
        /\ Commit([Touched(pmp) EXCEPT !.refundPending = FALSE], <<>>, {})
     \/ ~(pmp.alive /\ n = pmp.deployer) /\ Bounced(n)

-----------------------------------------------------------------------------
(* Decisions of the oracles, taken when a quorum agrees.  An oracle may    *)
(* change its vote until then; a vote whose decision is not allowed is     *)
(* rolled back with the transaction.                                       *)

\* Mutant: a changed vote also counts for its old value.
Cast_KeepsOld(t, k, v) ==
  [vote |-> [t.vote EXCEPT ![k] = v], count |-> [t.count EXCEPT ![v] = @ + 1]]

Cast(t, k, v) ==
  LET dropped == IF t.vote[k] = None THEN t.count
                 ELSE [t.count EXCEPT ![t.vote[k]] = @ - 1]
  IN [vote |-> [t.vote EXCEPT ![k] = v], count |-> [dropped EXCEPT ![v] = @ + 1]]

Oracle(k) == External /\ k \in pmp.keys

\* The vote changes nothing, or is counted and does not decide.
Repeated(t, k, v) == t.vote[k] = v
Counted(t, k, v) == t.vote[k] # v /\ Cast(t, k, v).count[v] < Quorum(pmp)
Decides(t, k, v) == t.vote[k] # v /\ Cast(t, k, v).count[v] >= Quorum(pmp)

\* setTimings.
TimingsAllowed(p, v) ==
  /\ ~Resolved(p) /\ AllConfirmed(p)
  /\ v > now
  /\ p.resultStart = 0 \/ now < p.resultStart
  /\ p.stakeStart = 0 => v >= now + MIN_RESULT_GAP

WithTimings(p, v) ==
  [p EXCEPT !.timings = NoVotes(ResultTimes), !.resultStart = v, !.approved = TRUE,
            !.stakeStart = IF @ = 0 THEN now ELSE @]

\* A new stake end that has passed freezes the pools.
FreezeIfEnded(p) == IF now >= StakeEnd(p) THEN Frozen(p) ELSE p
EndedMsgs(p) == IF now >= StakeEnd(p) THEN FreezeMsgs(p) ELSE <<>>

SubmitSetTimings(k, v) ==
  /\ Oracle(k)
  /\ \/ Repeated(pmp.timings, k, v) /\ Commit(Touched(pmp), <<>>, {})
     \/ /\ Counted(pmp.timings, k, v)
        /\ Commit([Touched(pmp) EXCEPT !.timings = Cast(@, k, v)], <<>>, {})
     \/ /\ Decides(pmp.timings, k, v)
        /\ TimingsAllowed(pmp, v)
        /\ \E p \in {WithTimings(Touched(pmp), v)} :
             /\ now >= StakeEnd(p) => CanFreeze(p)
             /\ Commit(Touched(FreezeIfEnded(p)), EndedMsgs(p), {})

\* resolve.
ResolveAllowed(p) ==
  /\ p.approved /\ CanFreeze(p) /\ ~p.cancelled /\ ~Resolved(p)
  /\ now >= p.resultStart /\ now <= p.resultStart + GRACE_PERIOD

Divided(p, o) ==
  IF Mass(p.pool, o) = 0 THEN NoRewards
  ELSE Division(p.pool["clean"][o], p.pool["debt"][o], p.pool["coupon"][o], p.totalPool)

WithOutcome(p, o, r) ==
  [p EXCEPT !.outcomes = NoVotes(Outcomes), !.resolved = o, !.rewards = r,
            !.totalWin = Mass(p.pool, o),
            !.debtRefund = Mass(p.pool, o) = 0 /\ SumFunction(p.pool["debt"]) > 0,
            !.debtRemaining = IF Mass(p.pool, o) = 0
                              THEN SumFunction(p.pool["debt"]) ELSE 0,
            !.unclaimed = @ - Least(r.fee, @)]

SubmitResolve(k, o) ==
  /\ Oracle(k)
  /\ \/ Repeated(pmp.outcomes, k, o) /\ Commit(Touched(pmp), <<>>, {})
     \/ /\ Counted(pmp.outcomes, k, o)
        /\ Commit([Touched(pmp) EXCEPT !.outcomes = Cast(@, k, o)], <<>>, {})
     \/ /\ Decides(pmp.outcomes, k, o)
        /\ ResolveAllowed(pmp)
        /\ \E p \in {Touched(Frozen(pmp))} : \E r \in {Divided(p, o)} :
             Commit(WithOutcome(p, o, r),
                    FreezeMsgs(pmp) \o Fee(p, Least(r.fee, p.unclaimed)), {})

\* Mutant: a resolved market may be cancelled.
CancelAllowed_AfterResult(p) == AllConfirmed(p) /\ ~p.cancelled

\* cancelEvent.
CancelAllowed(p) == AllConfirmed(p) /\ ~p.cancelled /\ ~Resolved(p)
WithCancel(p) == Touched([p EXCEPT !.cancelled = TRUE, !.countReleased = TRUE])

SubmitCancelEvent(k) ==
  /\ Oracle(k)
  /\ \/ k \in pmp.cancels /\ Commit(Touched(pmp), <<>>, {})
     \/ /\ k \notin pmp.cancels /\ Cardinality(pmp.cancels) + 1 < Quorum(pmp)
        /\ Commit([Touched(pmp) EXCEPT !.cancels = @ \cup {k}], <<>>, {})
     \/ /\ k \notin pmp.cancels /\ Cardinality(pmp.cancels) + 1 >= Quorum(pmp)
        /\ CancelAllowed(pmp)
        /\ Commit(WithCancel([Touched(pmp) EXCEPT !.cancels = {}]), <<>>, Releases(pmp))

-----------------------------------------------------------------------------
(* Stakes and full sets. *)

StakeAllowed(p, n, m) ==
  /\ p.alive /\ p.approved /\ ~p.cancelled /\ ~Resolved(p) /\ ~p.frozen
  /\ now >= p.stakeStart /\ now < StakeEnd(p)
  /\ m.bet = "clean" /\ n = p.deployer => p.creatorForfeited[m.outcome] = 0
  /\ m.bet = "coupon" => CouponAllowed(p.pool, m.outcome, m.amount)

Real(bet, a) == IF bet = "coupon" THEN 0 ELSE a

WithStake(p, m) ==
  [p EXCEPT !.pool[m.bet][m.outcome] = @ + m.amount,
            !.totalPool = @ + Real(m.bet, m.amount),
            !.unclaimed = @ + Real(m.bet, m.amount)]

AcceptStake(n) ==
  /\ FromNote(n, "acceptStake")
  /\ \E m \in {Head(toPmp[n])} :
       \/ /\ StakeAllowed(pmp, n, m)
          /\ Commit(WithStake(Touched(pmp), m),
                    <<[to |-> n, type |-> "stakeAccepted", bet |-> m.bet]>>, {})
       \/ ~StakeAllowed(pmp, n, m) /\ Bounced(n)

FullSetOpen(p) ==
  /\ ~Resolved(p) /\ ~p.cancelled /\ now < p.resultStart
  /\ ~p.refundPending /\ SumFunction(p.units) > 0

WithSplit(p, t) ==
  [p EXCEPT !.pool["clean"] = Plus(@, Scale(t, p.units)),
            !.totalPool = @ + t * SumFunction(p.units),
            !.unclaimed = @ + t * SumFunction(p.units)]

SplitAllowed(p, f) == FullSetOpen(p) /\ f \div SumFunction(p.units) > 0

SplitOk(f) == pmp.alive /\ CanFreeze(pmp) /\ SplitAllowed(Frozen(pmp), f)

SplitFullSet(n) ==
  /\ FromNote(n, "splitFullSet")
  /\ \E f \in {Head(toPmp[n]).collateral} :
       \/ /\ SplitOk(f)
          /\ \E p \in {Frozen(pmp)} : \E t \in {f \div SumFunction(p.units)} :
               Commit(WithSplit(Touched(p), t),
                      FreezeMsgs(pmp) \o
                      <<[to |-> n, type |-> "splitAccepted",
                         amounts |-> Scale(t, p.units),
                         used |-> t * SumFunction(p.units)]>>, {})
       \/ ~SplitOk(f) /\ Bounced(n)

WithMerge(p, t) ==
  [p EXCEPT !.pool["clean"] = Minus(@, Scale(t, p.units)),
            !.totalPool = @ - t * SumFunction(p.units),
            !.unclaimed = Monus(@, t * SumFunction(p.units))]

MergeAllowed(p, amount) ==
  /\ FullSetOpen(p)
  /\ \A o \in Outcomes : p.units[o] = 0 => amount[o] = 0
  /\ Baskets(amount, p.units) > 0
  /\ \A o \in Outcomes : p.pool["clean"][o] >= Baskets(amount, p.units) * p.units[o]

MergeOk(amount) == pmp.alive /\ CanFreeze(pmp) /\ MergeAllowed(Frozen(pmp), amount)

MergeFullSet(n) ==
  /\ FromNote(n, "mergeFullSet")
  /\ \E amount \in {Head(toPmp[n]).amounts} :
       \/ /\ MergeOk(amount)
          /\ \E p \in {Frozen(pmp)} : \E t \in {Baskets(amount, p.units)} :
               Commit(WithMerge(Touched(p), t),
                      FreezeMsgs(pmp) \o
                      <<[to |-> n, type |-> "mergeAccepted",
                         value |-> Least(t * SumFunction(p.units), p.unclaimed),
                         amounts |-> Scale(t, p.units)]>>, {})
       \/ ~MergeOk(amount) /\ Bounced(n)

-----------------------------------------------------------------------------
(* Settlement: claims of a resolved market, refunds of a cancelled one,    *)
(* forfeits, and the close once only forfeited mass is left.               *)

\* Mutant: only the clean pools are compared.
OnlyForfeitedLeft_Clean(p) ==
  \A o \in Outcomes : p.forfeited["clean"][o] >= p.pool["clean"][o]

\* _poolsEqualForfeited.
OnlyForfeitedLeft(p) == Covers(p.forfeited, p.pool)

WinCloses(p) ==
  /\ Resolved(p) /\ p.bookDone /\ ~p.debtRefund
  /\ p.totalWin <= Mass(p.forfeited, p.resolved)

ResidualCloses(p) ==
  \/ /\ Resolved(p) /\ p.bookDone /\ p.debtRefund
     /\ p.debtRemaining <= SumFunction(p.forfeited["debt"])
  \/ ~Resolved(p) /\ p.cancelled /\ (~p.frozen \/ p.bookDone) /\ OnlyForfeitedLeft(p)

\* What the close sends to the creator.
Swept(p) ==
  IF Resolved(p) /\ ~p.debtRefund
  THEN Least(p.rewards.clean + p.rewards.debt + p.rewards.coupon, p.unclaimed)
  ELSE p.unclaimed

\* _tryClose, and the same tests at the end of claim and cancelStake.
Finish(p, out, lists) ==
  IF WinCloses(p) \/ ResidualCloses(p)
  THEN Destroy(p, out \o Fee(p, Swept(p)), lists \cup Releases(p))
  ELSE Commit(p, out, lists)

ClaimAccepted(n, o, pay, debtPaid) ==
  <<[to |-> n, type |-> "claimAccepted", outcome |-> o, value |-> PaidTotal(pay),
     coupon |-> pay.coupon, debtPaid |-> debtPaid]>>

NoPay == [clean |-> 0, debt |-> 0, coupon |-> 0]

\* A market without a winning side returns the debt stakes.
ClaimDebtRefund(n, p, d) ==
  Finish([p EXCEPT !.debtRemaining = @ - d, !.unclaimed = @ - d],
         ClaimAccepted(n, p.resolved, [NoPay EXCEPT !.debt = d], 0), {})

ClaimWin(n, p, pos, capped, pay) ==
  Finish([p EXCEPT !.rewards.clean = @ - capped.clean,
                   !.rewards.debt = @ - capped.debt,
                   !.rewards.coupon = @ - capped.coupon,
                   !.unclaimed = @ - PaidTotal(pay),
                   !.totalWin = Monus(@, Mass(pos, p.resolved))],
         ClaimAccepted(n, p.resolved, pay,
                       DebtPaid(p.rewards, capped.debt, pos["debt"][p.resolved])), {})

Claim(n) ==
  /\ FromNote(n, "claim")
  /\ \/ ~(pmp.alive /\ pmp.approved /\ pmp.bookDone) /\ Bounced(n)
     \/ /\ pmp.alive /\ pmp.approved /\ pmp.bookDone
        /\ \E pos \in {Head(toPmp[n]).pos} :
             \/ /\ ~Resolved(pmp)
                /\ Commit(Touched(pmp), ClaimAccepted(n, None, NoPay, 0), {})
             \/ /\ Resolved(pmp) /\ pmp.debtRefund
                /\ ClaimDebtRefund(n, Touched(pmp),
                     Least(Least(SumFunction(pos["debt"]), pmp.debtRemaining),
                           pmp.unclaimed))
             \/ /\ Resolved(pmp) /\ ~pmp.debtRefund
                /\ \E capped \in {Capped(pmp.rewards, pos, pmp.resolved)} :
                     ClaimWin(n, Touched(pmp), pos, capped, Trimmed(capped, pmp.unclaimed))

\* After the grace period a request to cancel a stake cancels the market.
GraceOver(p) == now > p.resultStart + GRACE_PERIOD /\ ~Resolved(p) /\ ~p.cancelled
AfterGrace(p) == IF GraceOver(p) THEN WithCancel(p) ELSE p

RefundAllowed(p, n, pos) ==
  /\ p.cancelled
  /\ ~p.frozen \/ p.bookDone
  /\ ~p.refundPending \/ n # p.deployer
  /\ Covers(p.pool, pos)

CancelOk(n, pos) ==
  /\ pmp.alive
  /\ GraceOver(pmp) => CancelAllowed(pmp)
  /\ RefundAllowed(AfterGrace(pmp), n, pos)

WithRefund(p, pos) ==
  [p EXCEPT !.pool = MinusAll(@, pos),
            !.totalPool = @ - RealTotal(pos),
            !.unclaimed = Monus(@, RealTotal(pos))]

CancelStake(n) ==
  /\ FromNote(n, "cancelStake")
  /\ \E pos \in {Head(toPmp[n]).pos} :
       \/ /\ CancelOk(n, pos)
          /\ Finish(WithRefund(Touched(AfterGrace(pmp)), pos),
                    <<[to |-> n, type |-> "stakeCancelled",
                       value |-> Least(RealTotal(pos), pmp.unclaimed),
                       coupon |-> SumFunction(pos["coupon"])]>>,
                    IF GraceOver(pmp) THEN Releases(pmp) ELSE {})
       \/ ~CancelOk(n, pos) /\ Bounced(n)

WithForfeit(p, n, pos) ==
  [p EXCEPT !.forfeited = PlusAll(@, pos),
            !.creatorForfeited = IF n = p.deployer THEN Plus(@, pos["clean"]) ELSE @]

ForfeitStake(n) ==
  /\ FromNote(n, "forfeitStake")
  /\ \/ /\ pmp.alive
        /\ Finish(WithForfeit(Touched(pmp), n, Head(toPmp[n]).pos),
                  <<Msg(n, "forfeitAccepted")>>, {})
     \/ ~pmp.alive /\ Bounced(n)

-----------------------------------------------------------------------------
(* The order book. *)

\* The drain ends and the book's last message leaves for the market.
BookDrained ==
  /\ book = "closing" /\ book' = "done"
  /\ UNCHANGED <<pmp, toPmp, toNote, toList, fromList, now>>

ReportTo(p) == [Touched(p) EXCEPT !.bookDone = TRUE]

OnOrderBookShutdownComplete ==
  /\ book = "done" /\ book' = "gone"
  /\ UNCHANGED <<toPmp, fromList>>
  /\ \/ ~pmp.alive /\ UNCHANGED <<pmp, toNote, toList, now>>
     \/ /\ pmp.alive
        /\ \E p \in {ReportTo(pmp)} :
             \/ /\ WinCloses(p) \/ ResidualCloses(p)
                /\ Effects(Fresh, Fee(p, Swept(p)), Releases(p))
             \/ /\ ~(WinCloses(p) \/ ResidualCloses(p))
                /\ Effects(p, <<>>, {})
=============================================================================
